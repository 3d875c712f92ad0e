CONSTANTS
  Addresses = {ip1}
  Logins = {l1, l2}
  Changes = {x1}
  Limits = {1, 2}
  DefaultLimit = 2
  AtOnce = 2
  MaxCount = 3
  MaxSpent = 1
SPECIFICATION AccessSpec
INVARIANTS AccessType GuessesAreBounded
SYMMETRY Interchangeable
CHECK_DEADLOCK FALSE
