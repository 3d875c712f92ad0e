SPECIFICATION Spec
CONSTANTS
  Tasks = {a1, a2, c1}
  CommandLine = {c1}
  Rows = {r1}
  None = None
  Polite = TRUE
  MaxUpdates = 2
INVARIANTS TypeOK Recoverable OnlyVerified NoLockout ApiUpdateRestarts
PROPERTIES FailureRestores
