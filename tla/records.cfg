CONSTANTS
  Servers = {s1, s2}
  Groups = {g1}
  Requests = {r1, r2}
  None = None
  Empty = Empty
  BaseRules = {cpu}
  OtherRules = {}
  Channels = {email}
  Tables = {metrics}
  Logs = {}
  AtOnce = 2
  Dialling = {s1}
SPECIFICATION RecordsSpec
INVARIANTS RecordsType ConfigAgrees NoOrphans

CHECK_DEADLOCK FALSE
SYMMETRY Interchangeable
