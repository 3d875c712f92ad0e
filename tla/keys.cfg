CONSTANTS
  Servers = {s1}
  Conns = {c1, c2, c3}
  NoConn = NoConn
  Agents = {a1, a2}
  NoAgent = NoAgent
  MaxKeys = 2
  MaxDials = 2
SPECIFICATION KeysSpec
INVARIANTS KeysType FirstUseHolds ResetTakes
PROPERTIES OnlyResetsReplace
SYMMETRY Interchangeable
CHECK_DEADLOCK FALSE
