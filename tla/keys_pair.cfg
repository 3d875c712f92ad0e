CONSTANTS
  Servers = {s1}
  Conns = {c1, c2}
  NoConn = NoConn
  Agents = {a1}
  NoAgent = NoAgent
  MaxKeys = 2
  MaxDials = 1
SPECIFICATION KeysSpec
INVARIANTS PanelKeyIsStored
CHECK_DEADLOCK FALSE
