CONSTANTS
  Commands = {k1, k2}
  Pids = {p1, p2}
  NoPid = NoPid
  MaxPort = 2
SPECIFICATION ProcessSpec
INVARIANTS ProcessType PidFileFindsPanel StopIsFinal PanelServes
SYMMETRY Interchangeable
