CONSTANTS
  Servers = {s1, s2}
  Conns = {c1, c2}
  NoServer = NoServer
  NoConn = NoConn
  Reauth = FALSE
SPECIFICATION FairSpec
INVARIANTS TypeOK RegisteredIsLive AuthenticatedIsReachable
PROPERTIES ImplementsRegistry SilentIsEvicted DeadIsReleased
