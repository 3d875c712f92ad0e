CONSTANTS
  Servers = {s1}
  Conns = {c1, c2}
  NoConn = NoConn
  Moving = {s1}
  Channels = {"email"}
  MaxChanges = 1
  MaxAtWork = 2
SPECIFICATION NoticesSpec
INVARIANTS NoticesType StatusFollowsRegistry ShownIsStored LastNoticeIsTrue OncePerCooldown
PROPERTIES AnnouncedOnce
SYMMETRY Interchangeable
