SPECIFICATION MultiProtoSpec
CONSTANTS
  Servers = {s1}
  Clients = {c1, c2}
  UdpClients = {u1, u2}
  UDP_QUEUE = 1
  UNITS = 2
  BACKLOG = 1
  PAIR_BACKLOG = 0
  None = none
INVARIANTS
  ReadinessNotStale
  LeftOnlyAfterEcho
  OneReplyEach
PROPERTIES
  UdpNotStarved
CHECK_DEADLOCK FALSE
