SPECIFICATION PairsSpec
CONSTANTS
  Servers = {s1, s2}
  Clients = {c1, c2}
  UdpClients = {}
  UDP_QUEUE = 1
  UNITS = 1
  BACKLOG = 1
  PAIR_BACKLOG = 0
  None = none
INVARIANTS
  ServerReachable
  OwnReply
PROPERTIES
  PromisedClientEnds
CHECK_DEADLOCK FALSE
