SPECIFICATION QueuesSpec
CONSTANTS
  Servers = {s1, s2, s3}
  Clients = {c1, c2}
  Objects = {o1}
  Fifos = {f1}
  Queues = {q1, q2, q3}
  mq_maxmsg = 2
  CAPACITY = 2
  None = none
INVARIANTS
  LeftoversBounded
  AnsweredByClients
PROPERTIES
  ServerEnds
  ClientsEnd
CHECK_DEADLOCK FALSE
