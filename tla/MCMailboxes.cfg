SPECIFICATION MailboxesSpec
CONSTANTS
  Servers = {s1, s2}
  Clients = {c1, c2}
  Objects = {o1, o2}
  Fifos = {f1, f2}
  Queues = {q1, q2}
  mq_maxmsg = 1
  CAPACITY = 1
  None = none
INVARIANTS
  HearsAClient
  FifoIsSafe
PROPERTIES
  WriterFreesServer
  MeetingEnds
CHECK_DEADLOCK FALSE
