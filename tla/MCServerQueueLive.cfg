SPECIFICATION FairSpec
CONSTANTS
  Clients = {c1, c2}
  Workers = {w1, w2}
  Main = main
  None = none
  QUEUE_SIZE = 1
  BACKLOG = 1
  UNITS = 2
PROPERTY
  NobodyLeftWaiting
CHECK_DEADLOCK FALSE
