SPECIFICATION FairSpec
CONSTANTS
  Clients = {c1, c2}
  Handlers = {h1, h2}
  Cells = {x1, x2, x3}
  None = none
  Free = free
  BACKLOG = 1
  UNITS = 2
INVARIANT
  HandoverIsSafe
PROPERTIES
  EveryClientEnds
CHECK_DEADLOCK FALSE
