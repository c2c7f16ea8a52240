SPECIFICATION FairSpec
CONSTANTS
  Clients = {c1, c2, c3}
  Handlers = {h1, h2, h3}
  MAX_THREADS = 2
  Main = main
  None = none
  BACKLOG = 1
  UNITS = 2
INVARIANTS
  PoolShrinksOnlyByFailures
  OneClientAtATime
PROPERTIES
  EveryConnectionServed
CHECK_DEADLOCK FALSE
