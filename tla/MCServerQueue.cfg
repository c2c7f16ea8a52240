SPECIFICATION Spec
CONSTANTS
  Clients = {c1, c2, c3}
  Workers = {w1, w2}
  Main = main
  None = none
  QUEUE_SIZE = 2
  BACKLOG = 1
  UNITS = 3
SYMMETRY Symmetry
INVARIANTS
  OneOwner
  NoLostWakeup
  EchoConservation
  KilledByEarlyCloseOnly
PROPERTIES
  HandoffSpec
  ServiceSpec
CHECK_DEADLOCK FALSE
