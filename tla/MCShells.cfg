SPECIFICATION ShellsSpec
CONSTANTS
  Shell = shell
  Left = left
  Right = right
  Only = only
  PIPE_BUF = 1
  OUTPUT = 3
  Processes = {p0, p1, p2, p3}
  Root = p0
  WORD = 3
INVARIANTS
  CleanPrompt
  PipeTellsTheTruth
  OneForeground
PROPERTIES
  EveryLineEnds
  EndsAfterEof
CHECK_DEADLOCK FALSE
