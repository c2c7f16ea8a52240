SPECIFICATION FileManagerSpec
CONSTANTS
  Top = top
  A = dirA
  B = dirB
  ASub = dirASub
  BSub = dirBSub
  here = here
  up = up
  a = a
  b = b
  subdir = subdir
  file = file
  None = none
  Dirs <- MCDirs
  Entries <- MCEntries
  Target <- MCTarget
  Start = top
  HEIGHT = 2
  Persons = {n1, n2}
  Others = {o1, o2}
  MAX_ABONENTS = 3
  MAX_RECORDS = 4
  Zero = zero
  BYTE = 2
  HALF = 3
  WORDS = 3
  Letters = {a, b}
  TEXT = 4
  SIZE = 6
  NUM_STORES = 2
  NUM_CUSTOMERS = 2
  STORE_CAPACITY = 2
  MAX_NEED = 2
  LOADER_INCREMENT = 1
  STORE_BOUND = 2
  Loader = loader
INVARIANTS
  CursorVisible
PROPERTIES
  MovesFromLastEntered
CHECK_DEADLOCK FALSE
