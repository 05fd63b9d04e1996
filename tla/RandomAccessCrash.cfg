CONSTANTS
  Half = 128
  Runs = {1}
  Evts = {0, 1}
  DataLen = 3
  AccLen = 4
  HeadLen = 2
  MaxSessions = 3
  MaxPuts = 2
  MaxCrashes = 2
  UniqueKeys = TRUE
  WholeRuns = TRUE
  None = None
SPECIFICATION Spec
INVARIANTS
  TypeOK
  Layout
  DirectSound
  ChainEnds
PROPERTIES
  RecordsKept
  ReadableKept
  ImplementsStore
CHECK_DEADLOCK FALSE
