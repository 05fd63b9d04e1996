CONSTANTS
  Half = 128
  Runs = {1, 2}
  Evts = {0, 1}
  DataLen = 5
  AccLen = 4
  HeadLen = 2
  MaxSessions = 3
  MaxPuts = 4
  MaxCrashes = 0
  UniqueKeys = TRUE
  WholeRuns = TRUE
  None = None
SPECIFICATION Spec
INVARIANTS
  ChainComplete
  DirectIsSequential
  ReadsOwnPayload
CHECK_DEADLOCK FALSE
