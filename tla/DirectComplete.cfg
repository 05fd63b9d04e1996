CONSTANTS
  Half = 128
  Runs = {1}
  Evts = {0, 1}
  DataLen = 3
  AccLen = 4
  HeadLen = 2
  MaxSessions = 2
  MaxPuts = 2
  MaxCrashes = 1
  UniqueKeys = TRUE
  WholeRuns = TRUE
  None = None
SPECIFICATION Spec
INVARIANT
  DirectComplete
CHECK_DEADLOCK FALSE
