SPECIFICATION FairSpec
CONSTANTS
  Half = 8
  a = a
  b = b
  d = d
  None = None
  Files <- MCFiles
  Contents <- StreamContents
  Lists <- StreamLists
  Asked <- Nobody
  Listeners <- MCListeners
  MaxCalls = 4
  MaxSkip = 2
  Batch = 2
  NewReaders = TRUE
PROPERTIES
  ToldOnce
  StreamEnds
CHECK_DEADLOCK FALSE
