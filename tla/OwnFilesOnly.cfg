SPECIFICATION Spec
CONSTANTS
  Half = 8
  a = a
  b = b
  d = d
  None = None
  Files <- MCFiles
  Contents <- MCContents
  Lists <- MCLists
  Asked <- MCAsked
  Listeners <- Nobody
  MaxCalls = 4
  MaxSkip = 2
  Batch = 2
  NewReaders = FALSE
INVARIANT
  OwnFilesOnly
CHECK_DEADLOCK FALSE
