SPECIFICATION Spec
CONSTANTS
  Half = 8
  a = a
  b = b
  d = d
  None = None
  Files <- MCFiles
  Contents <- MCContents
  Lists <- MCLists
  Asked <- MCAsked
  Listeners <- Nobody
  MaxCalls = 5
  MaxSkip = 2
  Batch = 2
  NewReaders = TRUE
INVARIANTS
  TypeOK
PROPERTIES
  ImplementsCursor
CHECK_DEADLOCK FALSE
