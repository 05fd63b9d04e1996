SPECIFICATION Spec
CONSTANTS
  Contents <- MCContents
  SIO_ptag = 99
  Failures = {"alloc", "disk", "packing", "status", "throw"}
  FirstBuffer = 3
  MaxRecords = 2
  MaxReads = 3
  MaxBad = 1
  Wanted <- MCWanted
INVARIANTS
  TypeOK
  RecordSelfContained
  PointersHome
CHECK_DEADLOCK FALSE
