SPECIFICATION Spec
CONSTANTS
  Contents <- MCContents
  SIO_ptag = 99
  Failures = {"throw"}
  FirstBuffer = 3
  MaxRecords = 2
  MaxReads = 2
  MaxBad = 1
  Wanted <- MCWanted
INVARIANTS
  NextRecordUnharmed
CHECK_DEADLOCK FALSE
