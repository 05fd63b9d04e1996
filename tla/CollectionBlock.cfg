SPECIFICATION Spec
CONSTANTS
  Shapes <- MCShapes
  MixedSizes = FALSE
  MaxObjects = 2
  MaxWrites = 2
INVARIANTS
  TypeOK
  ReadsWhatWasWritten
  RewriteStable
CHECK_DEADLOCK FALSE
