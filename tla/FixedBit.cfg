SPECIFICATION Spec
CONSTANTS
  Shapes <- MCShapes
  MixedSizes = TRUE
  MaxObjects = 2
  MaxWrites = 2
INVARIANTS
  FixedBitIsTrue
CHECK_DEADLOCK FALSE
