SPECIFICATION AnySpec
CONSTANTS
  Classes = {"LCSplitWriter"}
  Bases = {"a"}
  MaxBytes = 4
  Sizes = {1, 2, 4, 5}
  TocSize = 2
  Occupied <- MCOccupied
  DiskMayFail = TRUE
  Insists = TRUE
  MaxRecords = 6
  MaxOpens = 2
  MaxFiles = 6
  FromObjects = {"f1", "f2"}
  ToObjects = {"t1", "t2"}
  Weights <- MCWeights
  MaxWeight = 2
  WordBits = 4
  Encodings <- MCEncodings
  Hits = {"h1", "h2"}
  TopValue = FALSE
  KeepsDecoder = FALSE
  Handlers = {"h"}
  Algorithms = {"alg1", "alg2"}
  Params = {0, 1}
  Likelihoods = {0, 1, 2}
  Particles = {"p1", "p2"}
  LooksEverywhere = FALSE
  MaxPIDs = 2
  Placements <- MCPlacements
  ColOrder <- MCColOrder
  SubsetName = "0sub"
  Subsets <- MCSubsets
  Across = FALSE
  StatusLate = FALSE
  InOrder = TRUE
  MaxEvents = 2
INVARIANTS
  NoStreamUsedAfterClose
CHECK_DEADLOCK FALSE
