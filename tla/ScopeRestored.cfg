SPECIFICATION Spec
CONSTANTS
  Readers = {r1, r2}
  Writers = {w1, w2}
  Names = {"x", "y", "z", "u"}
  Supported = {"hit", "track"}
  Stored <- MCStored
  Given <- MCGiven
  Subsets <- MCSubsets
  Nobody = Nobody
  MaxCalls = 8
INVARIANTS
  ScopeRestored
CHECK_DEADLOCK FALSE
