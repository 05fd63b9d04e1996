SPECIFICATION Spec
CONSTANTS
  ReaderEvents = {e1}
  ClientEvents = {e2}
  Names = {n1, n2}
  Addrs = {a1, a2}
  Objects = {o1, o2}
  FlagsLate = FALSE
  TrustsRemove = TRUE
SYMMETRY Symmetric
INVARIANTS
  OneOwner
CHECK_DEADLOCK FALSE
