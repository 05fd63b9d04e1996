------------------------- MODULE MCIndexRoundTrip -------------------------
(***************************************************************************)
(* IndexRoundTrip with ints of four bits (-8 .. 7): positions up to 12     *)
(* make offsets that do not fit, and the run numbers reach both ends.      *)
(***************************************************************************)
EXTENDS IndexRoundTrip

MCRuns == {-8, 1, 7}
MCEvts == {0, 7}
MCPositions == {0, 3, 7, 12}
=============================================================================
