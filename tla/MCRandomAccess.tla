--------------------------- MODULE MCRandomAccess ---------------------------
(***************************************************************************)
(* LCIORandomAccess with LCIORandomAccess records of four units and others *)
(* of three or five: the first record of an append session is shorter than *)
(* the file record it is written over in the runs with crashes, and longer *)
(* in the run without.                                                     *)
(***************************************************************************)
EXTENDS LCIORandomAccess
=============================================================================
