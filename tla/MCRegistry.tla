----------------------------- MODULE MCRegistry ------------------------------
(***************************************************************************)
(* An instance of SIORegistry: two readers and two writers; a collection   *)
(* that all have, one whose type differs between files and is unsupported  *)
(* in one of them, and one that only writers have.                         *)
(***************************************************************************)
EXTENDS SIORegistry

MCStored == {[x |-> "hit"], [x |-> "hit", y |-> "hit"], [y |-> "track"], [x |-> "hit", y |-> "other"]}
MCGiven == {[x |-> "hit", z |-> "hit"], [z |-> "hit"], [x |-> "hit", u |-> "other"]}
MixedGiven == {[y |-> "hit"]}
MCSubsets == {{"x"}}
=============================================================================
