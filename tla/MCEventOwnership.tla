--------------------------- MODULE MCEventOwnership ---------------------------
(***************************************************************************)
(* An instance of EventOwnership: a reader's event and one of the client.  *)
(***************************************************************************)
EXTENDS EventOwnership, TLC

Symmetric == Permutations(Addrs) \cup Permutations(Objects) \cup Permutations(Names)
=============================================================================
