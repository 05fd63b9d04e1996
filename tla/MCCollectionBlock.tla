-------------------------- MODULE MCCollectionBlock --------------------------
(***************************************************************************)
(* An instance of CollectionBlock: every type with every flag word; lists  *)
(* that are empty and not, particles with and without end point, vertices  *)
(* of two algorithms, generic objects of fixed and of free size.           *)
(***************************************************************************)
EXTENDS CollectionBlock

Shape == [n |-> 0, m |-> 0, endpoint |-> FALSE, cov |-> 15, alg |-> 0,
          fixed |-> FALSE, nInt |-> 0, nFloat |-> 0]

MCShapes(type) ==
  CASE type = "LCGenericObject" ->
         {[Shape EXCEPT !.fixed = x[1], !.nInt = x[2], !.nFloat = x[3]] :
            x \in {<<TRUE, 1, 0>>, <<TRUE, 1, 2>>, <<FALSE, 1, 0>>, <<FALSE, 0, 1>>}}
    [] type = "Vertex" -> {[Shape EXCEPT !.n = x, !.alg = y] : x \in {0, 2}, y \in 1..2}
    [] type = "MCParticle" -> {[Shape EXCEPT !.n = x, !.endpoint = y] : x \in {0, 2}, y \in BOOLEAN}
    [] OTHER -> {[Shape EXCEPT !.n = x, !.m = y] : x \in {0, 3}, y \in {0, 1}}
=============================================================================
