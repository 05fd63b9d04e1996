--------------------------- MODULE MCParticleFamily ---------------------------
(***************************************************************************)
(* The relations of MC particles.  In memory parents and daughters are two *)
(* lists that addParent keeps together; a file has the parents only, and   *)
(* SIOReader::postProcessEvent makes the daughters from them, collection   *)
(* by collection, before it looks for null pointers in subset collections. *)
(* The end point of a particle is set, or it is the vertex of a daughter.  *)
(***************************************************************************)
EXTENDS Naturals, Sequences, FiniteSets, Functions

CONSTANTS
  Placements,  \* which collection each particle is in: sequences of names
  ColOrder,    \* the names of the collections in the order of the map
  SubsetName,  \* the one that is a subset collection of the others
  Subsets,     \* what may be in the subset collection: sets of particles
  Across,      \* may a parent be in another collection than its daughter?
  StatusLate,  \* may the simulator status be set after the end point?
  InOrder,     \* do parents come first, and are daughters given in their order?
  MaxEvents    \* bound: times the event goes through a file

ASSUME FamilyAssumption ==
  /\ Across \in BOOLEAN /\ StatusLate \in BOOLEAN /\ InOrder \in BOOLEAN
  /\ Placements \subseteq Seq(Range(ColOrder) \ {SubsetName}) /\ ColOrder \in Seq(Range(ColOrder))
  /\ MaxEvents \in Nat

VARIABLES
  place,    \* particle -> collection
  family,   \* the particles in memory
  outcome,  \* of reading the event: "ok", "throws" or "undefined"
  seen,     \* history: what clients saw of the particles, before and after
  events

famVars == <<place, family, outcome, seen, events>>

NoParticle == 0
Origin == 0      \* the point ( 0., 0., 0. ); a vertex is named for its particle
SetPoint == Len(place) + 1
NewParticle == [parents |-> << >>, daughters |-> << >>,
                endSet |-> FALSE, notEnd |-> FALSE, endpoint |-> Origin]

FamInit ==
  /\ place \in Placements
  /\ family = [p \in DOMAIN place |-> NewParticle]
  /\ outcome = "ok" /\ events = 0
  /\ seen = [before |-> << >>, after |-> << >>]

-----------------------------------------------------------------------------
(* MCParticleImpl *)

MayChange(p) == p \in DOMAIN family /\ outcome = "ok"

AddParent(c, p) ==
  /\ MayChange(c) /\ MayChange(p) /\ c # p
  /\ Across \/ place[c] = place[p]
  /\ InOrder => p < c /\ \A d \in Range(family[p].daughters) : d < c
  /\ p \notin Range(family[c].parents)
  /\ family' = [family EXCEPT ![c].parents = Append(@, p), ![p].daughters = Append(@, c)]
  /\ UNCHANGED <<place, outcome, seen, events>>

SetEndpoint(p) ==
  /\ MayChange(p)
  /\ family' = [family EXCEPT ![p].endSet = TRUE, ![p].endpoint = SetPoint]
  /\ UNCHANGED <<place, outcome, seen, events>>

\* The status is assigned, the bit of the end point with it.
SetSimulatorStatus(p, notEnd) ==
  /\ MayChange(p)
  /\ StatusLate \/ ~family[p].endSet
  /\ family' = [family EXCEPT ![p].endSet = FALSE, ![p].notEnd = notEnd]
  /\ UNCHANGED <<place, outcome, seen, events>>

SetVertexIsNotEndpointOfParent(p, notEnd) ==
  /\ MayChange(p)
  /\ family' = [family EXCEPT ![p].notEnd = notEnd]
  /\ UNCHANGED <<place, outcome, seen, events>>

\* The end point: as set, or where the first daughter begins that says so.
GetEndpoint(f, p) ==
  LET d == f[p].daughters
      ends == {i \in DOMAIN d : ~f[d[i]].notEnd}
  IN IF f[p].endSet \/ ends = {} THEN f[p].endpoint
     ELSE d[CHOOSE i \in ends : \A j \in ends : i <= j]

Looks(f, p) == [parents |-> f[p].parents, daughters |-> f[p].daughters,
                endpoint |-> GetEndpoint(f, p)]

-----------------------------------------------------------------------------
(* The file between. *)

\* What the handler writes and reads, of the particles in stored: parents that
\* are not stored are null, the end point is there if the status says so.
ThroughHandler(f, stored) ==
  [p \in stored |->
     [f[p] EXCEPT !.parents = [i \in DOMAIN @ |-> IF @[i] \in stored THEN @[i] ELSE NoParticle],
                  !.daughters = << >>,
                  !.endpoint = IF f[p].endSet THEN @ ELSE Origin]]

Times(s, x) == Cardinality({i \in DOMAIN s : s[i] = x})
Copies(col, i, p, lists) ==
  [n \in 1 .. IF i \in col THEN Times(lists[i], p) ELSE 0 |-> i]
\* The members of col, which are met in the order of their numbers, that have p
\* in their list, once for each time it is there.
Having(col, p, lists) ==
  LET having[i \in 0 .. Len(place)] ==
        IF i = 0 THEN << >> ELSE having[i - 1] \o Copies(col, i, p, lists)
  IN having[Len(place)]
AnyIn(col, lists) == \E p \in col : lists[p] # << >>

\* restoreParentDaughterRelations, of the particles of one collection.
RestoreOne(f, col) ==
  LET parents == [p \in DOMAIN f |-> f[p].parents]
      daughters == [p \in DOMAIN f |-> f[p].daughters]
      newParents == ~AnyIn(col, parents) /\ AnyIn(col, daughters)
      newDaughters == AnyIn(col, parents) /\ ~AnyIn(col, daughters)
  IN [p \in DOMAIN f |->
       [f[p] EXCEPT
         !.parents = IF newParents THEN @ \o Having(col, p, daughters) ELSE @,
         !.daughters = IF newDaughters THEN @ \o Having(col, p, parents) ELSE @]]

\* Mutant: subset collections are treated like the others.
WhateverFlag(name) == TRUE
\* Subset collections are left out.
IsRestored(name) == name # SubsetName
\* With NoParticle among the particles: what it is given goes to a null pointer.
WithNoParticle(f) ==
  [p \in DOMAIN f \cup {NoParticle} |-> IF p = NoParticle THEN NewParticle ELSE f[p]]
\* The collections of the event, one after the other.
RestoreNamed(f, cols, name) ==
  IF name \in DOMAIN cols /\ IsRestored(name) THEN RestoreOne(f, cols[name]) ELSE f
RestoreAll(f, cols) ==
  LET after[i \in 0 .. Len(ColOrder)] ==
        IF i = 0 THEN WithNoParticle(f) ELSE RestoreNamed(after[i - 1], cols, ColOrder[i])
  IN after[Len(ColOrder)]

\* The event is written, but for the collections in dropped, with a subset
\* collection of the particles in sub, and read: postProcessEvent restores the
\* daughters, and throws if the subset collection has a null pointer.
ThroughFamilyFile(dropped, sub) ==
  /\ outcome = "ok" /\ events < MaxEvents
  /\ LET stored == {p \in DOMAIN family : place[p] \notin dropped}
         names == {place[p] : p \in stored} \cup {SubsetName}
         cols == [n \in names |-> IF n = SubsetName THEN sub \cap stored
                                  ELSE {p \in stored : place[p] = n}]
         restored == RestoreAll(ThroughHandler(family, stored), cols)
     IN /\ family' = [p \in stored |-> restored[p]]
        /\ outcome' = IF restored[NoParticle].daughters # << >> THEN "undefined"
                      ELSE IF sub \subseteq stored THEN "ok" ELSE "throws"
        /\ seen' = [before |-> [p \in stored |-> Looks(family, p)],
                    after |-> [p \in stored |-> Looks(family', p)]]
  /\ events' = events + 1
  /\ UNCHANGED place

FamNext ==
  \/ \E c, p \in DOMAIN place : AddParent(c, p)
  \/ \E p \in DOMAIN place : SetEndpoint(p)
  \/ \E p \in DOMAIN place, b \in BOOLEAN :
       SetSimulatorStatus(p, b) \/ SetVertexIsNotEndpointOfParent(p, b)
  \/ \E dropped \in SUBSET Range(place), sub \in Subsets :
       ThroughFamilyFile(dropped, sub \cap DOMAIN family)

FamSpec == FamInit /\ [][FamNext]_famVars

-----------------------------------------------------------------------------
\* The file has parents only; all the same a reader sees the parents, the
\* daughters and the end point (MCParticle.aid:169) of every particle that is
\* read as they were when it was written, whichever other collections were
\* dropped, and the event with null pointers does not get to it.
FamilyKept == outcome # "undefined" /\ (outcome = "ok" => seen.after = seen.before)
=============================================================================
