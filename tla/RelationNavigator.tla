-------------------------- MODULE RelationNavigator --------------------------
(***************************************************************************)
(* UTIL::LCRelationNavigator keeps weighted relations between objects in   *)
(* two maps, one for each direction, is made from an LCRelation collection *)
(* and makes one.  A file keeps the weights only if the collection says so. *)
(* Weights are counted in halves: One is the weight 1.                     *)
(***************************************************************************)
EXTENDS Integers, Sequences, SequencesExt, Functions

CONSTANTS
  FromObjects, ToObjects,
  Weights,     \* given to addRelation, negative ones too
  MaxWeight    \* bound: of the sum, in both directions

ASSUME WeightsAssumption == Weights \subseteq Int /\ MaxWeight \in Nat

One == 2

VARIABLES
  relTo,      \* _map: from -> sequence of [obj, weight]
  relFrom,    \* _rMap: the same from the other side
  relations   \* history: the relations a client means, <<from, to>> -> weight

relVars == <<relTo, relFrom, relations>>

RelInit == relTo = << >> /\ relFrom = << >> /\ relations = << >>

Entry(map, key) == IF key \in DOMAIN map THEN map[key] ELSE << >>
With(map, key, value) == [k \in DOMAIN map \cup {key} |-> IF k = key THEN value ELSE map[k]]

\* The first place of obj in an entry, 0 if there is none.
PlaceOf(entry, obj) ==
  LET at == {i \in DOMAIN entry : entry[i].obj = obj}
  IN IF at = {} THEN 0 ELSE CHOOSE i \in at : \A j \in at : i <= j

\* addRelation( from, to, weight, map ): one entry for a pair, weights add up.
Added(map, key, obj, w) ==
  LET entry == Entry(map, key)
      i == PlaceOf(entry, obj)
  IN With(map, key, IF i = 0 THEN Append(entry, [obj |-> obj, weight |-> w])
                    ELSE [entry EXCEPT ![i].weight = @ + w])

\* removeRelation( from, to, map ): an entry that is empty goes.
Removed(map, key, obj) ==
  LET entry == Entry(map, key)
      i == PlaceOf(entry, obj)
  IN IF i = 0 THEN map
     ELSE IF Len(entry) = 1 THEN Restrict(map, DOMAIN map \ {key})
     ELSE With(map, key, RemoveAt(entry, i))

AddRelation(from, to, w) ==
  /\ LET sum == IF <<from, to>> \in DOMAIN relations THEN relations[<<from, to>>] + w ELSE w
     IN /\ sum \in -MaxWeight..MaxWeight
        /\ relations' = With(relations, <<from, to>>, sum)
  /\ relTo' = Added(relTo, from, to, w) /\ relFrom' = Added(relFrom, to, from, w)

RemoveRelation(from, to) ==
  /\ relations' = Restrict(relations, DOMAIN relations \ {<<from, to>>})
  /\ relTo' = Removed(relTo, from, to) /\ relFrom' = Removed(relFrom, to, from)

\* getRelatedToObjects and getRelatedToWeights: operator[] makes an entry.
GetRelated(from) ==
  relTo' = With(relTo, from, Entry(relTo, from)) /\ UNCHANGED <<relFrom, relations>>

\* createLCCollection: its elements and its flag.
Elements(keys) ==
  FlattenSeq([k \in DOMAIN keys |->
    [i \in DOMAIN relTo[keys[k]] |->
       [from |-> keys[k], to |-> relTo[keys[k]][i].obj, weight |-> relTo[keys[k]][i].weight]]])

\* Mutant: weights below 1 are taken for none.
OnlyLarge(elements) == \E i \in DOMAIN elements : elements[i].weight > One
Weighted(elements) == \E i \in DOMAIN elements : elements[i].weight # One

\* The handler of relations leaves out and makes up a weight of 1.
ReadBack(elements) ==
  IF Weighted(elements) THEN elements
  ELSE [i \in DOMAIN elements |-> [elements[i] EXCEPT !.weight = One]]

\* initialize: the relations of a collection are added one by one.
Initialized(elements) ==
  LET after[i \in 0 .. Len(elements)] ==
        IF i = 0 THEN [to |-> << >>, from |-> << >>]
        ELSE LET r == elements[i]
             IN [to   |-> Added(after[i - 1].to, r.from, r.to, r.weight),
                 from |-> Added(after[i - 1].from, r.to, r.from, r.weight)]
  IN after[Len(elements)]

\* The collection goes to a file and back, and a navigator is made from it.
\* The objects have other addresses then, so the keys another order.
ThroughFile ==
  /\ \E keys \in SetToSeqs(DOMAIN relTo) :
       LET made == Initialized(ReadBack(Elements(keys)))
       IN relTo' = made.to /\ relFrom' = made.from
  /\ UNCHANGED relations

RelNext ==
  \/ \E f \in FromObjects, t \in ToObjects, w \in Weights : AddRelation(f, t, w)
  \/ \E f \in FromObjects, t \in ToObjects : RemoveRelation(f, t)
  \/ \E f \in FromObjects : GetRelated(f)
  \/ ThroughFile

RelSpec == RelInit /\ [][RelNext]_relVars

-----------------------------------------------------------------------------
Triples(map) ==
  UNION {{<<k, map[k][i].obj, map[k][i].weight>> : i \in DOMAIN map[k]} : k \in DOMAIN map}

\* Both directions hold the relations the client made and did not remove, each
\* once and with the sum of its weights, after any number of files.
RelationsKept ==
  /\ Triples(relTo) = {<<p[1], p[2], relations[p]>> : p \in DOMAIN relations}
  /\ Triples(relFrom) = {<<p[2], p[1], relations[p]>> : p \in DOMAIN relations}
  /\ \A map \in {relTo, relFrom} : \A k \in DOMAIN map :
       \A i, j \in DOMAIN map[k] : map[k][i].obj = map[k][j].obj => i = j
=============================================================================
