------------------------------ MODULE PIDHandler ------------------------------
(***************************************************************************)
(* UTIL::PIDHandler numbers the algorithms that identified the particles   *)
(* of a collection.  It takes what is known from the collection's          *)
(* parameters when it is made, and puts all it knows there when it is      *)
(* destroyed (its CollectionParameterMap too); in between the ParticleID   *)
(* objects have numbers that the collection does not explain.              *)
(***************************************************************************)
EXTENDS Integers, Sequences, FiniteSetsExt, SequencesExt, Functions

CONSTANTS
  Handlers,      \* that may be there at a time
  Algorithms,    \* names
  Params,        \* numbers of parameters of an algorithm
  Likelihoods,   \* naturals, 0 is that of a new ParticleID
  Particles,
  LooksEverywhere, \* does a client call getParticleID for what is not there?
  MaxPIDs        \* bound: ParticleID objects of a particle

VARIABLES
  pidParams,  \* the collection's parameters: algorithm -> [id, n]
  handlers,   \* handlers: what they know, algorithm -> [id, n], and _maxID
  pids        \* particle -> sequence of [alg, likelihood, n]

pidVars == <<pidParams, handlers, pids>>

NoHandler == [live |-> FALSE, known |-> << >>, maxID |-> -1]
IdsOf(known) == {known[a].id : a \in DOMAIN known}

PIDInit ==
  /\ pidParams = << >>
  /\ handlers = [h \in Handlers |-> NoHandler]
  /\ pids = [p \in Particles |-> << >>]

\* Mutant: numbers start again with every handler.
StartOver(known) == -1
MaxOf(known) == Max(IdsOf(known) \cup {-1})

\* PIDHandler( col ) and init: duplicate ids throw.
MakeHandler(h) ==
  /\ ~handlers[h].live /\ IsInjective([a \in DOMAIN pidParams |-> pidParams[a].id])
  /\ handlers' = [handlers EXCEPT ![h] =
       [live |-> TRUE, known |-> pidParams, maxID |-> MaxOf(pidParams)]]
  /\ UNCHANGED <<pidParams, pids>>

\* addAlgorithm: throws if the name is known.
AddAlgorithm(h, a, n) ==
  /\ handlers[h].live /\ a \notin DOMAIN handlers[h].known
  /\ LET id == handlers[h].maxID + 1
         known == handlers[h].known
     IN handlers' = [handlers EXCEPT ![h] =
          [live |-> TRUE, maxID |-> id,
           known |-> [b \in DOMAIN known \cup {a} |->
                        IF b = a THEN [id |-> id, n |-> n] ELSE known[b]]]]
  /\ UNCHANGED <<pidParams, pids>>

\* ~PIDHandler and ~CollectionParameterMap: the lists are replaced.
DestroyHandler(h) ==
  /\ handlers[h].live
  /\ pidParams' = handlers[h].known
  /\ handlers' = [handlers EXCEPT ![h] = NoHandler]
  /\ UNCHANGED pids

\* addParticleID: sorted by likelihood, equal ones in any order.
Ordered(s) == \A i, j \in DOMAIN s : i < j => s[i].likelihood >= s[j].likelihood
Sorted(s) == {t \in {[i \in DOMAIN s |-> s[pi[i]]] : pi \in [DOMAIN s -> DOMAIN s]} :
                Ordered(t) /\ \A i \in DOMAIN s :
                  Cardinality({j \in DOMAIN s : s[j] = s[i]})
                    = Cardinality({j \in DOMAIN t : t[j] = s[i]})}
AddParticleID(p, pid) ==
  /\ Len(pids[p]) < MaxPIDs
  /\ \E s \in Sorted(Append(pids[p], pid)) : pids' = [pids EXCEPT ![p] = s]

PositionsOf(p, id) == {i \in DOMAIN pids[p] : pids[p][i].alg = id}

\* setParticleID for a known algorithm and the right number of parameters: the
\* first object of the algorithm is changed where it is, or one is added.
SetParticleID(h, p, a, likelihood) ==
  /\ handlers[h].live /\ a \in DOMAIN handlers[h].known
  /\ LET k == handlers[h].known[a]
         pid == [alg |-> k.id, likelihood |-> likelihood, n |-> k.n]
         at == PositionsOf(p, k.id)
     IN IF at = {} THEN AddParticleID(p, pid)
        ELSE pids' = [pids EXCEPT ![p][Min(at)] = pid]
  /\ UNCHANGED <<pidParams, handlers>>

\* getParticleID when there is none: one is made, and its algorithm is not set.
GetParticleID(h, p, a) ==
  /\ LooksEverywhere
  /\ handlers[h].live /\ a \in DOMAIN handlers[h].known
  /\ PositionsOf(p, handlers[h].known[a].id) = {}
  /\ AddParticleID(p, [alg |-> 0, likelihood |-> 0, n |-> 0])
  /\ UNCHANGED <<pidParams, handlers>>

PIDNext ==
  \/ \E h \in Handlers : MakeHandler(h) \/ DestroyHandler(h)
  \/ \E h \in Handlers, a \in Algorithms, n \in Params : AddAlgorithm(h, a, n)
  \/ \E h \in Handlers, p \in Particles, a \in Algorithms :
       GetParticleID(h, p, a) \/ \E l \in Likelihoods : SetParticleID(h, p, a, l)

PIDSpec == PIDInit /\ [][PIDNext]_pidVars

-----------------------------------------------------------------------------
\* When no handler is left, the collection explains all ParticleID objects: it
\* names one algorithm for the number, with the parameters the object has.
SelfDescribing ==
  (\A h \in Handlers : ~handlers[h].live) =>
    \A p \in Particles : \A i \in DOMAIN pids[p] :
      \E a \in DOMAIN pidParams :
        /\ pidParams[a] = [id |-> pids[p][i].alg, n |-> pids[p][i].n]
        /\ \A b \in DOMAIN pidParams : pidParams[b].id = pidParams[a].id => a = b

\* "ordered with decreasing likelihood" (PIDHandler.h:86).
MostLikelyFirst == \A p \in Particles : Ordered(pids[p])
=============================================================================
