---------------------------- MODULE RunEventMap ----------------------------
(***************************************************************************)
(* RunEvent (include/SIO/LCIORandomAccess.h) and RunEventMap               *)
(* (src/SIO/RunEventMap.cc): the map from run headers and events to the    *)
(* file positions of their records.  A run header is a RunEvent whose      *)
(* EvtNum is -1.                                                           *)
(*                                                                         *)
(* The class is modelled as a value [pos, nRun, nEvt]: the std::map with   *)
(* the two counters that the class keeps beside it.  Its operations are    *)
(* operators on that value, used by LCIOIndex and LCIORandomAccess.        *)
(***************************************************************************)
EXTENDS Integers, FiniteSets

CONSTANT Half          \* 2^31 in the code: an int is one of -Half .. Half-1

ASSUME HalfAssumption == Half \in Nat /\ Half > 1

Word == 2 * Half                       \* 2^32: the modulus of an int
IntMax == Half - 1                     \* INT_MAX
IntRange == -Half .. IntMax
NPos == -1                             \* RunEventMap::NPos

RunEvent == [RunNum : IntRange, EvtNum : IntRange]
RunKey(r) == [RunNum |-> r, EvtNum |-> -1]
EvtKey(r, e) == [RunNum |-> r, EvtNum |-> e]
NoRunEvent == RunKey(-1)               \* RunEvent( -1 , -1 )
MapKeys == {re \in RunEvent : re.EvtNum >= -1}     \* of run headers and events

(***************************************************************************)
(* Storing a number in an int keeps its low bits.                          *)
(***************************************************************************)
ToInt(n) == ((n + Half) % Word) - Half

(***************************************************************************)
(* The conversions between a RunEvent and the long64 that holds the run in *)
(* its upper and the event in its lower half.                              *)
(***************************************************************************)
ToLong64(re) == re.RunNum * Word + (re.EvtNum % Word)
\* A variant with a bug: the event number is not made signed again.
FromLong64Unsigned(n) == [RunNum |-> ToInt(n \div Word), EvtNum |-> n % Word]

FromLong64(n) == [RunNum |-> ToInt(n \div Word), EvtNum |-> ToInt(n % Word)]

(***************************************************************************)
(* operator<: run headers before events, then by run, then by event.       *)
(***************************************************************************)
Less(r0, other) ==
  \/ /\ r0.EvtNum < 0
     /\ other.EvtNum < 0 => r0.RunNum < other.RunNum
  \/ /\ r0.EvtNum >= 0
     /\ other.EvtNum >= 0
     /\ \/ r0.RunNum < other.RunNum
        \/ r0.RunNum = other.RunNum /\ r0.EvtNum < other.EvtNum

EmptyMap == [pos |-> [re \in {} |-> 0], nRun |-> 0, nEvt |-> 0]
Keys(m) == DOMAIN m.pos
IsEmpty(m) == Keys(m) = {}

(***************************************************************************)
(* add: a key that is new is counted as a run or as an event, a key that   *)
(* is known gets the new position.  The key passes through long64.         *)
(* Two keys are one to std::map when neither is Less than the other; for   *)
(* MapKeys, the only keys the clients of this model use, that is equality  *)
(* (OperatorProofs, LessStrictTotal).                                      *)
(***************************************************************************)
\* A variant with a bug: a known key is counted again.
AddCountingAll(m, re, p) ==
  LET key == FromLong64(ToLong64(re))
  IN  [pos  |-> [k \in Keys(m) \cup {key} |-> IF k = key THEN p ELSE m.pos[k]],
       nRun |-> m.nRun + (IF re.EvtNum <= -1 THEN 1 ELSE 0),
       nEvt |-> m.nEvt + (IF re.EvtNum > -1 THEN 1 ELSE 0)]

Add(m, re, p) ==
  LET key   == FromLong64(ToLong64(re))
      isNew == key \notin Keys(m)
  IN  [pos  |-> [k \in Keys(m) \cup {key} |-> IF k = key THEN p ELSE m.pos[k]],
       nRun |-> m.nRun + (IF isNew /\ re.EvtNum <= -1 THEN 1 ELSE 0),
       nEvt |-> m.nEvt + (IF isNew /\ re.EvtNum > -1 THEN 1 ELSE 0)]

(***************************************************************************)
(* A series of add calls, given as the function from the keys to the       *)
(* positions they end with.                                                *)
(***************************************************************************)
AddAll(m, f) ==
  LET fresh == DOMAIN f \ Keys(m)
  IN  [pos  |-> [k \in Keys(m) \cup DOMAIN f |->
                   IF k \in DOMAIN f THEN f[k] ELSE m.pos[k]],
       nRun |-> m.nRun + Cardinality({k \in fresh : k.EvtNum <= -1}),
       nEvt |-> m.nEvt + Cardinality({k \in fresh : k.EvtNum > -1})]

GetPosition(m, re) ==
  LET key == FromLong64(ToLong64(re))
  IN  IF key \in Keys(m) THEN m.pos[key] ELSE NPos

IsFirst(k, S) == k \in S /\ \A x \in S : x = k \/ Less(k, x)
IsLast(k, S)  == k \in S /\ \A x \in S : x = k \/ Less(x, k)

MinRunEvent(m) == IF IsEmpty(m) THEN NoRunEvent
                  ELSE CHOOSE k \in Keys(m) : IsFirst(k, Keys(m))
MaxRunEvent(m) == IF IsEmpty(m) THEN NoRunEvent
                  ELSE CHOOSE k \in Keys(m) : IsLast(k, Keys(m))

=============================================================================
