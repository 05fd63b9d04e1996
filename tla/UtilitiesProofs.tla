-------------------------- MODULE UtilitiesProofs --------------------------
(***************************************************************************)
(* The smaller specifications, each for any number of calls: a PIDHandler  *)
(* leaves a collection that explains itself, a series of split files is    *)
(* the job that was written, a relation navigator has the relations of     *)
(* both sides, the fields of a cell id survive their neighbours and a      *)
(* file, an index record gives back the map it was made of, and MC         *)
(* particles find their daughters again.                                   *)
(***************************************************************************)
EXTENDS LCSplitWriter, PIDHandler, RelationNavigator, CellID, IndexRoundTrip, MCParticleFamily,
        OperatorProofs

-----------------------------------------------------------------------------
(* The PID handler. *)

(***************************************************************************)
(* What a handler and the parameters of a collection know: numbers that    *)
(* are unique and of which one is the highest, so that Max is defined.     *)
(***************************************************************************)
Known(k) ==
  /\ \A a \in DOMAIN k : k[a] \in [id : Nat, n : Params]
  /\ \A a, b \in DOMAIN k : k[a].id = k[b].id => a = b
  /\ DOMAIN k = {} \/ \E a \in DOMAIN k : \A b \in DOMAIN k : k[b].id <= k[a].id

Bounds(n, k) == n \in Nat \cup {-1} /\ \A a \in DOMAIN k : k[a].id <= n

\* What k explains of the ParticleID objects of a sequence, and of them all.
Explained(s, k) ==
  \A i \in DOMAIN s : \E a \in DOMAIN k : k[a] = [id |-> s[i].alg, n |-> s[i].n]
Explains(k) == \A p \in Particles : Explained(pids[p], k)

PIDObjects == [alg : Nat, likelihood : Likelihoods, n : Params]

(***************************************************************************)
(* The inductive invariant of a collection that has one handler at a time: *)
(* while there is a handler it explains the objects, else the parameters   *)
(* of the collection do.                                                   *)
(***************************************************************************)
PIDInv ==
  /\ handlers = [h \in Handlers |-> handlers[h]]
  /\ pids \in [Particles -> Seq(PIDObjects)]
  /\ Known(pidParams)
  /\ \A h \in Handlers : handlers[h].live =>
       /\ Known(handlers[h].known)
       /\ Bounds(handlers[h].maxID, handlers[h].known)
       /\ Explains(handlers[h].known)
  /\ (\A h \in Handlers : ~handlers[h].live) => Explains(pidParams)

(***************************************************************************)
(* The highest number is one that is known, or -1 if there is none.        *)
(***************************************************************************)
LEMMA MaxBounds ==
  ASSUME NEW k, Known(k)
  PROVE  Bounds(MaxOf(k), k)
<1> DEFINE S == IdsOf(k) \cup {-1}
<1>1. S \subseteq Nat \cup {-1}
  BY DEF Known, IdsOf
<1>2. \E x \in S : \A y \in S : x >= y
  <2>1. CASE DOMAIN k = {}
    BY <2>1 DEF IdsOf
  <2>2. CASE \E a \in DOMAIN k : \A b \in DOMAIN k : k[b].id <= k[a].id
    <3>1. PICK a \in DOMAIN k : \A b \in DOMAIN k : k[b].id <= k[a].id
      BY <2>2
    <3>2. k[a].id \in S /\ \A y \in S : k[a].id >= y
      BY <3>1 DEF Known, IdsOf
    <3>3. QED
      BY <3>2
  <2>3. QED
    BY <2>1, <2>2 DEF Known
<1> HIDE DEF S
<1>3. Max(S) \in S /\ \A y \in S : Max(S) >= y
  BY <1>2 DEF Max
<1>4. MaxOf(k) = Max(S)
  BY DEF MaxOf, S
<1>5. \A a \in DOMAIN k : k[a].id \in S
  BY DEF S, IdsOf
<1>6. \A a \in DOMAIN k : k[a].id <= Max(S)
  BY <1>1, <1>3, <1>5
<1>7. QED
  BY <1>1, <1>3, <1>4, <1>6 DEF Bounds

(***************************************************************************)
(* An object of a known algorithm is explained where it goes, at the end   *)
(* of the sequence, in another order or in the place of another object.    *)
(***************************************************************************)
LEMMA SortedExplained ==
  ASSUME NEW s \in Seq(PIDObjects), NEW k, Explained(s, k), NEW t \in Sorted(s)
  PROVE  t \in Seq(PIDObjects) /\ Explained(t, k)
<1>1. PICK pi \in [DOMAIN s -> DOMAIN s] : t = [i \in DOMAIN s |-> s[pi[i]]]
  BY DEF Sorted
<1>2. DOMAIN t = 1 .. Len(s) /\ Len(s) \in Nat /\ \A i \in DOMAIN t : pi[i] \in DOMAIN s /\ t[i] = s[pi[i]]
  BY <1>1
<1>3. \A i \in 1 .. Len(s) : t[i] \in PIDObjects
  BY <1>2
<1>4. t = [i \in 1 .. Len(s) |-> t[i]]
  BY <1>1
<1>5. t \in Seq(PIDObjects)
  BY <1>2, <1>3, <1>4
<1>6. QED
  BY <1>2, <1>5 DEF Explained

(***************************************************************************)
(* Numbers that are all explained stay so when one is added with its name. *)
(***************************************************************************)
LEMMA AddedExplained ==
  ASSUME NEW s \in Seq(PIDObjects), NEW k, Explained(s, k), NEW pid \in PIDObjects,
         \E a \in DOMAIN k : k[a] = [id |-> pid.alg, n |-> pid.n]
  PROVE  Append(s, pid) \in Seq(PIDObjects) /\ Explained(Append(s, pid), k)
<1>1. /\ Append(s, pid) \in Seq(PIDObjects) /\ DOMAIN Append(s, pid) = 1 .. Len(s) + 1
      /\ Len(s) \in Nat /\ DOMAIN s = 1 .. Len(s)
      /\ \A i \in 1 .. Len(s) : Append(s, pid)[i] = s[i]
      /\ Append(s, pid)[Len(s) + 1] = pid
  OBVIOUS
<1>2. QED
  BY <1>1 DEF Explained

(***************************************************************************)
(* Numbers that are all explained stay so when one is replaced by another  *)
(* with its name.                                                          *)
(***************************************************************************)
LEMMA ChangedExplained ==
  ASSUME NEW s \in Seq(PIDObjects), NEW k, Explained(s, k), NEW pid \in PIDObjects, NEW at,
         \E a \in DOMAIN k : k[a] = [id |-> pid.alg, n |-> pid.n]
  PROVE  [s EXCEPT ![at] = pid] \in Seq(PIDObjects) /\ Explained([s EXCEPT ![at] = pid], k)
<1> DEFINE t == [s EXCEPT ![at] = pid]
<1>1. DOMAIN t = 1 .. Len(s) /\ Len(s) \in Nat /\ \A i \in 1 .. Len(s) : t[i] = pid \/ t[i] = s[i]
  OBVIOUS
<1>2. t = [i \in 1 .. Len(s) |-> t[i]]
  OBVIOUS
<1>3. \A i \in 1 .. Len(s) : t[i] \in PIDObjects
  BY <1>1
<1> HIDE DEF t
<1>4. t \in Seq(PIDObjects)
  BY <1>1, <1>2, <1>3
<1>5. Explained(t, k)
  BY <1>1 DEF Explained
<1>6. QED
  BY <1>4, <1>5 DEF t

(***************************************************************************)
(* A new algorithm gets the next number, and explains what was explained.  *)
(***************************************************************************)
LEMMA NextNumber ==
  ASSUME NEW k, Known(k), NEW m, Bounds(m, k), NEW a, a \notin DOMAIN k, NEW n \in Params,
         NEW j, j = [b \in DOMAIN k \cup {a} |-> IF b = a THEN [id |-> m + 1, n |-> n] ELSE k[b]]
  PROVE  Known(j) /\ Bounds(m + 1, j) /\ \A s : Explained(s, k) => Explained(s, j)
<1>1. m + 1 \in Nat /\ \A b \in DOMAIN k : k[b].id \in Nat /\ k[b].id <= m /\ k[b].id < m + 1
  BY DEF Bounds, Known
<1>2. /\ DOMAIN j = DOMAIN k \cup {a} /\ j[a] = [id |-> m + 1, n |-> n]
      /\ \A b \in DOMAIN k : j[b] = k[b]
  OBVIOUS
<1>3. j[a].id = m + 1 /\ \A b \in DOMAIN k : j[b].id = k[b].id
  BY <1>2
<1>4. \A b \in DOMAIN j : j[b] \in [id : Nat, n : Params]
  BY <1>1, <1>2 DEF Known
<1>5. \A b, c \in DOMAIN j : j[b].id = j[c].id => b = c
  BY <1>1, <1>2, <1>3 DEF Known
<1>6. \A b \in DOMAIN j : j[b].id <= m + 1
  BY <1>1, <1>2, <1>3
<1>7. Known(j)
  BY <1>2, <1>3, <1>4, <1>5, <1>6 DEF Known
<1>8. Bounds(m + 1, j)
  BY <1>1, <1>6 DEF Bounds
<1>9. QED
  BY <1>2, <1>7, <1>8 DEF Explained

\* A handler is made: it knows what the parameters say.
LEMMA MakeKeepsPIDInv ==
  ASSUME PIDInv, \A g, h \in Handlers : g = h, NEW h \in Handlers, MakeHandler(h)
  PROVE  PIDInv'
<1>1. /\ handlers' = [handlers EXCEPT ![h] =
            [live |-> TRUE, known |-> pidParams, maxID |-> MaxOf(pidParams)]]
      /\ ~handlers[h].live /\ UNCHANGED <<pidParams, pids>>
  BY DEF MakeHandler
<1>2. handlers'[h] = [live |-> TRUE, known |-> pidParams, maxID |-> MaxOf(pidParams)]
  BY <1>1 DEF PIDInv
<1>3. handlers' = [g \in Handlers |-> handlers'[g]]
  BY <1>1 DEF PIDInv
<1>4. Explains(pidParams)
  BY <1>1 DEF PIDInv
<1>5. handlers'[h].known = pidParams /\ handlers'[h].maxID = MaxOf(pidParams) /\ handlers'[h].live
  BY <1>2
<1>6. Known(pidParams) /\ Bounds(MaxOf(pidParams), pidParams)
  BY MaxBounds DEF PIDInv
<1>7. Explains(pidParams)'
  BY <1>1, <1>4 DEF Explains
<1>8. QED
  BY <1>1, <1>3, <1>5, <1>6, <1>7 DEF PIDInv, Explains

\* An algorithm is added: it gets a number of its own.
LEMMA AddAlgorithmKeepsPIDInv ==
  ASSUME PIDInv, \A g, h \in Handlers : g = h,
         NEW h \in Handlers, NEW a \in Algorithms, NEW n \in Params, AddAlgorithm(h, a, n)
  PROVE  PIDInv'
<1> DEFINE k == handlers[h].known
           m == handlers[h].maxID
           j == [b \in DOMAIN k \cup {a} |-> IF b = a THEN [id |-> m + 1, n |-> n] ELSE k[b]]
<1>1. /\ handlers[h].live /\ a \notin DOMAIN k /\ UNCHANGED <<pidParams, pids>>
      /\ handlers' = [handlers EXCEPT ![h] = [live |-> TRUE, maxID |-> m + 1, known |-> j]]
  BY DEF AddAlgorithm
<1>2. Known(k) /\ Bounds(m, k) /\ Explains(k)
  BY <1>1 DEF PIDInv
<1>3. Known(j) /\ Bounds(m + 1, j) /\ \A s : Explained(s, k) => Explained(s, j)
  <2> HIDE DEF k, m
  <2>1. QED
    BY <1>1, <1>2, NextNumber
<1> HIDE DEF j
<1>4. handlers'[h] = [live |-> TRUE, maxID |-> m + 1, known |-> j]
  BY <1>1 DEF PIDInv
<1>5. handlers' = [g \in Handlers |-> handlers'[g]]
  BY <1>1 DEF PIDInv
<1>6. handlers'[h].live /\ handlers'[h].known = j /\ handlers'[h].maxID = m + 1
  BY <1>4
<1>7. \A p \in Particles : Explained(pids'[p], j)
  BY <1>1, <1>2, <1>3 DEF Explains
<1>8. QED
  BY <1>1, <1>3, <1>5, <1>6, <1>7 DEF PIDInv, Explains

\* A handler is destroyed: the parameters say what it knew.
LEMMA DestroyKeepsPIDInv ==
  ASSUME PIDInv, \A g, h \in Handlers : g = h, NEW h \in Handlers, DestroyHandler(h)
  PROVE  PIDInv'
<1>1. /\ handlers[h].live /\ pidParams' = handlers[h].known /\ UNCHANGED pids
      /\ handlers' = [handlers EXCEPT ![h] = NoHandler]
  BY DEF DestroyHandler
<1>2. Known(pidParams') /\ \A p \in Particles : Explained(pids'[p], pidParams')
  BY <1>1 DEF PIDInv, Explains
<1>3. ~handlers'[h].live /\ handlers' = [g \in Handlers |-> handlers'[g]]
  BY <1>1 DEF PIDInv, NoHandler
<1>4. QED
  BY <1>1, <1>2, <1>3 DEF PIDInv, Explains

\* An object is added or changed: its algorithm is known to the handler.
LEMMA SetKeepsPIDInv ==
  ASSUME PIDInv, \A g, h \in Handlers : g = h,
         NEW h \in Handlers, NEW p \in Particles, NEW a \in Algorithms,
         NEW l \in Likelihoods, SetParticleID(h, p, a, l)
  PROVE  PIDInv'
<1> DEFINE k == handlers[h].known
           pid == [alg |-> k[a].id, likelihood |-> l, n |-> k[a].n]
           s == pids[p]
<1>1. /\ handlers[h].live /\ a \in DOMAIN k /\ UNCHANGED <<pidParams, handlers>>
      /\ \/ \E t \in Sorted(Append(s, pid)) : pids' = [pids EXCEPT ![p] = t]
         \/ \E at : pids' = [pids EXCEPT ![p][at] = pid]
  BY DEF SetParticleID, AddParticleID
<1>2. Known(k) /\ Explained(s, k) /\ s \in Seq(PIDObjects)
  BY <1>1 DEF PIDInv, Explains
<1>3. k[a] \in [id : Nat, n : Params]
  BY <1>1, <1>2 DEF Known
<1>4. pid \in PIDObjects /\ k[a] = [id |-> pid.alg, n |-> pid.n]
  BY <1>3 DEF PIDObjects
<1> HIDE DEF pid, s, k
<1>5. \E t : t \in Seq(PIDObjects) /\ Explained(t, k) /\ pids' = [pids EXCEPT ![p] = t]
  <2>1. ASSUME NEW t \in Sorted(Append(s, pid)), pids' = [pids EXCEPT ![p] = t]
        PROVE  t \in Seq(PIDObjects) /\ Explained(t, k)
    <3>1. Append(s, pid) \in Seq(PIDObjects) /\ Explained(Append(s, pid), k)
      BY <1>1, <1>2, <1>4, AddedExplained
    <3>2. QED
      BY <2>1, <3>1, SortedExplained
  <2>2. ASSUME NEW at, pids' = [pids EXCEPT ![p][at] = pid]
        PROVE  \E t : t \in Seq(PIDObjects) /\ Explained(t, k) /\ pids' = [pids EXCEPT ![p] = t]
    <3>1. pids' = [pids EXCEPT ![p] = [s EXCEPT ![at] = pid]]
      BY <2>2 DEF s
    <3>2. [s EXCEPT ![at] = pid] \in Seq(PIDObjects) /\ Explained([s EXCEPT ![at] = pid], k)
      BY <1>1, <1>2, <1>4, ChangedExplained
    <3>3. QED
      BY <3>1, <3>2
  <2>3. QED
    BY <1>1, <2>1, <2>2
<1>6. PICK t : t \in Seq(PIDObjects) /\ Explained(t, k) /\ pids' = [pids EXCEPT ![p] = t]
  BY <1>5
<1>7. pids' \in [Particles -> Seq(PIDObjects)]
  BY <1>6 DEF PIDInv
<1>8. \A q \in Particles : pids'[q] = t \/ pids'[q] = pids[q]
  BY <1>6 DEF PIDInv
<1>9. \A q \in Particles : Explained(pids'[q], k)
  BY <1>1, <1>6, <1>8 DEF PIDInv, Explains, k
<1>10. QED
  BY <1>1, <1>7, <1>9 DEF PIDInv, Explains, k

(***************************************************************************)
(* With one handler of a collection at a time, whose client asks only for  *)
(* objects that are there: when it is gone the collection names one        *)
(* algorithm for every ParticleID object, with the parameters it has.      *)
(***************************************************************************)
THEOREM SpecSelfDescribing ==
  ASSUME \A g, h \in Handlers : g = h, ~LooksEverywhere
  PROVE  PIDSpec => []SelfDescribing
<1>1. PIDInit => PIDInv
  BY DEF PIDInit, PIDInv, NoHandler, Known, Explains, Explained
<1>2. PIDInv /\ [PIDNext]_pidVars => PIDInv'
  <2> SUFFICES ASSUME PIDInv, [PIDNext]_pidVars PROVE PIDInv'
    OBVIOUS
  <2>1. CASE UNCHANGED pidVars
    BY <2>1 DEF pidVars, PIDInv, Explains
  <2>2. CASE PIDNext
    BY <2>2, MakeKeepsPIDInv, AddAlgorithmKeepsPIDInv, DestroyKeepsPIDInv, SetKeepsPIDInv
       DEF PIDNext, GetParticleID
  <2>3. QED
    BY <2>1, <2>2
<1>3. PIDInv => SelfDescribing
  BY DEF PIDInv, SelfDescribing, Explains, Explained, Known
<1>4. QED
  BY <1>1, <1>2, <1>3, PTL DEF PIDSpec

-----------------------------------------------------------------------------
(* The split writer. *)

(***************************************************************************)
(* Appending to or closing the file at work leaves the others alone, and a *)
(* file that is not refused was not there.                                 *)
(***************************************************************************)
LEMMA PutOthers ==
  ASSUME NEW d, NEW name, NEW recs
  PROVE  \A n \in DOMAIN d : n # name => n \in DOMAIN Put(d, name, recs) /\ Put(d, name, recs)[n] = d[n]
BY DEF Put

(***************************************************************************)
(* Nor does a record, written or not.                                      *)
(***************************************************************************)
LEMMA PutRecordOthers ==
  ASSUME NEW d, NEW name, NEW size, PutRecord(d, name, size)
  PROVE  \A n \in DOMAIN d : n # name => disk'[n] = d[n]
BY PutOthers DEF PutRecord

(***************************************************************************)
(* For any names, sizes, limit and failures of the disk, in any order of   *)
(* calls, going on after exceptions included: no file but the one that was *)
(* opened by the writer is changed.                                        *)
(***************************************************************************)
THEOREM SpecOthersUntouched == Spec => OthersUntouched
<1> DEFINE Kept == \A n \in DOMAIN disk : n # out.file => disk'[n] = disk[n]
<1>1. ASSUME NEW b \in Bases, Open(b) PROVE Kept
  <2>1. disk' = disk \/ (filename' \notin DOMAIN disk /\ disk' = Put(disk, filename', << >>))
    BY <1>1 DEF Open, Refuses
  <2>2. QED
    BY <2>1, PutOthers
<1>2. ASSUME NEW size \in Sizes, WriteHere(size) PROVE Kept
  BY <1>2, PutRecordOthers DEF WriteHere
<1>3. ASSUME NEW size \in Sizes, WriteNext(size) PROVE Kept
  <2> DEFINE d == Closed(disk, out.file)
  <2>1. \A n \in DOMAIN disk : n # out.file => n \in DOMAIN d /\ d[n] = disk[n]
    BY PutOthers DEF Closed
  <2>2. \/ disk' = d
        \/ filename' \notin DOMAIN d /\ PutRecord(Put(d, filename', << >>), filename', size)
    BY <1>3 DEF WriteNext, Refuses
  <2> HIDE DEF d
  <2>3. CASE disk' = d
    BY <2>1, <2>3
  <2>4. CASE filename' \notin DOMAIN d /\ PutRecord(Put(d, filename', << >>), filename', size)
    <3> DEFINE e == Put(d, filename', << >>)
    <3>1. \A n \in DOMAIN d : n \in DOMAIN e /\ e[n] = d[n]
      BY <2>4, PutOthers
    <3> HIDE DEF e
    <3>2. \A n \in DOMAIN e : n # filename' => disk'[n] = e[n]
      BY <2>4, PutRecordOthers DEF e
    <3>3. \A n \in DOMAIN d : n # filename'
      BY <2>4
    <3>4. QED
      BY <2>1, <3>1, <3>2, <3>3
  <2>5. QED
    BY <2>2, <2>3, <2>4
<1>4. ASSUME WriteAfterError \/ WriteAfterClose PROVE Kept
  BY <1>4 DEF WriteAfterError, WriteAfterClose
<1>5. ASSUME Close PROVE Kept
  <2>1. disk' = disk \/ disk' = Closed(disk, out.file)
    BY <1>5 DEF Close
  <2>2. QED
    BY <2>1, PutOthers DEF Closed
<1>6. ASSUME UNCHANGED vars PROVE Kept
  BY <1>6 DEF vars
<1>7. [Next]_vars => [Kept]_vars
  BY <1>1, <1>2, <1>3, <1>4, <1>5, <1>6 DEF Next, Write
<1>8. QED
  BY <1>7, PTL DEF Spec, OthersUntouched

(***************************************************************************)
(* The counters and names of the split writer agree, and the file it is on *)
(* is there.                                                               *)
(***************************************************************************)
SplitTypes == TypeOK /\ out = [state |-> out.state, file |-> out.file]

(***************************************************************************)
(* A writer that was just made.                                            *)
(***************************************************************************)
LEMMA SplitTypesAtFirst == Init => SplitTypes
<1> SUFFICES ASSUME Init PROVE SplitTypes
  OBVIOUS
<1>1. count = 0 /\ lastCount = NoCount /\ filename[2] = 0 /\ given = 0 /\ opens = 0
  BY DEF Init, NoName
<1>2. out = [state |-> "new", file |-> NoName]
  BY DEF Init
<1>3. QED
  BY <1>1, <1>2, SplitAssumption DEF SplitTypes, TypeOK

(***************************************************************************)
(* Each call keeps the shape of the state.                                 *)
(***************************************************************************)
LEMMA SpecSplitTypes == Spec => []SplitTypes
<1>1. Init => SplitTypes
  BY SplitTypesAtFirst
<1>2. SplitTypes /\ [Next]_vars => SplitTypes'
  <2> SUFFICES ASSUME SplitTypes, [Next]_vars PROVE SplitTypes'
    OBVIOUS
  <2> USE SplitAssumption
  <2>1. ASSUME NEW b \in Bases, Open(b) PROVE SplitTypes'
    <3>1. filename'[2] = 0 /\ count' = 0 /\ lastCount' = 0
      BY <2>1 DEF Open, GetFilename, SplitTypes, TypeOK, NoCount
    <3>2. QED
      BY <2>1, <3>1 DEF Open, SplitTypes, TypeOK, NoCount, Put
  <2>2. ASSUME NEW size \in Sizes, WriteHere(size), given < MaxRecords, given' = given + 1, UNCHANGED opens
        PROVE  SplitTypes'
    <3>1. /\ out'.state \in {"open", "error"} /\ out'.file = out.file /\ out.file \in DOMAIN disk'
          /\ out' = [state |-> out'.state, file |-> out'.file]
      BY <2>2 DEF WriteHere, PutRecord, Put, SplitTypes, TypeOK
    <3>2. QED
      BY <2>2, <3>1 DEF WriteHere, SplitTypes, TypeOK, members, NoCount
  <2>3. ASSUME NEW size \in Sizes, WriteNext(size), given < MaxRecords, given' = given + 1, UNCHANGED opens
        PROVE  SplitTypes'
    <3> DEFINE d == Closed(disk, out.file)
    <3>1. filename'[2] = count + 1 /\ count' = count + 1 /\ lastCount' = count + 1 /\ count < MaxFiles
      BY <2>3 DEF WriteNext, GetFilename, SplitTypes, TypeOK, NoCount
    <3>2. out.file \in DOMAIN d
      BY DEF Closed, Put
    <3>3. \/ disk' = d /\ out' = [out EXCEPT !.state = "closed"]
          \/ PutRecord(Put(d, filename', << >>), filename', size)
      BY <2>3 DEF WriteNext
    <3> HIDE DEF d
    <3>4. /\ out'.state \in {"open", "error", "closed"} /\ out'.file \in DOMAIN disk'
          /\ out' = [state |-> out'.state, file |-> out'.file]
      <4>1. CASE disk' = d /\ out' = [out EXCEPT !.state = "closed"]
        <5>1. out' = [state |-> "closed", file |-> out.file]
          BY <4>1 DEF SplitTypes
        <5>2. QED
          BY <4>1, <3>2, <5>1
      <4>2. CASE PutRecord(Put(d, filename', << >>), filename', size)
        BY <4>2 DEF PutRecord, Put
      <4>3. QED
        BY <3>3, <4>1, <4>2
    <3>5. QED
      BY <2>3, <3>1, <3>4 DEF SplitTypes, TypeOK, NoCount
  <2>4. ASSUME WriteAfterError \/ WriteAfterClose, given < MaxRecords, given' = given + 1, UNCHANGED opens
        PROVE  SplitTypes'
    BY <2>4 DEF WriteAfterError, WriteAfterClose, SplitTypes, TypeOK, members, NoCount
  <2>5. ASSUME Close PROVE SplitTypes'
    <3>1. CASE out.state = "open"
      <4>1. out' = [state |-> "closed", file |-> out.file] /\ disk' = Closed(disk, out.file)
        BY <2>5, <3>1 DEF Close, SplitTypes
      <4>2. out.file \in DOMAIN disk'
        BY <4>1 DEF Closed, Put
      <4>3. QED
        BY <2>5, <4>1, <4>2 DEF Close, SplitTypes, TypeOK, members, NoCount
    <3>2. CASE out.state # "open"
      BY <2>5, <3>2 DEF Close, SplitTypes, TypeOK, members, NoCount
    <3>3. QED
      BY <3>1, <3>2
  <2>6. ASSUME UNCHANGED vars PROVE SplitTypes'
    BY <2>6 DEF vars, members, SplitTypes, TypeOK, NoCount
  <2>7. QED
    BY <2>1, <2>2, <2>3, <2>4, <2>5, <2>6 DEF Next, Write
<1>3. QED
  BY <1>1, <1>2, PTL DEF Spec

(***************************************************************************)
(* The counters and names of the split writer agree, and the file it is on *)
(* is there.                                                               *)
(***************************************************************************)
THEOREM SplitTypeCorrect == Spec => []TypeOK
BY SpecSplitTypes, PTL DEF SplitTypes
-----------------------------------------------------------------------------
(***************************************************************************)
(* Nothing has size 0.                                                     *)
(***************************************************************************)
LEMMA NothingHasNoSize == SizeOf(<< >>) = 0
<1> DEFINE D == DOMAIN << >>
           it == CHOOSE f : f = [s \in SUBSET D |->
                   IF s = {} THEN 0
                   ELSE f[s \ {Max(s)}] + << >>[Max(s)].size]
<1>1. SizeOf(<< >>) = it[D]
  BY DEF SizeOf, FoldLeft, MapThenFoldSet
<1>2. D = {} /\ SUBSET D = {{}}
  OBVIOUS
<1>3. \E f : f = [s \in SUBSET D |-> IF s = {} THEN 0 ELSE f[s \ {Max(s)}] + << >>[Max(s)].size]
  <2> DEFINE g == [s \in SUBSET D |-> 0]
  <2>1. g = [s \in SUBSET D |-> IF s = {} THEN 0 ELSE g[s \ {Max(s)}] + << >>[Max(s)].size]
    BY <1>2
  <2>2. QED
    BY <2>1
<1>4. it = [s \in SUBSET D |-> IF s = {} THEN 0 ELSE it[s \ {Max(s)}] + << >>[Max(s)].size]
  BY <1>3
<1> HIDE DEF it
<1>5. it[{}] = 0
  BY <1>2, <1>4
<1>6. QED
  BY <1>1, <1>2, <1>5
(***************************************************************************)
(* A set of positions is finite.                                           *)
(***************************************************************************)
LEMMA PositionsFinite ==
  ASSUME NEW n \in Nat, NEW S \in SUBSET (1 .. n)
  PROVE  IsFiniteSet(S) /\ Cardinality(S) \in Nat
<1>1. 1 \in Int /\ n \in Int
  OBVIOUS
<1>2. IsFiniteSet(1 .. n)
  BY <1>1, FS_Interval
<1>3. IsFiniteSet(S)
  BY <1>2, FS_Subset
<1>4. QED
  BY <1>3, FS_CardinalityType

(***************************************************************************)
(* A set of positions that is not empty has a last one, and is smaller     *)
(* without it.                                                             *)
(***************************************************************************)
LEMMA WithoutLast ==
  ASSUME NEW n \in Nat, NEW S \in SUBSET (1 .. n), S # {}
  PROVE  /\ Max(S) \in S
         /\ Cardinality(S \ {Max(S)}) < Cardinality(S)
<1>1. \E x \in S : \A y \in S : x >= y
  <2> DEFINE T == {n - y : y \in S}
  <2>1. T \in SUBSET Nat /\ T # {}
    OBVIOUS
  <2>2. PICK m \in T : \A k \in T : m <= k
    <3> HIDE DEF T
    <3>1. QED
      BY <2>1, LeastNatural
  <2>3. PICK x \in S : m = n - x
    OBVIOUS
  <2>4. \A y \in S : n - y \in T
    OBVIOUS
  <2>5. \A y \in S : n - x <= n - y
    BY <2>2, <2>3, <2>4
  <2>6. \A y \in S : x >= y
    BY <2>5
  <2>7. QED
    BY <2>6
<1>2. Max(S) \in S
  BY <1>1 DEF Max
<1>3. IsFiniteSet(S)
  BY PositionsFinite
<1>4. Cardinality(S \ {Max(S)}) = Cardinality(S) - 1 /\ Cardinality(S) \in Nat
  BY <1>2, <1>3, FS_RemoveElement, FS_CardinalityType
<1>5. QED
  BY <1>2, <1>4

(***************************************************************************)
(* The size of a series of records is a natural number.                    *)
(***************************************************************************)
LEMMA SizeIsNatural ==
  ASSUME NEW recs, NEW n \in Nat, DOMAIN recs = 1 .. n, \A i \in 1 .. n : recs[i].size \in Nat
  PROVE  SizeOf(recs) \in Nat
<1> DEFINE D == 1 .. n
           Dom == SUBSET D
           V == Nat
           nxt == [S \in Dom |-> IF S = {} THEN {} ELSE S \ {Max(S)}]
           rank == [S \in Dom |-> Cardinality(S)]
           zero == [S \in Dom |-> 0]
           step == [x \in Dom \X V |-> IF x[1] = {} THEN 0 ELSE x[2] + recs[Max(x[1])].size]
<1>1. nxt \in [Dom -> Dom] /\ zero \in [Dom -> V]
  OBVIOUS
<1>2. rank \in [Dom -> Nat]
  <2>1. \A S \in Dom : Cardinality(S) \in Nat
    BY PositionsFinite
  <2>2. QED
    BY <2>1
<1>3. step \in [Dom \X V -> V]
  <2>1. \A x \in Dom \X V : x[1] \in Dom /\ x[2] \in Nat
    OBVIOUS
  <2>2. \A x \in Dom \X V : x[1] # {} => recs[Max(x[1])].size \in Nat
    BY <2>1, WithoutLast
  <2>3. QED
    BY <2>1, <2>2
<1>4. \A S \in Dom \ {{}} : rank[nxt[S]] < rank[S]
  BY WithoutLast
<1>5. \A S \in Dom, v \in V : S # {} => step[<<S, v>>] = v + recs[Max(S)].size
  OBVIOUS
<1>6. \A S \in Dom : zero[S] = 0 /\ (S # {} => nxt[S] = S \ {Max(S)})
  OBVIOUS
<1> HIDE DEF nxt, rank, zero, step
<1>7. PICK f : Solves(f, Dom, V, {{}}, zero, nxt, step)
  <2> HIDE DEF Dom, V
  <2>1. QED
    BY <1>1, <1>2, <1>3, <1>4, RecursionExists DEF V
<1>8. f \in [Dom -> V]
  BY <1>7 DEF Solves
<1>9. ASSUME NEW S \in Dom
      PROVE  f[S] = IF S = {} THEN 0 ELSE f[S \ {Max(S)}] + recs[Max(S)].size
  <2>1. CASE S = {}
    BY <1>6, <1>7, <2>1 DEF Solves
  <2>2. CASE S # {}
    <3>1. f[S] = step[<<S, f[nxt[S]]>>] /\ nxt[S] = S \ {Max(S)} /\ nxt[S] \in Dom
      BY <1>1, <1>6, <1>7, <2>2 DEF Solves
    <3>2. QED
      BY <1>5, <1>8, <2>2, <3>1
  <2>3. QED
    BY <2>1, <2>2
<1>10. f = [S \in Dom |-> IF S = {} THEN 0 ELSE f[S \ {Max(S)}] + recs[Max(S)].size]
  BY <1>8, <1>9
<1> DEFINE it == CHOOSE g : g = [S \in SUBSET D |->
                   IF S = {} THEN 0 ELSE g[S \ {Max(S)}] + recs[Max(S)].size]
<1>11. SizeOf(recs) = it[D]
  BY DEF SizeOf, FoldLeft, MapThenFoldSet
<1>12. it = [S \in Dom |-> IF S = {} THEN 0 ELSE it[S \ {Max(S)}] + recs[Max(S)].size]
  BY <1>10
<1> HIDE DEF it
<1>13. ASSUME NEW m \in Nat, NEW S \in Dom, Cardinality(S) = m PROVE it[S] \in Nat
  <2> DEFINE Bad == {k \in Nat : \E U \in Dom : Cardinality(U) = k /\ it[U] \notin Nat}
  <2>1. SUFFICES ASSUME Bad # {} PROVE FALSE
    BY <1>13
  <2>2. PICK k \in Bad : \A j \in Bad : k <= j
    BY <2>1, LeastNatural
  <2>3. PICK U \in Dom : Cardinality(U) = k /\ it[U] \notin Nat
    OBVIOUS
  <2>4. U # {}
    BY <1>12, <2>3
  <2>5. /\ Max(U) \in U /\ Cardinality(U \ {Max(U)}) < k /\ U \ {Max(U)} \in Dom
        /\ Cardinality(U \ {Max(U)}) \in Nat
    <3>1. U \ {Max(U)} \in Dom
      OBVIOUS
    <3>2. Cardinality(U \ {Max(U)}) \in Nat
      BY <3>1, PositionsFinite
    <3>3. QED
      BY <2>3, <2>4, <3>1, <3>2, WithoutLast
  <2>6. Cardinality(U \ {Max(U)}) \notin Bad
    <3> HIDE DEF Bad
    <3>1. k \in Nat
      BY <2>2 DEF Bad
    <3>2. QED
      BY <2>2, <2>5, <3>1
  <2>7. it[U \ {Max(U)}] \in Nat
    BY <2>5, <2>6
  <2>8. it[U] = it[U \ {Max(U)}] + recs[Max(U)].size
    BY <1>12, <2>4
  <2>9. recs[Max(U)].size \in Nat
    BY <2>5
  <2>10. QED
    BY <2>3, <2>7, <2>8, <2>9
<1>14. D \in Dom /\ Cardinality(D) \in Nat
  BY PositionsFinite
<1>15. QED
  BY <1>11, <1>13, <1>14

-----------------------------------------------------------------------------
(***************************************************************************)
(* What the files of a series hold: records, none beyond the first one     *)
(* that goes over the limit, and in a closed file the records of close     *)
(* behind them.                                                            *)
(***************************************************************************)
SplitRecord == [id : Nat \ {0}, size : Nat]
AtEnd == [id |-> 0, size |-> TocSize]
Fits(recs) == recs # << >> => SizeOf(Front(recs)) <= MaxBytes
OpenFile(recs) == recs \in Seq(SplitRecord) /\ Fits(recs)
DoneFile(recs) == \E t \in Seq(SplitRecord) : OpenFile(t) /\ recs = Append(t, AtEnd)
FullFile(recs) ==
  \E t \in Seq(SplitRecord) : OpenFile(t) /\ recs = Append(t, AtEnd) /\ SizeOf(t) > MaxBytes

DataIn(recs) == IF recs # << >> /\ Last(recs).id = 0 THEN Front(recs) ELSE recs

(***************************************************************************)
(* The files number 0 to n of the series b, the last one closed or not,    *)
(* hold the records acc.                                                   *)
(***************************************************************************)
SeriesIds(d, b, n) == [k \in 1 .. n + 1 |-> Ids(DataIn(d[<<b, k - 1>>]))]

GoodFiles(d, b, n, ended) ==
  /\ n \in Nat
  /\ \A k \in 0 .. n : <<b, k>> \in DOMAIN d
  /\ \A k \in 0 .. n : k < n => FullFile(d[<<b, k>>])
  /\ IF ended THEN DoneFile(d[<<b, n>>]) ELSE OpenFile(d[<<b, n>>])

GoodSeries(d, b, n, ended, acc) ==
  GoodFiles(d, b, n, ended) /\ FlattenSeq(SeriesIds(d, b, n)) = acc

(***************************************************************************)
(* The fields of records, one after the other.                             *)
(***************************************************************************)
LEMMA FieldsOf ==
  ASSUME NEW recs \in Seq(SplitRecord)
  PROVE  /\ Len(recs) \in Nat /\ DOMAIN recs = 1 .. Len(recs)
         /\ recs # << >> => Len(recs) \in 1 .. Len(recs)
         /\ \A i \in 1 .. Len(recs) : recs[i].id \in Nat \ {0} /\ recs[i].size \in Nat
         /\ Ids(recs) \in Seq(Nat) /\ Len(Ids(recs)) = Len(recs)
         /\ \A i \in 1 .. Len(recs) : Ids(recs)[i] = recs[i].id
<1>1. Len(recs) \in Nat /\ DOMAIN recs = 1 .. Len(recs) /\ (recs # << >> => Len(recs) \in 1 .. Len(recs))
  OBVIOUS
<1>2. \A i \in 1 .. Len(recs) : recs[i] \in SplitRecord
  OBVIOUS
<1>3. \A r \in SplitRecord : r.id \in Nat \ {0} /\ r.size \in Nat
  BY DEF SplitRecord
<1>4. \A i \in 1 .. Len(recs) : recs[i].id \in Nat \ {0} /\ recs[i].size \in Nat
  BY <1>2, <1>3
<1>5. Ids(recs) = [i \in 1 .. Len(recs) |-> recs[i].id]
  BY <1>1 DEF Ids
<1>6. Ids(recs) \in [1 .. Len(recs) -> Nat]
  BY <1>4, <1>5
<1>7. Ids(recs) \in Seq(Nat) /\ Len(Ids(recs)) = Len(recs)
  BY <1>1, <1>6
<1>8. QED
  BY <1>1, <1>4, <1>5, <1>7

(***************************************************************************)
(* The identity of a record that is appended comes at the end.             *)
(***************************************************************************)
LEMMA IdsAppend ==
  ASSUME NEW recs \in Seq(SplitRecord), NEW r \in SplitRecord
  PROVE  /\ Ids(recs) \in Seq(Nat) /\ r.id \in Nat
         /\ Ids(Append(recs, r)) = Append(Ids(recs), r.id)
<1> DEFINE s == Append(recs, r)
           n == Len(recs)
<1>1. s \in Seq(SplitRecord) /\ Len(s) = n + 1 /\ s[n + 1] = r /\ \A i \in 1 .. n : s[i] = recs[i]
  OBVIOUS
<1>2. /\ n \in Nat /\ Ids(recs) \in Seq(Nat) /\ Len(Ids(recs)) = n
      /\ \A i \in 1 .. n : Ids(recs)[i] = recs[i].id
  BY FieldsOf
<1>3. /\ Ids(s) \in Seq(Nat) /\ Len(Ids(s)) = n + 1
      /\ \A i \in 1 .. n + 1 : Ids(s)[i] = s[i].id /\ s[i].id \in Nat
  BY <1>1, FieldsOf
<1> HIDE DEF s, n
<1>4. r.id \in Nat
  BY <1>1, <1>2, <1>3
<1> DEFINE t == Append(Ids(recs), r.id)
<1>5. t \in Seq(Nat) /\ Len(t) = n + 1 /\ t[n + 1] = r.id /\ \A i \in 1 .. n : t[i] = Ids(recs)[i]
  BY <1>2, <1>4
<1> HIDE DEF t
<1>6. ASSUME NEW i \in 1 .. n + 1 PROVE Ids(s)[i] = t[i]
  <2>1. i = n + 1 \/ i \in 1 .. n
    BY <1>2
  <2>2. Ids(s)[i] = s[i].id
    BY <1>3
  <2>3. QED
    BY <1>1, <1>2, <1>5, <2>1, <2>2
<1>7. Ids(s) = t
  BY <1>3, <1>5, <1>6
<1>8. QED
  BY <1>2, <1>4, <1>7 DEF s, t

(***************************************************************************)
(* What is read from a file, closed or not.                                *)
(***************************************************************************)
LEMMA DataOfOpen ==
  ASSUME NEW recs, OpenFile(recs)
  PROVE  recs \in Seq(SplitRecord) /\ DataIn(recs) = recs /\ SizeOf(recs) \in Nat
<1>1. recs \in Seq(SplitRecord)
  BY DEF OpenFile
<1>2. recs # << >> => Last(recs).id # 0
  BY <1>1, FieldsOf DEF Last
<1>3. SizeOf(recs) \in Nat
  <2>1. Len(recs) \in Nat /\ DOMAIN recs = 1 .. Len(recs)
    BY <1>1
  <2>2. \A i \in 1 .. Len(recs) : recs[i].size \in Nat
    BY <1>1, FieldsOf
  <2> DEFINE n == Len(recs)
  <2> HIDE DEF n
  <2>3. n \in Nat /\ DOMAIN recs = 1 .. n /\ \A i \in 1 .. n : recs[i].size \in Nat
    BY <2>1, <2>2 DEF n
  <2>4. QED
    BY <2>3, SizeIsNatural
<1>4. QED
  BY <1>1, <1>2, <1>3 DEF DataIn

(***************************************************************************)
(* The same of a closed file.                                              *)
(***************************************************************************)
LEMMA DataOfDone ==
  ASSUME NEW t \in Seq(SplitRecord)
  PROVE  DataIn(Append(t, AtEnd)) = t
<1> DEFINE R == SplitRecord \cup {AtEnd}
           s == Append(t, AtEnd)
<1>1. t \in Seq(R) /\ AtEnd \in R
  OBVIOUS
<1>2. s \in Seq(R) /\ Len(s) = Len(t) + 1 /\ Len(t) \in Nat /\ s[Len(s)] = AtEnd
  BY <1>1
<1>3. s # << >> /\ Last(s).id = 0
  BY <1>2 DEF Last, AtEnd
<1>4. Front(s) = t
  <2>1. Front(s) = SubSeq(s, 1, Len(t))
    BY <1>2 DEF Front
  <2>2. QED
    BY <1>1, <2>1
<1>5. QED
  BY <1>3, <1>4 DEF DataIn

(***************************************************************************)
(* What is read from the files of a series.                                *)
(***************************************************************************)
LEMMA SeriesData ==
  ASSUME NEW d, NEW b, NEW n, NEW ended, GoodFiles(d, b, n, ended), NEW k \in 0 .. n
  PROVE  /\ DataIn(d[<<b, k>>]) \in Seq(SplitRecord)
         /\ OpenFile(DataIn(d[<<b, k>>]))
         /\ Ids(DataIn(d[<<b, k>>])) \in Seq(Nat)
         /\ k < n => SizeOf(DataIn(d[<<b, k>>])) > MaxBytes
<1> DEFINE s == d[<<b, k>>]
<1>1. OpenFile(DataIn(s)) /\ (k < n => SizeOf(DataIn(s)) > MaxBytes)
  <2>1. CASE k < n
    <3>1. PICK t \in Seq(SplitRecord) : OpenFile(t) /\ s = Append(t, AtEnd) /\ SizeOf(t) > MaxBytes
      BY <2>1 DEF GoodFiles, FullFile
    <3>2. QED
      BY <3>1, DataOfDone
  <2>2. CASE k = n /\ ended
    <3>1. PICK t \in Seq(SplitRecord) : OpenFile(t) /\ s = Append(t, AtEnd)
      BY <2>2 DEF GoodFiles, DoneFile
    <3>2. QED
      BY <2>2, <3>1, DataOfDone DEF GoodFiles
  <2>3. CASE k = n /\ ~ended
    <3>1. OpenFile(s)
      BY <2>3 DEF GoodFiles
    <3>2. QED
      BY <2>3, <3>1, DataOfOpen DEF GoodFiles
  <2>4. QED
    BY <2>1, <2>2, <2>3 DEF GoodFiles
<1> HIDE DEF s
<1>2. DataIn(s) \in Seq(SplitRecord)
  BY <1>1 DEF OpenFile
<1>3. Ids(DataIn(s)) \in Seq(Nat)
  BY <1>2, FieldsOf
<1>4. QED
  BY <1>1, <1>2, <1>3 DEF s

(***************************************************************************)
(* The records of a series are those of the files before the last one and  *)
(* those of the last one.                                                  *)
(***************************************************************************)
LEMMA SeriesEnds ==
  ASSUME NEW d, NEW b, NEW n, NEW ended, GoodFiles(d, b, n, ended)
  PROVE  /\ n = 0 => FlattenSeq(SeriesIds(d, b, n)) = Ids(DataIn(d[<<b, n>>]))
         /\ n > 0 => /\ FlattenSeq(SeriesIds(d, b, n - 1)) \in Seq(Nat)
                     /\ FlattenSeq(SeriesIds(d, b, n))
                          = FlattenSeq(SeriesIds(d, b, n - 1)) \o Ids(DataIn(d[<<b, n>>]))
<1> DEFINE ss == SeriesIds(d, b, n)
           tt == SeriesIds(d, b, n - 1)
<1>1. n \in Nat
  BY DEF GoodFiles
<1>2. \A k \in 0 .. n : Ids(DataIn(d[<<b, k>>])) \in Seq(Nat)
  BY SeriesData
<1>3. ss \in [1 .. n + 1 -> Seq(Nat)] /\ \A k \in 1 .. n + 1 : ss[k] = Ids(DataIn(d[<<b, k - 1>>]))
  BY <1>1, <1>2 DEF SeriesIds
<1>4. n > 0 => tt \in [1 .. n -> Seq(Nat)] /\ \A k \in 1 .. n : tt[k] = ss[k]
  BY <1>1, <1>2 DEF SeriesIds
<1>5. ss[n + 1] = Ids(DataIn(d[<<b, n>>]))
  BY <1>1, <1>3
<1> HIDE DEF ss, tt
<1>6. CASE n = 0
  <2>1. ss \in [1 .. 1 -> Seq(Nat)] /\ ss[1] = Ids(DataIn(d[<<b, n>>]))
    BY <1>3, <1>5, <1>6
  <2>2. QED
    BY <1>6, <2>1, FlattenOne DEF ss
<1>7. CASE n > 0
  <2>1. n \in Nat \ {0}
    BY <1>1, <1>7
  <2>2. FlattenSeq(ss) = FlattenSeq(tt) \o ss[n + 1] /\ FlattenSeq(tt) \in Seq(Nat)
    BY <1>3, <1>4, <1>7, <2>1, FlattenMore
  <2>3. QED
    BY <1>5, <1>7, <2>2 DEF ss, tt
<1>8. QED
  BY <1>1, <1>6, <1>7

(***************************************************************************)
(* A series that differs only in its last file.                            *)
(***************************************************************************)
LEMMA SeriesSame ==
  ASSUME NEW d, NEW e, NEW b, NEW n \in Nat, \A k \in 0 .. n : d[<<b, k>>] = e[<<b, k>>]
  PROVE  SeriesIds(d, b, n) = SeriesIds(e, b, n)
<1>1. \A k \in 1 .. n + 1 : k - 1 \in 0 .. n
  OBVIOUS
<1>2. QED
  BY <1>1 DEF SeriesIds

(***************************************************************************)
(* A file that is opened starts a series.                                  *)
(***************************************************************************)
LEMMA SeriesStarts ==
  ASSUME NEW d, NEW b
  PROVE  GoodSeries(Put(d, <<b, 0>>, << >>), b, 0, FALSE, << >>)
<1> DEFINE e == Put(d, <<b, 0>>, << >>)
<1>1. <<b, 0>> \in DOMAIN e /\ e[<<b, 0>>] = << >>
  BY DEF Put
<1>2. OpenFile(<< >>)
  BY DEF OpenFile, Fits
<1> HIDE DEF e
<1>3. GoodFiles(e, b, 0, FALSE)
  BY <1>1, <1>2 DEF GoodFiles
<1>4. FlattenSeq(SeriesIds(e, b, 0)) = Ids(DataIn(e[<<b, 0>>]))
  BY <1>3, SeriesEnds
<1>5. Ids(DataIn(<< >>)) = << >>
  BY <1>2, DataOfOpen DEF Ids
<1>6. QED
  BY <1>1, <1>3, <1>4, <1>5 DEF GoodSeries, e

(***************************************************************************)
(* A record at the end of a file that has room.                            *)
(***************************************************************************)
LEMMA SeriesGrows ==
  ASSUME NEW d, NEW b, NEW n, NEW acc, GoodSeries(d, b, n, FALSE, acc),
         NEW r \in SplitRecord, ~(SizeOf(d[<<b, n>>]) > MaxBytes)
  PROVE  GoodSeries(Put(d, <<b, n>>, Append(d[<<b, n>>], r)), b, n, FALSE, Append(acc, r.id))
<1> DEFINE s == d[<<b, n>>]
           e == Put(d, <<b, n>>, Append(s, r))
<1>1. GoodFiles(d, b, n, FALSE) /\ n \in Nat /\ OpenFile(s) /\ FlattenSeq(SeriesIds(d, b, n)) = acc
  BY DEF GoodSeries, GoodFiles
<1>2. s \in Seq(SplitRecord) /\ DataIn(s) = s /\ SizeOf(s) \in Nat
  BY <1>1, DataOfOpen
<1>3. Append(s, r) \in Seq(SplitRecord) /\ Front(Append(s, r)) = s
  BY <1>2 DEF Front
<1>4. OpenFile(Append(s, r))
  BY <1>2, <1>3, SplitAssumption DEF OpenFile, Fits
<1>5. e[<<b, n>>] = Append(s, r) /\ \A k \in 0 .. n : k < n => e[<<b, k>>] = d[<<b, k>>] 
  BY <1>1 DEF Put, GoodFiles
<1>6. \A k \in 0 .. n : <<b, k>> \in DOMAIN e
  BY <1>1 DEF Put, GoodFiles
<1> HIDE DEF e
<1>7. GoodFiles(e, b, n, FALSE)
  BY <1>1, <1>4, <1>5, <1>6 DEF GoodFiles
<1>8. DataIn(e[<<b, n>>]) = Append(s, r)
  BY <1>4, <1>5, DataOfOpen
<1>9. Ids(s) \in Seq(Nat) /\ r.id \in Nat /\ Ids(Append(s, r)) = Append(Ids(s), r.id)
  BY <1>2, IdsAppend
<1>10. FlattenSeq(SeriesIds(e, b, n)) = Append(acc, r.id)
  <2>1. CASE n = 0
    <3>1. FlattenSeq(SeriesIds(e, b, n)) = Ids(Append(s, r)) /\ acc = Ids(s)
      BY <1>1, <1>2, <1>7, <1>8, <2>1, SeriesEnds
    <3>2. QED
      BY <1>9, <3>1
  <2>2. CASE n > 0
    <3> DEFINE before == FlattenSeq(SeriesIds(d, b, n - 1))
    <3>1. before \in Seq(Nat) /\ acc = before \o Ids(s)
      BY <1>1, <1>2, <2>2, SeriesEnds
    <3>2. SeriesIds(e, b, n - 1) = SeriesIds(d, b, n - 1)
      <4>1. n - 1 \in Nat /\ \A k \in 0 .. n - 1 : d[<<b, k>>] = e[<<b, k>>]
        BY <1>1, <1>5, <2>2
      <4>2. QED
        BY <4>1, SeriesSame
    <3>3. FlattenSeq(SeriesIds(e, b, n)) = before \o Ids(Append(s, r))
      BY <1>7, <1>8, <2>2, <3>2, SeriesEnds
    <3> HIDE DEF before
    <3>4. before \o Append(Ids(s), r.id) = Append(before \o Ids(s), r.id)
      BY <1>9, <3>1, AppendIsConcat, ConcatAssociative
    <3>5. QED
      BY <1>9, <3>1, <3>3, <3>4
  <2>3. QED
    BY <1>1, <2>1, <2>2
<1>11. QED
  BY <1>7, <1>10 DEF GoodSeries, e

(***************************************************************************)
(* The records close puts at the end are not read as records of the job.   *)
(***************************************************************************)
LEMMA SeriesEnded ==
  ASSUME NEW d, NEW b, NEW n, NEW acc, GoodSeries(d, b, n, FALSE, acc)
  PROVE  /\ GoodSeries(Closed(d, <<b, n>>), b, n, TRUE, acc)
         /\ SizeOf(d[<<b, n>>]) > MaxBytes => FullFile(Closed(d, <<b, n>>)[<<b, n>>])
         /\ \A m : <<b, m>> \in DOMAIN Closed(d, <<b, n>>) <=> <<b, m>> \in DOMAIN d
<1> DEFINE s == d[<<b, n>>]
           e == Closed(d, <<b, n>>)
<1>1. GoodFiles(d, b, n, FALSE) /\ n \in Nat /\ OpenFile(s) /\ FlattenSeq(SeriesIds(d, b, n)) = acc
  BY DEF GoodSeries, GoodFiles
<1>2. s \in Seq(SplitRecord) /\ DataIn(s) = s
  BY <1>1, DataOfOpen
<1>3. e[<<b, n>>] = Append(s, AtEnd) /\ \A k \in 0 .. n : k < n => e[<<b, k>>] = d[<<b, k>>]
  BY <1>1 DEF Closed, Put, GoodFiles, AtEnd
<1>4. DOMAIN e = DOMAIN d
  <2>1. <<b, n>> \in DOMAIN d
    BY <1>1 DEF GoodFiles
  <2>2. QED
    BY <2>1 DEF Closed, Put
<1> HIDE DEF e
<1>5. GoodFiles(e, b, n, TRUE)
  BY <1>1, <1>2, <1>3, <1>4 DEF GoodFiles, DoneFile
<1>6. \A k \in 0 .. n : DataIn(e[<<b, k>>]) = DataIn(d[<<b, k>>])
  <2>1. DataIn(e[<<b, n>>]) = DataIn(d[<<b, n>>])
    BY <1>2, <1>3, DataOfDone
  <2>2. \A k \in 0 .. n : k = n \/ k < n
    BY <1>1
  <2>3. QED
    BY <1>3, <2>1, <2>2
<1>7. SeriesIds(e, b, n) = SeriesIds(d, b, n)
  <2>1. \A k \in 1 .. n + 1 : k - 1 \in 0 .. n
    BY <1>1
  <2>2. QED
    BY <1>6, <2>1 DEF SeriesIds
<1>8. SizeOf(s) > MaxBytes => FullFile(e[<<b, n>>])
  BY <1>1, <1>2, <1>3 DEF FullFile
<1>9. QED
  BY <1>1, <1>4, <1>5, <1>7, <1>8 DEF GoodSeries, e

(***************************************************************************)
(* The series goes on in a new file when the last one is full.             *)
(***************************************************************************)
LEMMA SeriesGoesOn ==
  ASSUME NEW d, NEW b, NEW n, NEW acc, GoodSeries(d, b, n, FALSE, acc),
         SizeOf(d[<<b, n>>]) > MaxBytes, <<b, n + 1>> \notin DOMAIN d
  PROVE  GoodSeries(Put(Closed(d, <<b, n>>), <<b, n + 1>>, << >>), b, n + 1, FALSE, acc)
<1> DEFINE c == Closed(d, <<b, n>>)
           e == Put(c, <<b, n + 1>>, << >>)
<1>1. GoodSeries(c, b, n, TRUE, acc) /\ FullFile(c[<<b, n>>])
  BY SeriesEnded
<1> HIDE DEF c
<1>2. GoodFiles(c, b, n, TRUE) /\ n \in Nat /\ FlattenSeq(SeriesIds(c, b, n)) = acc
  BY <1>1 DEF GoodSeries, GoodFiles
<1>3. e[<<b, n + 1>>] = << >> /\ <<b, n + 1>> \in DOMAIN e
  BY DEF Put
<1>4. \A k \in 0 .. n : <<b, k>> \in DOMAIN e /\ e[<<b, k>>] = c[<<b, k>>]
  <2>1. \A k \in 0 .. n : <<b, k>> \in DOMAIN c /\ <<b, k>> # <<b, n + 1>>
    BY <1>2 DEF GoodFiles
  <2>2. QED
    BY <2>1 DEF Put
<1>5. OpenFile(<< >>) /\ DataIn(<< >>) = << >> /\ Ids(<< >>) = << >>
  BY DEF OpenFile, Fits, Ids, DataIn
<1> HIDE DEF e
<1>6. GoodFiles(e, b, n + 1, FALSE)
  <2>1. n + 1 \in Nat /\ \A k \in 0 .. n + 1 : k = n + 1 \/ k = n \/ (k \in 0 .. n /\ k < n)
    BY <1>2
  <2>2. \A k \in 0 .. n + 1 : <<b, k>> \in DOMAIN e
    BY <1>2, <1>3, <1>4, <2>1
  <2>3. \A k \in 0 .. n + 1 : k < n + 1 => FullFile(e[<<b, k>>])
    BY <1>1, <1>2, <1>4, <2>1 DEF GoodFiles
  <2>4. QED
    BY <1>3, <1>5, <2>1, <2>2, <2>3 DEF GoodFiles
<1>7. SeriesIds(e, b, n) = SeriesIds(c, b, n)
  BY <1>2, <1>4, SeriesSame
<1>8. acc \in Seq(Nat) /\ acc \o << >> = acc /\ FlattenSeq(SeriesIds(e, b, n + 1)) = acc \o << >>
  <2>1. n + 1 > 0 /\ (n + 1) - 1 = n
    BY <1>2
  <2> DEFINE m == n + 1
  <2>2. /\ FlattenSeq(SeriesIds(e, b, m - 1)) \in Seq(Nat)
        /\ FlattenSeq(SeriesIds(e, b, m))
             = FlattenSeq(SeriesIds(e, b, m - 1)) \o Ids(DataIn(e[<<b, m>>]))
    <3>1. m > 0 /\ GoodFiles(e, b, m, FALSE)
      BY <1>6, <2>1
    <3> HIDE DEF m
    <3>2. QED
      BY <3>1, SeriesEnds
  <2>3. QED
    BY <1>2, <1>3, <1>5, <1>7, <2>1, <2>2
<1>9. QED
  BY <1>6, <1>8 DEF GoodSeries, c, e

-----------------------------------------------------------------------------
(***************************************************************************)
(* The file the writer is on is the last of a good series; the name it has *)
(* ready is that of a file that is there, so that an open that does not    *)
(* make a new name is refused.                                             *)
(***************************************************************************)
Ended == out.state \in {"closed", "undefined"}
Series(b, n, acc) == GoodSeries(disk, b, n, Ended, acc)

SplitInv ==
  /\ SplitTypes
  /\ lastCount # NoCount => filename \in DOMAIN disk
  /\ out.state \in {"open", "error"} =>
       out.file = filename /\ filename = <<base, count>> /\ lastCount = count
  /\ out.state = "new" => accepted = << >>
  /\ out.state # "new" => out.file = <<out.file[1], Number>> /\ Series(out.file[1], Number, accepted)

(***************************************************************************)
(* A record is put into the last file of a series, or it is not.           *)
(***************************************************************************)
LEMMA PutInSeries ==
  ASSUME NEW d, NEW b, NEW n, NEW size \in Sizes, given \in Nat,
         GoodSeries(d, b, n, FALSE, accepted), ~(SizeOf(d[<<b, n>>]) > MaxBytes),
         PutRecord(d, <<b, n>>, size)
  PROVE  /\ out' \in {[state |-> "open", file |-> <<b, n>>], [state |-> "error", file |-> <<b, n>>]}
         /\ DOMAIN disk' = DOMAIN d
         /\ GoodSeries(disk', b, n, FALSE, accepted')
<1>1. Record(size) \in SplitRecord /\ Record(size).id = given + 1
  BY SplitAssumption DEF Record, SplitRecord
<1>2. <<b, n>> \in DOMAIN d
  BY DEF GoodSeries, GoodFiles
<1>3. CASE /\ disk' = Put(d, <<b, n>>, Append(d[<<b, n>>], Record(size)))
           /\ out' = [state |-> "open", file |-> <<b, n>>]
           /\ accepted' = Append(accepted, given + 1)
  <2>1. GoodSeries(disk', b, n, FALSE, accepted')
    BY <1>1, <1>3, SeriesGrows
  <2>2. DOMAIN disk' = DOMAIN d
    BY <1>2, <1>3 DEF Put
  <2>3. QED
    BY <1>3, <2>1, <2>2
<1>4. CASE disk' = d /\ out' = [state |-> "error", file |-> <<b, n>>] /\ accepted' = accepted
  BY <1>4
<1>5. QED
  BY <1>2, <1>3, <1>4 DEF PutRecord

(***************************************************************************)
(* Each call keeps the invariant.                                          *)
(***************************************************************************)
LEMMA SplitStep ==
  ASSUME SplitInv, SplitTypes', [Next]_vars
  PROVE  SplitInv'
<1> DEFINE b == out.file[1]
           n == Number
<1>1. /\ count \in Nat /\ MaxFiles \in Nat /\ MaxBytes \in Nat /\ given \in Nat
      /\ lastCount \in {NoCount, count} /\ NoCount = MaxFiles + 1 /\ count \in 0 .. MaxFiles
  BY SplitAssumption DEF SplitInv, SplitTypes, TypeOK, NoCount
<1>2. SizeOf(<< >>) = 0 /\ ~(SizeOf(<< >>) > MaxBytes)
  BY <1>1, NothingHasNoSize
<1>3. ASSUME NEW x \in Bases, Open(x) PROVE SplitInv'
  <2>1. lastCount' = 0 /\ count' = 0 /\ base' = x
    BY <1>3 DEF Open
  <2>2. CASE filename' \in DOMAIN disk
    <3>1. UNCHANGED <<out, disk, accepted>>
      BY <1>3, <2>2 DEF Open, Refuses
    <3>2. out.state \in {"new", "closed"}
      BY <1>3 DEF Open
    <3>3. (out.state = "new" => accepted = << >>)'
      BY <3>1 DEF SplitInv
    <3>4. (out.state # "new" => out.file = <<out.file[1], Number>> /\ Series(out.file[1], Number, accepted))'
      BY <3>1 DEF SplitInv, Series, Ended, Number
    <3>5. QED
      BY <2>2, <3>1, <3>2, <3>3, <3>4 DEF SplitInv
  <2>3. CASE filename' \notin DOMAIN disk
    <3>1. filename' = <<x, 0>>
      <4>1. filename' = IF 0 # lastCount THEN <<x, 0>> ELSE filename
        BY <1>3 DEF Open, GetFilename
      <4>2. lastCount = 0 => filename \in DOMAIN disk
        BY <1>1 DEF SplitInv
      <4>3. QED
        BY <2>3, <4>1, <4>2
    <3>2. /\ out' = [state |-> "open", file |-> filename']
          /\ disk' = Put(disk, filename', << >>) /\ accepted' = << >>
      BY <1>3, <2>3 DEF Open, Refuses
    <3>3. GoodSeries(disk', x, 0, FALSE, accepted')
      BY <3>1, <3>2, SeriesStarts
    <3>4. filename' \in DOMAIN disk'
      BY <3>2 DEF Put
    <3>5. out'.state = "open" /\ out'.file = <<x, 0>>
      BY <3>1, <3>2
    <3>6. GoodSeries(disk', x, 0, Ended', accepted')
      <4>1. Ended' = FALSE
        BY <3>5 DEF Ended
      <4>2. QED
        BY <3>3, <4>1
    <3>7. QED
      BY <2>1, <3>1, <3>4, <3>5, <3>6 DEF SplitInv, Series, Number
  <2>4. QED
    BY <2>2, <2>3
\* What holds while the writer is on a file.
<1>4. ASSUME out.state \in {"open", "error"}
      PROVE  /\ out.file = <<base, count>> /\ filename = <<base, count>> /\ lastCount = count
             /\ b = base /\ n = count /\ GoodSeries(disk, base, count, FALSE, accepted)
             /\ <<base, count>> \in DOMAIN disk
  <2>1. out.file = <<base, count>> /\ filename = <<base, count>> /\ lastCount = count
    BY <1>4 DEF SplitInv
  <2>2. b = base /\ n = count
    BY <2>1 DEF Number
  <2>3. Series(base, count, accepted) /\ ~Ended
    BY <1>4, <2>2 DEF SplitInv, Ended
  <2>4. GoodSeries(disk, base, count, FALSE, accepted)
    <3>1. Ended = FALSE
      BY <1>4 DEF Ended
    <3>2. GoodSeries(disk, base, count, Ended, accepted)
      BY <2>3 DEF Series
    <3>3. QED
      BY <3>1, <3>2
  <2>5. QED
    BY <1>1, <2>1, <2>2, <2>4 DEF GoodSeries, GoodFiles
<1>5. ASSUME NEW size \in Sizes, WriteHere(size) PROVE SplitInv'
  <2>1. out.state = "open" /\ UNCHANGED members /\ PutRecord(disk, out.file, size)
    BY <1>5 DEF WriteHere
  <2>2. ~(SizeOf(disk[<<base, count>>]) > MaxBytes)
    BY <1>4, <1>5, <2>1 DEF WriteHere, Full, FileSize
  <2>3. /\ out' \in {[state |-> "open", file |-> <<base, count>>],
                     [state |-> "error", file |-> <<base, count>>]}
        /\ DOMAIN disk' = DOMAIN disk
        /\ GoodSeries(disk', base, count, FALSE, accepted')
    BY <1>1, <1>4, <2>1, <2>2, PutInSeries
  <2>4. base' = base /\ count' = count /\ lastCount' = lastCount /\ filename' = filename
    BY <2>1 DEF members
  <2>5. /\ out'.state \in {"open", "error"} /\ out'.file = <<base, count>>
        /\ GoodSeries(disk', base, count, Ended', accepted')
    <3>1. out'.state \in {"open", "error"} /\ out'.file = <<base, count>>
      BY <2>3
    <3>2. Ended' = FALSE
      BY <3>1 DEF Ended
    <3>3. QED
      BY <2>3, <3>1, <3>2
  <2>6. QED
    BY <1>4, <2>1, <2>3, <2>4, <2>5 DEF SplitInv, Series, Number
<1>6. ASSUME NEW size \in Sizes, WriteNext(size) PROVE SplitInv'
  <2> DEFINE c == Closed(disk, <<base, count>>)
             e == Put(c, <<base, count + 1>>, << >>)
  <2>1. out.state = "open" /\ SizeOf(disk[<<base, count>>]) > MaxBytes
    BY <1>4, <1>6 DEF WriteNext, Full, FileSize
  <2>2. /\ count' = count + 1 /\ lastCount' = count + 1 /\ base' = base /\ count < MaxFiles
        /\ filename' = <<base, count + 1>>
    BY <1>1, <1>4, <1>6, <2>1 DEF WriteNext, GetFilename
  <2>3. /\ GoodSeries(c, base, count, TRUE, accepted)
        /\ <<base, count + 1>> \in DOMAIN c <=> <<base, count + 1>> \in DOMAIN disk
    BY <1>4, <2>1, SeriesEnded
  <2>4. CASE <<base, count + 1>> \in DOMAIN c
    <3>1. disk' = c /\ out' = [out EXCEPT !.state = "closed"] /\ accepted' = accepted
      BY <1>4, <1>6, <2>1, <2>2, <2>4 DEF WriteNext, Refuses
    <3>2. out'.state = "closed" /\ out'.file = <<base, count>>
      BY <1>4, <2>1, <3>1 DEF SplitInv, SplitTypes
    <3>4. GoodSeries(disk', base, count, Ended', accepted')
      <4>1. Ended' = TRUE
        BY <3>2 DEF Ended
      <4>2. QED
        BY <2>3, <3>1, <4>1
    <3>5. (out.file = <<out.file[1], Number>> /\ Series(out.file[1], Number, accepted))'
      BY <3>2, <3>4 DEF Series, Number
    <3>6. QED
      BY <2>2, <2>4, <3>1, <3>2, <3>5 DEF SplitInv
  <2>5. CASE <<base, count + 1>> \notin DOMAIN c
    <3>1. PutRecord(e, <<base, count + 1>>, size)
      BY <1>4, <1>6, <2>1, <2>2, <2>5 DEF WriteNext, Refuses
    <3>2. GoodSeries(e, base, count + 1, FALSE, accepted)
      BY <1>4, <2>1, <2>3, <2>5, SeriesGoesOn
    <3>3. e[<<base, count + 1>>] = << >> /\ <<base, count + 1>> \in DOMAIN e
      BY DEF Put
    <3> HIDE DEF e
    <3>4. /\ out' \in {[state |-> "open", file |-> <<base, count + 1>>],
                       [state |-> "error", file |-> <<base, count + 1>>]}
          /\ DOMAIN disk' = DOMAIN e
          /\ GoodSeries(disk', base, count + 1, FALSE, accepted')
      BY <1>1, <1>2, <3>1, <3>2, <3>3, PutInSeries
    <3>5. /\ out'.state \in {"open", "error"} /\ out'.file = <<base, count + 1>>
          /\ GoodSeries(disk', base, count + 1, Ended', accepted')
      <4>1. out'.state \in {"open", "error"} /\ out'.file = <<base, count + 1>>
        BY <3>4
      <4>2. Ended' = FALSE
        BY <4>1 DEF Ended
      <4>3. QED
        BY <3>4, <4>1, <4>2
    <3>6. (out.file = <<out.file[1], Number>> /\ Series(out.file[1], Number, accepted))'
      BY <3>5 DEF Series, Number
    <3>7. QED
      BY <2>2, <3>3, <3>4, <3>5, <3>6 DEF SplitInv
  <2>6. QED
    BY <2>4, <2>5
<1>7. ASSUME WriteAfterError \/ WriteAfterClose PROVE SplitInv'
  <2>1. /\ UNCHANGED <<members, disk, accepted>> /\ out'.file = out.file
        /\ out'.state # "new" /\ out.state # "new"
        /\ out'.state \in {"open", "error"} <=> out.state \in {"open", "error"}
        /\ Ended' = Ended
    BY <1>7 DEF WriteAfterError, WriteAfterClose, SplitInv, SplitTypes, Ended
  <2>2. (out.file = <<out.file[1], Number>> /\ Series(out.file[1], Number, accepted))'
    BY <2>1 DEF SplitInv, Series, Number
  <2>3. QED
    BY <2>1, <2>2 DEF SplitInv, members
<1>8. ASSUME Close PROVE SplitInv'
  <2>1. UNCHANGED <<members, accepted>> /\ out.state \in {"open", "error"}
    BY <1>8 DEF Close
  <2>2. CASE out.state = "open"
    <3>1. disk' = Closed(disk, <<base, count>>) /\ out' = [out EXCEPT !.state = "closed"]
      BY <1>4, <1>8, <2>1, <2>2 DEF Close
    <3>2. out'.state = "closed" /\ out'.file = <<base, count>>
      BY <1>4, <2>1, <3>1 DEF SplitInv, SplitTypes
    <3>3. GoodSeries(disk', base, count, TRUE, accepted)
      BY <1>4, <2>1, <3>1, SeriesEnded
    <3>4. GoodSeries(disk', base, count, Ended', accepted')
      <4>1. Ended' = TRUE
        BY <3>2 DEF Ended
      <4>2. QED
        BY <2>1, <3>3, <4>1
    <3>5. (out.file = <<out.file[1], Number>> /\ Series(out.file[1], Number, accepted))'
      BY <3>2, <3>4 DEF Series, Number
    <3>6. filename' \in DOMAIN disk'
      BY <1>4, <2>1, <3>1 DEF Closed, Put, members
    <3>7. QED
      BY <3>2, <3>5, <3>6 DEF SplitInv
  <2>3. CASE out.state # "open"
    <3>1. UNCHANGED <<members, accepted, disk, out>>
      BY <1>8, <2>3 DEF Close
    <3>2. QED
      BY <3>1 DEF SplitInv, Series, Ended, Number, members
  <2>4. QED
    BY <2>2, <2>3
<1>9. ASSUME UNCHANGED vars PROVE SplitInv'
  BY <1>9 DEF vars, SplitInv, Series, Ended, Number, members
<1>10. QED
  BY <1>3, <1>5, <1>6, <1>7, <1>8, <1>9 DEF Next, Write

(***************************************************************************)
(* The invariant holds.                                                    *)
(***************************************************************************)
LEMMA SpecSplitInv == Spec => []SplitInv
<1>1. Init => SplitInv
  <2> SUFFICES ASSUME Init PROVE SplitInv
    OBVIOUS
  <2>1. lastCount = NoCount /\ out.state = "new" /\ accepted = << >>
    BY DEF Init
  <2>2. SplitTypes
    BY SplitTypesAtFirst
  <2>3. QED
    BY <2>1, <2>2 DEF SplitInv
<1>2. SplitInv /\ [Next]_vars /\ SplitTypes' => SplitInv'
  BY SplitStep
<1>3. QED
  BY <1>1, <1>2, SpecSplitTypes, PTL DEF Spec

(***************************************************************************)
(* For any names, sizes, limit and failures of the disk: the files of the  *)
(* series hold the records that were accepted, once and in order.          *)
(***************************************************************************)
THEOREM SpecSeriesIsJob == Spec => []SeriesIsJob
<1>1. SplitInv => SeriesIsJob
  <2> SUFFICES ASSUME SplitInv, accepted # << >>, out.file[1] = base
               PROVE  /\ \A k \in 0 .. Number : <<base, k>> \in DOMAIN disk
                      /\ FlattenSeq([k \in 1 .. Number + 1 |-> Ids(Data(<<base, k - 1>>))]) = accepted
    BY DEF SeriesIsJob, InSeries
  <2>1. GoodSeries(disk, base, Number, Ended, accepted)
    BY DEF SplitInv, Series
  <2>2. SeriesIds(disk, base, Number) = [k \in 1 .. Number + 1 |-> Ids(Data(<<base, k - 1>>))]
    BY DEF SeriesIds, Data, DataIn
  <2>3. QED
    BY <2>1, <2>2 DEF GoodSeries, GoodFiles
<1>2. QED
  BY <1>1, SpecSplitInv, PTL

(***************************************************************************)
(* And a file is left when its records are above the limit and not before. *)
(***************************************************************************)
THEOREM SpecSplitsAtLimit == Spec => []SplitsAtLimit
<1>1. SplitInv => SplitsAtLimit
  <2> SUFFICES ASSUME SplitInv, accepted # << >>, out.file[1] = base, NEW k \in 0 .. Number
               PROVE  /\ k < Number => SizeOf(Data(<<base, k>>)) > MaxBytes
                      /\ Data(<<base, k>>) # << >> => SizeOf(Front(Data(<<base, k>>))) <= MaxBytes
    BY DEF SplitsAtLimit, InSeries
  <2>1. GoodFiles(disk, base, Number, Ended)
    BY DEF SplitInv, Series, GoodSeries
  <2>2. OpenFile(DataIn(disk[<<base, k>>])) /\ (k < Number => SizeOf(DataIn(disk[<<base, k>>])) > MaxBytes)
    BY <2>1, SeriesData
  <2>3. DataIn(disk[<<base, k>>]) = Data(<<base, k>>)
    BY DEF Data, DataIn
  <2>4. QED
    BY <2>2, <2>3 DEF OpenFile, Fits
<1>2. QED
  BY <1>1, SpecSplitInv, PTL

-----------------------------------------------------------------------------
(* Relations. *)

(***************************************************************************)
(* Entries of a map, each object at most once, and what they say.          *)
(***************************************************************************)
Relata(O) == [obj : O, weight : Int]
Once(e) == \A i, j \in DOMAIN e : e[i].obj = e[j].obj => i = j
EntryOf(e, O) == e \in Seq(Relata(O)) /\ Once(e)
Says(e, o, w) == \E i \in DOMAIN e : e[i].obj = o /\ e[i].weight = w

\* The place of an object in an entry: 0 if the entry does not have it.
LEMMA PlaceIs ==
  ASSUME NEW O, NEW e, EntryOf(e, O), NEW o
  PROVE  \/ PlaceOf(e, o) = 0 /\ \A i \in DOMAIN e : e[i].obj # o
         \/ PlaceOf(e, o) \in DOMAIN e /\ PlaceOf(e, o) \in Nat \ {0} /\ e[PlaceOf(e, o)].obj = o
<1> DEFINE at == {i \in DOMAIN e : e[i].obj = o}
           x == CHOOSE i \in at : \A j \in at : i <= j
<1>1. DOMAIN e = 1 .. Len(e) /\ Len(e) \in Nat
  BY LenProperties DEF EntryOf
<1>2. PlaceOf(e, o) = IF at = {} THEN 0 ELSE x
  BY DEF PlaceOf
<1>3. CASE at = {}
  BY <1>2, <1>3
<1>4. CASE at # {}
  <2>1. at \in SUBSET Nat /\ \A i \in at : i \in DOMAIN e /\ i \in Nat \ {0} /\ e[i].obj = o
    BY <1>1
  <2> HIDE DEF at
  <2>2. x \in at
    BY <1>4, <2>1, LeastNatural
  <2> HIDE DEF x
  <2>3. QED
    BY <1>2, <1>4, <2>1, <2>2
<1>5. QED
  BY <1>3, <1>4

\* The entry with a weight added to that of o.
MoreOf(e, o, w) ==
  IF PlaceOf(e, o) = 0 THEN Append(e, [obj |-> o, weight |-> w])
  ELSE [e EXCEPT ![PlaceOf(e, o)].weight = @ + w]

(***************************************************************************)
(* addRelation adds a weight to an object that the entry has, or the       *)
(* object; what the entry says of other objects stays.                     *)
(***************************************************************************)
LEMMA MoreSays ==
  ASSUME NEW O, NEW e, EntryOf(e, O), NEW o \in O, NEW w \in Int
  PROVE  /\ EntryOf(MoreOf(e, o, w), O)
         /\ \A p \in O, v \in Int :
              Says(MoreOf(e, o, w), p, v) <=>
                IF p # o THEN Says(e, p, v)
                ELSE IF \E u \in Int : Says(e, o, u) THEN Says(e, o, v - w) ELSE v = w
<1> DEFINE at == PlaceOf(e, o)
           m == MoreOf(e, o, w)
           n == Len(e)
<1>1. e \in Seq(Relata(O)) /\ n \in Nat /\ DOMAIN e = 1 .. n /\ Once(e)
      /\ \A i \in 1 .. n : e[i] \in Relata(O)
  BY LenProperties DEF EntryOf
<1>2. \A i \in 1 .. n : e[i].obj \in O /\ e[i].weight \in Int
  BY <1>1 DEF Relata
<1>3. CASE at = 0
  <2>1. \A i \in 1 .. n : e[i].obj # o
    BY <1>1, <1>3, PlaceIs
  <2> DEFINE r == [obj |-> o, weight |-> w]
  <2>2. r \in Relata(O) /\ r.obj = o /\ r.weight = w
    BY DEF Relata
  <2>3. m = Append(e, r)
    BY <1>3 DEF MoreOf
  <2> HIDE DEF m, r
  <2>4. /\ m \in Seq(Relata(O)) /\ DOMAIN m = 1 .. n + 1 /\ m[n + 1] = r
        /\ \A i \in 1 .. n : m[i] = e[i]
    BY <1>1, <2>2, <2>3
  <2>5. Once(m)
    <3> SUFFICES ASSUME NEW i \in 1 .. n + 1, NEW j \in 1 .. n + 1, m[i].obj = m[j].obj PROVE i = j
      BY <2>4 DEF Once
    <3>1. (i = n + 1 \/ i \in 1 .. n) /\ (j = n + 1 \/ j \in 1 .. n)
      BY <1>1
    <3>2. QED
      BY <1>1, <2>1, <2>2, <2>4, <3>1 DEF Once
  <2>6. ~\E u \in Int : Says(e, o, u)
    BY <1>1, <2>1 DEF Says
  <2>7. ASSUME NEW p \in O, NEW v \in Int
        PROVE  Says(m, p, v) <=> IF p # o THEN Says(e, p, v) ELSE v = w
    <3>1. Says(m, p, v) <=> Says(e, p, v) \/ (p = o /\ v = w)
      <4>1. \A i \in 1 .. n + 1 : i = n + 1 \/ i \in 1 .. n
        BY <1>1
      <4>2. n + 1 \in 1 .. n + 1 /\ \A i \in 1 .. n : i \in 1 .. n + 1
        BY <1>1
      <4>3. QED
        BY <1>1, <2>2, <2>4, <4>1, <4>2 DEF Says
    <3>2. p = o => ~Says(e, p, v)
      BY <1>1, <2>1 DEF Says
    <3>3. QED
      BY <3>1, <3>2
  <2>8. QED
    BY <2>4, <2>5, <2>6, <2>7 DEF EntryOf, m
<1>4. CASE at # 0
  <2>1. at \in 1 .. n /\ e[at].obj = o
    BY <1>1, <1>4, PlaceIs
  <2>2. \A i \in 1 .. n : e[i].obj = o => i = at
    BY <1>1, <2>1 DEF Once
  <2>3. m = [e EXCEPT ![at] = [e[at] EXCEPT !.weight = e[at].weight + w]]
    BY <1>4 DEF MoreOf
  <2> DEFINE r == [e[at] EXCEPT !.weight = e[at].weight + w]
  <2>4. r \in Relata(O) /\ r.obj = o /\ r.weight = e[at].weight + w
    BY <1>1, <2>1 DEF Relata
  <2> HIDE DEF at, r, m
  <2>5. /\ m \in Seq(Relata(O)) /\ DOMAIN m = 1 .. n /\ m[at] = r
        /\ \A i \in 1 .. n : i # at => m[i] = e[i]
    BY <1>1, <2>1, <2>3, <2>4 DEF r
  <2>6. Once(m)
    <3> SUFFICES ASSUME NEW i \in 1 .. n, NEW j \in 1 .. n, m[i].obj = m[j].obj PROVE i = j
      BY <2>5 DEF Once
    <3>1. m[i].obj = e[i].obj /\ m[j].obj = e[j].obj
      BY <2>1, <2>4, <2>5
    <3>2. QED
      BY <1>1, <3>1 DEF Once
  <2>7. Says(e, o, e[at].weight)
    BY <1>1, <2>1 DEF Says
  <2>8. ASSUME NEW p \in O, NEW v \in Int
        PROVE  Says(m, p, v) <=> IF p # o THEN Says(e, p, v) ELSE Says(e, o, v - w)
    <3>1. CASE p # o
      BY <1>1, <2>1, <2>4, <2>5, <3>1 DEF Says
    <3>2. CASE p = o
      <4>1. Says(m, o, v) <=> m[at].weight = v
        BY <1>1, <2>1, <2>2, <2>4, <2>5 DEF Says
      <4>2. Says(e, o, v - w) <=> e[at].weight = v - w
        BY <1>1, <2>1, <2>2 DEF Says
      <4>3. e[at].weight \in Int
        BY <1>2, <2>1
      <4>4. QED
        BY <2>4, <2>5, <3>2, <4>1, <4>2, <4>3
    <3>3. QED
      BY <3>1, <3>2
  <2>9. \E u \in Int : Says(e, o, u)
    BY <1>2, <2>1, <2>7
  <2>10. QED
    BY <2>5, <2>6, <2>8, <2>9 DEF EntryOf, m
<1>5. QED
  BY <1>3, <1>4

\* erase takes one object out of an entry, and no other.
LEMMA RemovedSays ==
  ASSUME NEW O, NEW e, EntryOf(e, O), NEW o \in O, PlaceOf(e, o) # 0
  PROVE  LET m == RemoveAt(e, PlaceOf(e, o))
         IN  /\ EntryOf(m, O) /\ (Len(e) = 1 => m = << >>)
             /\ \A p \in O, v \in Int : Says(m, p, v) <=> p # o /\ Says(e, p, v)
<1> DEFINE at == PlaceOf(e, o)
           m == RemoveAt(e, at)
           n == Len(e)
<1>1. e \in Seq(Relata(O)) /\ n \in Nat /\ DOMAIN e = 1 .. n /\ Once(e)
      /\ \A i \in 1 .. n : e[i] \in Relata(O)
  BY LenProperties DEF EntryOf
<1>2. at \in 1 .. n /\ e[at].obj = o
  BY <1>1, PlaceIs
<1>3. \A i \in 1 .. n : e[i].obj = o => i = at
  BY <1>1, <1>2 DEF Once
<1> HIDE DEF at, n
<1> DEFINE a == SubSeq(e, 1, at - 1)
           b == SubSeq(e, at + 1, n)
<1>4. /\ a \in Seq(Relata(O)) /\ Len(a) = at - 1 /\ \A i \in 1 .. at - 1 : a[i] = e[i]
      /\ b \in Seq(Relata(O)) /\ Len(b) = n - at /\ \A i \in 1 .. n - at : b[i] = e[at + i]
  <2>1. 1 \in 1 .. n + 1 /\ at - 1 \in 1 - 1 .. n /\ at + 1 \in 1 .. n + 1 /\ n \in (at + 1) - 1 .. n /\ n = Len(e)
    BY <1>1, <1>2 DEF n
  <2> HIDE DEF n
  <2>2. a \in Seq(Relata(O)) /\ Len(a) = at - 1
    BY <1>1, <1>2, <2>1, SubSeqProperties
  <2>3. \A i \in 1 .. at - 1 : a[i] = e[i]
    BY <1>1, <1>2, <2>1, SubSeqProperties
  <2>4. b \in Seq(Relata(O)) /\ Len(b) = n - at
    <3>1. \A i \in at + 1 .. n : e[i] \in Relata(O)
      BY <1>1, <1>2
    <3>2. b \in Seq(Relata(O)) /\ Len(b) = IF at + 1 <= n THEN n - (at + 1) + 1 ELSE 0
      BY <1>1, <1>2, <3>1, SubSeqProperties
    <3> HIDE DEF b
    <3>3. QED
      BY <1>1, <1>2, <3>2
  <2>5. \A i \in 1 .. n - at : b[i] = e[at + i]
    BY <1>1, <1>2, <2>1, SubSeqProperties
  <2>6. QED
    BY <2>2, <2>3, <2>4, <2>5
<1>5. m = a \o b
  BY DEF RemoveAt, n
<1> HIDE DEF a, b, m
<1>6. /\ m \in Seq(Relata(O)) /\ Len(m) = n - 1 /\ DOMAIN m = 1 .. n - 1
      /\ \A i \in 1 .. n - 1 : m[i] = IF i < at THEN e[i] ELSE e[i + 1]
  <2>1. m \in Seq(Relata(O)) /\ Len(m) = n - 1 /\ DOMAIN m = 1 .. n - 1
    <3>1. m \in Seq(Relata(O)) /\ Len(m) = Len(a) + Len(b)
      BY <1>4, <1>5, ConcatProperties
    <3>2. QED
      BY <1>1, <1>2, <1>4, <3>1, LenProperties
  <2>2. ASSUME NEW i \in 1 .. n - 1 PROVE m[i] = IF i < at THEN e[i] ELSE e[i + 1]
    <3>1. CASE i < at
      BY <1>1, <1>2, <1>4, <1>5, <3>1
    <3>2. CASE ~(i < at)
      <4>1. i - (at - 1) \in 1 .. n - at /\ at + (i - (at - 1)) = i + 1
        BY <1>1, <1>2, <3>2
      <4>2. m[i] = b[i - (at - 1)]
        BY <1>1, <1>2, <1>4, <1>5, <3>2
      <4>3. QED
        BY <1>4, <3>2, <4>1, <4>2
    <3>3. QED
      BY <3>1, <3>2
  <2>3. QED
    BY <2>1, <2>2
<1>7. Once(m)
  <2> SUFFICES ASSUME NEW i \in 1 .. n - 1, NEW j \in 1 .. n - 1, m[i].obj = m[j].obj PROVE i = j
    BY <1>6 DEF Once
  <2> DEFINE f(k) == IF k < at THEN k ELSE k + 1
  <2>1. f(i) \in 1 .. n /\ f(j) \in 1 .. n /\ m[i] = e[f(i)] /\ m[j] = e[f(j)]
    BY <1>1, <1>2, <1>6
  <2>2. f(i) = f(j)
    BY <1>1, <2>1 DEF Once
  <2>3. QED
    BY <1>1, <1>2, <2>2
<1>8. n = 1 => m = << >>
  BY <1>6
<1>9. ASSUME NEW p \in O, NEW v \in Int
      PROVE  Says(m, p, v) <=> p # o /\ Says(e, p, v)
  <2>1. ASSUME Says(m, p, v) PROVE p # o /\ Says(e, p, v)
    <3>1. PICK i \in 1 .. n - 1 : m[i].obj = p /\ m[i].weight = v
      BY <1>6, <2>1 DEF Says
    <3> DEFINE k == IF i < at THEN i ELSE i + 1
    <3>2. k \in 1 .. n /\ k # at /\ m[i] = e[k]
      BY <1>1, <1>2, <1>6
    <3> HIDE DEF k
    <3>3. QED
      BY <1>1, <1>3, <3>1, <3>2 DEF Says
  <2>2. ASSUME p # o, Says(e, p, v) PROVE Says(m, p, v)
    <3>1. PICK k \in 1 .. n : e[k].obj = p /\ e[k].weight = v
      BY <1>1, <2>2 DEF Says
    <3>2. k # at
      BY <1>2, <2>2, <3>1
    <3> DEFINE i == IF k < at THEN k ELSE k - 1
    <3>3. i \in 1 .. n - 1 /\ m[i] = e[k]
      BY <1>1, <1>2, <1>6, <3>2
    <3> HIDE DEF i
    <3>4. QED
      BY <1>6, <3>1, <3>3 DEF Says
  <2>3. QED
    BY <2>1, <2>2
<1>10. QED
  BY <1>6, <1>7, <1>8, <1>9 DEF EntryOf, m, at, n

-----------------------------------------------------------------------------
(***************************************************************************)
(* A map from objects of K to entries of objects of O says the triples T.  *)
(***************************************************************************)
Tells(m, T, K, O) ==
  /\ IsFiniteSet(DOMAIN m) /\ DOMAIN m \subseteq K /\ T \subseteq K \X O \X Int
  /\ \A k \in DOMAIN m : EntryOf(m[k], O)
  /\ \A k \in K, o \in O, w \in Int : Says(Entry(m, k), o, w) <=> <<k, o, w>> \in T

\* T with a relation added, or one removed.
Plus(T, k, o, w, K, O) ==
  {t \in K \X O \X Int :
     IF <<t[1], t[2]>> # <<k, o>> THEN t \in T
     ELSE IF \E u \in Int : <<k, o, u>> \in T THEN <<k, o, t[3] - w>> \in T ELSE t[3] = w}
Minus(T, k, o) == {t \in T : <<t[1], t[2]>> # <<k, o>>}

(***************************************************************************)
(* The entry of a map that tells T is an entry, also for a key it does not *)
(* have.                                                                   *)
(***************************************************************************)
LEMMA EntryIs ==
  ASSUME NEW m, NEW T, NEW K, NEW O, Tells(m, T, K, O), NEW k \in K
  PROVE  EntryOf(Entry(m, k), O)
<1>1. EntryOf(<< >>, O)
  BY DEF EntryOf, Once
<1>2. QED
  BY <1>1 DEF Tells, Entry

\* A map with one more entry, or another one.
LEMMA WithEntry ==
  ASSUME NEW m, NEW key, NEW value
  PROVE  /\ DOMAIN With(m, key, value) = DOMAIN m \cup {key}
         /\ With(m, key, value)[key] = value
         /\ \A k \in DOMAIN m : k # key => With(m, key, value)[k] = m[k]
         /\ \A k : Entry(With(m, key, value), k) = IF k = key THEN value ELSE Entry(m, k)
BY DEF With, Entry

\* A map that tells T tells T with the weight added after addRelation.
LEMMA AddedTells ==
  ASSUME NEW m, NEW T, NEW K, NEW O, Tells(m, T, K, O), NEW k \in K, NEW o \in O, NEW w \in Int
  PROVE  Tells(Added(m, k, o, w), Plus(T, k, o, w, K, O), K, O)
<1> DEFINE e == Entry(m, k)
           f == MoreOf(e, o, w)
           a == Added(m, k, o, w)
           U == Plus(T, k, o, w, K, O)
<1>1. EntryOf(e, O)
  BY EntryIs
<1>2. a = With(m, k, f)
  BY DEF Added, MoreOf
<1> HIDE DEF e, f, a
<1>3. EntryOf(f, O) /\ \A p \in O, v \in Int :
        Says(f, p, v) <=> IF p # o THEN Says(e, p, v)
                          ELSE IF \E u \in Int : Says(e, o, u) THEN Says(e, o, v - w) ELSE v = w
  BY <1>1, MoreSays DEF f
<1>4. /\ DOMAIN a = DOMAIN m \cup {k} /\ a[k] = f /\ \A x \in DOMAIN m : x # k => a[x] = m[x]
      /\ \A x : Entry(a, x) = IF x = k THEN f ELSE Entry(m, x)
  BY <1>2, WithEntry
<1>5. IsFiniteSet(DOMAIN a) /\ DOMAIN a \subseteq K
  BY <1>4, FS_AddElement DEF Tells
<1>6. \A x \in DOMAIN a : EntryOf(a[x], O)
  BY <1>3, <1>4 DEF Tells
<1>7. U \subseteq K \X O \X Int
  BY DEF Plus
<1>8. ASSUME NEW x \in K, NEW p \in O, NEW v \in Int
      PROVE  Says(Entry(a, x), p, v) <=> <<x, p, v>> \in U
  <2>1. <<x, p, v>> \in U <=> IF x # k \/ p # o THEN <<x, p, v>> \in T
                             ELSE IF \E u \in Int : <<k, o, u>> \in T THEN <<k, o, v - w>> \in T ELSE v = w
    BY DEF Plus
  <2>2. \A q \in O, u \in Int : Says(e, q, u) <=> <<k, q, u>> \in T
    BY DEF Tells, e
  <2> HIDE DEF U
  <2>3. CASE x = k
    <3>1. v - w \in Int
      OBVIOUS
    <3>2. QED
      BY <1>3, <1>4, <2>1, <2>2, <2>3, <3>1
  <2>4. CASE x # k
    BY <1>4, <2>1, <2>4 DEF Tells
  <2>5. QED
    BY <2>3, <2>4
<1> HIDE DEF U
<1>9. QED
  BY <1>5, <1>6, <1>7, <1>8 DEF Tells, a, U

\* And T without the pair after removeRelation.
LEMMA RemovedTells ==
  ASSUME NEW m, NEW T, NEW K, NEW O, Tells(m, T, K, O), NEW k \in K, NEW o \in O
  PROVE  Tells(Removed(m, k, o), Minus(T, k, o), K, O)
<1> DEFINE e == Entry(m, k)
           at == PlaceOf(e, o)
           f == RemoveAt(e, at)
           a == Removed(m, k, o)
           U == Minus(T, k, o)
<1>1. EntryOf(e, O)
  BY EntryIs
<1>2. a = IF at = 0 THEN m
          ELSE IF Len(e) = 1 THEN Restrict(m, DOMAIN m \ {k}) ELSE With(m, k, f)
  BY DEF Removed
<1>3. at # 0 => /\ EntryOf(f, O) /\ (Len(e) = 1 => f = << >>)
                /\ \A p \in O, v \in Int : Says(f, p, v) <=> p # o /\ Says(e, p, v)
  BY <1>1, RemovedSays
<1>4. at = 0 => \A v \in Int : ~Says(e, o, v)
  BY <1>1, PlaceIs DEF Says
<1> HIDE DEF at, f, a
<1>5. /\ IsFiniteSet(DOMAIN a) /\ DOMAIN a \subseteq K
      /\ \A x \in DOMAIN a : EntryOf(a[x], O)
      /\ \A x \in K : Entry(a, x) = IF x = k /\ at # 0 THEN f ELSE Entry(m, x)
  <2>1. CASE at = 0
    BY <1>2, <2>1 DEF Tells
  <2>2. CASE at # 0 /\ Len(e) = 1
    <3>1. /\ DOMAIN a = DOMAIN m \ {k} /\ \A x \in DOMAIN a : a[x] = m[x]
      BY <1>2, <2>2 DEF Restrict
    <3>2. IsFiniteSet(DOMAIN a)
      BY <3>1, FS_RemoveElement DEF Tells
    <3>3. QED
      BY <1>3, <2>2, <3>1, <3>2 DEF Tells, Entry
  <2>3. CASE at # 0 /\ Len(e) # 1
    <3>1. a = With(m, k, f)
      BY <1>2, <2>3
    <3>2. /\ DOMAIN a = DOMAIN m \cup {k} /\ a[k] = f /\ \A x \in DOMAIN m : x # k => a[x] = m[x]
          /\ \A x : Entry(a, x) = IF x = k THEN f ELSE Entry(m, x)
      BY <3>1, WithEntry
    <3>3. IsFiniteSet(DOMAIN a) /\ DOMAIN a \subseteq K
      BY <3>2, FS_AddElement DEF Tells
    <3>4. QED
      BY <1>3, <2>3, <3>2, <3>3 DEF Tells
  <2>4. QED
    BY <2>1, <2>2, <2>3
<1>6. U \subseteq K \X O \X Int
  BY DEF Minus, Tells
<1>7. ASSUME NEW x \in K, NEW p \in O, NEW v \in Int
      PROVE  Says(Entry(a, x), p, v) <=> <<x, p, v>> \in U
  <2>1. <<x, p, v>> \in U <=> <<x, p, v>> \in T /\ (x # k \/ p # o)
    BY DEF Minus
  <2>2. Says(Entry(m, x), p, v) <=> <<x, p, v>> \in T
    BY DEF Tells
  <2> HIDE DEF U
  <2>3. CASE x = k
    BY <1>3, <1>4, <1>5, <2>1, <2>2, <2>3
  <2>4. CASE x # k
    BY <1>5, <2>1, <2>2, <2>4
  <2>5. QED
    BY <2>3, <2>4
<1> HIDE DEF U
<1>8. QED
  BY <1>5, <1>6, <1>7 DEF Tells, a, U

-----------------------------------------------------------------------------
(***************************************************************************)
(* A sequence of relations that lists the triples T, each pair once.       *)
(***************************************************************************)
Elem(K, O) == [from : K, to : O, weight : Int]
Has(E, k, o, w) == \E i \in DOMAIN E : E[i].from = k /\ E[i].to = o /\ E[i].weight = w
Distinct(E) == \A i, j \in DOMAIN E : E[i].from = E[j].from /\ E[i].to = E[j].to => i = j

Lists(E, T, K, O) ==
  /\ E \in Seq(Elem(K, O)) /\ T \subseteq K \X O \X Int /\ Distinct(E)
  /\ \A k \in K, o \in O, w \in Int : Has(E, k, o, w) <=> <<k, o, w>> \in T

\* A relation of a concatenation is one of its parts.
LEMMA ConcatHas ==
  ASSUME NEW R, NEW a \in Seq(R), NEW b \in Seq(R), NEW k, NEW o, NEW w
  PROVE  Has(a \o b, k, o, w) <=> Has(a, k, o, w) \/ Has(b, k, o, w)
<1> DEFINE c == a \o b
<1>1. /\ Len(a) \in Nat /\ Len(b) \in Nat /\ DOMAIN a = 1 .. Len(a) /\ DOMAIN b = 1 .. Len(b)
      /\ DOMAIN c = 1 .. Len(a) + Len(b)
      /\ \A i \in 1 .. Len(a) + Len(b) : c[i] = IF i <= Len(a) THEN a[i] ELSE b[i - Len(a)]
  BY LenProperties, ConcatProperties
<1> HIDE DEF c
<1>2. ASSUME Has(c, k, o, w) PROVE Has(a, k, o, w) \/ Has(b, k, o, w)
  <2>1. PICK i \in 1 .. Len(a) + Len(b) : c[i].from = k /\ c[i].to = o /\ c[i].weight = w
    BY <1>1, <1>2 DEF Has
  <2>2. CASE i <= Len(a)
    <3>1. i \in DOMAIN a /\ c[i] = a[i]
      BY <1>1, <2>2
    <3>2. QED
      BY <2>1, <3>1 DEF Has
  <2>3. CASE ~(i <= Len(a))
    <3>1. i - Len(a) \in DOMAIN b /\ c[i] = b[i - Len(a)]
      BY <1>1, <2>3
    <3>2. QED
      BY <2>1, <3>1 DEF Has
  <2>4. QED
    BY <2>2, <2>3
<1>3. ASSUME Has(a, k, o, w) PROVE Has(c, k, o, w)
  <2>1. PICK i \in 1 .. Len(a) : a[i].from = k /\ a[i].to = o /\ a[i].weight = w
    BY <1>1, <1>3 DEF Has
  <2>2. i \in DOMAIN c /\ c[i] = a[i]
    BY <1>1
  <2>3. QED
    BY <2>1, <2>2 DEF Has
<1>4. ASSUME Has(b, k, o, w) PROVE Has(c, k, o, w)
  <2>1. PICK i \in 1 .. Len(b) : b[i].from = k /\ b[i].to = o /\ b[i].weight = w
    BY <1>1, <1>4 DEF Has
  <2> DEFINE j == Len(a) + i
  <2>2. j \in 1 .. Len(a) + Len(b) /\ ~(j <= Len(a)) /\ j - Len(a) = i
    BY <1>1
  <2> HIDE DEF j
  <2>3. j \in DOMAIN c /\ c[j] = b[i]
    BY <1>1, <2>2
  <2>4. QED
    BY <2>1, <2>3 DEF Has
<1>5. QED
  BY <1>2, <1>3, <1>4 DEF c

\* Two lists without a common object on the first side name no pair twice.
LEMMA ConcatDistinct ==
  ASSUME NEW R, NEW a \in Seq(R), NEW b \in Seq(R), Distinct(a), Distinct(b),
         \A i \in DOMAIN a, j \in DOMAIN b : a[i].from # b[j].from
  PROVE  Distinct(a \o b)
<1> DEFINE c == a \o b
           n == Len(a)
           q == Len(b)
<1>1. /\ n \in Nat /\ q \in Nat /\ DOMAIN a = 1 .. n /\ DOMAIN b = 1 .. q
      /\ DOMAIN c = 1 .. n + q
      /\ \A i \in 1 .. n + q : c[i] = IF i <= n THEN a[i] ELSE b[i - n]
  BY LenProperties, ConcatProperties
<1> HIDE DEF c, n, q
<1>2. SUFFICES ASSUME NEW i \in 1 .. n + q, NEW j \in 1 .. n + q,
                      c[i].from = c[j].from, c[i].to = c[j].to
               PROVE  i = j
  BY <1>1 DEF Distinct, c
<1>3. CASE i <= n /\ j <= n
  <2>1. i \in DOMAIN a /\ j \in DOMAIN a /\ c[i] = a[i] /\ c[j] = a[j]
    BY <1>1, <1>3
  <2>2. QED
    BY <1>2, <2>1 DEF Distinct
<1>4. CASE i <= n /\ ~(j <= n)
  <2>1. i \in DOMAIN a /\ j - n \in DOMAIN b /\ c[i] = a[i] /\ c[j] = b[j - n]
    BY <1>1, <1>4
  <2>2. QED
    BY <1>2, <2>1
<1>5. CASE ~(i <= n) /\ j <= n
  <2>1. j \in DOMAIN a /\ i - n \in DOMAIN b /\ c[j] = a[j] /\ c[i] = b[i - n]
    BY <1>1, <1>5
  <2>2. QED
    BY <1>2, <2>1
<1>6. CASE ~(i <= n) /\ ~(j <= n)
  <2>1. i - n \in DOMAIN b /\ j - n \in DOMAIN b /\ c[i] = b[i - n] /\ c[j] = b[j - n]
    BY <1>1, <1>6
  <2>2. i - n = j - n
    BY <1>2, <2>1 DEF Distinct
  <2>3. QED
    BY <1>1, <2>2
<1>7. QED
  BY <1>3, <1>4, <1>5, <1>6

\* A relation of a list is one of the triples it lists.
LEMMA FromsOf ==
  ASSUME NEW K, NEW O, NEW E, NEW T, Lists(E, T, K, O), NEW i \in DOMAIN E
  PROVE  /\ E[i].from \in K /\ E[i].to \in O /\ E[i].weight \in Int
         /\ <<E[i].from, E[i].to, E[i].weight>> \in T
<1>1. E[i] \in Elem(K, O)
  BY DEF Lists
<1>2. E[i].from \in K /\ E[i].to \in O /\ E[i].weight \in Int
  BY <1>1 DEF Elem
<1>3. Has(E, E[i].from, E[i].to, E[i].weight)
  BY DEF Has
<1>4. QED
  BY <1>2, <1>3 DEF Lists

(***************************************************************************)
(* Lists of triples whose first objects differ list them all, one after    *)
(* the other.                                                              *)
(***************************************************************************)
LEMMA ConcatLists ==
  ASSUME NEW K, NEW O, NEW a, NEW A, Lists(a, A, K, O), NEW b, NEW B, Lists(b, B, K, O),
         \A s \in A, t \in B : s[1] # t[1]
  PROVE  Lists(a \o b, A \cup B, K, O)
<1> DEFINE c == a \o b
<1>1. a \in Seq(Elem(K, O)) /\ b \in Seq(Elem(K, O)) /\ Distinct(a) /\ Distinct(b)
      /\ A \subseteq K \X O \X Int /\ B \subseteq K \X O \X Int
  BY DEF Lists
<1>2. ASSUME NEW i \in DOMAIN a, NEW j \in DOMAIN b PROVE a[i].from # b[j].from
  <2> DEFINE s == <<a[i].from, a[i].to, a[i].weight>>
             t == <<b[j].from, b[j].to, b[j].weight>>
  <2>1. s \in A /\ t \in B
    BY FromsOf
  <2>2. s[1] = a[i].from /\ t[1] = b[j].from
    OBVIOUS
  <2> HIDE DEF s, t
  <2>3. QED
    BY <2>1, <2>2
<1>3. c \in Seq(Elem(K, O)) /\ Distinct(c)
  BY <1>1, <1>2, ConcatDistinct, ConcatProperties
<1>4. \A k \in K, o \in O, w \in Int : Has(c, k, o, w) <=> Has(a, k, o, w) \/ Has(b, k, o, w)
  BY <1>1, ConcatHas
<1> HIDE DEF c
<1> DEFINE U == A \cup B
<1>5. ASSUME NEW k \in K, NEW o \in O, NEW w \in Int PROVE Has(c, k, o, w) <=> <<k, o, w>> \in U
  BY <1>4 DEF Lists
<1>6. U \subseteq K \X O \X Int
  BY <1>1
<1> HIDE DEF U
<1>7. Lists(c, U, K, O)
  BY <1>3, <1>5, <1>6 DEF Lists
<1>8. QED
  BY <1>7 DEF c, U

-----------------------------------------------------------------------------
(***************************************************************************)
(* The elements of the collection: for each key the block of its entry.    *)
(***************************************************************************)
BlockOf(m, k) ==
  [i \in DOMAIN m[k] |-> [from |-> k, to |-> m[k][i].obj, weight |-> m[k][i].weight]]
OfKey(T, k) == {t \in T : t[1] = k}

\* createLCCollection lists an object with all its entries.
LEMMA BlockLists ==
  ASSUME NEW m, NEW T, NEW K, NEW O, Tells(m, T, K, O), NEW k \in DOMAIN m
  PROVE  Lists(BlockOf(m, k), OfKey(T, k), K, O)
<1> DEFINE b == BlockOf(m, k)
           e == m[k]
           U == OfKey(T, k)
<1>1. e \in Seq(Relata(O)) /\ Once(e) /\ DOMAIN e = 1 .. Len(e) /\ Len(e) \in Nat /\ k \in K
  BY LenProperties DEF Tells, EntryOf
<1>2. Entry(m, k) = e
  BY DEF Entry
<1>3. \A o \in O, w \in Int : Says(e, o, w) <=> <<k, o, w>> \in T
  BY <1>1, <1>2 DEF Tells
<1>4. b = [i \in 1 .. Len(e) |-> [from |-> k, to |-> e[i].obj, weight |-> e[i].weight]]
  BY <1>1 DEF BlockOf
<1> HIDE DEF e, b, U
<1>5. \A i \in 1 .. Len(e) : e[i] \in Relata(O)
  BY <1>1
<1>6. \A i \in 1 .. Len(e) : b[i] \in Elem(K, O)
                             /\ b[i].from = k /\ b[i].to = e[i].obj /\ b[i].weight = e[i].weight
  BY <1>1, <1>4, <1>5 DEF Relata, Elem
<1>7. b \in Seq(Elem(K, O)) /\ DOMAIN b = 1 .. Len(e)
  <2>1. DOMAIN b = 1 .. Len(e) /\ b = [i \in 1 .. Len(e) |-> b[i]]
    BY <1>4
  <2>2. QED
    BY <1>1, <1>6, <2>1
<1>8. Distinct(b)
  BY <1>1, <1>6, <1>7 DEF Distinct, Once
<1>9. U \subseteq K \X O \X Int
  BY DEF U, OfKey, Tells
<1>10. ASSUME NEW x \in K, NEW o \in O, NEW w \in Int PROVE Has(b, x, o, w) <=> <<x, o, w>> \in U
  <2>1. Has(b, x, o, w) <=> x = k /\ Says(e, o, w)
    BY <1>1, <1>6, <1>7 DEF Has, Says
  <2>2. <<x, o, w>> \in U <=> <<x, o, w>> \in T /\ x = k
    BY DEF U, OfKey
  <2>3. QED
    BY <1>3, <2>1, <2>2
<1>11. Lists(b, U, K, O)
  BY <1>7, <1>8, <1>9, <1>10 DEF Lists
<1>12. QED
  BY <1>11 DEF b, U

\* A sequence of a set has every member once.
LEMMA KeysAll ==
  ASSUME NEW S, IsFiniteSet(S), NEW keys \in SetToSeqs(S)
  PROVE  \E n \in Nat :
           /\ n = Cardinality(S) /\ keys \in [1 .. n -> S]
           /\ \A i, j \in 1 .. n : keys[i] = keys[j] => i = j
           /\ \A x \in S : \E i \in 1 .. n : keys[i] = x
<1> DEFINE n == Cardinality(S)
<1>1. n \in Nat
  BY FS_CardinalityType
<1>2. keys \in [1 .. n -> S] /\ \A i, j \in 1 .. n : i # j => keys[i] # keys[j]
  BY DEF SetToSeqs
<1> HIDE DEF n
<1>3. IsFiniteSet(1 .. n) /\ Cardinality(1 .. n) = n
  BY <1>1, FS_Interval
<1>4. keys \in Injection(1 .. n, S)
  BY <1>2 DEF Injection, IsInjective
<1>5. keys \in Surjection(1 .. n, S)
  BY <1>3, <1>4, FS_Injection DEF n
<1>6. QED
  BY <1>1, <1>2, <1>5 DEF Surjection, n

(***************************************************************************)
(* createLCCollection lists what the map tells, each pair once, in         *)
(* whatever order the map is walked.                                       *)
(***************************************************************************)
LEMMA ElementsList ==
  ASSUME NEW T, NEW K, NEW O, Tells(relTo, T, K, O), NEW keys \in SetToSeqs(DOMAIN relTo)
  PROVE  Lists(Elements(keys), T, K, O)
<1> DEFINE m == relTo
           ss == [k \in DOMAIN keys |->
                    [i \in DOMAIN m[keys[k]] |->
                       [from |-> keys[k], to |-> m[keys[k]][i].obj, weight |-> m[keys[k]][i].weight]]]
           X == Elem(K, O)
<1>1. Elements(keys) = FlattenSeq(ss)
  BY DEF Elements
<1>2. PICK n \in Nat :
           /\ keys \in [1 .. n -> DOMAIN m]
           /\ \A i, j \in 1 .. n : keys[i] = keys[j] => i = j
           /\ \A x \in DOMAIN m : \E i \in 1 .. n : keys[i] = x
  BY KeysAll DEF Tells
<1>3. \A k \in 1 .. n : ss[k] = BlockOf(m, keys[k])
  BY <1>2 DEF BlockOf
<1>4. DOMAIN ss = 1 .. n /\ ss = [k \in 1 .. n |-> ss[k]]
  BY <1>2
<1> HIDE DEF ss
<1>5. \A k \in 1 .. n : Lists(ss[k], OfKey(T, keys[k]), K, O) /\ ss[k] \in Seq(X)
  <2>1. \A k \in 1 .. n : keys[k] \in DOMAIN m
    BY <1>2
  <2> HIDE DEF m
  <2>2. ASSUME NEW k \in 1 .. n PROVE Lists(ss[k], OfKey(T, keys[k]), K, O)
    BY <1>3, <2>1, BlockLists DEF m
  <2>3. QED
    BY <2>2 DEF Lists
<1>6. ss \in [1 .. n -> Seq(X)]
  BY <1>4, <1>5
<1>7. T \subseteq K \X O \X Int /\ \A t \in T : t[1] \in DOMAIN m
  <2>1. T \subseteq K \X O \X Int
    BY DEF Tells
  <2>2. ASSUME NEW t \in T, t[1] \notin DOMAIN m PROVE FALSE
    <3>1. t[1] \in K /\ t[2] \in O /\ t[3] \in Int /\ t = <<t[1], t[2], t[3]>>
      BY <2>1
    <3>2. Says(Entry(m, t[1]), t[2], t[3])
      BY <3>1 DEF Tells
    <3>3. Entry(m, t[1]) = << >>
      BY <2>2 DEF Entry
    <3>4. QED
      BY <3>2, <3>3 DEF Says
  <2>3. QED
    BY <2>1, <2>2
<1> HIDE DEF m
<1>8. CASE n = 0
  <2>1. ss = << >> /\ T = {}
    BY <1>2, <1>4, <1>7, <1>8
  <2>2. FlattenSeq(ss) = << >>
    BY <2>1 DEF FlattenSeq
  <2>3. Lists(<< >>, {}, K, O)
    BY DEF Lists, Distinct, Has
  <2>4. QED
    BY <1>1, <2>1, <2>2, <2>3
<1>9. CASE n # 0
  <2>1. n \in Nat \ {0} /\ n \in 1 .. n
    BY <1>9
  <2>2. PICK F : Flattens(F, ss, n, X) /\ FlattenSeq(ss) = F[n]
    BY <1>6, <2>1, FlattenIs
  <2> DEFINE Upto(k) == {t \in T : \E i \in 1 .. k : t[1] = keys[i]}
             Good == {k \in 1 .. n : Lists(F[k], Upto(k), K, O)}
  <2>3. ASSUME NEW k \in 1 .. n, k = 1 \/ k - 1 \in Good PROVE k \in Good
    <3>1. F[k] = IF k = 1 THEN ss[k] ELSE F[k - 1] \o ss[k]
      BY <2>2 DEF Flattens
    <3>2. CASE k = 1
      <4>1. Upto(k) = OfKey(T, keys[k])
        BY <3>2 DEF OfKey
      <4>2. QED
        BY <1>5, <3>1, <3>2, <4>1
    <3>3. CASE k # 1
      <4>1. k - 1 \in 1 .. n /\ Lists(F[k - 1], Upto(k - 1), K, O)
        BY <2>3, <3>3
      <4>2. Upto(k) = Upto(k - 1) \cup OfKey(T, keys[k])
        <5>1. \A i : i \in 1 .. k <=> i \in 1 .. k - 1 \/ i = k
          OBVIOUS
        <5>2. QED
          BY <5>1 DEF OfKey
      <4>3. \A s \in Upto(k - 1), t \in OfKey(T, keys[k]) : s[1] # t[1]
        <5>1. \A i \in 1 .. k - 1 : keys[i] # keys[k]
          BY <1>2
        <5>2. QED
          BY <5>1 DEF OfKey
      <4>4. Lists(ss[k], OfKey(T, keys[k]), K, O)
        BY <1>5
      <4> HIDE DEF Upto
      <4>5. Lists(F[k - 1] \o ss[k], Upto(k - 1) \cup OfKey(T, keys[k]), K, O)
        BY <4>1, <4>3, <4>4, ConcatLists
      <4>6. QED
        BY <3>1, <3>3, <4>2, <4>5
    <3>4. QED
      BY <3>2, <3>3
  <2> HIDE DEF Good
  <2>4. 1 .. n \subseteq Good
    BY <2>3, UpToInduction
  <2>5. Lists(F[n], Upto(n), K, O)
    BY <2>1, <2>4 DEF Good
  <2>6. Upto(n) = T
    BY <1>2, <1>7
  <2> HIDE DEF Upto
  <2>7. QED
    BY <1>1, <2>2, <2>5, <2>6
<1>10. QED
  BY <1>8, <1>9

\* An LCRelation on a file keeps its objects and its weight.
LEMMA ReadBackSame ==
  ASSUME NEW K, NEW O, NEW E \in Seq(Elem(K, O))
  PROVE  ReadBack(E) = E
<1>1. Len(E) \in Nat /\ DOMAIN E = 1 .. Len(E) /\ E = [i \in 1 .. Len(E) |-> E[i]]
      /\ \A i \in 1 .. Len(E) : E[i] \in Elem(K, O)
  BY LenProperties
<1>2. CASE ~Weighted(E)
  <2>1. \A i \in 1 .. Len(E) : E[i].weight = One
    BY <1>1, <1>2 DEF Weighted
  <2>2. ASSUME NEW i \in 1 .. Len(E) PROVE [E[i] EXCEPT !.weight = One] = E[i]
    BY <1>1, <2>1 DEF Elem
  <2> HIDE DEF One
  <2>3. QED
    BY <1>1, <1>2, <2>2 DEF ReadBack
<1>3. QED
  BY <1>2 DEF ReadBack

-----------------------------------------------------------------------------
(***************************************************************************)
(* The maps after the first i relations of a collection.                   *)
(***************************************************************************)
NoMaps == [to |-> << >>, from |-> << >>]
StepOf(r, v) == [to   |-> Added(v.to, r.from, r.to, r.weight),
                 from |-> Added(v.from, r.to, r.from, r.weight)]

Replays(f, E, n) ==
  /\ DOMAIN f = 0 .. n /\ f = [i \in 0 .. n |-> f[i]]
  /\ f[0] = NoMaps
  /\ \A i \in 1 .. n : f[i] = StepOf(E[i], f[i - 1])

\* The maps that initialize fills up one after the other exist.
LEMMA ReplaysExist ==
  ASSUME NEW E, NEW n \in Nat
  PROVE  \E f : Replays(f, E, n)
<1> DEFINE Good == {k \in Nat : \E f : Replays(f, E, k)}
<1>1. 0 \in Good
  <2> DEFINE f == [i \in 0 .. 0 |-> NoMaps]
  <2>1. Replays(f, E, 0)
    BY DEF Replays
  <2>2. QED
    BY <2>1
<1>2. ASSUME NEW k \in Good PROVE k + 1 \in Good
  <2>1. PICK f : Replays(f, E, k)
    BY <1>2
  <2> DEFINE g == [i \in 0 .. k + 1 |-> IF i = k + 1 THEN StepOf(E[k + 1], f[k]) ELSE f[i]]
  <2>2. DOMAIN g = 0 .. k + 1 /\ g = [i \in 0 .. k + 1 |-> g[i]] /\ g[k + 1] = StepOf(E[k + 1], f[k])
        /\ \A i \in 0 .. k : g[i] = f[i]
    <3>1. k \in Nat /\ DOMAIN g = 0 .. k + 1
      OBVIOUS
    <3>2. \A i \in 0 .. k + 1 : g[i] = IF i = k + 1 THEN StepOf(E[k + 1], f[k]) ELSE f[i]
      OBVIOUS
    <3>3. g = [i \in 0 .. k + 1 |-> g[i]]
      BY <3>1, <3>2
    <3> HIDE DEF g
    <3>4. k + 1 \in 0 .. k + 1 /\ \A i \in 0 .. k : i \in 0 .. k + 1 /\ i # k + 1
      BY <3>1
    <3>5. QED
      BY <3>1, <3>2, <3>3, <3>4
  <2> HIDE DEF g
  <2> HIDE DEF Good
  <2>7. k \in Nat /\ 0 \in 0 .. k
    BY DEF Good
  <2>3. g[0] = NoMaps
    BY <2>1, <2>2, <2>7 DEF Replays
  <2>4. ASSUME NEW i \in 1 .. k + 1 PROVE g[i] = StepOf(E[i], g[i - 1])
    <3>1. CASE i = k + 1
      <4>1. i - 1 = k /\ k \in 0 .. k
        BY <2>7, <3>1
      <4>2. QED
        BY <2>2, <3>1, <4>1
    <3>2. CASE i # k + 1
      <4>1. i \in 1 .. k /\ i \in 0 .. k /\ i - 1 \in 0 .. k
        BY <2>7, <3>2
      <4>2. QED
        BY <2>1, <2>2, <4>1 DEF Replays
    <3>3. QED
      BY <3>1, <3>2
  <2>5. Replays(g, E, k + 1)
    BY <2>2, <2>3, <2>4 DEF Replays
  <2>6. QED
    BY <2>5, <2>7 DEF Good
<1>3. Good \in SUBSET Nat
  OBVIOUS
<1> HIDE DEF Good
<1>4. Good = Nat
  BY <1>1, <1>2, <1>3, SetInduction
<1>5. QED
  BY <1>4 DEF Good

\* Initialized is the last of them.
LEMMA InitializedReplays ==
  ASSUME NEW E, Len(E) \in Nat
  PROVE  \E f : Replays(f, E, Len(E)) /\ Initialized(E) = f[Len(E)]
<1> DEFINE n == Len(E)
           A == CHOOSE a : a = [i \in 0 .. n |->
                  IF i = 0 THEN [to |-> << >>, from |-> << >>]
                  ELSE [to   |-> Added(a[i - 1].to, E[i].from, E[i].to, E[i].weight),
                        from |-> Added(a[i - 1].from, E[i].to, E[i].from, E[i].weight)]]
<1>1. Initialized(E) = A[n]
  BY DEF Initialized
<1>2. PICK f : Replays(f, E, n)
  BY ReplaysExist
<1>3. f = [i \in 0 .. n |->
             IF i = 0 THEN [to |-> << >>, from |-> << >>]
             ELSE [to   |-> Added(f[i - 1].to, E[i].from, E[i].to, E[i].weight),
                   from |-> Added(f[i - 1].from, E[i].to, E[i].from, E[i].weight)]]
  <2> HIDE DEF n
  <2>1. \A i \in 0 .. n : f[i] = IF i = 0 THEN [to |-> << >>, from |-> << >>]
             ELSE [to   |-> Added(f[i - 1].to, E[i].from, E[i].to, E[i].weight),
                   from |-> Added(f[i - 1].from, E[i].to, E[i].from, E[i].weight)]
    <3>1. \A i \in 0 .. n : i = 0 \/ i \in 1 .. n
      OBVIOUS
    <3>2. QED
      BY <1>2, <3>1 DEF Replays, StepOf, NoMaps
  <2>2. QED
    BY <1>2, <2>1 DEF Replays
<1>4. A = [i \in 0 .. n |->
             IF i = 0 THEN [to |-> << >>, from |-> << >>]
             ELSE [to   |-> Added(A[i - 1].to, E[i].from, E[i].to, E[i].weight),
                   from |-> Added(A[i - 1].from, E[i].to, E[i].from, E[i].weight)]]
  BY <1>3
<1> HIDE DEF A, n
<1>5. \A i \in 0 .. n : A[i] = IF i = 0 THEN NoMaps ELSE StepOf(E[i], A[i - 1])
  BY <1>4 DEF StepOf, NoMaps
<1>6. n \in Nat
  BY DEF n
<1>7. DOMAIN A = 0 .. n /\ A = [i \in 0 .. n |-> A[i]]
  BY <1>4
<1>8. Replays(A, E, n)
  BY <1>5, <1>6, <1>7 DEF Replays
<1>9. QED
  BY <1>1, <1>8 DEF n

\* An empty map tells nothing.
LEMMA EmptyTells ==
  ASSUME NEW K, NEW O
  PROVE  Tells(<< >>, {}, K, O)
<1>1. DOMAIN << >> = {}
  OBVIOUS
<1>2. IsFiniteSet(DOMAIN << >>)
  BY <1>1, FS_EmptySet
<1>3. \A k \in K : Entry(<< >>, k) = << >>
  BY DEF Entry
<1>4. \A o, w : ~Says(<< >>, o, w)
  BY DEF Says
<1>5. QED
  BY <1>1, <1>2, <1>3, <1>4 DEF Tells

\* Adding a pair that is not related relates it, with its weight.
LEMMA PlusNew ==
  ASSUME NEW K, NEW O, NEW T \in SUBSET (K \X O \X Int), NEW k \in K, NEW o \in O, NEW w \in Int,
         \A u \in Int : <<k, o, u>> \notin T
  PROVE  Plus(T, k, o, w, K, O) = T \cup {<<k, o, w>>}
<1>1. ASSUME NEW t \in Plus(T, k, o, w, K, O) PROVE t \in T \cup {<<k, o, w>>}
  <2>1. t = <<t[1], t[2], t[3]>> /\ t \in K \X O \X Int
    BY DEF Plus
  <2>2. QED
    BY <2>1 DEF Plus
<1>2. ASSUME NEW t \in T PROVE t \in Plus(T, k, o, w, K, O)
  <2>1. t = <<t[1], t[2], t[3]>> /\ t[1] \in K /\ t[2] \in O /\ t[3] \in Int
    OBVIOUS
  <2>2. <<t[1], t[2]>> # <<k, o>>
    BY <2>1
  <2>3. QED
    BY <2>2 DEF Plus
<1>3. <<k, o, w>> \in Plus(T, k, o, w, K, O)
  BY DEF Plus
<1>4. QED
  BY <1>1, <1>2, <1>3

(***************************************************************************)
(* initialize fills both maps with what the collection lists, one of them  *)
(* turned round: no pair is listed twice, so that no weight is added to    *)
(* another.                                                                *)
(***************************************************************************)
LEMMA InitializedTells ==
  ASSUME NEW K, NEW O, NEW E, NEW T, Lists(E, T, K, O)
  PROVE  /\ Tells(Initialized(E).to, T, K, O)
         /\ Tells(Initialized(E).from, {<<t[2], t[1], t[3]>> : t \in T}, O, K)
<1> DEFINE n == Len(E)
           There(i) == {<<E[j].from, E[j].to, E[j].weight>> : j \in 1 .. i}
           Back(i) == {<<E[j].to, E[j].from, E[j].weight>> : j \in 1 .. i}
           TB == {<<t[2], t[1], t[3]>> : t \in T}
<1>1. E \in Seq(Elem(K, O)) /\ n \in Nat /\ DOMAIN E = 1 .. n /\ Distinct(E)
  BY LenProperties DEF Lists
<1>2. PICK f : Replays(f, E, n) /\ Initialized(E) = f[n]
  BY <1>1, InitializedReplays
<1>3. \A i \in 1 .. n : E[i].from \in K /\ E[i].to \in O /\ E[i].weight \in Int
                        /\ <<E[i].from, E[i].to, E[i].weight>> \in T
  BY <1>1, FromsOf
<1>4. There(n) = T
  <2>1. There(n) \subseteq T
    BY <1>3
  <2>2. ASSUME NEW t \in T PROVE t \in There(n)
    <3>1. t = <<t[1], t[2], t[3]>> /\ t[1] \in K /\ t[2] \in O /\ t[3] \in Int
      BY DEF Lists
    <3>2. Has(E, t[1], t[2], t[3])
      BY <3>1 DEF Lists
    <3>3. QED
      BY <1>1, <3>1, <3>2 DEF Has
  <2>3. QED
    BY <2>1, <2>2
<1>5. Back(n) = TB
  <2>1. Back(n) \subseteq TB
    <3>1. ASSUME NEW j \in 1 .. n PROVE <<E[j].to, E[j].from, E[j].weight>> \in TB
      <4> DEFINE t == <<E[j].from, E[j].to, E[j].weight>>
      <4>1. t \in T /\ t[1] = E[j].from /\ t[2] = E[j].to /\ t[3] = E[j].weight
        BY <1>3
      <4> HIDE DEF t
      <4>2. QED
        BY <4>1
    <3>2. QED
      BY <3>1
  <2>2. ASSUME NEW t \in T PROVE <<t[2], t[1], t[3]>> \in Back(n)
    <3>1. PICK j \in 1 .. n : t = <<E[j].from, E[j].to, E[j].weight>>
      BY <1>4
    <3>2. t[1] = E[j].from /\ t[2] = E[j].to /\ t[3] = E[j].weight
      BY <3>1
    <3>3. QED
      BY <3>2
  <2>3. QED
    BY <2>1, <2>2
<1> HIDE DEF n, TB
<1> DEFINE Good == {i \in Nat : i <= n => /\ Tells(f[i].to, There(i), K, O)
                                          /\ Tells(f[i].from, Back(i), O, K)}
<1>6. 0 \in Good
  <2>1. There(0) = {} /\ Back(0) = {}
    OBVIOUS
  <2>2. f[0].to = << >> /\ f[0].from = << >>
    BY <1>2 DEF Replays, NoMaps
  <2>3. QED
    BY <2>1, <2>2, EmptyTells
<1>7. ASSUME NEW i0 \in Good PROVE i0 + 1 \in Good
  <2> DEFINE i == i0 + 1
             k == E[i].from
             o == E[i].to
             w == E[i].weight
  <2>1. i0 \in Nat /\ i \in Nat /\ (i <= n => i0 <= n /\ i \in 1 .. n)
    BY <1>1
  <2>2. SUFFICES ASSUME i <= n PROVE Tells(f[i].to, There(i), K, O) /\ Tells(f[i].from, Back(i), O, K)
    BY <2>1
  <2>3. k \in K /\ o \in O /\ w \in Int
    BY <1>3, <2>1, <2>2
  <2>4. /\ Tells(f[i0].to, There(i0), K, O) /\ Tells(f[i0].from, Back(i0), O, K)
    BY <2>1, <2>2
  <2>5. f[i].to = Added(f[i0].to, k, o, w) /\ f[i].from = Added(f[i0].from, o, k, w)
    <3>1. i \in 1 .. n /\ i - 1 = i0
      BY <2>1, <2>2
    <3>2. f[i] = StepOf(E[i], f[i0])
      BY <1>2, <3>1 DEF Replays
    <3>3. QED
      BY <3>2 DEF StepOf
  <2>6. \A j \in 1 .. i0 : ~(E[j].from = k /\ E[j].to = o)
    BY <1>1, <2>1, <2>2 DEF Distinct
  <2>7. \A j : j \in 1 .. i <=> j \in 1 .. i0 \/ j = i
    BY <2>1
  <2> HIDE DEF i
  <2>8. There(i) = There(i0) \cup {<<k, o, w>>} /\ Back(i) = Back(i0) \cup {<<o, k, w>>}
    BY <2>7
  <2>9. \A u \in Int : <<k, o, u>> \notin There(i0) /\ <<o, k, u>> \notin Back(i0)
    BY <2>6
  <2> HIDE DEF Good, There, Back, k, o, w
  <2>10. There(i0) \in SUBSET (K \X O \X Int) /\ Back(i0) \in SUBSET (O \X K \X Int)
    BY <2>4 DEF Tells
  <2>11. Plus(There(i0), k, o, w, K, O) = There(i) /\ Plus(Back(i0), o, k, w, O, K) = Back(i)
    <3>1. ASSUME NEW u \in Int PROVE <<k, o, u>> \notin There(i0)
      BY <2>9
    <3>2. Plus(There(i0), k, o, w, K, O) = There(i0) \cup {<<k, o, w>>}
      BY <2>3, <2>10, <3>1, PlusNew
    <3>3. ASSUME NEW u \in Int PROVE <<o, k, u>> \notin Back(i0)
      BY <2>9
    <3>4. Plus(Back(i0), o, k, w, O, K) = Back(i0) \cup {<<o, k, w>>}
      BY <2>3, <2>10, <3>3, PlusNew
    <3>5. QED
      BY <2>8, <3>2, <3>4
  <2>12. QED
    BY <2>3, <2>4, <2>5, <2>11, AddedTells
<1>8. Good \in SUBSET Nat
  OBVIOUS
<1> HIDE DEF Good
<1>9. Good = Nat
  BY <1>6, <1>7, <1>8, SetInduction
<1> HIDE DEF There, Back
<1>10. Tells(f[n].to, There(n), K, O) /\ Tells(f[n].from, Back(n), O, K)
  <2>1. n \in Good /\ n <= n
    BY <1>1, <1>9
  <2>2. QED
    BY <2>1 DEF Good
<1>11. QED
  BY <1>2, <1>4, <1>5, <1>10 DEF TB

(***************************************************************************)
(* getRelatedToObjects makes an empty entry for an object that has none    *)
(* (operator[]), which says nothing.                                       *)
(***************************************************************************)
LEMMA KeptTells ==
  ASSUME NEW m, NEW T, NEW K, NEW O, Tells(m, T, K, O), NEW k \in K
  PROVE  Tells(With(m, k, Entry(m, k)), T, K, O)
<1> DEFINE e == Entry(m, k)
           a == With(m, k, e)
<1>2. EntryOf(e, O)
  BY EntryIs
<1>0. a = With(m, k, e)
  OBVIOUS
<1> HIDE DEF e, a
<1>1. /\ DOMAIN a = DOMAIN m \cup {k} /\ a[k] = e /\ \A x \in DOMAIN m : x # k => a[x] = m[x]
      /\ \A x : Entry(a, x) = IF x = k THEN e ELSE Entry(m, x)
  BY <1>0 DEF With, Entry
<1>3. IsFiniteSet(DOMAIN a) /\ DOMAIN a \subseteq K
  BY <1>1, FS_AddElement DEF Tells
<1>4. \A x \in DOMAIN a : EntryOf(a[x], O)
  BY <1>1, <1>2 DEF Tells
<1>5. \A x : Entry(a, x) = Entry(m, x)
  BY <1>1 DEF e
<1>6. Tells(a, T, K, O)
  BY <1>3, <1>4, <1>5 DEF Tells
<1>7. QED
  BY <1>6 DEF a, e

-----------------------------------------------------------------------------
(***************************************************************************)
(* The relations a client means, seen from either side.                    *)
(***************************************************************************)
MeantTo(rel) == {<<p[1], p[2], rel[p]>> : p \in DOMAIN rel}
MeantFrom(rel) == {<<p[2], p[1], rel[p]>> : p \in DOMAIN rel}
Meant(rel) == rel \in [DOMAIN rel -> Int] /\ DOMAIN rel \subseteq FromObjects \X ToObjects

\* The inductive invariant.
RelInv ==
  /\ Meant(relations)
  /\ Tells(relTo, MeantTo(relations), FromObjects, ToObjects)
  /\ Tells(relFrom, MeantFrom(relations), ToObjects, FromObjects)

\* Both sides say the same of a pair.
LEMMA MeantSays ==
  ASSUME NEW rel, Meant(rel)
  PROVE  /\ MeantTo(rel) \subseteq FromObjects \X ToObjects \X Int
         /\ MeantFrom(rel) \subseteq ToObjects \X FromObjects \X Int
         /\ \A f \in FromObjects, t \in ToObjects, w \in Int :
              /\ <<f, t, w>> \in MeantTo(rel) <=> <<f, t>> \in DOMAIN rel /\ rel[<<f, t>>] = w
              /\ <<t, f, w>> \in MeantFrom(rel) <=> <<f, t>> \in DOMAIN rel /\ rel[<<f, t>>] = w
         /\ \A p \in DOMAIN rel : p = <<p[1], p[2]>> /\ p[1] \in FromObjects /\ p[2] \in ToObjects /\ rel[p] \in Int
<1>1. \A p \in DOMAIN rel : p = <<p[1], p[2]>> /\ p[1] \in FromObjects /\ p[2] \in ToObjects /\ rel[p] \in Int
  BY DEF Meant
<1>2. MeantTo(rel) \subseteq FromObjects \X ToObjects \X Int
  BY <1>1 DEF MeantTo
<1>3. MeantFrom(rel) \subseteq ToObjects \X FromObjects \X Int
  BY <1>1 DEF MeantFrom
<1>4. ASSUME NEW f \in FromObjects, NEW t \in ToObjects, NEW w \in Int
      PROVE  <<f, t, w>> \in MeantTo(rel) <=> <<f, t>> \in DOMAIN rel /\ rel[<<f, t>>] = w
  <2>1. ASSUME <<f, t, w>> \in MeantTo(rel) PROVE <<f, t>> \in DOMAIN rel /\ rel[<<f, t>>] = w
    <3>1. PICK p \in DOMAIN rel : <<f, t, w>> = <<p[1], p[2], rel[p]>>
      BY <2>1 DEF MeantTo
    <3>2. p = <<f, t>>
      BY <1>1, <3>1
    <3>3. QED
      BY <3>1, <3>2
  <2>2. ASSUME <<f, t>> \in DOMAIN rel, rel[<<f, t>>] = w PROVE <<f, t, w>> \in MeantTo(rel)
    <3> DEFINE p == <<f, t>>
    <3>1. p \in DOMAIN rel /\ p[1] = f /\ p[2] = t /\ rel[p] = w
      BY <2>2
    <3> HIDE DEF p
    <3>2. QED
      BY <3>1 DEF MeantTo
  <2>3. QED
    BY <2>1, <2>2
<1>5. ASSUME NEW f \in FromObjects, NEW t \in ToObjects, NEW w \in Int
      PROVE  <<t, f, w>> \in MeantFrom(rel) <=> <<f, t>> \in DOMAIN rel /\ rel[<<f, t>>] = w
  <2>1. ASSUME <<t, f, w>> \in MeantFrom(rel) PROVE <<f, t>> \in DOMAIN rel /\ rel[<<f, t>>] = w
    <3>1. PICK p \in DOMAIN rel : <<t, f, w>> = <<p[2], p[1], rel[p]>>
      BY <2>1 DEF MeantFrom
    <3>2. p = <<f, t>>
      BY <1>1, <3>1
    <3>3. QED
      BY <3>1, <3>2
  <2>2. ASSUME <<f, t>> \in DOMAIN rel, rel[<<f, t>>] = w PROVE <<t, f, w>> \in MeantFrom(rel)
    <3> DEFINE p == <<f, t>>
    <3>1. p \in DOMAIN rel /\ p[1] = f /\ p[2] = t /\ rel[p] = w
      BY <2>2
    <3> HIDE DEF p
    <3>2. QED
      BY <3>1 DEF MeantFrom
  <2>3. QED
    BY <2>1, <2>2
<1>6. QED
  BY <1>1, <1>2, <1>3, <1>4, <1>5

\* From the other side the triples are the same, turned round.
LEMMA MeantTurned ==
  ASSUME NEW rel, Meant(rel)
  PROVE  {<<t[2], t[1], t[3]>> : t \in MeantTo(rel)} = MeantFrom(rel)
<1> DEFINE Turned == {<<t[2], t[1], t[3]>> : t \in MeantTo(rel)}
<1>1. ASSUME NEW t \in MeantTo(rel) PROVE <<t[2], t[1], t[3]>> \in MeantFrom(rel)
  <2>1. PICK p \in DOMAIN rel : t = <<p[1], p[2], rel[p]>>
    BY DEF MeantTo
  <2>2. t[1] = p[1] /\ t[2] = p[2] /\ t[3] = rel[p]
    BY <2>1
  <2>3. QED
    BY <2>2 DEF MeantFrom
<1>2. ASSUME NEW p \in DOMAIN rel PROVE <<p[2], p[1], rel[p]>> \in Turned
  <2> DEFINE t == <<p[1], p[2], rel[p]>>
  <2>1. t \in MeantTo(rel) /\ t[1] = p[1] /\ t[2] = p[2] /\ t[3] = rel[p]
    BY DEF MeantTo
  <2> HIDE DEF t
  <2>2. QED
    BY <2>1
<1>3. QED
  BY <1>1, <1>2 DEF MeantFrom

\* addRelation keeps the invariant: both maps get the weight.
LEMMA AddKeeps ==
  ASSUME RelInv, NEW f \in FromObjects, NEW t \in ToObjects, NEW w \in Int, AddRelation(f, t, w)
  PROVE  RelInv'
<1> DEFINE rel == relations
           p == <<f, t>>
           sum == IF p \in DOMAIN rel THEN rel[p] + w ELSE w
           new == With(rel, p, sum)
<1>0. Meant(rel)
  BY DEF RelInv
<1>1. p \in FromObjects \X ToObjects
  OBVIOUS
<1>2. sum \in Int
  BY <1>0 DEF Meant
<1>3. relations' = new /\ relTo' = Added(relTo, f, t, w) /\ relFrom' = Added(relFrom, t, f, w)
  BY DEF AddRelation
<1> HIDE DEF rel, new
<1>4. DOMAIN new = DOMAIN rel \cup {p} /\ new[p] = sum /\ \A x \in DOMAIN rel : x # p => new[x] = rel[x]
  <2>1. new = With(rel, p, sum)
    BY DEF new
  <2> HIDE DEF p, sum
  <2>2. QED
    BY <2>1 DEF With
<1>5. new = [x \in DOMAIN new |-> new[x]]
  BY DEF new, With
<1>6. Meant(new)
  <2> HIDE DEF p, sum
  <2>1. \A x \in DOMAIN new : new[x] \in Int
    BY <1>0, <1>1, <1>2, <1>4 DEF Meant
  <2>2. QED
    BY <1>0, <1>1, <1>4, <1>5, <2>1 DEF Meant
<1>7. Plus(MeantTo(rel), f, t, w, FromObjects, ToObjects) = MeantTo(new)
  <2> DEFINE P == Plus(MeantTo(rel), f, t, w, FromObjects, ToObjects)
  <2>1. ASSUME NEW x \in FromObjects, NEW y \in ToObjects, NEW v \in Int
        PROVE  <<x, y, v>> \in P <=> <<x, y, v>> \in MeantTo(new)
    <3>1. <<x, y, v>> \in P <=>
            IF <<x, y>> # p THEN <<x, y, v>> \in MeantTo(rel)
            ELSE IF \E u \in Int : <<f, t, u>> \in MeantTo(rel) THEN <<f, t, v - w>> \in MeantTo(rel) ELSE v = w
      BY DEF Plus
    <3>2. <<x, y, v>> \in MeantTo(new) <=> <<x, y>> \in DOMAIN new /\ new[<<x, y>>] = v
      BY <1>6, MeantSays
    <3>3. <<x, y, v>> \in MeantTo(rel) <=> <<x, y>> \in DOMAIN rel /\ rel[<<x, y>>] = v
      BY <1>0, MeantSays
    <3>4. \A u \in Int : <<f, t, u>> \in MeantTo(rel) <=> p \in DOMAIN rel /\ rel[p] = u
      BY <1>0, MeantSays
    <3>5. p \in DOMAIN rel => rel[p] \in Int
      BY <1>0 DEF Meant
    <3>6. CASE <<x, y>> # p
      BY <1>4, <3>1, <3>2, <3>3, <3>6
    <3>7. CASE <<x, y>> = p
      <4>1. v - w \in Int
        OBVIOUS
      <4>2. <<x, y, v>> \in P <=> IF p \in DOMAIN rel THEN rel[p] = v - w ELSE v = w
        BY <3>1, <3>4, <3>5, <3>7, <4>1
      <4>3. <<x, y, v>> \in MeantTo(new) <=> sum = v
        BY <1>4, <3>2, <3>7
      <4>4. QED
        BY <3>5, <4>2, <4>3
    <3>8. QED
      BY <3>6, <3>7
  <2>2. P \subseteq FromObjects \X ToObjects \X Int
    BY DEF Plus
  <2>3. MeantTo(new) \subseteq FromObjects \X ToObjects \X Int
    BY <1>6, MeantSays
  <2> HIDE DEF P
  <2>4. P = MeantTo(new)
    BY <2>1, <2>2, <2>3
  <2>5. QED
    BY <2>4 DEF P
<1>8. Plus(MeantFrom(rel), t, f, w, ToObjects, FromObjects) = MeantFrom(new)
  <2> DEFINE P == Plus(MeantFrom(rel), t, f, w, ToObjects, FromObjects)
  <2>1. ASSUME NEW x \in FromObjects, NEW y \in ToObjects, NEW v \in Int
        PROVE  <<y, x, v>> \in P <=> <<y, x, v>> \in MeantFrom(new)
    <3>1. <<y, x, v>> \in P <=>
            IF <<x, y>> # p THEN <<y, x, v>> \in MeantFrom(rel)
            ELSE IF \E u \in Int : <<t, f, u>> \in MeantFrom(rel) THEN <<t, f, v - w>> \in MeantFrom(rel) ELSE v = w
      BY DEF Plus
    <3>2. <<y, x, v>> \in MeantFrom(new) <=> <<x, y>> \in DOMAIN new /\ new[<<x, y>>] = v
      BY <1>6, MeantSays
    <3>3. <<y, x, v>> \in MeantFrom(rel) <=> <<x, y>> \in DOMAIN rel /\ rel[<<x, y>>] = v
      BY <1>0, MeantSays
    <3>4. \A u \in Int : <<t, f, u>> \in MeantFrom(rel) <=> p \in DOMAIN rel /\ rel[p] = u
      BY <1>0, MeantSays
    <3>5. p \in DOMAIN rel => rel[p] \in Int
      BY <1>0 DEF Meant
    <3>6. CASE <<x, y>> # p
      BY <1>4, <3>1, <3>2, <3>3, <3>6
    <3>7. CASE <<x, y>> = p
      <4>1. v - w \in Int
        OBVIOUS
      <4>2. <<y, x, v>> \in P <=> IF p \in DOMAIN rel THEN rel[p] = v - w ELSE v = w
        BY <3>1, <3>4, <3>5, <3>7, <4>1
      <4>3. <<y, x, v>> \in MeantFrom(new) <=> sum = v
        BY <1>4, <3>2, <3>7
      <4>4. QED
        BY <3>5, <4>2, <4>3
    <3>8. QED
      BY <3>6, <3>7
  <2>2. P \subseteq ToObjects \X FromObjects \X Int
    BY DEF Plus
  <2>3. MeantFrom(new) \subseteq ToObjects \X FromObjects \X Int
    BY <1>6, MeantSays
  <2> HIDE DEF P
  <2>4. P = MeantFrom(new)
    BY <2>1, <2>2, <2>3
  <2>5. QED
    BY <2>4 DEF P
<1>9. /\ Tells(relTo', MeantTo(new), FromObjects, ToObjects)
      /\ Tells(relFrom', MeantFrom(new), ToObjects, FromObjects)
  BY <1>3, <1>7, <1>8, AddedTells DEF RelInv, rel
<1>10. QED
  BY <1>3, <1>6, <1>9 DEF RelInv

\* removeRelation keeps the invariant: both maps lose the pair.
LEMMA RemoveKeeps ==
  ASSUME RelInv, NEW f \in FromObjects, NEW t \in ToObjects, RemoveRelation(f, t)
  PROVE  RelInv'
<1> DEFINE rel == relations
           p == <<f, t>>
           new == Restrict(rel, DOMAIN rel \ {p})
<1>0. Meant(rel)
  BY DEF RelInv
<1>1. p \in FromObjects \X ToObjects
  OBVIOUS
<1>2. relations' = new /\ relTo' = Removed(relTo, f, t) /\ relFrom' = Removed(relFrom, t, f)
  BY DEF RemoveRelation
<1> HIDE DEF rel
<1>3. DOMAIN new = DOMAIN rel \ {p} /\ new = [x \in DOMAIN new |-> new[x]]
      /\ \A x \in DOMAIN new : new[x] = rel[x]
  BY DEF Restrict
<1> HIDE DEF new
<1>4. Meant(new)
  <2> HIDE DEF p
  <2>1. \A x \in DOMAIN new : new[x] \in Int
    BY <1>0, <1>1, <1>3 DEF Meant
  <2>2. QED
    BY <1>0, <1>1, <1>3, <2>1 DEF Meant
<1>5. Minus(MeantTo(rel), f, t) = MeantTo(new)
  <2> DEFINE P == Minus(MeantTo(rel), f, t)
  <2>1. ASSUME NEW x \in FromObjects, NEW y \in ToObjects, NEW v \in Int
        PROVE  <<x, y, v>> \in P <=> <<x, y, v>> \in MeantTo(new)
    <3>1. <<x, y, v>> \in P <=> <<x, y, v>> \in MeantTo(rel) /\ <<x, y>> # p
      BY DEF Minus
    <3>2. <<x, y, v>> \in MeantTo(new) <=> <<x, y>> \in DOMAIN new /\ new[<<x, y>>] = v
      BY <1>4, MeantSays
    <3>3. <<x, y, v>> \in MeantTo(rel) <=> <<x, y>> \in DOMAIN rel /\ rel[<<x, y>>] = v
      BY <1>0, MeantSays
    <3>4. QED
      BY <1>3, <3>1, <3>2, <3>3
  <2>2. P \subseteq FromObjects \X ToObjects \X Int /\ MeantTo(new) \subseteq FromObjects \X ToObjects \X Int
    BY <1>0, <1>4, MeantSays DEF Minus
  <2> HIDE DEF P
  <2>3. P = MeantTo(new)
    BY <2>1, <2>2
  <2>4. QED
    BY <2>3 DEF P
<1>6. Minus(MeantFrom(rel), t, f) = MeantFrom(new)
  <2> DEFINE P == Minus(MeantFrom(rel), t, f)
  <2>1. ASSUME NEW x \in FromObjects, NEW y \in ToObjects, NEW v \in Int
        PROVE  <<y, x, v>> \in P <=> <<y, x, v>> \in MeantFrom(new)
    <3>1. <<y, x, v>> \in P <=> <<y, x, v>> \in MeantFrom(rel) /\ <<x, y>> # p
      BY DEF Minus
    <3>2. <<y, x, v>> \in MeantFrom(new) <=> <<x, y>> \in DOMAIN new /\ new[<<x, y>>] = v
      BY <1>4, MeantSays
    <3>3. <<y, x, v>> \in MeantFrom(rel) <=> <<x, y>> \in DOMAIN rel /\ rel[<<x, y>>] = v
      BY <1>0, MeantSays
    <3>4. QED
      BY <1>3, <3>1, <3>2, <3>3
  <2>2. P \subseteq ToObjects \X FromObjects \X Int /\ MeantFrom(new) \subseteq ToObjects \X FromObjects \X Int
    BY <1>0, <1>4, MeantSays DEF Minus
  <2> HIDE DEF P
  <2>3. P = MeantFrom(new)
    BY <2>1, <2>2
  <2>4. QED
    BY <2>3 DEF P
<1>7. /\ Tells(relTo', MeantTo(new), FromObjects, ToObjects)
      /\ Tells(relFrom', MeantFrom(new), ToObjects, FromObjects)
  BY <1>2, <1>5, <1>6, RemovedTells DEF RelInv, rel
<1>8. QED
  BY <1>2, <1>4, <1>7 DEF RelInv

(***************************************************************************)
(* And so does a file: the collection lists the map of the first side, and *)
(* both maps are made of it.                                               *)
(***************************************************************************)
LEMMA ThroughFileKeeps ==
  ASSUME RelInv, ThroughFile
  PROVE  RelInv'
<1> DEFINE T == MeantTo(relations)
           K == FromObjects
           O == ToObjects
<1>1. PICK keys \in SetToSeqs(DOMAIN relTo) :
        LET made == Initialized(ReadBack(Elements(keys)))
        IN relTo' = made.to /\ relFrom' = made.from
  BY DEF ThroughFile
<1>2. relations' = relations
  BY DEF ThroughFile
<1> DEFINE E == Elements(keys)
<1>3. Tells(relTo, T, K, O)
  BY DEF RelInv
<1> HIDE DEF T, K, O
<1>4. Lists(E, T, K, O)
  BY <1>3, ElementsList
<1> HIDE DEF E
<1>5. ReadBack(E) = E
  BY <1>4, ReadBackSame DEF Lists
<1>6. relTo' = Initialized(E).to /\ relFrom' = Initialized(E).from
  BY <1>1, <1>5 DEF E
<1>7. /\ Tells(relTo', T, K, O)
      /\ Tells(relFrom', {<<t[2], t[1], t[3]>> : t \in T}, O, K)
  BY <1>4, <1>6, InitializedTells
<1>8. {<<t[2], t[1], t[3]>> : t \in T} = MeantFrom(relations)
  BY MeantTurned DEF T, RelInv
<1>9. QED
  BY <1>2, <1>7, <1>8 DEF RelInv, T, K, O

\* The maps of both sides always tell what the client means.
LEMMA RelationsInvariant == RelSpec => []RelInv
<1>1. RelInit => RelInv
  <2>1. ASSUME RelInit PROVE RelInv
    <3>1. relations = << >> /\ relTo = << >> /\ relFrom = << >>
      BY <2>1 DEF RelInit
    <3>2. Meant(<< >>) /\ MeantTo(<< >>) = {} /\ MeantFrom(<< >>) = {}
      BY DEF Meant, MeantTo, MeantFrom
    <3>3. QED
      BY <3>1, <3>2, EmptyTells DEF RelInv
  <2>2. QED
    BY <2>1
<1>2. RelInv /\ [RelNext]_relVars => RelInv'
  <2> SUFFICES ASSUME RelInv, [RelNext]_relVars PROVE RelInv'
    OBVIOUS
  <2>1. CASE \E f \in FromObjects, t \in ToObjects, w \in Weights : AddRelation(f, t, w)
    <3>1. PICK f \in FromObjects, t \in ToObjects, w \in Weights : AddRelation(f, t, w)
      BY <2>1
    <3>2. w \in Int
      BY WeightsAssumption
    <3>3. QED
      BY <3>1, <3>2, AddKeeps
  <2>2. CASE \E f \in FromObjects, t \in ToObjects : RemoveRelation(f, t)
    BY <2>2, RemoveKeeps
  <2>3. CASE \E f \in FromObjects : GetRelated(f)
    <3>1. PICK f \in FromObjects : GetRelated(f)
      BY <2>3
    <3>2. relTo' = With(relTo, f, Entry(relTo, f)) /\ relFrom' = relFrom /\ relations' = relations
      BY <3>1 DEF GetRelated
    <3>3. QED
      BY <3>2, KeptTells DEF RelInv
  <2>4. CASE ThroughFile
    BY <2>4, ThroughFileKeeps
  <2>5. CASE UNCHANGED relVars
    BY <2>5 DEF relVars, RelInv
  <2>6. QED
    BY <2>1, <2>2, <2>3, <2>4, <2>5 DEF RelNext
<1>3. QED
  BY <1>1, <1>2, PTL DEF RelSpec

\* A map that tells T has the triples T, and each object once in an entry.
LEMMA TellsTriples ==
  ASSUME NEW m, NEW T, NEW K, NEW O, Tells(m, T, K, O)
  PROVE  /\ Triples(m) = T
         /\ \A k \in DOMAIN m : \A i, j \in DOMAIN m[k] : m[k][i].obj = m[k][j].obj => i = j
<1>1. ASSUME NEW k \in DOMAIN m
      PROVE  /\ k \in K /\ Once(m[k]) /\ Entry(m, k) = m[k]
             /\ \A i \in DOMAIN m[k] : m[k][i].obj \in O /\ m[k][i].weight \in Int
  <2>1. k \in K /\ Once(m[k]) /\ Entry(m, k) = m[k] /\ m[k] \in Seq(Relata(O))
    BY DEF Tells, EntryOf, Entry
  <2> DEFINE e == m[k]
  <2> HIDE DEF e
  <2>2. \A i \in DOMAIN e : e[i] \in Relata(O)
    BY <2>1, LenProperties DEF e
  <2>3. \A i \in DOMAIN e : e[i].obj \in O /\ e[i].weight \in Int
    BY <2>2 DEF Relata
  <2>4. QED
    BY <2>1, <2>3 DEF e
<1>2. Triples(m) \subseteq T
  <2> SUFFICES ASSUME NEW k \in DOMAIN m, NEW i \in DOMAIN m[k]
               PROVE  <<k, m[k][i].obj, m[k][i].weight>> \in T
    BY DEF Triples
  <2>1. Says(m[k], m[k][i].obj, m[k][i].weight)
    BY DEF Says
  <2>2. QED
    BY <1>1, <2>1 DEF Tells
<1>3. ASSUME NEW t \in T PROVE t \in Triples(m)
  <2>1. t = <<t[1], t[2], t[3]>> /\ t[1] \in K /\ t[2] \in O /\ t[3] \in Int
    BY DEF Tells
  <2>2. Says(Entry(m, t[1]), t[2], t[3])
    BY <2>1 DEF Tells
  <2>3. t[1] \in DOMAIN m /\ Entry(m, t[1]) = m[t[1]]
    BY <2>2 DEF Entry, Says
  <2>4. PICK i \in DOMAIN m[t[1]] : m[t[1]][i].obj = t[2] /\ m[t[1]][i].weight = t[3]
    BY <2>2, <2>3 DEF Says
  <2>5. t = <<t[1], m[t[1]][i].obj, m[t[1]][i].weight>>
    BY <2>1, <2>4
  <2>6. QED
    BY <2>3, <2>5 DEF Triples
<1>4. QED
  BY <1>1, <1>2, <1>3 DEF Once

(***************************************************************************)
(* The relations from either side are those a client added and did not     *)
(* remove, with the sums of their weights, each object once in an entry,   *)
(* also after the navigator is made of a collection that was written and   *)
(* read (LCRelationNavigator).                                             *)
(***************************************************************************)
THEOREM SpecRelationsKept == RelSpec => []RelationsKept
<1>1. RelInv => RelationsKept
  <2> SUFFICES ASSUME RelInv PROVE RelationsKept
    OBVIOUS
  <2>1. Tells(relTo, MeantTo(relations), FromObjects, ToObjects)
        /\ Tells(relFrom, MeantFrom(relations), ToObjects, FromObjects)
    BY DEF RelInv
  <2>2. Triples(relTo) = MeantTo(relations) /\ Triples(relFrom) = MeantFrom(relations)
    BY <2>1, TellsTriples
  <2>3. \A map \in {relTo, relFrom} : \A k \in DOMAIN map :
          \A i, j \in DOMAIN map[k] : map[k][i].obj = map[k][j].obj => i = j
    <3>1. \A k \in DOMAIN relTo : \A i, j \in DOMAIN relTo[k] : relTo[k][i].obj = relTo[k][j].obj => i = j
      BY <2>1, TellsTriples
    <3>2. \A k \in DOMAIN relFrom : \A i, j \in DOMAIN relFrom[k] :
            relFrom[k][i].obj = relFrom[k][j].obj => i = j
      BY <2>1, TellsTriples
    <3>3. QED
      BY <3>1, <3>2
  <2>4. QED
    BY <2>2, <2>3 DEF RelationsKept, MeantTo, MeantFrom
<1>2. QED
  BY <1>1, RelationsInvariant, PTL

-----------------------------------------------------------------------------
(* Cell ids. *)

\* The powers of two exist.
LEMMA Pow2Exists ==
  \E f \in [Nat -> Nat] : f = [n \in Nat |-> IF n = 0 THEN 1 ELSE 2 * f[n - 1]]
<1> DEFINE rank == [i \in Nat |-> i]
           nxt  == [i \in Nat |-> IF i = 0 THEN 0 ELSE i - 1]
           ones == [i \in Nat |-> 1]
           step == [x \in Nat \X Nat |-> 2 * x[2]]
<1>1. /\ rank \in [Nat -> Nat] /\ nxt \in [Nat -> Nat]
      /\ ones \in [Nat -> Nat] /\ step \in [Nat \X Nat -> Nat]
  OBVIOUS
<1>2. \A i \in Nat \ {0} : rank[nxt[i]] < rank[i]
  OBVIOUS
<1>3. \A i \in Nat : ones[i] = 1 /\ (i # 0 => nxt[i] = i - 1) /\ \A v \in Nat : step[<<i, v>>] = 2 * v
  OBVIOUS
<1> HIDE DEF rank, nxt, ones, step
<1>4. PICK f : Solves(f, Nat, Nat, {0}, ones, nxt, step)
  BY <1>1, <1>2, RecursionExists
<1>5. f \in [Nat -> Nat]
  BY <1>4 DEF Solves
<1>6. ASSUME NEW i \in Nat PROVE f[i] = IF i = 0 THEN 1 ELSE 2 * f[i - 1]
  <2>1. f[i] = IF i \in {0} THEN ones[i] ELSE step[<<i, f[nxt[i]]>>]
    BY <1>4 DEF Solves
  <2>2. nxt[i] \in Nat /\ f[nxt[i]] \in Nat
    BY <1>1, <1>5
  <2>3. QED
    BY <1>3, <2>1, <2>2
<1>7. f = [n \in Nat |-> IF n = 0 THEN 1 ELSE 2 * f[n - 1]]
  BY <1>5, <1>6
<1>8. QED
  BY <1>5, <1>7

\* And are positive numbers that double.
LEMMA Pow2Is ==
  Pow2[0] = 1 /\ \A n \in Nat : Pow2[n] \in Nat \ {0} /\ Pow2[n + 1] = 2 * Pow2[n]
<1> DEFINE G == CHOOSE g : g = [n \in Nat |-> IF n = 0 THEN 1 ELSE 2 * g[n - 1]]
<1>1. Pow2 = G
  BY DEF Pow2
<1>2. G = [n \in Nat |-> IF n = 0 THEN 1 ELSE 2 * G[n - 1]]
  BY Pow2Exists
<1> HIDE DEF G
<1>3. \A n \in Nat : Pow2[n] = IF n = 0 THEN 1 ELSE 2 * Pow2[n - 1]
  BY <1>1, <1>2
<1>4. \A n \in Nat : Pow2[n + 1] = 2 * Pow2[n]
  <2> SUFFICES ASSUME NEW n \in Nat PROVE Pow2[n + 1] = 2 * Pow2[n]
    OBVIOUS
  <2>1. n + 1 \in Nat /\ n + 1 # 0 /\ (n + 1) - 1 = n
    OBVIOUS
  <2>2. QED
    BY <1>3, <2>1
<1>5. Pow2[0] = 1
  BY <1>3
<1> DEFINE S == {n \in Nat : Pow2[n] \in Nat \ {0}}
<1>6. 0 \in S
  BY <1>5
<1>7. ASSUME NEW n \in S PROVE n + 1 \in S
  BY <1>4
<1> HIDE DEF S
<1>8. S = Nat
  <2>1. S \in SUBSET Nat
    BY DEF S
  <2>2. QED
    BY <1>6, <1>7, <2>1, SetInduction
<1>9. QED
  BY <1>4, <1>5, <1>8 DEF S

\* Products of integers, for a solver that does not rearrange them.
LEMMA Associates ==
  ASSUME NEW a \in Int, NEW b \in Int, NEW c \in Int
  PROVE  /\ a * (b * c) = (a * b) * c /\ a * (b * c) = b * (a * c)
         /\ (a + b) * c = a * c + b * c /\ a * (b + c) = a * b + a * c
         /\ a * b \in Int
OBVIOUS

\* The width of two fields next to each other.
LEMMA Pow2Sum ==
  ASSUME NEW m \in Nat, NEW n \in Nat
  PROVE  Pow2[m + n] = Pow2[m] * Pow2[n]
<1> DEFINE S == {k \in Nat : Pow2[m + k] = Pow2[m] * Pow2[k]}
<1>1. 0 \in S
  BY Pow2Is
<1>2. ASSUME NEW k \in S PROVE k + 1 \in S
  <2>1. k \in Nat /\ m + k \in Nat /\ m + (k + 1) = (m + k) + 1
    OBVIOUS
  <2>2. Pow2[m + k] = Pow2[m] * Pow2[k]
    OBVIOUS
  <2>3. Pow2[m + (k + 1)] = 2 * Pow2[m + k] /\ Pow2[k + 1] = 2 * Pow2[k]
    BY <2>1, Pow2Is
  <2>4. Pow2[m] \in Int /\ Pow2[k] \in Int
    BY <2>1, Pow2Is
  <2> DEFINE x == Pow2[m]
             y == Pow2[k]
  <2>5. 2 * (x * y) = x * (2 * y)
    <3> HIDE DEF x, y
    <3>1. x \in Int /\ y \in Int
      BY <2>4 DEF x, y
    <3>2. QED
      BY <3>1, Associates
  <2>6. QED
    BY <2>1, <2>2, <2>3, <2>5
<1> HIDE DEF S
<1>3. S = Nat
  <2>1. S \in SUBSET Nat
    BY DEF S
  <2>2. QED
    BY <1>1, <1>2, <2>1, SetInduction
<1>4. QED
  BY <1>3 DEF S

-----------------------------------------------------------------------------
(***************************************************************************)
(* A number cut at a field of factor W at the place of factor O.           *)
(***************************************************************************)
Cut(b, O, W, q, r, s) ==
  q \in Int /\ r \in 0 .. W - 1 /\ s \in 0 .. O - 1 /\ b = (q * W + r) * O + s

\* What is found at the place is what was cut there.
LEMMA CutRaw ==
  ASSUME NEW O \in Nat \ {0}, NEW W \in Nat \ {0}, NEW b, NEW q, NEW r, NEW s, Cut(b, O, W, q, r, s)
  PROVE  (b \div O) % W = r
<1> DEFINE x == q * W + r
<1>1. x \in Int /\ s \in 0 .. O - 1 /\ b = x * O + s
  <2>1. q * W \in Int
    BY DEF Cut
  <2>2. QED
    BY <2>1 DEF Cut
<1>2. x % W = r
  BY DivMod DEF Cut
<1> HIDE DEF x
<1>3. b \div O = x
  BY <1>1, DivMod
<1>4. QED
  BY <1>2, <1>3

\* Every number can be cut.
LEMMA CutExists ==
  ASSUME NEW O \in Nat \ {0}, NEW W \in Nat \ {0}, NEW b \in Int
  PROVE  \E q, r, s : Cut(b, O, W, q, r, s)
<1>1. \A c \in Int, w \in Nat \ {0} : \E d \in Int, m \in 0 .. w - 1 : c = d * w + m
  <2> SUFFICES ASSUME NEW c \in Int, NEW w \in Nat \ {0}
               PROVE  \E d \in Int, m \in 0 .. w - 1 : c = d * w + m
    OBVIOUS
  <2>1. PICK d \in Int, m \in 0 .. w - 1 : d = c \div w /\ m = c % w /\ c = d * w + m
    BY SMTT(30)
  <2>2. QED
    BY <2>1
<1>2. PICK x \in Int, s \in 0 .. O - 1 : b = x * O + s
  BY <1>1
<1>3. PICK q \in Int, r \in 0 .. W - 1 : x = q * W + r
  BY <1>1
<1>4. Cut(b, O, W, q, r, s)
  BY <1>2, <1>3 DEF Cut
<1>5. QED
  BY <1>4

\* What is stored in the field is read from it.
LEMMA CutStored ==
  ASSUME NEW O \in Nat \ {0}, NEW W \in Nat \ {0}, NEW b, NEW q, NEW r, NEW s, Cut(b, O, W, q, r, s),
         NEW v \in 0 .. W - 1
  PROVE  Cut(b + (v - r) * O, O, W, q, v, s)
<1>1. q \in Int /\ r \in Int /\ s \in 0 .. O - 1 /\ b = (q * W + r) * O + s /\ q * W \in Int
  BY DEF Cut
<1> DEFINE x == q * W
<1> HIDE DEF x
<1>2. b = (x + r) * O + s /\ x \in Int /\ v \in Int
  BY <1>1 DEF x
<1>3. b + (v - r) * O = (x + v) * O + s
  <2>1. (x + r) * O + (v - r) * O = ((x + r) + (v - r)) * O
    BY <1>1, <1>2, Associates
  <2>2. (x + r) + (v - r) = x + v
    BY <1>1, <1>2
  <2>3. (x + r) * O \in Int /\ (v - r) * O \in Int
    BY <1>1, <1>2
  <2>4. QED
    BY <1>1, <1>2, <2>1, <2>2, <2>3
<1>4. QED
  BY <1>1, <1>3 DEF Cut, x

\* What is added above a field does not change it.
LEMMA CutBelow ==
  ASSUME NEW O \in Nat \ {0}, NEW W \in Nat \ {0}, NEW b, NEW q, NEW r, NEW s, Cut(b, O, W, q, r, s),
         NEW K \in Int, NEW d \in Int
  PROVE  Cut(b + d * ((K * W) * O), O, W, q + d * K, r, s)
<1>1. q \in Int /\ r \in Int /\ s \in 0 .. O - 1 /\ s \in Int /\ b = (q * W + r) * O + s /\ q * W \in Int
  BY DEF Cut
<1>2. d * K \in Int /\ K * W \in Int /\ d * (K * W) \in Int
  OBVIOUS
<1>3. (q + d * K) * W = q * W + d * (K * W)
  BY <1>1, <1>2, Associates
<1>4. d * ((K * W) * O) = (d * (K * W)) * O
  BY <1>2, Associates
<1> DEFINE x == q * W + r
           y == d * (K * W)
<1>5. (x + y) * O = x * O + y * O
  <2>1. x \in Int /\ y \in Int
    BY <1>1, <1>2
  <2> HIDE DEF x, y
  <2>2. QED
    BY <2>1, Associates
<1>6. (q + d * K) * W + r = x + y
  BY <1>1, <1>2, <1>3
<1>7. b + y * O = (x + y) * O + s
  <2>1. x * O \in Int /\ y * O \in Int
    BY <1>1, <1>2
  <2>2. b = x * O + s
    BY <1>1
  <2> HIDE DEF x, y
  <2>3. QED
    BY <1>1, <1>5, <2>1, <2>2
<1>8. q + d * K \in Int
  BY <1>1, <1>2
<1> HIDE DEF x, y
<1>9. b + d * ((K * W) * O) = ((q + d * K) * W + r) * O + s
  BY <1>4, <1>6, <1>7 DEF y
<1>10. QED
  BY <1>1, <1>8, <1>9 DEF Cut

\* A product grows with its factor.
LEMMA Monotone ==
  ASSUME NEW a \in Int, NEW b \in Int, NEW c \in Nat, a <= b
  PROVE  a * c <= b * c
<1>1. b - a \in Nat
  OBVIOUS
<1>2. (b - a) * c >= 0
  <2> DEFINE d == b - a
  <2>1. d \in Nat
    BY <1>1
  <2> HIDE DEF d
  <2>2. d * c >= 0
    BY <2>1
  <2>3. QED
    BY <2>2 DEF d
<1>3. (b - a) * c = b * c - a * c
  OBVIOUS
<1>4. a * c \in Int /\ b * c \in Int
  OBVIOUS
<1>5. QED
  BY <1>2, <1>3, <1>4

\* A number is below K * W * O exactly if what is above its field is below K.
LEMMA CutRange ==
  ASSUME NEW O \in Nat \ {0}, NEW W \in Nat \ {0}, NEW b, NEW q, NEW r, NEW s, Cut(b, O, W, q, r, s),
         NEW K \in Nat
  PROVE  b \in 0 .. (K * W) * O - 1 <=> q \in 0 .. K - 1
<1>1. q \in Int /\ r \in 0 .. W - 1 /\ s \in 0 .. O - 1 /\ b = (q * W + r) * O + s
  BY DEF Cut
<1> DEFINE x == q * W + r
           kw == K * W
<1>2. q * W \in Int /\ kw \in Int /\ x \in Int
  BY <1>1
<1>3. b = x * O + s /\ x * O \in Int /\ kw * O \in Int
  BY <1>1, <1>2
<1>4. CASE q >= K
  <2>1. kw <= q * W
    BY <1>1, <1>4, Monotone
  <2>2. kw <= x
    BY <1>1, <1>2, <2>1
  <2> HIDE DEF x, kw
  <2>3. kw * O <= x * O
    BY <1>2, <2>2, Monotone
  <2>4. ~(b <= kw * O - 1)
    BY <1>1, <1>3, <2>3
  <2>5. QED
    BY <1>1, <1>4, <2>4 DEF kw
<1>5. CASE q < 0
  <2>1. q * W <= (-1) * W
    BY <1>1, <1>5, Monotone
  <2>2. x <= -1
    BY <1>1, <1>2, <2>1
  <2> HIDE DEF x, kw
  <2>3. x * O <= (-1) * O
    BY <1>2, <2>2, Monotone
  <2>4. b < 0
    BY <1>1, <1>3, <2>3
  <2>5. QED
    BY <1>1, <1>5, <2>4
<1>6. CASE q \in 0 .. K - 1
  <2>1. q * W <= (K - 1) * W /\ 0 * W <= q * W
    BY <1>1, <1>6, Monotone
  <2>2. (K - 1) * W = kw - W
    OBVIOUS
  <2>3. x <= kw - 1 /\ 0 <= x
    BY <1>1, <1>2, <2>1, <2>2
  <2> HIDE DEF x, kw
  <2>4. x * O <= (kw - 1) * O /\ 0 * O <= x * O
    BY <1>2, <2>3, Monotone
  <2>5. (kw - 1) * O = kw * O - O
    BY <1>2
  <2>6. b \in 0 .. kw * O - 1
    BY <1>1, <1>3, <2>4, <2>5
  <2>7. QED
    BY <1>6, <2>6 DEF kw
<1>7. QED
  BY <1>1, <1>4, <1>5, <1>6

\* What is stored below a field does not change it.
LEMMA CutAbove ==
  ASSUME NEW O \in Nat \ {0}, NEW W \in Nat \ {0}, NEW U \in Nat \ {0}, NEW K \in Nat \ {0},
         NEW b, NEW q, NEW r, NEW s, Cut(b, (K * W) * O, U, q, r, s), NEW v \in 0 .. W - 1
  PROVE  \E w, t : (b \div O) % W = w /\ Cut(b + (v - w) * O, (K * W) * O, U, q, r, t)
<1> DEFINE M == (K * W) * O
           z == q * U + r
<1>1. q \in Int /\ r \in 0 .. U - 1 /\ s \in 0 .. M - 1 /\ b = z * M + s
  BY DEF Cut
<1>2. M \in Int /\ z \in Int
  <2>1. K * W \in Int /\ q * U \in Int
    BY <1>1
  <2>2. QED
    BY <1>1, <2>1
<1>3. s \in Int
  BY <1>1, <1>2
<1>4. PICK p, w, t : Cut(s, O, W, p, w, t)
  BY <1>3, CutExists
<1>5. p \in 0 .. K - 1
  BY <1>1, <1>4, CutRange
<1>6. Cut(s + z * M, O, W, p + z * K, w, t)
  <2>1. K \in Int
    OBVIOUS
  <2>2. QED
    BY <1>2, <1>4, <2>1, CutBelow
<1> HIDE DEF z
<1>7. z * M \in Int /\ s + z * M = b
  <2> HIDE DEF M
  <2>1. z * M \in Int
    BY <1>2
  <2>2. QED
    BY <1>1, <1>3, <2>1
<1>8. (b \div O) % W = w
  <2>1. Cut(b, O, W, p + z * K, w, t)
    BY <1>6, <1>7
  <2>2. QED
    BY <2>1, CutRaw
<1> DEFINE s2 == s + (v - w) * O
<1>9. Cut(s2, O, W, p, v, t)
  BY <1>4, CutStored
<1>10. s2 \in 0 .. M - 1
  BY <1>5, <1>9, CutRange
<1>11. b + (v - w) * O = z * M + s2
  <2>1. w \in Int
    BY <1>4 DEF Cut
  <2>2. (v - w) * O \in Int
    BY <2>1
  <2> HIDE DEF M
  <2>3. QED
    BY <1>1, <1>3, <1>7, <2>2
<1> HIDE DEF M, s2
<1>12. Cut(b + (v - w) * O, M, U, q, r, s2)
  BY <1>1, <1>10, <1>11 DEF Cut, z
<1>13. QED
  BY <1>8, <1>12 DEF M

-----------------------------------------------------------------------------
(***************************************************************************)
(* The fields of an encoding.                                              *)
(***************************************************************************)
Fields == [offset : Nat, width : Nat \ {0}, signed : BOOLEAN]
Apart(f, g) == f.offset + f.width <= g.offset \/ g.offset + g.width <= f.offset

\* The factors of a field: its place, its width, and half of it for the sign.
LEMMA FieldFactors ==
  ASSUME NEW f \in Fields
  PROVE  /\ Pow2[f.offset] \in Nat \ {0} /\ Pow2[f.width] \in Nat \ {0} /\ Pow2[f.width - 1] \in Nat \ {0}
         /\ Pow2[f.width] = 2 * Pow2[f.width - 1]
<1>1. f.offset \in Nat /\ f.width \in Nat /\ f.width - 1 \in Nat /\ (f.width - 1) + 1 = f.width
  BY DEF Fields
<1>2. QED
  BY <1>1, Pow2Is

\* The place of a field above another in terms of that one.
LEMMA PlaceAbove ==
  ASSUME NEW f \in Fields, NEW n \in Nat, f.offset + f.width <= n
  PROVE  \E K \in Nat \ {0} : Pow2[n] = (K * Pow2[f.width]) * Pow2[f.offset]
<1>1. f.offset \in Nat /\ f.width \in Nat
  BY DEF Fields
<1> DEFINE k == n - (f.offset + f.width)
<1>2. k \in Nat /\ k + f.width \in Nat /\ (k + f.width) + f.offset = n
  BY <1>1
<1> HIDE DEF k
<1>3. Pow2[k + f.width] = Pow2[k] * Pow2[f.width]
  BY <1>1, <1>2, Pow2Sum
<1>4. Pow2[n] = Pow2[k + f.width] * Pow2[f.offset]
  BY <1>1, <1>2, Pow2Sum
<1>5. Pow2[k] \in Nat \ {0}
  BY <1>2, Pow2Is
<1>6. QED
  BY <1>3, <1>4, <1>5

\* BitFieldValue::operator= leaves the lowest bits of the value in the field.
LEMMA RawOfStored ==
  ASSUME NEW f \in Fields, NEW b \in Int, NEW v \in Int
  PROVE  Stored(b, f, v) \in Int /\ Raw(Stored(b, f, v), f) = v % Pow2[f.width]
<1> DEFINE O == Pow2[f.offset]
           W == Pow2[f.width]
           u == v % W
<1>1. O \in Nat \ {0} /\ W \in Nat \ {0}
  BY FieldFactors
<1> HIDE DEF O, W
<1>2. u \in 0 .. W - 1
  BY <1>1
<1>3. PICK q, r, s : Cut(b, O, W, q, r, s)
  BY <1>1, CutExists
<1>4. Raw(b, f) = r /\ r \in Int
  BY <1>1, <1>3, CutRaw DEF Raw, O, W, Cut
<1> HIDE DEF u
<1>5. Stored(b, f, v) = b + (u - r) * O
  BY <1>4 DEF Stored, O, W, u
<1>6. Cut(b + (u - r) * O, O, W, q, u, s)
  BY <1>1, <1>2, <1>3, CutStored
<1>7. Raw(b + (u - r) * O, f) = u
  BY <1>1, <1>6, CutRaw DEF Raw, O, W
<1>8. (u - r) * O \in Int
  BY <1>1, <1>2, <1>4
<1>9. QED
  BY <1>5, <1>7, <1>8 DEF u, W

\* And leaves every other field as it was.
LEMMA RawOfOther ==
  ASSUME NEW f \in Fields, NEW g \in Fields, Apart(f, g), NEW b \in Int, NEW v \in Int
  PROVE  Raw(Stored(b, f, v), g) = Raw(b, g)
<1> DEFINE O == Pow2[f.offset]
           W == Pow2[f.width]
           P == Pow2[g.offset]
           U == Pow2[g.width]
           u == v % W
<1>1. O \in Nat \ {0} /\ W \in Nat \ {0} /\ P \in Nat \ {0} /\ U \in Nat \ {0}
  BY FieldFactors
<1> HIDE DEF O, W, P, U
<1>2. u \in 0 .. W - 1
  BY <1>1
<1> HIDE DEF u
<1>3. Stored(b, f, v) = b + (u - Raw(b, f)) * O /\ Raw(b, f) = (b \div O) % W
  BY DEF Stored, O, W, u, Raw
<1>4. PICK q, r, s : Cut(b, P, U, q, r, s)
  BY <1>1, CutExists
<1>5. Raw(b, g) = r
  BY <1>1, <1>4, CutRaw DEF Raw, P, U
<1>6. CASE f.offset + f.width <= g.offset
  <2>1. PICK K \in Nat \ {0} : P = (K * W) * O
    <3>1. g.offset \in Nat
      BY DEF Fields
    <3>2. QED
      BY <1>6, <3>1, PlaceAbove DEF P, W, O
  <2>2. Cut(b, (K * W) * O, U, q, r, s)
    BY <1>4, <2>1
  <2>3. PICK w, t : (b \div O) % W = w /\ Cut(b + (u - w) * O, (K * W) * O, U, q, r, t)
    BY <1>1, <1>2, <2>2, CutAbove
  <2>4. Cut(Stored(b, f, v), P, U, q, r, t)
    BY <1>3, <2>1, <2>3
  <2>5. Raw(Stored(b, f, v), g) = r
    BY <1>1, <2>4, CutRaw DEF Raw, P, U
  <2>6. QED
    BY <1>5, <2>5
<1>7. CASE g.offset + g.width <= f.offset
  <2>1. PICK K \in Nat \ {0} : O = (K * U) * P
    <3>1. f.offset \in Nat
      BY DEF Fields
    <3>2. QED
      BY <1>7, <3>1, PlaceAbove DEF P, U, O
  <2> DEFINE d == u - Raw(b, f)
  <2>2. d \in Int /\ K \in Int
    <3>1. b \div O \in Int
      BY <1>1
    <3>2. (b \div O) % W \in Int
      BY <1>1, <3>1
    <3>3. QED
      BY <1>2, <1>3, <3>2
  <2>3. Stored(b, f, v) = b + d * ((K * U) * P)
    BY <1>3, <2>1
  <2> HIDE DEF d
  <2>4. Cut(Stored(b, f, v), P, U, q + d * K, r, s)
    BY <1>1, <1>4, <2>2, <2>3, CutBelow
  <2>5. Raw(Stored(b, f, v), g) = r
    BY <1>1, <2>4, CutRaw DEF Raw, P, U
  <2>6. QED
    BY <1>5, <2>5
<1>8. QED
  BY <1>6, <1>7 DEF Apart

-----------------------------------------------------------------------------
(***************************************************************************)
(* The values a field takes.                                               *)
(***************************************************************************)
InRange(f, v) ==
  IF f.signed THEN v \in -(Pow2[f.width - 1]) .. Pow2[f.width - 1] - 1 ELSE v \in 0 .. Pow2[f.width] - 1

\* The bits of a value in the range of a field show the value, signed or not.
LEMMA ValueOfRaw ==
  ASSUME NEW f \in Fields, NEW b, NEW v \in Int, InRange(f, v), Raw(b, f) = v % Pow2[f.width]
  PROVE  Value(b, f) = v
<1> DEFINE H == Pow2[f.width - 1]
           W == Pow2[f.width]
<1>1. H \in Nat \ {0} /\ W \in Nat \ {0} /\ W = 2 * H
  BY FieldFactors
<1>2. Value(b, f) = IF f.signed /\ v % W >= H THEN (v % W) - W ELSE v % W
  BY DEF Value
<1>3. IF f.signed THEN v \in -H .. H - 1 ELSE v \in 0 .. W - 1
  BY DEF InRange
<1> HIDE DEF H, W
<1>4. CASE v >= 0
  <2>1. v \in 0 .. W - 1
    BY <1>1, <1>3, <1>4
  <2>2. 0 * W + v = v
    BY <1>1
  <2>3. (0 * W + v) % W = v
    BY <1>1, <2>1, DivMod
  <2>4. v % W = v
    BY <2>2, <2>3
  <2>5. QED
    BY <1>1, <1>2, <1>3, <2>4
<1>5. CASE v < 0
  <2>1. f.signed /\ v + W \in 0 .. W - 1 /\ v + W >= H
    BY <1>1, <1>3, <1>5
  <2>2. (-1) * W + (v + W) = v
    BY <1>1
  <2>3. ((-1) * W + (v + W)) % W = v + W
    BY <1>1, <2>1, DivMod
  <2>4. v % W = v + W
    BY <2>2, <2>3
  <2>5. QED
    BY <1>1, <1>2, <2>1, <2>4
<1>6. QED
  BY <1>4, <1>5

\* A wider field has a larger factor.
LEMMA Pow2Grows ==
  ASSUME NEW m \in Nat, NEW n \in Nat, m <= n
  PROVE  Pow2[m] <= Pow2[n]
<1>1. Pow2[m + (n - m)] = Pow2[m] * Pow2[n - m] /\ n - m \in Nat
  BY Pow2Sum
<1>2. Pow2[m] \in Nat \ {0} /\ Pow2[n - m] \in Nat \ {0}
  BY <1>1, Pow2Is
<1> DEFINE x == Pow2[m]
           y == Pow2[n - m]
<1>3. x <= y * x
  <2>1. x \in Nat /\ y \in Int /\ 1 <= y
    BY <1>2
  <2> HIDE DEF x, y
  <2>2. 1 * x <= y * x
    BY <2>1, Monotone
  <2>3. QED
    BY <2>1, <2>2
<1>4. y * x = x * y
  BY <1>2
<1>5. m + (n - m) = n
  OBVIOUS
<1>6. QED
  BY <1>1, <1>3, <1>4, <1>5

\* What an int makes of a number.
LEMMA AsIntIs ==
  ASSUME NEW n \in Int
  PROVE  /\ AsInt(n) \in Int
         /\ n >= 0 => AsInt(n) <= n
         /\ AsInt(n) >= -(Pow2[WordBits - 1])
         /\ n < 0 /\ n >= -(Pow2[WordBits - 1]) => AsInt(n) = n
<1> DEFINE H == Pow2[WordBits - 1]
           W == Pow2[WordBits]
           u == n % W
<1>1. H \in Nat \ {0} /\ W \in Nat \ {0} /\ W = 2 * H
  <2>1. WordBits - 1 \in Nat /\ (WordBits - 1) + 1 = WordBits /\ WordBits \in Nat
    BY CellAssumption
  <2>2. QED
    BY <2>1, Pow2Is
<1>2. AsInt(n) = IF u >= H THEN u - W ELSE u
  BY DEF AsInt
<1> HIDE DEF H, W
<1>3. u \in 0 .. W - 1
  BY <1>1
<1>4. n >= 0 => u <= n
  <2> SUFFICES ASSUME n >= 0, u > n PROVE FALSE
    BY <1>3
  <2>1. n \in 0 .. W - 1
    BY <1>1, <1>3
  <2>2. (0 * W + n) % W = n /\ 0 * W + n = n
    BY <1>1, <2>1, DivMod
  <2>3. QED
    BY <2>2
<1>5. n < 0 /\ n >= -H => u = n + W
  <2> SUFFICES ASSUME n < 0, n >= -H PROVE u = n + W
    OBVIOUS
  <2>1. n + W \in 0 .. W - 1
    BY <1>1
  <2>2. ((-1) * W + (n + W)) % W = n + W /\ (-1) * W + (n + W) = n
    BY <1>1, <2>1, DivMod
  <2>3. QED
    BY <2>2
<1> HIDE DEF u
<1>6. QED
  BY <1>1, <1>2, <1>3, <1>4, <1>5 DEF H

\* What operator= lets through is a value of the field.
LEMMA ChecksRange ==
  ASSUME NEW f \in Fields, NEW v \in InputsOf(f), f.signed \/ v # Pow2[f.width],
         v >= MinVal(f), v <= MaxVal(f)
  PROVE  v \in Int /\ InRange(f, v)
<1> DEFINE H == Pow2[f.width - 1]
           W == Pow2[f.width]
           B == Pow2[WordBits - 1]
<1>1. H \in Nat \ {0} /\ W \in Nat \ {0} /\ W = 2 * H
  BY FieldFactors
<1>2. v \in -H - 1 .. W
  BY DEF InputsOf
<1>3. CASE f.signed
  <2>1. v >= AsInt(-H) /\ v <= AsInt(H - 1)
    BY <1>3 DEF MinVal, MaxVal
  <2>2. -H \in Int /\ -H < 0 /\ H - 1 \in Int /\ H - 1 >= 0
    BY <1>1
  <2>3. AsInt(H - 1) <= H - 1 /\ AsInt(H - 1) \in Int
    BY <2>2, AsIntIs
  <2>4. AsInt(-H) \in Int /\ AsInt(-H) >= -B /\ (-H >= -B => AsInt(-H) = -H)
    BY <2>2, AsIntIs
  <2>5. B \in Nat \ {0}
    <3>1. WordBits - 1 \in Nat
      BY CellAssumption
    <3>2. QED
      BY <3>1, Pow2Is
  <2> HIDE DEF H, W, B
  <2>6. AsInt(-H) >= -H
    BY <1>1, <2>4, <2>5
  <2>7. v \in -H .. H - 1
    BY <1>1, <1>2, <2>1, <2>3, <2>4, <2>6
  <2>8. QED
    BY <1>3, <2>7 DEF InRange, H
<1>4. CASE ~f.signed
  <2>1. v >= 0 /\ v # W
    BY <1>4 DEF MinVal
  <2> HIDE DEF H, W
  <2>2. v \in 0 .. W - 1
    BY <1>1, <1>2, <2>1
  <2>3. QED
    BY <1>4, <2>2 DEF InRange, W
<1>5. QED
  BY <1>3, <1>4

\* The two words of a cell id; a field of the first is read from it alone.
LEMMA WordsOf ==
  ASSUME NEW b \in Int
  PROVE  /\ b % Pow2[WordBits] \in Int /\ b \div Pow2[WordBits] \in Int
         /\ (b % Pow2[WordBits]) + (b \div Pow2[WordBits]) * Pow2[WordBits] = b
<1> DEFINE M == Pow2[WordBits]
<1>1. M \in Nat \ {0}
  BY CellAssumption, Pow2Is
<1> HIDE DEF M
<1>2. PICK d \in Int, m \in 0 .. M - 1 : d = b \div M /\ m = b % M /\ b = d * M + m
  BY <1>1, SMTT(30)
<1>3. d * M \in Int /\ m \in Int
  BY <1>1
<1>4. b % M \in Int /\ b \div M \in Int /\ (b % M) + (b \div M) * M = b
  BY <1>2, <1>3
<1>5. QED
  BY <1>4 DEF M

\* A field of the first word is not touched by the second.
LEMMA FirstWord ==
  ASSUME NEW f \in Fields, f.offset + f.width <= WordBits, NEW lo \in Int, NEW hi \in Int
  PROVE  Raw(lo + hi * Pow2[WordBits], f) = Raw(lo, f)
<1> DEFINE O == Pow2[f.offset]
           W == Pow2[f.width]
<1>1. O \in Nat \ {0} /\ W \in Nat \ {0}
  BY FieldFactors
<1>2. PICK K \in Nat \ {0} : Pow2[WordBits] = (K * W) * O
  BY CellAssumption, PlaceAbove
<1> HIDE DEF O, W
<1>3. PICK q, r, s : Cut(lo, O, W, q, r, s)
  BY <1>1, CutExists
<1>4. K \in Int
  OBVIOUS
<1>5. Cut(lo + hi * ((K * W) * O), O, W, q + hi * K, r, s)
  BY <1>1, <1>3, <1>4, CutBelow
<1>6. ((lo + hi * ((K * W) * O)) \div O) % W = r /\ (lo \div O) % W = r
  BY <1>1, <1>3, <1>5, CutRaw
<1>7. QED
  BY <1>2, <1>6 DEF Raw, O, W

-----------------------------------------------------------------------------
(***************************************************************************)
(* The inductive invariant: the word of the encoder and those of every     *)
(* hit say of each field what it was given, and the decoder has the words  *)
(* of the hit it read last.                                                *)
(***************************************************************************)
Shows(b, told) == \A i \in DOMAIN enc : Value(b, enc[i]) = told[i]
WordsAre(x) == x.lo + x.hi * Pow2[WordBits]
HitOK(x) ==
  /\ x.lo \in Int /\ x.hi \in Int
  /\ x = [lo |-> x.lo, hi |-> x.hi, fields |-> x.fields]
  /\ x # NoHit => Shows(WordsAre(x), x.fields)

CellInv ==
  /\ \A i \in DOMAIN enc : enc[i] \in Fields /\ enc[i].offset + enc[i].width <= 2 * WordBits
  /\ \A i, j \in DOMAIN enc : i # j => Apart(enc[i], enc[j])
  /\ bits \in Int /\ assigned = [i \in DOMAIN enc |-> assigned[i]] /\ Shows(bits, assigned)
  /\ hits = [h \in Hits |-> hits[h]] /\ \A h \in Hits : HitOK(hits[h])
  /\ decoder.hit \in {h \in Hits : hits[h] # NoHit} => decoder.bits = WordsAre(hits[decoder.hit])

\* All fields of an empty number show 0.
LEMMA ZeroShows ==
  ASSUME NEW f \in Fields
  PROVE  Value(0, f) = 0
<1> DEFINE O == Pow2[f.offset]
           W == Pow2[f.width]
<1>1. O \in Nat \ {0} /\ W \in Nat \ {0} /\ Pow2[f.width - 1] \in Nat \ {0}
  BY FieldFactors
<1> HIDE DEF O, W
<1>2. Cut(0, O, W, 0, 0, 0)
  BY <1>1 DEF Cut
<1>3. Raw(0, f) = 0
  BY <1>1, <1>2, CutRaw DEF Raw, O, W
<1>4. QED
  BY <1>1, <1>3 DEF Value

\* Fields without a common bit are one after the other.
LEMMA LegalApart ==
  ASSUME NEW f \in Fields, NEW g \in Fields, FieldBits(f) \cap FieldBits(g) = {}
  PROVE  Apart(f, g)
<1>1. f.offset \in Nat /\ g.offset \in Nat /\ f.width \in Nat \ {0} /\ g.width \in Nat \ {0}
  BY DEF Fields
<1> SUFFICES ASSUME ~Apart(f, g) PROVE FALSE
  OBVIOUS
<1>2. CASE f.offset <= g.offset
  <2>1. g.offset \in FieldBits(f) /\ g.offset \in FieldBits(g)
    BY <1>1, <1>2 DEF FieldBits, Apart
  <2>2. QED
    BY <2>1
<1>3. CASE g.offset < f.offset
  <2>1. f.offset \in FieldBits(f) /\ f.offset \in FieldBits(g)
    BY <1>1, <1>3 DEF FieldBits, Apart
  <2>2. QED
    BY <2>1
<1>4. QED
  BY <1>1, <1>2, <1>3

\* A new encoder shows 0 in every field, and nothing was told.
LEMMA CellInitially == CellInit => CellInv
<1> SUFFICES ASSUME CellInit PROVE CellInv
  OBVIOUS
<1>1. enc \in Encodings /\ Legal(enc) /\ bits = 0 /\ assigned = Zeros(enc)
      /\ hits = [h \in Hits |-> NoHit] /\ decoder = NewDecoder
  BY DEF CellInit
<1> DEFINE R == [offset : Nat, width : 1 .. 2 * WordBits - 1, signed : BOOLEAN]
<1>2. enc \in Seq(R)
  BY <1>1, CellAssumption
<1>3. \A i \in DOMAIN enc : enc[i] \in R
  <2> HIDE DEF R
  <2>1. QED
    BY <1>2, LenProperties
<1>4. \A x \in R : x \in Fields
  BY CellAssumption DEF Fields
<1> HIDE DEF R
<1>5. \A i \in DOMAIN enc : enc[i] \in Fields /\ enc[i].offset + enc[i].width <= 2 * WordBits
  BY <1>1, <1>3, <1>4 DEF Legal
<1>6. \A i, j \in DOMAIN enc : i # j => Apart(enc[i], enc[j])
  BY <1>1, <1>5, LegalApart DEF Legal
<1>7. bits \in Int /\ assigned = [i \in DOMAIN enc |-> assigned[i]] /\ Shows(bits, assigned)
  BY <1>1, <1>5, ZeroShows DEF Zeros, Shows
<1>8. HitOK(NoHit)
  BY DEF HitOK, NoHit
<1>9. hits = [h \in Hits |-> hits[h]] /\ \A h \in Hits : HitOK(hits[h]) /\ hits[h] = NoHit
  BY <1>1, <1>8
<1>10. QED
  BY <1>5, <1>6, <1>7, <1>9 DEF CellInv

(***************************************************************************)
(* An assignment of a value in the range of a field shows the value, and   *)
(* the others what they did.                                               *)
(***************************************************************************)
LEMMA AssignKeeps ==
  ASSUME CellInv, ~TopValue, NEW i \in DOMAIN enc, NEW v \in InputsOf(enc[i]), Assign(i, v)
  PROVE  CellInv'
<1> DEFINE f == enc[i]
<1>1. /\ f \in Fields /\ (f.signed \/ v # Pow2[f.width]) /\ v >= MinVal(f) /\ v <= MaxVal(f)
      /\ bits' = Stored(bits, f, v) /\ assigned' = [assigned EXCEPT ![i] = v]
      /\ enc' = enc /\ hits' = hits /\ decoder' = decoder
  BY DEF Assign, CellInv
<1>2. /\ bits \in Int /\ assigned = [j \in DOMAIN enc |-> assigned[j]]
      /\ \A j \in DOMAIN enc : enc[j] \in Fields /\ Value(bits, enc[j]) = assigned[j]
      /\ \A j \in DOMAIN enc : j # i => Apart(f, enc[j])
  BY DEF CellInv, Shows
<1>3. v \in Int /\ InRange(f, v)
  BY <1>1, ChecksRange
<1> HIDE DEF f
<1>4. bits' \in Int /\ Raw(bits', f) = v % Pow2[f.width]
  BY <1>1, <1>2, <1>3, RawOfStored
<1>5. Value(bits', f) = v
  BY <1>1, <1>3, <1>4, ValueOfRaw
<1>6. ASSUME NEW j \in DOMAIN enc, j # i PROVE Value(bits', enc[j]) = assigned[j]
  <2>1. Raw(bits', enc[j]) = Raw(bits, enc[j])
    BY <1>1, <1>2, <1>3, <1>6, RawOfOther
  <2>2. Value(bits, enc[j]) = assigned[j]
    BY <1>2
  <2>3. QED
    BY <2>1, <2>2 DEF Value
<1>7. assigned' = [j \in DOMAIN enc |-> assigned'[j]] /\ assigned'[i] = v
      /\ \A j \in DOMAIN enc : j # i => assigned'[j] = assigned[j]
  BY <1>1, <1>2
<1>8. Shows(bits', assigned')
  BY <1>5, <1>6, <1>7 DEF Shows, f
<1>9. Shows(bits, assigned)' <=> Shows(bits', assigned')
  BY <1>1 DEF Shows
<1>10. \A x : HitOK(x)' <=> HitOK(x)
  BY <1>1 DEF HitOK, Shows
<1>11. QED
  BY <1>1, <1>4, <1>7, <1>8, <1>9, <1>10 DEF CellInv

\* setCellID tells a hit the words that the encoder has.
LEMMA SetCellIDKeeps ==
  ASSUME CellInv, NEW h \in Hits, SetCellID(h)
  PROVE  CellInv'
<1> DEFINE x == [lo |-> bits % Pow2[WordBits], hi |-> bits \div Pow2[WordBits], fields |-> assigned]
<1>1. decoder.hit # h /\ hits' = [hits EXCEPT ![h] = x]
      /\ enc' = enc /\ bits' = bits /\ assigned' = assigned /\ decoder' = decoder
  BY DEF SetCellID
<1>2. bits \in Int /\ Shows(bits, assigned)
  BY DEF CellInv
<1>3. x.lo \in Int /\ x.hi \in Int /\ WordsAre(x) = bits /\ x.fields = assigned
  BY <1>2, WordsOf DEF WordsAre
<1>4. x = [lo |-> x.lo, hi |-> x.hi, fields |-> x.fields]
  OBVIOUS
<1> HIDE DEF x
<1>5. HitOK(x)
  BY <1>2, <1>3, <1>4 DEF HitOK
<1>6. hits' = [g \in Hits |-> hits'[g]] /\ hits'[h] = x /\ \A g \in Hits : g # h => hits'[g] = hits[g]
  BY <1>1 DEF CellInv
<1>7. \A g \in Hits : HitOK(hits'[g])
  BY <1>5, <1>6 DEF CellInv
<1>8. \A y : HitOK(y)' <=> HitOK(y)
  BY <1>1 DEF HitOK, Shows
<1>9. Shows(bits, assigned)'
  BY <1>1, <1>2 DEF Shows
<1>10. decoder'.hit \in {g \in Hits : hits'[g] # NoHit} => decoder'.bits = WordsAre(hits'[decoder'.hit])
  BY <1>1, <1>6 DEF CellInv
<1>11. QED
  BY <1>1, <1>6, <1>7, <1>8, <1>9, <1>10 DEF CellInv

\* A decoder shows the fields of the last hit it is given.
LEMMA DecodeKeeps ==
  ASSUME CellInv, NEW h \in Hits, DecodeHit(h)
  PROVE  CellInv'
<1>1. hits[h] # NoHit /\ enc' = enc /\ bits' = bits /\ assigned' = assigned /\ hits' = hits
      /\ decoder' = IF h = decoder.hit THEN decoder ELSE [bits |-> WordsAre(hits[h]), hit |-> h]
  BY DEF DecodeHit, WordsAre
<1>2. decoder'.hit \in {g \in Hits : hits[g] # NoHit} => decoder'.bits = WordsAre(hits[decoder'.hit])
  <2>1. CASE h = decoder.hit
    BY <1>1, <2>1 DEF CellInv
  <2>2. CASE h # decoder.hit
    BY <1>1, <2>2
  <2>3. QED
    BY <2>1, <2>2
<1>3. \A y : HitOK(y)' <=> HitOK(y)
  BY <1>1 DEF HitOK, Shows
<1>4. Shows(bits, assigned)'
  BY <1>1 DEF CellInv, Shows
<1>5. QED
  BY <1>1, <1>2, <1>3, <1>4 DEF CellInv

\* If the second word is not kept, no field reaches into it.
LEMMA AllInFirst ==
  ASSUME CellInv, ~NeedsSecondWord, NEW i \in DOMAIN enc
  PROVE  enc[i].offset + enc[i].width <= WordBits
<1> DEFINE S == {enc[j].offset + enc[j].width : j \in DOMAIN enc}
           N == 2 * WordBits
<1>1. WordBits \in Nat /\ N \in Nat
  BY CellAssumption
<1>2. ASSUME NEW j \in DOMAIN enc PROVE enc[j].offset + enc[j].width \in 0 .. N
  <2>1. enc[j] \in Fields /\ enc[j].offset + enc[j].width <= N
    BY DEF CellInv
  <2>2. QED
    BY <2>1 DEF Fields
<1>3. S \subseteq 0 .. N /\ enc[i].offset + enc[i].width \in S
  BY <1>2
<1> DEFINE D == {N - n : n \in S}
           m == Max(S)
           x == enc[i].offset + enc[i].width
<1> HIDE DEF S, N, x
<1>0. x \in S /\ S \subseteq 0 .. N
  BY <1>3 DEF x
<1>4. D \in SUBSET Nat /\ D # {}
  <2>1. ASSUME NEW n \in S PROVE N - n \in Nat
    BY <1>0, <1>1
  <2>2. N - x \in D
    BY <1>0
  <2>3. QED
    BY <2>1, <2>2
<1>5. PICK d \in D : \A e \in D : d <= e
  <2> HIDE DEF D
  <2>1. QED
    BY <1>4, LeastNatural
<1>6. PICK n \in S : d = N - n
  BY <1>5
<1>7. \A k \in S : n >= k
  BY <1>1, <1>3, <1>5, <1>6
<1>8. m \in S /\ \A k \in S : m >= k
  BY <1>7 DEF Max
<1>9. HighestBit(enc) = m
  BY DEF HighestBit, S
<1> HIDE DEF m
<1>10. ~(m > WordBits - 1)
  BY <1>9 DEF NeedsSecondWord
<1>11. x <= WordBits
  BY <1>0, <1>1, <1>8, <1>10
<1>12. QED
  BY <1>11 DEF x

(***************************************************************************)
(* A file keeps the words of a hit, and the encoding string, and the next  *)
(* event has a new decoder.                                                *)
(***************************************************************************)
LEMMA FileKeeps ==
  ASSUME CellInv, ~KeepsDecoder, ThroughCellFile
  PROVE  CellInv'
<1>1. PICK to \in [Hits -> Hits] :
        hits' = [h \in Hits |->
                   IF NeedsSecondWord THEN hits[to[h]] ELSE [hits[to[h]] EXCEPT !.hi = 0]]
  BY DEF ThroughCellFile
<1>2. decoder' = NewDecoder /\ enc' = enc /\ bits' = bits /\ assigned' = assigned
  BY DEF ThroughCellFile
<1>3. decoder'.hit \notin Hits
  BY <1>2, CellAssumption DEF NewDecoder
<1>4. ASSUME NEW h \in Hits PROVE HitOK(hits'[h])
  <2> DEFINE x == hits[to[h]]
  <2>1. HitOK(x)
    BY DEF CellInv
  <2>2. CASE NeedsSecondWord
    BY <1>1, <2>1, <2>2
  <2>3. CASE ~NeedsSecondWord
    <3> DEFINE y == [lo |-> x.lo, hi |-> 0, fields |-> x.fields]
    <3>1. hits'[h] = [x EXCEPT !.hi = 0]
      BY <1>1, <2>3
    <3> HIDE DEF x
    <3>2. [x EXCEPT !.hi = 0] = y
      BY <2>1 DEF HitOK
    <3>3. y.lo = x.lo /\ y.hi = 0 /\ y.fields = x.fields /\ y = [lo |-> y.lo, hi |-> y.hi, fields |-> y.fields]
      OBVIOUS
    <3>4. x = NoHit => y = NoHit
      BY DEF NoHit
    <3> HIDE DEF y
    <3>5. ASSUME y # NoHit PROVE Shows(WordsAre(y), y.fields)
      <4>1. x.lo \in Int /\ x.hi \in Int /\ Shows(WordsAre(x), x.fields)
        BY <2>1, <3>4, <3>5 DEF HitOK
      <4>2. ASSUME NEW i \in DOMAIN enc PROVE Value(WordsAre(y), enc[i]) = x.fields[i]
        <5>1. enc[i] \in Fields /\ enc[i].offset + enc[i].width <= WordBits
          BY <2>3, AllInFirst DEF CellInv
        <5>2. Raw(WordsAre(x), enc[i]) = Raw(x.lo, enc[i])
          BY <4>1, <5>1, FirstWord DEF WordsAre
        <5>3. Raw(WordsAre(y), enc[i]) = Raw(x.lo, enc[i])
          <6>1. Raw(x.lo + 0 * Pow2[WordBits], enc[i]) = Raw(x.lo, enc[i])
            BY <4>1, <5>1, FirstWord
          <6>2. QED
            BY <3>3, <6>1 DEF WordsAre
        <5>4. Value(WordsAre(x), enc[i]) = x.fields[i]
          BY <4>1 DEF Shows
        <5>5. QED
          BY <5>2, <5>3, <5>4 DEF Value
      <4>3. QED
        BY <3>3, <4>2 DEF Shows
    <3>6. y.lo \in Int /\ y.hi \in Int
      BY <2>1, <3>3 DEF HitOK
    <3>7. HitOK(y)
      BY <3>3, <3>5, <3>6 DEF HitOK
    <3>8. QED
      BY <3>1, <3>2, <3>7
  <2>4. QED
    BY <2>2, <2>3
<1>5. hits' = [h \in Hits |-> hits'[h]]
  BY <1>1
<1>6. \A y : HitOK(y)' <=> HitOK(y)
  BY <1>2 DEF HitOK, Shows
<1>7. Shows(bits, assigned)'
  BY <1>2 DEF CellInv, Shows
<1>8. QED
  BY <1>2, <1>3, <1>4, <1>5, <1>6, <1>7 DEF CellInv

\* Every step keeps the invariant.
LEMMA CellNextKeeps ==
  ASSUME ~TopValue, ~KeepsDecoder, CellInv, [CellNext]_cellVars
  PROVE  CellInv'
<1>1. CASE \E i \in DOMAIN enc : \E v \in InputsOf(enc[i]) : Assign(i, v)
  BY <1>1, AssignKeeps
<1>2. CASE Reset
  <2>1. bits' = 0 /\ assigned' = Zeros(enc) /\ enc' = enc /\ hits' = hits /\ decoder' = decoder
    BY <1>2 DEF Reset
  <2>2. Shows(bits, assigned)'
    BY <2>1, ZeroShows DEF Shows, Zeros, CellInv
  <2>3. \A y : HitOK(y)' <=> HitOK(y)
    BY <2>1 DEF HitOK, Shows
  <2>4. assigned' = [i \in DOMAIN enc |-> assigned'[i]]
    BY <2>1 DEF Zeros
  <2>5. QED
    BY <2>1, <2>2, <2>3, <2>4 DEF CellInv
<1>3. CASE ThroughCellFile
  BY <1>3, FileKeeps
<1>4. CASE \E h \in Hits : SetCellID(h) \/ DecodeHit(h)
  BY <1>4, SetCellIDKeeps, DecodeKeeps
<1>5. CASE UNCHANGED cellVars
  <2>1. enc' = enc /\ bits' = bits /\ assigned' = assigned /\ hits' = hits /\ decoder' = decoder
    BY <1>5 DEF cellVars
  <2>2. \A y : HitOK(y)' <=> HitOK(y)
    BY <2>1 DEF HitOK, Shows
  <2>3. Shows(bits, assigned)'
    BY <2>1 DEF CellInv, Shows
  <2>4. QED
    BY <2>1, <2>2, <2>3 DEF CellInv
<1>6. QED
  BY <1>1, <1>2, <1>3, <1>4, <1>5 DEF CellNext

(***************************************************************************)
(* The fields of a cell id say for the encoder what was assigned last, and *)
(* for a decoder of the same encoding what was assigned when the hit got   *)
(* the id, in memory and after a file, for every encoding of any widths    *)
(* and signs in 64 bits (BitField64, CellIDEncoder, CellIDDecoder). It is  *)
(* so when no unsigned field is given 2^width, which its range check lets  *)
(* through, and no decoder is kept for the next event, which has other     *)
(* hits.                                                                   *)
(***************************************************************************)
THEOREM SpecFieldsSurvive ==
  ASSUME ~TopValue, ~KeepsDecoder
  PROVE  CellSpec => []FieldsSurvive
<1>1. CellInv /\ [CellNext]_cellVars => CellInv'
  BY CellNextKeeps
<1>2. CellInv => FieldsSurvive
  <2> SUFFICES ASSUME CellInv, decoder.hit \in {h \in Hits : hits[h] # NoHit}
               PROVE  \A i \in DOMAIN enc : Value(decoder.bits, enc[i]) = hits[decoder.hit].fields[i]
    BY DEF FieldsSurvive
  <2>1. decoder.bits = WordsAre(hits[decoder.hit]) /\ HitOK(hits[decoder.hit]) /\ hits[decoder.hit] # NoHit
    BY DEF CellInv
  <2>2. QED
    BY <2>1 DEF HitOK, Shows
<1>3. QED
  BY <1>1, <1>2, CellInitially, PTL DEF CellSpec

-----------------------------------------------------------------------------
(* The index round trip. *)

(***************************************************************************)
(* The inductive invariant: both maps are well formed, and the record is   *)
(* the encoding of the map it was written from, which is not empty.        *)
(***************************************************************************)
TripInv ==
  /\ MapOK(runEvtMap)
  /\ index # NoIndex => MapOK(indexed) /\ ~IsEmpty(indexed) /\ index = Encode(indexed)

-----------------------------------------------------------------------------
(***************************************************************************)
(* The keys the clients use are keys of run headers and events.            *)
(***************************************************************************)
LEMMA ClientKeysType == ClientKeys \subseteq MapKeys
<1>1. -1 \in IntRange /\ Runs \subseteq IntRange /\ Evts \subseteq IntRange
  BY HalfAssumption, ClientAssumption DEF IntRange, IntMax
<1>2. \A e \in Evts : e >= -1
  BY HalfAssumption, ClientAssumption DEF IntMax
<1>3. QED
  BY <1>1, <1>2 DEF ClientKeys, MapKeys, RunEvent, RunKey, EvtKey

-----------------------------------------------------------------------------
(***************************************************************************)
(* The invariant holds initially and is kept by every action.              *)
(***************************************************************************)
LEMMA InitTripInv == TripInit => TripInv
<1>1. EmptyMap.pos \in [Keys(EmptyMap) -> Int]
  BY DEF EmptyMap, Keys
<1>2. QED
  BY <1>1, EmptyCounted DEF TripInit, TripInv, MapOK

(***************************************************************************)
(* Every step keeps the invariant: the maps change by add and by whole     *)
(* series of adds, or are cleared.                                         *)
(***************************************************************************)
LEMMA NextTripInv == TripInv /\ [TripNext]_tripVars => TripInv'
<1> SUFFICES ASSUME TripInv, [TripNext]_tripVars PROVE TripInv'
  OBVIOUS
<1>1. ASSUME NEW re \in ClientKeys, NEW p \in Positions, AddRecord(re, p)
      PROVE  TripInv'
  <2>1. re \in MapKeys /\ p \in Int
    BY ClientKeysType, ClientAssumption
  <2>2. runEvtMap' = Add(runEvtMap, re, p) /\ index = NoIndex /\ UNCHANGED <<index, indexed>>
    BY <1>1 DEF AddRecord
  <2>3. Counted(runEvtMap') /\ Keys(runEvtMap') = Keys(runEvtMap) \cup {re}
    BY <2>1, <2>2, AddCounted DEF TripInv, MapOK
  <2>4. FromLong64(ToLong64(re)) = re
    BY <2>1, Long64RoundTrip DEF MapKeys
  <2>5. runEvtMap'.pos \in [Keys(runEvtMap) \cup {re} -> Int]
    BY <2>1, <2>2, <2>4 DEF Add, TripInv, MapOK
  <2>6. QED
    BY <2>2, <2>3, <2>5 DEF TripInv, MapOK
<1>2. CASE CloseWriter
  <2>1. MapOK(EmptyMap)
    BY EmptyCounted DEF MapOK, EmptyMap, Keys
  <2>2. QED
    BY <1>2, <2>1 DEF CloseWriter, TripInv
<1>3. CASE ReadIndex
  <2> DEFINE f == Decode(index)
  <2>1. /\ IsFiniteSet(DOMAIN f) /\ DOMAIN f \subseteq MapKeys
        /\ f \in [DOMAIN f -> Int]
    BY <1>3, DecodeType DEF ReadIndex, TripInv
  <2> HIDE DEF f
  <2>2. runEvtMap' = AddAll(runEvtMap, f) /\ UNCHANGED <<index, indexed>>
    BY <1>3 DEF ReadIndex, f
  <2>3. Counted(runEvtMap') /\ Keys(runEvtMap') = Keys(runEvtMap) \cup DOMAIN f
    BY <2>1, <2>2, AddAllCounted DEF TripInv, MapOK
  <2>4. runEvtMap'.pos \in [Keys(runEvtMap) \cup DOMAIN f -> Int]
    BY <2>1, <2>2 DEF AddAll, TripInv, MapOK
  <2>5. QED
    BY <2>2, <2>3, <2>4 DEF TripInv, MapOK
<1>4. CASE CloseReader
  <2>1. MapOK(EmptyMap)
    BY EmptyCounted DEF MapOK, EmptyMap, Keys
  <2>2. QED
    BY <1>4, <2>1 DEF CloseReader, TripInv
<1>5. CASE UNCHANGED tripVars
  BY <1>5 DEF tripVars, TripInv
<1>6. QED
  BY <1>1, <1>2, <1>3, <1>4, <1>5 DEF TripNext

(***************************************************************************)
(* The inductive invariant: the maps of writer and reader are finite, well *)
(* typed and rightly counted, and the record is the encoding of the map it *)
(* was written from.                                                       *)
(***************************************************************************)
THEOREM TripInvariant == TripSpec => []TripInv
BY InitTripInv, NextTripInv, PTL DEF TripSpec

(***************************************************************************)
(* In every state, whatever was added twice, overwritten or read from a    *)
(* record, the counters of the map are the numbers of its run headers and  *)
(* its events.                                                             *)
(***************************************************************************)
THEOREM SpecCountersMatch == TripSpec => []CountersMatch
<1>1. TripInv => CountersMatch
  BY DEF TripInv, MapOK, Counted, CountersMatch, RunsIn, EventsIn
<1>2. QED
  BY <1>1, TripInvariant, PTL

(***************************************************************************)
(* A record written from a compactible map gives every key its position    *)
(* back, for every width of an int.                                        *)
(***************************************************************************)
THEOREM SpecRoundTrip == TripSpec => []RoundTrip
<1>1. TripInv => RoundTrip
  BY CompactibleRoundTrip DEF TripInv, RoundTrip
<1>2. QED
  BY <1>1, TripInvariant, PTL

-----------------------------------------------------------------------------
(* Families of particles. *)

FamilyRecords == [parents : Seq(Nat), daughters : Seq(Nat),
                  endSet : BOOLEAN, notEnd : BOOLEAN, endpoint : Nat]
Increasing(s) == \A i, j \in DOMAIN s : i < j => s[i] < s[j]
OnceEach(s) == \A i, j \in DOMAIN s : s[i] = s[j] => i = j

(***************************************************************************)
(* What particles know of each other: a parent is a particle of the same   *)
(* collection, its daughters are those that name it as a parent, in their  *)
(* order; an end point that is not set is the origin.                      *)
(***************************************************************************)
Families(f, where) ==
  /\ \A p \in DOMAIN f : f[p] \in FamilyRecords
  /\ \A p \in DOMAIN f : Increasing(f[p].daughters) /\ OnceEach(f[p].parents)
  /\ \A p \in DOMAIN f : ~f[p].endSet => f[p].endpoint = Origin
  /\ \A p \in DOMAIN f : \A q \in Range(f[p].parents) : q \in DOMAIN f /\ where[q] = where[p]
  /\ \A p \in DOMAIN f : \A c \in Range(f[p].daughters) : c \in DOMAIN f
  /\ \A p, c \in DOMAIN f : c \in Range(f[p].daughters) <=> p \in Range(f[c].parents)

(***************************************************************************)
(* The inductive invariant.                                                *)
(***************************************************************************)
FamInv ==
  /\ place \in Placements
  /\ DOMAIN family \subseteq DOMAIN place
  /\ Families(family, place)
  /\ outcome \in {"ok", "throws"}
  /\ outcome = "ok" => seen.after = seen.before

\* One half of the next lemma: what s has at i, t has there as well.
LEMMA IncreasingAgree ==
  ASSUME NEW s \in Seq(Nat), NEW t \in Seq(Nat), Increasing(s), Increasing(t),
         Range(s) = Range(t)
  PROVE  \A i \in 1 .. Len(s) : i \in 1 .. Len(t) /\ s[i] = t[i]
<1> DEFINE T == {i \in 1 .. Len(s) : \A j \in 1 .. i : j \in 1 .. Len(t) /\ s[j] = t[j]}
<1>1. DOMAIN s = 1 .. Len(s) /\ DOMAIN t = 1 .. Len(t) /\ Len(s) \in Nat /\ Len(t) \in Nat
  OBVIOUS
<1>2. (\A i \in 1 .. Len(s) : s[i] \in Nat) /\ (\A i \in 1 .. Len(t) : t[i] \in Nat)
  OBVIOUS
<1>3. ASSUME NEW i \in 1 .. Len(s), i = 1 \/ i - 1 \in T PROVE i \in T
  <2>1. ASSUME NEW j \in 1 .. Len(s), j < i PROVE j \in 1 .. Len(t) /\ s[j] = t[j]
    <3>1. i - 1 \in T /\ j \in 1 .. (i - 1)
      BY <1>3, <2>1
    <3>2. QED
      BY <3>1
  <2>2. PICK k \in 1 .. Len(t) : t[k] = s[i]
    BY <1>1 DEF Range
  <2>3. ~(k < i)
    <3>1. SUFFICES ASSUME k < i PROVE FALSE
      OBVIOUS
    <3>2. k \in 1 .. Len(s)
      BY <1>1, <3>1
    <3>3. s[k] < s[i]
      BY <1>1, <3>1, <3>2 DEF Increasing
    <3>4. QED
      BY <1>2, <2>1, <2>2, <3>1, <3>2, <3>3
  <2>4. i \in 1 .. Len(t)
    BY <1>1, <2>3
  <2>5. ~(i < k)
    <3>1. SUFFICES ASSUME i < k PROVE FALSE
      OBVIOUS
    <3>2. t[i] < t[k]
      BY <1>1, <2>4, <3>1 DEF Increasing
    <3>3. PICK m \in 1 .. Len(s) : s[m] = t[i]
      BY <1>1, <2>4 DEF Range
    <3>4. s[m] < s[i] /\ s[m] \in Nat /\ s[i] \in Nat
      BY <1>2, <2>2, <3>2, <3>3
    <3>5. m < i
      <4>1. SUFFICES ASSUME ~(m < i) PROVE FALSE
        OBVIOUS
      <4>2. m = i \/ i < m
        BY <4>1
      <4>3. m = i \/ s[i] < s[m]
        BY <1>1, <4>2 DEF Increasing
      <4>4. QED
        BY <3>4, <4>3
    <3>6. m \in 1 .. Len(t) /\ t[m] = t[i]
      BY <2>1, <3>3, <3>5
    <3>7. t[m] < t[i]
      BY <1>1, <2>4, <3>5, <3>6 DEF Increasing
    <3>8. QED
      BY <1>2, <3>6, <3>7
  <2>6. s[i] = t[i]
    <3>1. i = k
      BY <1>1, <2>3, <2>5
    <3>2. QED
      BY <2>2, <3>1
  <2>7. ASSUME NEW j \in 1 .. i PROVE j \in 1 .. Len(t) /\ s[j] = t[j]
    <3>1. j = i \/ (j < i /\ j \in 1 .. Len(s))
      BY <1>1
    <3>2. QED
      BY <2>1, <2>4, <2>6, <3>1
  <2>8. QED
    BY <2>7
<1> HIDE DEF T
<1>4. 1 .. Len(s) \subseteq T
  BY <1>1, <1>3, UpToInduction
<1>5. QED
  <2> SUFFICES ASSUME NEW i \in 1 .. Len(s) PROVE i \in 1 .. Len(t) /\ s[i] = t[i]
    OBVIOUS
  <2>1. i \in T /\ i \in 1 .. i
    BY <1>1, <1>4
  <2>2. QED
    BY <2>1 DEF T

\* Increasing sequences of the same numbers are the same.
LEMMA SameIncreasing ==
  ASSUME NEW s \in Seq(Nat), NEW t \in Seq(Nat), Increasing(s), Increasing(t),
         Range(s) = Range(t)
  PROVE  s = t
<1>1. \A i \in 1 .. Len(s) : i \in 1 .. Len(t) /\ s[i] = t[i]
  BY IncreasingAgree
<1>2. \A i \in 1 .. Len(t) : i \in 1 .. Len(s)
  BY IncreasingAgree
<1>3. Len(s) \in Nat /\ Len(t) \in Nat
  OBVIOUS
<1>4. Len(s) = Len(t)
  <2>1. Len(s) = 0 \/ Len(s) \in 1 .. Len(s)
    BY <1>3
  <2>2. Len(t) = 0 \/ Len(t) \in 1 .. Len(t)
    BY <1>3
  <2>3. Len(s) <= Len(t)
    BY <1>1, <1>3, <2>1
  <2>4. Len(t) <= Len(s)
    BY <1>2, <1>3, <2>2
  <2>5. QED
    BY <1>3, <2>3, <2>4
<1>5. QED
  BY <1>1, <1>4

\* A list that has nothing twice has it once or not at all.
LEMMA TimesIs ==
  ASSUME NEW s \in Seq(Nat), OnceEach(s), NEW x
  PROVE  /\ x \in Range(s) => Times(s, x) = 1
         /\ x \notin Range(s) => Times(s, x) = 0
<1> DEFINE S == {i \in DOMAIN s : s[i] = x}
<1>1. Times(s, x) = Cardinality(S)
  BY DEF Times
<1>2. CASE x \in Range(s)
  <2>1. PICK i \in DOMAIN s : s[i] = x
    BY <1>2 DEF Range
  <2>2. S = {i}
    BY <2>1 DEF OnceEach
  <2>3. QED
    BY <1>1, <1>2, <2>2, FS_Singleton
<1>3. CASE x \notin Range(s)
  <2>1. S = {}
    BY <1>3 DEF Range
  <2>2. QED
    BY <1>1, <1>3, <2>1, FS_EmptySet
<1>4. QED
  BY <1>2, <1>3

\* A list goes on in its order.
LEMMA IncreasingAppend ==
  ASSUME NEW s \in Seq(Nat), NEW x \in Nat, Increasing(s), \A y \in Range(s) : y < x
  PROVE  Increasing(Append(s, x))
<1> DEFINE t == Append(s, x)
<1>1. Len(t) = Len(s) + 1 /\ DOMAIN t = 1 .. Len(s) + 1 /\ DOMAIN s = 1 .. Len(s) /\ Len(s) \in Nat
  OBVIOUS
<1>2. \A i \in 1 .. Len(s) : t[i] = s[i] /\ s[i] \in Range(s)
  BY <1>1 DEF Range
<1>3. t[Len(s) + 1] = x
  OBVIOUS
<1> HIDE DEF t
<1>4. ASSUME NEW i \in DOMAIN t, NEW j \in DOMAIN t, i < j PROVE t[i] < t[j]
  <2>1. i \in 1 .. Len(s) /\ (j \in 1 .. Len(s) \/ j = Len(s) + 1)
    BY <1>1, <1>4
  <2>2. CASE j \in 1 .. Len(s)
    BY <1>1, <1>2, <1>4, <2>1, <2>2 DEF Increasing
  <2>3. CASE j = Len(s) + 1
    BY <1>2, <1>3, <2>1, <2>3
  <2>4. QED
    BY <2>1, <2>2, <2>3
<1>5. QED
  BY <1>4 DEF Increasing, t

\* One more element, wherever.
LEMMA RangeAppend ==
  ASSUME NEW s \in Seq(Nat), NEW x \in Nat
  PROVE  /\ Append(s, x) \in Seq(Nat)
         /\ Range(Append(s, x)) = Range(s) \cup {x}
         /\ OnceEach(s) /\ x \notin Range(s) => OnceEach(Append(s, x))
<1> DEFINE t == Append(s, x)
<1>1. t \in Seq(Nat) /\ DOMAIN t = 1 .. Len(s) + 1 /\ DOMAIN s = 1 .. Len(s) /\ Len(s) \in Nat
  OBVIOUS
<1>2. \A i \in 1 .. Len(s) : t[i] = s[i] /\ s[i] \in Range(s)
  BY <1>1 DEF Range
<1>3. t[Len(s) + 1] = x
  OBVIOUS
<1> HIDE DEF t
<1>4. \A i \in 1 .. Len(s) + 1 : i \in 1 .. Len(s) \/ i = Len(s) + 1
  BY <1>1
<1>5. Len(s) + 1 \in 1 .. Len(s) + 1 /\ \A i \in 1 .. Len(s) : i \in 1 .. Len(s) + 1
  BY <1>1
<1>6. Range(t) = Range(s) \cup {x}
  <2>1. Range(t) \subseteq Range(s) \cup {x}
    BY <1>1, <1>2, <1>3, <1>4 DEF Range
  <2>2. x \in Range(t)
    BY <1>1, <1>3, <1>5 DEF Range
  <2>3. \A y \in Range(s) : \E i \in 1 .. Len(s) : s[i] = y
    BY <1>1 DEF Range
  <2>4. Range(s) \subseteq Range(t)
    BY <1>1, <1>2, <1>5, <2>3 DEF Range
  <2>5. QED
    BY <2>1, <2>2, <2>4
<1>7. ASSUME OnceEach(s), x \notin Range(s) PROVE OnceEach(t)
  <2>1. SUFFICES ASSUME NEW i \in DOMAIN t, NEW j \in DOMAIN t, t[i] = t[j] PROVE i = j
    BY DEF OnceEach
  <2>2. (i \in 1 .. Len(s) \/ i = Len(s) + 1) /\ (j \in 1 .. Len(s) \/ j = Len(s) + 1)
    BY <1>1, <1>4, <2>1
  <2>3. CASE i \in 1 .. Len(s) /\ j \in 1 .. Len(s)
    BY <1>1, <1>2, <1>7, <2>1, <2>3 DEF OnceEach
  <2>4. QED
    BY <1>2, <1>3, <1>7, <2>1, <2>2, <2>3
<1>8. QED
  BY <1>1, <1>6, <1>7 DEF t

\* What the walk over a collection appends for one particle: its number if
\* that has p in its list,
LEMMA CopiesOne ==
  ASSUME NEW col, NEW i \in Nat, NEW p, NEW lists, i \in col, p \in Range(lists[i]),
         lists[i] \in Seq(Nat), OnceEach(lists[i])
  PROVE  Copies(col, i, p, lists) = << i >>
<1>1. Times(lists[i], p) = 1
  BY TimesIs
<1>2. Copies(col, i, p, lists) = [n \in 1 .. 1 |-> i]
  BY <1>1 DEF Copies
<1>3. QED
  BY <1>2

\* nothing if it has not.
LEMMA CopiesNone ==
  ASSUME NEW col, NEW i \in Nat, NEW p, NEW lists,
         i \in col => lists[i] \in Seq(Nat) /\ OnceEach(lists[i]) /\ p \notin Range(lists[i])
  PROVE  Copies(col, i, p, lists) = << >>
<1> DEFINE m == IF i \in col THEN Times(lists[i], p) ELSE 0
<1>1. m = 0
  BY TimesIs
<1>2. Copies(col, i, p, lists) = [n \in 1 .. m |-> i]
  BY DEF Copies
<1> HIDE DEF m
<1>3. 1 .. m = {}
  BY <1>1
<1>4. Copies(col, i, p, lists) = [n \in {} |-> i]
  BY <1>2, <1>3
<1>5. QED
  BY <1>4

\* Either way a list of numbers.
LEMMA CopiesType ==
  ASSUME NEW col, NEW i \in Nat, NEW p, NEW lists,
         i \in col => lists[i] \in Seq(Nat) /\ OnceEach(lists[i])
  PROVE  Copies(col, i, p, lists) \in Seq(Nat)
<1>1. CASE i \in col /\ p \in Range(lists[i])
  <2>1. Copies(col, i, p, lists) = << i >>
    BY <1>1, CopiesOne
  <2>2. << i >> \in Seq(Nat)
    OBVIOUS
  <2>3. QED
    BY <2>1, <2>2
<1>2. CASE ~(i \in col /\ p \in Range(lists[i]))
  <2>1. Copies(col, i, p, lists) = << >>
    BY <1>2, CopiesNone
  <2>2. << >> \in Seq(Nat)
    OBVIOUS
  <2>3. QED
    BY <2>1, <2>2
<1>3. QED
  BY <1>1, <1>2

(***************************************************************************)
(* The lists that the walk over a collection leaves behind it.             *)
(***************************************************************************)
Walks(h, col, p, lists, n) ==
  /\ h \in [0 .. n -> Seq(Nat)]
  /\ h[0] = << >>
  /\ \A i \in 1 .. n : h[i] = h[i - 1] \o Copies(col, i, p, lists)

\* They exist.
LEMMA WalksExist ==
  ASSUME NEW col, NEW p, NEW lists, NEW n \in Nat,
         \A i \in col : lists[i] \in Seq(Nat) /\ OnceEach(lists[i])
  PROVE  \E h : Walks(h, col, p, lists, n)
<1> DEFINE D == 0 .. n
           rank    == [i \in D |-> i]
           nxt     == [i \in D |-> IF i = 0 THEN 0 ELSE i - 1]
           empties == [i \in D |-> << >>]
           step    == [x \in D \X Seq(Nat) |-> x[2] \o Copies(col, x[1], p, lists)]
<1>1. rank \in [D -> Nat] /\ nxt \in [D -> D] /\ empties \in [D -> Seq(Nat)]
  OBVIOUS
<1>2. ASSUME NEW i \in D PROVE Copies(col, i, p, lists) \in Seq(Nat)
  <2>1. i \in Nat
    OBVIOUS
  <2>2. QED
    BY <2>1, CopiesType
<1>3. step \in [D \X Seq(Nat) -> Seq(Nat)]
  BY <1>2
<1>4. \A i \in D \ {0} : rank[nxt[i]] < rank[i]
  OBVIOUS
<1>5. \A i \in D : empties[i] = << >> /\ (i # 0 => nxt[i] = i - 1)
  OBVIOUS
<1>6. \A i \in D, s \in Seq(Nat) : step[<<i, s>>] = s \o Copies(col, i, p, lists)
  OBVIOUS
<1> HIDE DEF rank, nxt, empties, step
<1>7. PICK h : Solves(h, D, Seq(Nat), {0}, empties, nxt, step)
  BY <1>1, <1>3, <1>4, RecursionExists
<1>8. h \in [D -> Seq(Nat)]
  BY <1>7 DEF Solves
<1>9. h[0] = << >>
  <2>1. 0 \in D /\ 0 \in {0}
    OBVIOUS
  <2>2. h[0] = empties[0]
    BY <1>7, <2>1 DEF Solves
  <2>3. QED
    BY <1>5, <2>1, <2>2
<1>10. ASSUME NEW i \in 1 .. n PROVE h[i] = h[i - 1] \o Copies(col, i, p, lists)
  <2>1. i \in D /\ i \notin {0} /\ i # 0 /\ i - 1 \in D
    OBVIOUS
  <2>2. h[i] = step[<<i, h[nxt[i]]>>]
    BY <1>7, <2>1 DEF Solves
  <2>3. nxt[i] = i - 1 /\ h[i - 1] \in Seq(Nat)
    BY <1>5, <1>8, <2>1
  <2>4. QED
    BY <1>6, <2>1, <2>2, <2>3
<1>11. QED
  BY <1>8, <1>9, <1>10 DEF Walks

\* Having is the last of them.
LEMMA HavingWalks ==
  ASSUME NEW col, NEW p, NEW lists, Len(place) \in Nat,
         \A i \in col : lists[i] \in Seq(Nat) /\ OnceEach(lists[i])
  PROVE  \E h : Walks(h, col, p, lists, Len(place)) /\ Having(col, p, lists) = h[Len(place)]
<1> DEFINE n == Len(place)
           A == CHOOSE a : a = [i \in 0 .. n |->
                  IF i = 0 THEN << >> ELSE a[i - 1] \o Copies(col, i, p, lists)]
<1>1. Having(col, p, lists) = A[n]
  BY DEF Having
<1>2. PICK h : Walks(h, col, p, lists, n)
  BY WalksExist
<1>3. h = [i \in 0 .. n |-> IF i = 0 THEN << >> ELSE h[i - 1] \o Copies(col, i, p, lists)]
  <2> HIDE DEF n
  <2>1. \A i \in 0 .. n : i = 0 \/ i \in 1 .. n
    OBVIOUS
  <2>2. \A i \in 0 .. n : h[i] = IF i = 0 THEN << >> ELSE h[i - 1] \o Copies(col, i, p, lists)
    BY <1>2, <2>1 DEF Walks
  <2>3. QED
    BY <1>2, <2>2 DEF Walks
<1>4. A = [i \in 0 .. n |-> IF i = 0 THEN << >> ELSE A[i - 1] \o Copies(col, i, p, lists)]
  BY <1>3
<1> HIDE DEF A
<1>5. n \in Nat
  OBVIOUS
<1> HIDE DEF n
<1>6. \A i \in 0 .. n : A[i] = IF i = 0 THEN << >> ELSE A[i - 1] \o Copies(col, i, p, lists)
  BY <1>4
<1>7. A[0] = << >>
  BY <1>5, <1>6
<1>8. \A i \in 1 .. n : A[i] = A[i - 1] \o Copies(col, i, p, lists)
  <2>1. \A i \in 1 .. n : i \in 0 .. n /\ i # 0
    BY <1>5
  <2>2. QED
    BY <1>6, <2>1
<1> DEFINE T == {i \in 1 .. n : A[i] \in Seq(Nat)}
<1>9. ASSUME NEW i \in 1 .. n, i = 1 \/ i - 1 \in T PROVE i \in T
  <2>1. Copies(col, i, p, lists) \in Seq(Nat)
    <3>1. i \in Nat
      BY <1>5
    <3>2. QED
      BY <3>1, CopiesType
  <2>2. A[i - 1] \in Seq(Nat)
    <3>1. CASE i = 1
      <4>1. i - 1 = 0 /\ << >> \in Seq(Nat)
        BY <3>1
      <4>2. QED
        BY <1>7, <4>1
    <3>2. CASE i # 1
      BY <1>9, <3>2
    <3>3. QED
      BY <3>1, <3>2
  <2>3. A[i] \in Seq(Nat)
    <3>1. A[i - 1] \o Copies(col, i, p, lists) \in Seq(Nat)
      BY <2>1, <2>2
    <3>2. A[i] = A[i - 1] \o Copies(col, i, p, lists)
      BY <1>8
    <3>3. QED
      BY <3>1, <3>2
  <2>4. QED
    BY <2>3
<1>10. 1 .. n \subseteq T
  <2> HIDE DEF T
  <2>1. QED
    BY <1>5, <1>9, UpToInduction
<1>11. A \in [0 .. n -> Seq(Nat)]
  <2>1. ASSUME NEW i \in 0 .. n PROVE A[i] \in Seq(Nat)
    <3>1. CASE i = 0
      <4>1. << >> \in Seq(Nat)
        OBVIOUS
      <4>2. QED
        BY <1>7, <3>1, <4>1
    <3>2. CASE i # 0
      <4>1. i \in 1 .. n
        BY <1>5, <3>2
      <4>2. QED
        BY <1>10, <4>1
    <3>3. QED
      BY <3>1, <3>2
  <2>2. QED
    BY <1>4, <2>1
<1>12. Walks(A, col, p, lists, n)
  BY <1>7, <1>8, <1>11 DEF Walks
<1>13. QED
  BY <1>1, <1>12 DEF n

(***************************************************************************)
(* Having gives, in order, the members of a collection that have p in      *)
(* their list.                                                             *)
(***************************************************************************)
LEMMA HavingIs ==
  ASSUME NEW col, NEW p, NEW lists, Len(place) \in Nat, col \subseteq 1 .. Len(place),
         \A i \in col : lists[i] \in Seq(Nat) /\ OnceEach(lists[i])
  PROVE  /\ Having(col, p, lists) \in Seq(Nat)
         /\ Increasing(Having(col, p, lists))
         /\ \A c : c \in Range(Having(col, p, lists)) <=> c \in col /\ p \in Range(lists[c])
<1> DEFINE n == Len(place)
<1>1. PICK h : Walks(h, col, p, lists, n) /\ Having(col, p, lists) = h[n]
  BY HavingWalks
<1>2. n \in Nat /\ col \subseteq 1 .. n
  OBVIOUS
<1> HIDE DEF n
<1> DEFINE Good(i) == /\ Increasing(h[i])
                      /\ \A c : c \in Range(h[i]) <=> c \in col /\ c <= i /\ p \in Range(lists[c])
           T == {i \in 1 .. n : Good(i)}
<1>3. \A i \in 0 .. n : h[i] \in Seq(Nat)
  BY <1>1 DEF Walks
<1>4. Good(0)
  <2>1. h[0] = << >>
    BY <1>1 DEF Walks
  <2>2. \A c \in col : ~(c <= 0)
    BY <1>2
  <2>3. Range(h[0]) = {} /\ Increasing(h[0])
    BY <2>1 DEF Range, Increasing
  <2>4. QED
    BY <2>2, <2>3
<1>5. ASSUME NEW i \in 1 .. n, i = 1 \/ i - 1 \in T PROVE i \in T
  <2>1. i \in Nat /\ i - 1 \in 0 .. n /\ i \in 0 .. n
    BY <1>2
  <2>2. Good(i - 1)
    BY <1>4, <1>5
  <2>3. h[i] = h[i - 1] \o Copies(col, i, p, lists)
    BY <1>1 DEF Walks
  <2>4. h[i - 1] \in Seq(Nat)
    BY <1>3, <2>1
  <2>5. IF i \in col /\ p \in Range(lists[i]) THEN h[i] = Append(h[i - 1], i) ELSE h[i] = h[i - 1]
    <3>1. CASE i \in col /\ p \in Range(lists[i])
      <4>1. Copies(col, i, p, lists) = << i >>
        BY <2>1, <3>1, CopiesOne
      <4>2. h[i - 1] \o << i >> = Append(h[i - 1], i)
        BY <2>1, <2>4
      <4>3. QED
        BY <2>3, <3>1, <4>1, <4>2
    <3>2. CASE ~(i \in col /\ p \in Range(lists[i]))
      <4>1. Copies(col, i, p, lists) = << >>
        BY <2>1, <3>2, CopiesNone
      <4>2. h[i - 1] \o << >> = h[i - 1]
        BY <2>4
      <4>3. QED
        BY <2>3, <3>2, <4>1, <4>2
    <3>3. QED
      BY <3>1, <3>2
  <2>6. \A c \in col : c <= i <=> c <= i - 1 \/ c = i
    BY <1>2, <2>1
  <2>7. CASE i \in col /\ p \in Range(lists[i])
    <3>1. \A y \in Range(h[i - 1]) : y < i
      <4>1. \A y \in col : y <= i - 1 => y < i
        BY <1>2, <2>1
      <4>2. QED
        BY <2>2, <4>1
    <3>2. Increasing(h[i])
      BY <2>1, <2>2, <2>4, <2>5, <2>7, <3>1, IncreasingAppend
    <3>3. Range(h[i]) = Range(h[i - 1]) \cup {i}
      BY <2>1, <2>4, <2>5, <2>7, RangeAppend
    <3>4. Good(i)
      BY <2>2, <2>6, <2>7, <3>2, <3>3
    <3>5. QED
      BY <3>4
  <2>8. CASE ~(i \in col /\ p \in Range(lists[i]))
    <3>1. h[i] = h[i - 1]
      BY <2>5, <2>8
    <3>2. Good(i)
      BY <2>2, <2>6, <2>8, <3>1
    <3>3. QED
      BY <3>2
  <2>9. QED
    BY <2>7, <2>8
<1>6. 1 .. n \subseteq T
  <2> HIDE DEF T
  <2>1. QED
    BY <1>2, <1>5, UpToInduction
<1>7. Good(n)
  BY <1>2, <1>4, <1>6
<1>8. \A c \in col : c <= n
  BY <1>2
<1>9. n \in 0 .. n
  BY <1>2
<1>10. QED
  BY <1>1, <1>3, <1>7, <1>8, <1>9

(***************************************************************************)
(* A particle with other daughters, and with both lists replaced.          *)
(***************************************************************************)
WithDaughters(r, d) == [r EXCEPT !.daughters = d]
WithBoth(r, a, d) == [r EXCEPT !.parents = a, !.daughters = d]

\* The rest of it stays.
LEMMA DaughtersOnly ==
  ASSUME NEW r \in FamilyRecords, NEW d \in Seq(Nat)
  PROVE  /\ WithDaughters(r, d) \in FamilyRecords
         /\ WithDaughters(r, d).daughters = d
         /\ WithDaughters(r, d).parents = r.parents
  BY DEF WithDaughters, FamilyRecords

\* With its own daughters it is the same,
LEMMA DaughtersSame ==
  ASSUME NEW r \in FamilyRecords
  PROVE  WithDaughters(r, r.daughters) = r
  BY DEF WithDaughters, FamilyRecords

\* and a second replacement hides the first.
LEMMA DaughtersAgain ==
  ASSUME NEW r \in FamilyRecords, NEW d \in Seq(Nat), NEW e \in Seq(Nat)
  PROVE  WithDaughters(WithDaughters(r, d), e) = WithDaughters(r, e)
  BY DEF WithDaughters, FamilyRecords

\* Own parents are no change.
LEMMA BothSame ==
  ASSUME NEW r \in FamilyRecords, NEW d \in Seq(Nat)
  PROVE  WithBoth(r, r.parents, d) = WithDaughters(r, d)
  BY DEF WithDaughters, WithBoth, FamilyRecords

\* A particle that has just been made.
LEMMA NewIsRecord == NewParticle \in FamilyRecords /\ NewParticle.daughters = << >>
  <1>1. << >> \in Seq(Nat) /\ Origin \in Nat
    BY DEF Origin
  <1>2. QED
    BY <1>1 DEF NewParticle, FamilyRecords

(***************************************************************************)
(* The family f as a reader has it when the collections in done have been  *)
(* restored, with NoParticle.                                              *)
(***************************************************************************)
DaughtersBy(f, where, done, p) == IF where[p] \in done THEN f[p].daughters ELSE << >>
Partly(f, where, done) ==
  [p \in DOMAIN f \cup {NoParticle} |->
     IF p = NoParticle THEN NewParticle ELSE WithDaughters(f[p], DaughtersBy(f, where, done, p))]

\* What it says of each particle.
LEMMA PartlyIs ==
  ASSUME NEW f, NEW where, NEW done, NoParticle \notin DOMAIN f,
         \A p \in DOMAIN f : f[p] \in FamilyRecords
  PROVE  /\ DOMAIN Partly(f, where, done) = DOMAIN f \cup {NoParticle}
         /\ Partly(f, where, done)[NoParticle] = NewParticle
         /\ \A p \in DOMAIN f : Partly(f, where, done)[p] = WithDaughters(f[p], DaughtersBy(f, where, done, p))
         /\ \A p \in DOMAIN f : DaughtersBy(f, where, done, p) \in Seq(Nat)
<1>1. \A p \in DOMAIN f : f[p].daughters \in Seq(Nat)
  BY DEF FamilyRecords
<1>2. << >> \in Seq(Nat)
  OBVIOUS
<1>3. \A p \in DOMAIN f : DaughtersBy(f, where, done, p) \in Seq(Nat)
  BY <1>1, <1>2 DEF DaughtersBy
<1>4. QED
  BY <1>3 DEF Partly

\* RestoreOne, particle by particle.
LEMMA RestoreOneIs ==
  ASSUME NEW g, NEW col
  PROVE  \E parents, daughters :
           /\ parents = [p \in DOMAIN g |-> g[p].parents]
           /\ daughters = [p \in DOMAIN g |-> g[p].daughters]
           /\ DOMAIN RestoreOne(g, col) = DOMAIN g
           /\ RestoreOne(g, col) = [p \in DOMAIN g |-> RestoreOne(g, col)[p]]
           /\ \A p \in DOMAIN g : RestoreOne(g, col)[p] =
                WithBoth(g[p],
                  IF ~AnyIn(col, parents) /\ AnyIn(col, daughters)
                  THEN g[p].parents \o Having(col, p, daughters) ELSE g[p].parents,
                  IF AnyIn(col, parents) /\ ~AnyIn(col, daughters)
                  THEN g[p].daughters \o Having(col, p, parents) ELSE g[p].daughters)
<1> DEFINE parents == [p \in DOMAIN g |-> g[p].parents]
           daughters == [p \in DOMAIN g |-> g[p].daughters]
           R == [p \in DOMAIN g |->
                  WithBoth(g[p],
                    IF ~AnyIn(col, parents) /\ AnyIn(col, daughters)
                    THEN g[p].parents \o Having(col, p, daughters) ELSE g[p].parents,
                    IF AnyIn(col, parents) /\ ~AnyIn(col, daughters)
                    THEN g[p].daughters \o Having(col, p, parents) ELSE g[p].daughters)]
<1>1. RestoreOne(g, col) = R
  BY DEF RestoreOne, WithBoth
<1>2. /\ DOMAIN R = DOMAIN g /\ R = [p \in DOMAIN g |-> R[p]]
      /\ \A p \in DOMAIN g : R[p] =
           WithBoth(g[p],
             IF ~AnyIn(col, parents) /\ AnyIn(col, daughters)
             THEN g[p].parents \o Having(col, p, daughters) ELSE g[p].parents,
             IF AnyIn(col, parents) /\ ~AnyIn(col, daughters)
             THEN g[p].daughters \o Having(col, p, parents) ELSE g[p].daughters)
  <2> HIDE DEF parents, daughters
  <2>1. QED
    OBVIOUS
<1> HIDE DEF R
<1>3. QED
  BY <1>1, <1>2

(***************************************************************************)
(* Who is a daughter of a particle, seen from a whole collection.          *)
(***************************************************************************)
LEMMA DaughtersAre ==
  ASSUME NEW f, NEW where, NEW name, Families(f, where), NEW p \in DOMAIN f, NEW c
  PROVE  c \in Range(f[p].daughters)
           <=> c \in DOMAIN f /\ where[c] = where[p] /\ p \in Range(f[c].parents)
<1>1. c \in Range(f[p].daughters) => c \in DOMAIN f
  BY DEF Families
<1>2. c \in DOMAIN f => (c \in Range(f[p].daughters) <=> p \in Range(f[c].parents))
  BY DEF Families
<1>3. c \in DOMAIN f /\ p \in Range(f[c].parents) => where[p] = where[c]
  BY DEF Families
<1>4. QED
  BY <1>1, <1>2, <1>3

\* A list that has something is not empty, and the other way round.
LEMMA NotEmptyHas ==
  ASSUME NEW s \in Seq(Nat)
  PROVE  s # << >> <=> \E x : x \in Range(s)
<1>1. ASSUME s # << >> PROVE \E x : x \in Range(s)
  <2>1. 1 \in DOMAIN s
    BY <1>1
  <2>2. s[1] \in Range(s)
    BY <2>1 DEF Range
  <2>3. QED
    BY <2>2
<1>2. ASSUME s = << >> PROVE Range(s) = {}
  <2>1. DOMAIN s = {}
    BY <1>2
  <2>2. QED
    BY <2>1 DEF Range
<1>3. QED
  BY <1>1, <1>2

(***************************************************************************)
(* One collection more is restored.                                        *)
(***************************************************************************)
LEMMA PartlyRestored ==
  ASSUME NEW f, NEW done, NEW name, Families(f, place), Len(place) \in Nat,
         DOMAIN f \subseteq 1 .. Len(place)
  PROVE  RestoreOne(Partly(f, place, done), {p \in DOMAIN f : place[p] = name})
           = Partly(f, place, done \cup {name})
<1> DEFINE g == Partly(f, place, done)
           more == Partly(f, place, done \cup {name})
           col == {p \in DOMAIN f : place[p] = name}
           R == RestoreOne(g, col)
<1>1. NoParticle \notin DOMAIN f
  BY DEF NoParticle
<1>2. \A p \in DOMAIN f : f[p] \in FamilyRecords /\ f[p].parents \in Seq(Nat) /\ f[p].daughters \in Seq(Nat)
  BY DEF Families, FamilyRecords
<1>3. /\ DOMAIN g = DOMAIN f \cup {NoParticle} /\ g[NoParticle] = NewParticle
      /\ \A p \in DOMAIN f : g[p] = WithDaughters(f[p], DaughtersBy(f, place, done, p))
      /\ \A p \in DOMAIN f : DaughtersBy(f, place, done, p) \in Seq(Nat)
  BY <1>1, <1>2, PartlyIs
<1>4. /\ DOMAIN more = DOMAIN f \cup {NoParticle} /\ more[NoParticle] = NewParticle
      /\ \A p \in DOMAIN f : more[p] = WithDaughters(f[p], DaughtersBy(f, place, done \cup {name}, p))
      /\ \A p \in DOMAIN f : DaughtersBy(f, place, done \cup {name}, p) \in Seq(Nat)
  BY <1>1, <1>2, PartlyIs
<1>5. more = [p \in DOMAIN f \cup {NoParticle} |-> more[p]]
  BY DEF Partly
<1>6. PICK parents, daughters :
        /\ parents = [p \in DOMAIN g |-> g[p].parents]
        /\ daughters = [p \in DOMAIN g |-> g[p].daughters]
        /\ DOMAIN R = DOMAIN g
        /\ R = [p \in DOMAIN g |-> R[p]]
        /\ \A p \in DOMAIN g : R[p] =
             WithBoth(g[p],
               IF ~AnyIn(col, parents) /\ AnyIn(col, daughters)
               THEN g[p].parents \o Having(col, p, daughters) ELSE g[p].parents,
               IF AnyIn(col, parents) /\ ~AnyIn(col, daughters)
               THEN g[p].daughters \o Having(col, p, parents) ELSE g[p].daughters)
  BY RestoreOneIs
<1> HIDE DEF g, more, R
<1>7. col \subseteq DOMAIN f /\ \A p \in DOMAIN f : p \in col <=> place[p] = name
  OBVIOUS
<1> HIDE DEF col
<1>8. \A p \in DOMAIN g : g[p] \in FamilyRecords
  <2>1. \A p \in DOMAIN f : g[p] \in FamilyRecords
    BY <1>2, <1>3, DaughtersOnly
  <2>2. QED
    BY <1>3, <2>1, NewIsRecord
<1>9. \A p \in DOMAIN f : parents[p] = f[p].parents /\ daughters[p] = DaughtersBy(f, place, done, p)
  <2>1. \A p \in DOMAIN f : g[p].parents = f[p].parents /\ g[p].daughters = DaughtersBy(f, place, done, p)
    BY <1>2, <1>3, DaughtersOnly
  <2>2. QED
    BY <1>3, <1>6, <2>1
<1>10. ASSUME NEW p \in col, f[p].daughters # << >>
       PROVE  AnyIn(col, parents)
  <2>1. PICK c : c \in Range(f[p].daughters)
    BY <1>2, <1>7, <1>10, NotEmptyHas
  <2>2. c \in DOMAIN f /\ place[c] = place[p] /\ p \in Range(f[c].parents)
    BY <1>7, <2>1, DaughtersAre
  <2>3. c \in col /\ parents[c] # << >>
    BY <1>2, <1>7, <1>9, <2>2, NotEmptyHas
  <2>4. QED
    BY <2>3 DEF AnyIn
<1>11. ~(~AnyIn(col, parents) /\ AnyIn(col, daughters))
  <2>1. SUFFICES ASSUME NEW p \in col, daughters[p] # << >> PROVE AnyIn(col, parents)
    BY DEF AnyIn
  <2>2. f[p].daughters # << >>
    BY <1>7, <1>9, <2>1 DEF DaughtersBy
  <2>3. QED
    BY <1>10, <2>2
<1> DEFINE Given(p) == IF AnyIn(col, parents) /\ ~AnyIn(col, daughters)
                       THEN g[p].daughters \o Having(col, p, parents) ELSE g[p].daughters
<1>12. \A p \in DOMAIN g : R[p] = WithBoth(g[p], g[p].parents, Given(p))
  BY <1>6, <1>11
<1>13. /\ \A p : Having(col, p, parents) \in Seq(Nat)
       /\ \A p : Increasing(Having(col, p, parents))
       /\ \A p, c : c \in Range(Having(col, p, parents)) <=> c \in col /\ p \in Range(parents[c])
  <2>1. \A i \in col : parents[i] \in Seq(Nat) /\ OnceEach(parents[i])
    BY <1>2, <1>7, <1>9 DEF Families
  <2>2. col \subseteq 1 .. Len(place)
    BY <1>7
  <2>3. QED
    BY <2>1, <2>2, HavingIs
<1>14. \A p \in DOMAIN g : Given(p) \in Seq(Nat)
  <2>1. \A p \in DOMAIN g : g[p].daughters \in Seq(Nat)
    BY <1>8 DEF FamilyRecords
  <2>2. QED
    BY <1>13, <2>1
<1>15. \A p \in DOMAIN g : R[p] = WithDaughters(g[p], Given(p))
  BY <1>8, <1>12, <1>14, BothSame
<1>16. ASSUME NEW p \in DOMAIN g, p \notin col PROVE Given(p) = g[p].daughters
  <2>1. ASSUME NEW c \in Range(Having(col, p, parents)) PROVE FALSE
    <3>1. c \in col /\ p \in Range(f[c].parents)
      BY <1>7, <1>9, <1>13
    <3>2. p \in DOMAIN f /\ place[p] = place[c]
      BY <1>7, <3>1 DEF Families
    <3>3. QED
      BY <1>7, <1>16, <3>1, <3>2
  <2>2. Having(col, p, parents) = << >>
    BY <1>13, <2>1, NotEmptyHas
  <2>3. g[p].daughters \in Seq(Nat)
    BY <1>8 DEF FamilyRecords
  <2>4. g[p].daughters \o << >> = g[p].daughters
    BY <2>3
  <2>5. QED
    BY <2>2, <2>4
<1>17. ASSUME NEW p \in col PROVE Given(p) = f[p].daughters
  <2>1. p \in DOMAIN f /\ p \in DOMAIN g /\ place[p] = name
    BY <1>3, <1>7
  <2>2. g[p].daughters = DaughtersBy(f, place, done, p)
    BY <1>2, <1>3, <2>1, DaughtersOnly
  <2>3. CASE AnyIn(col, parents) /\ ~AnyIn(col, daughters)
    <3>1. g[p].daughters = << >>
      BY <1>9, <2>1, <2>2, <2>3 DEF AnyIn
    <3>2. << >> \o Having(col, p, parents) = Having(col, p, parents)
      BY <1>13
    <3>3. Given(p) = Having(col, p, parents)
      BY <2>3, <3>1, <3>2
    <3>4. \A c : c \in Range(Having(col, p, parents)) <=> c \in Range(f[p].daughters)
      <4>1. SUFFICES ASSUME NEW c
                     PROVE  c \in Range(Having(col, p, parents)) <=> c \in Range(f[p].daughters)
        OBVIOUS
      <4>2. c \in Range(Having(col, p, parents)) <=> c \in col /\ p \in Range(f[c].parents)
        BY <1>7, <1>9, <1>13
      <4>3. c \in Range(f[p].daughters)
              <=> c \in DOMAIN f /\ place[c] = place[p] /\ p \in Range(f[c].parents)
        BY <2>1, DaughtersAre
      <4>4. QED
        BY <1>7, <2>1, <4>2, <4>3
    <3>5. Range(Having(col, p, parents)) = Range(f[p].daughters)
      BY <3>4
    <3>6. Increasing(f[p].daughters) /\ f[p].daughters \in Seq(Nat)
      BY <1>2, <2>1 DEF Families
    <3>7. Having(col, p, parents) = f[p].daughters
      BY <1>13, <3>5, <3>6, SameIncreasing
    <3>8. QED
      BY <3>3, <3>7
  <2>4. CASE ~(AnyIn(col, parents) /\ ~AnyIn(col, daughters))
    <3>1. Given(p) = DaughtersBy(f, place, done, p)
      BY <2>2, <2>4
    <3>2. CASE name \in done
      BY <2>1, <3>1, <3>2 DEF DaughtersBy
    <3>3. CASE name \notin done
      <4>1. \A q \in col : daughters[q] = << >>
        BY <1>7, <1>9, <3>3 DEF DaughtersBy
      <4>2. ~AnyIn(col, parents)
        BY <2>4, <4>1 DEF AnyIn
      <4>3. f[p].daughters = << >>
        BY <1>10, <4>2
      <4>4. QED
        BY <2>1, <3>1, <3>3, <4>3 DEF DaughtersBy
    <3>4. QED
      BY <3>2, <3>3
  <2>5. QED
    BY <2>3, <2>4
<1> HIDE DEF Given
<1>18. ASSUME NEW p \in DOMAIN g PROVE R[p] = more[p]
  <2>1. CASE p \in col
    <3>1. p \in DOMAIN f /\ place[p] = name
      BY <1>7, <2>1
    <3>2. R[p] = WithDaughters(WithDaughters(f[p], DaughtersBy(f, place, done, p)), f[p].daughters)
      BY <1>3, <1>15, <1>17, <2>1, <3>1
    <3>3. R[p] = WithDaughters(f[p], f[p].daughters)
      BY <1>2, <1>3, <3>1, <3>2, DaughtersAgain
    <3>4. DaughtersBy(f, place, done \cup {name}, p) = f[p].daughters
      BY <3>1 DEF DaughtersBy
    <3>5. QED
      BY <1>4, <3>1, <3>3, <3>4
  <2>2. CASE p \notin col
    <3>1. R[p] = g[p]
      <4>1. g[p] \in FamilyRecords
        BY <1>8
      <4>2. WithDaughters(g[p], g[p].daughters) = g[p]
        BY <4>1, DaughtersSame
      <4>3. QED
        BY <1>15, <1>16, <2>2, <4>2
    <3>2. CASE p = NoParticle
      BY <1>3, <1>4, <3>1, <3>2
    <3>3. CASE p # NoParticle
      <4>1. p \in DOMAIN f /\ place[p] # name
        BY <1>3, <1>7, <2>2, <3>3
      <4>2. DaughtersBy(f, place, done \cup {name}, p) = DaughtersBy(f, place, done, p)
        BY <4>1 DEF DaughtersBy
      <4>3. QED
        BY <1>3, <1>4, <3>1, <4>1, <4>2
    <3>4. QED
      BY <3>2, <3>3
  <2>3. QED
    BY <2>1, <2>2
<1>19. R = more
  BY <1>3, <1>4, <1>5, <1>6, <1>18
<1>20. QED
  BY <1>19 DEF R, g, more, col

(***************************************************************************)
(* The collections of an event that has the particles of f, but for a      *)
(* subset collection.                                                      *)
(***************************************************************************)
CollectionsOf(f, cols) ==
  /\ \A p \in DOMAIN f : place[p] \in DOMAIN cols \ {SubsetName}
  /\ \A n \in DOMAIN cols \ {SubsetName} : cols[n] = {p \in DOMAIN f : place[p] = n}

\* Each name in the map restores its collection, if it is one.
LEMMA RestoreNamedIs ==
  ASSUME NEW f, NEW cols, NEW done, NEW name, Families(f, place), Len(place) \in Nat,
         DOMAIN f \subseteq 1 .. Len(place), CollectionsOf(f, cols)
  PROVE  RestoreNamed(Partly(f, place, done), cols, name) = Partly(f, place, done \cup {name})
<1>1. CASE name \in DOMAIN cols \ {SubsetName}
  <2>1. cols[name] = {p \in DOMAIN f : place[p] = name}
    BY <1>1 DEF CollectionsOf
  <2>2. RestoreNamed(Partly(f, place, done), cols, name)
          = RestoreOne(Partly(f, place, done), {p \in DOMAIN f : place[p] = name})
    BY <1>1, <2>1 DEF RestoreNamed, IsRestored
  <2>3. QED
    BY <2>2, PartlyRestored
<1>2. CASE name \notin DOMAIN cols \ {SubsetName}
  <2>1. RestoreNamed(Partly(f, place, done), cols, name) = Partly(f, place, done)
    BY <1>2 DEF RestoreNamed, IsRestored
  <2>2. \A p \in DOMAIN f : place[p] # name
    BY <1>2 DEF CollectionsOf
  <2>3. \A p \in DOMAIN f :
          DaughtersBy(f, place, done \cup {name}, p) = DaughtersBy(f, place, done, p)
    BY <2>2 DEF DaughtersBy
  <2>4. NoParticle \notin DOMAIN f
    BY DEF NoParticle
  <2>5. Partly(f, place, done \cup {name}) = Partly(f, place, done)
    BY <2>3, <2>4 DEF Partly
  <2>6. QED
    BY <2>1, <2>5
<1>3. QED
  BY <1>1, <1>2

(***************************************************************************)
(* With all names done, every particle has its daughters again.            *)
(***************************************************************************)
LEMMA RestoreAllIs ==
  ASSUME NEW f, NEW h, NEW cols, Families(f, place), Len(place) \in Nat, Len(ColOrder) \in Nat,
         DOMAIN f \subseteq 1 .. Len(place), CollectionsOf(f, cols),
         WithNoParticle(h) = Partly(f, place, {})
  PROVE  RestoreAll(h, cols) = Partly(f, place, {ColOrder[j] : j \in 1 .. Len(ColOrder)})
<1> DEFINE n == Len(ColOrder)
           Named(i) == {ColOrder[j] : j \in 1 .. i}
           U == [i \in 0 .. n |-> Partly(f, place, Named(i))]
           A == CHOOSE a : a = [i \in 0 .. n |->
                  IF i = 0 THEN WithNoParticle(h) ELSE RestoreNamed(a[i - 1], cols, ColOrder[i])]
<1>1. RestoreAll(h, cols) = A[n]
  BY DEF RestoreAll
<1>2. Named(0) = {}
  OBVIOUS
<1>3. n \in Nat
  OBVIOUS
<1> HIDE DEF n
<1>4. ASSUME NEW i \in 1 .. n
      PROVE  RestoreNamed(Partly(f, place, Named(i - 1)), cols, ColOrder[i]) = Partly(f, place, Named(i))
  <2>1. 1 .. i = 1 .. (i - 1) \cup {i}
    BY <1>3
  <2>2. Named(i) = Named(i - 1) \cup {ColOrder[i]}
    BY <2>1
  <2> HIDE DEF Named
  <2>3. QED
    BY <2>2, RestoreNamedIs
<1>5. \A i \in 0 .. n : U[i] = Partly(f, place, Named(i))
  OBVIOUS
<1>6. DOMAIN U = 0 .. n /\ U = [i \in 0 .. n |-> U[i]]
  OBVIOUS
<1> HIDE DEF U, Named
<1>7. ASSUME NEW i \in 0 .. n
      PROVE  U[i] = IF i = 0 THEN WithNoParticle(h) ELSE RestoreNamed(U[i - 1], cols, ColOrder[i])
  <2>1. CASE i = 0
    BY <1>2, <1>5, <2>1
  <2>2. CASE i # 0
    <3>1. i \in 1 .. n /\ i - 1 \in 0 .. n
      BY <1>3, <2>2
    <3>2. U[i - 1] = Partly(f, place, Named(i - 1))
      BY <1>5, <3>1
    <3>3. U[i] = RestoreNamed(U[i - 1], cols, ColOrder[i])
      BY <1>4, <1>5, <3>1, <3>2
    <3>4. QED
      BY <2>2, <3>3
  <2>3. QED
    BY <2>1, <2>2
<1>8. U = [i \in 0 .. n |->
             IF i = 0 THEN WithNoParticle(h) ELSE RestoreNamed(U[i - 1], cols, ColOrder[i])]
  BY <1>6, <1>7
<1>9. A = [i \in 0 .. n |->
             IF i = 0 THEN WithNoParticle(h) ELSE RestoreNamed(A[i - 1], cols, ColOrder[i])]
  BY <1>8
<1> HIDE DEF A
<1>10. \A i \in 0 .. n :
         A[i] = IF i = 0 THEN WithNoParticle(h) ELSE RestoreNamed(A[i - 1], cols, ColOrder[i])
  BY <1>9
<1>11. A[0] = U[0]
  <2>1. 0 \in 0 .. n
    BY <1>3
  <2>2. QED
    BY <1>7, <1>10, <2>1
<1> DEFINE T == {i \in 1 .. n : A[i] = U[i]}
<1>12. ASSUME NEW i \in 1 .. n, i = 1 \/ i - 1 \in T PROVE i \in T
  <2>1. i # 0 /\ i \in 0 .. n
    BY <1>3
  <2>2. A[i - 1] = U[i - 1]
    <3>1. CASE i = 1
      <4>1. i - 1 = 0
        BY <3>1
      <4>2. QED
        BY <1>11, <4>1
    <3>2. CASE i # 1
      BY <1>12, <3>2
    <3>3. QED
      BY <3>1, <3>2
  <2>3. A[i] = U[i]
    BY <1>7, <1>10, <2>1, <2>2
  <2>4. QED
    BY <2>3
<1>13. 1 .. n \subseteq T
  <2> HIDE DEF T
  <2>1. QED
    BY <1>3, <1>12, UpToInduction
<1>14. A[n] = U[n]
  <2>1. n = 0 \/ n \in 1 .. n
    BY <1>3
  <2>2. QED
    BY <1>11, <1>13, <2>1
<1>15. n \in 0 .. n
  BY <1>3
<1>16. RestoreAll(h, cols) = Partly(f, place, Named(n))
  BY <1>1, <1>5, <1>14, <1>15
<1>17. QED
  BY <1>16 DEF Named, n

\* A particle looks the same in families that agree on it and its daughters.
LEMMA LooksSame ==
  ASSUME NEW f, NEW g, NEW p, f[p] = g[p],
         \A d \in Range(f[p].daughters) : f[d].notEnd = g[d].notEnd
  PROVE  Looks(f, p) = Looks(g, p)
<1> DEFINE d == f[p].daughters
           ends == {i \in DOMAIN d : ~f[d[i]].notEnd}
           others == {i \in DOMAIN d : ~g[d[i]].notEnd}
<1>1. \A i \in DOMAIN d : d[i] \in Range(d)
  BY DEF Range
<1>2. ends = others
  BY <1>1
<1>3. GetEndpoint(f, p) = IF f[p].endSet \/ ends = {} THEN f[p].endpoint
                          ELSE d[CHOOSE i \in ends : \A j \in ends : i <= j]
  BY DEF GetEndpoint
<1>4. GetEndpoint(g, p) = IF f[p].endSet \/ others = {} THEN f[p].endpoint
                          ELSE d[CHOOSE i \in others : \A j \in others : i <= j]
  BY DEF GetEndpoint
<1> HIDE DEF ends, others, d
<1>5. GetEndpoint(f, p) = GetEndpoint(g, p)
  BY <1>2, <1>3, <1>4
<1>6. QED
  BY <1>5 DEF Looks

(***************************************************************************)
(* Where the particles are: the names of collections that are no subset.   *)
(***************************************************************************)
LEMMA PlacesAre ==
  ASSUME place \in Placements
  PROVE  /\ Len(place) \in Nat /\ DOMAIN place = 1 .. Len(place)
         /\ \A p \in DOMAIN place :
              place[p] \in {ColOrder[j] : j \in 1 .. Len(ColOrder)} /\ place[p] # SubsetName
         /\ Len(ColOrder) \in Nat
<1>1. place \in Seq(Range(ColOrder) \ {SubsetName}) /\ ColOrder \in Seq(Range(ColOrder))
  BY FamilyAssumption
<1>2. DOMAIN ColOrder = 1 .. Len(ColOrder) /\ Len(ColOrder) \in Nat
  BY <1>1
<1>3. Range(ColOrder) = {ColOrder[j] : j \in 1 .. Len(ColOrder)}
  BY <1>2 DEF Range
<1>4. Len(place) \in Nat /\ DOMAIN place = 1 .. Len(place)
  BY <1>1
<1>5. \A p \in DOMAIN place : place[p] \in Range(ColOrder) \ {SubsetName}
  BY <1>1
<1>6. QED
  BY <1>2, <1>3, <1>4, <1>5

\* Nobody has relatives before addParent.
LEMMA FamInitially == FamInit => FamInv
<1> SUFFICES ASSUME FamInit PROVE FamInv
  OBVIOUS
<1>1. place \in Placements /\ DOMAIN family = DOMAIN place /\ outcome = "ok"
      /\ seen = [before |-> << >>, after |-> << >>]
      /\ \A p \in DOMAIN family : family[p] = NewParticle
  BY DEF FamInit
<1>2. NewParticle.parents = << >> /\ NewParticle.daughters = << >> /\ NewParticle.endpoint = Origin
  BY DEF NewParticle
<1>3. Range(<< >>) = {} /\ Increasing(<< >>) /\ OnceEach(<< >>)
  BY DEF Range, Increasing, OnceEach
<1>4. Families(family, place)
  BY <1>1, <1>2, <1>3, NewIsRecord DEF Families
<1>5. QED
  BY <1>1, <1>4 DEF FamInv

\* The status and the end point are nobody else's business.
LEMMA ListsKept ==
  ASSUME NEW f, NEW g, NEW where, Families(f, where), DOMAIN g = DOMAIN f,
         \A q \in DOMAIN f : g[q] \in FamilyRecords,
         \A q \in DOMAIN f : g[q].parents = f[q].parents /\ g[q].daughters = f[q].daughters,
         \A q \in DOMAIN f : ~g[q].endSet => g[q].endpoint = Origin
  PROVE  Families(g, where)
<1>1. \A p \in DOMAIN g : g[p] \in FamilyRecords
  OBVIOUS
<1>2. \A p \in DOMAIN g : Increasing(g[p].daughters) /\ OnceEach(g[p].parents)
  BY DEF Families
<1>3. \A p \in DOMAIN g : \A q \in Range(g[p].parents) : q \in DOMAIN g /\ where[q] = where[p]
  BY DEF Families
<1>4. \A p \in DOMAIN g : \A c \in Range(g[p].daughters) : c \in DOMAIN g
  BY DEF Families
<1>5. \A p, c \in DOMAIN g : c \in Range(g[p].daughters) <=> p \in Range(g[c].parents)
  BY DEF Families
<1>6. QED
  BY <1>1, <1>2, <1>3, <1>4, <1>5 DEF Families

\* addParent: the daughter comes after the other daughters.
LEMMA AddParentKeeps ==
  ASSUME FamInv, ~Across, InOrder, NEW c \in DOMAIN place, NEW p \in DOMAIN place, AddParent(c, p)
  PROVE  FamInv'
<1> DEFINE f == family
           g == family'
<1>1. /\ c \in DOMAIN f /\ p \in DOMAIN f /\ c # p /\ place[c] = place[p]
      /\ p < c /\ (\A d \in Range(f[p].daughters) : d < c)
      /\ p \notin Range(f[c].parents)
      /\ place' = place /\ outcome' = outcome /\ seen' = seen
  BY DEF AddParent, MayChange
<1>2. g = [f EXCEPT ![c].parents = Append(@, p), ![p].daughters = Append(@, c)]
  BY DEF AddParent
<1>3. Families(f, place) /\ DOMAIN f \subseteq DOMAIN place
  BY DEF FamInv
<1>4. p \in Nat /\ c \in Nat
  BY PlacesAre DEF FamInv
<1>5. \A q \in DOMAIN f : f[q] \in FamilyRecords /\ f[q].parents \in Seq(Nat) /\ f[q].daughters \in Seq(Nat)
  BY <1>3 DEF Families, FamilyRecords
<1> HIDE DEF f
<1>6. DOMAIN g = DOMAIN f
  BY <1>2
<1>7. g[c] = [f[c] EXCEPT !.parents = Append(f[c].parents, p)]
  BY <1>1, <1>2
<1>8. g[p] = [f[p] EXCEPT !.daughters = Append(f[p].daughters, c)]
  BY <1>1, <1>2
<1>9. \A q \in DOMAIN f : q # c /\ q # p => g[q] = f[q]
  BY <1>2
<1> HIDE DEF g
<1> DEFINE newParents == Append(f[c].parents, p)
           newDaughters == Append(f[p].daughters, c)
<1>10. /\ newParents \in Seq(Nat) /\ Range(newParents) = Range(f[c].parents) \cup {p}
       /\ OnceEach(newParents)
  <2>1. OnceEach(f[c].parents)
    BY <1>1, <1>3 DEF Families
  <2>2. QED
    BY <1>1, <1>4, <1>5, <2>1, RangeAppend
<1>11. /\ newDaughters \in Seq(Nat) /\ Range(newDaughters) = Range(f[p].daughters) \cup {c}
       /\ Increasing(newDaughters)
  <2>1. Increasing(f[p].daughters)
    BY <1>1, <1>3 DEF Families
  <2>2. Increasing(newDaughters)
    BY <1>1, <1>4, <1>5, <2>1, IncreasingAppend
  <2>3. QED
    BY <1>1, <1>4, <1>5, <2>2, RangeAppend
<1> HIDE DEF newParents, newDaughters
<1>12. /\ g[c] \in FamilyRecords /\ g[c].parents = newParents /\ g[c].daughters = f[c].daughters
       /\ g[c].endSet = f[c].endSet /\ g[c].endpoint = f[c].endpoint
  BY <1>1, <1>5, <1>7, <1>10 DEF FamilyRecords, newParents
<1>13. /\ g[p] \in FamilyRecords /\ g[p].parents = f[p].parents /\ g[p].daughters = newDaughters
       /\ g[p].endSet = f[p].endSet /\ g[p].endpoint = f[p].endpoint
  BY <1>1, <1>5, <1>8, <1>11 DEF FamilyRecords, newDaughters
<1>14. /\ \A q \in DOMAIN f : q # c => g[q].parents = f[q].parents
       /\ \A q \in DOMAIN f : q # p => g[q].daughters = f[q].daughters
  BY <1>9, <1>12, <1>13
<1>15. \A q, x \in DOMAIN f : x \in Range(g[q].parents) <=> x \in Range(f[q].parents) \/ (q = c /\ x = p)
  BY <1>10, <1>12, <1>14
<1>16. \A q, x \in DOMAIN f : x \in Range(g[q].daughters) <=> x \in Range(f[q].daughters) \/ (q = p /\ x = c)
  BY <1>11, <1>13, <1>14
<1>17. \A q \in DOMAIN g : g[q] \in FamilyRecords
  BY <1>5, <1>6, <1>9, <1>12, <1>13
<1>18. \A q \in DOMAIN g : Increasing(g[q].daughters) /\ OnceEach(g[q].parents)
  BY <1>3, <1>6, <1>10, <1>11, <1>12, <1>13, <1>14 DEF Families
<1>19. \A q \in DOMAIN g : ~g[q].endSet => g[q].endpoint = Origin
  BY <1>3, <1>6, <1>9, <1>12, <1>13 DEF Families
<1>20. \A q \in DOMAIN g : \A x \in Range(g[q].parents) : x \in DOMAIN g /\ place[x] = place[q]
  <2>1. \A q \in DOMAIN f : \A x \in Range(g[q].parents) :
          x \in Range(f[q].parents) \/ (q = c /\ x = p)
    BY <1>10, <1>12, <1>14
  <2>2. QED
    BY <1>1, <1>3, <1>6, <2>1 DEF Families
<1>21. \A q \in DOMAIN g : \A x \in Range(g[q].daughters) : x \in DOMAIN g
  <2>1. \A q \in DOMAIN f : \A x \in Range(g[q].daughters) :
          x \in Range(f[q].daughters) \/ x = c
    BY <1>11, <1>13, <1>14
  <2>2. QED
    BY <1>1, <1>3, <1>6, <2>1 DEF Families
<1>22. \A q, x \in DOMAIN g : x \in Range(g[q].daughters) <=> q \in Range(g[x].parents)
  <2>1. \A q, x \in DOMAIN f : x \in Range(f[q].daughters) <=> q \in Range(f[x].parents)
    BY <1>3 DEF Families
  <2>2. QED
    BY <1>6, <1>15, <1>16, <2>1
<1>23. Families(g, place)
  BY <1>17, <1>18, <1>19, <1>20, <1>21, <1>22 DEF Families
<1>24. QED
  BY <1>1, <1>3, <1>6, <1>23 DEF FamInv, f, g

\* setEndpoint.
LEMMA SetEndpointKeeps ==
  ASSUME FamInv, NEW p \in DOMAIN place, SetEndpoint(p)
  PROVE  FamInv'
<1>1. Families(family, place) /\ p \in DOMAIN family
  BY DEF FamInv, SetEndpoint, MayChange
<1>2. SetPoint \in Nat
  <2>1. Len(place) \in Nat
    BY PlacesAre DEF FamInv
  <2>2. QED
    BY <2>1 DEF SetPoint
<1>3. family' = [family EXCEPT ![p].endSet = TRUE, ![p].endpoint = SetPoint]
  BY DEF SetEndpoint
<1>4. \A q \in DOMAIN family : family[q] \in FamilyRecords
  BY <1>1 DEF Families
<1>5. DOMAIN family' = DOMAIN family /\ \A q \in DOMAIN family : q # p => family'[q] = family[q]
  BY <1>3
<1>6. family'[p] = [family[p] EXCEPT !.endSet = TRUE, !.endpoint = SetPoint]
  BY <1>1, <1>3
<1>7. /\ family'[p] \in FamilyRecords /\ family'[p].endSet
      /\ family'[p].parents = family[p].parents /\ family'[p].daughters = family[p].daughters
  BY <1>1, <1>2, <1>4, <1>6 DEF FamilyRecords
<1>8. \A q \in DOMAIN family : ~family[q].endSet => family[q].endpoint = Origin
  BY <1>1 DEF Families
<1>9. Families(family', place)
  BY <1>1, <1>4, <1>5, <1>7, <1>8, ListsKept
<1>10. QED
  BY <1>5, <1>9 DEF FamInv, SetEndpoint

\* setSimulatorStatus.
LEMMA SetStatusKeeps ==
  ASSUME FamInv, ~StatusLate, NEW p \in DOMAIN place, NEW b \in BOOLEAN, SetSimulatorStatus(p, b)
  PROVE  FamInv'
<1>1. Families(family, place) /\ p \in DOMAIN family /\ ~family[p].endSet
  BY DEF FamInv, SetSimulatorStatus, MayChange
<1>2. family' = [family EXCEPT ![p].endSet = FALSE, ![p].notEnd = b]
  BY DEF SetSimulatorStatus
<1>3. \A q \in DOMAIN family : family[q] \in FamilyRecords
  BY <1>1 DEF Families
<1>4. DOMAIN family' = DOMAIN family /\ \A q \in DOMAIN family : q # p => family'[q] = family[q]
  BY <1>2
<1>5. family'[p] = [family[p] EXCEPT !.endSet = FALSE, !.notEnd = b]
  BY <1>1, <1>2
<1>6. /\ family'[p] \in FamilyRecords /\ family'[p].endpoint = family[p].endpoint
      /\ family'[p].parents = family[p].parents /\ family'[p].daughters = family[p].daughters
  BY <1>1, <1>3, <1>5 DEF FamilyRecords
<1>7. \A q \in DOMAIN family : ~family[q].endSet => family[q].endpoint = Origin
  BY <1>1 DEF Families
<1>8. Families(family', place)
  BY <1>1, <1>3, <1>4, <1>6, <1>7, ListsKept
<1>9. QED
  BY <1>4, <1>8 DEF FamInv, SetSimulatorStatus

\* setVertexIsNotEndpointOfParent.
LEMMA SetNotEndKeeps ==
  ASSUME FamInv, NEW p \in DOMAIN place, NEW b \in BOOLEAN, SetVertexIsNotEndpointOfParent(p, b)
  PROVE  FamInv'
<1>1. Families(family, place) /\ p \in DOMAIN family
  BY DEF FamInv, SetVertexIsNotEndpointOfParent, MayChange
<1>2. family' = [family EXCEPT ![p].notEnd = b]
  BY DEF SetVertexIsNotEndpointOfParent
<1>3. \A q \in DOMAIN family : family[q] \in FamilyRecords
  BY <1>1 DEF Families
<1>4. DOMAIN family' = DOMAIN family /\ \A q \in DOMAIN family : q # p => family'[q] = family[q]
  BY <1>2
<1>5. family'[p] = [family[p] EXCEPT !.notEnd = b]
  BY <1>1, <1>2
<1>6. /\ family'[p] \in FamilyRecords /\ family'[p].endpoint = family[p].endpoint
      /\ family'[p].endSet = family[p].endSet
      /\ family'[p].parents = family[p].parents /\ family'[p].daughters = family[p].daughters
  BY <1>1, <1>3, <1>5 DEF FamilyRecords
<1>7. \A q \in DOMAIN family : ~family[q].endSet => family[q].endpoint = Origin
  BY <1>1 DEF Families
<1>8. Families(family', place)
  BY <1>1, <1>3, <1>4, <1>6, <1>7, ListsKept
<1>9. QED
  BY <1>4, <1>8 DEF FamInv, SetVertexIsNotEndpointOfParent

\* The particles that a file has: some of the collections, and all of those.
LEMMA StoredFamilies ==
  ASSUME NEW f, NEW where, NEW dropped, Families(f, where)
  PROVE  Families([p \in {q \in DOMAIN f : where[q] \notin dropped} |-> f[p]], where)
<1> DEFINE S == {q \in DOMAIN f : where[q] \notin dropped}
           g == [p \in S |-> f[p]]
<1>1. DOMAIN g = S /\ \A p \in S : g[p] = f[p]
  OBVIOUS
<1>2. S \subseteq DOMAIN f /\ \A p \in DOMAIN f : p \in S <=> where[p] \notin dropped
  OBVIOUS
<1> HIDE DEF g, S
<1>3. \A p \in S : \A q \in Range(f[p].parents) : q \in S /\ where[q] = where[p]
  BY <1>2 DEF Families
<1>4. \A p \in S : \A c \in Range(f[p].daughters) : c \in S
  <2>1. \A p \in S : \A c \in Range(f[p].daughters) : c \in DOMAIN f /\ where[c] = where[p]
    BY <1>2, DaughtersAre
  <2>2. QED
    BY <1>2, <2>1
<1>5. \A p \in DOMAIN g : g[p] \in FamilyRecords
  BY <1>1, <1>2 DEF Families
<1>6. \A p \in DOMAIN g : Increasing(g[p].daughters) /\ OnceEach(g[p].parents)
  BY <1>1, <1>2 DEF Families
<1>7. \A p \in DOMAIN g : ~g[p].endSet => g[p].endpoint = Origin
  BY <1>1, <1>2 DEF Families
<1>8. \A p \in DOMAIN g : \A q \in Range(g[p].parents) : q \in DOMAIN g /\ where[q] = where[p]
  BY <1>1, <1>3
<1>9. \A p \in DOMAIN g : \A c \in Range(g[p].daughters) : c \in DOMAIN g
  BY <1>1, <1>4
<1>10. \A p, c \in DOMAIN g : c \in Range(g[p].daughters) <=> p \in Range(g[c].parents)
  BY <1>1, <1>2 DEF Families
<1>11. Families(g, where)
  BY <1>5, <1>6, <1>7, <1>8, <1>9, <1>10 DEF Families
<1>12. QED
  BY <1>11 DEF g, S

(***************************************************************************)
(* What the handler does to a particle of which the parents are stored.    *)
(***************************************************************************)
HandledAs(r, stored) ==
  [r EXCEPT !.parents = [i \in DOMAIN @ |-> IF @[i] \in stored THEN @[i] ELSE NoParticle],
            !.daughters = << >>,
            !.endpoint = IF r.endSet THEN @ ELSE Origin]

\* All that it loses are the daughters.
LEMMA HandledOne ==
  ASSUME NEW r \in FamilyRecords, NEW stored, Range(r.parents) \subseteq stored,
         ~r.endSet => r.endpoint = Origin
  PROVE  HandledAs(r, stored) = WithDaughters(r, << >>)
<1> DEFINE s == r.parents
           t == [i \in DOMAIN s |-> IF s[i] \in stored THEN s[i] ELSE NoParticle]
<1>1. s \in Seq(Nat)
  BY DEF FamilyRecords
<1>2. \A i \in DOMAIN s : s[i] \in stored
  BY DEF Range
<1>3. t = [i \in DOMAIN s |-> s[i]]
  BY <1>2
<1>4. s = [i \in DOMAIN s |-> s[i]]
  BY <1>1
<1>5. t = s
  BY <1>3, <1>4
<1>6. (IF r.endSet THEN r.endpoint ELSE Origin) = r.endpoint
  OBVIOUS
<1>7. HandledAs(r, stored) = [r EXCEPT !.parents = t, !.daughters = << >>,
                                       !.endpoint = IF r.endSet THEN r.endpoint ELSE Origin]
  BY DEF HandledAs
<1> HIDE DEF t, s
<1>8. [r EXCEPT !.parents = t, !.daughters = << >>,
                !.endpoint = IF r.endSet THEN r.endpoint ELSE Origin]
        = [r EXCEPT !.parents = s, !.daughters = << >>, !.endpoint = r.endpoint]
  BY <1>5, <1>6
<1>9. [r EXCEPT !.parents = s, !.daughters = << >>, !.endpoint = r.endpoint] = WithDaughters(r, << >>)
  BY DEF FamilyRecords, WithDaughters, s
<1>10. QED
  BY <1>7, <1>8, <1>9

\* And to the family of those that are stored.
LEMMA Handled ==
  ASSUME NEW f, NEW where, NEW stored \in SUBSET DOMAIN f, Families(f, where),
         \A p \in stored : Range(f[p].parents) \subseteq stored, NoParticle \notin stored
  PROVE  WithNoParticle(ThroughHandler(f, stored)) = Partly([p \in stored |-> f[p]], where, {})
<1> DEFINE h == ThroughHandler(f, stored)
           g == [p \in stored |-> f[p]]
<1>1. DOMAIN h = stored
  BY DEF ThroughHandler
<1>2. ASSUME NEW p \in stored PROVE h[p] = WithDaughters(f[p], << >>)
  <2>1. h[p] = HandledAs(f[p], stored)
    BY DEF ThroughHandler, HandledAs
  <2>2. f[p] \in FamilyRecords /\ (~f[p].endSet => f[p].endpoint = Origin)
        /\ Range(f[p].parents) \subseteq stored
    BY DEF Families
  <2> HIDE DEF h
  <2>3. QED
    BY <2>1, <2>2, HandledOne
<1>3. DOMAIN g = stored /\ \A p \in stored : g[p] = f[p] /\ DaughtersBy(g, where, {}, p) = << >>
  BY DEF DaughtersBy
<1> HIDE DEF g, h
<1>4. WithNoParticle(h) = [p \in stored \cup {NoParticle} |->
                             IF p = NoParticle THEN NewParticle ELSE WithDaughters(f[p], << >>)]
  BY <1>1, <1>2 DEF WithNoParticle
<1>5. Partly(g, where, {}) = [p \in stored \cup {NoParticle} |->
                                IF p = NoParticle THEN NewParticle ELSE WithDaughters(f[p], << >>)]
  BY <1>3 DEF Partly
<1>6. QED
  BY <1>4, <1>5 DEF g, h

(***************************************************************************)
(* What is read of the collections that were not dropped is what was       *)
(* written, and the null pointer was given no daughter.                    *)
(***************************************************************************)
LEMMA ThroughFileKeepsFamily ==
  ASSUME FamInv, NEW dropped, NEW sub, ThroughFamilyFile(dropped, sub)
  PROVE  FamInv'
<1> DEFINE stored == {p \in DOMAIN family : place[p] \notin dropped}
           names == {place[p] : p \in stored} \cup {SubsetName}
           cols == [n \in names |-> IF n = SubsetName THEN sub \cap stored
                                    ELSE {p \in stored : place[p] = n}]
           restored == RestoreAll(ThroughHandler(family, stored), cols)
           g == [p \in stored |-> family[p]]
           all == {ColOrder[j] : j \in 1 .. Len(ColOrder)}
<1>1. /\ family' = [p \in stored |-> restored[p]]
      /\ outcome' = IF restored[NoParticle].daughters # << >> THEN "undefined"
                    ELSE IF sub \subseteq stored THEN "ok" ELSE "throws"
      /\ seen' = [before |-> [p \in stored |-> Looks(family, p)],
                  after |-> [p \in stored |-> Looks(family', p)]]
      /\ place' = place
  BY DEF ThroughFamilyFile
<1>2. Families(family, place) /\ DOMAIN family \subseteq DOMAIN place /\ place \in Placements
  BY DEF FamInv
<1>3. /\ Len(place) \in Nat /\ DOMAIN place = 1 .. Len(place)
      /\ \A p \in DOMAIN place : place[p] \in all /\ place[p] # SubsetName
      /\ Len(ColOrder) \in Nat
  BY <1>2, PlacesAre
<1>4. Families(g, place)
  BY <1>2, StoredFamilies
<1>5. DOMAIN g = stored /\ stored \subseteq DOMAIN family /\ \A p \in stored : g[p] = family[p]
  OBVIOUS
<1>6. CollectionsOf(g, cols)
  <2>1. DOMAIN cols = names
    OBVIOUS
  <2>2. \A p \in stored : place[p] \in names \ {SubsetName}
    BY <1>2, <1>3
  <2>3. \A n \in names \ {SubsetName} : cols[n] = {p \in stored : place[p] = n}
    OBVIOUS
  <2> HIDE DEF cols, stored, names, g
  <2>4. QED
    BY <1>5, <2>1, <2>2, <2>3 DEF CollectionsOf
<1> HIDE DEF cols, stored, names, g, all, restored
<1>7. DOMAIN g \subseteq 1 .. Len(place) /\ NoParticle \notin DOMAIN g
  BY <1>2, <1>3, <1>5 DEF NoParticle
<1>8. WithNoParticle(ThroughHandler(family, stored)) = Partly(g, place, {})
  <2>1. \A p \in stored : Range(family[p].parents) \subseteq stored
    BY <1>4, <1>5 DEF Families
  <2>2. QED
    BY <1>2, <1>5, <1>7, <2>1, Handled DEF g
<1>9. restored = Partly(g, place, all)
  BY <1>3, <1>4, <1>6, <1>7, <1>8, RestoreAllIs DEF restored, all
<1>10. \A p \in stored : g[p] \in FamilyRecords
  BY <1>4, <1>5 DEF Families
<1>11. /\ restored[NoParticle] = NewParticle
       /\ \A p \in stored : restored[p] = WithDaughters(g[p], DaughtersBy(g, place, all, p))
  <2>1. \A p \in DOMAIN g : g[p] \in FamilyRecords
    BY <1>5, <1>10
  <2>2. /\ Partly(g, place, all)[NoParticle] = NewParticle
        /\ \A p \in DOMAIN g : Partly(g, place, all)[p] = WithDaughters(g[p], DaughtersBy(g, place, all, p))
    BY <1>7, <2>1, PartlyIs
  <2>3. QED
    BY <1>5, <1>9, <2>2
<1>12. \A p \in stored : restored[p] = g[p]
  <2>1. \A p \in stored : DaughtersBy(g, place, all, p) = g[p].daughters
    BY <1>2, <1>3, <1>5 DEF DaughtersBy
  <2>2. QED
    BY <1>10, <1>11, <2>1, DaughtersSame
<1>13. family' = g
  <2>1. g = [p \in stored |-> g[p]]
    BY <1>5 DEF g
  <2>2. QED
    BY <1>1, <1>12, <2>1
<1>14. outcome' \in {"ok", "throws"}
  <2>1. restored[NoParticle].daughters = << >>
    BY <1>11, NewIsRecord
  <2>2. QED
    BY <1>1, <2>1
<1>15. \A p \in stored : Looks(family, p) = Looks(g, p)
  <2>1. SUFFICES ASSUME NEW p \in stored PROVE Looks(family, p) = Looks(g, p)
    OBVIOUS
  <2>2. \A d \in Range(family[p].daughters) : d \in stored
    BY <1>4, <1>5 DEF Families
  <2>3. \A d \in Range(family[p].daughters) : family[d].notEnd = g[d].notEnd
    BY <1>5, <2>2
  <2>4. family[p] = g[p]
    BY <1>5
  <2>5. QED
    BY <2>3, <2>4, LooksSame
<1>16. seen'.after = seen'.before
  <2>1. seen' = [before |-> [p \in stored |-> Looks(family, p)],
                 after |-> [p \in stored |-> Looks(g, p)]]
    BY <1>1, <1>13
  <2>2. [p \in stored |-> Looks(family, p)] = [p \in stored |-> Looks(g, p)]
    BY <1>15
  <2>3. QED
    BY <2>1, <2>2
<1>17. DOMAIN g \subseteq DOMAIN place
  BY <1>2, <1>5
<1>18. Families(family, place)' <=> Families(g, place)
  BY <1>1, <1>13
<1>19. (DOMAIN family)' = DOMAIN g
  BY <1>13
<1>20. QED
  BY <1>1, <1>2, <1>4, <1>14, <1>16, <1>17, <1>18, <1>19 DEF FamInv

\* Every step keeps it.
LEMMA FamNextKeeps ==
  ASSUME FamInv, ~Across, ~StatusLate, InOrder, [FamNext]_famVars
  PROVE  FamInv'
<1>1. CASE UNCHANGED famVars
  BY <1>1 DEF famVars, FamInv
<1>2. ASSUME NEW c \in DOMAIN place, NEW p \in DOMAIN place, AddParent(c, p) PROVE FamInv'
  BY <1>2, AddParentKeeps
<1>3. ASSUME NEW p \in DOMAIN place, SetEndpoint(p) PROVE FamInv'
  BY <1>3, SetEndpointKeeps
<1>4. ASSUME NEW p \in DOMAIN place, NEW b \in BOOLEAN, SetSimulatorStatus(p, b) PROVE FamInv'
  BY <1>4, SetStatusKeeps
<1>5. ASSUME NEW p \in DOMAIN place, NEW b \in BOOLEAN, SetVertexIsNotEndpointOfParent(p, b)
      PROVE  FamInv'
  BY <1>5, SetNotEndKeeps
<1>6. ASSUME NEW dropped \in SUBSET Range(place), NEW sub \in Subsets,
             ThroughFamilyFile(dropped, sub \cap DOMAIN family)
      PROVE  FamInv'
  BY <1>6, ThroughFileKeepsFamily
<1>7. QED
  BY <1>1, <1>2, <1>3, <1>4, <1>5, <1>6 DEF FamNext

(***************************************************************************)
(* The file has parents only, but with parents in the collection of their  *)
(* daughters, added before them and daughters in their order, and with the *)
(* status set before the end point, a reader sees parents, daughters and   *)
(* end point of each particle as they were, for any collections, any order *)
(* of their names and any of them dropped; no null pointer is written to.  *)
(***************************************************************************)
THEOREM SpecFamilyKept ==
  ASSUME ~Across, ~StatusLate, InOrder
  PROVE  FamSpec => []FamilyKept
<1>1. FamInit => FamInv
  BY FamInitially
<1>2. FamInv /\ [FamNext]_famVars => FamInv'
  BY FamNextKeeps
<1>3. FamInv => FamilyKept
  BY DEF FamInv, FamilyKept
<1>4. QED
  BY <1>1, <1>2, <1>3, PTL DEF FamSpec
=============================================================================
