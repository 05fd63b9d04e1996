--------------------------- MODULE OperatorProofs ---------------------------
(***************************************************************************)
(* What the operators of RunEventMap and LCIOIndex promise for every size  *)
(* of an int: the order of the keys, the conversion between a key and the  *)
(* long64 it passes through, the two counters, and what the compact record *)
(* gives back of a map; then the induction that the proofs about recursive *)
(* functions rest on.                                                      *)
(***************************************************************************)
EXTENDS LCIOIndex, SequencesExt, FiniteSetTheorems, SequenceTheorems, WellFoundedInduction, TLAPS

-----------------------------------------------------------------------------
(***************************************************************************)
(* operator< is what std::map requires of it: on the keys of run headers   *)
(* and events it is irreflexive, transitive and total, so that two keys    *)
(* are one to the map only when they are equal.                            *)
(***************************************************************************)
THEOREM LessStrictTotal ==
  ASSUME NEW a \in MapKeys, NEW b \in MapKeys, NEW c \in MapKeys
  PROVE  /\ ~Less(a, a)
         /\ Less(a, b) /\ Less(b, c) => Less(a, c)
         /\ a = b \/ Less(a, b) \/ Less(b, a)
<1>1. /\ IntRange \subseteq Int
      /\ \A k \in MapKeys : /\ k.RunNum \in Int /\ k.EvtNum \in Int /\ k.EvtNum >= -1
                            /\ k = [RunNum |-> k.RunNum, EvtNum |-> k.EvtNum]
  BY HalfAssumption DEF MapKeys, RunEvent, IntRange, IntMax
<1>2. ~Less(a, a)
  BY <1>1 DEF Less
<1>3. Less(a, b) /\ Less(b, c) => Less(a, c)
  BY <1>1 DEF Less
<1>4. a = b \/ Less(a, b) \/ Less(b, a)
  BY <1>1 DEF Less
<1>5. QED
  BY <1>2, <1>3, <1>4

(***************************************************************************)
(* All run headers come before all events: one scan of the map from its    *)
(* begin sees the runs first (SIOReader::getRuns depends on it).           *)
(***************************************************************************)
THEOREM RunHeadersFirst ==
  ASSUME NEW a \in MapKeys, NEW b \in MapKeys, a.EvtNum < 0, b.EvtNum >= 0
  PROVE  Less(a, b) /\ ~Less(b, a)
BY HalfAssumption DEF Less, MapKeys, RunEvent, IntRange, IntMax

-----------------------------------------------------------------------------
(***************************************************************************)
(* Division undoes q * w + s.                                              *)
(***************************************************************************)
LEMMA DivMod ==
  ASSUME NEW w \in Nat, w > 0, NEW q \in Int, NEW s \in 0 .. w - 1
  PROVE  (q * w + s) \div w = q /\ (q * w + s) % w = s
<1> DEFINE n == q * w + s
<1>1. n \in Int
  OBVIOUS
<1>2. PICK d \in Int, m \in 0 .. w - 1 : d = n \div w /\ m = n % w /\ n = d * w + m
  BY <1>1, SMTT(30)
<1>3. (d - q) * w = s - m
  BY <1>2
<1>4. d - q < 1
  <2>1. CASE d - q >= 1
    <3>1. (d - q) * w >= w
      BY <2>1
    <3>2. QED
      BY <3>1, <1>3
  <2>2. QED
    BY <2>1
<1>5. d - q > -1
  <2>1. CASE d - q <= -1
    <3>1. (d - q) * w <= 0 - w
      BY <2>1
    <3>2. QED
      BY <3>1, <1>3
  <2>2. QED
    BY <2>1
<1>6. d = q
  BY <1>4, <1>5
<1>7. m = s
  BY <1>6, <1>3
<1>8. QED
  BY <1>2, <1>6, <1>7

(***************************************************************************)
(* An int survives being stored in an int, also when it was made unsigned  *)
(* in between.                                                             *)
(***************************************************************************)
LEMMA ToIntOfInt ==
  ASSUME NEW n \in IntRange
  PROVE  ToInt(n) = n /\ n % Word \in 0 .. Word - 1 /\ ToInt(n % Word) = n
<1>1. /\ n \in Int /\ -Half <= n /\ n < Half
      /\ Word \in Nat /\ Word = 2 * Half /\ Word > 0
  BY HalfAssumption DEF IntRange, IntMax, Word
<1>2. (n + Half) % Word = n + Half
  <2>1. n + Half \in 0 .. Word - 1
    BY <1>1, HalfAssumption
  <2>2. QED
    BY <2>1, <1>1, DivMod, 0 * Word + (n + Half) = n + Half
<1>3. ToInt(n) = n
  BY <1>2, <1>1, HalfAssumption DEF ToInt
<1>4. CASE n >= 0
  <2>1. n \in 0 .. Word - 1 /\ 0 * Word + n = n
    BY <1>1, <1>4, HalfAssumption
  <2>2. n % Word = n
    BY <2>1, <1>1, DivMod
  <2>3. QED
    BY <2>1, <2>2, <1>3
<1>5. CASE n < 0
  <2>1. n + Word \in 0 .. Word - 1 /\ (-1) * Word + (n + Word) = n
    BY <1>1, <1>5, HalfAssumption
  <2>2. n % Word = n + Word
    BY <2>1, <1>1, DivMod
  <2>3. n + Half \in 0 .. Word - 1 /\ 1 * Word + (n + Half) = (n + Word) + Half
    BY <1>1, <1>5, HalfAssumption
  <2>4. ((n + Word) + Half) % Word = n + Half
    BY <2>3, <1>1, DivMod
  <2>5. ToInt(n + Word) = n
    BY <2>4, <1>1, HalfAssumption DEF ToInt
  <2>6. QED
    BY <2>1, <2>2, <2>5, <1>3
<1>6. QED
  BY <1>1, <1>4, <1>5

(***************************************************************************)
(* A RunEvent is the same after the conversion to long64 and back, with    *)
(* negative run numbers and with the -1 of a run header: RunEventMap::add  *)
(* and the tests in test_randomaccess.cc rely on it.                       *)
(***************************************************************************)
THEOREM Long64RoundTrip ==
  ASSUME NEW re \in RunEvent
  PROVE  FromLong64(ToLong64(re)) = re
<1> DEFINE s == re.EvtNum % Word
<1>1. /\ re.RunNum \in IntRange /\ re.EvtNum \in IntRange
      /\ re = [RunNum |-> re.RunNum, EvtNum |-> re.EvtNum]
  BY DEF RunEvent
<1>2. s \in 0 .. Word - 1 /\ ToInt(s) = re.EvtNum /\ ToInt(re.RunNum) = re.RunNum
  BY <1>1, ToIntOfInt
<1>3. re.RunNum \in Int /\ Word \in Nat /\ Word > 0
  BY <1>1, HalfAssumption DEF IntRange, IntMax, Word
<1>4. (re.RunNum * Word + s) \div Word = re.RunNum /\ (re.RunNum * Word + s) % Word = s
  BY <1>2, <1>3, DivMod
<1>5. QED
  BY <1>1, <1>2, <1>4 DEF FromLong64, ToLong64

(***************************************************************************)
(* A finite set of keys has a first and a last one: minRunEvent and        *)
(* maxRunEvent are keys of the map.  A smallest set without a first one    *)
(* would still have none after an element is taken away.                   *)
(***************************************************************************)
THEOREM FirstAndLast ==
  ASSUME NEW S \in SUBSET MapKeys, IsFiniteSet(S), S # {}
  PROVE  (\E k \in S : IsFirst(k, S)) /\ (\E k \in S : IsLast(k, S))
<1> DEFINE good(U) == U # {} => (\E k \in U : IsFirst(k, U)) /\ (\E k \in U : IsLast(k, U))
           bad == {U \in FiniteSubsetsOf(S) : ~good(U)}
<1>1. S \in FiniteSubsetsOf(S)
  BY DEF FiniteSubsetsOf
<1>2. SUFFICES ASSUME bad # {} PROVE FALSE
  BY <1>1
<1>3. PICK U \in bad : \A V \in bad : <<V, U>> \notin StrictSubsetOrdering(S)
  <2>1. IsWellFoundedOn(StrictSubsetOrdering(S), FiniteSubsetsOf(S))
    BY FS_StrictSubsetOrderingWellFounded
  <2>2. bad \subseteq FiniteSubsetsOf(S)
    OBVIOUS
  <2> HIDE DEF bad
  <2>3. QED
    BY <1>2, <2>1, <2>2, WFMin
<1>4. U \subseteq S /\ IsFiniteSet(U) /\ U # {} /\ ~good(U)
  BY DEF FiniteSubsetsOf
<1>5. PICK x \in U : TRUE
  BY <1>4
<1> DEFINE V == U \ {x}
<1>6. good(V)
  <2>1. IsFiniteSet(V) /\ V \in FiniteSubsetsOf(S)
    BY <1>4, FS_RemoveElement DEF FiniteSubsetsOf
  <2>2. <<V, U>> \in StrictSubsetOrdering(S)
    BY <1>4, <1>5 DEF StrictSubsetOrdering
  <2>3. QED
    BY <1>3, <2>1, <2>2
<1>7. /\ \A a, b, c \in U : Less(a, b) /\ Less(b, c) => Less(a, c)
      /\ \A a, b \in U : a = b \/ Less(a, b) \/ Less(b, a)
  BY <1>4, LessStrictTotal
<1>8. CASE V = {}
  <2>1. U = {x}
    BY <1>8, <1>5
  <2>2. IsFirst(x, U) /\ IsLast(x, U)
    BY <2>1 DEF IsFirst, IsLast
  <2>3. QED
    BY <2>2, <1>4, <1>5
<1>9. CASE V # {}
  <2>1. PICK f \in V, l \in V : IsFirst(f, V) /\ IsLast(l, V)
    BY <1>6, <1>9
  <2> HIDE DEF good, bad
  <2>2. IsFirst(f, U) \/ IsFirst(x, U)
    <3>1. \A y \in U : y = x \/ y = f \/ Less(f, y)
      BY <2>1 DEF IsFirst
    <3>2. CASE Less(f, x)
      BY <2>1, <3>1, <3>2 DEF IsFirst
    <3>3. CASE Less(x, f)
      <4>1. \A y \in U : Less(f, y) => Less(x, y)
        BY <1>7, <3>3, x \in U, f \in U, l \in U, Zenon
      <4>2. QED
        BY <3>1, <3>3, <4>1 DEF IsFirst
    <3>4. QED
      BY <2>1, <1>5, <1>7, <3>2, <3>3
  <2>3. IsLast(l, U) \/ IsLast(x, U)
    <3>1. \A y \in U : y = x \/ y = l \/ Less(y, l)
      BY <2>1 DEF IsLast
    <3>2. CASE Less(x, l)
      BY <2>1, <3>1, <3>2 DEF IsLast
    <3>3. CASE Less(l, x)
      <4>1. \A y \in U : Less(y, l) => Less(y, x)
        BY <1>7, <3>3, x \in U, f \in U, l \in U, Zenon
      <4>2. QED
        BY <3>1, <3>3, <4>1 DEF IsLast
    <3>4. QED
      BY <2>1, <1>5, <1>7, <3>2, <3>3
  <2> USE DEF good
  <2>4. QED
    BY <2>1, <2>2, <2>3, <1>4, <1>5
<1>10. QED
  BY <1>8, <1>9

-----------------------------------------------------------------------------
(***************************************************************************)
(* A map with finitely many keys whose counters are right.                 *)
(***************************************************************************)
RunsIn(S) == {k \in S : k.EvtNum < 0}
EventsIn(S) == {k \in S : k.EvtNum >= 0}

Counted(m) ==
  /\ IsFiniteSet(Keys(m)) /\ Keys(m) \subseteq MapKeys
  /\ m.nRun = Cardinality(RunsIn(Keys(m)))
  /\ m.nEvt = Cardinality(EventsIn(Keys(m)))

(***************************************************************************)
(* The counters of a cleared map are right.                                *)
(***************************************************************************)
LEMMA EmptyCounted == Counted(EmptyMap) /\ Keys(EmptyMap) = {}
<1>1. Keys(EmptyMap) = {} /\ EmptyMap.nRun = 0 /\ EmptyMap.nEvt = 0
  BY DEF EmptyMap, Keys
<1>2. RunsIn({}) = {} /\ EventsIn({}) = {}
  BY DEF RunsIn, EventsIn
<1>3. QED
  BY <1>1, <1>2, FS_EmptySet DEF Counted

(***************************************************************************)
(* A set with new elements has as many more of each kind.                  *)
(***************************************************************************)
LEMMA CardinalityOfMore ==
  ASSUME NEW S, IsFiniteSet(S), NEW T, IsFiniteSet(T)
  PROVE  /\ IsFiniteSet(S \cup T)
         /\ Cardinality(S) \in Nat /\ Cardinality(T \ S) \in Nat
         /\ Cardinality(S \cup T) = Cardinality(S) + Cardinality(T \ S)
<1>1. IsFiniteSet(T \ S)
  BY FS_Subset, T \ S \in SUBSET T
<1>2. S \cup T = S \cup (T \ S) /\ S \cap (T \ S) = {}
  OBVIOUS
<1>3. /\ IsFiniteSet(S \cup (T \ S))
      /\ Cardinality(S \cup (T \ S))
           = Cardinality(S) + Cardinality(T \ S) - Cardinality(S \cap (T \ S))
  BY <1>1, FS_Union
<1>4. Cardinality(S) \in Nat /\ Cardinality(T \ S) \in Nat
  BY <1>1, FS_CardinalityType
<1>5. Cardinality(S \cap (T \ S)) = 0
  BY <1>2, FS_EmptySet
<1>6. Cardinality(S \cup (T \ S)) = Cardinality(S) + Cardinality(T \ S)
  BY <1>3, <1>4, <1>5
<1>7. QED
  BY <1>2, <1>3, <1>4, <1>6, Zenon

(***************************************************************************)
(* The counters stay right when a record or an index is read into a map,   *)
(* whatever of it the map holds already.                                   *)
(***************************************************************************)
LEMMA AddAllCounted ==
  ASSUME NEW m, Counted(m), NEW f, IsFiniteSet(DOMAIN f), DOMAIN f \subseteq MapKeys
  PROVE  Counted(AddAll(m, f)) /\ Keys(AddAll(m, f)) = Keys(m) \cup DOMAIN f
<1> DEFINE S == Keys(m)
           T == DOMAIN f
           n == AddAll(m, f)
<1>1. Keys(n) = S \cup T
  BY DEF AddAll, Keys
<1>2. /\ IsFiniteSet(RunsIn(S)) /\ IsFiniteSet(EventsIn(S))
      /\ IsFiniteSet(RunsIn(T)) /\ IsFiniteSet(EventsIn(T))
  BY FS_Subset, RunsIn(S) \in SUBSET S, EventsIn(S) \in SUBSET S,
     RunsIn(T) \in SUBSET T, EventsIn(T) \in SUBSET T DEF Counted, RunsIn, EventsIn
<1>3. \A k \in T : k.EvtNum \in Int
  BY HalfAssumption DEF MapKeys, RunEvent, IntRange, IntMax
<1>4. /\ {k \in T \ S : k.EvtNum <= -1} = RunsIn(T) \ RunsIn(S)
      /\ {k \in T \ S : k.EvtNum > -1} = EventsIn(T) \ EventsIn(S)
  BY <1>3 DEF RunsIn, EventsIn
<1>5. /\ RunsIn(S \cup T) = RunsIn(S) \cup RunsIn(T)
      /\ EventsIn(S \cup T) = EventsIn(S) \cup EventsIn(T)
  BY DEF RunsIn, EventsIn
<1>6. n.nRun = Cardinality(RunsIn(S)) + Cardinality(RunsIn(T) \ RunsIn(S))
  BY <1>4 DEF Counted, AddAll
<1>7. n.nEvt = Cardinality(EventsIn(S)) + Cardinality(EventsIn(T) \ EventsIn(S))
  BY <1>4 DEF Counted, AddAll
<1>8. n.nRun = Cardinality(RunsIn(Keys(n)))
  BY <1>1, <1>2, <1>5, <1>6, CardinalityOfMore
<1>9. n.nEvt = Cardinality(EventsIn(Keys(n)))
  BY <1>1, <1>2, <1>5, <1>7, CardinalityOfMore
<1>10. IsFiniteSet(Keys(n)) /\ Keys(n) \subseteq MapKeys
  BY <1>1, CardinalityOfMore DEF Counted
<1>11. QED
  BY <1>1, <1>8, <1>9, <1>10 DEF Counted

(***************************************************************************)
(* add is the same as adding a series of one.                              *)
(***************************************************************************)
LEMMA AddIsAddAll ==
  ASSUME NEW m, Counted(m), NEW re \in MapKeys, NEW p,
         NEW f, f = [k \in {re} |-> p]
  PROVE  Add(m, re, p) = AddAll(m, f)
<1> DEFINE fresh == {re} \ Keys(m)
<1>1. FromLong64(ToLong64(re)) = re
  BY Long64RoundTrip DEF MapKeys
<1>2. [k \in Keys(m) \cup {re} |-> IF k = re THEN p ELSE m.pos[k]]
        = [k \in Keys(m) \cup DOMAIN f |-> IF k \in DOMAIN f THEN f[k] ELSE m.pos[k]]
  OBVIOUS
<1>3. (IF re \notin Keys(m) /\ re.EvtNum <= -1 THEN 1 ELSE 0)
        = Cardinality({k \in fresh : k.EvtNum <= -1})
  <2>1. {k \in fresh : k.EvtNum <= -1}
          = IF re \notin Keys(m) /\ re.EvtNum <= -1 THEN {re} ELSE {}
    OBVIOUS
  <2>2. QED
    BY <2>1, FS_EmptySet, FS_Singleton
<1>4. (IF re \notin Keys(m) /\ re.EvtNum > -1 THEN 1 ELSE 0)
        = Cardinality({k \in fresh : k.EvtNum > -1})
  <2>1. {k \in fresh : k.EvtNum > -1}
          = IF re \notin Keys(m) /\ re.EvtNum > -1 THEN {re} ELSE {}
    OBVIOUS
  <2>2. QED
    BY <2>1, FS_EmptySet, FS_Singleton
<1>5. DOMAIN f \ Keys(m) = fresh
  OBVIOUS
<1>6. QED
  BY <1>1, <1>2, <1>3, <1>4, <1>5 DEF Add, AddAll

(***************************************************************************)
(* The counters stay right when a record is added, known or not.           *)
(***************************************************************************)
LEMMA AddCounted ==
  ASSUME NEW m, Counted(m), NEW re \in MapKeys, NEW p
  PROVE  Counted(Add(m, re, p)) /\ Keys(Add(m, re, p)) = Keys(m) \cup {re}
<1> DEFINE f == [k \in {re} |-> p]
<1>1. DOMAIN f = {re}
  OBVIOUS
<1>2. IsFiniteSet(DOMAIN f) /\ DOMAIN f \subseteq MapKeys
  BY <1>1, FS_Singleton
<1>3. Add(m, re, p) = AddAll(m, f)
  BY AddIsAddAll
<1> HIDE DEF f
<1>4. Counted(AddAll(m, f)) /\ Keys(AddAll(m, f)) = Keys(m) \cup DOMAIN f
  BY <1>2, AddAllCounted
<1>5. QED
  BY <1>1, <1>3, <1>4

-----------------------------------------------------------------------------
(***************************************************************************)
(* A number that differs from an int by a multiple of the modulus is       *)
(* stored as that int.                                                     *)
(***************************************************************************)
LEMMA ToIntModulo ==
  ASSUME NEW n \in Int, NEW k \in Int, NEW x \in IntRange, n = x + k * Word
  PROVE  ToInt(n) = x
<1>1. /\ Half \in Nat /\ Word = 2 * Half /\ Word \in Nat /\ Word > 0
      /\ x \in Int /\ x + Half \in 0 .. Word - 1
  BY HalfAssumption DEF IntRange, IntMax, Word
<1>2. n + Half = k * Word + (x + Half)
  BY <1>1
<1>3. (n + Half) % Word = x + Half
  BY <1>1, <1>2, DivMod
<1>4. QED
  BY <1>1, <1>3 DEF ToInt

(***************************************************************************)
(* Storing a number in an int gives an int that differs by a multiple of   *)
(* the modulus.                                                            *)
(***************************************************************************)
LEMMA ToIntType ==
  ASSUME NEW n \in Int
  PROVE  ToInt(n) \in IntRange /\ \E k \in Int : n = ToInt(n) + k * Word
<1>1. Word \in Nat /\ Word > 0 /\ Word = 2 * Half /\ Half \in Nat
  BY HalfAssumption DEF Word
<1>2. PICK k \in Int, m \in 0 .. Word - 1 :
        k = (n + Half) \div Word /\ m = (n + Half) % Word /\ n + Half = k * Word + m
  BY <1>1, SMTT(30)
<1>3. ToInt(n) = m - Half
  BY <1>2 DEF ToInt
<1>4. ToInt(n) \in IntRange
  BY <1>1, <1>2, <1>3 DEF IntRange, IntMax
<1>5. k * Word \in Int
  BY <1>1
<1>6. n = ToInt(n) + k * Word
  BY <1>1, <1>2, <1>3, <1>5
<1>7. QED
  BY <1>4, <1>6

(***************************************************************************)
(* The offset of a run number, kept in an int and added to the first run   *)
(* number in an int, gives the run number, also when the difference of the *)
(* two overflows.                                                          *)
(***************************************************************************)
LEMMA OffsetOfRun ==
  ASSUME NEW r \in IntRange, NEW r0 \in IntRange
  PROVE  ToInt(r0 + ToInt(r - r0)) = r
<1>1. r \in Int /\ r0 \in Int /\ r - r0 \in Int /\ Word \in Int
  BY HalfAssumption DEF IntRange, IntMax, Word
<1>2. ToInt(r - r0) \in Int
  BY <1>1, ToIntType, HalfAssumption DEF IntRange, IntMax
<1>3. PICK k \in Int : r - r0 = ToInt(r - r0) + k * Word
  BY <1>1, ToIntType
<1>4. r0 + ToInt(r - r0) = r + (-k) * Word
  BY <1>1, <1>2, <1>3
<1>5. r0 + ToInt(r - r0) \in Int /\ -k \in Int
  BY <1>1, <1>2
<1>6. QED
  BY <1>4, <1>5, ToIntModulo

(***************************************************************************)
(* What a manager can hold: positions are integers, the counters are       *)
(* right.                                                                  *)
(***************************************************************************)
MapOK(m) == Counted(m) /\ m.pos \in [Keys(m) -> Int]

(***************************************************************************)
(* The first and the last key of a map that is not empty.                  *)
(***************************************************************************)
LEMMA EndsOfMap ==
  ASSUME NEW m, MapOK(m), ~IsEmpty(m)
  PROVE  /\ MinRunEvent(m) \in Keys(m)
         /\ MaxRunEvent(m) \in Keys(m)
         /\ \A k \in Keys(m) : GetPosition(m, k) = m.pos[k]
<1>1. Keys(m) \in SUBSET MapKeys /\ IsFiniteSet(Keys(m)) /\ Keys(m) # {}
  BY DEF MapOK, Counted, IsEmpty
<1>2. (\E k \in Keys(m) : IsFirst(k, Keys(m))) /\ (\E k \in Keys(m) : IsLast(k, Keys(m)))
  BY <1>1, FirstAndLast
<1>3. MinRunEvent(m) \in Keys(m) /\ MaxRunEvent(m) \in Keys(m)
  BY <1>2 DEF MinRunEvent, MaxRunEvent, IsEmpty
<1>4. \A k \in Keys(m) : FromLong64(ToLong64(k)) = k
  BY <1>1, Long64RoundTrip DEF MapKeys
<1>5. QED
  BY <1>3, <1>4 DEF GetPosition

(***************************************************************************)
(* What the reader adds is a set of keys a map can hold, compactible or    *)
(* not.                                                                    *)
(***************************************************************************)
LEMMA DecodeType ==
  ASSUME NEW m, MapOK(m), ~IsEmpty(m)
  PROVE  LET f == Decode(Encode(m))
         IN  /\ IsFiniteSet(DOMAIN f) /\ DOMAIN f \subseteq MapKeys
             /\ f \in [DOMAIN f -> Int]
<1> DEFINE idx == Encode(m)
           S == Keys(m)
           T == {EntryKey(idx, p) : p \in S}
           key == [p \in S |-> EntryKey(idx, p)]
<1>1. /\ DOMAIN idx.entry = S
      /\ \A p \in S : /\ idx.entry[p].evtNum = p.EvtNum
                      /\ idx.entry[p].runOffset \in Int
                      /\ idx.entry[p].offset \in Int
  <2>1. \A p \in S : p.RunNum \in Int /\ m.pos[p] \in Int
    BY HalfAssumption DEF MapOK, Counted, MapKeys, RunEvent, IntRange, IntMax
  <2>2. MinRunEvent(m).RunNum \in Int /\ GetPosition(m, MinRunEvent(m)) \in Int
    BY <2>1, EndsOfMap
  <2>3. \A n \in Int : ToInt(n) \in Int
    BY ToIntType, HalfAssumption DEF IntRange, IntMax
  <2>4. QED
    BY <2>1, <2>2, <2>3 DEF Encode
<1>2. idx.runMin \in Int /\ idx.baseOffset \in Int
  BY EndsOfMap, HalfAssumption
     DEF Encode, MapOK, Counted, MapKeys, RunEvent, IntRange, IntMax
<1>3. \A p \in S : EntryKey(idx, p) \in MapKeys /\ EntryPos(idx, p) \in Int
  <2> SUFFICES ASSUME NEW p \in S
               PROVE  EntryKey(idx, p) \in MapKeys /\ EntryPos(idx, p) \in Int
    OBVIOUS
  <2> HIDE DEF idx
  <2>1. ToInt(idx.runMin + idx.entry[p].runOffset) \in IntRange
    BY <1>1, <1>2, ToIntType
  <2>2. p.EvtNum \in IntRange /\ p.EvtNum >= -1
    BY DEF MapOK, Counted, MapKeys, RunEvent
  <2>3. QED
    BY <1>1, <1>2, <2>1, <2>2 DEF EntryKey, EntryPos, EvtKey, MapKeys, RunEvent
<1>4. IsFiniteSet(T)
  <2>1. key \in Surjection(S, T)
    BY DEF Surjection
  <2>2. QED
    BY <2>1, FS_Surjection DEF MapOK, Counted
<1>5. DOMAIN Decode(idx) = T
  BY <1>1 DEF Decode
<1>6. Decode(idx) \in [T -> Int]
  <2> HIDE DEF idx
  <2> DEFINE from(k) == {p \in S : EntryKey(idx, p) = k}
             last(k) == CHOOSE p \in from(k) : IsLast(p, from(k))
  <2>1. ASSUME NEW k \in T PROVE last(k) \in S
    <3>1. from(k) # {} /\ from(k) \in SUBSET S
      OBVIOUS
    <3>2. from(k) \in SUBSET MapKeys /\ IsFiniteSet(from(k))
      BY <3>1, FS_Subset DEF MapOK, Counted
    <3>3. \E p \in from(k) : IsLast(p, from(k))
      BY <3>1, <3>2, FirstAndLast
    <3>4. QED
      BY <3>1, <3>3
  <2>2. Decode(idx) = [k \in T |-> EntryPos(idx, last(k))]
    BY <1>1 DEF Decode
  <2>3. QED
    BY <1>3, <2>1, <2>2
<1>7. QED
  BY <1>3, <1>4, <1>5, <1>6

(***************************************************************************)
(* The record of a compactible map read back is the map.                   *)
(***************************************************************************)
THEOREM CompactibleRoundTrip ==
  ASSUME NEW m, MapOK(m), ~IsEmpty(m), Compactible(m)
  PROVE  Decode(Encode(m)) = m.pos
<1> DEFINE idx == Encode(m)
           S == Keys(m)
           lo == MinRunEvent(m)
           hi == MaxRunEvent(m)
<1>1. /\ lo \in S /\ hi \in S
      /\ GetPosition(m, lo) = m.pos[lo] /\ GetPosition(m, hi) = m.pos[hi]
  BY EndsOfMap
<1>2. \A p \in S : /\ p.RunNum \in IntRange /\ p.RunNum \in Int /\ m.pos[p] \in Int
                   /\ p = EvtKey(p.RunNum, p.EvtNum)
  BY HalfAssumption DEF MapOK, Counted, MapKeys, RunEvent, EvtKey, IntRange, IntMax
<1>3. /\ DOMAIN idx.entry = S
      /\ idx.runMin = lo.RunNum
      /\ idx.baseOffset = m.pos[lo]
      /\ idx.oneRun = (lo.RunNum = hi.RunNum)
      /\ \A p \in S : /\ idx.entry[p].evtNum = p.EvtNum
                      /\ idx.entry[p].runOffset
                           = IF idx.oneRun THEN 0 ELSE ToInt(p.RunNum - lo.RunNum)
                      /\ idx.entry[p].offset
                           = IF idx.longOffset THEN m.pos[p] - m.pos[lo]
                             ELSE ToInt(m.pos[p] - m.pos[lo])
  BY <1>1 DEF Encode
<1>4. /\ idx.oneRun => \A a, b \in S : a.RunNum = b.RunNum
      /\ ~idx.longOffset => \A p \in S : m.pos[p] - m.pos[lo] \in IntRange
  BY <1>1 DEF Compactible, SameRun, NearBase
<1> HIDE DEF idx, lo, hi
<1>5. ASSUME NEW p \in S PROVE EntryKey(idx, p) = p
  <2>1. ToInt(idx.runMin + idx.entry[p].runOffset) = p.RunNum
    <3>1. CASE idx.oneRun
      <4>1. p.RunNum = lo.RunNum /\ idx.runMin + idx.entry[p].runOffset = p.RunNum
        BY <1>1, <1>2, <1>3, <1>4, <3>1
      <4>2. QED
        BY <4>1, <1>2, ToIntOfInt
    <3>2. CASE ~idx.oneRun
      BY <1>1, <1>2, <1>3, <3>2, OffsetOfRun
    <3>3. QED
      BY <3>1, <3>2
  <2>2. QED
    BY <1>2, <1>3, <2>1 DEF EntryKey
<1>6. ASSUME NEW p \in S PROVE EntryPos(idx, p) = m.pos[p]
  <2>1. idx.entry[p].offset = m.pos[p] - m.pos[lo]
    BY <1>3, <1>4, ToIntOfInt
  <2>2. QED
    BY <1>1, <1>2, <1>3, <2>1 DEF EntryPos
<1>7. {EntryKey(idx, p) : p \in S} = S
  BY <1>5
<1>8. ASSUME NEW k \in S
      PROVE  LET from == {p \in S : EntryKey(idx, p) = k}
             IN  (CHOOSE p \in from : IsLast(p, from)) = k
  <2>1. {p \in S : EntryKey(idx, p) = k} = {k}
    BY <1>5
  <2>2. IsLast(k, {k})
    BY DEF IsLast
  <2>3. QED
    BY <2>1, <2>2
<1>9. Decode(idx) = [k \in S |-> m.pos[k]]
  <2> DEFINE last(k) == CHOOSE p \in {x \in S : EntryKey(idx, x) = k} :
                          IsLast(p, {x \in S : EntryKey(idx, x) = k})
  <2>1. Decode(idx) = [k \in S |-> EntryPos(idx, last(k))]
    BY <1>3, <1>7 DEF Decode
  <2>2. \A k \in S : EntryPos(idx, last(k)) = m.pos[k]
    BY <1>6, <1>8
  <2> HIDE DEF last
  <2>3. QED
    BY <2>1, <2>2
<1>10. QED
  BY <1>9 DEF MapOK, idx

(***************************************************************************)
(* The map of a writer whose client writes a run header for every run it   *)
(* writes events of, or no run header at all, is compactible as long as    *)
(* the file is no longer than an int can say: when the first and the last  *)
(* key have the same run, there is no other.                               *)
(***************************************************************************)
THEOREM WholeRunsCompactible ==
  ASSUME NEW m, MapOK(m), ~IsEmpty(m), \A k \in Keys(m) : m.pos[k] \in 0 .. IntMax,
         \/ RunsIn(Keys(m)) = {}
         \/ {k.RunNum : k \in RunsIn(Keys(m))} = {k.RunNum : k \in EventsIn(Keys(m))}
  PROVE  Compactible(m)
<1> DEFINE S == Keys(m)
           lo == MinRunEvent(m)
           hi == MaxRunEvent(m)
<1>1. S \in SUBSET MapKeys /\ IsFiniteSet(S) /\ S # {}
  BY DEF MapOK, Counted, IsEmpty
<1>2. IsFirst(lo, S) /\ IsLast(hi, S)
  <2>1. (\E k \in S : IsFirst(k, S)) /\ (\E k \in S : IsLast(k, S))
    BY <1>1, FirstAndLast
  <2>2. QED
    BY <1>1, <2>1 DEF MinRunEvent, MaxRunEvent, IsEmpty
<1> HIDE DEF lo, hi
<1>3. \A k \in S : k.RunNum \in Int /\ k.EvtNum \in Int
  BY <1>1, HalfAssumption DEF MapKeys, RunEvent, IntRange, IntMax
<1>4. lo \in S /\ hi \in S
  BY <1>2 DEF IsFirst, IsLast
<1>5. \A k \in S : k = lo \/ Less(lo, k)
  BY <1>2 DEF IsFirst
<1>6. \A k \in S : k = hi \/ Less(k, hi)
  BY <1>2 DEF IsLast
<1>7. ASSUME NEW k \in S PROVE lo.RunNum <= k.RunNum /\ k.RunNum <= hi.RunNum
  <2>1. CASE RunsIn(S) = {}
    <3>1. \A x \in S : x.EvtNum >= 0
      BY <1>3, <2>1 DEF RunsIn
    <3>2. QED
      BY <1>3, <1>4, <1>5, <1>6, <3>1 DEF Less
  <2>2. CASE RunsIn(S) # {} /\ {x.RunNum : x \in RunsIn(S)} = {x.RunNum : x \in EventsIn(S)}
    <3>1. PICK a \in S, b \in S : a.EvtNum < 0 /\ b.EvtNum >= 0
      BY <2>2 DEF RunsIn, EventsIn
    <3>2. lo.EvtNum < 0 /\ hi.EvtNum >= 0
      BY <1>3, <1>4, <1>5, <1>6, <3>1 DEF Less
    <3>3. \A x \in S : x.EvtNum < 0 => lo.RunNum <= x.RunNum
      BY <1>3, <1>4, <1>5, <3>2 DEF Less
    <3>4. \A x \in S : x.EvtNum >= 0 => x.RunNum <= hi.RunNum
      BY <1>3, <1>4, <1>6, <3>2 DEF Less
    <3>5. CASE k.EvtNum < 0
      <4>1. k.RunNum \in {x.RunNum : x \in EventsIn(S)}
        BY <2>2, <3>5 DEF RunsIn
      <4>2. PICK x \in S : x.EvtNum >= 0 /\ x.RunNum = k.RunNum
        BY <4>1 DEF EventsIn
      <4>3. QED
        BY <3>3, <3>4, <3>5, <4>2
    <3>6. CASE k.EvtNum >= 0
      <4>1. k.RunNum \in {x.RunNum : x \in RunsIn(S)}
        BY <2>2, <3>6 DEF EventsIn
      <4>2. PICK x \in S : x.EvtNum < 0 /\ x.RunNum = k.RunNum
        BY <4>1 DEF RunsIn
      <4>3. QED
        BY <3>3, <3>4, <3>6, <4>2
    <3>7. QED
      BY <1>3, <3>5, <3>6
  <2>3. QED
    BY <2>1, <2>2
<1>8. lo.RunNum = hi.RunNum => SameRun(m)
  <2> SUFFICES ASSUME lo.RunNum = hi.RunNum, NEW a \in S, NEW b \in S PROVE a.RunNum = b.RunNum
    BY DEF SameRun
  <2>1. QED
    BY <1>3, <1>4, <1>7
<1>9. NearBase(m)
  <2>1. GetPosition(m, lo) = m.pos[lo]
    BY <1>4, EndsOfMap
  <2>2. \A k \in S : m.pos[k] - m.pos[lo] \in IntRange
    BY <1>4, HalfAssumption DEF IntRange, IntMax
  <2>3. QED
    BY <2>1, <2>2 DEF NearBase, lo
<1>10. QED
  BY <1>8, <1>9 DEF Compactible, Encode, lo, hi

-----------------------------------------------------------------------------
(***************************************************************************)
(* Induction over the natural numbers and the existence of recursive       *)
(* functions, stated of sets and functions: what the proofs about loops    *)
(* that follow positions in a file, or count, rest on.                     *)
(***************************************************************************)
\* The order of the natural numbers is well-founded.
LEMMA LessWellFounded == IsWellFoundedOn({ss \in Nat \X Nat : ss[1] < ss[2]}, Nat)
BY NatLessThanWellFounded DEF OpToRel

(***************************************************************************)
(* A set of natural numbers that is not empty has a least element.         *)
(***************************************************************************)
LEMMA LeastNatural ==
  ASSUME NEW S \in SUBSET Nat, S # {}
  PROVE  \E n \in S : \A m \in S : n <= m
<1> DEFINE R == {ss \in Nat \X Nat : ss[1] < ss[2]}
<1>1. \E x \in S : \A y \in S : ~(<<y, x>> \in R)
  <2> HIDE DEF R
  <2>1. IsWellFoundedOn(R, Nat)
    BY LessWellFounded DEF R
  <2>2. QED
    BY <2>1, WFMin
<1>2. \A x, y \in Nat : y < x => <<y, x>> \in R
  OBVIOUS
<1> HIDE DEF R
<1>3. PICK x \in S : \A y \in S : ~(<<y, x>> \in R)
  BY <1>1
<1>4. \A y \in S : ~(y < x)
  BY <1>2, <1>3
<1>5. QED
  BY <1>4

(***************************************************************************)
(* Induction, for the set of the numbers that have a property.             *)
(***************************************************************************)
LEMMA SetInduction ==
  ASSUME NEW S \in SUBSET Nat, 0 \in S, \A n \in S : n + 1 \in S
  PROVE  S = Nat
<1> SUFFICES ASSUME S # Nat PROVE FALSE
  OBVIOUS
<1>1. PICK n \in Nat \ S : \A m \in Nat \ S : n <= m
  BY LeastNatural
<1>2. n # 0 /\ n - 1 \in Nat /\ n - 1 \in S
  BY <1>1
<1>3. (n - 1) + 1 = n
  OBVIOUS
<1>4. QED
  BY <1>1, <1>2, <1>3

(***************************************************************************)
(* g solves, on D, the equation of a recursive function that calls itself  *)
(* for nxt[p] unless p is in stop.                                         *)
(***************************************************************************)
Solves(g, D, V, stop, base, nxt, step) ==
  /\ g \in [D -> V]
  /\ \A p \in D : g[p] = IF p \in stop THEN base[p] ELSE step[<<p, g[nxt[p]]>>]

(***************************************************************************)
(* A recursive function exists when its calls go down in some rank.        *)
(***************************************************************************)
LEMMA RecursionExists ==
  ASSUME NEW Dom, NEW V, NEW stop, NEW rank \in [Dom -> Nat], NEW nxt \in [Dom -> Dom],
         NEW base \in [Dom -> V], NEW step \in [Dom \X V -> V],
         \A p \in Dom \ stop : rank[nxt[p]] < rank[p]
  PROVE  \E f : Solves(f, Dom, V, stop, base, nxt, step)
<1> DEFINE D(n) == {p \in Dom : rank[p] <= n}
           Ok(g, n) == Solves(g, D(n), V, stop, base, nxt, step)
           S == {n \in Nat : \E g : Ok(g, n)}
<1>1. ASSUME NEW n \in Nat, NEW p \in D(n), p \notin stop
      PROVE  nxt[p] \in D(n) /\ rank[nxt[p]] < rank[p]
  <2>1. p \in Dom /\ nxt[p] \in Dom /\ rank[p] \in Nat /\ rank[p] <= n
    BY <1>1
  <2>2. rank[nxt[p]] \in Nat /\ rank[nxt[p]] < rank[p]
    BY <1>1, <2>1
  <2>3. QED
    BY <2>1, <2>2
\* Two solutions agree where both are defined.
<1>2. ASSUME NEW n \in Nat, NEW m \in Nat, NEW g, NEW h, Ok(g, n), Ok(h, m)
      PROVE  \A p \in D(n) \cap D(m) : g[p] = h[p]
  <2> DEFINE Bad == {r \in Nat : \E p \in D(n) \cap D(m) : rank[p] = r /\ g[p] # h[p]}
  <2>1. SUFFICES ASSUME Bad # {} PROVE FALSE
    OBVIOUS
  <2>2. PICK r \in Bad : \A q \in Bad : r <= q
    BY <2>1, LeastNatural
  <2>3. PICK p \in D(n) \cap D(m) : rank[p] = r /\ g[p] # h[p]
    OBVIOUS
  <2>4. p \notin stop
    BY <1>2, <2>3 DEF Solves
  <2>5. nxt[p] \in D(n) \cap D(m) /\ rank[nxt[p]] < r /\ rank[nxt[p]] \in Nat
    BY <1>1, <2>3, <2>4
  <2>6. g[nxt[p]] = h[nxt[p]]
    <3>1. rank[nxt[p]] \notin Bad
      BY <2>2, <2>5
    <3>2. QED
      BY <2>5, <3>1
  <2>7. g[p] = step[<<p, g[nxt[p]]>>] /\ h[p] = step[<<p, h[nxt[p]]>>]
    BY <1>2, <2>3, <2>4 DEF Solves
  <2>8. QED
    BY <2>3, <2>6, <2>7
<1> DEFINE Value(p, v) == \E n \in Nat : \E g : Ok(g, n) /\ p \in D(n) /\ g[p] = v
<1>3. ASSUME NEW p, NEW v, NEW w, Value(p, v), Value(p, w) PROVE v = w
  <2>1. PICK n \in Nat : \E g : Ok(g, n) /\ p \in D(n) /\ g[p] = v
    BY <1>3
  <2>2. PICK g : Ok(g, n) /\ p \in D(n) /\ g[p] = v
    BY <2>1
  <2>3. PICK m \in Nat : \E h : Ok(h, m) /\ p \in D(m) /\ h[p] = w
    BY <1>3
  <2>4. PICK h : Ok(h, m) /\ p \in D(m) /\ h[p] = w
    BY <2>3
  <2>5. p \in D(n) \cap D(m)
    BY <2>2, <2>4
  <2>6. \A x \in D(n) \cap D(m) : g[x] = h[x]
    <3> HIDE DEF Ok, D
    <3>1. QED
      BY <1>2, <2>2, <2>4
  <2>7. QED
    BY <2>2, <2>4, <2>5, <2>6
<1> HIDE DEF Value
<1>4. \A n \in Nat : \E g : Ok(g, n)
  <2> DEFINE Bad == {n \in Nat : ~\E g : Ok(g, n)}
  <2>1. SUFFICES ASSUME Bad # {} PROVE FALSE
    OBVIOUS
  <2>2. PICK n \in Bad : \A m \in Bad : n <= m
    BY <2>1, LeastNatural
  <2>3. \A m \in Nat : m < n => \E g : Ok(g, m)
    <3> HIDE DEF Ok
    <3> SUFFICES ASSUME NEW m \in Nat, m < n, ~\E g : Ok(g, m) PROVE FALSE
      OBVIOUS
    <3>1. m \in Bad /\ n \in Nat
      OBVIOUS
    <3> HIDE DEF Bad
    <3>2. n <= m
      BY <2>2, <3>1
    <3>3. QED
      BY <3>1, <3>2
  <2> DEFINE h == [m \in {k \in Nat : k < n} |-> CHOOSE g : Ok(g, m)]
             v(p) == h[rank[nxt[p]]][nxt[p]]
             G == [p \in D(n) |-> IF p \in stop THEN base[p] ELSE step[<<p, v(p)>>]]
  <2>4. \A m \in Nat : m < n => Ok(h[m], m)
    <3> HIDE DEF Ok
    <3>1. \A m \in Nat : m < n => Ok(CHOOSE g : Ok(g, m), m)
      BY <2>3
    <3>2. QED
      BY <3>1
  <2> HIDE DEF h
  <2>5. ASSUME NEW p \in D(n), p \notin stop
        PROVE  /\ rank[nxt[p]] \in Nat /\ rank[nxt[p]] < n /\ nxt[p] \in D(rank[nxt[p]])
               /\ v(p) \in V
    <3>1. nxt[p] \in Dom /\ rank[nxt[p]] \in Nat /\ rank[nxt[p]] < n
      BY <2>5
    <3>2. nxt[p] \in D(rank[nxt[p]])
      BY <3>1
    <3>3. Ok(h[rank[nxt[p]]], rank[nxt[p]])
      BY <2>4, <3>1
    <3>4. v(p) \in V
      BY <3>2, <3>3 DEF Solves
    <3>5. QED
      BY <3>1, <3>2, <3>4
  <2>6. G \in [D(n) -> V]
    <3>1. \A p \in D(n) : (IF p \in stop THEN base[p] ELSE step[<<p, v(p)>>]) \in V
      BY <2>5
    <3>2. QED
      BY <3>1
  <2>7. ASSUME NEW p \in D(n), p \notin stop PROVE v(p) = G[nxt[p]]
    <3> DEFINE q == nxt[p]
    <3>1. q \in D(n) /\ rank[q] \in Nat /\ rank[q] < n /\ q \in D(rank[q])
      BY <1>1, <2>5, <2>7
    <3>2. Ok(h[rank[q]], rank[q])
      BY <2>4, <3>1
    <3>3. CASE q \in stop
      BY <3>1, <3>2, <3>3 DEF Solves
    <3>4. CASE q \notin stop
      <4>1. h[rank[q]][q] = step[<<q, h[rank[q]][nxt[q]]>>]
        BY <3>1, <3>2, <3>4 DEF Solves
      <4>2. nxt[q] \in D(rank[q]) /\ rank[nxt[q]] \in Nat /\ rank[nxt[q]] < n /\ nxt[q] \in D(rank[nxt[q]])
        BY <1>1, <2>5, <3>1, <3>4
      <4>3. Ok(h[rank[nxt[q]]], rank[nxt[q]])
        BY <2>4, <4>2
      <4>4. h[rank[q]][nxt[q]] = h[rank[nxt[q]]][nxt[q]]
        <5>1. Value(nxt[q], h[rank[q]][nxt[q]])
          <6> HIDE DEF Ok, D
          <6>1. QED
            BY <3>1, <3>2, <4>2 DEF Value
        <5>2. Value(nxt[q], h[rank[nxt[q]]][nxt[q]])
          <6> HIDE DEF Ok, D
          <6>1. QED
            BY <4>2, <4>3, Zenon DEF Value
        <5>3. QED
          BY <1>3, <5>1, <5>2
      <4>5. QED
        BY <3>1, <3>4, <4>1, <4>4
    <3>5. QED
      BY <3>3, <3>4
  <2>8. Ok(G, n)
    <3>1. \A p \in D(n) : G[p] = IF p \in stop THEN base[p] ELSE step[<<p, v(p)>>]
      OBVIOUS
    <3> HIDE DEF G, D
    <3>2. \A p \in D(n) : G[p] = IF p \in stop THEN base[p] ELSE step[<<p, G[nxt[p]]>>]
      BY <2>7, <3>1
    <3>3. QED
      BY <2>6, <3>2 DEF Solves
  <2>9. QED
    BY <2>2, <2>8
<1> DEFINE G(n) == CHOOSE g : Ok(g, n)
           f == [p \in Dom |-> G(rank[p])[p]]
<1>5. \A n \in Nat : Ok(G(n), n)
  <2> HIDE DEF Ok
  <2>1. QED
    BY <1>4
<1> HIDE DEF G
<1>6. ASSUME NEW p \in Dom
      PROVE  f[p] \in V /\ f[p] = IF p \in stop THEN base[p] ELSE step[<<p, f[nxt[p]]>>]
  <2>1. rank[p] \in Nat /\ p \in D(rank[p]) /\ Ok(G(rank[p]), rank[p])
    BY <1>5
  <2>2. f[p] \in V
    BY <2>1 DEF Solves
  <2>3. CASE p \in stop
    BY <2>1, <2>2, <2>3 DEF Solves
  <2>4. CASE p \notin stop
    <3>1. nxt[p] \in D(rank[p]) /\ rank[nxt[p]] \in Nat /\ nxt[p] \in D(rank[nxt[p]]) /\ nxt[p] \in Dom
      BY <1>1, <2>1, <2>4
    <3>2. Ok(G(rank[nxt[p]]), rank[nxt[p]])
      BY <1>5, <3>1
    <3>3. G(rank[p])[nxt[p]] = G(rank[nxt[p]])[nxt[p]]
      <4>1. Value(nxt[p], G(rank[p])[nxt[p]])
        <5> HIDE DEF Ok, D
        <5>1. QED
          BY <2>1, <3>1 DEF Value
      <4>2. Value(nxt[p], G(rank[nxt[p]])[nxt[p]])
        <5> HIDE DEF Ok, D
        <5>1. QED
          BY <3>1, <3>2 DEF Value
      <4>3. QED
        BY <1>3, <4>1, <4>2
    <3>4. QED
      BY <2>1, <2>2, <2>4, <3>1, <3>3 DEF Solves
  <2>5. QED
    BY <2>3, <2>4
<1>7. f \in [Dom -> V]
  BY <1>6
<1> HIDE DEF f
<1>8. Solves(f, Dom, V, stop, base, nxt, step)
  BY <1>6, <1>7 DEF Solves
<1>9. QED
  BY <1>8

(***************************************************************************)
(* f collects what a walk passes that goes from p to nxt[p] up to stop,    *)
(* where it takes what is in base.                                         *)
(***************************************************************************)
Collects(f, stop, base, nxt) ==
  /\ f \in [Nat -> SUBSET Nat]
  /\ \A p \in Nat : f[p] = IF p \in stop THEN base[p] ELSE {p} \cup f[nxt[p]]

(***************************************************************************)
(* Such a function exists when the walk goes down in some rank.            *)
(***************************************************************************)
LEMMA ReachExists ==
  ASSUME NEW stop, NEW rank \in [Nat -> Nat], NEW nxt \in [Nat -> Nat],
         NEW base \in [Nat -> SUBSET Nat],
         \A p \in Nat \ stop : rank[nxt[p]] < rank[p]
  PROVE  \E f : Collects(f, stop, base, nxt)
<1> DEFINE V == SUBSET Nat
           step == [x \in Nat \X V |-> {x[1]} \cup x[2]]
<1>1. step \in [Nat \X V -> V]
  OBVIOUS
<1>2. \A p \in Nat, v \in V : step[<<p, v>>] = {p} \cup v
  OBVIOUS
<1> HIDE DEF step, V
<1>3. base \in [Nat -> V]
  BY DEF V
<1>4. PICK f : Solves(f, Nat, V, stop, base, nxt, step)
  <2> HIDE DEF V
  <2>1. QED
    BY <1>1, <1>3, RecursionExists
<1>5. f \in [Nat -> V] /\ \A p \in Nat : f[nxt[p]] \in V
  BY <1>4 DEF Solves
<1>6. \A p \in Nat : f[p] = IF p \in stop THEN base[p] ELSE {p} \cup f[nxt[p]]
  BY <1>2, <1>4, <1>5 DEF Solves
<1>7. QED
  BY <1>5, <1>6 DEF V, Collects

-----------------------------------------------------------------------------
(* Sequences. *)

(***************************************************************************)
(* Induction from 1 to n, for the set of the numbers that have a property. *)
(***************************************************************************)
LEMMA UpToInduction ==
  ASSUME NEW n \in Nat, NEW T, \A i \in 1 .. n : (i = 1 \/ i - 1 \in T) => i \in T
  PROVE  1 .. n \subseteq T
<1> DEFINE Bad == (1 .. n) \ T
<1>1. SUFFICES ASSUME Bad # {} PROVE FALSE
  OBVIOUS
<1>2. Bad \in SUBSET Nat
  OBVIOUS
<1>3. PICK i \in Bad : \A j \in Bad : i <= j
  <2> HIDE DEF Bad
  <2>1. QED
    BY <1>1, <1>2, LeastNatural
<1>4. i \in 1 .. n /\ i \notin T /\ i # 1
  OBVIOUS
<1>5. i - 1 \in 1 .. n /\ ~(i <= i - 1)
  BY <1>4
<1>6. i - 1 \notin Bad
  <2> HIDE DEF Bad
  <2>1. QED
    BY <1>3, <1>5
<1>7. QED
  BY <1>4, <1>5, <1>6

(***************************************************************************)
(* FlattenSeq is the recursive function its definition chooses.            *)
(***************************************************************************)
Flattens(F, ss, n, X) ==
  /\ F \in [1 .. n -> Seq(X)]
  /\ \A i \in 1 .. n : F[i] = IF i = 1 THEN ss[i] ELSE F[i - 1] \o ss[i]

(***************************************************************************)
(* There is such a function for every series of sequences, and it is the   *)
(* one that FlattenSeq chooses.                                            *)
(***************************************************************************)
LEMMA FlattenIs ==
  ASSUME NEW X, NEW n \in Nat \ {0}, NEW ss \in [1 .. n -> Seq(X)]
  PROVE  \E F : Flattens(F, ss, n, X) /\ FlattenSeq(ss) = F[n]
<1> DEFINE V == Seq(X)
           nxt == [i \in 1 .. n |-> IF i = 1 THEN 1 ELSE i - 1]
           rank == [i \in 1 .. n |-> i]
           step == [x \in (1 .. n) \X V |-> x[2] \o ss[x[1]]]
<1>1. nxt \in [1 .. n -> 1 .. n] /\ rank \in [1 .. n -> Nat]
  OBVIOUS
<1>2. step \in [(1 .. n) \X V -> V] /\ \A i \in 1 .. n, v \in V : step[<<i, v>>] = v \o ss[i]
  <2>1. \A x \in (1 .. n) \X V : x[1] \in 1 .. n /\ x[2] \in V /\ ss[x[1]] \in V
    OBVIOUS
  <2>2. \A v, w \in V : v \o w \in V
    OBVIOUS
  <2>3. \A i \in 1 .. n, v \in V : <<i, v>> \in (1 .. n) \X V
    OBVIOUS
  <2> HIDE DEF V
  <2>4. QED
    BY <2>1, <2>2, <2>3
<1>3. \A i \in (1 .. n) \ {1} : rank[nxt[i]] < rank[i] /\ nxt[i] = i - 1
  OBVIOUS
<1> HIDE DEF nxt, rank, step
<1>4. PICK F : Solves(F, 1 .. n, V, {1}, ss, nxt, step)
  <2> HIDE DEF V
  <2>1. ss \in [1 .. n -> V]
    BY DEF V
  <2>2. QED
    BY <1>1, <1>2, <1>3, <2>1, RecursionExists
<1>5. F \in [1 .. n -> V]
  BY <1>4 DEF Solves
<1>6. ASSUME NEW i \in 1 .. n
      PROVE  F[i] = IF i = 1 THEN ss[i] ELSE F[i - 1] \o ss[i]
  <2>1. CASE i = 1
    BY <1>4, <2>1 DEF Solves
  <2>2. CASE i # 1
    <3>1. F[i] = step[<<i, F[nxt[i]]>>] /\ nxt[i] = i - 1 /\ i - 1 \in 1 .. n
      BY <1>3, <1>4, <2>2 DEF Solves
    <3>2. QED
      BY <1>2, <1>5, <2>2, <3>1
  <2>3. QED
    BY <2>1, <2>2
<1>7. Flattens(F, ss, n, X)
  BY <1>5, <1>6 DEF Flattens
<1>8. Len(ss) = n /\ Len(ss) # 0
  OBVIOUS
<1>9. F = [i \in 1 .. n |-> IF i = 1 THEN ss[i] ELSE F[i - 1] \o ss[i]]
  BY <1>5, <1>6
<1> DEFINE G == CHOOSE f : f = [i \in 1 .. n |-> IF i = 1 THEN ss[i] ELSE f[i - 1] \o ss[i]]
<1>10. FlattenSeq(ss) = G[n]
  BY <1>8 DEF FlattenSeq
<1>11. G = [i \in 1 .. n |-> IF i = 1 THEN ss[i] ELSE G[i - 1] \o ss[i]]
  BY <1>9
<1> HIDE DEF G
<1>12. 1 .. n \subseteq {i \in 1 .. n : G[i] = F[i]}
  <2> DEFINE T == {i \in 1 .. n : G[i] = F[i]}
  <2>1. ASSUME NEW i \in 1 .. n, i = 1 \/ i - 1 \in T PROVE i \in T
    <3>1. F[i] = IF i = 1 THEN ss[i] ELSE F[i - 1] \o ss[i]
      BY <1>6
    <3>2. G[i] = IF i = 1 THEN ss[i] ELSE G[i - 1] \o ss[i]
      BY <1>11
    <3>3. QED
      BY <2>1, <3>1, <3>2
  <2> HIDE DEF T
  <2>2. 1 .. n \subseteq T
    BY <2>1, UpToInduction
  <2>3. QED
    BY <2>2 DEF T
<1>13. QED
  BY <1>7, <1>10, <1>12

(***************************************************************************)
(* A series of one sequence flattened is that sequence.                    *)
(***************************************************************************)
LEMMA FlattenOne ==
  ASSUME NEW X, NEW ss \in [1 .. 1 -> Seq(X)]
  PROVE  FlattenSeq(ss) = ss[1]
<1> DEFINE n == 1
<1>1. n \in Nat \ {0} /\ ss \in [1 .. n -> Seq(X)] /\ n \in 1 .. n
  OBVIOUS
<1> HIDE DEF n
<1>2. PICK F : Flattens(F, ss, n, X) /\ FlattenSeq(ss) = F[n]
  BY <1>1, FlattenIs
<1>3. QED
  BY <1>1, <1>2 DEF Flattens, n

(***************************************************************************)
(* The last sequence of a series comes at the end of the series flattened. *)
(***************************************************************************)
LEMMA FlattenMore ==
  ASSUME NEW X, NEW n \in Nat \ {0}, NEW ss \in [1 .. n + 1 -> Seq(X)],
         NEW tt \in [1 .. n -> Seq(X)], \A i \in 1 .. n : tt[i] = ss[i]
  PROVE  FlattenSeq(ss) = FlattenSeq(tt) \o ss[n + 1] /\ FlattenSeq(tt) \in Seq(X)
<1>1. PICK F : Flattens(F, ss, n + 1, X) /\ FlattenSeq(ss) = F[n + 1]
  <2>1. n + 1 \in Nat \ {0}
    OBVIOUS
  <2>2. QED
    BY <2>1, FlattenIs
<1>2. PICK G : Flattens(G, tt, n, X) /\ FlattenSeq(tt) = G[n]
  BY FlattenIs
<1>3. 1 .. n \subseteq {i \in 1 .. n : F[i] = G[i]}
  <2> DEFINE T == {i \in 1 .. n : F[i] = G[i]}
  <2>1. ASSUME NEW i \in 1 .. n, i = 1 \/ i - 1 \in T PROVE i \in T
    <3>1. i \in 1 .. n + 1
      OBVIOUS
    <3>2. F[i] = IF i = 1 THEN ss[i] ELSE F[i - 1] \o ss[i]
      BY <1>1, <3>1 DEF Flattens
    <3>3. G[i] = IF i = 1 THEN tt[i] ELSE G[i - 1] \o tt[i]
      BY <1>2 DEF Flattens
    <3>4. QED
      BY <2>1, <3>2, <3>3
  <2> HIDE DEF T
  <2>2. 1 .. n \subseteq T
    BY <2>1, UpToInduction
  <2>3. QED
    BY <2>2 DEF T
<1>4. n + 1 \in 1 .. n + 1 /\ n + 1 # 1 /\ (n + 1) - 1 = n /\ n \in 1 .. n
  OBVIOUS
<1>5. F[n + 1] = F[n] \o ss[n + 1] /\ F[n] = G[n] /\ G[n] \in Seq(X)
  BY <1>1, <1>2, <1>3, <1>4 DEF Flattens
<1>6. QED
  BY <1>1, <1>2, <1>5

(***************************************************************************)
(* A common beginning can be dropped.                                      *)
(***************************************************************************)
LEMMA CancelLeft ==
  ASSUME NEW X, NEW s \in Seq(X), NEW t \in Seq(X), NEW v \in Seq(X), s \o t = s \o v
  PROVE  t = v
<1>1. Len(s) \in Nat /\ Len(t) \in Nat /\ Len(v) \in Nat
  BY LenProperties
<1>2. Len(s \o t) = Len(s) + Len(t) /\ Len(s \o v) = Len(s) + Len(v)
  BY ConcatProperties
<1>3. Len(t) = Len(v)
  BY <1>1, <1>2
<1>4. ASSUME NEW i \in 1 .. Len(t) PROVE t[i] = v[i]
  <2>1. Len(s) + i \in 1 .. Len(s) + Len(t) /\ ~(Len(s) + i <= Len(s)) /\ (Len(s) + i) - Len(s) = i
    BY <1>1
  <2>2. (s \o t)[Len(s) + i] = t[i] /\ (s \o v)[Len(s) + i] = v[i]
    BY <1>1, <1>3, <2>1, ConcatProperties
  <2>3. QED
    BY <2>2
<1>5. QED
  BY <1>3, <1>4, SeqEqual

(***************************************************************************)
(* The end of a sequence with the part before it.                          *)
(***************************************************************************)
Begins(u, a, X) == \E w \in Seq(X) : u = a \o w

\* A sequence that was started is started still when it goes on.
LEMMA Regroup ==
  ASSUME NEW X, NEW a \in Seq(X), NEW b \in Seq(X), NEW d \in Seq(X),
         NEW v, v = a \o b, NEW u, u = v \o d
  PROVE  Begins(u, a, X)
<1>1. b \o d \in Seq(X) /\ (a \o b) \o d = a \o (b \o d)
  BY ConcatAssociative, ConcatProperties
<1>2. QED
  BY <1>1 DEF Begins

(***************************************************************************)
(* What is left of a flattened series after its first k sequences begins   *)
(* with the sequence that follows.                                         *)
(***************************************************************************)
Tails(W, F, ss, n, X) ==
  /\ W \in [0 .. n -> Seq(X)] /\ W[0] = F[n] /\ W[n] = << >>
  /\ \A k \in 1 .. n : W[k - 1] = ss[k] \o W[k]

(***************************************************************************)
(* What is left of a flattened family after each of its members: the next  *)
(* one, and what is left after that.                                       *)
(***************************************************************************)
LEMMA FlattenTails ==
  ASSUME NEW X, NEW n \in Nat \ {0}, NEW ss \in [1 .. n -> Seq(X)],
         NEW F, Flattens(F, ss, n, X)
  PROVE  \E W : Tails(W, F, ss, n, X)
<1>1. F \in [1 .. n -> Seq(X)] /\ n \in 1 .. n
  BY DEF Flattens
<1>2. \A k \in 1 .. n : \E t \in Seq(X) : F[n] = F[k] \o t
  <2> DEFINE T == {i \in 1 .. n : \E t \in Seq(X) : F[n] = F[(n + 1) - i] \o t}
  <2>1. ASSUME NEW i \in 1 .. n, i = 1 \/ i - 1 \in T PROVE i \in T
    <3>1. CASE i = 1
      <4>1. (n + 1) - i = n /\ F[n] \in Seq(X)
        BY <1>1, <3>1
      <4>2. << >> \in Seq(X) /\ F[n] \o << >> = F[n]
        BY <4>1, EmptySeq, ConcatEmptySeq
      <4>3. QED
        BY <4>1, <4>2
    <3>2. CASE i - 1 \in T
      <4> DEFINE k == (n + 1) - (i - 1)
      <4>1. PICK t \in Seq(X) : F[n] = F[k] \o t
        BY <3>2
      <4>2. k \in 1 .. n /\ k # 1 /\ k - 1 \in 1 .. n /\ (n + 1) - i = k - 1
        BY <3>2
      <4> HIDE DEF k
      <4>6. F[k - 1] \in Seq(X) /\ ss[k] \in Seq(X)
        BY <1>1, <4>2
      <4>3. F[k] = F[k - 1] \o ss[k] /\ F[k - 1] \in Seq(X) /\ ss[k] \in Seq(X)
        BY <4>2, <4>6 DEF Flattens
      <4>4. \E u \in Seq(X) : F[n] = F[k - 1] \o u
        <5> DEFINE a == F[k - 1]
                   b == ss[k]
                   v == F[k]
                   u == F[n]
        <5>1. a \in Seq(X) /\ b \in Seq(X) /\ v = a \o b /\ t \in Seq(X) /\ u = v \o t
          BY <4>1, <4>3
        <5> HIDE DEF a, b, u, v, T
        <5>2. Begins(u, a, X)
          BY <5>1, Regroup
        <5>3. QED
          BY <5>2 DEF u, a, Begins
      <4>5. QED
        BY <4>2, <4>4
    <3>3. QED
      BY <2>1, <3>1, <3>2
  <2> HIDE DEF T
  <2>2. 1 .. n \subseteq T
    BY <2>1, UpToInduction
  <2>3. ASSUME NEW k \in 1 .. n PROVE \E t \in Seq(X) : F[n] = F[k] \o t
    <3>1. (n + 1) - k \in 1 .. n /\ (n + 1) - ((n + 1) - k) = k
      OBVIOUS
    <3>2. (n + 1) - k \in T
      BY <2>2, <3>1
    <3>3. QED
      BY <3>1, <3>2 DEF T
  <2>4. QED
    BY <2>3
<1> DEFINE W == [k \in 0 .. n |-> IF k = 0 THEN F[n] ELSE CHOOSE t \in Seq(X) : F[n] = F[k] \o t]
<1>3. ASSUME NEW k \in 1 .. n PROVE W[k] \in Seq(X) /\ F[n] = F[k] \o W[k]
  <2>1. k \in 0 .. n /\ k # 0
    OBVIOUS
  <2>2. W[k] = CHOOSE t \in Seq(X) : F[n] = F[k] \o t
    BY <2>1
  <2> HIDE DEF W
  <2>3. \E t \in Seq(X) : F[n] = F[k] \o t
    BY <1>2
  <2>4. QED
    BY <2>2, <2>3
<1>4. W[0] = F[n] /\ W \in [0 .. n -> Seq(X)]
  <2>1. W[0] = F[n] /\ F[n] \in Seq(X) /\ \A k \in 0 .. n : k = 0 \/ k \in 1 .. n
    BY <1>1
  <2>2. ASSUME NEW k \in 0 .. n PROVE W[k] \in Seq(X)
    <3> HIDE DEF W
    <3>1. QED
      BY <1>3, <2>1
  <2>3. DOMAIN W = 0 .. n /\ W = [k \in 0 .. n |-> W[k]]
    OBVIOUS
  <2> HIDE DEF W
  <2>4. QED
    BY <2>1, <2>2, <2>3
<1> HIDE DEF W
<1>5. W[n] = << >>
  <2>1. W[n] \in Seq(X) /\ F[n] \in Seq(X) /\ F[n] \o W[n] = F[n]
    BY <1>1, <1>3, <1>4
  <2>2. << >> \in Seq(X) /\ F[n] \o << >> = F[n]
    BY <2>1, EmptySeq, ConcatEmptySeq
  <2>3. QED
    BY <2>1, <2>2, CancelLeft
<1>6. ASSUME NEW k \in 1 .. n PROVE W[k - 1] = ss[k] \o W[k]
  <2>1. ss[k] \in Seq(X) /\ W[k] \in Seq(X) /\ F[n] = F[k] \o W[k]
    BY <1>3
  <2>2. CASE k = 1
    <3>1. F[1] = ss[1]
      BY <2>2 DEF Flattens
    <3>2. QED
      BY <1>4, <2>1, <2>2, <3>1
  <2>3. CASE k # 1
    <3>1. k - 1 \in 1 .. n
      BY <2>3
    <3>2. /\ F[k - 1] \in Seq(X) /\ W[k - 1] \in Seq(X) /\ F[n] = F[k - 1] \o W[k - 1]
          /\ F[k] = F[k - 1] \o ss[k]
      BY <1>1, <1>3, <2>3, <3>1 DEF Flattens
    <3>3. ss[k] \o W[k] \in Seq(X) /\ F[n] = F[k - 1] \o (ss[k] \o W[k])
      <4>1. (F[k - 1] \o ss[k]) \o W[k] = F[k - 1] \o (ss[k] \o W[k])
        <5> DEFINE a == F[k - 1]
                   b == ss[k]
                   d == W[k]
        <5>1. a \in Seq(X) /\ b \in Seq(X) /\ d \in Seq(X)
          BY <2>1, <3>2
        <5> HIDE DEF a, b, d
        <5>2. (a \o b) \o d = a \o (b \o d)
          BY <5>1, ConcatAssociative
        <5>3. QED
          BY <5>2 DEF a, b, d
      <4>2. ss[k] \o W[k] \in Seq(X)
        BY <2>1, <3>2, ConcatProperties
      <4>3. QED
        BY <2>1, <3>2, <4>1, <4>2
    <3>4. QED
      BY <3>2, <3>3, CancelLeft
  <2>4. QED
    BY <2>2, <2>3
<1>7. Tails(W, F, ss, n, X)
  BY <1>4, <1>5, <1>6 DEF Tails
<1>8. QED
  BY <1>7
=============================================================================
