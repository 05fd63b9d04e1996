----------------------- MODULE LCIORandomAccessProofs -----------------------
(***************************************************************************)
(* The layout of an LCIO file, for every length of the records, any number *)
(* of sessions and crashes and every set of runs and events.  In turn: the *)
(* types of the variables, that records never overlap, and that no record  *)
(* but the file record of the last session is ever written over; that what *)
(* was readable stays so; that following the chain of access records ends; *)
(* that direct access never goes astray; and that a file and its writers   *)
(* implement EventStore.  Last come the files no writer has died on yet:   *)
(* what direct access promises for them.                                   *)
(***************************************************************************)
EXTENDS LCIORandomAccess, OperatorProofs, NaturalsInduction

(***************************************************************************)
(* The records written between two positions: intact, one behind the       *)
(* other, and finitely many.                                               *)
(***************************************************************************)
Output(b, from, to) ==
  /\ DOMAIN b \subseteq Nat /\ IsFiniteSet(DOMAIN b)
  /\ \A p \in DOMAIN b : /\ WellFormed(b[p]) /\ b[p].ok
                         /\ from <= p /\ p + Length(b[p]) <= to
  /\ Disjoint(b)

MapType(m) == Counted(m) /\ \A k \in Keys(m) : m.pos[k] \in Nat

(***************************************************************************)
(* The inductive invariant.  It is TypeOK and Layout, with the finiteness  *)
(* of the file and the map, which the counters need.                       *)
(***************************************************************************)
DiskInv ==
  /\ size \in Nat
  /\ DOMAIN disk \subseteq Nat /\ IsFiniteSet(DOMAIN disk)
  /\ \A p \in DOMAIN disk : WellFormed(disk[p])
  /\ Disjoint(disk) /\ OnDisk

WriterInv ==
  /\ mode \in {"closed", "open", "closing"}
  /\ synced \in Nat /\ wpos \in Nat /\ synced <= wpos
  /\ Output(buf, synced, wpos)
  /\ MapType(map)
  /\ lastRa = None \/ IsAccess(lastRa)
  /\ fileRec = None \/ IsAccess(fileRec)
  /\ mode = "closed" => buf = NoRecords
  /\ InTheWay

CountInv == sessions \in Nat /\ puts \in Nat /\ crashes \in Nat

IInv == DiskInv /\ WriterInv /\ CountInv

-----------------------------------------------------------------------------
(***************************************************************************)
(* Facts about lengths, keys and maps.                                     *)
(***************************************************************************)
LEMMA Lengths ==
  /\ HeadLen \in Nat /\ HeadLen > 0 /\ DataLen \in Nat /\ AccLen \in Nat
  /\ HeadLen < DataLen /\ HeadLen < AccLen
  /\ \A rec : Length(rec) \in Nat /\ HeadLen < Length(rec)
  /\ \A rec : rec.kind = "acc" => Length(rec) = AccLen
  /\ \A rec : rec.kind # "acc" => Length(rec) = DataLen
BY ConstantsAssumption DEF Length

(***************************************************************************)
(* The key writeRunHeader adds is a key of the map.                        *)
(***************************************************************************)
LEMMA KeysOfRuns ==
  ASSUME NEW r \in Runs
  PROVE  RunKey(r) \in MapKeys
<1>1. r \in IntRange /\ -1 \in IntRange
  BY HalfAssumption, ConstantsAssumption DEF IntRange, IntMax
<1>2. QED
  BY <1>1 DEF RunKey, MapKeys, RunEvent

(***************************************************************************)
(* The key writeEvent adds is a key of the map.                            *)
(***************************************************************************)
LEMMA KeysOfEvents ==
  ASSUME NEW r \in Runs, NEW e \in Evts
  PROVE  EvtKey(r, e) \in MapKeys
<1>1. r \in IntRange /\ e \in IntRange /\ e >= -1
  BY HalfAssumption, ConstantsAssumption DEF IntRange, IntMax
<1>2. QED
  BY <1>1 DEF EvtKey, MapKeys, RunEvent

(***************************************************************************)
(* The counters of a finite map are natural numbers.                       *)
(***************************************************************************)
LEMMA MapTypeCounters ==
  ASSUME NEW m, MapType(m)
  PROVE  m.nRun \in Nat /\ m.nEvt \in Nat /\ Keys(m) \subseteq MapKeys
<1>1. RunsIn(Keys(m)) \in SUBSET Keys(m) /\ EventsIn(Keys(m)) \in SUBSET Keys(m)
  BY DEF RunsIn, EventsIn
<1>2. QED
  BY <1>1, FS_Subset, FS_CardinalityType DEF MapType, Counted

(***************************************************************************)
(* clear() leaves a map of the right type.                                 *)
(***************************************************************************)
LEMMA EmptyMapType == MapType(EmptyMap)
BY EmptyCounted DEF MapType

(***************************************************************************)
(* add() keeps the type of the map.                                        *)
(***************************************************************************)
LEMMA AddMapType ==
  ASSUME NEW m, MapType(m), NEW re \in MapKeys, NEW p \in Nat
  PROVE  MapType(Add(m, re, p))
<1>1. Counted(Add(m, re, p)) /\ Keys(Add(m, re, p)) = Keys(m) \cup {re}
  BY AddCounted DEF MapType
<1>2. FromLong64(ToLong64(re)) = re
  BY Long64RoundTrip DEF MapKeys
<1>3. \A k \in Keys(m) \cup {re} : Add(m, re, p).pos[k] \in Nat
  BY <1>2 DEF Add, MapType
<1>4. QED
  BY <1>1, <1>3 DEF MapType

(***************************************************************************)
(* A set of positions in a file has a last one.                            *)
(***************************************************************************)
LEMMA LastPosition ==
  ASSUME NEW S \in SUBSET Nat, S # {}, NEW n \in Nat, \A p \in S : p <= n
  PROVE  \E p \in S : \A q \in S : q <= p
<1> DEFINE R == OpToRel(<, Nat)
           T == {n - p : p \in S}
<1>1. PICK t \in T : \A u \in T : <<u, t>> \notin R
  <2>1. T \subseteq Nat /\ T # {}
    OBVIOUS
  <2>2. IsWellFoundedOn(R, Nat)
    BY NatLessThanWellFounded
  <2> HIDE DEF R, T
  <2>3. QED
    BY <2>1, <2>2, WFMin
<1>2. PICK p \in S : t = n - p
  BY <1>1
<1>3. ASSUME NEW q \in S PROVE q <= p
  <2>1. n - q \in T /\ <<n - q, n - p>> \notin R
    BY <1>1, <1>2
  <2>2. ~(n - q < n - p)
    BY <2>1 DEF OpToRel
  <2>3. QED
    BY <2>2
<1>4. QED
  BY <1>3

(***************************************************************************)
(* recreateEventMap gives a map of the right type whatever torn or         *)
(* overwritten records the file holds.                                     *)
(***************************************************************************)
LEMMA RecreatedMapType ==
  ASSUME DiskInv
  PROVE  MapType(RecreateEventMap(disk))
<1> DEFINE H == Headers(disk)
           K == {disk[p].body.key : p \in H}
           at(k) == {p \in H : disk[p].body.key = k}
           f == [k \in K |-> CHOOSE p \in at(k) : \A q \in at(k) : q <= p]
           key == [p \in H |-> disk[p].body.key]
<1>1. /\ H \in SUBSET DOMAIN disk
      /\ \A p \in H : disk[p].kind \in {"run", "hdr"}
  BY DEF Headers, Scan
<1> HIDE DEF H
<1>2. K \subseteq MapKeys
  BY <1>1 DEF DiskInv, WellFormed
<1>3. IsFiniteSet(K)
  <2>1. IsFiniteSet(H)
    BY <1>1, FS_Subset DEF DiskInv
  <2>2. key \in Surjection(H, K)
    BY DEF Surjection
  <2>3. QED
    BY <2>1, <2>2, FS_Surjection
<1>4. \A k \in K : f[k] \in Nat
  <2> SUFFICES ASSUME NEW k \in K PROVE f[k] \in Nat
    OBVIOUS
  <2>1. at(k) # {} /\ at(k) \in SUBSET Nat /\ \A p \in at(k) : p <= size
    BY <1>1, Lengths DEF DiskInv, OnDisk
  <2>2. \E p \in at(k) : \A q \in at(k) : q <= p
    BY <2>1, LastPosition DEF DiskInv
  <2>3. QED
    BY <2>1, <2>2
<1>5. DOMAIN f = K
  OBVIOUS
<1>6. RecreateEventMap(disk) = AddAll(EmptyMap, f)
  BY DEF RecreateEventMap, H
<1> HIDE DEF f, K
<1>7. Counted(AddAll(EmptyMap, f)) /\ Keys(AddAll(EmptyMap, f)) = K
  BY <1>2, <1>3, <1>5, EmptyCounted, AddAllCounted
<1>8. \A k \in K : AddAll(EmptyMap, f).pos[k] = f[k]
  BY <1>5 DEF AddAll
<1>9. QED
  BY <1>4, <1>6, <1>7, <1>8 DEF MapType

-----------------------------------------------------------------------------
(***************************************************************************)
(* A record on the file after a write is one that was written whole, one   *)
(* that is torn, or one that was there and out of the way.                 *)
(***************************************************************************)
Overlaid(new, d, b, from, cut) ==
  /\ DOMAIN new \subseteq DOMAIN d \cup DOMAIN b
  /\ \A p \in DOMAIN new :
       \/ p \in DOMAIN b /\ p + Length(b[p]) <= cut /\ new[p] = b[p]
       \/ p \in DOMAIN b /\ p + HeadLen <= cut /\ new[p] = Torn(b[p])
       \/ p \in DOMAIN d /\ (p < from \/ p >= cut) /\ new[p] = d[p]
  /\ \A p \in DOMAIN d \ DOMAIN b :
       p < from \/ p >= cut => p \in DOMAIN new /\ new[p] = d[p]

(***************************************************************************)
(* Overlay does what the definition above says.                            *)
(***************************************************************************)
LEMMA OverlayRecords ==
  ASSUME NEW d, NEW b, NEW from \in Nat, NEW cut \in Nat,
         DOMAIN d \subseteq Nat, DOMAIN b \subseteq Nat,
         NEW new, new = Overlay(d, b, from, cut)
  PROVE  Overlaid(new, d, b, from, cut)
<1> DEFINE kept == {p \in DOMAIN d : p < from \/ p >= cut}
           whole == {p \in DOMAIN b : p + Length(b[p]) <= cut}
           torn == {p \in DOMAIN b : p + HeadLen <= cut /\ cut < p + Length(b[p])}
           o == [p \in kept \cup whole \cup torn |->
                   IF p \in whole THEN b[p] ELSE IF p \in torn THEN Torn(b[p]) ELSE d[p]]
<1>1. new = o
  BY DEF Overlay
<1>2. DOMAIN o \subseteq DOMAIN d \cup DOMAIN b
  OBVIOUS
<1>3. ASSUME NEW p \in DOMAIN o
      PROVE  \/ p \in DOMAIN b /\ p + Length(b[p]) <= cut /\ o[p] = b[p]
             \/ p \in DOMAIN b /\ p + HeadLen <= cut /\ o[p] = Torn(b[p])
             \/ p \in DOMAIN d /\ (p < from \/ p >= cut) /\ o[p] = d[p]
  OBVIOUS
<1>4. ASSUME NEW p \in DOMAIN d \ DOMAIN b, p < from \/ p >= cut
      PROVE  p \in DOMAIN o /\ o[p] = d[p]
  BY <1>4
<1> HIDE DEF o
<1>5. QED
  BY <1>1, <1>2, <1>3, <1>4 DEF Overlaid

(***************************************************************************)
(* A torn record has the kind and the length of the record that was        *)
(* written, and is not intact.                                             *)
(***************************************************************************)
LEMMA TornRecord ==
  ASSUME NEW rec, WellFormed(rec)
  PROVE  /\ WellFormed(Torn(rec)) /\ ~Torn(rec).ok
         /\ Torn(rec).kind = rec.kind
         /\ Length(Torn(rec)) = Length(rec)
BY DEF WellFormed, Torn, Length

(***************************************************************************)
(* Writing to the file, up to any cut, keeps its layout, and keeps all     *)
(* intact records but the one in the way.                                  *)
(***************************************************************************)
LEMMA DrainKeepsLayout ==
  ASSUME IInv, mode # "closed", NEW cut \in Nat, synced <= cut, cut <= wpos, Drain(cut)
  PROVE  /\ DiskInv'
         /\ \A p \in DOMAIN disk : disk[p].ok /\ disk[p].kind # "acc"
                                  => p \in DOMAIN disk' /\ disk'[p] = disk[p]
         /\ \A p \in DOMAIN disk' : IF p < cut THEN disk'[p].ok => p + Length(disk'[p]) <= cut
                                   ELSE disk'[p].kind = "acc"
<1>1. /\ DOMAIN disk \subseteq Nat /\ DOMAIN buf \subseteq Nat /\ size \in Nat /\ synced \in Nat
      /\ \A p \in DOMAIN disk : WellFormed(disk[p])
      /\ \A p \in DOMAIN buf : WellFormed(buf[p]) /\ synced <= p
      /\ Disjoint(disk) /\ Disjoint(buf) /\ OnDisk /\ InTheWay
  BY DEF IInv, DiskInv, WriterInv, Output
<1>2. disk' = Overlay(disk, buf, synced, cut) /\ size' = Larger(size, cut)
  BY DEF Drain
<1>3. /\ DOMAIN disk' \subseteq DOMAIN disk \cup DOMAIN buf
      /\ \A p \in DOMAIN disk' :
           \/ p \in DOMAIN buf /\ p + Length(buf[p]) <= cut /\ disk'[p] = buf[p]
           \/ p \in DOMAIN buf /\ p + HeadLen <= cut /\ disk'[p] = Torn(buf[p])
           \/ p \in DOMAIN disk /\ (p < synced \/ p >= cut) /\ disk'[p] = disk[p]
      /\ \A p \in DOMAIN disk \ DOMAIN buf :
           p < synced \/ p >= cut => p \in DOMAIN disk' /\ disk'[p] = disk[p]
  <2>1. Overlaid(disk', disk, buf, synced, cut)
    BY <1>1, <1>2, OverlayRecords
  <2>2. QED
    BY <2>1 DEF Overlaid
<1>4. size' \in Nat /\ size <= size' /\ cut <= size'
  BY <1>1, <1>2 DEF Larger
<1>5. DOMAIN disk' \subseteq Nat /\ IsFiniteSet(DOMAIN disk')
  <2>1. IsFiniteSet(DOMAIN disk \cup DOMAIN buf)
    BY FS_Union DEF IInv, DiskInv, WriterInv, Output
  <2>2. QED
    BY <1>1, <1>3, <2>1, FS_Subset
<1>6. \A p \in DOMAIN disk' : WellFormed(disk'[p])
  BY <1>1, <1>3, TornRecord
<1>7. ASSUME NEW p \in DOMAIN disk', disk'[p].ok
      PROVE  \/ p \in DOMAIN buf /\ p + Length(disk'[p]) <= cut /\ disk'[p] = buf[p]
             \/ p \in DOMAIN disk /\ (p < synced \/ p >= cut) /\ disk'[p] = disk[p]
  BY <1>1, <1>3, <1>7, TornRecord
<1>8. ASSUME NEW p \in DOMAIN disk', NEW q \in DOMAIN disk', p < q, disk'[p].ok
      PROVE  p + Length(disk'[p]) <= q
  <2>1. p \in Nat /\ q \in Nat /\ Length(disk'[p]) \in Nat
    BY <1>5, Lengths
  <2>2. CASE p \in DOMAIN buf /\ p + Length(disk'[p]) <= cut /\ disk'[p] = buf[p]
    <3>1. CASE q \in DOMAIN buf
      BY <1>1, <1>8, <2>2, <3>1 DEF Disjoint
    <3>2. CASE q \notin DOMAIN buf
      <4>1. q >= cut
        BY <1>1, <1>3, <1>8, <2>1, <2>2, <3>2
      <4>2. QED
        BY <2>1, <2>2, <4>1
    <3>3. QED
      BY <3>1, <3>2
  <2>3. CASE p \in DOMAIN disk /\ p < synced /\ disk'[p] = disk[p]
    <3>1. p + Length(disk'[p]) <= synced
      BY <1>1, <1>8, <2>3 DEF InTheWay
    <3>2. CASE q \in DOMAIN buf
      BY <1>1, <2>1, <3>1, <3>2
    <3>3. CASE q \in DOMAIN disk
      BY <1>1, <1>8, <2>3, <3>3 DEF Disjoint
    <3>4. QED
      BY <1>3, <3>2, <3>3
  <2>4. CASE p \in DOMAIN disk /\ p >= cut /\ disk'[p] = disk[p]
    <3>1. q \in DOMAIN disk
      BY <1>1, <1>3, <1>8, <2>1, <2>4, Lengths
    <3>2. QED
      BY <1>1, <1>8, <2>4, <3>1 DEF Disjoint
  <2>5. QED
    BY <1>7, <1>8, <2>2, <2>3, <2>4
<1>9. ASSUME NEW p \in DOMAIN disk'
      PROVE  p + HeadLen <= size' /\ (disk'[p].ok => p + Length(disk'[p]) <= size')
  <2>1. p \in Nat /\ Length(disk'[p]) \in Nat /\ HeadLen < Length(disk'[p]) /\ HeadLen \in Nat
    BY <1>5, Lengths
  <2>2. CASE p \in DOMAIN buf /\ p + Length(buf[p]) <= cut /\ disk'[p] = buf[p]
    BY <1>4, <2>1, <2>2
  <2>3. CASE p \in DOMAIN buf /\ p + HeadLen <= cut /\ disk'[p] = Torn(buf[p])
    BY <1>1, <1>4, <2>1, <2>3, TornRecord
  <2>4. CASE p \in DOMAIN disk /\ disk'[p] = disk[p]
    BY <1>1, <1>4, <2>1, <2>4 DEF OnDisk
  <2>5. QED
    BY <1>3, <2>2, <2>3, <2>4
<1>10. ASSUME NEW p \in DOMAIN disk, disk[p].ok, disk[p].kind # "acc"
       PROVE  p \in DOMAIN disk' /\ disk'[p] = disk[p]
  <2>1. p < synced
    BY <1>1, <1>10 DEF InTheWay
  <2>2. QED
    BY <1>1, <1>3, <2>1
<1>11. ASSUME NEW p \in DOMAIN disk'
       PROVE  IF p < cut THEN disk'[p].ok => p + Length(disk'[p]) <= cut
              ELSE disk'[p].kind = "acc"
  <2>1. p \in Nat /\ Length(disk'[p]) \in Nat /\ HeadLen > 0 /\ HeadLen \in Nat
    BY <1>5, Lengths
  <2>2. CASE p < cut
    <3>1. ASSUME p \in DOMAIN disk, p < synced, disk'[p] = disk[p], disk'[p].ok
          PROVE  p + Length(disk'[p]) <= cut
      BY <1>1, <2>1, <3>1 DEF InTheWay
    <3>2. QED
      BY <1>7, <2>1, <2>2, <3>1
  <2>3. CASE p >= cut
    <3>1. p \in DOMAIN disk /\ disk'[p] = disk[p]
      BY <1>3, <2>1, <2>3, Lengths
    <3>2. QED
      BY <1>1, <2>1, <2>3, <3>1 DEF InTheWay
  <2>4. QED
    BY <2>1, <2>2, <2>3
<1>12. Disjoint(disk)'
  BY <1>8 DEF Disjoint
<1>13. OnDisk'
  BY <1>9 DEF OnDisk
<1>14. QED
  BY <1>4, <1>5, <1>6, <1>10, <1>11, <1>12, <1>13 DEF DiskInv

(***************************************************************************)
(* Output that continues behind other output.                              *)
(***************************************************************************)
LEMMA MoreOutput ==
  ASSUME NEW from \in Nat, NEW mid \in Nat, NEW to \in Nat, from <= mid, mid <= to,
         NEW b, Output(b, from, mid), NEW c, Output(c, mid, to),
         NEW all, DOMAIN all = DOMAIN b \cup DOMAIN c,
         \A p \in DOMAIN b : p \notin DOMAIN c => all[p] = b[p],
         \A p \in DOMAIN c : all[p] = c[p]
  PROVE  Output(all, from, to)
<1>1. \A p \in DOMAIN b : /\ p \in Nat /\ WellFormed(b[p]) /\ b[p].ok /\ from <= p
                          /\ p + Length(b[p]) <= mid
                          /\ Length(b[p]) \in Nat /\ Length(b[p]) > 0
  BY Lengths DEF Output
<1>2. \A p \in DOMAIN c : /\ p \in Nat /\ WellFormed(c[p]) /\ c[p].ok /\ mid <= p
                          /\ p + Length(c[p]) <= to
                          /\ Length(c[p]) \in Nat /\ Length(c[p]) > 0
  BY Lengths DEF Output
<1>3. \A p \in DOMAIN b : p < mid /\ p \notin DOMAIN c /\ all[p] = b[p]
  BY <1>1, <1>2
<1>4. DOMAIN all \subseteq Nat /\ IsFiniteSet(DOMAIN all)
  BY <1>1, <1>2, FS_Union DEF Output
<1>5. \A p \in DOMAIN all : /\ WellFormed(all[p]) /\ all[p].ok
                            /\ from <= p /\ p + Length(all[p]) <= to
  BY <1>1, <1>2, <1>3
<1>6. ASSUME NEW p \in DOMAIN all, NEW q \in DOMAIN all, p < q
      PROVE  p + Length(all[p]) <= q
  <2>1. CASE p \in DOMAIN b /\ q \in DOMAIN b
    BY <1>1, <1>3, <1>6, <2>1 DEF Output, Disjoint
  <2>2. CASE p \in DOMAIN b /\ q \in DOMAIN c
    BY <1>1, <1>2, <1>3, <2>2
  <2>3. CASE p \in DOMAIN c /\ q \in DOMAIN b
    BY <1>1, <1>2, <1>3, <1>6, <2>3
  <2>4. CASE p \in DOMAIN c /\ q \in DOMAIN c
    BY <1>2, <1>6, <2>4 DEF Output, Disjoint
  <2>5. QED
    BY <2>1, <2>2, <2>3, <2>4
<1>7. Disjoint(all)
  BY <1>6 DEF Disjoint
<1>8. QED
  BY <1>4, <1>5, <1>7 DEF Output

(***************************************************************************)
(* No output at all.                                                       *)
(***************************************************************************)
LEMMA NoOutput ==
  ASSUME NEW from, NEW to
  PROVE  Output(NoRecords, from, to)
<1>1. DOMAIN NoRecords = {}
  BY DEF NoRecords
<1>2. QED
  BY <1>1, FS_EmptySet DEF Output, Disjoint

-----------------------------------------------------------------------------
(***************************************************************************)
(* Each action keeps the invariant.                                        *)
(***************************************************************************)
LEMMA InitIInv == Init => IInv
<1> SUFFICES ASSUME Init PROVE IInv
  OBVIOUS
<1>1. DOMAIN disk = {} /\ disk = NoRecords /\ buf = NoRecords
  BY DEF Init, NoRecords
<1>2. DiskInv
  BY <1>1, FS_EmptySet DEF Init, DiskInv, Disjoint, OnDisk
<1>3. Output(buf, synced, wpos)
  BY <1>1, NoOutput
<1>4. WriterInv
  BY <1>3, EmptyMapType DEF Init, WriterInv, InTheWay
<1>5. QED
  BY <1>2, <1>4 DEF Init, IInv, CountInv

(***************************************************************************)
(* A session starts with no output, at a position before which the records *)
(* end and behind which there is at most an LCIORandomAccess.              *)
(***************************************************************************)
LEMMA StartKeepsInv ==
  ASSUME IInv, NEW pos \in Nat, StartSession(pos), DiskInv', MapType(map'),
         lastRa' = None \/ IsAccess(lastRa'), fileRec' = None \/ IsAccess(fileRec'),
         \A p \in DOMAIN disk' : IF p < pos THEN disk'[p].ok => p + Length(disk'[p]) <= pos
                                ELSE disk'[p].kind = "acc"
  PROVE  IInv'
<1>1. /\ mode' = "open" /\ synced' = pos /\ wpos' = pos /\ buf' = NoRecords
      /\ sessions' \in Nat /\ puts' \in Nat /\ crashes' \in Nat
  BY DEF StartSession, IInv, WriterInv, CountInv
<1>2. Output(buf, synced, wpos)'
  BY <1>1, NoOutput
<1>3. InTheWay'
  BY <1>1 DEF InTheWay
<1>4. QED
  BY <1>1, <1>2, <1>3 DEF IInv, WriterInv, CountInv

(***************************************************************************)
(* open( WRITE_NEW ): the file is empty.                                   *)
(***************************************************************************)
LEMMA OpenNewKeepsInv == ASSUME IInv, OpenNew PROVE IInv'
<1>1. disk' = NoRecords /\ DOMAIN disk' = {} /\ size' = 0 /\ StartSession(0)
  BY DEF OpenNew, NoRecords
<1>2. DiskInv'
  BY <1>1, FS_EmptySet DEF DiskInv, Disjoint, OnDisk
<1>3. UNCHANGED <<map, lastRa, fileRec>>
  BY DEF OpenNew, writer
<1>4. QED
  BY <1>1, <1>2, <1>3, StartKeepsInv DEF IInv, WriterInv

(***************************************************************************)
(* open( WRITE_APPEND ) on the file record: records end before it, and     *)
(* there is no room behind it.                                             *)
(***************************************************************************)
LEMMA OpenAppendKeepsInv == ASSUME IInv, OpenAppend PROVE IInv'
<1> DEFINE end == size - AccLen
           first == disk[end].body.next
<1>1. /\ size >= AccLen /\ IsKind(disk, end, "acc") /\ StartSession(end)
      /\ fileRec' = disk[end].body
      /\ lastRa' = IF IsKind(disk, first, "acc") THEN disk[first].body ELSE None
      /\ UNCHANGED <<disk, size, map>>
  BY DEF OpenAppend
<1>2. end \in Nat /\ end \in DOMAIN disk /\ disk[end].ok /\ disk[end].kind = "acc"
  BY <1>1, Lengths DEF IInv, DiskInv, IsKind, Readable
<1>3. DiskInv'
  BY <1>1 DEF IInv, DiskInv, Disjoint, OnDisk
<1>4. \A p : IsKind(disk, p, "acc") => IsAccess(disk[p].body)
  BY DEF IInv, DiskInv, WellFormed, IsKind, Readable
<1>5. IsAccess(fileRec') /\ (lastRa' = None \/ IsAccess(lastRa'))
  BY <1>1, <1>4
<1>6. ASSUME NEW p \in DOMAIN disk
      PROVE  IF p < end THEN disk[p].ok => p + Length(disk[p]) <= end
             ELSE disk[p].kind = "acc"
  <2>1. p \in Nat /\ HeadLen \in Nat /\ HeadLen > 0
    BY Lengths DEF IInv, DiskInv
  <2>2. CASE p < end
    BY <1>2, <2>2 DEF IInv, DiskInv, Disjoint
  <2>3. CASE p > end
    <3>1. end + AccLen <= p /\ p + HeadLen <= size
      BY <1>2, <2>3, Lengths DEF IInv, DiskInv, Disjoint, OnDisk
    <3>2. QED
      BY <1>2, <2>1, <3>1, Lengths DEF IInv, DiskInv
  <2>4. CASE p = end
    BY <1>2, <2>4
  <2>5. QED
    BY <1>2, <2>1, <2>2, <2>3, <2>4
<1>7. MapType(map')
  BY <1>1 DEF IInv, WriterInv
<1> HIDE DEF end
<1>8. QED
  BY <1>1, <1>2, <1>3, <1>5, <1>6, <1>7, StartKeepsInv

(***************************************************************************)
(* open( WRITE_APPEND ) of an old file: everything lies before its end.    *)
(***************************************************************************)
LEMMA OpenAppendOldKeepsInv == ASSUME IInv, OpenAppendOld PROVE IInv'
<1>1. /\ StartSession(size) /\ map' = RecreateEventMap(disk)
      /\ UNCHANGED <<disk, size, lastRa, fileRec>>
  BY DEF OpenAppendOld
<1>2. size \in Nat /\ DiskInv /\ DiskInv'
  BY <1>1 DEF IInv, DiskInv, Disjoint, OnDisk
<1>3. MapType(map')
  BY <1>1, <1>2, RecreatedMapType
<1>4. \A p \in DOMAIN disk : p < size /\ (disk[p].ok => p + Length(disk[p]) <= size)
  BY Lengths DEF IInv, DiskInv, OnDisk
<1>5. QED
  BY <1>1, <1>2, <1>3, <1>4, StartKeepsInv DEF IInv, WriterInv

(***************************************************************************)
(* A writer whose output grows keeps the invariant.                        *)
(***************************************************************************)
LEMMA OutputKeepsInv ==
  ASSUME IInv, NEW c, Output(c, wpos, wpos'), wpos' \in Nat, wpos <= wpos',
         DOMAIN buf' = DOMAIN buf \cup DOMAIN c,
         \A p \in DOMAIN buf : p \notin DOMAIN c => buf'[p] = buf[p],
         \A p \in DOMAIN c : buf'[p] = c[p],
         mode # "closed", mode' \in {"open", "closing"},
         MapType(map'), UNCHANGED <<disk, size, synced, lastRa, fileRec>>,
         sessions' \in Nat, puts' \in Nat, crashes' \in Nat
  PROVE  IInv'
<1>1. DiskInv'
  BY DEF IInv, DiskInv, Disjoint, OnDisk
<1>2. Output(buf', synced, wpos')
  BY MoreOutput DEF IInv, WriterInv
<1>3. synced' \in Nat /\ synced' <= wpos'
  BY DEF IInv, WriterInv
<1>4. InTheWay'
  BY DEF IInv, WriterInv, InTheWay
<1>5. Output(buf, synced, wpos)'
  BY <1>2
<1>6. QED
  BY <1>1, <1>3, <1>4, <1>5 DEF IInv, WriterInv, CountInv

(***************************************************************************)
(* Sets of two and three positions are finite.                             *)
(***************************************************************************)
LEMMA FinitePair ==
  ASSUME NEW a, NEW b, NEW c
  PROVE  IsFiniteSet({a, b}) /\ IsFiniteSet({a, b, c})
<1>1. IsFiniteSet({a})
  BY FS_Singleton
<1>2. IsFiniteSet({a} \cup {b})
  BY <1>1, FS_AddElement
<1>3. {a} \cup {b} = {a, b} /\ {a, b} \cup {c} = {a, b, c}
  OBVIOUS
<1>4. IsFiniteSet({a, b})
  BY <1>2, <1>3
<1>5. IsFiniteSet({a, b} \cup {c})
  BY <1>4, FS_AddElement
<1>6. QED
  BY <1>3, <1>4, <1>5

(***************************************************************************)
(* A run header, an event header or an event as it is written.             *)
(***************************************************************************)
LEMMA ItemRecord ==
  ASSUME IInv, NEW key \in MapKeys, NEW kind \in {"run", "hdr", "evt"}
  PROVE  LET rec == Record(kind, Item(key))
         IN  WellFormed(rec) /\ rec.ok /\ Length(rec) = DataLen
BY DEF Record, Item, WellFormed, Length, IInv, CountInv

(***************************************************************************)
(* writeRunHeader: one more record behind the output.                      *)
(***************************************************************************)
LEMMA WriteRunHeaderKeepsInv ==
  ASSUME IInv, NEW r \in Runs, WriteRunHeader(r) PROVE IInv'
<1> DEFINE rec == Record("run", Item(RunKey(r)))
           c == [p \in {wpos} |-> rec]
<1>1. RunKey(r) \in MapKeys
  BY KeysOfRuns
<1>2. WellFormed(rec) /\ rec.ok /\ Length(rec) = DataLen
  BY <1>1, ItemRecord
<1>3. /\ mode = "open" /\ mode' = mode
      /\ buf' = [p \in DOMAIN buf \cup {wpos} |-> IF p = wpos THEN rec ELSE buf[p]]
      /\ wpos' = wpos + DataLen /\ map' = Add(map, RunKey(r), wpos) /\ puts' = puts + 1
      /\ UNCHANGED <<disk, size, synced, lastRa, fileRec, sessions, crashes>>
  BY DEF WriteRunHeader, MayWrite
<1> HIDE DEF rec
<1>4. wpos \in Nat /\ wpos' \in Nat /\ wpos <= wpos'
  BY <1>3, Lengths DEF IInv, WriterInv
<1>5. Output(c, wpos, wpos')
  <2>1. IsFiniteSet({wpos})
    BY FS_Singleton
  <2>2. QED
    BY <1>2, <1>3, <1>4, <2>1, Lengths DEF Output, Disjoint
<1>6. MapType(map')
  BY <1>1, <1>3, <1>4, AddMapType DEF IInv, WriterInv
<1>7. sessions' \in Nat /\ puts' \in Nat /\ crashes' \in Nat
  BY <1>3 DEF IInv, CountInv
<1>8. /\ DOMAIN buf' = DOMAIN buf \cup DOMAIN c
      /\ \A p \in DOMAIN buf : p \notin DOMAIN c => buf'[p] = buf[p]
      /\ \A p \in DOMAIN c : buf'[p] = c[p]
  BY <1>3
<1> HIDE DEF c
<1>9. QED
  BY <1>3, <1>4, <1>5, <1>6, <1>7, <1>8, OutputKeepsInv

(***************************************************************************)
(* writeEvent: two more records behind the output.                         *)
(***************************************************************************)
LEMMA WriteEventKeepsInv ==
  ASSUME IInv, NEW r \in Runs, NEW e \in Evts, WriteEvent(r, e) PROVE IInv'
<1> DEFINE epos == wpos + DataLen
           hdr == Record("hdr", Item(EvtKey(r, e)))
           evt == Record("evt", Item(EvtKey(r, e)))
           c == [p \in {wpos, epos} |-> IF p = wpos THEN hdr ELSE evt]
<1>1. EvtKey(r, e) \in MapKeys
  BY KeysOfEvents
<1>2. /\ WellFormed(hdr) /\ hdr.ok /\ Length(hdr) = DataLen
      /\ WellFormed(evt) /\ evt.ok /\ Length(evt) = DataLen
  BY <1>1, ItemRecord
<1>3. /\ mode = "open" /\ mode' = mode
      /\ buf' = [p \in DOMAIN buf \cup {wpos, epos} |->
                   IF p = wpos THEN hdr ELSE IF p = epos THEN evt ELSE buf[p]]
      /\ wpos' = epos + DataLen /\ map' = Add(map, EvtKey(r, e), wpos) /\ puts' = puts + 1
      /\ UNCHANGED <<disk, size, synced, lastRa, fileRec, sessions, crashes>>
  BY DEF WriteEvent, MayWrite
<1> HIDE DEF hdr, evt
<1>4. /\ wpos \in Nat /\ wpos' \in Nat /\ wpos <= wpos'
      /\ epos \in Nat /\ wpos < epos /\ wpos' = wpos + 2 * DataLen
  BY <1>3, Lengths DEF IInv, WriterInv
<1>5. Output(c, wpos, wpos')
  <2>1. IsFiniteSet({wpos, epos})
    BY FinitePair
  <2>2. QED
    BY <1>2, <1>3, <1>4, <2>1, Lengths DEF Output, Disjoint
<1>6. MapType(map')
  BY <1>1, <1>3, <1>4, AddMapType DEF IInv, WriterInv
<1>7. sessions' \in Nat /\ puts' \in Nat /\ crashes' \in Nat
  BY <1>3 DEF IInv, CountInv
<1>8. /\ DOMAIN buf' = DOMAIN buf \cup DOMAIN c
      /\ \A p \in DOMAIN buf : p \notin DOMAIN c => buf'[p] = buf[p]
      /\ \A p \in DOMAIN c : buf'[p] = c[p]
  BY <1>3, <1>4
<1> HIDE DEF c
<1>9. QED
  BY <1>3, <1>4, <1>5, <1>6, <1>7, <1>8, OutputKeepsInv

(***************************************************************************)
(* The numbers and the pointers of the two LCIORandomAccess records that   *)
(* close() writes are natural numbers.                                     *)
(***************************************************************************)
LEMMA AccessFields ==
  ASSUME NEW b
  PROVE  IsAccess(b) <=> /\ b.nRun \in Nat /\ b.nEvt \in Nat /\ b.index \in Nat
                         /\ b.prev \in Nat /\ b.next \in Nat /\ b.first \in Nat
BY DEF IsAccess

(***************************************************************************)
(* What createFromEventMap and createFileRecord make is well typed, with   *)
(* and without a previous block and a file record.                         *)
(***************************************************************************)
LEMMA CloseRecords ==
  ASSUME IInv, NEW ipos \in Nat, NEW apos \in Nat
  PROVE  /\ IsAccess(NewAccess(ipos, apos))
         /\ IsAccess(FileRecord(NewAccess(ipos, apos), apos))
<1> DEFINE ra == NewAccess(ipos, apos)
           base == IF fileRec = None
                   THEN [nRun |-> 0, nEvt |-> 0, index |-> 0, prev |-> apos, next |-> 0, first |-> 0]
                   ELSE fileRec
           plus(n, field) == n + ra[field] + (IF lastRa = None THEN 0 ELSE lastRa[field])
<1>1. map.nRun \in Nat /\ map.nEvt \in Nat
  BY MapTypeCounters DEF IInv, WriterInv
<1>2. lastRa # None => IsAccess(lastRa)
  BY DEF IInv, WriterInv
<1>3. IsAccess(ra)
  BY <1>1, <1>2, AccessFields DEF NewAccess
<1>4. IsAccess(base)
  BY AccessFields DEF IInv, WriterInv
<1>5. plus(base.nRun, "nRun") \in Nat /\ plus(base.nEvt, "nEvt") \in Nat
  <2>1. ra["nRun"] \in Nat /\ ra["nEvt"] \in Nat
    BY <1>3 DEF IsAccess
  <2>2. lastRa # None => lastRa["nRun"] \in Nat /\ lastRa["nEvt"] \in Nat
    BY <1>2 DEF IsAccess
  <2>3. base.nRun \in Nat /\ base.nEvt \in Nat
    BY <1>4, AccessFields
  <2> HIDE DEF ra, base
  <2>4. QED
    BY <2>1, <2>2, <2>3
<1>6. FileRecord(ra, apos) =
        [nRun |-> plus(base.nRun, "nRun"), nEvt |-> plus(base.nEvt, "nEvt"), index |-> 0,
         prev |-> FileRecord(ra, apos).prev, next |-> FileRecord(ra, apos).next,
         first |-> base.first]
  BY DEF FileRecord
<1>7. FileRecord(ra, apos).prev \in Nat /\ FileRecord(ra, apos).next \in Nat
  <2>1. \A m, n \in Nat : Larger(m, n) \in Nat /\ Smaller(m, n) \in Nat
    BY DEF Larger, Smaller
  <2>2. base.prev \in Nat /\ base.next \in Nat
    BY <1>4, AccessFields
  <2>3. lastRa # None => lastRa.prev \in Nat /\ lastRa.next \in Nat
    BY <1>2, AccessFields
  <2> HIDE DEF ra
  <2>4. QED
    BY <2>1, <2>2, <2>3 DEF FileRecord
<1> HIDE DEF plus, base, ra
<1>8. base.first \in Nat
  BY <1>4, AccessFields
<1>9. IsAccess(FileRecord(ra, apos))
  BY <1>5, <1>6, <1>7, <1>8, AccessFields
<1>10. QED
  BY <1>3, <1>9 DEF ra

(***************************************************************************)
(* writeRandomAccessRecords: three more records behind the output, or none *)
(* for an empty map.                                                       *)
(***************************************************************************)
LEMMA WriteRandomAccessRecordsKeepsInv ==
  ASSUME IInv, WriteRandomAccessRecords PROVE IInv'
<1> DEFINE apos == wpos + DataLen
           fpos == apos + AccLen
           idx == Record("idx", Encode(map))
           ra == NewAccess(wpos, apos)
           acc == Record("acc", ra)
           file == Record("acc", FileRecord(ra, apos))
           c == [p \in {wpos, apos, fpos} |->
                   IF p = wpos THEN idx ELSE IF p = apos THEN acc ELSE file]
<1>1. /\ mode = "open" /\ mode' = "closing"
      /\ \/ UNCHANGED <<buf, wpos>>
         \/ /\ buf' = [p \in DOMAIN buf \cup {wpos, apos, fpos} |->
                         IF p = wpos THEN idx ELSE IF p = apos THEN acc
                         ELSE IF p = fpos THEN file ELSE buf[p]]
            /\ wpos' = fpos + AccLen
      /\ UNCHANGED <<disk, size, synced, map, lastRa, fileRec, sessions, puts, crashes>>
  BY DEF WriteRandomAccessRecords
<1>2. /\ wpos \in Nat /\ apos \in Nat /\ fpos \in Nat /\ fpos + AccLen \in Nat
      /\ wpos < apos /\ apos < fpos /\ wpos <= fpos + AccLen
  BY Lengths DEF IInv, WriterInv
<1>3. IsAccess(ra) /\ IsAccess(FileRecord(ra, apos))
  BY <1>2, CloseRecords
<1> HIDE DEF ra
<1>4. /\ WellFormed(idx) /\ idx.ok /\ Length(idx) = DataLen
      /\ WellFormed(acc) /\ acc.ok /\ Length(acc) = AccLen
      /\ WellFormed(file) /\ file.ok /\ Length(file) = AccLen
  BY <1>3 DEF WellFormed, Record, Length
<1>5. MapType(map') /\ sessions' \in Nat /\ puts' \in Nat /\ crashes' \in Nat
  BY <1>1 DEF IInv, WriterInv, CountInv
<1> HIDE DEF idx, acc, file
<1>6. CASE UNCHANGED <<buf, wpos>>
  <2>1. DOMAIN NoRecords = {} /\ Output(NoRecords, wpos, wpos')
    BY NoOutput DEF NoRecords
  <2>2. QED
    BY <1>1, <1>2, <1>5, <1>6, <2>1, OutputKeepsInv
<1>7. CASE /\ buf' = [p \in DOMAIN buf \cup {wpos, apos, fpos} |->
                       IF p = wpos THEN idx ELSE IF p = apos THEN acc
                       ELSE IF p = fpos THEN file ELSE buf[p]]
           /\ wpos' = fpos + AccLen
  <2>1. IsFiniteSet({wpos, apos, fpos})
    BY FinitePair
  <2>2. DOMAIN c = {wpos, apos, fpos} /\ c[wpos] = idx /\ c[apos] = acc /\ c[fpos] = file
    BY <1>2
  <2>3. /\ DOMAIN buf' = DOMAIN buf \cup DOMAIN c
        /\ \A p \in DOMAIN buf : p \notin DOMAIN c => buf'[p] = buf[p]
        /\ \A p \in DOMAIN c : buf'[p] = c[p]
    BY <1>2, <1>7
  <2> HIDE DEF c
  <2>4. Output(c, wpos, wpos')
    <3>1. Disjoint(c)
      BY <1>2, <1>4, <2>2, Lengths DEF Disjoint
    <3>2. \A p \in DOMAIN c : /\ WellFormed(c[p]) /\ c[p].ok
                              /\ wpos <= p /\ p + Length(c[p]) <= wpos'
      BY <1>2, <1>4, <1>7, <2>2, Lengths
    <3>3. QED
      BY <1>2, <2>1, <2>2, <3>1, <3>2 DEF Output
  <2>5. wpos' \in Nat /\ wpos <= wpos'
    BY <1>2, <1>7
  <2>6. QED
    BY <1>1, <1>5, <2>3, <2>4, <2>5, OutputKeepsInv
<1>8. QED
  BY <1>1, <1>6, <1>7

(***************************************************************************)
(* flush(): all output reaches the file and the session goes on.           *)
(***************************************************************************)
LEMMA FlushKeepsInv == ASSUME IInv, Flush PROVE IInv'
<1>1. /\ mode = "open" /\ Drain(wpos) /\ buf' = NoRecords /\ synced' = wpos
      /\ UNCHANGED <<mode, wpos, map, lastRa, fileRec, sessions, puts, crashes>>
  BY DEF Flush
<1>2. wpos \in Nat /\ synced <= wpos /\ wpos <= wpos
  BY DEF IInv, WriterInv
<1>3. /\ DiskInv'
      /\ \A p \in DOMAIN disk' : IF p < wpos THEN disk'[p].ok => p + Length(disk'[p]) <= wpos
                                ELSE disk'[p].kind = "acc"
  BY <1>1, <1>2, DrainKeepsLayout
<1>4. InTheWay'
  BY <1>1, <1>3 DEF InTheWay
<1>5. Output(buf, synced, wpos)'
  BY <1>1, NoOutput
<1>6. QED
  BY <1>1, <1>2, <1>3, <1>4, <1>5 DEF IInv, WriterInv, CountInv

(***************************************************************************)
(* A session that ends leaves a cleared writer.                            *)
(***************************************************************************)
LEMMA EndKeepsInv ==
  ASSUME IInv, DiskInv', EndSession, UNCHANGED sessions, crashes' \in Nat
  PROVE  IInv'
<1>1. /\ mode' = "closed" /\ buf' = NoRecords /\ synced' = 0 /\ wpos' = 0
      /\ map' = EmptyMap /\ lastRa' = None /\ fileRec' = None /\ puts' = 0
  BY DEF EndSession
<1>2. Output(buf, synced, wpos)'
  BY <1>1, NoOutput
<1>3. InTheWay'
  BY <1>1 DEF InTheWay
<1>4. MapType(map')
  BY <1>1, EmptyMapType
<1>5. QED
  BY <1>1, <1>2, <1>3, <1>4 DEF IInv, WriterInv, CountInv

(***************************************************************************)
(* close(): all output reaches the file.                                   *)
(***************************************************************************)
LEMMA CloseStreamKeepsInv == ASSUME IInv, CloseStream PROVE IInv'
<1>1. mode # "closed" /\ Drain(wpos) /\ EndSession /\ UNCHANGED <<sessions, crashes>>
  BY DEF CloseStream
<1>2. wpos \in Nat /\ synced <= wpos /\ wpos <= wpos /\ crashes' \in Nat
  BY <1>1 DEF IInv, WriterInv, CountInv
<1>3. DiskInv'
  BY <1>1, <1>2, DrainKeepsLayout
<1>4. QED
  BY <1>1, <1>2, <1>3, EndKeepsInv

(***************************************************************************)
(* A crash: the output before some cut reaches the file.                   *)
(***************************************************************************)
LEMMA CrashKeepsInv == ASSUME IInv, Crash PROVE IInv'
<1>1. /\ mode # "closed" /\ EndSession /\ UNCHANGED sessions /\ crashes' = crashes + 1
  BY DEF Crash
<1>2. PICK cut \in synced .. wpos : Drain(cut)
  BY DEF Crash
<1>3. cut \in Nat /\ synced <= cut /\ cut <= wpos /\ crashes' \in Nat
  BY <1>1 DEF IInv, WriterInv, CountInv
<1>4. DiskInv'
  BY <1>1, <1>2, <1>3, DrainKeepsLayout
<1>5. QED
  BY <1>1, <1>3, <1>4, EndKeepsInv

(***************************************************************************)
(* Steps of others change nothing.                                         *)
(***************************************************************************)
LEMMA StutterKeepsInv == ASSUME IInv, UNCHANGED vars PROVE IInv'
<1>1. DiskInv'
  BY DEF IInv, DiskInv, Disjoint, OnDisk, vars
<1>2. Output(buf, synced, wpos)'
  BY DEF IInv, WriterInv, vars
<1>3. InTheWay'
  BY DEF IInv, WriterInv, InTheWay, vars
<1>4. QED
  BY <1>1, <1>2, <1>3 DEF IInv, WriterInv, CountInv, vars

(***************************************************************************)
(* Every step keeps the invariant.                                         *)
(***************************************************************************)
LEMMA NextIInv == IInv /\ [Next]_vars => IInv'
<1> SUFFICES ASSUME IInv, [Next]_vars PROVE IInv'
  OBVIOUS
<1>1. CASE OpenNew
  BY <1>1, OpenNewKeepsInv
<1>2. CASE OpenAppend
  BY <1>2, OpenAppendKeepsInv
<1>3. CASE OpenAppendOld
  BY <1>3, OpenAppendOldKeepsInv
<1>4. ASSUME NEW r \in Runs, WriteRunHeader(r) PROVE IInv'
  BY <1>4, WriteRunHeaderKeepsInv
<1>5. ASSUME NEW r \in Runs, NEW e \in Evts, WriteEvent(r, e) PROVE IInv'
  BY <1>5, WriteEventKeepsInv
<1>6. CASE Flush
  BY <1>6, FlushKeepsInv
<1>7. CASE WriteRandomAccessRecords
  BY <1>7, WriteRandomAccessRecordsKeepsInv
<1>8. CASE CloseStream
  BY <1>8, CloseStreamKeepsInv
<1>9. CASE Crash
  BY <1>9, CrashKeepsInv
<1>10. CASE UNCHANGED vars
  BY <1>10, StutterKeepsInv
<1>11. QED
  BY <1>1, <1>2, <1>3, <1>4, <1>5, <1>6, <1>7, <1>8, <1>9, <1>10 DEF Next

(***************************************************************************)
(* The inductive invariant: intact records do not overlap on the file or   *)
(* in the buffer, the buffer lies behind all records but the one in the    *)
(* way, and everything is well typed.                                      *)
(***************************************************************************)
THEOREM SpecIInv == Spec => []IInv
BY InitIInv, NextIInv, PTL DEF Spec

-----------------------------------------------------------------------------
(***************************************************************************)
(* The variables have their types, the counters of the manager and the     *)
(* pointers it stores are natural numbers.                                 *)
(***************************************************************************)
THEOREM SpecTypeOK == Spec => []TypeOK
<1>1. IInv => TypeOK
  BY MapTypeCounters DEF IInv, DiskInv, WriterInv, CountInv, Output, MapType, TypeOK
<1>2. QED
  BY <1>1, SpecIInv, PTL

(***************************************************************************)
(* No two records of a file overlap, and a writer finds at most an         *)
(* LCIORandomAccess record where it is going to write.                     *)
(***************************************************************************)
THEOREM SpecLayout == Spec => []Layout
<1>1. IInv => Layout
  BY DEF IInv, DiskInv, WriterInv, Output, Layout, InBuffer
<1>2. QED
  BY <1>1, SpecIInv, PTL

(***************************************************************************)
(* Intact records other than LCIORandomAccess are never changed or removed *)
(* but by creating the file anew.                                          *)
(***************************************************************************)
THEOREM SpecRecordsKept == Spec => RecordsKept
<1> DEFINE Kept == \A p \in DOMAIN disk : disk[p].ok /\ disk[p].kind # "acc"
                     => p \in DOMAIN disk' /\ disk'[p] = disk[p]
<1>1. IInv /\ [Next]_vars => [OpenNew \/ Kept]_vars
  <2> SUFFICES ASSUME IInv, [Next]_vars PROVE OpenNew \/ Kept
    BY DEF vars
  <2>1. CASE UNCHANGED disk
    BY <2>1
  <2>2. CASE Flush \/ CloseStream
    <3>1. mode # "closed" /\ Drain(wpos) /\ wpos \in Nat /\ synced <= wpos /\ wpos <= wpos
      BY <2>2 DEF Flush, CloseStream, IInv, WriterInv
    <3>2. QED
      BY <3>1, DrainKeepsLayout
  <2>3. CASE Crash
    <3>1. mode # "closed"
      BY <2>3 DEF Crash
    <3>2. PICK cut \in synced .. wpos : Drain(cut)
      BY <2>3 DEF Crash
    <3>3. cut \in Nat /\ synced <= cut /\ cut <= wpos
      BY DEF IInv, WriterInv
    <3>4. QED
      BY <3>1, <3>2, <3>3, DrainKeepsLayout
  <2>4. CASE OpenNew \/ UNCHANGED vars
    BY <2>4 DEF vars
  <2>5. QED
    BY <2>1, <2>2, <2>3, <2>4
       DEF Next, OpenAppend, OpenAppendOld, WriteRunHeader, WriteEvent,
           WriteRandomAccessRecords
<1>2. QED
  BY <1>1, SpecIInv, PTL DEF Spec, RecordsKept

-----------------------------------------------------------------------------
(***************************************************************************)
(* The walk of Scan over a file: from p it goes on, by the length of the   *)
(* record at p, until it finds no header or torn data it wants.            *)
(***************************************************************************)
ScanStops(d, kinds, p) == p \notin DOMAIN d \/ (d[p].kind \in kinds /\ ~d[p].ok)

\* f is the walk from each position of d.
ScanWalk(f, d, kinds) ==
  \A p \in Nat : f[p] = IF ScanStops(d, kinds, p) THEN {} ELSE {p} \cup f[p + Length(d[p])]

\* The records of a file of n bytes, and what is kept of them before a position.
Within(d, n) == n \in Nat /\ \A p \in DOMAIN d : p \in 0 .. n
KeptBefore(d, e, from) == \A p \in DOMAIN d : p < from => p \in DOMAIN e /\ e[p] = d[p]

(***************************************************************************)
(* Scan returns what such a walk passes.                                   *)
(***************************************************************************)
LEMMA ScanPath ==
  ASSUME NEW d, NEW kinds, NEW n, Within(d, n)
  PROVE  \E f : /\ ScanWalk(f, d, kinds)
                /\ \A from \in Nat : Scan(d, kinds, from) =
                     {p \in DOMAIN d : d[p].kind \in kinds /\ d[p].ok /\ p \in f[from]}
<1> DEFINE stop == {p \in Nat : ScanStops(d, kinds, p)}
           rank == [p \in Nat |-> IF p <= n THEN (n + 1) - p ELSE 0]
           nxt == [p \in Nat |-> p + Length(d[p])]
           base == [p \in Nat |-> {}]
           Is(f) == f = [p \in Nat |->
                      IF p \notin DOMAIN d \/ (d[p].kind \in kinds /\ ~d[p].ok) THEN {}
                      ELSE {p} \cup f[p + Length(d[p])]]
<1>1. rank \in [Nat -> Nat] /\ nxt \in [Nat -> Nat] /\ base \in [Nat -> SUBSET Nat]
  BY Lengths DEF Within
<1>2. \A p \in Nat \ stop : rank[nxt[p]] < rank[p]
  <2> SUFFICES ASSUME NEW p \in Nat, p \notin stop PROVE rank[nxt[p]] < rank[p]
    OBVIOUS
  <2>1. p \in 0 .. n /\ n \in Nat
    BY DEF ScanStops, Within
  <2>2. nxt[p] = p + Length(d[p]) /\ Length(d[p]) \in Nat /\ Length(d[p]) > 0
    BY Lengths
  <2>3. QED
    BY <2>1, <2>2
<1> HIDE DEF stop, rank, nxt, base
<1>3. PICK f : Collects(f, stop, base, nxt)
  BY <1>1, <1>2, ReachExists
<1>4. Is(f)
  <2>1. \A p \in Nat : f[p] = IF p \notin DOMAIN d \/ (d[p].kind \in kinds /\ ~d[p].ok) THEN {}
                      ELSE {p} \cup f[p + Length(d[p])]
    BY <1>3 DEF stop, nxt, base, ScanStops, Collects
  <2>2. f = [p \in Nat |-> f[p]]
    BY <1>3 DEF Collects
  <2>3. QED
    BY <2>1, <2>2
<1> DEFINE g == CHOOSE h : Is(h)
<1>5. Is(g)
  BY <1>4
<1>6. \A from \in Nat : Scan(d, kinds, from) =
                {p \in DOMAIN d : d[p].kind \in kinds /\ d[p].ok /\ p \in g[from]}
  BY DEF Scan
<1> HIDE DEF g
<1>7. ScanWalk(g, d, kinds)
  <2>1. \A p \in Nat : g[p] = IF p \notin DOMAIN d \/ (d[p].kind \in kinds /\ ~d[p].ok) THEN {}
                              ELSE {p} \cup g[p + Length(d[p])]
    BY <1>5
  <2>2. QED
    BY <2>1 DEF ScanWalk, ScanStops
<1>8. QED
  BY <1>6, <1>7

(***************************************************************************)
(* The walk only goes forward.                                             *)
(***************************************************************************)
LEMMA WalkAhead ==
  ASSUME NEW d, NEW kinds, NEW n, Within(d, n),
         NEW f, ScanWalk(f, d, kinds), NEW x \in Nat, NEW q \in f[x]
  PROVE  q \in Nat /\ x <= q
<1> DEFINE Fine(y, r) == r \in Nat /\ y <= r
           Bad == {y \in Nat : \E r \in f[y] : ~Fine(y, r)}
<1>1. SUFFICES ASSUME Bad # {} PROVE FALSE
  OBVIOUS
<1>2. \A y \in Nat : ScanStops(d, kinds, y) => y \notin Bad
  BY DEF ScanWalk
<1>3. n \in Nat /\ \A y \in Bad : y <= n
  BY <1>2 DEF ScanStops, Within
<1>4. PICK y \in Bad : \A z \in Bad : z <= y
  <2> HIDE DEF Bad
  <2>1. Bad \in SUBSET Nat
    BY DEF Bad
  <2>2. QED
    BY <1>1, <1>3, <2>1, LastPosition
<1> DEFINE z == y + Length(d[y])
<1>5. y \in Nat /\ z \in Nat /\ y < z
  BY Lengths
<1>6. f[y] = {y} \cup f[z]
  BY <1>2, <1>5 DEF ScanWalk
<1>7. z \notin Bad
  BY <1>4, <1>5
<1>8. \A r \in f[z] : Fine(z, r)
  BY <1>5, <1>7
<1>9. \A r \in f[y] : Fine(y, r)
  BY <1>5, <1>6, <1>8
<1>10. QED
  BY <1>9

(***************************************************************************)
(* Where a file keeps what lay before some position, the walk passes the   *)
(* same records before this position.                                      *)
(***************************************************************************)
LEMMA WalkKept ==
  ASSUME NEW d, NEW e, NEW kinds, NEW n, Within(d, n),
         NEW f, ScanWalk(f, d, kinds), NEW g, ScanWalk(g, e, kinds), NEW from \in Nat,
         KeptBefore(d, e, from), NEW x \in Nat, NEW q \in f[x], q < from
  PROVE  q \in g[x]
<1> DEFINE Bad == {y \in Nat : \E r \in f[y] : r < from /\ r \notin g[y]}
<1>1. SUFFICES ASSUME Bad # {} PROVE FALSE
  OBVIOUS
<1>2. \A y \in Nat : ScanStops(d, kinds, y) => y \notin Bad
  BY DEF ScanWalk
<1>3. n \in Nat /\ \A y \in Bad : y <= n
  BY <1>2 DEF ScanStops, Within
<1>4. PICK y \in Bad : \A z \in Bad : z <= y
  <2> HIDE DEF Bad
  <2>1. Bad \in SUBSET Nat
    BY DEF Bad
  <2>2. QED
    BY <1>1, <1>3, <2>1, LastPosition
<1> DEFINE z == y + Length(d[y])
<1>5. y \in Nat /\ z \in Nat /\ y < z
  BY Lengths
<1>6. PICK r \in f[y] : r < from /\ r \notin g[y]
  OBVIOUS
<1>7. r \in Nat /\ y <= r
  BY <1>5, WalkAhead
<1>8. y \in DOMAIN d /\ ~ScanStops(d, kinds, y) /\ y \in DOMAIN e /\ e[y] = d[y]
  BY <1>2, <1>5, <1>6, <1>7 DEF ScanStops, KeptBefore
<1>9. ~ScanStops(e, kinds, y)
  BY <1>8 DEF ScanStops
<1>10. f[y] = {y} \cup f[z] /\ g[y] = {y} \cup g[z]
  BY <1>5, <1>8, <1>9 DEF ScanWalk
<1>11. r # y /\ r \in f[z] /\ r \notin g[z]
  BY <1>6, <1>10
<1>12. z \in Bad
  BY <1>5, <1>6, <1>11
<1>13. QED
  BY <1>4, <1>5, <1>12

(***************************************************************************)
(* Writing to a file leaves what lies before the writer's output alone.    *)
(***************************************************************************)
LEMMA DrainKeepsBefore ==
  ASSUME IInv, NEW cut \in Nat, Drain(cut)
  PROVE  KeptBefore(disk, disk', synced)
<1>1. Overlaid(disk', disk, buf, synced, cut)
  BY OverlayRecords DEF IInv, DiskInv, WriterInv, Output, Drain
<1>2. \A p \in DOMAIN buf : synced <= p
  BY DEF IInv, WriterInv, Output
<1>3. QED
  BY <1>1, <1>2 DEF Overlaid, IInv, DiskInv, WriterInv, KeptBefore

\* The positions and lengths of the writer, as numbers.
LEMMA Positions ==
  ASSUME DiskInv
  PROVE  Within(disk, size)
BY Lengths DEF DiskInv, OnDisk, Within

(***************************************************************************)
(* Every run, event header and event that could be read stays readable, at *)
(* its position, when a file is written to.                                *)
(***************************************************************************)
LEMMA DrainKeepsReadable ==
  ASSUME IInv, mode # "closed", NEW cut \in Nat, synced <= cut, cut <= wpos, Drain(cut),
         NEW kinds, kinds = {"run", "hdr", "evt"}, NEW p \in Scan(disk, kinds, 0)
  PROVE  p \in Scan(disk', kinds, 0) /\ disk'[p] = disk[p]
<1>1. DiskInv /\ DiskInv'
  BY DrainKeepsLayout DEF IInv
<1>2. PICK f : /\ ScanWalk(f, disk, kinds)
               /\ \A from \in Nat : Scan(disk, kinds, from) =
                    {q \in DOMAIN disk : disk[q].kind \in kinds /\ disk[q].ok /\ q \in f[from]}
  BY <1>1, Positions, ScanPath
<1>3. PICK g : /\ ScanWalk(g, disk', kinds)
               /\ \A from \in Nat : Scan(disk', kinds, from) =
                    {q \in DOMAIN disk' : disk'[q].kind \in kinds /\ disk'[q].ok /\ q \in g[from]}
  <2>1. Within(disk', size')
    BY <1>1, Lengths DEF DiskInv, OnDisk, Within
  <2>2. QED
    BY <2>1, ScanPath
<1>4. p \in DOMAIN disk /\ disk[p].kind \in kinds /\ disk[p].ok /\ p \in f[0]
  BY <1>2
<1>5. p \in Nat /\ synced \in Nat /\ p < synced
  BY <1>4 DEF IInv, DiskInv, WriterInv, InTheWay
<1>6. KeptBefore(disk, disk', synced)
  BY DrainKeepsBefore
<1>7. p \in g[0]
  <2>1. Within(disk, size)
    BY <1>1, Positions
  <2>2. ScanWalk(f, disk, kinds) /\ ScanWalk(g, disk', kinds) /\ 0 \in Nat /\ p \in f[0]
    BY <1>2, <1>3, <1>4
  <2>3. QED
    BY <1>5, <1>6, <2>1, <2>2, WalkKept
<1>8. QED
  BY <1>3, <1>4, <1>5, <1>6, <1>7 DEF KeptBefore

(***************************************************************************)
(* Appending, flushing, closing and dying keep every run, event header and *)
(* event that could be read before, whatever the lengths of the records    *)
(* and wherever a writer dies.                                             *)
(***************************************************************************)
THEOREM SpecReadableKept == Spec => ReadableKept
<1> DEFINE all == {"run", "hdr", "evt"}
           Kept == \A p \in Scan(disk, all, 0) : p \in Scan(disk', all, 0) /\ disk'[p] = disk[p]
<1>1. IInv /\ [Next]_vars => [OpenNew \/ Kept]_vars
  <2> SUFFICES ASSUME IInv, [Next]_vars PROVE OpenNew \/ Kept
    BY DEF vars
  <2>1. CASE UNCHANGED disk
    BY <2>1
  <2>2. CASE Flush \/ CloseStream
    <3>1. mode # "closed" /\ Drain(wpos) /\ wpos \in Nat /\ synced <= wpos /\ wpos <= wpos
      BY <2>2 DEF Flush, CloseStream, IInv, WriterInv
    <3>2. QED
      BY <3>1, DrainKeepsReadable
  <2>3. CASE Crash
    <3>1. mode # "closed"
      BY <2>3 DEF Crash
    <3>2. PICK cut \in synced .. wpos : Drain(cut)
      BY <2>3 DEF Crash
    <3>3. cut \in Nat /\ synced <= cut /\ cut <= wpos
      BY DEF IInv, WriterInv
    <3>4. QED
      BY <3>1, <3>2, <3>3, DrainKeepsReadable
  <2>4. CASE OpenNew \/ UNCHANGED vars
    BY <2>4 DEF vars
  <2>5. QED
    BY <2>1, <2>2, <2>3, <2>4
       DEF Next, OpenAppend, OpenAppendOld, WriteRunHeader, WriteEvent,
           WriteRandomAccessRecords
<1>2. QED
  BY <1>1, SpecIInv, PTL DEF Spec, ReadableKept

-----------------------------------------------------------------------------
(***************************************************************************)
(* The file as it will be when all output has reached it: what is true of  *)
(* the records before a cut is true of what a crash leaves.                *)
(***************************************************************************)
Whole == Overlay(disk, buf, synced, wpos)

\* The records of w when all records of b are written over those of d.
WrittenOver(w, d, b, from, to) ==
  /\ \A p \in DOMAIN w :
       \/ p \in DOMAIN b /\ w[p] = b[p]
       \/ p \in DOMAIN d \ DOMAIN b /\ (p < from \/ p >= to) /\ w[p] = d[p]
  /\ \A p \in DOMAIN b : p \in DOMAIN w /\ w[p] = b[p]
  /\ \A p \in DOMAIN d \ DOMAIN b : p < from \/ p >= to => p \in DOMAIN w /\ w[p] = d[p]

(***************************************************************************)
(* Overlay when the cut is behind all output.                              *)
(***************************************************************************)
LEMMA OverlayAll ==
  ASSUME NEW d, NEW b, NEW from, NEW to, \A p \in DOMAIN b : p + Length(b[p]) <= to,
         DOMAIN d \subseteq Nat, DOMAIN b \subseteq Nat, from \in Nat, to \in Nat,
         NEW w, w = Overlay(d, b, from, to)
  PROVE  WrittenOver(w, d, b, from, to)
<1> DEFINE kept == {p \in DOMAIN d : p < from \/ p >= to}
           whole == {p \in DOMAIN b : p + Length(b[p]) <= to}
           torn == {p \in DOMAIN b : p + HeadLen <= to /\ to < p + Length(b[p])}
           o == [p \in kept \cup whole \cup torn |->
                   IF p \in whole THEN b[p] ELSE IF p \in torn THEN Torn(b[p]) ELSE d[p]]
<1>1. w = o
  BY DEF Overlay
<1>2. whole = DOMAIN b
  OBVIOUS
<1>3. \A p \in DOMAIN b : p + Length(b[p]) \in Nat
  BY Lengths
<1>4. torn = {}
  BY <1>3
<1>5. \A p \in DOMAIN o : \/ p \in DOMAIN b /\ o[p] = b[p]
                          \/ p \in DOMAIN d \ DOMAIN b /\ (p < from \/ p >= to) /\ o[p] = d[p]
  BY <1>2, <1>4
<1>6. \A p \in DOMAIN b : p \in DOMAIN o /\ o[p] = b[p]
  BY <1>2, <1>4
<1>7. \A p \in DOMAIN d \ DOMAIN b : p < from \/ p >= to => p \in DOMAIN o /\ o[p] = d[p]
  BY <1>2, <1>4
<1> HIDE DEF o
<1>8. QED
  BY <1>1, <1>5, <1>6, <1>7 DEF WrittenOver

\* Whole holds the records of the disk with those of the buffer over them.
LEMMA WholeRecords ==
  ASSUME IInv PROVE WrittenOver(Whole, disk, buf, synced, wpos)
BY OverlayAll DEF IInv, DiskInv, WriterInv, Output, Whole

(***************************************************************************)
(* Without output the file is what it will be.                             *)
(***************************************************************************)
Same(a, b) == DOMAIN a = DOMAIN b /\ \A p \in DOMAIN a : b[p] = a[p]

\* Where there is no output, the whole file is the file.
LEMMA WholeWithoutOutput ==
  ASSUME NEW d, DOMAIN d \subseteq Nat, NEW at, at \in Nat, NEW b, b = NoRecords
  PROVE  Same(d, Overlay(d, b, at, at))
<1>1. DOMAIN b = {}
  BY DEF NoRecords
<1>2. {p \in DOMAIN d : p < at \/ p >= at} = DOMAIN d
  OBVIOUS
<1>3. Overlay(d, b, at, at) = [p \in DOMAIN d |-> d[p]]
  BY <1>1, <1>2 DEF Overlay
<1>4. QED
  BY <1>3 DEF Same

-----------------------------------------------------------------------------
(***************************************************************************)
(* b has the record that a has at p, and all intact records before p.      *)
(***************************************************************************)
Carried(a, b, p) ==
  /\ p \in DOMAIN a /\ p \in DOMAIN b /\ b[p] = a[p]
  /\ \A x \in DOMAIN a : x < p /\ a[x].ok => x \in DOMAIN b /\ b[x] = a[x]

\* What a file carries from another it carries from an equal one.
LEMMA SameCarried ==
  ASSUME NEW a, NEW b, Same(a, b), NEW p \in DOMAIN b
  PROVE  Carried(a, b, p)
BY DEF Same, Carried

(***************************************************************************)
(* When a writer is at work nothing lies behind the position up to which   *)
(* its output is in the file.                                              *)
(***************************************************************************)
OneInTheWay == mode # "closed" => \A p \in DOMAIN disk : p <= synced

(***************************************************************************)
(* Whatever is written of the output, an intact record of the file has all *)
(* records before it: those of the file or those of the whole output.      *)
(***************************************************************************)
LEMMA DrainCarries ==
  ASSUME IInv, OneInTheWay, mode # "closed",
         NEW cut \in Nat, synced <= cut, cut <= wpos, Drain(cut),
         NEW p \in DOMAIN disk', disk'[p].ok
  PROVE  Carried(Whole, disk', p) \/ Carried(disk, disk', p)
<1>1. /\ DOMAIN disk \subseteq Nat /\ DOMAIN buf \subseteq Nat
      /\ synced \in Nat /\ wpos \in Nat
      /\ \A x \in DOMAIN buf : WellFormed(buf[x]) /\ synced <= x /\ x + Length(buf[x]) <= wpos
      /\ Disjoint(buf) /\ \A x \in DOMAIN buf : buf[x].ok
  BY DEF IInv, DiskInv, WriterInv, Output
<1>2. Overlaid(disk', disk, buf, synced, cut)
  BY <1>1, OverlayRecords DEF Drain
<1>3. \A x \in DOMAIN buf : x + Length(buf[x]) <= cut => x \in DOMAIN disk' /\ disk'[x] = buf[x]
  BY DEF Drain, Overlay
<1>4. WrittenOver(Whole, disk, buf, synced, wpos)
  BY WholeRecords
<1>5. \A x \in DOMAIN disk : x < synced => x \in DOMAIN disk' /\ disk'[x] = disk[x]
  BY <1>1, <1>2 DEF Overlaid
<1>6. CASE p \in DOMAIN buf /\ p + Length(buf[p]) <= cut /\ disk'[p] = buf[p]
  <2>1. p \in DOMAIN Whole /\ Whole[p] = disk'[p]
    BY <1>4, <1>6 DEF WrittenOver
  <2>2. ASSUME NEW x \in DOMAIN Whole, x < p
        PROVE  x \in DOMAIN disk' /\ disk'[x] = Whole[x]
    <3>1. CASE x \in DOMAIN buf /\ Whole[x] = buf[x]
      <4>1. x + Length(buf[x]) <= p
        BY <1>1, <1>6, <2>2, <3>1 DEF Disjoint
      <4>2. /\ x \in Nat /\ p \in Nat /\ Length(buf[x]) \in Nat /\ Length(buf[p]) \in Nat
            /\ p + Length(buf[p]) <= cut
        BY <1>1, <1>6, <3>1, Lengths
      <4>3. x + Length(buf[x]) <= cut
        BY <4>1, <4>2
      <4>4. QED
        BY <1>3, <3>1, <4>3
    <3>2. CASE x \in DOMAIN disk /\ (x < synced \/ x >= wpos) /\ Whole[x] = disk[x]
      <4>1. x < synced
        BY <1>1, <1>6, <2>2, <3>2, Lengths
      <4>2. QED
        BY <1>5, <3>2, <4>1
    <3>3. QED
      BY <1>4, <3>1, <3>2 DEF WrittenOver
  <2>3. QED
    BY <1>6, <2>1, <2>2 DEF Carried
<1>7. CASE p \in DOMAIN disk /\ (p < synced \/ p >= cut) /\ disk'[p] = disk[p]
  <2>1. p <= synced
    BY <1>7 DEF OneInTheWay
  <2>2. \A x \in DOMAIN disk : x < p => x < synced
    BY <1>1, <1>7, <2>1
  <2>3. QED
    BY <1>5, <1>7, <2>2 DEF Carried
<1>8. \/ p \in DOMAIN buf /\ p + Length(buf[p]) <= cut /\ disk'[p] = buf[p]
      \/ p \in DOMAIN disk /\ (p < synced \/ p >= cut) /\ disk'[p] = disk[p]
  <2>1. p \in DOMAIN buf => ~Torn(buf[p]).ok
    BY <1>1, TornRecord
  <2>2. QED
    BY <1>2, <2>1 DEF Overlaid
<1>9. QED
  BY <1>6, <1>7, <1>8

(***************************************************************************)
(* More output leaves what will be in the file before it as it is.         *)
(***************************************************************************)
LEMMA GrowthCarries ==
  ASSUME IInv, IInv', OneInTheWay, mode # "closed", UNCHANGED <<disk, synced>>,
         NEW fresh, DOMAIN buf' = DOMAIN buf \cup fresh,
         \A p \in DOMAIN buf : buf'[p] = buf[p],
         \A p \in fresh : wpos <= p, wpos < wpos'
  PROVE  /\ \A p \in fresh : p \in DOMAIN Whole' /\ Whole'[p] = buf'[p]
         /\ \A p \in DOMAIN Whole : p < wpos => p \in DOMAIN Whole' /\ Whole'[p] = Whole[p]
         /\ \A p \in DOMAIN Whole' : p \in fresh \/ (p < wpos /\ Carried(Whole, Whole', p))
<1>1. /\ DOMAIN disk \subseteq Nat /\ DOMAIN buf \subseteq Nat /\ DOMAIN buf' \subseteq Nat
      /\ synced \in Nat /\ wpos \in Nat /\ wpos' \in Nat /\ synced <= wpos
      /\ \A x \in DOMAIN buf : synced <= x /\ x + Length(buf[x]) <= wpos
      /\ \A x \in DOMAIN buf' : x + Length(buf'[x]) <= wpos'
      /\ \A x \in DOMAIN disk : x <= synced
  BY DEF IInv, DiskInv, WriterInv, Output, OneInTheWay
<1>2. WrittenOver(Whole, disk, buf, synced, wpos)
  BY WholeRecords
<1>3. WrittenOver(Whole', disk, buf', synced, wpos')
  <2>1. Whole' = Overlay(disk, buf', synced, wpos')
    BY DEF Whole
  <2>2. QED
    BY <1>1, <2>1, OverlayAll
<1>4. \A p \in fresh : p \in DOMAIN Whole' /\ Whole'[p] = buf'[p]
  BY <1>3 DEF WrittenOver
<1>5. ASSUME NEW p \in DOMAIN Whole, p < wpos
      PROVE  p \in DOMAIN Whole' /\ Whole'[p] = Whole[p]
  <2>1. CASE p \in DOMAIN buf /\ Whole[p] = buf[p]
    BY <1>3, <2>1 DEF WrittenOver
  <2>2. CASE p \in DOMAIN disk \ DOMAIN buf /\ (p < synced \/ p >= wpos) /\ Whole[p] = disk[p]
    <3>1. p \notin fresh /\ p < synced
      BY <1>1, <1>5, <2>2
    <3>2. QED
      BY <1>3, <2>2, <3>1 DEF WrittenOver
  <2>3. QED
    BY <1>2, <2>1, <2>2 DEF WrittenOver
<1>6. ASSUME NEW p \in DOMAIN Whole', p \notin fresh
      PROVE  p < wpos /\ p \in DOMAIN Whole
  <2>1. CASE p \in DOMAIN buf
    <3>1. p < wpos
      BY <1>1, <2>1, Lengths
    <3>2. QED
      BY <1>2, <2>1, <3>1 DEF WrittenOver
  <2>2. CASE p \in DOMAIN disk \ DOMAIN buf /\ (p < synced \/ p >= wpos')
    <3>1. p < synced
      BY <1>1, <2>2
    <3>2. QED
      BY <1>1, <1>2, <2>2, <3>1 DEF WrittenOver
  <2>3. QED
    BY <1>3, <1>6, <2>1, <2>2 DEF WrittenOver
<1>7. \A x \in DOMAIN Whole : x \in Nat
  BY <1>1, <1>2 DEF WrittenOver
<1>8. ASSUME NEW p \in DOMAIN Whole', p \notin fresh
      PROVE  p < wpos /\ Carried(Whole, Whole', p)
  <2>1. p < wpos /\ p \in DOMAIN Whole /\ p \in Nat
    BY <1>6, <1>7, <1>8
  <2>2. \A x \in DOMAIN Whole : x < p => x < wpos
    BY <1>1, <1>7, <2>1
  <2>3. QED
    BY <1>5, <1>8, <2>1, <2>2 DEF Carried
<1>9. \A p \in DOMAIN Whole' : p \in fresh \/ (p < wpos /\ Carried(Whole, Whole', p))
  BY <1>8
<1>10. \A p \in DOMAIN Whole : p < wpos => p \in DOMAIN Whole' /\ Whole'[p] = Whole[p]
  BY <1>5
<1>11. QED
  BY <1>4, <1>9, <1>10

-----------------------------------------------------------------------------
(***************************************************************************)
(* The pointers of an LCIORandomAccess at p lead to intact records of its  *)
(* kind before it: previous to any, next to one that knows its position.   *)
(***************************************************************************)
Block(d, p) == IsKind(d, p, "acc") /\ d[p].body.first = p
Links(d, body, p) ==
  /\ body.prev < p /\ (body.prev = 0 \/ IsKind(d, body.prev, "acc"))
  /\ body.next < p /\ (body.next = 0 \/ Block(d, body.next))
Linked(d) ==
  \A p \in DOMAIN d : IsKind(d, p, "acc") => p > 0 /\ Links(d, d[p].body, p)

(***************************************************************************)
(* The inductive invariant behind ChainEnds: this holds of the file, of    *)
(* the file as it will be, and of what the writer keeps of it.             *)
(***************************************************************************)
WriterLinked ==
  /\ lastRa # None => /\ Links(disk, lastRa, synced)
                      /\ lastRa.first < synced /\ Block(disk, lastRa.first)
  /\ fileRec # None => Links(disk, fileRec, synced)

LinkInv ==
  /\ OneInTheWay
  /\ Linked(disk) /\ Linked(Whole)
  /\ WriterLinked
  /\ mode = "closed" => lastRa = None /\ fileRec = None

AccTyped(d) == DOMAIN d \subseteq Nat /\ \A p \in DOMAIN d : d[p].kind = "acc" => IsAccess(d[p].body)

\* Access records have the fields of an access record, on disk and in the whole file.
LEMMA DiskTyped == ASSUME IInv PROVE AccTyped(disk) /\ AccTyped(Whole)
<1>1. AccTyped(disk) /\ AccTyped(buf)
  BY DEF IInv, DiskInv, WriterInv, Output, WellFormed, AccTyped
<1>2. WrittenOver(Whole, disk, buf, synced, wpos)
  BY WholeRecords
<1>3. QED
  BY <1>1, <1>2 DEF AccTyped, WrittenOver

(***************************************************************************)
(* The pointers of a record that is carried over stay good.                *)
(***************************************************************************)
LEMMA LinksCarried ==
  ASSUME NEW a, NEW b, AccTyped(a), Linked(a), NEW p, Carried(a, b, p), IsKind(b, p, "acc")
  PROVE  p > 0 /\ Links(b, b[p].body, p)
<1>1. IsKind(a, p, "acc") /\ p \in DOMAIN a /\ b[p] = a[p]
  BY DEF Carried, IsKind, Readable
<1>2. p > 0 /\ Links(a, a[p].body, p)
  BY <1>1 DEF Linked
<1>3. \A x : x < p /\ IsKind(a, x, "acc") => IsKind(b, x, "acc") /\ b[x] = a[x]
  BY DEF Carried, IsKind, Readable
<1>4. QED
  BY <1>1, <1>2, <1>3 DEF Links, Block

\* Linked depends on no more than the records.
LEMMA LinkedSame ==
  ASSUME NEW a, NEW b, AccTyped(a), Linked(a), Same(a, b)
  PROVE  Linked(b)
<1>1. \A p \in DOMAIN b : Carried(a, b, p)
  BY SameCarried
<1>2. QED
  BY <1>1, LinksCarried DEF Linked

(***************************************************************************)
(* Links stay good when the position they are seen from grows and intact   *)
(* records before the old one stay.                                        *)
(***************************************************************************)
LEMMA LinksMonotone ==
  ASSUME NEW a, NEW b, NEW p \in Nat, NEW q \in Nat, p <= q, NEW body, IsAccess(body),
         Links(a, body, p), \A x \in DOMAIN a : x < p => x \in DOMAIN b /\ b[x] = a[x]
  PROVE  Links(b, body, q)
<1>1. body.prev \in Nat /\ body.next \in Nat
  BY AccessFields
<1>2. \A x : x < p /\ IsKind(a, x, "acc") => IsKind(b, x, "acc") /\ b[x] = a[x]
  BY DEF IsKind, Readable
<1>3. QED
  BY <1>1, <1>2 DEF Links, Block

(***************************************************************************)
(* Starting a session.                                                     *)
(***************************************************************************)
LEMMA StartKeepsLinks ==
  ASSUME IInv, IInv', LinkInv, NEW pos \in Nat, StartSession(pos), Linked(disk'),
         \A p \in DOMAIN disk' : p <= pos, WriterLinked'
  PROVE  LinkInv'
<1>1. mode' = "open" /\ synced' = pos /\ wpos' = pos /\ buf' = NoRecords
  BY DEF StartSession, IInv, WriterInv
<1>2. AccTyped(disk')
  BY DEF IInv, DiskInv, WellFormed, AccTyped
<1>3. Same(disk', Whole')
  BY <1>1, <1>2, WholeWithoutOutput DEF Whole, AccTyped
<1>4. Linked(Whole')
  BY <1>2, <1>3, LinkedSame
<1>5. OneInTheWay'
  BY <1>1 DEF OneInTheWay
<1>6. QED
  BY <1>1, <1>4, <1>5 DEF LinkInv

\* A new file has no chain.
LEMMA OpenNewKeepsLinks == ASSUME IInv, IInv', LinkInv, OpenNew PROVE LinkInv'
<1>1. StartSession(0) /\ disk' = NoRecords /\ UNCHANGED <<lastRa, fileRec>> /\ DOMAIN disk' = {}
  BY DEF OpenNew, writer, NoRecords
<1>2. mode = "closed" /\ lastRa' = None /\ fileRec' = None
  BY <1>1 DEF StartSession, LinkInv
<1>3. WriterLinked' /\ Linked(disk') /\ \A p \in DOMAIN disk' : p <= 0
  BY <1>1, <1>2 DEF WriterLinked, Linked
<1>4. QED
  BY <1>1, <1>3, StartKeepsLinks

\* A file without records for random access has no chain to go on from.
LEMMA OpenAppendOldKeepsLinks == ASSUME IInv, IInv', LinkInv, OpenAppendOld PROVE LinkInv'
<1>1. StartSession(size) /\ UNCHANGED <<disk, lastRa, fileRec>> /\ size \in Nat
  BY DEF OpenAppendOld, IInv, DiskInv
<1>2. mode = "closed" /\ lastRa' = None /\ fileRec' = None
  BY <1>1 DEF StartSession, LinkInv
<1>3. WriterLinked'
  BY <1>2 DEF WriterLinked
<1>4. \A p \in DOMAIN disk' : p <= size
  BY <1>1, Lengths DEF IInv, DiskInv, OnDisk
<1>5. Linked(disk')
  BY <1>1 DEF LinkInv
<1>6. QED
  BY <1>1, <1>3, <1>4, <1>5, StartKeepsLinks

(***************************************************************************)
(* The file record is the last record of the file, and its pointers are    *)
(* good.                                                                   *)
(***************************************************************************)
LEMMA OpenAppendKeepsLinks == ASSUME IInv, IInv', LinkInv, OpenAppend PROVE LinkInv'
<1> DEFINE end == size - AccLen
           first == disk[end].body.next
<1>1. /\ IsKind(disk, end, "acc") /\ StartSession(end)
      /\ fileRec' = disk[end].body
      /\ lastRa' = IF IsKind(disk, first, "acc") THEN disk[first].body ELSE None
      /\ UNCHANGED <<disk, size, map>>
  BY DEF OpenAppend
<1>2. end \in Nat /\ end \in DOMAIN disk /\ disk[end].ok /\ disk[end].kind = "acc"
  BY <1>1, Lengths DEF IInv, DiskInv, IsKind, Readable
<1>3. end > 0 /\ Links(disk, disk[end].body, end)
  BY <1>1, <1>2 DEF LinkInv, Linked
<1>4. synced' = end
  BY <1>1 DEF StartSession
<1>5. fileRec' # None => Links(disk', fileRec', synced')
  BY <1>1, <1>3, <1>4
<1>6. ASSUME lastRa' # None
      PROVE  /\ Links(disk', lastRa', synced')
             /\ lastRa'.first < synced' /\ Block(disk', lastRa'.first)
  <2>1. IsKind(disk, first, "acc") /\ lastRa' = disk[first].body /\ first \in DOMAIN disk
    BY <1>1, <1>6 DEF IsKind, Readable
  <2>2. first \in Nat /\ first > 0 /\ Links(disk, disk[first].body, first)
    BY <2>1 DEF LinkInv, Linked, IInv, DiskInv
  <2>3. first < end /\ Block(disk, first)
    BY <1>3, <2>2 DEF Links
  <2>4. IsAccess(lastRa')
    BY <1>6 DEF IInv, WriterInv
  <2>5. Links(disk, lastRa', end)
    <3> HIDE DEF end, first
    <3>1. first <= end
      BY <1>2, <2>2, <2>3
    <3>2. QED
      BY <1>2, <2>1, <2>2, <2>4, <3>1, LinksMonotone
  <2>6. QED
    BY <1>1, <1>4, <2>1, <2>3, <2>5 DEF Block
<1>7. \A p \in DOMAIN disk' : p <= end
  <2> SUFFICES ASSUME NEW p \in DOMAIN disk, p > end PROVE FALSE
    BY <1>1, <1>2 DEF IInv, DiskInv
  <2>1. end + AccLen <= p /\ p + HeadLen <= size
    BY <1>2, Lengths DEF IInv, DiskInv, Disjoint, OnDisk
  <2>2. QED
    BY <1>2, <2>1, Lengths DEF IInv, DiskInv
<1>8. Linked(disk')
  BY <1>1 DEF LinkInv
<1>9. WriterLinked'
  BY <1>5, <1>6 DEF WriterLinked
<1> HIDE DEF end
<1>10. QED
  BY <1>1, <1>2, <1>7, <1>8, <1>9, StartKeepsLinks

(***************************************************************************)
(* Output that is not an LCIORandomAccess.                                 *)
(***************************************************************************)
LEMMA OutputKeepsLinks ==
  ASSUME IInv, IInv', LinkInv, mode # "closed", mode' # "closed",
         UNCHANGED <<disk, synced, lastRa, fileRec>>,
         NEW fresh, DOMAIN buf' = DOMAIN buf \cup fresh,
         \A p \in DOMAIN buf : buf'[p] = buf[p],
         \A p \in fresh : wpos <= p, wpos < wpos',
         \A p \in fresh : IsKind(buf', p, "acc") => p > 0 /\ Links(Whole', buf'[p].body, p)
  PROVE  LinkInv'
<1>1. Linked(Whole) /\ AccTyped(Whole) /\ OneInTheWay
  BY DiskTyped DEF LinkInv
<1>2. /\ \A p \in fresh : p \in DOMAIN Whole' /\ Whole'[p] = buf'[p]
      /\ \A p \in DOMAIN Whole' : p \in fresh \/ (p < wpos /\ Carried(Whole, Whole', p))
  BY <1>1, GrowthCarries
<1>3. Linked(Whole')
  <2> SUFFICES ASSUME NEW p \in DOMAIN Whole', IsKind(Whole', p, "acc")
               PROVE  p > 0 /\ Links(Whole', Whole'[p].body, p)
    BY DEF Linked
  <2>1. CASE p \in fresh
    BY <1>2, <2>1 DEF IsKind, Readable
  <2>2. CASE Carried(Whole, Whole', p)
    BY <1>1, <2>2, LinksCarried
  <2>3. QED
    BY <1>2, <2>1, <2>2
<1>4. OneInTheWay' /\ WriterLinked' /\ Linked(disk')
  BY DEF LinkInv, OneInTheWay, WriterLinked
<1>5. QED
  BY <1>3, <1>4 DEF LinkInv

\* A run header goes behind every record the chain refers to.
LEMMA WriteRunHeaderKeepsLinks ==
  ASSUME IInv, IInv', LinkInv, NEW r \in Runs, WriteRunHeader(r) PROVE LinkInv'
<1> DEFINE rec == Record("run", Item(RunKey(r)))
<1>1. /\ mode = "open" /\ mode' = mode
      /\ buf' = [p \in DOMAIN buf \cup {wpos} |-> IF p = wpos THEN rec ELSE buf[p]]
      /\ wpos' = wpos + DataLen
      /\ UNCHANGED <<disk, size, synced, lastRa, fileRec, sessions, crashes>>
  BY DEF WriteRunHeader, MayWrite
<1>2. rec.kind = "run"
  BY DEF Record
<1> HIDE DEF rec
<1>3. wpos \in Nat /\ wpos < wpos' /\ \A p \in DOMAIN buf : p # wpos
  BY <1>1, Lengths DEF IInv, WriterInv, Output
<1>4. /\ DOMAIN buf' = DOMAIN buf \cup {wpos}
      /\ \A p \in DOMAIN buf : buf'[p] = buf[p]
      /\ \A p \in {wpos} : wpos <= p /\ ~IsKind(buf', p, "acc")
  BY <1>1, <1>2, <1>3 DEF IsKind
<1>5. QED
  BY <1>1, <1>3, <1>4, OutputKeepsLinks

\* So do the header and the record of an event.
LEMMA WriteEventKeepsLinks ==
  ASSUME IInv, IInv', LinkInv, NEW r \in Runs, NEW e \in Evts, WriteEvent(r, e) PROVE LinkInv'
<1> DEFINE epos == wpos + DataLen
           hdr == Record("hdr", Item(EvtKey(r, e)))
           evt == Record("evt", Item(EvtKey(r, e)))
<1>1. /\ mode = "open" /\ mode' = mode
      /\ buf' = [p \in DOMAIN buf \cup {wpos, epos} |->
                   IF p = wpos THEN hdr ELSE IF p = epos THEN evt ELSE buf[p]]
      /\ wpos' = epos + DataLen
      /\ UNCHANGED <<disk, size, synced, lastRa, fileRec, sessions, crashes>>
  BY DEF WriteEvent, MayWrite
<1>2. hdr.kind = "hdr" /\ evt.kind = "evt"
  BY DEF Record
<1> HIDE DEF hdr, evt
<1>3. /\ wpos \in Nat /\ epos \in Nat /\ wpos < wpos' /\ wpos < epos
      /\ \A p \in DOMAIN buf : p # wpos /\ p # epos
  BY <1>1, Lengths DEF IInv, WriterInv, Output
<1> HIDE DEF epos
<1>4. buf'[wpos] = hdr /\ buf'[epos] = evt
  BY <1>1, <1>3
<1>5. /\ DOMAIN buf' = DOMAIN buf \cup {wpos, epos}
      /\ \A p \in DOMAIN buf : buf'[p] = buf[p]
      /\ \A p \in {wpos, epos} : wpos <= p /\ ~IsKind(buf', p, "acc")
  BY <1>1, <1>2, <1>3, <1>4 DEF IsKind
<1>6. QED
  BY <1>1, <1>3, <1>5, OutputKeepsLinks

(***************************************************************************)
(* The pointers of the two LCIORandomAccess records that close() writes:   *)
(* of what there was before them they take only pointers that are good,    *)
(* and the previous block and the new one themselves.                      *)
(***************************************************************************)
LEMMA CloseRecordsLinked ==
  ASSUME IInv, NEW w, NEW ipos \in Nat, NEW apos \in Nat, NEW fpos \in Nat,
         0 < apos, apos < fpos,
         lastRa # None => Links(w, lastRa, apos) /\ lastRa.first < apos /\ Block(w, lastRa.first),
         fileRec # None => Links(w, fileRec, apos),
         Block(w, apos)
  PROVE  /\ Links(w, NewAccess(ipos, apos), apos)
         /\ Links(w, FileRecord(NewAccess(ipos, apos), apos), fpos)
<1> DEFINE ra == NewAccess(ipos, apos)
           base == IF fileRec = None
                   THEN [nRun |-> 0, nEvt |-> 0, index |-> 0, prev |-> apos, next |-> 0, first |-> 0]
                   ELSE fileRec
           low  == IF lastRa # None /\ 0 < lastRa.prev THEN Smaller(lastRa.prev, base.prev)
                   ELSE base.prev
           high == IF lastRa # None THEN Larger(lastRa.next, base.next) ELSE base.next
           Prev(x) == x \in Nat /\ x < fpos /\ (x = 0 \/ IsKind(w, x, "acc"))
           To(x) == x \in Nat /\ x < fpos /\ (x = 0 \/ Block(w, x))
<1>1. /\ lastRa # None => lastRa.prev \in Nat /\ lastRa.next \in Nat /\ lastRa.first \in Nat
      /\ fileRec # None => fileRec.prev \in Nat /\ fileRec.next \in Nat
  BY AccessFields DEF IInv, WriterInv
<1>2. ra.next = 0 /\ ra.prev = IF lastRa = None THEN 0 ELSE lastRa.first
  BY DEF NewAccess
<1>3. Links(w, ra, apos)
  BY <1>1, <1>2 DEF Links, Block
<1>4. Prev(apos) /\ To(apos) /\ To(0)
  BY DEF Block
<1>5. Prev(base.prev) /\ To(base.next)
  BY <1>1, <1>4 DEF Links
<1>6. lastRa # None => Prev(lastRa.prev) /\ To(lastRa.next)
  BY <1>1 DEF Links
<1>7. \A x, y : Smaller(x, y) \in {x, y} /\ Larger(x, y) \in {x, y}
  BY DEF Smaller, Larger
<1> HIDE DEF Prev, To, base
<1>8. Prev(low) /\ To(high)
  BY <1>5, <1>6, <1>7
<1>9. Prev(Smaller(low, apos)) /\ To(Larger(high, apos))
  BY <1>4, <1>7, <1>8
<1>10. /\ FileRecord(ra, apos).prev = Smaller(low, apos)
       /\ FileRecord(ra, apos).next = Larger(high, apos)
  BY DEF FileRecord, base
<1>11. Links(w, FileRecord(ra, apos), fpos)
  BY <1>9, <1>10 DEF Links, Prev, To
<1>12. QED
  BY <1>3, <1>11

\* Closing adds a block to the chain, and the file record that names it.
LEMMA WriteRandomAccessRecordsKeepsLinks ==
  ASSUME IInv, IInv', LinkInv, WriteRandomAccessRecords PROVE LinkInv'
<1> DEFINE apos == wpos + DataLen
           fpos == apos + AccLen
           idx == Record("idx", Encode(map))
           ra == NewAccess(wpos, apos)
           file == FileRecord(ra, apos)
           fresh == {wpos, apos, fpos}
<1>1. /\ mode = "open" /\ mode' = "closing"
      /\ \/ UNCHANGED <<buf, wpos>>
         \/ /\ buf' = [p \in DOMAIN buf \cup fresh |->
                         IF p = wpos THEN idx ELSE IF p = apos THEN Record("acc", ra)
                         ELSE IF p = fpos THEN Record("acc", file) ELSE buf[p]]
            /\ wpos' = fpos + AccLen
      /\ UNCHANGED <<disk, size, synced, map, lastRa, fileRec, sessions, puts, crashes>>
  BY DEF WriteRandomAccessRecords
<1>2. /\ wpos \in Nat /\ apos \in Nat /\ fpos \in Nat
      /\ wpos < apos /\ apos < fpos /\ wpos < fpos + AccLen /\ 0 < apos
      /\ synced \in Nat /\ synced <= wpos
  BY Lengths DEF IInv, WriterInv
<1>3. CASE UNCHANGED <<buf, wpos>>
  <2>1. Whole' = Whole
    BY <1>1, <1>3 DEF Whole
  <2>2. QED
    BY <1>1, <2>1 DEF LinkInv, OneInTheWay, WriterLinked
<1>4. CASE /\ buf' = [p \in DOMAIN buf \cup fresh |->
                       IF p = wpos THEN idx ELSE IF p = apos THEN Record("acc", ra)
                       ELSE IF p = fpos THEN Record("acc", file) ELSE buf[p]]
           /\ wpos' = fpos + AccLen
  <2>1. idx.kind = "idx" /\ \A body : /\ Record("acc", body).kind = "acc" /\ Record("acc", body).ok
                                      /\ Record("acc", body).body = body
    BY DEF Record
  <2>2. ra.first = apos
    BY DEF NewAccess
  <2> HIDE DEF idx, ra, file
  <2>3. \A p \in DOMAIN buf : p \notin fresh
    BY <1>2, Lengths DEF IInv, WriterInv, Output
  <2>4. /\ DOMAIN buf' = DOMAIN buf \cup fresh
        /\ \A p \in DOMAIN buf : buf'[p] = buf[p]
        /\ \A p \in fresh : wpos <= p
        /\ wpos < wpos'
    BY <1>2, <1>4, <2>3
  <2>5. buf'[wpos] = idx /\ buf'[apos] = Record("acc", ra) /\ buf'[fpos] = Record("acc", file)
    BY <1>2, <1>4
  <2> HIDE DEF apos, fpos
  <2>6. /\ \A p \in fresh : p \in DOMAIN Whole' /\ Whole'[p] = buf'[p]
        /\ \A p \in DOMAIN Whole : p < wpos => p \in DOMAIN Whole' /\ Whole'[p] = Whole[p]
    <3> HIDE DEF fresh
    <3>1. QED
      BY <1>1, <2>4, GrowthCarries DEF LinkInv
  <2>7. \A p \in DOMAIN disk : p < synced => p \in DOMAIN Whole' /\ Whole'[p] = disk[p]
    <3>1. \A p \in DOMAIN disk : p < synced => p \notin DOMAIN buf /\ p \in Nat
      BY <1>2 DEF IInv, DiskInv, WriterInv, Output
    <3>2. \A p \in DOMAIN disk : p < synced => p \in DOMAIN Whole /\ Whole[p] = disk[p]
      BY <3>1, WholeRecords DEF WrittenOver
    <3>3. QED
      BY <1>2, <2>6, <3>1, <3>2
  <2>8. Block(Whole', apos)
    BY <2>1, <2>2, <2>5, <2>6 DEF Block, IsKind, Readable
  <2>9. lastRa # None => /\ Links(Whole', lastRa, apos) /\ lastRa.first < apos
                         /\ Block(Whole', lastRa.first)
    <3> SUFFICES ASSUME lastRa # None
                 PROVE  /\ Links(Whole', lastRa, apos) /\ lastRa.first < apos
                        /\ Block(Whole', lastRa.first)
      OBVIOUS
    <3>1. /\ Links(disk, lastRa, synced) /\ lastRa.first < synced
          /\ Block(disk, lastRa.first)
      BY DEF LinkInv, WriterLinked
    <3>2. IsAccess(lastRa) /\ lastRa.first \in Nat /\ synced <= apos
      BY <1>2, AccessFields DEF IInv, WriterInv
    <3>3. Links(Whole', lastRa, apos)
      BY <1>2, <2>7, <3>1, <3>2, LinksMonotone
    <3>4. Block(Whole', lastRa.first)
      BY <2>7, <3>1 DEF Block, IsKind, Readable
    <3>5. QED
      BY <1>2, <3>1, <3>2, <3>3, <3>4
  <2>10. fileRec # None => Links(Whole', fileRec, apos)
    <3> SUFFICES ASSUME fileRec # None PROVE Links(Whole', fileRec, apos)
      OBVIOUS
    <3>1. Links(disk, fileRec, synced) /\ IsAccess(fileRec) /\ synced <= apos
      BY <1>2 DEF LinkInv, WriterLinked, IInv, WriterInv
    <3>2. QED
      BY <1>2, <2>7, <3>1, LinksMonotone
  <2>11. Links(Whole', ra, apos) /\ Links(Whole', file, fpos)
    BY <1>2, <2>8, <2>9, <2>10, CloseRecordsLinked DEF ra, file
  <2>12. \A p \in fresh : IsKind(buf', p, "acc") => p > 0 /\ Links(Whole', buf'[p].body, p)
    BY <1>2, <2>1, <2>5, <2>11 DEF IsKind
  <2> HIDE DEF fresh
  <2>13. QED
    BY <1>1, <2>4, <2>12, OutputKeepsLinks
<1>5. QED
  BY <1>1, <1>3, <1>4

(***************************************************************************)
(* Output that reaches the file, all of it or up to a cut.                 *)
(***************************************************************************)
LEMMA DrainKeepsLinks ==
  ASSUME IInv, IInv', LinkInv, mode # "closed",
         NEW cut \in Nat, synced <= cut, cut <= wpos, Drain(cut),
         buf' = NoRecords, synced' = wpos'
  PROVE  Linked(disk') /\ Linked(Whole')
<1>1. /\ Linked(disk) /\ AccTyped(disk) /\ Linked(Whole) /\ AccTyped(Whole) /\ OneInTheWay
      /\ AccTyped(disk')
  BY DiskTyped DEF LinkInv, IInv, DiskInv, WellFormed, AccTyped
<1>2. Linked(disk')
  <2> SUFFICES ASSUME NEW p \in DOMAIN disk', IsKind(disk', p, "acc")
               PROVE  p > 0 /\ Links(disk', disk'[p].body, p)
    BY DEF Linked
  <2>1. Carried(Whole, disk', p) \/ Carried(disk, disk', p)
    BY <1>1, DrainCarries DEF IsKind, Readable
  <2>2. QED
    BY <1>1, <2>1, LinksCarried
<1>3. Same(disk', Whole')
  <2>1. synced' \in Nat /\ DOMAIN disk' \subseteq Nat
    BY DEF IInv, DiskInv, WriterInv
  <2>2. Whole' = Overlay(disk', buf', synced', synced')
    BY DEF Whole
  <2>3. QED
    BY <2>1, <2>2, WholeWithoutOutput
<1>4. QED
  BY <1>1, <1>2, <1>3, LinkedSame

\* A flush moves output to the file and changes no record.
LEMMA FlushKeepsLinks == ASSUME IInv, IInv', LinkInv, Flush PROVE LinkInv'
<1>1. /\ mode = "open" /\ buf # NoRecords /\ Drain(wpos) /\ buf' = NoRecords /\ synced' = wpos
      /\ UNCHANGED <<mode, wpos, map, lastRa, fileRec, sessions, puts, crashes>>
  BY DEF Flush
<1>2. /\ wpos \in Nat /\ synced \in Nat /\ synced <= wpos /\ wpos <= wpos
      /\ DOMAIN disk \subseteq Nat
  BY DEF IInv, DiskInv, WriterInv
<1>3. Linked(disk') /\ Linked(Whole')
  BY <1>1, <1>2, DrainKeepsLinks
<1>4. \A p \in DOMAIN disk : p < synced => p \in DOMAIN disk' /\ disk'[p] = disk[p]
  BY <1>1, <1>2, DrainKeepsBefore DEF KeptBefore
<1>5. OneInTheWay'
  <2> SUFFICES ASSUME NEW p \in DOMAIN disk' PROVE p <= wpos
    BY <1>1 DEF OneInTheWay
  <2>1. Overlaid(disk', disk, buf, synced, wpos)
    BY <1>1, <1>2, OverlayRecords DEF Drain, IInv, WriterInv, Output
  <2>2. p \in DOMAIN buf \/ p \in DOMAIN disk
    BY <2>1 DEF Overlaid
  <2>3. \A x \in DOMAIN buf : x \in Nat /\ x + Length(buf[x]) <= wpos
    BY DEF IInv, WriterInv, Output
  <2>4. \A x \in DOMAIN disk : x <= synced
    BY <1>1 DEF LinkInv, OneInTheWay
  <2>5. QED
    BY <1>2, <2>2, <2>3, <2>4, Lengths
<1>6. WriterLinked'
  <2>1. lastRa # None => /\ Links(disk', lastRa, wpos)
                         /\ lastRa.first < wpos /\ Block(disk', lastRa.first)
    <3> SUFFICES ASSUME lastRa # None
                 PROVE  /\ Links(disk', lastRa, wpos)
                        /\ lastRa.first < wpos /\ Block(disk', lastRa.first)
      OBVIOUS
    <3>1. /\ Links(disk, lastRa, synced) /\ lastRa.first < synced
          /\ Block(disk, lastRa.first) /\ IsAccess(lastRa) /\ lastRa.first \in Nat
      BY AccessFields DEF LinkInv, WriterLinked, IInv, WriterInv
    <3>2. Links(disk', lastRa, wpos)
      BY <1>2, <1>4, <3>1, LinksMonotone
    <3>3. Block(disk', lastRa.first)
      BY <1>4, <3>1 DEF Block, IsKind, Readable
    <3>4. QED
      BY <1>2, <3>1, <3>2, <3>3
  <2>2. fileRec # None => Links(disk', fileRec, wpos)
    <3> SUFFICES ASSUME fileRec # None PROVE Links(disk', fileRec, wpos)
      OBVIOUS
    <3>1. Links(disk, fileRec, synced) /\ IsAccess(fileRec)
      BY DEF LinkInv, WriterLinked, IInv, WriterInv
    <3>2. QED
      BY <1>2, <1>4, <3>1, LinksMonotone
  <2>3. QED
    BY <1>1, <2>1, <2>2 DEF WriterLinked
<1>7. QED
  BY <1>1, <1>3, <1>5, <1>6 DEF LinkInv

\* A session that ends, by close or crash, leaves a prefix of its output.
LEMMA EndKeepsLinks ==
  ASSUME IInv, IInv', LinkInv, mode # "closed",
         NEW cut \in Nat, synced <= cut, cut <= wpos, Drain(cut), EndSession
  PROVE  LinkInv'
<1>1. /\ mode' = "closed" /\ buf' = NoRecords /\ synced' = wpos'
      /\ lastRa' = None /\ fileRec' = None
  BY DEF EndSession
<1>2. Linked(disk') /\ Linked(Whole')
  BY <1>1, DrainKeepsLinks
<1>3. QED
  BY <1>1, <1>2 DEF LinkInv, OneInTheWay, WriterLinked

\* No file has no chain.
LEMMA InitLinks == Init => LinkInv
<1> SUFFICES ASSUME Init PROVE LinkInv
  OBVIOUS
<1>1. DOMAIN disk = {} /\ buf = NoRecords /\ synced = 0 /\ wpos = 0 /\ mode = "closed"
  BY DEF Init, NoRecords
<1>2. Same(disk, Whole)
  BY <1>1, WholeWithoutOutput DEF Whole
<1>3. Linked(disk) /\ Linked(Whole)
  BY <1>1, <1>2 DEF Linked, Same
<1>4. QED
  BY <1>1, <1>3 DEF Init, LinkInv, OneInTheWay, WriterLinked

(***************************************************************************)
(* Every step keeps the pointers good.                                     *)
(***************************************************************************)
LEMMA NextLinks == IInv /\ IInv' /\ LinkInv /\ [Next]_vars => LinkInv'
<1> SUFFICES ASSUME IInv, IInv', LinkInv, [Next]_vars PROVE LinkInv'
  OBVIOUS
<1>1. CASE OpenNew
  BY <1>1, OpenNewKeepsLinks
<1>2. CASE OpenAppend
  BY <1>2, OpenAppendKeepsLinks
<1>3. CASE OpenAppendOld
  BY <1>3, OpenAppendOldKeepsLinks
<1>4. ASSUME NEW r \in Runs, WriteRunHeader(r) PROVE LinkInv'
  BY <1>4, WriteRunHeaderKeepsLinks
<1>5. ASSUME NEW r \in Runs, NEW e \in Evts, WriteEvent(r, e) PROVE LinkInv'
  BY <1>5, WriteEventKeepsLinks
<1>6. CASE Flush
  BY <1>6, FlushKeepsLinks
<1>7. CASE WriteRandomAccessRecords
  BY <1>7, WriteRandomAccessRecordsKeepsLinks
<1>8. CASE CloseStream
  <2>1. mode # "closed" /\ Drain(wpos) /\ EndSession
    BY <1>8 DEF CloseStream
  <2>2. wpos \in Nat /\ synced <= wpos /\ wpos <= wpos
    BY DEF IInv, WriterInv
  <2>3. QED
    BY <2>1, <2>2, EndKeepsLinks
<1>9. CASE Crash
  <2>1. mode # "closed" /\ EndSession
    BY <1>9 DEF Crash
  <2>2. PICK cut \in synced .. wpos : Drain(cut)
    BY <1>9 DEF Crash
  <2>3. cut \in Nat /\ synced <= cut /\ cut <= wpos
    BY DEF IInv, WriterInv
  <2>4. QED
    BY <2>1, <2>2, <2>3, EndKeepsLinks
<1>10. CASE UNCHANGED vars
  <2>1. Whole' = Whole
    BY <1>10 DEF Whole, vars
  <2>2. QED
    BY <1>10, <2>1 DEF LinkInv, OneInTheWay, WriterLinked, vars
<1>11. QED
  BY <1>1, <1>2, <1>3, <1>4, <1>5, <1>6, <1>7, <1>8, <1>9, <1>10 DEF Next

\* The links between the records for random access hold in every state.
THEOREM SpecLinkInv == Spec => []LinkInv
BY SpecIInv, InitLinks, NextLinks, PTL DEF Spec

-----------------------------------------------------------------------------
(***************************************************************************)
(* The walk of Chain: from p it follows the previous pointers.             *)
(***************************************************************************)
ChainWalk(f, d) ==
  \A p \in Nat : f[p] = IF p = 0 THEN {}
                        ELSE IF ~IsKind(d, p, "acc") THEN {p}
                        ELSE {p} \cup f[d[p].body.prev]

(***************************************************************************)
(* Where pointers lead down, Chain is what such a walk passes.             *)
(***************************************************************************)
LEMMA ChainPath ==
  ASSUME NEW d, AccTyped(d), Linked(d)
  PROVE  \E f : ChainWalk(f, d) /\ \A p \in Nat : Chain(d, p) = f[p]
<1> DEFINE stop == {p \in Nat : p = 0 \/ ~IsKind(d, p, "acc")}
           rank == [p \in Nat |-> p]
           nxt == [p \in Nat |-> IF p \in stop THEN 0 ELSE d[p].body.prev]
           base == [p \in Nat |-> IF p = 0 THEN {} ELSE {p}]
           Is(f) == f = [p \in Nat |-> IF p = 0 THEN {}
                                       ELSE IF ~IsKind(d, p, "acc") THEN {p}
                                       ELSE {p} \cup f[d[p].body.prev]]
<1>1. \A p \in Nat \ stop : d[p].body.prev \in Nat /\ d[p].body.prev < p
  BY AccessFields DEF AccTyped, Linked, Links, IsKind, Readable
<1>2. rank \in [Nat -> Nat] /\ nxt \in [Nat -> Nat] /\ base \in [Nat -> SUBSET Nat]
  BY <1>1
<1>3. \A p \in Nat \ stop : rank[nxt[p]] < rank[p]
  BY <1>1
<1> HIDE DEF stop, rank, nxt, base
<1>4. PICK f : Collects(f, stop, base, nxt)
  BY <1>2, <1>3, ReachExists
<1>5. Is(f)
  <2>1. \A p \in Nat : f[p] = IF p = 0 THEN {} ELSE IF ~IsKind(d, p, "acc") THEN {p}
                              ELSE {p} \cup f[d[p].body.prev]
    BY <1>4 DEF stop, nxt, base, Collects
  <2>2. f = [p \in Nat |-> f[p]]
    BY <1>4 DEF Collects
  <2>3. QED
    BY <2>1, <2>2
<1> DEFINE g == CHOOSE h : Is(h)
<1>6. Is(g)
  BY <1>5
<1>7. \A p \in Nat : Chain(d, p) = g[p]
  BY DEF Chain
<1> HIDE DEF g
<1>8. ChainWalk(g, d)
  <2>1. \A p \in Nat : g[p] = IF p = 0 THEN {} ELSE IF ~IsKind(d, p, "acc") THEN {p}
                              ELSE {p} \cup g[d[p].body.prev]
    BY <1>6
  <2>2. QED
    BY <2>1 DEF ChainWalk
<1>9. QED
  BY <1>7, <1>8

(***************************************************************************)
(* From an intact block the previous pointers lead to intact blocks only.  *)
(***************************************************************************)
LEMMA ChainIntact ==
  ASSUME NEW d, AccTyped(d), Linked(d), NEW first \in Nat,
         first = 0 \/ IsKind(d, first, "acc"), NEW q \in Chain(d, first)
  PROVE  IsKind(d, q, "acc")
<1>1. PICK f : ChainWalk(f, d) /\ \A p \in Nat : Chain(d, p) = f[p]
  BY ChainPath
<1> DEFINE Bad == {p \in Nat : (p = 0 \/ IsKind(d, p, "acc"))
                              /\ \E r \in f[p] : ~IsKind(d, r, "acc")}
<1>2. SUFFICES ASSUME Bad # {} PROVE FALSE
  BY <1>1
<1>3. PICK p \in Bad : \A x \in Bad : p <= x
  <2> HIDE DEF Bad
  <2>1. Bad \in SUBSET Nat
    BY DEF Bad
  <2>2. QED
    BY <1>2, <2>1, LeastNatural
<1>4. p \in Nat /\ p # 0 /\ IsKind(d, p, "acc")
  BY <1>1 DEF ChainWalk
<1> DEFINE x == d[p].body.prev
<1>5. x \in Nat /\ x < p /\ (x = 0 \/ IsKind(d, x, "acc"))
  BY <1>4, AccessFields DEF AccTyped, Linked, Links, IsKind, Readable
<1>6. x \notin Bad
  BY <1>3, <1>4, <1>5
<1>7. f[p] = {p} \cup f[x]
  BY <1>1, <1>4 DEF ChainWalk
<1>8. QED
  BY <1>4, <1>5, <1>6, <1>7

(***************************************************************************)
(* Following the previous pointers of a file ends at the first block,      *)
(* whatever the lengths of the records, however many sessions there were   *)
(* and wherever their writers died.                                        *)
(***************************************************************************)
THEOREM SpecChainEnds == Spec => []ChainEnds
<1> DEFINE end == size - AccLen
           first == disk[end].body.next
<1>1. ASSUME IInv, LinkInv, IsKind(disk, end, "acc"), IsKind(disk, first, "acc")
      PROVE  \A p \in Chain(disk, first) : Readable(disk, p) /\ disk[p].kind = "acc"
  <2>1. first \in Nat
    BY <1>1 DEF IInv, DiskInv, IsKind, Readable
  <2>2. AccTyped(disk) /\ Linked(disk)
    BY <1>1, DiskTyped DEF LinkInv
  <2> HIDE DEF first
  <2>3. QED
    BY <1>1, <2>1, <2>2, ChainIntact DEF IsKind
<1>2. ASSUME IInv, LinkInv PROVE Direct.status \notin {"broken", "endless"}
  <2>1. CASE size < AccLen
    BY <2>1 DEF Direct, CreateEventMap
  <2>2. CASE ~(size < AccLen) /\ ~Readable(disk, end)
    BY <2>2 DEF Direct, CreateEventMap
  <2>3. CASE ~(size < AccLen) /\ Readable(disk, end) /\ ~IsKind(disk, end, "acc")
    BY <2>3 DEF Direct, CreateEventMap
  <2>4. CASE ~(size < AccLen) /\ Readable(disk, end) /\ IsKind(disk, end, "acc")
             /\ ~IsKind(disk, first, "acc")
    BY <2>4 DEF Direct, CreateEventMap
  <2>5. CASE ~(size < AccLen) /\ Readable(disk, end) /\ IsKind(disk, end, "acc")
             /\ IsKind(disk, first, "acc")
    <3>1. /\ ~(\E p \in Chain(disk, first) : ~Readable(disk, p))
          /\ ~(\E p \in Chain(disk, first) : disk[p].kind # "acc")
      BY <1>1, <1>2, <2>5
    <3>2. Direct.status = "ok"
      BY <2>5, <3>1 DEF Direct, CreateEventMap
    <3>3. QED
      BY <3>2
  <2>6. QED
    BY <2>1, <2>2, <2>3, <2>4, <2>5
<1>3. IInv /\ LinkInv => ChainEnds
  BY <1>2 DEF ChainEnds
<1>4. QED
  BY <1>3, SpecIInv, SpecLinkInv, PTL

-----------------------------------------------------------------------------
(***************************************************************************)
(* An intact run or event header of a key, and an index at p of which      *)
(* every entry leads to a header of its key before the index.              *)
(***************************************************************************)
Header(d, p, k) == Readable(d, p) /\ d[p].kind \in {"run", "hdr"} /\ d[p].body.key = k
Leads(d, f, p) == \A k \in DOMAIN f : f[k] < p /\ Header(d, f[k], k)
IndexSound(d) == \A p \in DOMAIN d : IsKind(d, p, "idx") => Leads(d, Decode(d[p].body), p)

(***************************************************************************)
(* The inductive invariant behind DirectSound: this holds of the file and  *)
(* of the file as it will be, and the map of the writer leads to headers.  *)
(***************************************************************************)
SoundInv ==
  /\ IndexSound(disk) /\ IndexSound(Whole)
  /\ map.pos \in [Keys(map) -> Nat] /\ Leads(Whole, map.pos, wpos)
  /\ mode = "closed" => Keys(map) = {}

\* What a client may do so that an index gives the map back.
ClosesCompactible == mode = "open" /\ MayClose /\ ~IsEmpty(map) => Compactible(map)

\* A record carried over leads where it led.
LEMMA LeadsCarried ==
  ASSUME NEW a, NEW b, IndexSound(a), NEW p, Carried(a, b, p), IsKind(b, p, "idx")
  PROVE  Leads(b, Decode(b[p].body), p)
<1>1. IsKind(a, p, "idx") /\ p \in DOMAIN a /\ b[p] = a[p]
  BY DEF Carried, IsKind, Readable
<1>2. Leads(a, Decode(a[p].body), p)
  BY <1>1 DEF IndexSound
<1>3. \A x, k : x < p /\ Header(a, x, k) => Header(b, x, k)
  BY DEF Carried, Header, Readable
<1>4. QED
  BY <1>1, <1>2, <1>3 DEF Leads

\* IndexSound depends on no more than the records.
LEMMA IndexSoundSame ==
  ASSUME NEW a, NEW b, IndexSound(a), Same(a, b)
  PROVE  IndexSound(b)
<1>1. \A p \in DOMAIN b : Carried(a, b, p)
  BY SameCarried
<1>2. QED
  BY <1>1, LeadsCarried DEF IndexSound

\* b has all intact records that a has before p.
Holds(a, b, p) == \A x \in DOMAIN a : x < p /\ a[x].ok => x \in DOMAIN b /\ b[x] = a[x]

\* Headers before p are still led to when the file changes behind p.
LEMMA LeadsMonotone ==
  ASSUME NEW a, NEW b, NEW p \in Nat, NEW q \in Nat, p <= q, NEW f, f \in [DOMAIN f -> Nat],
         Leads(a, f, p), Holds(a, b, p)
  PROVE  Leads(b, f, q)
<1>1. \A x, k : x < p /\ Header(a, x, k) => Header(b, x, k)
  BY DEF Header, Readable, Holds
<1>2. \A k \in DOMAIN f : f[k] \in Nat /\ f[k] < p /\ Header(a, f[k], k)
  BY DEF Leads
<1>3. QED
  BY <1>1, <1>2 DEF Leads

(***************************************************************************)
(* What recreateEventMap finds are headers, whatever else is in the file.  *)
(***************************************************************************)
LEMMA RecreatedLeads ==
  ASSUME DiskInv
  PROVE  LET m == RecreateEventMap(disk)
         IN  m.pos \in [Keys(m) -> Nat] /\ Leads(disk, m.pos, size)
<1> DEFINE H == Headers(disk)
           K == {disk[p].body.key : p \in H}
           at(k) == {p \in H : disk[p].body.key = k}
           f == [k \in K |-> CHOOSE p \in at(k) : \A q \in at(k) : q <= p]
           m == RecreateEventMap(disk)
<1>1. /\ H \in SUBSET DOMAIN disk
      /\ \A p \in H : Readable(disk, p) /\ disk[p].kind \in {"run", "hdr"}
  BY DEF Headers, Scan, Readable
<1> HIDE DEF H
<1>2. ASSUME NEW k \in K PROVE f[k] \in at(k)
  <2>1. at(k) # {} /\ at(k) \in SUBSET Nat /\ \A p \in at(k) : p <= size
    BY <1>1, Lengths DEF DiskInv, OnDisk
  <2>2. \E p \in at(k) : \A q \in at(k) : q <= p
    BY <2>1, LastPosition DEF DiskInv
  <2>3. QED
    BY <2>2
<1>3. m.pos = [k \in Keys(EmptyMap) \cup DOMAIN f |-> IF k \in DOMAIN f THEN f[k] ELSE EmptyMap.pos[k]]
  BY DEF RecreateEventMap, AddAll, H
<1>4. Keys(EmptyMap) = {}
  BY EmptyCounted
<1>5. DOMAIN m.pos = K /\ \A k \in K : m.pos[k] = f[k]
  BY <1>3, <1>4
<1>6. \A k \in K : f[k] \in Nat /\ f[k] < size
  <2>1. \A p \in H : p \in Nat /\ p < size
    BY <1>1, Lengths DEF DiskInv, OnDisk
  <2>2. QED
    BY <1>2, <2>1
<1>7. \A k \in K : Header(disk, f[k], k)
  BY <1>1, <1>2 DEF Header
<1>8. m.pos \in [K -> Nat]
  BY <1>3, <1>4, <1>6
<1> HIDE DEF m, K, f
<1>9. QED
  BY <1>5, <1>6, <1>7, <1>8 DEF Leads, Keys, m

-----------------------------------------------------------------------------
(***************************************************************************)
(* Starting a session.                                                     *)
(***************************************************************************)
LEMMA StartKeepsSound ==
  ASSUME IInv, IInv', SoundInv, NEW pos \in Nat, StartSession(pos), IndexSound(disk'),
         map'.pos \in [Keys(map') -> Nat], Leads(disk', map'.pos, pos)
  PROVE  SoundInv'
<1>1. mode' = "open" /\ synced' = pos /\ wpos' = pos /\ buf' = NoRecords
  BY DEF StartSession, IInv, WriterInv
<1>2. DOMAIN disk' \subseteq Nat
  BY DEF IInv, DiskInv
<1>3. Same(disk', Whole')
  BY <1>1, <1>2, WholeWithoutOutput DEF Whole
<1>4. IndexSound(Whole')
  BY <1>3, IndexSoundSame
<1>5. Leads(Whole', map'.pos, pos)
  <2>1. \A x, k : Header(disk', x, k) => Header(Whole', x, k)
    BY <1>3 DEF Header, Readable, Same
  <2>2. QED
    BY <2>1 DEF Leads
<1>6. QED
  BY <1>1, <1>4, <1>5 DEF SoundInv

\* Opening a file, new or to append, starts from a sound map.
LEMMA OpenKeepsSound ==
  ASSUME IInv, IInv', SoundInv, OpenNew \/ OpenAppend \/ OpenAppendOld
  PROVE  SoundInv'
<1>1. CASE OpenNew \/ OpenAppend
  <2>1. UNCHANGED map /\ mode = "closed" /\ Keys(map) = {}
    BY <1>1 DEF OpenNew, OpenAppend, StartSession, writer, SoundInv
  <2>2. map'.pos \in [Keys(map') -> Nat] /\ \A d, p : Leads(d, map'.pos, p)
    BY <2>1 DEF SoundInv, Leads, Keys
  <2>3. PICK pos \in Nat : StartSession(pos)
    <3>1. CASE OpenNew
      BY <3>1 DEF OpenNew
    <3>2. CASE OpenAppend
      BY <3>2, Lengths DEF OpenAppend, IInv, DiskInv
    <3>3. QED
      BY <1>1, <3>1, <3>2
  <2>4. IndexSound(disk')
    <3>1. CASE OpenNew
      BY <3>1 DEF OpenNew, NoRecords, IndexSound
    <3>2. CASE OpenAppend
      BY <3>2 DEF OpenAppend, SoundInv
    <3>3. QED
      BY <1>1, <3>1, <3>2
  <2>5. QED
    BY <2>2, <2>3, <2>4, StartKeepsSound
<1>2. CASE OpenAppendOld
  <2>1. StartSession(size) /\ map' = RecreateEventMap(disk) /\ UNCHANGED disk /\ size \in Nat
    BY <1>2 DEF OpenAppendOld, IInv, DiskInv
  <2>2. map'.pos \in [Keys(map') -> Nat] /\ Leads(disk', map'.pos, size)
    BY <2>1, RecreatedLeads DEF IInv
  <2>3. IndexSound(disk')
    BY <2>1 DEF SoundInv
  <2>4. QED
    BY <2>1, <2>2, <2>3, StartKeepsSound
<1>3. QED
  BY <1>1, <1>2

(***************************************************************************)
(* More output: new indices and a new map must lead to headers.            *)
(***************************************************************************)
LEMMA OutputKeepsSound ==
  ASSUME IInv, IInv', OneInTheWay, SoundInv, mode # "closed", mode' # "closed",
         UNCHANGED <<disk, synced>>,
         NEW fresh, DOMAIN buf' = DOMAIN buf \cup fresh,
         \A p \in DOMAIN buf : buf'[p] = buf[p],
         \A p \in fresh : wpos <= p, wpos < wpos',
         \A p \in fresh : IsKind(buf', p, "idx") => Leads(Whole', Decode(buf'[p].body), p),
         map'.pos \in [Keys(map') -> Nat], Leads(Whole', map'.pos, wpos')
  PROVE  SoundInv'
<1>1. /\ \A p \in fresh : p \in DOMAIN Whole' /\ Whole'[p] = buf'[p]
      /\ \A p \in DOMAIN Whole' : p \in fresh \/ (p < wpos /\ Carried(Whole, Whole', p))
  BY GrowthCarries
<1>2. IndexSound(Whole')
  <2> SUFFICES ASSUME NEW p \in DOMAIN Whole', IsKind(Whole', p, "idx")
               PROVE  Leads(Whole', Decode(Whole'[p].body), p)
    BY DEF IndexSound
  <2>1. CASE p \in fresh
    BY <1>1, <2>1 DEF IsKind, Readable
  <2>2. CASE Carried(Whole, Whole', p)
    BY <2>2, LeadsCarried DEF SoundInv
  <2>3. QED
    BY <1>1, <2>1, <2>2
<1>3. QED
  BY <1>2 DEF SoundInv

(***************************************************************************)
(* The map after a header was written at the end of the output.            *)
(***************************************************************************)
LEMMA AddLeads ==
  ASSUME NEW m, NEW a, NEW b, NEW p \in Nat, NEW q \in Nat, p < q, NEW key \in MapKeys,
         m.pos \in [Keys(m) -> Nat], Leads(a, m.pos, p),
         Holds(a, b, p), Header(b, p, key), NEW n, n = Add(m, key, p)
  PROVE  n.pos \in [Keys(n) -> Nat] /\ Leads(b, n.pos, q)
<1>1. FromLong64(ToLong64(key)) = key
  BY Long64RoundTrip DEF MapKeys
<1>2. n.pos = [k \in Keys(m) \cup {key} |-> IF k = key THEN p ELSE m.pos[k]]
  BY <1>1 DEF Add
<1>3. Leads(b, m.pos, q)
  BY LeadsMonotone DEF Keys
<1>4. n.pos \in [Keys(n) -> Nat]
  BY <1>2 DEF Keys
<1>5. \A k \in Keys(m) : m.pos[k] < q /\ Header(b, m.pos[k], k)
  BY <1>3 DEF Leads, Keys
<1>6. \A k \in DOMAIN n.pos : n.pos[k] < q /\ Header(b, n.pos[k], k)
  BY <1>2, <1>5
<1>7. QED
  BY <1>4, <1>6 DEF Leads

\* The map gets the position at which the run header is written.
LEMMA WriteRunHeaderKeepsSound ==
  ASSUME IInv, IInv', OneInTheWay, SoundInv, NEW r \in Runs, WriteRunHeader(r) PROVE SoundInv'
<1> DEFINE key == RunKey(r)
           rec == Record("run", Item(key))
           fresh == {wpos}
<1>1. /\ mode = "open" /\ mode' = mode
      /\ buf' = [p \in DOMAIN buf \cup {wpos} |-> IF p = wpos THEN rec ELSE buf[p]]
      /\ wpos' = wpos + DataLen
      /\ map' = Add(map, key, wpos)
      /\ UNCHANGED <<disk, synced>>
  BY DEF WriteRunHeader, MayWrite
<1>2. rec.kind = "run" /\ rec.ok /\ rec.body.key = key /\ key \in MapKeys
  BY KeysOfRuns DEF Record, Item
<1> HIDE DEF rec, key
<1>3. wpos \in Nat /\ wpos' \in Nat /\ wpos < wpos' /\ \A p \in DOMAIN buf : p # wpos
  BY <1>1, Lengths DEF IInv, WriterInv, Output
<1>4. buf'[wpos] = rec
  BY <1>1
<1>5. /\ DOMAIN buf' = DOMAIN buf \cup fresh
      /\ \A p \in DOMAIN buf : buf'[p] = buf[p]
      /\ \A p \in fresh : wpos <= p /\ ~IsKind(buf', p, "idx")
  BY <1>1, <1>2, <1>3, <1>4 DEF IsKind
<1>6. wpos \in fresh
  OBVIOUS
<1> HIDE DEF fresh
<1>7. /\ \A p \in fresh : p \in DOMAIN Whole' /\ Whole'[p] = buf'[p]
      /\ \A p \in DOMAIN Whole : p < wpos => p \in DOMAIN Whole' /\ Whole'[p] = Whole[p]
  BY <1>1, <1>3, <1>5, GrowthCarries
<1>8. Holds(Whole, Whole', wpos)
  BY <1>7 DEF Holds
<1>9. map.pos \in [Keys(map) -> Nat] /\ Leads(Whole, map.pos, wpos)
  BY DEF SoundInv
<1>10. Header(Whole', wpos, key)
  BY <1>2, <1>4, <1>6, <1>7 DEF Header, Readable
<1>11. map'.pos \in [Keys(map') -> Nat] /\ Leads(Whole', map'.pos, wpos')
  BY <1>1, <1>2, <1>3, <1>8, <1>9, <1>10, AddLeads
<1>12. QED
  BY <1>1, <1>3, <1>5, <1>11, OutputKeepsSound

\* The map gets the position of the event's header, not of its record.
LEMMA WriteEventKeepsSound ==
  ASSUME IInv, IInv', OneInTheWay, SoundInv, NEW r \in Runs, NEW e \in Evts, WriteEvent(r, e)
  PROVE  SoundInv'
<1> DEFINE key == EvtKey(r, e)
           epos == wpos + DataLen
           hdr == Record("hdr", Item(key))
           evt == Record("evt", Item(key))
           fresh == {wpos, epos}
<1>1. /\ mode = "open" /\ mode' = mode
      /\ buf' = [p \in DOMAIN buf \cup {wpos, epos} |->
                   IF p = wpos THEN hdr ELSE IF p = epos THEN evt ELSE buf[p]]
      /\ wpos' = epos + DataLen
      /\ map' = Add(map, key, wpos)
      /\ UNCHANGED <<disk, synced>>
  BY DEF WriteEvent, MayWrite
<1>2. /\ hdr.kind = "hdr" /\ hdr.ok /\ hdr.body.key = key /\ key \in MapKeys
      /\ evt.kind = "evt"
  BY KeysOfEvents DEF Record, Item
<1> HIDE DEF hdr, evt, key
<1>3. /\ wpos \in Nat /\ wpos' \in Nat /\ epos \in Nat /\ wpos < wpos' /\ wpos < epos
      /\ \A p \in DOMAIN buf : p # wpos /\ p # epos
  BY <1>1, Lengths DEF IInv, WriterInv, Output
<1> HIDE DEF epos
<1>4. buf'[wpos] = hdr /\ buf'[epos] = evt
  BY <1>1, <1>3
<1>5. /\ DOMAIN buf' = DOMAIN buf \cup fresh
      /\ \A p \in DOMAIN buf : buf'[p] = buf[p]
      /\ \A p \in fresh : wpos <= p /\ ~IsKind(buf', p, "idx")
  BY <1>1, <1>2, <1>3, <1>4 DEF IsKind
<1>6. wpos \in fresh
  OBVIOUS
<1> HIDE DEF fresh
<1>7. /\ \A p \in fresh : p \in DOMAIN Whole' /\ Whole'[p] = buf'[p]
      /\ \A p \in DOMAIN Whole : p < wpos => p \in DOMAIN Whole' /\ Whole'[p] = Whole[p]
  BY <1>1, <1>3, <1>5, GrowthCarries
<1>8. Holds(Whole, Whole', wpos)
  BY <1>7 DEF Holds
<1>9. map.pos \in [Keys(map) -> Nat] /\ Leads(Whole, map.pos, wpos)
  BY DEF SoundInv
<1>10. Header(Whole', wpos, key)
  BY <1>2, <1>4, <1>6, <1>7 DEF Header, Readable
<1>11. map'.pos \in [Keys(map') -> Nat] /\ Leads(Whole', map'.pos, wpos')
  BY <1>1, <1>2, <1>3, <1>8, <1>9, <1>10, AddLeads
<1>12. QED
  BY <1>1, <1>3, <1>5, <1>11, OutputKeepsSound

(***************************************************************************)
(* The index that close() writes gives the map back.                       *)
(***************************************************************************)
LEMMA WriteRandomAccessRecordsKeepsSound ==
  ASSUME IInv, IInv', OneInTheWay, SoundInv, ClosesCompactible, WriteRandomAccessRecords
  PROVE  SoundInv'
<1> DEFINE apos == wpos + DataLen
           fpos == apos + AccLen
           idx == Record("idx", Encode(map))
           ra == NewAccess(wpos, apos)
           acc == Record("acc", ra)
           file == Record("acc", FileRecord(ra, apos))
           fresh == {wpos, apos, fpos}
<1>1. /\ mode = "open" /\ mode' = "closing" /\ MayClose
      /\ \/ UNCHANGED <<buf, wpos>>
         \/ /\ ~IsEmpty(map)
            /\ buf' = [p \in DOMAIN buf \cup fresh |->
                         IF p = wpos THEN idx ELSE IF p = apos THEN acc
                         ELSE IF p = fpos THEN file ELSE buf[p]]
            /\ wpos' = fpos + AccLen
      /\ UNCHANGED <<disk, size, synced, map>>
  BY DEF WriteRandomAccessRecords
<1>2. /\ wpos \in Nat /\ apos \in Nat /\ fpos \in Nat /\ wpos' \in Nat
      /\ wpos < apos /\ apos < fpos /\ wpos < fpos + AccLen
  BY Lengths DEF IInv, WriterInv
<1>3. CASE UNCHANGED <<buf, wpos>>
  <2>1. Whole' = Whole
    BY <1>1, <1>3 DEF Whole
  <2>2. QED
    BY <1>1, <1>3, <2>1 DEF SoundInv
<1>4. CASE /\ ~IsEmpty(map)
           /\ buf' = [p \in DOMAIN buf \cup fresh |->
                       IF p = wpos THEN idx ELSE IF p = apos THEN acc
                       ELSE IF p = fpos THEN file ELSE buf[p]]
           /\ wpos' = fpos + AccLen
  <2>1. idx.kind = "idx" /\ idx.body = Encode(map) /\ acc.kind = "acc" /\ file.kind = "acc"
    BY DEF Record
  <2> HIDE DEF idx, acc, file
  <2>2. \A p \in DOMAIN buf : p \notin fresh
    BY <1>2, Lengths DEF IInv, WriterInv, Output
  <2>3. /\ DOMAIN buf' = DOMAIN buf \cup fresh
        /\ \A p \in DOMAIN buf : buf'[p] = buf[p]
        /\ \A p \in fresh : wpos <= p
        /\ wpos < wpos'
    BY <1>2, <1>4, <2>2
  <2>4. buf'[wpos] = idx /\ buf'[apos] = acc /\ buf'[fpos] = file
    BY <1>2, <1>4
  <2> HIDE DEF apos, fpos
  <2>5. \A p \in fresh : p # wpos => ~IsKind(buf', p, "idx")
    BY <2>1, <2>4 DEF IsKind
  <2>6. Holds(Whole, Whole', wpos)
    <3> HIDE DEF fresh
    <3>1. \A p \in DOMAIN Whole : p < wpos => p \in DOMAIN Whole' /\ Whole'[p] = Whole[p]
      BY <1>1, <2>3, GrowthCarries
    <3>2. QED
      BY <3>1 DEF Holds
  <2>7. Decode(Encode(map)) = map.pos
    <3>1. MapOK(map) /\ Compactible(map)
      BY <1>1, <1>4 DEF IInv, WriterInv, MapType, MapOK, SoundInv, ClosesCompactible
    <3>2. QED
      BY <1>4, <3>1, CompactibleRoundTrip
  <2>8. Leads(Whole', map.pos, wpos) /\ Leads(Whole', map.pos, wpos')
    <3>1. map.pos \in [DOMAIN map.pos -> Nat] /\ Leads(Whole, map.pos, wpos) /\ wpos <= wpos
      BY <1>2 DEF SoundInv, Keys
    <3>2. wpos <= wpos'
      BY <1>2, <2>3
    <3>3. Leads(Whole', map.pos, wpos)
      BY <1>2, <2>6, <3>1, LeadsMonotone
    <3>4. Leads(Whole', map.pos, wpos')
      BY <1>2, <2>6, <3>1, <3>2, LeadsMonotone
    <3>5. QED
      BY <3>3, <3>4
  <2>9. \A p \in fresh : IsKind(buf', p, "idx") => Leads(Whole', Decode(buf'[p].body), p)
    BY <2>1, <2>4, <2>5, <2>7, <2>8
  <2>10. map'.pos \in [Keys(map') -> Nat] /\ Leads(Whole', map'.pos, wpos')
    BY <1>1, <2>8 DEF SoundInv
  <2> HIDE DEF fresh
  <2>11. QED
    BY <1>1, <2>3, <2>9, <2>10, OutputKeepsSound
<1>5. QED
  BY <1>1, <1>3, <1>4

(***************************************************************************)
(* Output that reaches the file.                                           *)
(***************************************************************************)
LEMMA DrainKeepsSound ==
  ASSUME IInv, IInv', OneInTheWay, SoundInv, mode # "closed",
         NEW cut \in Nat, synced <= cut, cut <= wpos, Drain(cut),
         buf' = NoRecords, synced' = wpos'
  PROVE  IndexSound(disk') /\ IndexSound(Whole') /\ Same(disk', Whole')
<1>1. IndexSound(disk')
  <2> SUFFICES ASSUME NEW p \in DOMAIN disk', IsKind(disk', p, "idx")
               PROVE  Leads(disk', Decode(disk'[p].body), p)
    BY DEF IndexSound
  <2>1. Carried(Whole, disk', p) \/ Carried(disk, disk', p)
    BY DrainCarries DEF IsKind, Readable
  <2>2. QED
    BY <2>1, LeadsCarried DEF SoundInv
<1>2. Same(disk', Whole')
  <2>1. synced' \in Nat /\ DOMAIN disk' \subseteq Nat
    BY DEF IInv, DiskInv, WriterInv
  <2>2. Whole' = Overlay(disk', buf', synced', synced')
    BY DEF Whole
  <2>3. QED
    BY <2>1, <2>2, WholeWithoutOutput
<1>3. QED
  BY <1>1, <1>2, IndexSoundSame

\* A flush changes neither the map nor a record.
LEMMA FlushKeepsSound ==
  ASSUME IInv, IInv', OneInTheWay, SoundInv, Flush PROVE SoundInv'
<1>1. /\ mode = "open" /\ Drain(wpos) /\ buf' = NoRecords /\ synced' = wpos
      /\ UNCHANGED <<mode, wpos, map>>
  BY DEF Flush
<1>2. wpos \in Nat /\ synced <= wpos /\ wpos <= wpos
  BY DEF IInv, WriterInv
<1>3. IndexSound(disk') /\ IndexSound(Whole') /\ Same(disk', Whole')
  BY <1>1, <1>2, DrainKeepsSound
<1>4. Same(Whole, Whole')
  BY <1>1, <1>3 DEF Drain, Whole
<1>5. Leads(Whole', map'.pos, wpos')
  <2>1. \A x, k : Header(Whole, x, k) => Header(Whole', x, k)
    BY <1>4 DEF Header, Readable, Same
  <2>2. QED
    BY <1>1, <2>1 DEF Leads, SoundInv
<1>6. QED
  BY <1>1, <1>3, <1>5 DEF SoundInv

\* A session that ends leaves index records of headers before them.
LEMMA EndKeepsSound ==
  ASSUME IInv, IInv', OneInTheWay, SoundInv, mode # "closed",
         NEW cut \in Nat, synced <= cut, cut <= wpos, Drain(cut), EndSession
  PROVE  SoundInv'
<1>1. mode' = "closed" /\ buf' = NoRecords /\ synced' = wpos' /\ map' = EmptyMap
  BY DEF EndSession
<1>2. IndexSound(disk') /\ IndexSound(Whole')
  BY <1>1, DrainKeepsSound
<1>3. Keys(map') = {} /\ map'.pos \in [Keys(map') -> Nat]
  BY <1>1 DEF EmptyMap, Keys
<1>4. QED
  BY <1>1, <1>2, <1>3 DEF SoundInv, Leads, Keys

\* Where there are no records nothing leads astray.
LEMMA InitSound == Init => SoundInv
<1> SUFFICES ASSUME Init PROVE SoundInv
  OBVIOUS
<1>1. DOMAIN disk = {} /\ buf = NoRecords /\ synced = 0 /\ wpos = 0 /\ map = EmptyMap
  BY DEF Init, NoRecords
<1>2. Same(disk, Whole)
  BY <1>1, WholeWithoutOutput DEF Whole
<1>3. IndexSound(disk) /\ IndexSound(Whole)
  BY <1>1, <1>2 DEF IndexSound, Same
<1>4. Keys(map) = {} /\ map.pos \in [Keys(map) -> Nat]
  BY <1>1 DEF EmptyMap, Keys
<1>5. QED
  BY <1>3, <1>4 DEF SoundInv, Leads, Keys

\* Every step keeps SoundInv while the maps written can be compacted.
LEMMA NextSound ==
  IInv /\ IInv' /\ LinkInv /\ ClosesCompactible /\ SoundInv /\ [Next]_vars => SoundInv'
<1> SUFFICES ASSUME IInv, IInv', OneInTheWay, ClosesCompactible, SoundInv, [Next]_vars
             PROVE  SoundInv'
  BY DEF LinkInv
<1>1. CASE OpenNew \/ OpenAppend \/ OpenAppendOld
  BY <1>1, OpenKeepsSound
<1>2. ASSUME NEW r \in Runs, WriteRunHeader(r) PROVE SoundInv'
  BY <1>2, WriteRunHeaderKeepsSound
<1>3. ASSUME NEW r \in Runs, NEW e \in Evts, WriteEvent(r, e) PROVE SoundInv'
  BY <1>3, WriteEventKeepsSound
<1>4. CASE Flush
  BY <1>4, FlushKeepsSound
<1>5. CASE WriteRandomAccessRecords
  BY <1>5, WriteRandomAccessRecordsKeepsSound
<1>6. CASE CloseStream
  <2>1. mode # "closed" /\ Drain(wpos) /\ EndSession
    BY <1>6 DEF CloseStream
  <2>2. wpos \in Nat /\ synced <= wpos /\ wpos <= wpos
    BY DEF IInv, WriterInv
  <2>3. QED
    BY <2>1, <2>2, EndKeepsSound
<1>7. CASE Crash
  <2>1. mode # "closed" /\ EndSession
    BY <1>7 DEF Crash
  <2>2. PICK cut \in synced .. wpos : Drain(cut)
    BY <1>7 DEF Crash
  <2>3. cut \in Nat /\ synced <= cut /\ cut <= wpos
    BY DEF IInv, WriterInv
  <2>4. QED
    BY <2>1, <2>2, <2>3, EndKeepsSound
<1>8. CASE UNCHANGED vars
  <2>1. Whole' = Whole
    BY <1>8 DEF Whole, vars
  <2>2. QED
    BY <1>8, <2>1 DEF SoundInv, vars
<1>9. QED
  BY <1>1, <1>2, <1>3, <1>4, <1>5, <1>6, <1>7, <1>8 DEF Next

(***************************************************************************)
(* Where every closed session has a compactible map, all indices lead to   *)
(* headers.                                                                *)
(***************************************************************************)
THEOREM SpecSoundInv == Spec /\ []ClosesCompactible => []SoundInv
BY SpecIInv, SpecLinkInv, InitSound, NextSound, PTL DEF Spec

-----------------------------------------------------------------------------
(***************************************************************************)
(* Maps from keys to their headers in a file: what an index says, and what *)
(* the loop of createEventMap makes of several.                            *)
(***************************************************************************)
HeaderMaps(d) ==
  {f \in UNION {[S -> DOMAIN d] : S \in SUBSET {d[p].body.key : p \in DOMAIN d}} :
     \A k \in DOMAIN f : Header(d, f[k], k)}

Merge(older, own) ==
  [k \in DOMAIN older \cup DOMAIN own |-> IF k \in DOMAIN older THEN older[k] ELSE own[k]]

\* A map whose entries are headers is one of HeaderMaps.
LEMMA HeaderMap ==
  ASSUME NEW d, NEW f, f = [k \in DOMAIN f |-> f[k]], \A k \in DOMAIN f : Header(d, f[k], k)
  PROVE  f \in HeaderMaps(d)
<1> DEFINE K == {d[p].body.key : p \in DOMAIN d}
<1>1. \A k \in DOMAIN f : f[k] \in DOMAIN d /\ k \in K
  BY DEF Header, Readable
<1>2. f \in [DOMAIN f -> DOMAIN d] /\ DOMAIN f \in SUBSET K
  BY <1>1
<1>3. f \in UNION {[S -> DOMAIN d] : S \in SUBSET K}
  BY <1>2
<1>4. QED
  BY <1>3 DEF HeaderMaps

\* Merging such maps gives such a map.
LEMMA MergeMaps ==
  ASSUME NEW d, NEW f \in HeaderMaps(d), NEW g \in HeaderMaps(d)
  PROVE  Merge(f, g) \in HeaderMaps(d)
<1>1. \A k \in DOMAIN f : Header(d, f[k], k)
  BY DEF HeaderMaps
<1>2. \A k \in DOMAIN g : Header(d, g[k], k)
  BY DEF HeaderMaps
<1> DEFINE m == Merge(f, g)
<1>3. DOMAIN m = DOMAIN f \cup DOMAIN g /\ m = [k \in DOMAIN m |-> m[k]]
  BY DEF Merge
<1>4. \A k \in DOMAIN m : m[k] = IF k \in DOMAIN f THEN f[k] ELSE g[k]
  BY DEF Merge
<1> HIDE DEF m
<1>5. \A k \in DOMAIN m : Header(d, m[k], k)
  BY <1>1, <1>2, <1>3, <1>4
<1>6. m \in HeaderMaps(d)
  BY <1>3, <1>5, HeaderMap
<1>7. QED
  BY <1>6 DEF m

\* So is the empty map.
LEMMA NoHeaders == ASSUME NEW d PROVE NoRecords \in HeaderMaps(d)
<1>1. DOMAIN NoRecords = {} /\ NoRecords = [k \in DOMAIN NoRecords |-> NoRecords[k]]
  BY DEF NoRecords
<1>2. QED
  BY <1>1, HeaderMap

\* So is what is read of an index record.
LEMMA IndexMap ==
  ASSUME NEW d, IndexSound(d), NEW p
  PROVE  ReadIndexAt(d, p) \in HeaderMaps(d)
<1>1. CASE ~IsKind(d, p, "idx")
  BY <1>1, NoHeaders DEF ReadIndexAt
<1>2. CASE IsKind(d, p, "idx")
  <2> DEFINE f == Decode(d[p].body)
  <2>1. f = [k \in DOMAIN f |-> f[k]]
    BY DEF Decode
  <2>2. Leads(d, f, p)
    BY <1>2 DEF IndexSound, IsKind, Readable
  <2>3. ReadIndexAt(d, p) = f
    BY <1>2 DEF ReadIndexAt
  <2> HIDE DEF f
  <2>4. QED
    BY <2>1, <2>2, <2>3, HeaderMap DEF Leads
<1>3. QED
  BY <1>1, <1>2

(***************************************************************************)
(* The loop of createEventMap: what it finds from p on is what it finds    *)
(* from the previous block on, and the index of p for the other keys.      *)
(***************************************************************************)
EntriesWalk(g, d) ==
  \A p \in Nat : g[p] = IF p = 0 \/ ~IsKind(d, p, "acc") THEN NoRecords
                        ELSE Merge(g[d[p].body.prev], ReadIndexAt(d, d[p].body.index))

\* There is one such function, and it is that of ChainEntries.
LEMMA ChainEntriesPath ==
  ASSUME NEW d, AccTyped(d), Linked(d), IndexSound(d)
  PROVE  \E g : EntriesWalk(g, d) /\ \A p \in Nat : ChainEntries(d, p) = g[p]
<1> DEFINE V == HeaderMaps(d)
           stop == {p \in Nat : p = 0 \/ ~IsKind(d, p, "acc")}
           rank == [p \in Nat |-> p]
           nxt == [p \in Nat |-> IF p \in stop THEN 0 ELSE d[p].body.prev]
           base == [p \in Nat |-> NoRecords]
           own(p) == ReadIndexAt(d, d[p].body.index)
           step == [x \in Nat \X V |-> Merge(x[2], own(x[1]))]
           Is(f) == f = [p \in Nat |->
                           IF p = 0 \/ ~IsKind(d, p, "acc") THEN NoRecords
                           ELSE [k \in DOMAIN f[d[p].body.prev] \cup DOMAIN own(p) |->
                                   IF k \in DOMAIN f[d[p].body.prev]
                                   THEN f[d[p].body.prev][k] ELSE own(p)[k]]]
<1>1. \A p \in Nat \ stop : d[p].body.prev \in Nat /\ d[p].body.prev < p
  BY AccessFields DEF AccTyped, Linked, Links, IsKind, Readable
<1>2. NoRecords \in V /\ \A p : own(p) \in V
  BY NoHeaders, IndexMap
<1>3. rank \in [Nat -> Nat] /\ nxt \in [Nat -> Nat] /\ base \in [Nat -> V]
  BY <1>1, <1>2
<1>4. \A p \in Nat \ stop : rank[nxt[p]] < rank[p]
  BY <1>1
<1>5. step \in [Nat \X V -> V]
  <2>1. \A x \in Nat \X V : x[2] \in V
    OBVIOUS
  <2> HIDE DEF own, V
  <2>2. \A x \in Nat \X V : Merge(x[2], own(x[1])) \in V
    BY <1>2, <2>1, MergeMaps DEF V
  <2>3. QED
    BY <2>2
<1>6. \A p \in Nat, v \in V : step[<<p, v>>] = Merge(v, own(p))
  <2> HIDE DEF own, V
  <2>1. QED
    OBVIOUS
<1> HIDE DEF V, stop, rank, nxt, base, step
<1>7. PICK f : Solves(f, Nat, V, stop, base, nxt, step)
  BY <1>3, <1>4, <1>5, RecursionExists
<1>8. Is(f)
  <2>1. \A p \in Nat : f[p] = IF p \in stop THEN NoRecords ELSE Merge(f[nxt[p]], own(p))
    <3>1. \A p \in Nat : f[nxt[p]] \in V
      BY <1>3, <1>7 DEF Solves
    <3> HIDE DEF own
    <3>2. QED
      BY <1>6, <1>7, <3>1 DEF Solves, base
  <2>2. \A p \in Nat : f[p] = IF p = 0 \/ ~IsKind(d, p, "acc") THEN NoRecords
                              ELSE Merge(f[d[p].body.prev], own(p))
    <3> HIDE DEF own
    <3>1. QED
      BY <2>1 DEF stop, nxt
  <2>3. f = [p \in Nat |-> f[p]]
    BY <1>7 DEF Solves
  <2>4. f = [p \in Nat |-> IF p = 0 \/ ~IsKind(d, p, "acc") THEN NoRecords
                           ELSE Merge(f[d[p].body.prev], own(p))]
    <3> HIDE DEF own
    <3>1. QED
      BY <2>2, <2>3
  <2>5. QED
    <3> HIDE DEF own
    <3>1. QED
      BY <2>4 DEF Merge
<1> DEFINE g == CHOOSE h : Is(h)
<1>9. Is(g)
  <2> HIDE DEF Is
  <2>1. QED
    BY <1>8
<1>10. \A p \in Nat : ChainEntries(d, p) = g[p]
  BY DEF ChainEntries
<1> HIDE DEF g
<1>11. EntriesWalk(g, d)
  <2>1. \A p \in Nat : g[p] = IF p = 0 \/ ~IsKind(d, p, "acc") THEN NoRecords
                              ELSE Merge(g[d[p].body.prev], own(p))
    <3> HIDE DEF own
    <3>1. QED
      BY <1>9 DEF Merge
  <2>2. QED
    BY <2>1 DEF EntriesWalk
<1>12. QED
  BY <1>10, <1>11

(***************************************************************************)
(* It finds headers only.                                                  *)
(***************************************************************************)
LEMMA ChainEntriesSound ==
  ASSUME NEW d, AccTyped(d), Linked(d), IndexSound(d), NEW first \in Nat
  PROVE  ChainEntries(d, first) \in HeaderMaps(d)
<1> DEFINE V == HeaderMaps(d)
           own(p) == ReadIndexAt(d, d[p].body.index)
<1>1. PICK g : EntriesWalk(g, d) /\ \A p \in Nat : ChainEntries(d, p) = g[p]
  BY ChainEntriesPath
<1>2. NoRecords \in V /\ \A p : own(p) \in V
  BY NoHeaders, IndexMap
<1> DEFINE Bad == {p \in Nat : g[p] \notin V}
<1>3. SUFFICES ASSUME Bad # {} PROVE FALSE
  BY <1>1
<1>4. PICK p \in Bad : \A x \in Bad : p <= x
  <2> HIDE DEF Bad
  <2>1. Bad \in SUBSET Nat
    BY DEF Bad
  <2>2. QED
    BY <1>3, <2>1, LeastNatural
<1>5. g[p] = IF p = 0 \/ ~IsKind(d, p, "acc") THEN NoRecords
             ELSE Merge(g[d[p].body.prev], own(p))
  BY <1>1 DEF EntriesWalk
<1> HIDE DEF own, V
<1>6. p \in Nat /\ p # 0 /\ IsKind(d, p, "acc")
  BY <1>2, <1>5
<1> DEFINE x == d[p].body.prev
<1>7. x \in Nat /\ x < p
  BY <1>6, AccessFields DEF AccTyped, Linked, Links, IsKind, Readable
<1>8. g[x] \in V
  BY <1>4, <1>6, <1>7
<1>9. g[p] = Merge(g[x], own(p))
  BY <1>5, <1>6
<1>10. g[p] \in V
  BY <1>2, <1>8, <1>9, MergeMaps DEF V
<1>11. QED
  BY <1>10

(***************************************************************************)
(* Every position in the event map of a reader is that of an intact header *)
(* with its key, where this holds of all indices in the file.              *)
(***************************************************************************)
LEMMA SoundIndices == IInv /\ LinkInv /\ SoundInv => DirectSound
<1> DEFINE end == size - AccLen
           first == disk[end].body.next
<1> SUFFICES ASSUME IInv, LinkInv, SoundInv
             PROVE  \A k \in Keys(Direct.map) : Header(disk, Direct.map.pos[k], k)
  BY DEF DirectSound, Header
<1>1. \A f : LET m == AddAll(EmptyMap, f) IN Keys(m) = DOMAIN f /\ \A k \in DOMAIN f : m.pos[k] = f[k]
  BY EmptyCounted DEF AddAll, Keys
<1>2. Keys(EmptyMap) = {}
  BY EmptyCounted
<1>3. \/ Direct.map = EmptyMap
      \/ Direct.map = RecreateEventMap(disk)
      \/ IsKind(disk, end, "acc") /\ Direct.map = AddAll(EmptyMap, ChainEntries(disk, first))
  BY DEF Direct, CreateEventMap
<1>4. CASE Direct.map = EmptyMap
  BY <1>2, <1>4
<1>5. CASE Direct.map = RecreateEventMap(disk)
  BY <1>5, RecreatedLeads DEF IInv, Leads, Keys
<1>6. CASE IsKind(disk, end, "acc") /\ Direct.map = AddAll(EmptyMap, ChainEntries(disk, first))
  <2>1. first \in Nat
    BY <1>6 DEF IInv, DiskInv, IsKind, Readable, WellFormed, IsAccess
  <2>2. AccTyped(disk) /\ Linked(disk) /\ IndexSound(disk)
    BY DiskTyped DEF LinkInv, SoundInv
  <2> HIDE DEF first
  <2>3. ChainEntries(disk, first) \in HeaderMaps(disk)
    BY <2>1, <2>2, ChainEntriesSound
  <2>4. QED
    BY <1>1, <1>6, <2>3 DEF HeaderMaps
<1>7. QED
  BY <1>3, <1>4, <1>5, <1>6

(***************************************************************************)
(* Direct access never leads astray where writers close with compactible   *)
(* maps, wherever other writers died.                                      *)
(***************************************************************************)
THEOREM CompactibleDirectSound == Spec /\ []ClosesCompactible => []DirectSound
BY SoundIndices, SpecIInv, SpecLinkInv, SpecSoundInv, PTL

(***************************************************************************)
(* Clients that write a run header for every run they write events of, or  *)
(* none, close with a compactible map while positions fit an int.          *)
(***************************************************************************)
LEMMA WholeRunsClose ==
  WholeRuns /\ IInv /\ SoundInv /\ wpos <= IntMax => ClosesCompactible
<1> SUFFICES ASSUME WholeRuns, IInv, SoundInv, wpos <= IntMax, MayClose, ~IsEmpty(map)
             PROVE  Compactible(map)
  BY DEF ClosesCompactible
<1>1. MapOK(map)
  BY DEF IInv, WriterInv, MapType, MapOK, SoundInv
<1>2. \A k \in Keys(map) : map.pos[k] \in 0 .. IntMax
  BY HalfAssumption DEF IInv, WriterInv, SoundInv, Leads, Keys, IntMax
<1>3. /\ {x \in Keys(map) : (x.EvtNum < 0) = TRUE} = RunsIn(Keys(map))
      /\ {x \in Keys(map) : (x.EvtNum < 0) = FALSE} = EventsIn(Keys(map))
  <2>1. \A x \in Keys(map) : x.EvtNum \in Int
    BY <1>1, HalfAssumption DEF MapOK, Counted, MapKeys, RunEvent, IntRange, IntMax
  <2>2. QED
    BY <2>1 DEF RunsIn, EventsIn
<1>4. \/ {k.RunNum : k \in RunsIn(Keys(map))} = {}
      \/ {k.RunNum : k \in RunsIn(Keys(map))} = {k.RunNum : k \in EventsIn(Keys(map))}
  BY <1>3 DEF MayClose
<1>5. \/ RunsIn(Keys(map)) = {}
      \/ {k.RunNum : k \in RunsIn(Keys(map))} = {k.RunNum : k \in EventsIn(Keys(map))}
  BY <1>4
<1>6. QED
  BY <1>1, <1>2, <1>5, WholeRunsCompactible

(***************************************************************************)
(* So the indices of such clients are sound in files whose positions fit   *)
(* an int.                                                                 *)
(***************************************************************************)
THEOREM SpecBoundedSoundInv ==
  ASSUME WholeRuns
  PROVE  Spec /\ [](wpos <= IntMax) => []SoundInv
<1>1. IInv /\ SoundInv /\ wpos <= IntMax => ClosesCompactible
  BY WholeRunsClose
<1>2. IInv /\ IInv' /\ LinkInv /\ wpos <= IntMax /\ SoundInv /\ [Next]_vars => SoundInv'
  BY <1>1, NextSound
<1>3. QED
  BY <1>2, SpecIInv, SpecLinkInv, InitSound, PTL DEF Spec

(***************************************************************************)
(* And direct access of such clients is sound after any number of sessions *)
(* and crashes.                                                            *)
(***************************************************************************)
THEOREM SpecDirectSound ==
  ASSUME WholeRuns
  PROVE  Spec /\ [](wpos <= IntMax) => []DirectSound
BY SpecBoundedSoundInv, SoundIndices, SpecIInv, SpecLinkInv, PTL

-----------------------------------------------------------------------------
(***************************************************************************)
(* The block that a writer adds its own behind, or 0; and what is a run or *)
(* event header.                                                           *)
(***************************************************************************)
Tip == IF lastRa = None THEN 0 ELSE lastRa.first
HeaderAt(w, p) == w[p].kind \in {"run", "hdr"}

\* The last block is where a record can be.
LEMMA TipIsPosition == ASSUME IInv PROVE Tip \in Nat
BY AccessFields DEF Tip, IInv, WriterInv

-----------------------------------------------------------------------------
(***************************************************************************)
(* A block is an LCIORandomAccess that knows its position.  It names an    *)
(* index before it and no other block but one, or none; no record names    *)
(* itself by mistake.                                                      *)
(***************************************************************************)
ChainedAt(d, p) ==
  LET body == d[p].body
  IN  /\ body.first <= p
      /\ body.first = p => /\ body # None
                           /\ body.prev = 0 \/ Block(d, body.prev)
                           /\ body.index < p /\ IsKind(d, body.index, "idx")
Chained(d) == \A p \in DOMAIN d : IsKind(d, p, "acc") => ChainedAt(d, p)

(***************************************************************************)
(* The inductive invariant by which a chain stays what it is while other   *)
(* records are written: this holds of the file, of the file as it will be, *)
(* and the file record of the writer names nothing that is yet to come.    *)
(***************************************************************************)
ChainInv ==
  /\ Chained(disk) /\ Chained(Whole)
  /\ fileRec # None => fileRec.first <= synced

\* A block that is carried over goes on naming what it named.
LEMMA ChainedCarried ==
  ASSUME NEW a, NEW b, AccTyped(a), Linked(a), Chained(a), NEW p, Carried(a, b, p),
         IsKind(b, p, "acc")
  PROVE  ChainedAt(b, p)
<1> DEFINE body == a[p].body
<1>1. /\ p \in DOMAIN a /\ b[p] = a[p] /\ IsKind(a, p, "acc")
      /\ \A x \in DOMAIN a : x < p /\ a[x].ok => x \in DOMAIN b /\ b[x] = a[x]
  BY DEF Carried, IsKind, Readable
<1>2. ChainedAt(a, p) /\ body.prev < p
  BY <1>1 DEF Chained, Linked, Links
<1>3. Block(a, body.prev) => Block(b, body.prev)
  BY <1>1, <1>2 DEF Block, IsKind, Readable
<1>4. body.index < p /\ IsKind(a, body.index, "idx") => IsKind(b, body.index, "idx")
  BY <1>1 DEF IsKind, Readable
<1>5. QED
  BY <1>1, <1>2, <1>3, <1>4 DEF ChainedAt

\* Files with the same records are chained alike.
LEMMA ChainedSame ==
  ASSUME NEW a, NEW b, AccTyped(a), Linked(a), Chained(a), Same(a, b)
  PROVE  Chained(b)
<1> SUFFICES ASSUME NEW p \in DOMAIN b, IsKind(b, p, "acc") PROVE ChainedAt(b, p)
  BY DEF Chained
<1>1. Carried(a, b, p)
  BY SameCarried
<1>2. QED
  BY <1>1, ChainedCarried

\* A session starts with the file it finds.
LEMMA OpenKeepsChained ==
  ASSUME IInv, IInv', LinkInv, LinkInv', ChainInv, OpenNew \/ OpenAppend \/ OpenAppendOld
  PROVE  ChainInv'
<1>1. mode = "closed" /\ fileRec = None
  BY DEF OpenNew, OpenAppend, OpenAppendOld, StartSession, LinkInv
<1>2. PICK pos \in Nat : StartSession(pos) /\ Chained(disk') /\ (fileRec' # None => fileRec'.first <= pos)
  <2>1. CASE OpenNew
    BY <1>1, <2>1 DEF OpenNew, writer, NoRecords, Chained
  <2>2. CASE OpenAppendOld
    BY <1>1, <2>2 DEF OpenAppendOld, IInv, DiskInv, ChainInv
  <2>3. CASE OpenAppend
    <3> DEFINE end == size - AccLen
    <3>1. /\ IsKind(disk, end, "acc") /\ StartSession(end) /\ fileRec' = disk[end].body
          /\ UNCHANGED disk
      BY <2>3 DEF OpenAppend
    <3>2. end \in Nat /\ end \in DOMAIN disk
      BY <2>3, <3>1, Lengths DEF OpenAppend, IInv, DiskInv, IsKind, Readable
    <3>3. ChainedAt(disk, end) /\ Chained(disk')
      BY <3>1, <3>2 DEF ChainInv, Chained
    <3> HIDE DEF end
    <3>4. QED
      BY <3>1, <3>2, <3>3 DEF ChainedAt
  <2>4. QED
    BY <2>1, <2>2, <2>3
<1>3. synced' = pos /\ wpos' = pos /\ buf' = NoRecords
  BY <1>1, <1>2 DEF StartSession, IInv, WriterInv
<1>4. AccTyped(disk') /\ Linked(disk')
  BY DiskTyped DEF LinkInv, IInv, DiskInv, WellFormed, AccTyped
<1>5. Same(disk', Whole')
  BY <1>3, <1>4, WholeWithoutOutput DEF Whole, AccTyped
<1>6. Chained(Whole')
  BY <1>2, <1>4, <1>5, ChainedSame
<1>7. QED
  BY <1>2, <1>3, <1>6 DEF ChainInv

(***************************************************************************)
(* More output: new blocks must name what they should.                     *)
(***************************************************************************)
LEMMA OutputKeepsChained ==
  ASSUME IInv, IInv', LinkInv, ChainInv, mode # "closed", mode' # "closed",
         UNCHANGED <<disk, synced, fileRec>>,
         NEW fresh, DOMAIN buf' = DOMAIN buf \cup fresh,
         \A p \in DOMAIN buf : buf'[p] = buf[p],
         \A p \in fresh : wpos <= p, wpos < wpos',
         \A p \in fresh : IsKind(buf', p, "acc") => ChainedAt(Whole', p)
  PROVE  ChainInv'
<1>1. Linked(Whole) /\ AccTyped(Whole) /\ OneInTheWay /\ Chained(Whole)
  BY DiskTyped DEF LinkInv, ChainInv
<1>2. /\ \A p \in fresh : p \in DOMAIN Whole' /\ Whole'[p] = buf'[p]
      /\ \A p \in DOMAIN Whole' : p \in fresh \/ (p < wpos /\ Carried(Whole, Whole', p))
  BY <1>1, GrowthCarries
<1>3. Chained(Whole')
  <2> SUFFICES ASSUME NEW p \in DOMAIN Whole', IsKind(Whole', p, "acc")
               PROVE  ChainedAt(Whole', p)
    BY DEF Chained
  <2>1. CASE p \in fresh
    BY <1>2, <2>1 DEF IsKind, Readable
  <2>2. CASE Carried(Whole, Whole', p)
    BY <1>1, <2>2, ChainedCarried
  <2>3. QED
    BY <1>2, <2>1, <2>2
<1>4. QED
  BY <1>3 DEF ChainInv

\* A run header is no block.
LEMMA WriteRunHeaderKeepsChained ==
  ASSUME IInv, IInv', LinkInv, ChainInv, NEW r \in Runs, WriteRunHeader(r) PROVE ChainInv'
<1> DEFINE rec == Record("run", Item(RunKey(r)))
<1>1. /\ mode = "open" /\ mode' = mode
      /\ buf' = [p \in DOMAIN buf \cup {wpos} |-> IF p = wpos THEN rec ELSE buf[p]]
      /\ wpos' = wpos + DataLen
      /\ UNCHANGED <<disk, size, synced, lastRa, fileRec, sessions, crashes>>
  BY DEF WriteRunHeader, MayWrite
<1>2. rec.kind = "run"
  BY DEF Record
<1> HIDE DEF rec
<1>3. wpos \in Nat /\ wpos < wpos' /\ \A p \in DOMAIN buf : p # wpos
  BY <1>1, Lengths DEF IInv, WriterInv, Output
<1>4. /\ DOMAIN buf' = DOMAIN buf \cup {wpos}
      /\ \A p \in DOMAIN buf : buf'[p] = buf[p]
      /\ \A p \in {wpos} : wpos <= p /\ ~IsKind(buf', p, "acc")
  BY <1>1, <1>2, <1>3 DEF IsKind
<1>5. QED
  BY <1>1, <1>3, <1>4, OutputKeepsChained

\* Nor is an event.
LEMMA WriteEventKeepsChained ==
  ASSUME IInv, IInv', LinkInv, ChainInv, NEW r \in Runs, NEW e \in Evts, WriteEvent(r, e)
  PROVE  ChainInv'
<1> DEFINE epos == wpos + DataLen
           hdr == Record("hdr", Item(EvtKey(r, e)))
           evt == Record("evt", Item(EvtKey(r, e)))
<1>1. /\ mode = "open" /\ mode' = mode
      /\ buf' = [p \in DOMAIN buf \cup {wpos, epos} |->
                   IF p = wpos THEN hdr ELSE IF p = epos THEN evt ELSE buf[p]]
      /\ wpos' = epos + DataLen
      /\ UNCHANGED <<disk, size, synced, lastRa, fileRec, sessions, crashes>>
  BY DEF WriteEvent, MayWrite
<1>2. hdr.kind = "hdr" /\ evt.kind = "evt"
  BY DEF Record
<1> HIDE DEF hdr, evt
<1>3. /\ wpos \in Nat /\ epos \in Nat /\ wpos < wpos' /\ wpos < epos
      /\ \A p \in DOMAIN buf : p # wpos /\ p # epos
  BY <1>1, Lengths DEF IInv, WriterInv, Output
<1> HIDE DEF epos
<1>4. buf'[wpos] = hdr /\ buf'[epos] = evt
  BY <1>1, <1>3
<1>5. /\ DOMAIN buf' = DOMAIN buf \cup {wpos, epos}
      /\ \A p \in DOMAIN buf : buf'[p] = buf[p]
      /\ \A p \in {wpos, epos} : wpos <= p /\ ~IsKind(buf', p, "acc")
  BY <1>1, <1>2, <1>3, <1>4 DEF IsKind
<1>6. QED
  BY <1>1, <1>3, <1>5, OutputKeepsChained

(***************************************************************************)
(* The file record names the new block: what it takes over from the last   *)
(* file record and the last block is smaller.                              *)
(***************************************************************************)
LEMMA FileRecordNext ==
  ASSUME IInv, LinkInv, NEW ra, NEW apos \in Nat, synced <= apos
  PROVE  FileRecord(ra, apos).next = apos /\ FileRecord(ra, apos).index = 0
<1> DEFINE base == IF fileRec = None
                   THEN [nRun |-> 0, nEvt |-> 0, index |-> 0, prev |-> apos, next |-> 0, first |-> 0]
                   ELSE fileRec
           high == IF lastRa # None THEN Larger(lastRa.next, base.next) ELSE base.next
<1>1. synced \in Nat
  BY DEF IInv, WriterInv
<1>2. lastRa # None => lastRa.next \in Nat /\ lastRa.next <= apos
  BY <1>1, AccessFields DEF IInv, WriterInv, LinkInv, WriterLinked, Links
<1>3. base.next \in Nat /\ base.next <= apos
  <2>1. fileRec # None => fileRec.next \in Nat /\ fileRec.next <= apos
    BY <1>1, AccessFields DEF IInv, WriterInv, LinkInv, WriterLinked, Links
  <2>2. QED
    BY <2>1
<1> HIDE DEF base
<1>4. high \in Nat /\ high <= apos
  BY <1>2, <1>3 DEF Larger
<1> HIDE DEF high
<1>5. Larger(high, apos) = apos
  BY <1>4 DEF Larger
<1>6. FileRecord(ra, apos).next = Larger(high, apos) /\ FileRecord(ra, apos).index = 0
  BY DEF FileRecord, base, high
<1>7. QED
  BY <1>5, <1>6

\* The record of a new block is one, and names its place and the block before.
LEMMA NewAccessFields ==
  ASSUME IInv, NEW ipos \in Nat, NEW apos \in Nat
  PROVE  LET ra == NewAccess(ipos, apos)
         IN  ra # None /\ ra.first = apos /\ ra.index = ipos /\ ra.prev = Tip
<1> DEFINE ra == NewAccess(ipos, apos)
<1>1. ra.first = apos /\ ra.index = ipos /\ ra.prev = Tip
  BY DEF NewAccess, Tip
<1>2. map.nRun \in Nat /\ map.nEvt \in Nat
  BY MapTypeCounters DEF IInv, WriterInv
<1>3. ra \in Access
  BY <1>2, TipIsPosition DEF NewAccess, Access, Tip
<1>4. QED
  BY <1>1, <1>3, NoneAssumption

(***************************************************************************)
(* What writeRandomAccessRecords puts behind the output of a session that  *)
(* wrote something.                                                        *)
(***************************************************************************)
BlockAt(b, ipos, apos, fpos) ==
  /\ {ipos, apos, fpos} \subseteq DOMAIN b
  /\ b[ipos] = Record("idx", Encode(map))
  /\ b[apos] = Record("acc", NewAccess(ipos, apos))
  /\ b[fpos] = Record("acc", FileRecord(NewAccess(ipos, apos), apos))

\* They are the last records of the output, in this order.
LEMMA BlockWritten ==
  ASSUME IInv, LinkInv, WriteRandomAccessRecords, ~IsEmpty(map),
         NEW apos, apos = wpos + DataLen, NEW fpos, fpos = apos + AccLen
  PROVE  /\ mode = "open" /\ mode' = "closing" /\ MayClose
         /\ UNCHANGED <<disk, size, synced, map, lastRa, fileRec, sessions, puts, crashes>>
         /\ wpos' = fpos + AccLen /\ apos \in Nat /\ fpos \in Nat
         /\ 0 < apos /\ wpos < apos /\ apos < fpos /\ wpos < wpos'
         /\ DOMAIN buf' = DOMAIN buf \cup {wpos, apos, fpos}
         /\ \A p \in DOMAIN buf : buf'[p] = buf[p] /\ p \notin {wpos, apos, fpos}
         /\ BlockAt(buf', wpos, apos, fpos)
<1> DEFINE idx == Record("idx", Encode(map))
           acc == Record("acc", NewAccess(wpos, apos))
           file == Record("acc", FileRecord(NewAccess(wpos, apos), apos))
<1>1. /\ mode = "open" /\ mode' = "closing" /\ MayClose
      /\ buf' = [p \in DOMAIN buf \cup {wpos, apos, fpos} |->
                   IF p = wpos THEN idx ELSE IF p = apos THEN acc
                   ELSE IF p = fpos THEN file ELSE buf[p]]
      /\ wpos' = fpos + AccLen
      /\ UNCHANGED <<disk, size, synced, map, lastRa, fileRec, sessions, puts, crashes>>
  BY DEF WriteRandomAccessRecords
<1>2. /\ wpos \in Nat /\ apos \in Nat /\ fpos \in Nat
      /\ wpos < apos /\ apos < fpos /\ wpos < fpos + AccLen /\ 0 < apos
  BY Lengths DEF IInv, WriterInv
<1>3. \A p \in DOMAIN buf : p \notin {wpos, apos, fpos}
  BY <1>2, Lengths DEF IInv, WriterInv, Output
<1> HIDE DEF idx, acc, file
<1>4. buf'[wpos] = idx /\ buf'[apos] = acc /\ buf'[fpos] = file
  BY <1>1, <1>2
<1>5. /\ DOMAIN buf' = DOMAIN buf \cup {wpos, apos, fpos}
      /\ \A p \in DOMAIN buf : buf'[p] = buf[p]
  BY <1>1, <1>3
<1>6. BlockAt(buf', wpos, apos, fpos)
  <2>1. {wpos, apos, fpos} \subseteq DOMAIN buf'
    BY <1>5
  <2>2. QED
    BY <1>4, <2>1 DEF BlockAt, idx, acc, file
<1>7. QED
  BY <1>1, <1>2, <1>3, <1>5, <1>6

\* The new block names its index and the last block; the file record is no block.
LEMMA CloseKeepsChained ==
  ASSUME IInv, IInv', LinkInv, ChainInv, WriteRandomAccessRecords PROVE ChainInv'
<1>1. CASE IsEmpty(map)
  <2>1. UNCHANGED <<disk, buf, synced, wpos, fileRec>>
    BY <1>1 DEF WriteRandomAccessRecords
  <2>2. Whole' = Whole
    BY <2>1 DEF Whole
  <2>3. QED
    BY <2>1, <2>2 DEF ChainInv
<1>2. CASE ~IsEmpty(map)
  <2>1. PICK apos, fpos : apos = wpos + DataLen /\ fpos = apos + AccLen
    OBVIOUS
  <2> DEFINE fresh == {wpos, apos, fpos}
             ra == NewAccess(wpos, apos)
             file == FileRecord(ra, apos)
  <2>2. /\ mode = "open" /\ mode' = "closing"
        /\ UNCHANGED <<disk, size, synced, map, lastRa, fileRec, sessions, puts, crashes>>
        /\ apos \in Nat /\ fpos \in Nat /\ wpos < apos /\ apos < fpos /\ wpos < wpos'
        /\ DOMAIN buf' = DOMAIN buf \cup fresh
        /\ \A p \in DOMAIN buf : buf'[p] = buf[p]
        /\ BlockAt(buf', wpos, apos, fpos)
    BY <1>2, <2>1, BlockWritten
  <2>3. /\ buf'[wpos] = Record("idx", Encode(map)) /\ buf'[apos] = Record("acc", ra)
        /\ buf'[fpos] = Record("acc", file)
    BY <2>2 DEF BlockAt
  <2>4. /\ wpos \in Nat /\ synced \in Nat /\ synced <= wpos
        /\ \A kind, body : /\ Record(kind, body).kind = kind /\ Record(kind, body).ok
                           /\ Record(kind, body).body = body
    BY DEF IInv, WriterInv, Record
  <2>5. ra # None /\ ra.first = apos /\ ra.index = wpos /\ ra.prev = Tip
    BY <2>2, NewAccessFields DEF IInv, WriterInv
  <2>6. file.first = IF fileRec = None THEN 0 ELSE fileRec.first
    BY DEF FileRecord
  <2>7. \A p \in fresh : wpos <= p
    BY <2>2, <2>4
  <2> HIDE DEF ra, file, fresh
  <2>8. /\ \A p \in fresh : p \in DOMAIN Whole' /\ Whole'[p] = buf'[p]
        /\ \A p \in DOMAIN Whole : p < wpos => p \in DOMAIN Whole' /\ Whole'[p] = Whole[p]
    BY <2>2, <2>4, <2>7, GrowthCarries DEF LinkInv
  <2>9. Tip = 0 \/ Block(Whole', Tip)
    <3> SUFFICES ASSUME lastRa # None PROVE Block(Whole', Tip)
      BY DEF Tip
    <3>1. Block(disk, Tip) /\ Tip < synced /\ Tip \in Nat
      BY TipIsPosition DEF LinkInv, WriterLinked, Tip
    <3>2. Tip \notin DOMAIN buf /\ Tip \in DOMAIN disk
      BY <2>4, <3>1 DEF IInv, WriterInv, Output, Block, IsKind, Readable
    <3>3. Tip \in DOMAIN Whole /\ Whole[Tip] = disk[Tip]
      BY <3>1, <3>2, WholeRecords DEF WrittenOver
    <3>4. QED
      BY <2>4, <2>8, <3>1, <3>3 DEF Block, IsKind, Readable
  <2>10. wpos \in fresh /\ apos \in fresh /\ fpos \in fresh /\ fresh = {wpos, apos, fpos}
    BY DEF fresh
  <2>11. IsKind(Whole', wpos, "idx")
    BY <2>3, <2>4, <2>8, <2>10 DEF IsKind, Readable
  <2>12. ChainedAt(Whole', apos)
    <3>1. Whole'[apos].body = ra
      BY <2>3, <2>4, <2>8, <2>10
    <3>2. QED
      BY <2>2, <2>5, <2>9, <2>11, <3>1 DEF ChainedAt
  <2>13. ChainedAt(Whole', fpos)
    <3>1. Whole'[fpos].body = file
      BY <2>3, <2>4, <2>8, <2>10
    <3>2. file.first < fpos /\ file.first \in Nat
      BY <2>2, <2>4, <2>6, AccessFields DEF ChainInv, IInv, WriterInv
    <3>3. QED
      BY <2>2, <3>1, <3>2 DEF ChainedAt
  <2>14. \A p \in fresh : IsKind(buf', p, "acc") => ChainedAt(Whole', p)
    BY <2>3, <2>4, <2>10, <2>12, <2>13 DEF IsKind
  <2>15. QED
    BY <2>2, <2>7, <2>14, OutputKeepsChained
<1>3. QED
  BY <1>1, <1>2

(***************************************************************************)
(* Output that reaches the file.                                           *)
(***************************************************************************)
LEMMA DrainKeepsChained ==
  ASSUME IInv, IInv', LinkInv, LinkInv', ChainInv, mode # "closed",
         NEW cut \in Nat, synced <= cut, cut <= wpos, Drain(cut),
         buf' = NoRecords, synced' = wpos', fileRec' # None => fileRec'.first <= synced'
  PROVE  ChainInv'
<1>1. /\ Linked(disk) /\ AccTyped(disk) /\ Linked(Whole) /\ AccTyped(Whole) /\ OneInTheWay
      /\ AccTyped(disk') /\ Linked(disk') /\ Chained(disk) /\ Chained(Whole)
  BY DiskTyped DEF LinkInv, IInv, DiskInv, WellFormed, AccTyped, ChainInv
<1>2. Chained(disk')
  <2> SUFFICES ASSUME NEW p \in DOMAIN disk', IsKind(disk', p, "acc")
               PROVE  ChainedAt(disk', p)
    BY DEF Chained
  <2>1. Carried(Whole, disk', p) \/ Carried(disk, disk', p)
    BY <1>1, DrainCarries DEF IsKind, Readable
  <2>2. QED
    BY <1>1, <2>1, ChainedCarried
<1>3. Same(disk', Whole')
  <2>1. synced' \in Nat /\ DOMAIN disk' \subseteq Nat
    BY DEF IInv, DiskInv, WriterInv
  <2>2. Whole' = Overlay(disk', buf', synced', synced')
    BY DEF Whole
  <2>3. QED
    BY <2>1, <2>2, WholeWithoutOutput
<1>4. QED
  BY <1>1, <1>2, <1>3, ChainedSame DEF ChainInv

\* The first writer starts with no file.
LEMMA InitChained == Init => ChainInv
<1> SUFFICES ASSUME Init PROVE ChainInv
  OBVIOUS
<1>1. DOMAIN disk = {} /\ buf = NoRecords /\ synced = 0 /\ wpos = 0 /\ fileRec = None
  BY DEF Init, NoRecords
<1>2. Same(disk, Whole)
  BY <1>1, WholeWithoutOutput DEF Whole
<1>3. QED
  BY <1>1, <1>2 DEF Chained, Same, ChainInv

(***************************************************************************)
(* Every step keeps the blocks chained.                                    *)
(***************************************************************************)
LEMMA NextChained == IInv /\ IInv' /\ LinkInv /\ LinkInv' /\ ChainInv /\ [Next]_vars => ChainInv'
<1> SUFFICES ASSUME IInv, IInv', LinkInv, LinkInv', ChainInv, [Next]_vars PROVE ChainInv'
  OBVIOUS
<1>1. CASE OpenNew \/ OpenAppend \/ OpenAppendOld
  BY <1>1, OpenKeepsChained
<1>2. ASSUME NEW r \in Runs, WriteRunHeader(r) PROVE ChainInv'
  BY <1>2, WriteRunHeaderKeepsChained
<1>3. ASSUME NEW r \in Runs, NEW e \in Evts, WriteEvent(r, e) PROVE ChainInv'
  BY <1>3, WriteEventKeepsChained
<1>4. wpos \in Nat /\ synced \in Nat /\ synced <= wpos /\ wpos <= wpos
  BY DEF IInv, WriterInv
<1>5. CASE Flush
  <2>1. /\ mode = "open" /\ Drain(wpos) /\ buf' = NoRecords /\ synced' = wpos'
        /\ UNCHANGED <<wpos, fileRec>>
    BY <1>5 DEF Flush
  <2>2. fileRec' # None => fileRec'.first <= synced'
    BY <1>4, <2>1, AccessFields DEF ChainInv, IInv, WriterInv
  <2>3. QED
    BY <1>4, <2>1, <2>2, DrainKeepsChained
<1>6. CASE WriteRandomAccessRecords
  BY <1>6, CloseKeepsChained
<1>7. CASE CloseStream \/ Crash
  <2>1. mode # "closed" /\ buf' = NoRecords /\ synced' = wpos' /\ fileRec' = None
    BY <1>7 DEF CloseStream, Crash, EndSession
  <2>2. PICK cut \in synced .. wpos : Drain(cut)
    <3>1. wpos \in synced .. wpos
      BY <1>4
    <3>2. QED
      BY <1>7, <3>1 DEF CloseStream, Crash
  <2>3. cut \in Nat /\ synced <= cut /\ cut <= wpos
    BY <1>4
  <2>4. QED
    BY <2>1, <2>2, <2>3, DrainKeepsChained
<1>8. CASE UNCHANGED vars
  <2>1. Whole' = Whole
    BY <1>8 DEF Whole, vars
  <2>2. QED
    BY <1>8, <2>1 DEF ChainInv, vars
<1>9. QED
  BY <1>1, <1>2, <1>3, <1>5, <1>6, <1>7, <1>8 DEF Next

(***************************************************************************)
(* Blocks name the index before them and other blocks, whatever crashed.   *)
(***************************************************************************)
THEOREM SpecChainInv == Spec => []ChainInv
BY SpecIInv, SpecLinkInv, InitChained, NextChained, PTL DEF Spec

(***************************************************************************)
(* What createEventMap collects from a block on depends on the intact      *)
(* records up to this block only.                                          *)
(***************************************************************************)
LEMMA ChainEntriesKept ==
  ASSUME NEW d, AccTyped(d), Linked(d), IndexSound(d), Chained(d),
         NEW e, AccTyped(e), Linked(e), IndexSound(e),
         NEW n \in Nat, Holds(d, e, n),
         NEW tip \in Nat, tip < n, tip = 0 \/ Block(d, tip)
  PROVE  ChainEntries(d, tip) = ChainEntries(e, tip)
<1>1. PICK g : EntriesWalk(g, d) /\ \A p \in Nat : ChainEntries(d, p) = g[p]
  BY ChainEntriesPath
<1>2. PICK h : EntriesWalk(h, e) /\ \A p \in Nat : ChainEntries(e, p) = h[p]
  BY ChainEntriesPath
<1> DEFINE Bad == {p \in Nat : p < n /\ (p = 0 \/ Block(d, p)) /\ g[p] # h[p]}
<1>3. SUFFICES ASSUME Bad # {} PROVE FALSE
  BY <1>1, <1>2
<1>4. PICK p \in Bad : \A x \in Bad : p <= x
  <2> HIDE DEF Bad
  <2>1. Bad \in SUBSET Nat
    BY DEF Bad
  <2>2. QED
    BY <1>3, <2>1, LeastNatural
<1>5. p \in Nat /\ p < n /\ p # 0 /\ Block(d, p) /\ g[p] # h[p]
  BY <1>1, <1>2, <1>4 DEF EntriesWalk
<1> DEFINE x == d[p].body.prev
           ipos == d[p].body.index
<1>6. /\ p \in DOMAIN d /\ d[p].kind = "acc" /\ d[p].ok /\ IsKind(d, p, "acc")
      /\ x \in Nat /\ x < p /\ (x = 0 \/ Block(d, x))
      /\ ipos \in Nat /\ ipos < p /\ IsKind(d, ipos, "idx")
  BY <1>5, AccessFields DEF Chained, ChainedAt, AccTyped, Linked, Links, Block, IsKind, Readable
<1>7. g[x] = h[x]
  BY <1>4, <1>5, <1>6
<1>8. p \in DOMAIN e /\ e[p] = d[p] /\ IsKind(e, p, "acc")
  BY <1>5, <1>6 DEF Holds, IsKind, Readable
<1>9. ipos \in DOMAIN e /\ e[ipos] = d[ipos]
  BY <1>5, <1>6 DEF Holds, IsKind, Readable
<1>10. ReadIndexAt(d, ipos) = ReadIndexAt(e, ipos)
  BY <1>6, <1>9 DEF ReadIndexAt, IsKind, Readable
<1>11. g[p] = Merge(g[x], ReadIndexAt(d, ipos)) /\ h[p] = Merge(h[x], ReadIndexAt(e, ipos))
  <2>1. g[p] = Merge(g[d[p].body.prev], ReadIndexAt(d, d[p].body.index))
    BY <1>1, <1>5, <1>6 DEF EntriesWalk
  <2>2. h[p] = Merge(h[e[p].body.prev], ReadIndexAt(e, e[p].body.index))
    BY <1>2, <1>5, <1>8 DEF EntriesWalk
  <2>3. QED
    BY <1>8, <2>1, <2>2
<1>12. QED
  BY <1>5, <1>7, <1>10, <1>11

-----------------------------------------------------------------------------
(***************************************************************************)
(* The run and event headers of a file, as what they say: their keys and   *)
(* the session in which they were written.                                 *)
(***************************************************************************)
ItemsOf(d) == {d[p].body : p \in {q \in DOMAIN d : HeaderAt(d, q)}}

\* The headers of the file and of the output.
LEMMA ItemsOfBoth == HeaderItems = ItemsOf(disk) \cup ItemsOf(buf)
<1>1. HeaderItems \subseteq ItemsOf(disk) \cup ItemsOf(buf)
  BY DEF HeaderItems, ItemsOf, HeaderAt
<1>2. ItemsOf(disk) \subseteq HeaderItems
  <2> SUFFICES ASSUME NEW p \in DOMAIN disk, HeaderAt(disk, p) PROVE disk[p].body \in HeaderItems
    BY DEF ItemsOf
  <2>1. disk[p] \in {disk[q] : q \in DOMAIN disk} \cup {buf[q] : q \in DOMAIN buf}
    OBVIOUS
  <2>2. QED
    BY <2>1 DEF HeaderItems, HeaderAt
<1>3. ItemsOf(buf) \subseteq HeaderItems
  <2> SUFFICES ASSUME NEW p \in DOMAIN buf, HeaderAt(buf, p) PROVE buf[p].body \in HeaderItems
    BY DEF ItemsOf
  <2>1. buf[p] \in {disk[q] : q \in DOMAIN disk} \cup {buf[q] : q \in DOMAIN buf}
    OBVIOUS
  <2>2. QED
    BY <2>1 DEF HeaderItems, HeaderAt
<1>4. QED
  BY <1>1, <1>2, <1>3

(***************************************************************************)
(* The inductive invariant of clients that write no key twice: a key has   *)
(* one item, and the keys of the session under way are in the map.         *)
(***************************************************************************)
ItemsInv ==
  /\ \A i \in HeaderItems :
       /\ i = [key |-> i.key, ver |-> i.ver] /\ i.ver \in Nat /\ i.ver <= sessions
       /\ mode # "closed" /\ i.ver = sessions => i.key \in Keys(map)
  /\ \A i \in ItemsOf(buf) : i.ver = sessions
  /\ \A i, j \in HeaderItems : i.key = j.key => i = j

\* Written gives each key the session of its item.
LEMMA WrittenItems ==
  ASSUME ItemsInv
  PROVE  /\ DOMAIN Written = {i.key : i \in HeaderItems}
         /\ \A i \in HeaderItems : i.key \in DOMAIN Written /\ Written[i.key] = i.ver
         /\ \A k \in DOMAIN Written : \E i \in HeaderItems : i.key = k
<1>1. DOMAIN Written = {i.key : i \in HeaderItems}
  BY DEF Written
<1>2. ASSUME NEW i \in HeaderItems PROVE Written[i.key] = i.ver
  <2> DEFINE j == CHOOSE x \in HeaderItems : x.key = i.key
  <2>1. j \in HeaderItems /\ j.key = i.key
    OBVIOUS
  <2>2. j = i
    BY <2>1 DEF ItemsInv
  <2>3. Written[i.key] = j.ver
    BY <1>1 DEF Written
  <2>4. QED
    BY <2>2, <2>3
<1>3. QED
  BY <1>1, <1>2

\* A header with its key is an item, in the file and in the output.
LEMMA HeaderIsItem ==
  ASSUME ItemsInv, NEW p, NEW k, Header(disk, p, k)
  PROVE  k \in DOMAIN Written /\ Written[k] = disk[p].body.ver
<1>1. disk[p].body \in HeaderItems /\ disk[p].body.key = k
  BY ItemsOfBoth DEF Header, Readable, ItemsOf, HeaderAt
<1>2. QED
  BY <1>1, WrittenItems

(***************************************************************************)
(* What reaches the file of the output was written; all of it, if all      *)
(* output does.                                                            *)
(***************************************************************************)
LEMMA DrainedItems ==
  ASSUME IInv, mode # "closed", NEW cut \in Nat, synced <= cut, cut <= wpos, Drain(cut),
         buf' = NoRecords
  PROVE  /\ HeaderItems' \subseteq HeaderItems
         /\ cut = wpos => HeaderItems' = HeaderItems
<1>1. HeaderItems' = ItemsOf(disk')
  <2>1. ItemsOf(buf') = {}
    BY DEF ItemsOf, NoRecords
  <2>2. (HeaderItems = ItemsOf(disk) \cup ItemsOf(buf))'
    BY ItemsOfBoth, PTL
  <2>3. QED
    BY <2>1, <2>2
<1>2. /\ DOMAIN disk \subseteq Nat /\ DOMAIN buf \subseteq Nat /\ synced \in Nat /\ wpos \in Nat
      /\ \A p \in DOMAIN buf : synced <= p
      /\ \A p \in DOMAIN disk : p >= synced => disk[p].kind = "acc"
  BY DEF IInv, DiskInv, WriterInv, Output, InTheWay
<1>3. Overlaid(disk', disk, buf, synced, cut)
  BY <1>2, OverlayRecords DEF Drain
<1>4. ASSUME NEW p \in DOMAIN disk', HeaderAt(disk', p)
      PROVE  disk'[p].body \in ItemsOf(disk) \cup ItemsOf(buf)
  <2>1. \A rec : Torn(rec).kind = rec.kind /\ Torn(rec).body = rec.body
    BY DEF Torn
  <2>2. \/ p \in DOMAIN buf /\ disk'[p].kind = buf[p].kind /\ disk'[p].body = buf[p].body
        \/ p \in DOMAIN disk /\ disk'[p] = disk[p]
    BY <1>3, <2>1 DEF Overlaid
  <2>3. QED
    BY <1>4, <2>2 DEF ItemsOf, HeaderAt
<1>5. ItemsOf(disk') \subseteq HeaderItems
  BY <1>4, ItemsOfBoth DEF ItemsOf
<1>6. ASSUME cut = wpos PROVE HeaderItems \subseteq ItemsOf(disk')
  <2>1. WrittenOver(disk', disk, buf, synced, wpos)
    BY <1>6, WholeRecords DEF Drain, Whole
  <2>2. ItemsOf(buf) \subseteq ItemsOf(disk')
    BY <2>1 DEF ItemsOf, HeaderAt, WrittenOver
  <2>3. ASSUME NEW p \in DOMAIN disk, HeaderAt(disk, p)
        PROVE  p \in DOMAIN disk' /\ disk'[p] = disk[p]
    <3>1. p < synced /\ p \notin DOMAIN buf
      BY <1>2, <2>3 DEF HeaderAt
    <3>2. QED
      BY <2>1, <3>1 DEF WrittenOver
  <2>4. ItemsOf(disk) \subseteq ItemsOf(disk')
    BY <2>3 DEF ItemsOf, HeaderAt
  <2>5. QED
    BY <2>2, <2>4, ItemsOfBoth
<1>7. QED
  BY <1>1, <1>5, <1>6

(***************************************************************************)
(* Steps after which there are no new headers.                             *)
(***************************************************************************)
LEMMA FewerItems ==
  ASSUME ItemsInv, HeaderItems' \subseteq HeaderItems, ItemsOf(buf') \subseteq ItemsOf(buf),
         \/ sessions' = sessions /\ (mode' # "closed" => mode # "closed" /\ map' = map)
         \/ sessions \in Nat /\ sessions' = sessions + 1 /\ ItemsOf(buf') = {}
  PROVE  ItemsInv'
<1>1. ASSUME NEW i \in HeaderItems'
      PROVE  /\ i = [key |-> i.key, ver |-> i.ver] /\ i.ver \in Nat /\ i.ver <= sessions'
             /\ mode' # "closed" /\ i.ver = sessions' => i.key \in Keys(map')
  <2>1. /\ i \in HeaderItems /\ i = [key |-> i.key, ver |-> i.ver]
        /\ i.ver \in Nat /\ i.ver <= sessions
        /\ mode # "closed" /\ i.ver = sessions => i.key \in Keys(map)
    BY DEF ItemsInv
  <2>2. QED
    BY <2>1
<1>2. \A i \in ItemsOf(buf') : i.ver = sessions'
  BY DEF ItemsInv
<1>3. \A i, j \in HeaderItems' : i.key = j.key => i = j
  BY DEF ItemsInv
<1>4. QED
  BY <1>1, <1>2, <1>3 DEF ItemsInv

(***************************************************************************)
(* A client that writes no key twice writes a new one.                     *)
(***************************************************************************)
LEMMA NewItem ==
  ASSUME UniqueKeys, ItemsInv, NEW key, MayWrite(key), NEW i \in HeaderItems
  PROVE  i.key # key
<1>1. /\ mode = "open" /\ key \notin Keys(map)
      /\ \A p \in DOMAIN disk : disk[p].kind \in {"run", "hdr"} => disk[p].body.key # key
  BY DEF MayWrite
<1>2. CASE i \in ItemsOf(disk)
  BY <1>1, <1>2 DEF ItemsOf, HeaderAt
<1>3. CASE i \in ItemsOf(buf)
  BY <1>1, <1>3 DEF ItemsInv
<1>4. QED
  BY <1>2, <1>3, ItemsOfBoth

\* So it adds an item, and the invariant stays.
LEMMA PutKeepsItems ==
  ASSUME UniqueKeys, IInv, ItemsInv, NEW key \in MapKeys, MayWrite(key),
         UNCHANGED <<disk, mode, sessions>>, map' = Add(map, key, wpos),
         ItemsOf(buf') = ItemsOf(buf) \cup {Item(key)}
  PROVE  ItemsInv' /\ HeaderItems' = HeaderItems \cup {Item(key)}
<1>1. Keys(map') = Keys(map) \cup {key}
  BY AddCounted DEF IInv, WriterInv, MapType
<1>2. Item(key) = [key |-> key, ver |-> sessions] /\ sessions \in Nat
  BY DEF Item, IInv, CountInv
<1>3. HeaderItems' = HeaderItems \cup {Item(key)}
  <2>1. (HeaderItems = ItemsOf(disk) \cup ItemsOf(buf))'
    BY ItemsOfBoth, PTL
  <2>2. QED
    BY <2>1, ItemsOfBoth
<1>4. \A i \in HeaderItems' : /\ i = [key |-> i.key, ver |-> i.ver]
                              /\ i.ver \in Nat /\ i.ver <= sessions'
                              /\ mode' # "closed" /\ i.ver = sessions' => i.key \in Keys(map')
  <2>1. \A i \in HeaderItems : /\ i = [key |-> i.key, ver |-> i.ver]
                               /\ i.ver \in Nat /\ i.ver <= sessions
                               /\ mode # "closed" /\ i.ver = sessions => i.key \in Keys(map)
    BY DEF ItemsInv
  <2>2. QED
    BY <1>1, <1>2, <1>3, <2>1
<1>5. \A i \in ItemsOf(buf') : i.ver = sessions'
  BY <1>2 DEF ItemsInv
<1>6. \A i, j \in HeaderItems' : i.key = j.key => i = j
  <2>1. \A i \in HeaderItems : i.key # key
    BY NewItem
  <2>2. \A i, j \in HeaderItems : i.key = j.key => i = j
    BY DEF ItemsInv
  <2>3. QED
    BY <1>2, <1>3, <2>1, <2>2
<1>7. QED
  BY <1>3, <1>4, <1>5, <1>6 DEF ItemsInv

\* A run header is an item.
LEMMA RunHeaderItem ==
  ASSUME IInv, NEW r \in Runs, WriteRunHeader(r)
  PROVE  ItemsOf(buf') = ItemsOf(buf) \cup {Item(RunKey(r))}
<1> DEFINE rec == Record("run", Item(RunKey(r)))
<1>1. buf' = [p \in DOMAIN buf \cup {wpos} |-> IF p = wpos THEN rec ELSE buf[p]]
  BY DEF WriteRunHeader
<1>2. rec.kind = "run" /\ rec.body = Item(RunKey(r))
  BY DEF Record
<1> HIDE DEF rec
<1>3. wpos \in Nat /\ \A p \in DOMAIN buf : p # wpos
  BY Lengths DEF IInv, WriterInv, Output
<1>4. /\ DOMAIN buf' = DOMAIN buf \cup {wpos} /\ buf'[wpos] = rec
      /\ \A p \in DOMAIN buf : buf'[p] = buf[p]
  BY <1>1, <1>3
<1>5. QED
  BY <1>2, <1>4 DEF ItemsOf, HeaderAt

\* Of the two records of an event the header is one.
LEMMA EventItem ==
  ASSUME IInv, NEW r \in Runs, NEW e \in Evts, WriteEvent(r, e)
  PROVE  ItemsOf(buf') = ItemsOf(buf) \cup {Item(EvtKey(r, e))}
<1> DEFINE epos == wpos + DataLen
           hdr == Record("hdr", Item(EvtKey(r, e)))
           evt == Record("evt", Item(EvtKey(r, e)))
<1>1. buf' = [p \in DOMAIN buf \cup {wpos, epos} |->
                IF p = wpos THEN hdr ELSE IF p = epos THEN evt ELSE buf[p]]
  BY DEF WriteEvent
<1>2. hdr.kind = "hdr" /\ hdr.body = Item(EvtKey(r, e)) /\ evt.kind = "evt"
  BY DEF Record
<1> HIDE DEF hdr, evt
<1>3. wpos \in Nat /\ wpos # epos /\ \A p \in DOMAIN buf : p # wpos /\ p # epos
  BY Lengths DEF IInv, WriterInv, Output
<1> HIDE DEF epos
<1>4. /\ DOMAIN buf' = DOMAIN buf \cup {wpos, epos} /\ buf'[wpos] = hdr /\ buf'[epos] = evt
      /\ \A p \in DOMAIN buf : buf'[p] = buf[p]
  BY <1>1, <1>3
<1>5. QED
  BY <1>2, <1>4 DEF ItemsOf, HeaderAt

\* Closing writes no headers.
LEMMA CloseItems ==
  ASSUME IInv, LinkInv, WriteRandomAccessRecords
  PROVE  ItemsOf(buf') = ItemsOf(buf) /\ HeaderItems' = HeaderItems
<1>1. ItemsOf(buf') = ItemsOf(buf)
  <2>1. CASE IsEmpty(map)
    BY <2>1 DEF WriteRandomAccessRecords
  <2>2. CASE ~IsEmpty(map)
    <3>1. PICK apos, fpos : apos = wpos + DataLen /\ fpos = apos + AccLen
      OBVIOUS
    <3>2. /\ DOMAIN buf' = DOMAIN buf \cup {wpos, apos, fpos}
          /\ \A p \in DOMAIN buf : buf'[p] = buf[p] /\ p \notin {wpos, apos, fpos}
          /\ BlockAt(buf', wpos, apos, fpos)
      BY <2>2, <3>1, BlockWritten
    <3>3. /\ buf'[wpos].kind = "idx" /\ buf'[apos].kind = "acc" /\ buf'[fpos].kind = "acc"
      BY <3>2 DEF BlockAt, Record
    <3>4. \A p \in DOMAIN buf' : HeaderAt(buf', p) <=> p \in DOMAIN buf /\ HeaderAt(buf, p)
      BY <3>2, <3>3 DEF HeaderAt
    <3>5. QED
      BY <3>2, <3>4 DEF ItemsOf
  <2>3. QED
    BY <2>1, <2>2
<1>2. (HeaderItems = ItemsOf(disk) \cup ItemsOf(buf))'
  BY ItemsOfBoth, PTL
<1>3. disk' = disk
  BY DEF WriteRandomAccessRecords
<1>4. QED
  BY <1>1, <1>2, <1>3, ItemsOfBoth

\* A session starts with the headers of the file, or none.
LEMMA OpenItems ==
  ASSUME IInv, OpenNew \/ OpenAppend \/ OpenAppendOld
  PROVE  /\ ItemsOf(buf) = {} /\ ItemsOf(buf') = {} /\ sessions' = sessions + 1
         /\ HeaderItems' = IF OpenNew THEN {} ELSE HeaderItems
<1>1. buf = NoRecords /\ buf' = buf /\ sessions' = sessions + 1
  BY DEF OpenNew, OpenAppend, OpenAppendOld, StartSession, IInv, WriterInv
<1>2. ItemsOf(buf) = {}
  BY <1>1 DEF ItemsOf, NoRecords
<1>3. ItemsOf(disk') = IF OpenNew THEN {} ELSE ItemsOf(disk)
  <2>1. OpenNew => ItemsOf(disk') = {}
    BY DEF OpenNew, ItemsOf, NoRecords
  <2>2. ~OpenNew => disk' = disk
    BY DEF OpenAppend, OpenAppendOld
  <2>3. QED
    BY <2>1, <2>2
<1>4. (HeaderItems = ItemsOf(disk) \cup ItemsOf(buf))'
  BY ItemsOfBoth, PTL
<1>5. QED
  BY <1>1, <1>2, <1>3, <1>4, ItemsOfBoth

(***************************************************************************)
(* Every step of clients that write no key twice keeps one item of a key.  *)
(***************************************************************************)
LEMMA InitItems == Init => ItemsInv
<1> SUFFICES ASSUME Init PROVE ItemsInv
  OBVIOUS
<1>1. DOMAIN disk = {} /\ DOMAIN buf = {}
  BY DEF Init, NoRecords
<1>2. ItemsOf(disk) = {} /\ ItemsOf(buf) = {}
  BY <1>1 DEF ItemsOf
<1>3. QED
  BY <1>2, ItemsOfBoth DEF ItemsInv

\* The steps that write add one, the others none.
LEMMA NextItems ==
  ASSUME UniqueKeys
  PROVE  IInv /\ LinkInv /\ ItemsInv /\ [Next]_vars => ItemsInv'
<1> SUFFICES ASSUME IInv, LinkInv, ItemsInv, [Next]_vars PROVE ItemsInv'
  OBVIOUS
<1>1. CASE OpenNew \/ OpenAppend \/ OpenAppendOld
  BY <1>1, OpenItems, FewerItems DEF IInv, CountInv
<1>2. ASSUME NEW r \in Runs, WriteRunHeader(r) PROVE ItemsInv'
  <2>1. /\ MayWrite(RunKey(r)) /\ UNCHANGED <<disk, mode, sessions>>
        /\ map' = Add(map, RunKey(r), wpos)
    BY <1>2 DEF WriteRunHeader
  <2>2. QED
    BY <1>2, <2>1, RunHeaderItem, KeysOfRuns, PutKeepsItems
<1>3. ASSUME NEW r \in Runs, NEW e \in Evts, WriteEvent(r, e) PROVE ItemsInv'
  <2>1. /\ MayWrite(EvtKey(r, e)) /\ UNCHANGED <<disk, mode, sessions>>
        /\ map' = Add(map, EvtKey(r, e), wpos)
    BY <1>3 DEF WriteEvent
  <2>2. QED
    BY <1>3, <2>1, EventItem, KeysOfEvents, PutKeepsItems
<1>4. CASE Flush \/ CloseStream \/ Crash
  <2>1. /\ mode # "closed" /\ buf' = NoRecords /\ sessions' = sessions
        /\ mode' # "closed" => mode # "closed" /\ map' = map
    BY <1>4 DEF Flush, CloseStream, Crash, EndSession
  <2>2. PICK cut \in synced .. wpos : Drain(cut)
    <3>1. wpos \in synced .. wpos
      BY DEF IInv, WriterInv
    <3>2. QED
      BY <1>4, <3>1 DEF Flush, CloseStream, Crash
  <2>3. cut \in Nat /\ synced <= cut /\ cut <= wpos
    BY DEF IInv, WriterInv
  <2>4. HeaderItems' \subseteq HeaderItems
    BY <2>1, <2>2, <2>3, DrainedItems
  <2>5. ItemsOf(buf') = {}
    BY <2>1 DEF ItemsOf, NoRecords
  <2>6. QED
    BY <2>1, <2>4, <2>5, FewerItems
<1>5. CASE WriteRandomAccessRecords
  <2>1. sessions' = sessions /\ mode # "closed" /\ map' = map
    BY <1>5 DEF WriteRandomAccessRecords
  <2>2. QED
    BY <1>5, <2>1, CloseItems, FewerItems
<1>6. CASE UNCHANGED vars
  <2>1. HeaderItems' = HeaderItems
    BY <1>6 DEF vars, HeaderItems
  <2>2. QED
    BY <1>6, <2>1, FewerItems DEF vars
<1>7. QED
  BY <1>1, <1>2, <1>3, <1>4, <1>5, <1>6 DEF Next

-----------------------------------------------------------------------------
(***************************************************************************)
(* What the block a writer started from leads to.                          *)
(***************************************************************************)
Resumed == IF lastRa = None THEN NoRecords ELSE ChainEntries(disk, lastRa.first)

(***************************************************************************)
(* What is known of a session: a writer that has written nothing holds     *)
(* what direct access finds in the file, and one that is about to close    *)
(* has written a block, with its map in the index, behind everything else. *)
(***************************************************************************)
UnusedSession ==
  mode # "closed" /\ IsEmpty(map) =>
    buf = NoRecords /\ wpos = synced /\ synced <= size /\ Direct.map.pos = Resumed
ClosingSession ==
  mode = "closing" /\ ~IsEmpty(map) =>
    \E ipos, apos, fpos \in Nat :
      /\ apos = ipos + DataLen /\ fpos = apos + AccLen /\ wpos = fpos + AccLen
      /\ synced <= ipos /\ BlockAt(buf, ipos, apos, fpos)
      /\ Decode(Encode(map)) = map.pos
SessionInv ==
  /\ mode # "closed" => size <= synced + AccLen
  /\ UnusedSession /\ ClosingSession

\* A map from keys to headers is a function.
LEMMA HeaderMapIsMap ==
  ASSUME NEW d, NEW f \in HeaderMaps(d)
  PROVE  f = [k \in DOMAIN f |-> f[k]]
BY DEF HeaderMaps

\* What createEventMap makes of entries are these entries.
LEMMA EntriesOfMap ==
  /\ EmptyMap.pos = NoRecords
  /\ \A f : f = [k \in DOMAIN f |-> f[k]] => AddAll(EmptyMap, f).pos = f
  /\ \A f : AddAll(EmptyMap, f).pos = [k \in DOMAIN f |-> f[k]]
<1>1. EmptyMap.pos = NoRecords
  BY DEF EmptyMap, NoRecords
<1>2. \A f : AddAll(EmptyMap, f).pos = [k \in DOMAIN f |-> f[k]]
  BY DEF EmptyMap, AddAll, Keys
<1>3. QED
  BY <1>1, <1>2

(***************************************************************************)
(* Appending goes on from the block that direct access starts from.        *)
(***************************************************************************)
LEMMA AppendResumes ==
  ASSUME IInv, LinkInv, SoundInv, ChainInv, ChainEnds, OpenAppend
  PROVE  Resumed' = Direct.map.pos
<1> DEFINE end == size - AccLen
           first == disk[end].body.next
<1>1. /\ IsKind(disk, end, "acc") /\ size >= AccLen /\ mode = "closed"
      /\ lastRa' = IF IsKind(disk, first, "acc") THEN disk[first].body ELSE None
      /\ UNCHANGED <<disk, size>>
  BY DEF OpenAppend, StartSession
<1>2. /\ end \in DOMAIN disk /\ Links(disk, disk[end].body, end) /\ Readable(disk, end)
      /\ ~(size < AccLen)
  BY <1>1, Lengths DEF LinkInv, Linked, IsKind, Readable, IInv, DiskInv
<1>3. CASE ~IsKind(disk, first, "acc")
  <2>1. lastRa' = None
    BY <1>1, <1>3
  <2>2. Direct.map = EmptyMap
    BY <1>1, <1>2, <1>3 DEF Direct, CreateEventMap
  <2>3. QED
    BY <2>1, <2>2, EntriesOfMap DEF Resumed
<1>4. CASE IsKind(disk, first, "acc")
  <2>1. first \in DOMAIN disk /\ first > 0 /\ Block(disk, first)
    BY <1>2, <1>4 DEF LinkInv, Linked, Links, IsKind, Readable
  <2>2. lastRa' = disk[first].body /\ disk[first].body.first = first
    BY <1>1, <1>4, <2>1 DEF Block
  <2>3. lastRa' # None
    <3>1. ChainedAt(disk, first)
      BY <1>4, <2>1 DEF ChainInv, Chained
    <3>2. QED
      BY <2>2, <3>1 DEF ChainedAt
  <2>4. Direct.status \notin {"broken", "endless"}
    BY <1>1 DEF ChainEnds
  <2>5. Direct.map = AddAll(EmptyMap, ChainEntries(disk, first))
    <3> HIDE DEF first
    <3>1. Direct = CreateEventMap(disk, size) /\ first = disk[size - AccLen].body.next
      BY DEF Direct, first
    <3>2. QED
      BY <1>1, <1>2, <1>4, <2>4, <3>1 DEF CreateEventMap
  <2>6. ChainEntries(disk, first) \in HeaderMaps(disk)
    BY <2>1, DiskTyped, ChainEntriesSound DEF LinkInv, SoundInv, IInv, DiskInv
  <2>7. Resumed' = ChainEntries(disk, first)
    <3> HIDE DEF first
    <3>1. disk' = disk
      BY <1>1
    <3>2. QED
      BY <2>2, <2>3, <3>1 DEF Resumed
  <2>8. QED
    <3> HIDE DEF first
    <3>1. QED
      BY <2>5, <2>6, <2>7, EntriesOfMap, HeaderMapIsMap
<1>5. QED
  BY <1>3, <1>4

\* An old file is appended to with what direct access finds in it.
LEMMA AppendOldResumes ==
  ASSUME IInv, LinkInv, OpenAppendOld
  PROVE  map' = Direct.map /\ Resumed' = NoRecords /\ Direct' = Direct
<1>1. /\ size >= AccLen /\ ~Readable(disk, size - AccLen) /\ ~RecreateThrows(disk, size)
      /\ mode = "closed" /\ map' = RecreateEventMap(disk) /\ UNCHANGED <<disk, size, lastRa>>
  BY DEF OpenAppendOld, StartSession
<1>2. Direct.map = RecreateEventMap(disk)
  <2>1. ~(size < AccLen)
    BY <1>1, Lengths DEF IInv, DiskInv
  <2>2. QED
    BY <1>1, <2>1 DEF Direct, CreateEventMap
<1>3. lastRa' = None
  BY <1>1 DEF LinkInv
<1>4. QED
  BY <1>1, <1>2, <1>3 DEF Resumed, Direct

\* In a new file nothing is found, and nothing is gone on from.
LEMMA NewResumes ==
  ASSUME LinkInv, OpenNew
  PROVE  Resumed' = NoRecords /\ Direct'.map = EmptyMap
<1>1. size' = 0 /\ lastRa' = None
  BY DEF OpenNew, writer, StartSession, LinkInv
<1>2. 0 < AccLen
  BY Lengths
<1>3. QED
  BY <1>1, <1>2 DEF Resumed, Direct, CreateEventMap

\* A new session holds what direct access finds, whatever way it is opened.
LEMMA OpenKeepsSession ==
  ASSUME IInv, LinkInv, SoundInv, ChainInv, ChainEnds, OpenNew \/ OpenAppend \/ OpenAppendOld
  PROVE  SessionInv'
<1>1. PICK pos \in Nat : /\ StartSession(pos) /\ size' <= pos + AccLen /\ pos <= size'
                         /\ IsEmpty(map') => Direct'.map.pos = Resumed'
  <2>1. CASE OpenNew
    BY <2>1, NewResumes, EntriesOfMap, Lengths DEF OpenNew
  <2>2. CASE OpenAppend
    <3>1. StartSession(size - AccLen) /\ size >= AccLen /\ UNCHANGED <<disk, size>>
      BY <2>2 DEF OpenAppend
    <3>2. size \in Nat /\ AccLen \in Nat
      BY Lengths DEF IInv, DiskInv
    <3>3. Direct' = Direct
      BY <3>1 DEF Direct
    <3>4. Resumed' = Direct.map.pos
      BY <2>2, AppendResumes
    <3>5. QED
      BY <3>1, <3>2, <3>3, <3>4
  <2>3. CASE OpenAppendOld
    <3>1. StartSession(size) /\ UNCHANGED <<disk, size>> /\ map' = RecreateEventMap(disk)
      BY <2>3 DEF OpenAppendOld
    <3>2. size \in Nat /\ AccLen \in Nat
      BY Lengths DEF IInv, DiskInv
    <3>3. map' = Direct.map /\ Resumed' = NoRecords /\ Direct' = Direct
      BY <2>3, AppendOldResumes
    <3>4. ASSUME IsEmpty(map') PROVE map'.pos = NoRecords
      <4>1. PICK f : map' = AddAll(EmptyMap, f)
        BY <3>1 DEF RecreateEventMap
      <4>2. map'.pos = [k \in DOMAIN f |-> f[k]]
        BY <4>1, EntriesOfMap
      <4>3. DOMAIN f = {}
        BY <3>4, <4>2 DEF IsEmpty, Keys
      <4>4. QED
        BY <4>2, <4>3 DEF NoRecords
    <3>5. QED
      BY <3>1, <3>2, <3>3, <3>4
  <2>4. QED
    BY <2>1, <2>2, <2>3
<1>2. mode' = "open" /\ synced' = pos /\ wpos' = pos /\ buf' = NoRecords
  BY <1>1 DEF StartSession, IInv, WriterInv
<1>3. QED
  BY <1>1, <1>2 DEF SessionInv, UnusedSession, ClosingSession

\* The map that a writer closes with is what its index says.
LEMMA CloseKeepsSession ==
  ASSUME IInv, LinkInv, SoundInv, ClosesCompactible, SessionInv, WriteRandomAccessRecords
  PROVE  SessionInv'
<1>1. /\ mode = "open" /\ MayClose /\ mode' = "closing"
      /\ UNCHANGED <<disk, size, synced, map, lastRa, fileRec>>
  BY DEF WriteRandomAccessRecords
<1>2. size' <= synced' + AccLen
  BY <1>1 DEF SessionInv
<1>3. Direct' = Direct /\ Resumed' = Resumed
  BY <1>1 DEF Direct, Resumed
<1>4. CASE IsEmpty(map)
  <2>1. UNCHANGED <<buf, wpos>>
    BY <1>4 DEF WriteRandomAccessRecords
  <2>2. QED
    BY <1>1, <1>2, <1>3, <1>4, <2>1 DEF SessionInv, UnusedSession, ClosingSession
<1>5. CASE ~IsEmpty(map)
  <2>1. PICK ipos, apos, fpos : ipos = wpos /\ apos = ipos + DataLen /\ fpos = apos + AccLen
    OBVIOUS
  <2>2. /\ wpos' = fpos + AccLen /\ apos \in Nat /\ fpos \in Nat
        /\ BlockAt(buf', ipos, apos, fpos)
    BY <1>5, <2>1, BlockWritten
  <2>3. ipos \in Nat /\ synced <= ipos
    BY <2>1 DEF IInv, WriterInv
  <2>4. BlockAt(buf, ipos, apos, fpos)'
    <3>1. /\ NewAccess(ipos, apos)' = NewAccess(ipos, apos)
          /\ \A ra : FileRecord(ra, apos)' = FileRecord(ra, apos)
      BY <1>1 DEF NewAccess, FileRecord
    <3>2. QED
      BY <1>1, <2>2, <3>1 DEF BlockAt
  <2>5. Decode(Encode(map)) = map.pos
    <3>1. MapOK(map) /\ Compactible(map)
      BY <1>1, <1>5 DEF IInv, WriterInv, MapType, MapOK, SoundInv, ClosesCompactible
    <3>2. QED
      BY <1>5, <3>1, CompactibleRoundTrip
  <2>6. QED
    BY <1>1, <1>2, <1>5, <2>1, <2>2, <2>3, <2>4, <2>5
    DEF SessionInv, UnusedSession, ClosingSession
<1>6. QED
  BY <1>4, <1>5

\* No writer is at work at first.
LEMMA InitSession == Init => SessionInv
BY DEF Init, SessionInv, UnusedSession, ClosingSession

\* A run header or event makes a session a used one.
LEMMA PutKeepsSession ==
  ASSUME IInv, SessionInv, mode = "open", NEW key \in MapKeys, map' = Add(map, key, wpos),
         UNCHANGED <<mode, size, synced>>
  PROVE  SessionInv'
<1>1. Keys(map') = Keys(map) \cup {key}
  BY AddCounted DEF IInv, WriterInv, MapType
<1>2. ~IsEmpty(map')
  BY <1>1 DEF IsEmpty
<1>3. size' <= synced' + AccLen
  BY DEF SessionInv
<1>4. QED
  BY <1>2, <1>3 DEF SessionInv, UnusedSession, ClosingSession

\* A writer that has something to flush has something in its map.
LEMMA FlushKeepsSession ==
  ASSUME IInv, SessionInv, Flush
  PROVE  SessionInv'
<1>1. /\ mode = "open" /\ buf # NoRecords /\ size' = Larger(size, wpos) /\ synced' = wpos
      /\ UNCHANGED <<mode, map>>
  BY DEF Flush, Drain
<1>2. ~IsEmpty(map')
  BY <1>1 DEF SessionInv, UnusedSession
<1>3. size' <= synced' + AccLen
  <2>1. size \in Nat /\ wpos \in Nat /\ synced \in Nat /\ synced <= wpos /\ AccLen \in Nat
        /\ size <= synced + AccLen
    BY <1>1, Lengths DEF IInv, DiskInv, WriterInv, SessionInv
  <2>2. QED
    BY <1>1, <2>1 DEF Larger
<1>4. QED
  BY <1>1, <1>2, <1>3 DEF SessionInv, UnusedSession, ClosingSession

(***************************************************************************)
(* Every step keeps what is known of sessions.                             *)
(***************************************************************************)
LEMMA NextSession ==
  /\ IInv /\ LinkInv /\ SoundInv /\ ChainInv /\ ChainEnds /\ ClosesCompactible
  /\ SessionInv /\ [Next]_vars
  => SessionInv'
<1> SUFFICES ASSUME IInv, LinkInv, SoundInv, ChainInv, ChainEnds, ClosesCompactible,
                    SessionInv, [Next]_vars
             PROVE  SessionInv'
  OBVIOUS
<1>1. CASE OpenNew \/ OpenAppend \/ OpenAppendOld
  BY <1>1, OpenKeepsSession
<1>2. ASSUME NEW r \in Runs, WriteRunHeader(r) PROVE SessionInv'
  <2>1. /\ mode = "open" /\ map' = Add(map, RunKey(r), wpos) /\ UNCHANGED <<mode, size, synced>>
    BY <1>2 DEF WriteRunHeader, MayWrite
  <2>2. QED
    BY <2>1, KeysOfRuns, PutKeepsSession
<1>3. ASSUME NEW r \in Runs, NEW e \in Evts, WriteEvent(r, e) PROVE SessionInv'
  <2>1. /\ mode = "open" /\ map' = Add(map, EvtKey(r, e), wpos) /\ UNCHANGED <<mode, size, synced>>
    BY <1>3 DEF WriteEvent, MayWrite
  <2>2. QED
    BY <2>1, KeysOfEvents, PutKeepsSession
<1>4. CASE Flush
  BY <1>4, FlushKeepsSession
<1>5. CASE WriteRandomAccessRecords
  BY <1>5, CloseKeepsSession
<1>6. CASE CloseStream \/ Crash
  <2>1. mode' = "closed"
    BY <1>6 DEF CloseStream, Crash, EndSession
  <2>2. QED
    BY <2>1 DEF SessionInv, UnusedSession, ClosingSession
<1>7. CASE UNCHANGED vars
  <2>1. Direct' = Direct /\ Resumed' = Resumed
    BY <1>7 DEF vars, Direct, Resumed
  <2>2. (size <= synced + AccLen)' <=> size <= synced + AccLen
    BY <1>7 DEF vars
  <2>3. UnusedSession'
    BY <1>7, <2>1 DEF SessionInv, UnusedSession, vars
  <2>4. ClosingSession'
    BY <1>7 DEF SessionInv, ClosingSession, vars, BlockAt, NewAccess, FileRecord
  <2>5. QED
    BY <1>7, <2>2, <2>3, <2>4 DEF SessionInv, vars
<1>8. QED
  BY <1>1, <1>2, <1>3, <1>4, <1>5, <1>6, <1>7 DEF Next

\* SessionInv where every session is closed with a compactible map.
THEOREM SpecSessionInv == Spec /\ []ClosesCompactible => []SessionInv
BY SpecIInv, SpecLinkInv, SpecChainInv, SpecChainEnds, SpecSoundInv, InitSession, NextSession,
   PTL DEF Spec

-----------------------------------------------------------------------------
(***************************************************************************)
(* All that is known of a file and its writer.                             *)
(***************************************************************************)
StoreInv ==
  /\ IInv /\ LinkInv /\ SoundInv /\ ChainInv /\ ItemsInv /\ SessionInv /\ ChainEnds
  /\ disk = [p \in DOMAIN disk |-> disk[p]]

(***************************************************************************)
(* The keys that are stored, and those of them a writer has in its map.    *)
(***************************************************************************)
OldKeys == {k \in Keys(map) : Written[k] < sessions}
StoredKeys == IF mode = "closed" THEN Keys(Direct.map) ELSE DOMAIN Resumed \cup OldKeys

\* Every key in the map of a writer was written; what is not of this session is in the file.
LEMMA MapIsWritten ==
  ASSUME StoreInv, NEW k \in Keys(map)
  PROVE  /\ k \in DOMAIN Written /\ Written[k] \in Nat /\ Written[k] <= sessions
         /\ Written[k] < sessions => map.pos[k] \in DOMAIN disk
<1> DEFINE p == map.pos[k]
<1>1. Header(Whole, p, k)
  BY DEF StoreInv, SoundInv, Leads, Keys
<1>2. p \in DOMAIN Whole /\ HeaderAt(Whole, p) /\ Whole[p].body.key = k
  BY <1>1 DEF Header, Readable, HeaderAt
<1>3. \/ p \in DOMAIN buf /\ Whole[p] = buf[p]
      \/ p \in DOMAIN disk /\ Whole[p] = disk[p]
  BY <1>2, WholeRecords DEF WrittenOver, StoreInv
<1> HIDE DEF p
<1>4. \/ Whole[p].body \in ItemsOf(buf)
      \/ Whole[p].body \in ItemsOf(disk) /\ p \in DOMAIN disk
  BY <1>2, <1>3 DEF ItemsOf, HeaderAt
<1>5. Whole[p].body \in HeaderItems
  BY <1>4, ItemsOfBoth
<1>6. k \in DOMAIN Written /\ Written[k] = Whole[p].body.ver
  BY <1>2, <1>5, WrittenItems DEF StoreInv
<1>7. Written[k] \in Nat /\ Written[k] <= sessions
  BY <1>5, <1>6 DEF StoreInv, ItemsInv
<1>8. Written[k] < sessions => p \in DOMAIN disk
  <2>1. sessions \in Nat /\ \A i \in ItemsOf(buf) : i.ver = sessions
    BY DEF StoreInv, IInv, CountInv, ItemsInv
  <2>2. QED
    BY <1>4, <1>6, <2>1
<1>9. QED
  BY <1>6, <1>7, <1>8 DEF p

\* What the block a writer started from leads to are headers of the file.
LEMMA ResumedSound ==
  ASSUME StoreInv
  PROVE  Resumed \in HeaderMaps(disk)
<1>1. CASE lastRa = None
  BY <1>1, NoHeaders DEF Resumed
<1>2. CASE lastRa # None
  <2>1. lastRa.first \in Nat
    BY <1>2, AccessFields DEF StoreInv, IInv, WriterInv
  <2>2. ChainEntries(disk, lastRa.first) \in HeaderMaps(disk)
    BY <2>1, DiskTyped, ChainEntriesSound DEF StoreInv, LinkInv, SoundInv
  <2>3. QED
    BY <1>2, <2>2 DEF Resumed
<1>3. QED
  BY <1>1, <1>2

(***************************************************************************)
(* What is stored under a key is what was written under it.                *)
(***************************************************************************)
LEMMA StoredIs ==
  ASSUME StoreInv
  PROVE  /\ StoredKeys \subseteq DOMAIN Written
         /\ Stored = [k \in StoredKeys |-> Written[k]]
<1>1. CASE mode = "closed"
  <2> DEFINE f == Direct.map.pos
  <2>1. DirectSound
    BY SoundIndices DEF StoreInv
  <2>2. \A k \in DOMAIN f : Header(disk, f[k], k)
    BY <1>1, <2>1 DEF DirectSound, Header, Keys
  <2>3. \A k \in DOMAIN f : k \in DOMAIN Written /\ Written[k] = disk[f[k]].body.ver
    BY <2>2, HeaderIsItem DEF StoreInv
  <2>4. StoredKeys = DOMAIN f
    BY <1>1 DEF StoredKeys, Keys
  <2>5. Stored = [k \in DOMAIN f |-> disk[f[k]].body.ver]
    BY <1>1 DEF Stored, Versions
  <2> HIDE DEF f
  <2>6. QED
    BY <2>3, <2>4, <2>5
<1>2. CASE mode # "closed"
  <2> DEFINE old == {k \in Keys(map) : map.pos[k] \in DOMAIN disk /\ Written[k] < sessions}
  <2>1. old = OldKeys
    BY MapIsWritten DEF OldKeys
  <2>2. Stored = [k \in DOMAIN Resumed \cup old |->
                    IF k \in old THEN Written[k] ELSE Versions(Resumed)[k]]
    BY <1>2 DEF Stored, Resumed
  <2> HIDE DEF old
  <2>3. \A k \in DOMAIN Resumed : Header(disk, Resumed[k], k)
    BY ResumedSound DEF HeaderMaps
  <2>4. \A k \in DOMAIN Resumed : k \in DOMAIN Written /\ Written[k] = disk[Resumed[k]].body.ver
    BY <2>3, HeaderIsItem DEF StoreInv
  <2>5. \A k \in DOMAIN Resumed : Versions(Resumed)[k] = disk[Resumed[k]].body.ver
    BY DEF Versions
  <2>6. OldKeys \subseteq DOMAIN Written
    BY MapIsWritten DEF OldKeys
  <2>7. StoredKeys = DOMAIN Resumed \cup old
    BY <1>2, <2>1 DEF StoredKeys
  <2>8. StoredKeys \subseteq DOMAIN Written
    BY <2>1, <2>4, <2>6, <2>7
  <2>9. \A k \in StoredKeys : (IF k \in old THEN Written[k] ELSE Versions(Resumed)[k]) = Written[k]
    BY <2>4, <2>5, <2>7
  <2>10. QED
    BY <2>2, <2>7, <2>8, <2>9
<1>3. QED
  BY <1>1, <1>2

\* What is written changes with the headers only.
LEMMA WrittenChanges ==
  ASSUME ItemsInv, ItemsInv'
  PROVE  /\ HeaderItems' = HeaderItems => Written' = Written
         /\ HeaderItems' \subseteq HeaderItems =>
              /\ DOMAIN Written' \subseteq DOMAIN Written
              /\ Written' = [k \in DOMAIN Written' |-> Written[k]]
         /\ \A key : /\ HeaderItems' = HeaderItems \cup {Item(key)}
                     /\ \A i \in HeaderItems : i.key # key
              => /\ key \notin DOMAIN Written
                 /\ Written' = [k \in DOMAIN Written \cup {key} |->
                                  IF k = key THEN sessions ELSE Written[k]]
<1>1. /\ DOMAIN Written = {i.key : i \in HeaderItems}
      /\ \A i \in HeaderItems : i.key \in DOMAIN Written /\ Written[i.key] = i.ver
      /\ \A k \in DOMAIN Written : \E i \in HeaderItems : i.key = k
  BY WrittenItems
<1>2. (ItemsInv =>
         /\ DOMAIN Written = {i.key : i \in HeaderItems}
         /\ \A i \in HeaderItems : i.key \in DOMAIN Written /\ Written[i.key] = i.ver
         /\ \A k \in DOMAIN Written : \E i \in HeaderItems : i.key = k)'
  BY WrittenItems, PTL
<1>3. Written' = [k \in DOMAIN Written' |-> Written'[k]]
  BY DEF Written
<1>4. HeaderItems' = HeaderItems => Written' = Written
  BY DEF Written
<1>5. ASSUME HeaderItems' \subseteq HeaderItems
      PROVE  /\ DOMAIN Written' \subseteq DOMAIN Written
             /\ Written' = [k \in DOMAIN Written' |-> Written[k]]
  <2>1. \A k \in DOMAIN Written' : k \in DOMAIN Written /\ Written'[k] = Written[k]
    BY <1>1, <1>2, <1>5
  <2>2. QED
    BY <1>3, <2>1
<1>6. ASSUME NEW key, HeaderItems' = HeaderItems \cup {Item(key)},
             \A i \in HeaderItems : i.key # key
      PROVE  /\ key \notin DOMAIN Written
             /\ Written' = [k \in DOMAIN Written \cup {key} |->
                              IF k = key THEN sessions ELSE Written[k]]
  <2>1. Item(key).key = key /\ Item(key).ver = sessions
    BY DEF Item
  <2>2. key \notin DOMAIN Written
    BY <1>1, <1>6
  <2>3. DOMAIN Written' = DOMAIN Written \cup {key}
    BY <1>1, <1>2, <1>6, <2>1
  <2>4. Written'[key] = sessions
    BY <1>2, <1>6, <2>1
  <2>5. \A k \in DOMAIN Written : Written'[k] = Written[k]
    BY <1>1, <1>2, <1>6
  <2>6. QED
    BY <1>3, <2>2, <2>3, <2>4, <2>5
<1>7. QED
  BY <1>4, <1>5, <1>6

-----------------------------------------------------------------------------
\* The primed form of StoredIs.
LEMMA StoredNext ==
  StoreInv' => /\ StoredKeys' \subseteq DOMAIN Written'
               /\ Stored' = [k \in StoredKeys' |-> Written'[k]]
<1>1. (StoreInv => /\ StoredKeys \subseteq DOMAIN Written
                   /\ Stored = [k \in StoredKeys |-> Written[k]])'
  BY StoredIs, PTL
<1>2. QED
  BY <1>1

\* What is written and which keys are stored say what is stored.
LEMMA StoredSame ==
  ASSUME StoreInv, StoreInv', StoredKeys' = StoredKeys,
         \A k \in StoredKeys : Written'[k] = Written[k]
  PROVE  Stored' = Stored
BY StoredIs, StoredNext

\* No header, no key.
LEMMA NothingWritten ==
  ASSUME ItemsInv, HeaderItems = {}
  PROVE  Written = Store!Nothing /\ DOMAIN Written = {}
<1>1. DOMAIN Written = {}
  BY WrittenItems
<1>2. Written = [k \in DOMAIN Written |-> Written[k]]
  BY DEF Written
<1>3. Written = [k \in {} |-> Written[k]]
  BY <1>1, <1>2
<1>4. [k \in {} |-> Written[k]] = [k \in {} |-> 0]
  OBVIOUS
<1>5. QED
  BY <1>1, <1>3, <1>4 DEF Store!Nothing

\* A file that does not exist stores nothing.
LEMMA InitStore == ASSUME Init, StoreInv PROVE Store!StoreInit
<1>1. DOMAIN disk = {} /\ DOMAIN buf = {} /\ mode = "closed" /\ sessions = 0
  BY DEF Init, NoRecords
<1>2. HeaderItems = {}
  BY <1>1, ItemsOfBoth DEF ItemsOf
<1>3. Written = Store!Nothing /\ DOMAIN Written = {}
  BY <1>2, NothingWritten DEF StoreInv
<1>4. Stored = [k \in {} |-> Written[k]]
  <2>1. StoredKeys = {}
    BY <1>3, StoredIs
  <2>2. QED
    BY <2>1, StoredIs
<1>5. [k \in {} |-> Written[k]] = [k \in {} |-> 0]
  OBVIOUS
<1>6. QED
  BY <1>1, <1>3, <1>4, <1>5 DEF Store!StoreInit, Store!Nothing

\* Creating the file is Create.
LEMMA OpenNewCreates ==
  ASSUME StoreInv, StoreInv', OpenNew
  PROVE  Store!Create
<1>1. mode = "closed" /\ mode' = "open" /\ sessions' = sessions + 1
  BY DEF OpenNew, StartSession
<1>2. HeaderItems' = {}
  BY OpenItems DEF StoreInv
<1>3. Written' = Store!Nothing /\ DOMAIN Written' = {}
  <2>1. (ItemsInv /\ HeaderItems = {} => Written = Store!Nothing /\ DOMAIN Written = {})'
    BY NothingWritten, PTL
  <2>2. QED
    BY <1>2, <2>1 DEF StoreInv, Store!Nothing
<1>4. Stored' = [k \in {} |-> Written'[k]]
  <2>1. StoredKeys' = {}
    BY <1>3, StoredNext
  <2>2. QED
    BY <2>1, StoredNext
<1>5. [k \in {} |-> Written'[k]] = [k \in {} |-> 0]
  OBVIOUS
<1>6. QED
  BY <1>1, <1>3, <1>4, <1>5 DEF Store!Create, Store!Begin, Store!Nothing

\* Appending is Append: the writer has what direct access finds.
LEMMA OpenAppends ==
  ASSUME StoreInv, StoreInv', OpenAppend \/ OpenAppendOld, ~OpenNew
  PROVE  Store!Append
<1>1. mode = "closed" /\ mode' = "open" /\ sessions' = sessions + 1
  BY DEF OpenAppend, OpenAppendOld, StartSession
<1>2. HeaderItems' = HeaderItems
  BY OpenItems DEF StoreInv
<1>3. Written' = Written
  BY <1>2, WrittenChanges DEF StoreInv
<1>4. StoredKeys = DOMAIN Direct.map.pos /\ StoredKeys' = DOMAIN Resumed' \cup OldKeys'
  BY <1>1 DEF StoredKeys, Keys
<1>5. StoredKeys' = StoredKeys
  <2>1. CASE OpenAppend
    <3>1. Resumed' = Direct.map.pos
      BY <2>1, AppendResumes DEF StoreInv
    <3>2. Keys(map') = {}
      BY <1>1, <2>1 DEF OpenAppend, StoreInv, SoundInv
    <3>3. OldKeys' = {}
      BY <3>2 DEF OldKeys
    <3>4. QED
      BY <1>4, <3>1, <3>3
  <2>2. CASE OpenAppendOld
    <3>1. map' = Direct.map /\ Resumed' = NoRecords
      BY <2>2, AppendOldResumes DEF StoreInv
    <3>2. \A k \in StoredKeys : Written[k] \in Nat /\ Written[k] <= sessions
      <4>1. \A k \in DOMAIN Written : Written[k] \in Nat /\ Written[k] <= sessions
        BY WrittenItems DEF StoreInv, ItemsInv
      <4>2. QED
        BY <4>1, StoredIs
    <3>3. sessions \in Nat
      BY DEF StoreInv, IInv, CountInv
    <3>4. OldKeys' = StoredKeys
      BY <1>1, <1>3, <1>4, <3>1, <3>2, <3>3 DEF OldKeys, Keys
    <3>5. DOMAIN Resumed' = {}
      BY <3>1 DEF NoRecords
    <3>6. QED
      BY <1>4, <3>4, <3>5
  <2>3. QED
    BY <2>1, <2>2
<1>6. Stored' = Stored
  BY <1>3, <1>5, StoredSame
<1>7. QED
  BY <1>1, <1>3, <1>6 DEF Store!Append, Store!Begin

\* Writing a run header or an event is Put.
LEMMA WritePuts ==
  ASSUME UniqueKeys, StoreInv, StoreInv', NEW key \in MapKeys, MayWrite(key),
         UNCHANGED <<disk, mode, lastRa, sessions>>, map' = Add(map, key, wpos),
         ItemsOf(buf') = ItemsOf(buf) \cup {Item(key)}
  PROVE  Store!Put(key)
<1>1. mode = "open"
  BY DEF MayWrite
<1>2. HeaderItems' = HeaderItems \cup {Item(key)} /\ \A i \in HeaderItems : i.key # key
  BY PutKeepsItems, NewItem DEF StoreInv
<1>3. /\ key \notin DOMAIN Written
      /\ Written' = [k \in DOMAIN Written \cup {key} |-> IF k = key THEN sessions ELSE Written[k]]
  BY <1>2, WrittenChanges DEF StoreInv
<1>4. Keys(map') = Keys(map) \cup {key} /\ key \notin Keys(map)
  BY <1>3, AddCounted, MapIsWritten DEF StoreInv, IInv, WriterInv, MapType
<1>5. sessions \in Nat /\ sessions' = sessions
  BY DEF StoreInv, IInv, CountInv
<1>6. \A k \in Keys(map) : k \in DOMAIN Written
  BY MapIsWritten
<1>7. OldKeys' = OldKeys
  BY <1>3, <1>4, <1>5, <1>6 DEF OldKeys
<1>8. Resumed' = Resumed
  BY DEF Resumed
<1>9. StoredKeys' = StoredKeys
  BY <1>1, <1>7, <1>8 DEF StoredKeys
<1>10. \A k \in StoredKeys : Written'[k] = Written[k]
  BY <1>3, StoredIs
<1>11. Stored' = Stored
  BY <1>9, <1>10, StoredSame
<1>12. QED
  BY <1>1, <1>3, <1>11 DEF Store!Put

\* A flush changes nothing that the file promises.
LEMMA FlushStutters ==
  ASSUME StoreInv, StoreInv', Flush
  PROVE  UNCHANGED Store!storeVars
<1>1. /\ mode = "open" /\ Drain(wpos) /\ buf' = NoRecords /\ synced' = wpos
      /\ UNCHANGED <<mode, wpos, map, lastRa, sessions>>
  BY DEF Flush
<1>2. wpos \in Nat /\ synced \in Nat /\ synced <= wpos /\ wpos <= wpos
  BY DEF StoreInv, IInv, WriterInv
<1>3. HeaderItems' = HeaderItems
  BY <1>1, <1>2, DrainedItems DEF StoreInv
<1>4. Written' = Written
  BY <1>3, WrittenChanges DEF StoreInv
<1>5. Holds(disk, disk', synced)
  <2>1. Overlaid(disk', disk, buf, synced, wpos)
    BY <1>1, <1>2, OverlayRecords DEF Drain, StoreInv, IInv, DiskInv, WriterInv, Output
  <2>2. \A p \in DOMAIN buf : p \in Nat /\ synced <= p
    BY DEF StoreInv, IInv, WriterInv, Output
  <2>3. DOMAIN disk \subseteq Nat
    BY DEF StoreInv, IInv, DiskInv
  <2>4. QED
    BY <1>2, <2>1, <2>2, <2>3 DEF Overlaid, Holds
<1>6. Resumed' = Resumed
  <2>1. CASE lastRa = None
    BY <1>1, <2>1 DEF Resumed
  <2>2. CASE lastRa # None
    <3>1. lastRa.first \in Nat /\ lastRa.first < synced /\ Block(disk, lastRa.first)
      BY <2>2, AccessFields DEF StoreInv, IInv, WriterInv, LinkInv, WriterLinked
    <3>2. /\ AccTyped(disk) /\ Linked(disk) /\ IndexSound(disk) /\ Chained(disk)
          /\ AccTyped(disk') /\ Linked(disk') /\ IndexSound(disk')
      <4>1. AccTyped(disk) /\ AccTyped(disk')
        BY DiskTyped DEF StoreInv, IInv, DiskInv, WellFormed, AccTyped
      <4>2. QED
        BY <4>1 DEF StoreInv, LinkInv, SoundInv, ChainInv
    <3>3. ChainEntries(disk, lastRa.first) = ChainEntries(disk', lastRa.first)
      BY <1>2, <1>5, <3>1, <3>2, ChainEntriesKept
    <3>4. QED
      BY <1>1, <2>2, <3>3 DEF Resumed
  <2>3. QED
    BY <2>1, <2>2
<1>7. StoredKeys' = StoredKeys
  BY <1>1, <1>4, <1>6 DEF StoredKeys, OldKeys
<1>8. Stored' = Stored
  BY <1>4, <1>7, StoredSame
<1>9. QED
  BY <1>1, <1>4, <1>8 DEF Store!storeVars

\* Nor does the output of a block, before it is in the file.
LEMMA CloseStutters ==
  ASSUME StoreInv, StoreInv', WriteRandomAccessRecords
  PROVE  UNCHANGED Store!storeVars
<1>1. mode = "open" /\ mode' = "closing" /\ UNCHANGED <<disk, map, lastRa, sessions>>
  BY DEF WriteRandomAccessRecords
<1>2. Written' = Written
  BY CloseItems, WrittenChanges DEF StoreInv
<1>3. StoredKeys' = StoredKeys
  BY <1>1, <1>2 DEF StoredKeys, OldKeys, Resumed
<1>4. Stored' = Stored
  BY <1>2, <1>3, StoredSame
<1>5. QED
  BY <1>1, <1>2, <1>4 DEF Store!storeVars

\* Dying is Die.
LEMMA CrashDies ==
  ASSUME StoreInv, StoreInv', Crash
  PROVE  Store!Die
<1>1. mode # "closed" /\ mode' = "closed" /\ buf' = NoRecords /\ UNCHANGED sessions
  BY DEF Crash, EndSession
<1>2. PICK cut \in synced .. wpos : Drain(cut)
  BY DEF Crash
<1>3. cut \in Nat /\ synced <= cut /\ cut <= wpos
  BY DEF StoreInv, IInv, WriterInv
<1>4. HeaderItems' \subseteq HeaderItems
  BY <1>1, <1>2, <1>3, DrainedItems DEF StoreInv
<1>5. DOMAIN Written' \subseteq DOMAIN Written /\ Written' = [k \in DOMAIN Written' |-> Written[k]]
  BY <1>4, WrittenChanges DEF StoreInv
<1>6. Written' \in Store!SubFunctions(Written)
  BY <1>5 DEF Store!SubFunctions
<1>7. Stored' \in Store!SubFunctions(Written')
  BY StoredNext DEF Store!SubFunctions
<1>8. QED
  BY <1>1, <1>6, <1>7 DEF Store!Die, Store!End

-----------------------------------------------------------------------------
(***************************************************************************)
(* What direct access finds in the file that a session leaves: what it     *)
(* found before, and the map of the session.                               *)
(***************************************************************************)
LEMMA ClosedFile ==
  ASSUME StoreInv, StoreInv', CloseStream
  PROVE  Keys(Direct'.map) = DOMAIN Resumed \cup Keys(map)
<1>1. /\ mode = "closing" /\ mode' = "closed"
      /\ disk' = Whole /\ size' = Larger(size, wpos)
  BY DEF CloseStream, EndSession, Drain, Whole
<1>2. /\ wpos \in Nat /\ synced \in Nat /\ size \in Nat /\ DOMAIN disk \subseteq Nat
      /\ size <= synced + AccLen /\ AccLen \in Nat /\ 0 < AccLen /\ DataLen \in Nat
  BY <1>1, Lengths DEF StoreInv, IInv, DiskInv, WriterInv, SessionInv
<1>3. CASE IsEmpty(map)
  <2>1. buf = NoRecords /\ wpos = synced /\ synced <= size /\ Direct.map.pos = Resumed
    BY <1>1, <1>3 DEF StoreInv, SessionInv, UnusedSession
  <2>2. size' = size
    BY <1>1, <1>2, <2>1 DEF Larger
  <2>3. disk' = disk
    <3>1. Same(disk, disk')
      BY <1>1, <1>2, <2>1, WholeWithoutOutput DEF Whole
    <3>2. disk' = [p \in DOMAIN disk' |-> disk'[p]] /\ disk = [p \in DOMAIN disk |-> disk[p]]
      BY DEF StoreInv
    <3>3. DOMAIN disk' = DOMAIN disk /\ \A p \in DOMAIN disk : disk'[p] = disk[p]
      BY <3>1 DEF Same
    <3>4. QED
      BY <3>2, <3>3
  <2>4. Direct' = Direct
    BY <2>2, <2>3 DEF Direct
  <2>5. QED
    BY <1>3, <2>1, <2>4 DEF Keys, IsEmpty
<1>4. CASE ~IsEmpty(map)
  <2>1. PICK ipos \in Nat, apos \in Nat, fpos \in Nat :
          /\ apos = ipos + DataLen /\ fpos = apos + AccLen /\ wpos = fpos + AccLen
          /\ synced <= ipos /\ BlockAt(buf, ipos, apos, fpos)
          /\ Decode(Encode(map)) = map.pos
    BY <1>1, <1>4 DEF StoreInv, SessionInv, ClosingSession
  <2> DEFINE ra == NewAccess(ipos, apos)
             file == FileRecord(ra, apos)
  <2>2. /\ {ipos, apos, fpos} \subseteq DOMAIN buf
        /\ buf[ipos] = Record("idx", Encode(map)) /\ buf[apos] = Record("acc", ra)
        /\ buf[fpos] = Record("acc", file)
    BY <2>1 DEF BlockAt
  <2>3. /\ \A kind, body : /\ Record(kind, body).kind = kind /\ Record(kind, body).ok
                           /\ Record(kind, body).body = body
    BY DEF Record
  <2>4. \A p \in DOMAIN buf : p \in DOMAIN disk' /\ disk'[p] = buf[p]
    BY <1>1, WholeRecords DEF WrittenOver, StoreInv
  <2>5. ra.index = ipos /\ ra.prev = Tip /\ synced <= apos
    BY <1>2, <2>1, NewAccessFields DEF StoreInv
  <2>6. file.next = apos
    BY <2>1, <2>5, FileRecordNext DEF StoreInv
  <2> HIDE DEF ra, file
  <2>7. /\ IsKind(disk', ipos, "idx") /\ disk'[ipos].body = Encode(map)
        /\ IsKind(disk', apos, "acc") /\ disk'[apos].body = ra
        /\ IsKind(disk', fpos, "acc") /\ disk'[fpos].body = file /\ Readable(disk', fpos)
    BY <2>2, <2>3, <2>4 DEF IsKind, Readable
  <2>8. size' = wpos /\ size' - AccLen = fpos /\ ~(size' < AccLen)
    BY <1>1, <1>2, <2>1 DEF Larger
  <2>9. Direct'.map = AddAll(EmptyMap, ChainEntries(disk', apos))
    <3>1. Direct' = CreateEventMap(disk', size')
      BY DEF Direct
    <3>2. Direct'.status \notin {"broken", "endless"}
      BY <1>1 DEF StoreInv, ChainEnds
    <3>3. disk'[size' - AccLen].body.next = apos
      BY <2>6, <2>7, <2>8
    <3>4. QED
      BY <2>7, <2>8, <3>1, <3>2, <3>3 DEF CreateEventMap
  <2>10. /\ AccTyped(disk) /\ Linked(disk) /\ IndexSound(disk) /\ Chained(disk)
         /\ AccTyped(disk') /\ Linked(disk') /\ IndexSound(disk')
    <3>1. AccTyped(disk) /\ AccTyped(disk')
      BY DiskTyped DEF StoreInv, IInv, DiskInv, WellFormed, AccTyped
    <3>2. QED
      BY <3>1 DEF StoreInv, LinkInv, SoundInv, ChainInv
  <2>11. PICK g : EntriesWalk(g, disk') /\ \A p \in Nat : ChainEntries(disk', p) = g[p]
    BY <2>10, ChainEntriesPath
  <2>12. ReadIndexAt(disk', ipos) = map.pos
    BY <2>1, <2>7 DEF ReadIndexAt
  <2>13. apos # 0
    BY <2>1, Lengths
  <2>14. ChainEntries(disk', apos) = Merge(ChainEntries(disk', Tip), map.pos)
    <3>1. Tip \in Nat
      BY TipIsPosition DEF StoreInv
    <3>2. g[apos] = Merge(g[Tip], ReadIndexAt(disk', ipos))
      BY <2>1, <2>5, <2>7, <2>11, <2>13 DEF EntriesWalk
    <3>3. QED
      BY <2>1, <2>11, <2>12, <3>1, <3>2
  <2>15. ChainEntries(disk', Tip) = Resumed
    <3>1. CASE lastRa = None
      <4>1. Tip = 0 /\ Resumed = NoRecords
        BY <3>1 DEF Tip, Resumed
      <4>2. g[0] = NoRecords
        BY <2>11 DEF EntriesWalk
      <4>3. QED
        BY <2>11, <4>1, <4>2
    <3>2. CASE lastRa # None
      <4>1. /\ Tip = lastRa.first /\ Tip \in Nat /\ Tip < synced /\ Block(disk, Tip)
        BY <1>1, <3>2, TipIsPosition DEF Tip, StoreInv, LinkInv, WriterLinked
      <4>2. Holds(disk, disk', synced)
        <5>1. \A p \in DOMAIN buf : p \in Nat /\ synced <= p
          BY DEF StoreInv, IInv, WriterInv, Output
        <5>2. QED
          BY <1>1, <1>2, <5>1, WholeRecords DEF WrittenOver, Holds, StoreInv
      <4>3. ChainEntries(disk, Tip) = ChainEntries(disk', Tip)
        BY <1>2, <2>10, <4>1, <4>2, ChainEntriesKept
      <4>4. QED
        BY <3>2, <4>1, <4>3 DEF Resumed
    <3>3. QED
      BY <3>1, <3>2
  <2>16. DOMAIN Merge(Resumed, map.pos) = DOMAIN Resumed \cup Keys(map)
    BY DEF Merge, Keys
  <2>17. \A f : Keys(AddAll(EmptyMap, f)) = DOMAIN f
    BY EntriesOfMap DEF Keys
  <2>18. QED
    BY <2>9, <2>14, <2>15, <2>16, <2>17
<1>5. QED
  BY <1>3, <1>4

\* Closing the stream is Commit.
LEMMA CloseCommits ==
  ASSUME StoreInv, StoreInv', CloseStream
  PROVE  Store!Commit
<1>1. /\ mode = "closing" /\ mode' = "closed" /\ Drain(wpos) /\ buf' = NoRecords
      /\ UNCHANGED sessions
  BY DEF CloseStream, EndSession
<1>2. wpos \in Nat /\ synced <= wpos /\ wpos <= wpos /\ sessions \in Nat
  BY DEF StoreInv, IInv, WriterInv, CountInv
<1>3. Written' = Written
  BY <1>1, <1>2, DrainedItems, WrittenChanges DEF StoreInv
<1> DEFINE new == {k \in DOMAIN Written : Written[k] = sessions}
<1>4. Keys(map) = OldKeys \cup new
  <2>1. \A k \in Keys(map) : k \in DOMAIN Written /\ Written[k] \in Nat /\ Written[k] <= sessions
    BY MapIsWritten
  <2>2. new \subseteq Keys(map)
    BY <1>1, WrittenItems DEF StoreInv, ItemsInv
  <2>3. QED
    BY <1>2, <2>1, <2>2 DEF OldKeys
<1>5. StoredKeys = DOMAIN Resumed \cup OldKeys
  BY <1>1 DEF StoredKeys
<1>6. StoredKeys' = StoredKeys \cup new
  <2>1. StoredKeys' = Keys(Direct'.map)
    BY <1>1 DEF StoredKeys
  <2>2. QED
    BY <1>4, <1>5, <2>1, ClosedFile
<1>7. StoredKeys \subseteq DOMAIN Written /\ Stored = [k \in StoredKeys |-> Written[k]]
  BY StoredIs
<1>8. Stored' = [k \in StoredKeys \cup new |-> Written[k]]
  BY <1>3, <1>6, StoredNext
<1>9. DOMAIN Stored = StoredKeys /\ \A k \in StoredKeys : Stored[k] = Written[k]
  BY <1>7
<1>10. \A k \in StoredKeys \cup new : Written[k] = IF k \in new THEN sessions ELSE Stored[k]
  BY <1>9
<1>11. Stored' = [k \in DOMAIN Stored \cup new |-> IF k \in new THEN sessions ELSE Stored[k]]
  BY <1>8, <1>9, <1>10
<1>12. QED
  BY <1>1, <1>3, <1>11 DEF Store!Commit, Store!End, Store!OfSession

(***************************************************************************)
(* Every step of a writer is one of the store, or changes nothing in it.   *)
(***************************************************************************)
LEMMA NextStore ==
  ASSUME UniqueKeys
  PROVE  StoreInv /\ StoreInv' /\ [Next]_vars => [Store!StoreNext]_Store!storeVars
<1> SUFFICES ASSUME StoreInv, StoreInv', [Next]_vars
             PROVE  Store!StoreNext \/ UNCHANGED Store!storeVars
  OBVIOUS
<1> DEFINE K == {RunKey(r) : r \in Runs} \cup {EvtKey(r, e) : r \in Runs, e \in Evts}
<1>1. CASE OpenNew
  BY <1>1, OpenNewCreates DEF Store!StoreNext
<1>2. CASE (OpenAppend \/ OpenAppendOld) /\ ~OpenNew
  BY <1>2, OpenAppends DEF Store!StoreNext
<1>3. ASSUME NEW r \in Runs, WriteRunHeader(r) PROVE Store!StoreNext
  <2>1. /\ MayWrite(RunKey(r)) /\ map' = Add(map, RunKey(r), wpos)
        /\ UNCHANGED <<disk, mode, lastRa, sessions>>
    BY <1>3 DEF WriteRunHeader
  <2>2. Store!Put(RunKey(r))
    BY <1>3, <2>1, KeysOfRuns, RunHeaderItem, WritePuts DEF StoreInv
  <2>3. RunKey(r) \in K
    OBVIOUS
  <2>4. QED
    BY <2>2, <2>3 DEF Store!StoreNext
<1>4. ASSUME NEW r \in Runs, NEW e \in Evts, WriteEvent(r, e) PROVE Store!StoreNext
  <2>1. /\ MayWrite(EvtKey(r, e)) /\ map' = Add(map, EvtKey(r, e), wpos)
        /\ UNCHANGED <<disk, mode, lastRa, sessions>>
    BY <1>4 DEF WriteEvent
  <2>2. Store!Put(EvtKey(r, e))
    BY <1>4, <2>1, KeysOfEvents, EventItem, WritePuts DEF StoreInv
  <2>3. EvtKey(r, e) \in K
    OBVIOUS
  <2>4. QED
    BY <2>2, <2>3 DEF Store!StoreNext
<1>5. CASE Flush
  BY <1>5, FlushStutters
<1>6. CASE WriteRandomAccessRecords
  BY <1>6, CloseStutters
<1>7. CASE CloseStream
  BY <1>7, CloseCommits DEF Store!StoreNext
<1>8. CASE Crash
  BY <1>8, CrashDies DEF Store!StoreNext
<1>9. CASE UNCHANGED vars
  <2>1. Written' = Written
    BY <1>9 DEF vars, Written, HeaderItems
  <2>2. Direct' = Direct /\ Resumed' = Resumed
    BY <1>9 DEF vars, Direct, Resumed
  <2>3. StoredKeys' = StoredKeys
    BY <1>9, <2>1, <2>2 DEF vars, StoredKeys, OldKeys
  <2>4. Stored' = Stored
    BY <2>1, <2>3, StoredSame
  <2>5. QED
    BY <1>9, <2>1, <2>4 DEF vars, Store!storeVars
<1>10. QED
  BY <1>1, <1>2, <1>3, <1>4, <1>5, <1>6, <1>7, <1>8, <1>9 DEF Next

\* The file is a function of positions.
LEMMA SpecDiskMap == Spec => [](disk = [p \in DOMAIN disk |-> disk[p]])
<1> DEFINE Inv == disk = [p \in DOMAIN disk |-> disk[p]]
<1>1. Init => Inv
  BY DEF Init, NoRecords
<1>2. Inv /\ [Next]_vars => Inv'
  <2> SUFFICES ASSUME Inv, [Next]_vars PROVE Inv'
    OBVIOUS
  <2>1. \A cut : Drain(cut) => Inv'
    BY DEF Drain, Overlay
  <2>2. OpenNew => Inv'
    BY DEF OpenNew, NoRecords
  <2>3. Flush \/ CloseStream \/ Crash => Inv'
    BY <2>1 DEF Flush, CloseStream, Crash
  <2>4. disk' = disk => Inv'
    OBVIOUS
  <2> HIDE DEF Inv
  <2>5. QED
    BY <2>2, <2>3, <2>4 DEF Next, vars, OpenAppend, OpenAppendOld, WriteRunHeader, WriteEvent,
                            WriteRandomAccessRecords
<1>3. QED
  BY <1>1, <1>2, PTL DEF Spec

\* A key that no client writes twice has one item.
THEOREM SpecItemsInv == ASSUME UniqueKeys PROVE Spec => []ItemsInv
BY SpecIInv, SpecLinkInv, InitItems, NextItems, PTL DEF Spec

(***************************************************************************)
(* The file and its writers implement EventStore where every session is    *)
(* closed with a compactible map.                                          *)
(***************************************************************************)
THEOREM CompactibleImplementsStore ==
  ASSUME UniqueKeys
  PROVE  Spec /\ []ClosesCompactible => ImplementsStore
<1>1. Init /\ StoreInv => Store!StoreInit
  BY InitStore
<1>2. Spec /\ []ClosesCompactible => []StoreInv
  BY SpecIInv, SpecLinkInv, SpecSoundInv, SpecChainInv, SpecItemsInv, SpecSessionInv,
     SpecChainEnds, SpecDiskMap, PTL DEF StoreInv
<1>3. QED
  BY <1>1, <1>2, NextStore, PTL DEF Spec, ImplementsStore, Store!StoreSpec

(***************************************************************************)
(* So they do for clients that write no key twice and run headers with     *)
(* their events, while positions fit an int.                               *)
(***************************************************************************)
THEOREM SpecImplementsStore ==
  ASSUME UniqueKeys, WholeRuns
  PROVE  Spec /\ [](wpos <= IntMax) => ImplementsStore
<1>1. IInv /\ SoundInv /\ wpos <= IntMax => ClosesCompactible
  BY WholeRunsClose
<1>2. Spec /\ [](wpos <= IntMax) => []ClosesCompactible
  BY <1>1, SpecIInv, SpecBoundedSoundInv, PTL
<1>3. QED
  BY <1>2, CompactibleImplementsStore, PTL

-----------------------------------------------------------------------------
(***************************************************************************)
(* A file no writer has died on yet: its records follow each other without *)
(* gaps, its blocks name each other and nothing else, and the index of a   *)
(* block lists the headers between the previous block and it.  So the      *)
(* chain of a closed file is complete, direct access finds what reading    *)
(* from the start finds, and every event is the one its header announces.  *)
(***************************************************************************)

(***************************************************************************)
(* A file w up to n.  Its first record is at 0, and each begins where      *)
(* another ends.                                                           *)
(***************************************************************************)
EndsAt(w, p) == p = 0 \/ \E q \in DOMAIN w : q + Length(w[q]) = p

\* q is the last block before p, or 0.
LastBlock(w, q, p) ==
  /\ q = 0 \/ (q \in DOMAIN w /\ q < p /\ w[q].kind = "acc")
  /\ \A x \in DOMAIN w : x < p /\ w[x].kind = "acc" => x <= q

(***************************************************************************)
(* The record at p, in a file up to n, is where one is expected; a run     *)
(* header has the key of a run, behind an event header is its event, and a *)
(* block knows its place and the block before.                             *)
(***************************************************************************)
Followed(w, p, n) ==
  LET q == p + DataLen
  IN  q < n /\ q \in DOMAIN w /\ w[q].kind = "evt" /\ w[q].body = w[p].body
Placed(w, p) ==
  /\ w[p].body # None /\ w[p].body.first = p /\ w[p].body.index # 0
  /\ LastBlock(w, w[p].body.prev, p)
TidyAt(w, p, n) ==
  /\ w[p].ok /\ EndsAt(w, p)
  /\ w[p].kind = "run" => w[p].body.key.EvtNum < 0
  /\ w[p].kind = "hdr" => Followed(w, p, n)
  /\ w[p].kind = "acc" => Placed(w, p)
Tidy(w, n) == EndsAt(w, n) /\ \A p \in DOMAIN w : p < n => TidyAt(w, p, n)

(***************************************************************************)
(* A closed file of n bytes: the file record is its last record and names  *)
(* the last block.                                                         *)
(***************************************************************************)
Ended(w, e) ==
  /\ e \in Nat /\ IsKind(w, e, "acc") /\ w[e].body.index = 0
  /\ w[e].body.next # 0 /\ LastBlock(w, w[e].body.next, e)
  /\ Tidy(w, e) /\ \A p \in DOMAIN w : p <= e
FileTidy(w, n) == IF n = 0 THEN DOMAIN w = {} ELSE Ended(w, n - AccLen)

\* A writer that has written nothing.
Untouched ==
  /\ buf = NoRecords /\ wpos = synced /\ FileTidy(disk, size)
  /\ wpos = IF size = 0 THEN 0 ELSE size - AccLen

(***************************************************************************)
(* The inductive invariant behind ChainComplete and ReadsOwnPayload, as    *)
(* long as no writer died.                                                 *)
(***************************************************************************)
ClosedTidy == mode = "closed" => FileTidy(disk, size) /\ IsEmpty(map)
UnusedTidy == mode # "closed" /\ IsEmpty(map) => Untouched
OpenTidy == mode = "open" => /\ Tidy(Whole, wpos) /\ LastBlock(Whole, Tip, wpos)
                             /\ size <= wpos + AccLen
                             /\ ~IsEmpty(map) => wpos > 0
ClosingTidy == mode = "closing" /\ ~IsEmpty(map) =>
                 /\ wpos > 0 /\ FileTidy(Whole, wpos) /\ size <= wpos
TidyInv == ClosedTidy /\ UnusedTidy /\ OpenTidy /\ ClosingTidy

-----------------------------------------------------------------------------
(***************************************************************************)
(* Two files with the same records before n.                               *)
(***************************************************************************)
Agree(w, v, n) ==
  /\ DOMAIN w \subseteq Nat /\ DOMAIN v \subseteq Nat /\ n \in Nat
  /\ \A p \in Nat : p < n => /\ p \in DOMAIN w <=> p \in DOMAIN v
                             /\ p \in DOMAIN w => v[p] = w[p]

\* Where a record ends before n, it does in the other file.
LEMMA EndsAtKept ==
  ASSUME NEW w, NEW v, NEW n, Agree(w, v, n), NEW p \in Nat, p <= n, EndsAt(w, p)
  PROVE  EndsAt(v, p)
<1>1. CASE p = 0
  BY <1>1 DEF EndsAt
<1>2. ASSUME NEW q \in DOMAIN w, q + Length(w[q]) = p PROVE EndsAt(v, p)
  <2>1. q \in Nat /\ n \in Nat
    BY DEF Agree
  <2>2. q < n
    BY <1>2, <2>1, Lengths
  <2>3. q \in DOMAIN v /\ v[q] = w[q]
    BY <2>1, <2>2 DEF Agree
  <2>4. QED
    BY <1>2, <2>3 DEF EndsAt
<1>3. QED
  BY <1>1, <1>2 DEF EndsAt

\* The last block before a position up to n is that of the other file.
LEMMA LastBlockKept ==
  ASSUME NEW w, NEW v, NEW n, Agree(w, v, n), NEW p \in Nat, p <= n,
         NEW q \in Nat, LastBlock(w, q, p)
  PROVE  LastBlock(v, q, p)
<1>1. n \in Nat /\ \A x \in DOMAIN v : x \in Nat
  BY DEF Agree
<1>2. \A x \in Nat : x < p => /\ x \in DOMAIN w <=> x \in DOMAIN v
                              /\ x \in DOMAIN w => v[x] = w[x]
  BY <1>1 DEF Agree
<1>3. QED
  BY <1>1, <1>2 DEF LastBlock

\* A record before n is as tidy in the other file, to any end behind n.
LEMMA TidyAtKept ==
  ASSUME NEW w, NEW v, NEW n, Agree(w, v, n), AccTyped(w), NEW m \in Nat, n <= m,
         NEW p \in DOMAIN w, p < n, TidyAt(w, p, n)
  PROVE  p \in DOMAIN v /\ TidyAt(v, p, m)
<1>1. n \in Nat /\ p \in Nat /\ p \in DOMAIN v /\ v[p] = w[p]
  BY DEF Agree
<1>2. v[p].ok /\ (v[p].kind = "run" => v[p].body.key.EvtNum < 0)
  BY <1>1 DEF TidyAt
<1>3. EndsAt(v, p)
  BY <1>1, EndsAtKept DEF TidyAt
<1>4. v[p].kind = "hdr" => Followed(v, p, m)
  <2> SUFFICES ASSUME v[p].kind = "hdr" PROVE Followed(v, p, m)
    OBVIOUS
  <2>1. Followed(w, p, n)
    BY <1>1 DEF TidyAt
  <2> DEFINE q == p + DataLen
  <2>2. q \in Nat /\ q < n /\ q < m /\ q \in DOMAIN w
    BY <1>1, <2>1, Lengths DEF Followed
  <2>3. q \in DOMAIN v /\ v[q] = w[q]
    BY <2>2 DEF Agree
  <2>4. QED
    BY <1>1, <2>1, <2>2, <2>3 DEF Followed
<1>5. v[p].kind = "acc" => Placed(v, p)
  <2> SUFFICES ASSUME v[p].kind = "acc" PROVE Placed(v, p)
    OBVIOUS
  <2>1. Placed(w, p) /\ w[p].kind = "acc"
    BY <1>1 DEF TidyAt
  <2>2. w[p].body.prev \in Nat
    BY <2>1, AccessFields DEF AccTyped
  <2>3. LastBlock(v, w[p].body.prev, p)
    BY <1>1, <2>1, <2>2, LastBlockKept DEF Placed
  <2>4. QED
    BY <1>1, <2>1, <2>3 DEF Placed
<1>6. QED
  BY <1>1, <1>2, <1>3, <1>4, <1>5 DEF TidyAt

(***************************************************************************)
(* A file stays tidy when tidy records are put behind it.                  *)
(***************************************************************************)
LEMMA TidyGrows ==
  ASSUME NEW w, NEW v, NEW n, Agree(w, v, n), AccTyped(w), Tidy(w, n),
         NEW m \in Nat, n <= m, EndsAt(v, m),
         \A p \in DOMAIN v : n <= p /\ p < m => TidyAt(v, p, m)
  PROVE  Tidy(v, m)
<1> SUFFICES ASSUME NEW p \in DOMAIN v, p < m, p < n PROVE TidyAt(v, p, m)
  <2>1. n \in Nat /\ \A p \in DOMAIN v : p \in Nat
    BY DEF Agree
  <2>2. QED
    BY <2>1 DEF Tidy
<1>1. p \in DOMAIN w
  BY DEF Agree
<1>2. TidyAt(w, p, n)
  BY <1>1 DEF Tidy
<1>3. QED
  BY <1>1, <1>2, TidyAtKept

\* So it does when nothing is.
LEMMA TidyKept ==
  ASSUME NEW w, NEW v, NEW n, Agree(w, v, n), AccTyped(w), Tidy(w, n)
  PROVE  Tidy(v, n)
<1>1. n \in Nat /\ EndsAt(v, n) /\ \A p \in DOMAIN v : p \in Nat
  BY EndsAtKept DEF Agree, Tidy
<1>2. QED
  BY <1>1, TidyGrows

\* A closed file is tidy whatever it is called.
LEMMA FileTidySame ==
  ASSUME NEW w, NEW v, Same(w, v), AccTyped(w), NEW n \in Nat, FileTidy(w, n)
  PROVE  FileTidy(v, n)
<1>1. CASE n = 0
  BY <1>1 DEF FileTidy, Same
<1>2. CASE n # 0
  <2> DEFINE e == n - AccLen
  <2>1. Ended(w, e)
    BY <1>2 DEF FileTidy
  <2> HIDE DEF e
  <2>2. Agree(w, v, e)
    BY <2>1 DEF Ended, Same, Agree, AccTyped
  <2>3. e \in Nat /\ Tidy(v, e)
    BY <2>1, <2>2, TidyKept DEF Ended
  <2>4. IsKind(v, e, "acc") /\ v[e] = w[e] /\ w[e].body.next \in Nat
    BY <2>1, AccessFields DEF Ended, Same, AccTyped, IsKind, Readable
  <2>5. LastBlock(v, v[e].body.next, e)
    BY <2>1, <2>2, <2>3, <2>4, LastBlockKept DEF Ended
  <2>6. \A p \in DOMAIN v : p <= e
    BY <2>1 DEF Ended, Same
  <2>7. Ended(v, e)
    BY <2>1, <2>3, <2>4, <2>5, <2>6 DEF Ended
  <2>8. QED
    BY <1>2, <2>7 DEF FileTidy, e
<1>3. QED
  BY <1>1, <1>2

\* The last block stays the last one when only other records follow.
LEMMA LastBlockGrows ==
  ASSUME NEW w, NEW v, NEW n, Agree(w, v, n), NEW q \in Nat, LastBlock(w, q, n),
         NEW m \in Nat, n <= m,
         \A p \in DOMAIN v : n <= p /\ p < m => v[p].kind # "acc"
  PROVE  LastBlock(v, q, m)
<1>1. n \in Nat /\ \A x \in DOMAIN v : x \in Nat
  BY DEF Agree
<1>2. LastBlock(v, q, n)
  BY <1>1, LastBlockKept
<1>3. QED
  BY <1>1, <1>2 DEF LastBlock

\* Where nothing is in the buffer, the file is what it will be.
LEMMA NothingToCome ==
  ASSUME NEW d, DOMAIN d \subseteq Nat, NEW at \in Nat
  PROVE  LET w == Overlay(d, NoRecords, at, at)
         IN  Same(d, w) /\ \A n \in Nat : Agree(d, w, n)
<1> DEFINE w == Overlay(d, NoRecords, at, at)
<1>1. Same(d, w)
  BY WholeWithoutOutput
<1> HIDE DEF w
<1>2. \A n \in Nat : Agree(d, w, n)
  BY <1>1 DEF Same, Agree
<1>3. QED
  BY <1>1, <1>2 DEF w

(***************************************************************************)
(* Output leaves what lies before it alone.                                *)
(***************************************************************************)
LEMMA GrowthAgrees ==
  ASSUME IInv, IInv', OneInTheWay, mode # "closed", UNCHANGED <<disk, synced>>,
         NEW fresh, DOMAIN buf' = DOMAIN buf \cup fresh,
         \A p \in DOMAIN buf : buf'[p] = buf[p],
         \A p \in fresh : wpos <= p, wpos < wpos'
  PROVE  /\ Agree(Whole, Whole', wpos)
         /\ \A p \in fresh : p \in DOMAIN Whole' /\ Whole'[p] = buf'[p]
         /\ \A p \in DOMAIN Whole' : p \in fresh \/ p < wpos
<1>1. /\ \A p \in fresh : p \in DOMAIN Whole' /\ Whole'[p] = buf'[p]
      /\ \A p \in DOMAIN Whole : p < wpos => p \in DOMAIN Whole' /\ Whole'[p] = Whole[p]
      /\ \A p \in DOMAIN Whole' : p \in fresh \/ (p < wpos /\ Carried(Whole, Whole', p))
  BY GrowthCarries
<1>2. wpos \in Nat /\ DOMAIN Whole \subseteq Nat /\ fresh \subseteq Nat
  BY DiskTyped DEF AccTyped, IInv, WriterInv, Output
<1>3. \A p \in fresh : ~(p < wpos)
  BY <1>2
<1>4. \A p \in DOMAIN Whole' : p < wpos => p \in DOMAIN Whole
  BY <1>1, <1>3 DEF Carried
<1>5. DOMAIN Whole' \subseteq Nat
  BY <1>1, <1>2 DEF Carried
<1>6. Agree(Whole, Whole', wpos)
  BY <1>1, <1>2, <1>4, <1>5 DEF Agree
<1>7. QED
  BY <1>1, <1>6

\* What a put leaves to be shown of the records it writes.
LEMMA PutKeepsTidy ==
  ASSUME IInv, IInv', LinkInv, TidyInv, mode = "open", mode' = "open",
         UNCHANGED <<disk, size, synced, lastRa>>,
         NEW fresh, DOMAIN buf' = DOMAIN buf \cup fresh,
         \A p \in DOMAIN buf : buf'[p] = buf[p],
         \A p \in fresh : wpos <= p /\ buf'[p].kind # "acc", wpos < wpos',
         ~IsEmpty(map'),
         EndsAt(Whole', wpos'), \A p \in fresh : TidyAt(Whole', p, wpos')
  PROVE  TidyInv'
<1>1. OneInTheWay
  BY DEF LinkInv
<1>2. /\ Agree(Whole, Whole', wpos)
      /\ \A p \in fresh : p \in DOMAIN Whole' /\ Whole'[p] = buf'[p]
      /\ \A p \in DOMAIN Whole' : p \in fresh \/ p < wpos
  BY <1>1, GrowthAgrees
<1>3. /\ wpos \in Nat /\ wpos' \in Nat /\ wpos <= wpos' /\ size \in Nat
      /\ \A p \in DOMAIN Whole' : p \in Nat
  BY <1>2 DEF IInv, DiskInv, WriterInv, Agree
<1>4. AccTyped(Whole) /\ Tip \in Nat /\ Tip' = Tip
  BY DiskTyped, TipIsPosition DEF Tip
<1>5. Tidy(Whole, wpos) /\ LastBlock(Whole, Tip, wpos) /\ size <= wpos + AccLen
  BY DEF TidyInv, OpenTidy
<1>6. \A p \in DOMAIN Whole' : wpos <= p => p \in fresh
  BY <1>2, <1>3
<1>7. Tidy(Whole', wpos')
  BY <1>2, <1>3, <1>4, <1>5, <1>6, TidyGrows
<1>8. LastBlock(Whole', Tip', wpos')
  BY <1>2, <1>3, <1>4, <1>5, <1>6, LastBlockGrows
<1>9. size' <= wpos' + AccLen /\ wpos' > 0
  BY <1>3, <1>5, Lengths
<1>10. QED
  BY <1>7, <1>8, <1>9 DEF TidyInv, ClosedTidy, UnusedTidy, OpenTidy, ClosingTidy

\* A map something was added to is not empty.
LEMMA AddedTo ==
  ASSUME NEW m, NEW k, NEW p PROVE ~IsEmpty(Add(m, k, p))
BY DEF Add, IsEmpty, Keys

\* A run header is tidy wherever it is put.
LEMMA WriteRunHeaderKeepsTidy ==
  ASSUME IInv, IInv', LinkInv, TidyInv, NEW r \in Runs, WriteRunHeader(r) PROVE TidyInv'
<1> DEFINE rec == Record("run", Item(RunKey(r)))
<1>1. /\ mode = "open" /\ mode' = "open"
      /\ buf' = [p \in DOMAIN buf \cup {wpos} |-> IF p = wpos THEN rec ELSE buf[p]]
      /\ wpos' = wpos + DataLen
      /\ map' = Add(map, RunKey(r), wpos)
      /\ UNCHANGED <<disk, size, synced, lastRa>>
  BY DEF WriteRunHeader, MayWrite
<1>2. rec.kind = "run" /\ rec.ok /\ rec.body.key.EvtNum < 0
  BY DEF Record, Item, RunKey
<1> HIDE DEF rec
<1>3. wpos \in Nat /\ wpos < wpos' /\ \A p \in DOMAIN buf : p # wpos
  BY <1>1, Lengths DEF IInv, WriterInv, Output
<1>4. /\ DOMAIN buf' = DOMAIN buf \cup {wpos}
      /\ \A p \in DOMAIN buf : buf'[p] = buf[p]
      /\ buf'[wpos] = rec
      /\ \A p \in {wpos} : wpos <= p
  BY <1>1, <1>3
<1>5. /\ Agree(Whole, Whole', wpos)
      /\ wpos \in DOMAIN Whole' /\ Whole'[wpos] = rec
  BY <1>1, <1>3, <1>4, GrowthAgrees DEF LinkInv
<1>6. EndsAt(Whole', wpos)
  BY <1>1, <1>3, <1>5, EndsAtKept DEF TidyInv, OpenTidy, Tidy
<1>7. TidyAt(Whole', wpos, wpos')
  BY <1>2, <1>5, <1>6 DEF TidyAt
<1>8. EndsAt(Whole', wpos')
  BY <1>1, <1>2, <1>5, Lengths DEF EndsAt
<1>9. ~IsEmpty(map')
  BY <1>1, AddedTo
<1>10. QED
  BY <1>1, <1>2, <1>3, <1>4, <1>7, <1>8, <1>9, PutKeepsTidy

\* An event record follows its header.
LEMMA WriteEventKeepsTidy ==
  ASSUME IInv, IInv', LinkInv, TidyInv, NEW r \in Runs, NEW e \in Evts, WriteEvent(r, e)
  PROVE  TidyInv'
<1> DEFINE epos == wpos + DataLen
           hdr == Record("hdr", Item(EvtKey(r, e)))
           evt == Record("evt", Item(EvtKey(r, e)))
<1>1. /\ mode = "open" /\ mode' = "open"
      /\ buf' = [p \in DOMAIN buf \cup {wpos, epos} |->
                   IF p = wpos THEN hdr ELSE IF p = epos THEN evt ELSE buf[p]]
      /\ wpos' = epos + DataLen
      /\ map' = Add(map, EvtKey(r, e), wpos)
      /\ UNCHANGED <<disk, size, synced, lastRa>>
  BY DEF WriteEvent, MayWrite
<1>2. /\ hdr.kind = "hdr" /\ hdr.ok /\ evt.kind = "evt" /\ evt.ok /\ evt.body = hdr.body
  BY DEF Record
<1> HIDE DEF hdr, evt
<1>3. /\ wpos \in Nat /\ epos \in Nat /\ wpos < wpos' /\ wpos < epos /\ epos < wpos'
      /\ \A p \in DOMAIN buf : p # wpos /\ p # epos
  BY <1>1, Lengths DEF IInv, WriterInv, Output
<1>4. epos = wpos + DataLen
  OBVIOUS
<1> HIDE DEF epos
<1>5. /\ DOMAIN buf' = DOMAIN buf \cup {wpos, epos}
      /\ \A p \in DOMAIN buf : buf'[p] = buf[p]
      /\ buf'[wpos] = hdr /\ buf'[epos] = evt
      /\ \A p \in {wpos, epos} : wpos <= p
  BY <1>1, <1>3
<1>6. /\ Agree(Whole, Whole', wpos)
      /\ \A p \in {wpos, epos} : p \in DOMAIN Whole' /\ Whole'[p] = buf'[p]
  BY <1>1, <1>3, <1>5, GrowthAgrees DEF LinkInv
<1>7. EndsAt(Whole', wpos)
  BY <1>1, <1>3, <1>6, EndsAtKept DEF TidyInv, OpenTidy, Tidy
<1>8. EndsAt(Whole', epos) /\ EndsAt(Whole', wpos')
  BY <1>1, <1>2, <1>4, <1>5, <1>6, Lengths DEF EndsAt
<1>9. TidyAt(Whole', wpos, wpos')
  BY <1>2, <1>3, <1>4, <1>5, <1>6, <1>7 DEF TidyAt, Followed
<1>10. TidyAt(Whole', epos, wpos')
  BY <1>2, <1>5, <1>6, <1>8 DEF TidyAt
<1>11. ~IsEmpty(map')
  BY <1>1, AddedTo
<1>12. \A p \in {wpos, epos} : wpos <= p /\ buf'[p].kind # "acc" /\ TidyAt(Whole', p, wpos')
  BY <1>2, <1>5, <1>9, <1>10
<1> DEFINE fresh == {wpos, epos}
<1>13. /\ DOMAIN buf' = DOMAIN buf \cup fresh
       /\ \A p \in fresh : wpos <= p /\ buf'[p].kind # "acc"
       /\ \A p \in fresh : TidyAt(Whole', p, wpos')
  BY <1>5, <1>12
<1> HIDE DEF fresh
<1>14. QED
  BY <1>1, <1>3, <1>5, <1>8, <1>11, <1>13, PutKeepsTidy

\* close() puts a block that names the last one, and a file record that names it.
LEMMA WriteRandomAccessRecordsKeepsTidy ==
  ASSUME IInv, IInv', LinkInv, TidyInv, WriteRandomAccessRecords PROVE TidyInv'
<1> DEFINE apos == wpos + DataLen
           fpos == apos + AccLen
           idx == Record("idx", Encode(map))
           ra == NewAccess(wpos, apos)
           file == FileRecord(ra, apos)
           fresh == {wpos, apos, fpos}
<1>1. /\ mode = "open" /\ mode' = "closing"
      /\ IF IsEmpty(map) THEN UNCHANGED <<buf, wpos>>
         ELSE /\ buf' = [p \in DOMAIN buf \cup fresh |->
                         IF p = wpos THEN idx ELSE IF p = apos THEN Record("acc", ra)
                         ELSE IF p = fpos THEN Record("acc", file) ELSE buf[p]]
              /\ wpos' = fpos + AccLen
      /\ UNCHANGED <<disk, size, synced, map, lastRa, fileRec, sessions, puts, crashes>>
  BY DEF WriteRandomAccessRecords
<1>2. /\ wpos \in Nat /\ apos \in Nat /\ fpos \in Nat
      /\ wpos < apos /\ apos < fpos /\ wpos < fpos + AccLen
      /\ synced \in Nat /\ synced <= wpos /\ size \in Nat
  BY Lengths DEF IInv, DiskInv, WriterInv
<1>3. CASE IsEmpty(map)
  <2>1. Untouched
    BY <1>1, <1>3 DEF TidyInv, UnusedTidy
  <2>2. Untouched'
    BY <1>1, <1>3, <2>1 DEF Untouched
  <2>3. QED
    BY <1>1, <1>3, <2>2 DEF TidyInv, ClosedTidy, UnusedTidy, OpenTidy, ClosingTidy
<1>4. CASE ~IsEmpty(map)
  <2>1. /\ idx.kind = "idx" /\ idx.ok
        /\ \A body : /\ Record("acc", body).kind = "acc" /\ Record("acc", body).ok
                     /\ Record("acc", body).body = body
    BY DEF Record
  <2>2. ra # None /\ ra.first = apos /\ ra.index = wpos /\ ra.prev = Tip
    BY <1>2, NewAccessFields
  <2>3. file.next = apos /\ file.index = 0
    BY <1>2, FileRecordNext
  <2> HIDE DEF idx, ra, file
  <2>4. \A p \in DOMAIN buf : p \notin fresh
    BY <1>2, Lengths DEF IInv, WriterInv, Output
  <2>5. /\ DOMAIN buf' = DOMAIN buf \cup fresh
        /\ \A p \in DOMAIN buf : buf'[p] = buf[p]
        /\ \A p \in fresh : wpos <= p
        /\ wpos < wpos' /\ wpos' = fpos + AccLen
    BY <1>1, <1>2, <1>4, <2>4
  <2>6. buf'[wpos] = idx /\ buf'[apos] = Record("acc", ra) /\ buf'[fpos] = Record("acc", file)
    BY <1>1, <1>2, <1>4
  <2>7. apos = wpos + DataLen /\ fpos = apos + AccLen
    OBVIOUS
  <2> HIDE DEF apos, fpos
  <2>8. /\ Agree(Whole, Whole', wpos)
        /\ \A p \in fresh : p \in DOMAIN Whole' /\ Whole'[p] = buf'[p]
        /\ \A p \in DOMAIN Whole' : p \in fresh \/ p < wpos
    <3> HIDE DEF fresh
    <3>1. QED
      BY <1>1, <2>5, GrowthAgrees DEF LinkInv
  <2>9. /\ AccTyped(Whole) /\ Tip \in Nat /\ \A p \in DOMAIN Whole' : p \in Nat
        /\ Tidy(Whole, wpos) /\ LastBlock(Whole, Tip, wpos)
        /\ size <= wpos + AccLen /\ wpos > 0
    BY <1>1, <1>4, <2>8, DiskTyped, TipIsPosition DEF TidyInv, OpenTidy, Agree
  <2>10. \A p \in DOMAIN Whole' : wpos <= p => p \in fresh
    BY <1>2, <2>8, <2>9
  <2>11. /\ Whole'[wpos] = idx /\ Whole'[apos] = Record("acc", ra)
         /\ Whole'[fpos] = Record("acc", file)
         /\ wpos \in DOMAIN Whole' /\ apos \in DOMAIN Whole' /\ fpos \in DOMAIN Whole'
    BY <2>6, <2>8
  <2>12. EndsAt(Whole', wpos)
    BY <1>2, <2>8, <2>9, EndsAtKept DEF Tidy
  <2>13. EndsAt(Whole', apos) /\ EndsAt(Whole', fpos)
    BY <2>1, <2>7, <2>11, Lengths DEF EndsAt
  <2>14. LastBlock(Whole', Tip, apos)
    <3>1. \A p \in DOMAIN Whole' : wpos <= p /\ p < apos => Whole'[p].kind # "acc"
      BY <1>2, <2>1, <2>10, <2>11
    <3>2. QED
      BY <1>2, <2>8, <2>9, <3>1, LastBlockGrows
  <2>15. TidyAt(Whole', wpos, fpos) /\ TidyAt(Whole', apos, fpos)
    <3>1. TidyAt(Whole', wpos, fpos)
      BY <2>1, <2>11, <2>12 DEF TidyAt
    <3>2. Placed(Whole', apos)
      BY <2>1, <2>2, <2>9, <2>11, <2>14 DEF Placed
    <3>3. TidyAt(Whole', apos, fpos)
      BY <2>1, <2>11, <2>13, <3>2 DEF TidyAt
    <3>4. QED
      BY <3>1, <3>3
  <2>16. Tidy(Whole', fpos)
    <3>1. \A p \in DOMAIN Whole' : wpos <= p /\ p < fpos => TidyAt(Whole', p, fpos)
      BY <1>2, <2>10, <2>15
    <3>2. wpos <= fpos
      BY <1>2
    <3>3. QED
      BY <1>2, <2>8, <2>9, <2>13, <3>1, <3>2, TidyGrows
  <2>17. LastBlock(Whole', apos, fpos)
    <3>1. \A p \in DOMAIN Whole' : p < fpos => p <= apos
      BY <1>2, <2>8, <2>9
    <3>2. QED
      BY <1>2, <2>1, <2>11, <3>1 DEF LastBlock
  <2>18. \A p \in DOMAIN Whole' : p <= fpos
    BY <1>2, <2>8, <2>9
  <2>19. Ended(Whole', fpos)
    BY <1>2, <2>1, <2>3, <2>11, <2>16, <2>17, <2>18 DEF Ended, IsKind, Readable
  <2>20. wpos' # 0 /\ wpos' - AccLen = fpos /\ size <= wpos' /\ wpos' > 0
    BY <1>2, <2>5, <2>7, <2>9, Lengths
  <2>21. FileTidy(Whole', wpos')
    BY <2>19, <2>20 DEF FileTidy
  <2>22. QED
    BY <1>1, <1>4, <2>20, <2>21 DEF TidyInv, ClosedTidy, UnusedTidy, OpenTidy, ClosingTidy
<1>5. QED
  BY <1>3, <1>4

(***************************************************************************)
(* Opening: a new file is empty, and a tidy one is continued on its file   *)
(* record, behind the last block.                                          *)
(***************************************************************************)
LEMMA OpenNewKeepsTidy == ASSUME IInv, IInv', LinkInv, TidyInv, OpenNew PROVE TidyInv'
<1>1. /\ StartSession(0) /\ disk' = NoRecords /\ size' = 0 /\ UNCHANGED <<map, lastRa>>
      /\ DOMAIN disk' = {}
  BY DEF OpenNew, writer, NoRecords
<1>2. /\ mode = "closed" /\ mode' = "open" /\ synced' = 0 /\ wpos' = 0 /\ buf' = NoRecords
      /\ lastRa' = None /\ IsEmpty(map')
  BY <1>1 DEF StartSession, IInv, WriterInv, LinkInv, TidyInv, ClosedTidy
<1>3. Same(disk', Whole')
  BY <1>1, <1>2, WholeWithoutOutput DEF Whole
<1>4. Tidy(Whole', wpos') /\ LastBlock(Whole', Tip', wpos')
  BY <1>1, <1>2, <1>3 DEF Same, Tidy, EndsAt, LastBlock, Tip
<1>5. Untouched'
  BY <1>1, <1>2 DEF Untouched, FileTidy
<1>6. size' <= wpos' + AccLen
  BY <1>1, <1>2, Lengths
<1>7. QED
  BY <1>2, <1>4, <1>5, <1>6 DEF TidyInv, ClosedTidy, UnusedTidy, OpenTidy, ClosingTidy

\* A tidy file ends with a file record.
LEMMA TidyEnd ==
  ASSUME IInv, FileTidy(disk, size), size # 0
  PROVE  Ended(disk, size - AccLen) /\ size >= AccLen
BY Lengths DEF FileTidy, Ended, IInv, DiskInv

\* A tidy file is never taken for an old one.
LEMMA OpenAppendOldKeepsTidy ==
  ASSUME IInv, TidyInv, OpenAppendOld PROVE FALSE
<1>1. size >= AccLen /\ size # 0 /\ ~Readable(disk, size - AccLen) /\ mode = "closed"
  BY Lengths DEF OpenAppendOld, StartSession, IInv, DiskInv
<1>2. Ended(disk, size - AccLen)
  BY <1>1, TidyEnd DEF TidyInv, ClosedTidy
<1>3. QED
  BY <1>1, <1>2 DEF Ended, IsKind

\* A closed file is continued where its file record was.
LEMMA OpenAppendKeepsTidy == ASSUME IInv, IInv', LinkInv, TidyInv, OpenAppend PROVE TidyInv'
<1> DEFINE end == size - AccLen
           first == disk[end].body.next
<1>1. /\ StartSession(end) /\ size >= AccLen
      /\ lastRa' = IF IsKind(disk, first, "acc") THEN disk[first].body ELSE None
      /\ UNCHANGED <<disk, size, map>>
  BY DEF OpenAppend
<1>2. /\ mode = "closed" /\ mode' = "open" /\ synced' = end /\ wpos' = end /\ buf' = NoRecords
      /\ FileTidy(disk, size) /\ IsEmpty(map') /\ size # 0
  BY <1>1, Lengths DEF StartSession, IInv, DiskInv, WriterInv, TidyInv, ClosedTidy
<1>3. Ended(disk, end)
  BY <1>2, TidyEnd
<1>4. end \in Nat /\ DOMAIN disk \subseteq Nat /\ AccTyped(disk)
  BY <1>3, DiskTyped DEF Ended, IInv, DiskInv
<1>5. /\ first \in DOMAIN disk /\ first < end /\ disk[first].kind = "acc" /\ first \in Nat
  BY <1>3, <1>4 DEF Ended, LastBlock
<1>6. disk[first].ok /\ Placed(disk, first)
  BY <1>3, <1>5 DEF Ended, Tidy, TidyAt
<1>7. Tip' = first
  BY <1>1, <1>5, <1>6 DEF Tip, Placed, IsKind, Readable
<1>8. LastBlock(disk, first, end) /\ Tidy(disk, end)
  BY <1>3 DEF Ended
<1> HIDE DEF first
<1>9. Agree(disk, Whole', end)
  <2> HIDE DEF end
  <2>1. Whole' = Overlay(disk, NoRecords, end, end)
    BY <1>1, <1>2 DEF Whole
  <2>2. QED
    BY <1>4, <2>1, NothingToCome
<1>10. Tidy(Whole', end) /\ LastBlock(Whole', first, end)
  <2> HIDE DEF end
  <2>1. end <= end
    BY <1>4
  <2>2. QED
    BY <1>4, <1>5, <1>8, <1>9, <2>1, TidyKept, LastBlockKept
<1>11. Untouched'
  BY <1>1, <1>2 DEF Untouched
<1>12. size' <= wpos' + AccLen
  BY <1>1, <1>2, <1>4, Lengths DEF IInv, DiskInv
<1> HIDE DEF end
<1>13. QED
  BY <1>2, <1>7, <1>10, <1>11, <1>12 DEF TidyInv, ClosedTidy, UnusedTidy, OpenTidy, ClosingTidy

(***************************************************************************)
(* Output that reaches the file.                                           *)
(***************************************************************************)
LEMMA FlushKeepsTidy == ASSUME IInv, IInv', LinkInv, TidyInv, Flush PROVE TidyInv'
<1>1. /\ mode = "open" /\ buf # NoRecords /\ disk' = Whole /\ size' = Larger(size, wpos)
      /\ buf' = NoRecords /\ synced' = wpos
      /\ UNCHANGED <<mode, wpos, map, lastRa>>
  BY DEF Flush, Drain, Whole
<1>2. ~IsEmpty(map)
  BY <1>1 DEF TidyInv, UnusedTidy, Untouched
<1>3. /\ wpos \in Nat /\ size \in Nat /\ AccTyped(Whole) /\ Tip \in Nat /\ Tip' = Tip
      /\ Tidy(Whole, wpos) /\ LastBlock(Whole, Tip, wpos) /\ size <= wpos + AccLen /\ wpos > 0
  BY <1>1, <1>2, DiskTyped, TipIsPosition DEF TidyInv, OpenTidy, IInv, DiskInv, WriterInv, Tip
<1>4. Agree(Whole, Whole', wpos)
  <2>1. Whole' = Overlay(Whole, NoRecords, wpos, wpos)
    <3>1. Whole' = Overlay(disk', buf', synced', wpos')
      BY DEF Whole
    <3>2. QED
      BY <1>1, <3>1
  <2>2. DOMAIN Whole \subseteq Nat
    BY <1>3 DEF AccTyped
  <2>3. QED
    BY <1>3, <2>1, <2>2, NothingToCome
<1>5. wpos <= wpos
  BY <1>3
<1>6. Tidy(Whole', wpos) /\ LastBlock(Whole', Tip, wpos)
  BY <1>3, <1>4, <1>5, TidyKept, LastBlockKept
<1>7. size' <= wpos + AccLen
  BY <1>1, <1>3, Lengths DEF Larger
<1>8. QED
  BY <1>1, <1>2, <1>3, <1>6, <1>7 DEF TidyInv, ClosedTidy, UnusedTidy, OpenTidy, ClosingTidy

\* What close() leaves is a closed file.
LEMMA CloseStreamKeepsTidy == ASSUME IInv, LinkInv, TidyInv, CloseStream PROVE TidyInv'
<1>1. /\ mode = "closing" /\ disk' = Whole /\ size' = Larger(size, wpos)
      /\ mode' = "closed" /\ map' = EmptyMap
  BY DEF CloseStream, Drain, Whole, EndSession
<1>2. /\ wpos \in Nat /\ size \in Nat /\ AccTyped(disk) /\ DOMAIN disk \subseteq Nat
  BY DiskTyped DEF IInv, DiskInv, WriterInv
<1>3. FileTidy(disk', size')
  <2>1. CASE IsEmpty(map)
    <3>1. Untouched
      BY <1>1, <2>1 DEF TidyInv, UnusedTidy
    <3>2. size' = size
      BY <1>1, <1>2, <3>1, Lengths DEF Untouched, Larger
    <3>3. Whole = Overlay(disk, NoRecords, wpos, wpos)
      BY <3>1 DEF Untouched, Whole
    <3>4. Same(disk, Whole)
      BY <1>2, <3>3, NothingToCome
    <3>5. QED
      BY <1>1, <1>2, <3>1, <3>2, <3>4, FileTidySame DEF Untouched
  <2>2. CASE ~IsEmpty(map)
    <3>1. FileTidy(Whole, wpos) /\ size <= wpos
      BY <1>1, <2>2 DEF TidyInv, ClosingTidy
    <3>2. size' = wpos
      BY <1>1, <1>2, <3>1 DEF Larger
    <3>3. QED
      BY <1>1, <3>1, <3>2
  <2>3. QED
    BY <2>1, <2>2
<1>4. IsEmpty(map')
  BY <1>1, EmptyCounted DEF IsEmpty
<1>5. QED
  BY <1>1, <1>3, <1>4 DEF TidyInv, ClosedTidy, UnusedTidy, OpenTidy, ClosingTidy

(***************************************************************************)
(* Every step but a crash keeps the file tidy.                             *)
(***************************************************************************)
LEMMA InitTidy == Init => TidyInv
<1>1. Init => DOMAIN disk = {} /\ size = 0 /\ mode = "closed" /\ IsEmpty(map)
  BY EmptyCounted DEF Init, NoRecords, IsEmpty
<1>2. QED
  BY <1>1 DEF TidyInv, ClosedTidy, UnusedTidy, OpenTidy, ClosingTidy, FileTidy

TidyUnlessCrashed == crashes = 0 => TidyInv

\* A step that does not kill the writer keeps TidyInv.
LEMMA NextTidy ==
  IInv /\ IInv' /\ LinkInv /\ TidyUnlessCrashed /\ [Next]_vars => TidyUnlessCrashed'
<1> SUFFICES ASSUME IInv, IInv', LinkInv, TidyUnlessCrashed, [Next]_vars, crashes' = 0
             PROVE  TidyInv'
  BY DEF TidyUnlessCrashed
<1>1. CASE Crash
  BY <1>1 DEF Crash, IInv, CountInv
<1>2. CASE ~Crash
  <2>1. crashes = 0
    BY <1>2 DEF Next, OpenNew, OpenAppend, OpenAppendOld, StartSession, WriteRunHeader, WriteEvent,
                Flush, WriteRandomAccessRecords, CloseStream, vars
  <2>2. TidyInv
    BY <2>1 DEF TidyUnlessCrashed
  <2>3. CASE OpenNew
    BY <2>2, <2>3, OpenNewKeepsTidy
  <2>4. CASE OpenAppend
    BY <2>2, <2>4, OpenAppendKeepsTidy
  <2>5. CASE OpenAppendOld
    BY <2>2, <2>5, OpenAppendOldKeepsTidy
  <2>6. ASSUME NEW r \in Runs, WriteRunHeader(r) PROVE TidyInv'
    BY <2>2, <2>6, WriteRunHeaderKeepsTidy
  <2>7. ASSUME NEW r \in Runs, NEW e \in Evts, WriteEvent(r, e) PROVE TidyInv'
    BY <2>2, <2>7, WriteEventKeepsTidy
  <2>8. CASE Flush
    BY <2>2, <2>8, FlushKeepsTidy
  <2>9. CASE WriteRandomAccessRecords
    BY <2>2, <2>9, WriteRandomAccessRecordsKeepsTidy
  <2>10. CASE CloseStream
    BY <2>2, <2>10, CloseStreamKeepsTidy
  <2>11. CASE UNCHANGED vars
    <3>1. Whole' = Whole /\ Tip' = Tip /\ UNCHANGED vars
      BY <2>11 DEF Whole, Tip, vars
    <3>2. UNCHANGED <<disk, size, mode, map, wpos, buf, synced>>
      BY <2>11 DEF vars
    <3>3. Untouched' = Untouched
      BY <3>2 DEF Untouched
    <3>4. QED
      BY <2>2, <3>1, <3>2, <3>3 DEF TidyInv, ClosedTidy, UnusedTidy, OpenTidy, ClosingTidy
  <2>12. QED
    BY <1>2, <2>3, <2>4, <2>5, <2>6, <2>7, <2>8, <2>9, <2>10, <2>11 DEF Next
<1>3. QED
  BY <1>1, <1>2

(***************************************************************************)
(* While no writer has died the records of the file follow each other      *)
(* without gaps, each block names the one before it, and a closed file     *)
(* ends with a file record that names the last: whatever the clients write *)
(* and however often they flush, append and start anew.                    *)
(***************************************************************************)
THEOREM SpecTidyInv == Spec => []TidyUnlessCrashed
<1>1. Init => TidyUnlessCrashed
  BY InitTidy DEF TidyUnlessCrashed
<1>2. QED
  BY <1>1, SpecIInv, SpecLinkInv, NextTidy, PTL DEF Spec

-----------------------------------------------------------------------------
(***************************************************************************)
(* The chain from a block goes through every block up to it.               *)
(***************************************************************************)
LEMMA ChainIsAll ==
  ASSUME NEW d, AccTyped(d), Linked(d), NEW n \in Nat, Tidy(d, n),
         NEW tip \in Nat, LastBlock(d, tip, n)
  PROVE  Chain(d, tip) = {p \in DOMAIN d : p < n /\ IsKind(d, p, "acc")}
<1> DEFINE B == {p \in DOMAIN d : p < n /\ IsKind(d, p, "acc")}
<1>1. PICK f : ChainWalk(f, d) /\ \A p \in Nat : Chain(d, p) = f[p]
  BY ChainPath
<1>2. \A p \in DOMAIN d : p < n /\ d[p].kind = "acc" => p \in B
  BY DEF Tidy, TidyAt, IsKind, Readable
<1>3. ASSUME NEW p \in B
      PROVE  /\ p \in Nat /\ p > 0 /\ p < n /\ d[p].body.prev \in Nat /\ d[p].body.prev < p
             /\ f[p] = {p} \cup f[d[p].body.prev]
             /\ LastBlock(d, d[p].body.prev, p)
  <2>1. p \in DOMAIN d /\ p < n /\ IsKind(d, p, "acc") /\ p \in Nat /\ d[p].kind = "acc"
    BY DEF IsKind, AccTyped
  <2>2. p > 0 /\ d[p].body.prev \in Nat /\ d[p].body.prev < p
    BY <2>1, AccessFields DEF AccTyped, Linked, Links
  <2>3. f[p] = {p} \cup f[d[p].body.prev]
    <3>1. f[p] = IF p = 0 THEN {} ELSE IF ~IsKind(d, p, "acc") THEN {p}
                 ELSE {p} \cup f[d[p].body.prev]
      BY <1>1, <2>1 DEF ChainWalk
    <3>2. p # 0
      BY <2>2
    <3> HIDE DEF B
    <3>3. QED
      BY <2>1, <3>1, <3>2
  <2>4. LastBlock(d, d[p].body.prev, p)
    BY <2>1 DEF Tidy, TidyAt, Placed
  <2>5. QED
    BY <2>1, <2>2, <2>3, <2>4
<1> DEFINE UpTo(q) == {p \in B : p <= q}
           Bad == {q \in Nat : (q = 0 \/ q \in B) /\ f[q] # UpTo(q)}
<1>4. Bad = {}
  <2> SUFFICES ASSUME Bad # {} PROVE FALSE
    OBVIOUS
  <2>1. PICK q \in Bad : \A x \in Bad : q <= x
    <3> HIDE DEF Bad
    <3>1. Bad \in SUBSET Nat
      BY DEF Bad
    <3>2. QED
      BY <3>1, LeastNatural
  <2>2. CASE q = 0
    <3>1. f[q] = {}
      BY <1>1, <2>2 DEF ChainWalk
    <3>2. UpTo(q) = {}
      BY <1>3, <2>2
    <3>3. QED
      BY <3>1, <3>2
  <2>3. CASE q # 0
    <3> DEFINE x == d[q].body.prev
    <3>1. q \in B
      BY <2>3
    <3>2. /\ q \in Nat /\ q < n /\ x \in Nat /\ x < q /\ f[q] = {q} \cup f[x]
          /\ LastBlock(d, x, q)
      BY <1>3, <3>1
    <3>3. x = 0 \/ x \in B
      BY <1>2, <3>2 DEF LastBlock
    <3>4. f[x] = UpTo(x)
      BY <2>1, <3>2, <3>3
    <3>5. \A p \in B : p <= q <=> p = q \/ p <= x
      <4> SUFFICES ASSUME NEW p \in B PROVE p <= q <=> p = q \/ p <= x
        OBVIOUS
      <4>1. p \in Nat /\ d[p].kind = "acc" /\ p \in DOMAIN d
        BY <1>3 DEF IsKind
      <4>2. p < q => p <= x
        BY <3>2, <4>1 DEF LastBlock
      <4>3. QED
        BY <3>2, <4>1, <4>2
    <3>6. UpTo(q) = {q} \cup UpTo(x)
      <4> HIDE DEF B, x
      <4>1. QED
        BY <3>1, <3>5
    <3>7. QED
      BY <3>2, <3>4, <3>6
  <2>4. QED
    BY <2>2, <2>3
<1>5. tip = 0 \/ tip \in B
  BY <1>2 DEF LastBlock
<1>6. f[tip] = UpTo(tip)
  BY <1>4, <1>5
<1>7. \A p \in B : p <= tip
  BY DEF LastBlock, IsKind
<1>8. QED
  BY <1>1, <1>6, <1>7

\* What is at the end of a file that is closed and tidy.
LEMMA ClosedEnd ==
  ASSUME IInv, TidyInv, mode = "closed", size > 0, NEW e, e = size - AccLen,
         NEW tip, tip = disk[e].body.next
  PROVE  /\ Ended(disk, e) /\ size >= AccLen /\ e \in Nat /\ tip \in Nat
         /\ e \in DOMAIN disk /\ IsKind(disk, e, "acc") /\ IsKind(disk, tip, "acc")
         /\ Tidy(disk, e) /\ LastBlock(disk, tip, e)
<1>1. size # 0 /\ FileTidy(disk, size)
  BY DEF TidyInv, ClosedTidy, IInv, DiskInv
<1>2. Ended(disk, e) /\ size >= AccLen
  BY <1>1, TidyEnd
<1>3. e \in DOMAIN disk /\ IsKind(disk, e, "acc") /\ tip \in Nat
  BY <1>2, DiskTyped, AccessFields DEF Ended, IsKind, Readable, AccTyped
<1>4. tip \in DOMAIN disk /\ tip < e /\ disk[tip].kind = "acc"
  BY <1>2 DEF Ended, LastBlock
<1>5. IsKind(disk, tip, "acc")
  BY <1>2, <1>4 DEF Ended, Tidy, TidyAt, IsKind, Readable
<1>6. QED
  BY <1>2, <1>3, <1>5 DEF Ended

(***************************************************************************)
(* The list of blocks is complete while no writer has died.                *)
(***************************************************************************)
THEOREM SpecChainComplete == Spec => [](crashes = 0 => ChainComplete)
<1>1. ASSUME IInv, LinkInv, TidyInv, mode = "closed", size > 0
      PROVE  /\ IsKind(disk, size - AccLen, "acc") /\ disk[size - AccLen].body.index = 0
             /\ Chain(disk, disk[size - AccLen].body.next) = Blocks
  <2> DEFINE e == size - AccLen
             tip == disk[e].body.next
  <2>1. /\ Ended(disk, e) /\ e \in Nat /\ tip \in Nat /\ Tidy(disk, e) /\ LastBlock(disk, tip, e)
    BY <1>1, ClosedEnd
  <2> HIDE DEF e, tip
  <2>2. AccTyped(disk) /\ Linked(disk)
    BY <1>1, DiskTyped DEF LinkInv
  <2>3. Chain(disk, tip) = {p \in DOMAIN disk : p < e /\ IsKind(disk, p, "acc")}
    BY <2>1, <2>2, ChainIsAll
  <2>4. ASSUME NEW p \in DOMAIN disk, IsKind(disk, p, "acc")
        PROVE  p < e <=> disk[p].body.index # 0
    <3>1. p \in Nat /\ p <= e /\ disk[e].body.index = 0
      BY <2>1, <2>2 DEF Ended, AccTyped
    <3>2. p < e => disk[p].body.index # 0
      BY <2>1, <2>4 DEF Tidy, TidyAt, Placed, IsKind
    <3>3. QED
      BY <2>1, <3>1, <3>2
  <2>5. Chain(disk, tip) = Blocks
    BY <2>3, <2>4 DEF Blocks
  <2>6. QED
    BY <2>1, <2>5 DEF Ended, e, tip
<1>2. IInv /\ LinkInv /\ TidyUnlessCrashed => (crashes = 0 => ChainComplete)
  BY <1>1 DEF TidyUnlessCrashed, ChainComplete
<1>3. QED
  BY <1>2, SpecIInv, SpecLinkInv, SpecTidyInv, PTL

(***************************************************************************)
(* What is read behind a header that its event follows is this event.      *)
(***************************************************************************)
LEMMA PayloadFollows ==
  ASSUME NEW d, NEW n, Within(d, n), NEW p \in DOMAIN d, d[p].kind = "hdr",
         NEW q, q = p + DataLen, q \in DOMAIN d, d[q].kind = "evt", d[q].ok
  PROVE  Payload(d, p) = d[q].body
<1> DEFINE evts == Scan(d, {"evt"}, q)
<1>1. p \in Nat /\ q \in Nat /\ Length(d[p]) = DataLen
  BY Lengths DEF Within
<1>2. PICK f : /\ ScanWalk(f, d, {"evt"})
               /\ \A from \in Nat : Scan(d, {"evt"}, from) =
                    {x \in DOMAIN d : d[x].kind \in {"evt"} /\ d[x].ok /\ x \in f[from]}
  BY ScanPath
<1>3. evts = {x \in DOMAIN d : d[x].kind \in {"evt"} /\ d[x].ok /\ x \in f[q]}
  BY <1>1, <1>2
<1>4. q \in f[q]
  <2>1. ~ScanStops(d, {"evt"}, q)
    BY DEF ScanStops
  <2>2. f[q] = IF ScanStops(d, {"evt"}, q) THEN {} ELSE {q} \cup f[q + Length(d[q])]
    BY <1>1, <1>2 DEF ScanWalk
  <2>3. QED
    BY <2>1, <2>2
<1>5. \A x \in f[q] : x \in Nat /\ q <= x
  BY <1>1, <1>2, WalkAhead
<1> HIDE DEF evts
<1>6. q \in evts /\ \A x \in evts : x \in Nat /\ q <= x
  BY <1>3, <1>4, <1>5
<1>7. (CHOOSE x \in evts : \A y \in evts : x <= y) = q
  <2>1. \A x \in evts : (\A y \in evts : x <= y) => x = q
    BY <1>1, <1>6
  <2>2. \A y \in evts : q <= y
    BY <1>6
  <2>3. QED
    BY <1>6, <2>1, <2>2
<1>8. Payload(d, p) = d[CHOOSE x \in evts : \A y \in evts : x <= y].body
  <2>1. evts # {} /\ Scan(d, {"evt"}, p + Length(d[p])) = evts
    BY <1>1, <1>6 DEF evts
  <2>2. QED
    BY <2>1 DEF Payload
<1>9. QED
  BY <1>7, <1>8

(***************************************************************************)
(* Every event that direct access leads to is the one that was written     *)
(* with its header, while no writer has died.                              *)
(***************************************************************************)
THEOREM SpecReadsOwnPayload ==
  ASSUME WholeRuns
  PROVE  Spec /\ [](wpos <= IntMax) => [](crashes = 0 => ReadsOwnPayload)
<1>1. ASSUME IInv, LinkInv, TidyInv, DirectSound, mode = "closed",
             NEW k \in Keys(Direct.map), k.EvtNum >= 0
      PROVE  Payload(disk, Direct.map.pos[k]) = disk[Direct.map.pos[k]].body
  <2> DEFINE p == Direct.map.pos[k]
             e == size - AccLen
  <2>1. p \in DOMAIN disk /\ disk[p].kind \in {"run", "hdr"} /\ disk[p].body.key = k
    BY <1>1 DEF DirectSound, Readable
  <2> HIDE DEF p
  <2>2. size > 0
    BY <1>1, <2>1 DEF TidyInv, ClosedTidy, FileTidy, IInv, DiskInv
  <2>3. Ended(disk, e) /\ e \in Nat /\ Tidy(disk, e)
    BY <1>1, <2>2, ClosedEnd
  <2> HIDE DEF e
  <2>4. p \in Nat /\ p < e
    BY <1>1, <2>1, <2>3 DEF Ended, IsKind, IInv, DiskInv
  <2>5. TidyAt(disk, p, e)
    BY <2>1, <2>3, <2>4 DEF Tidy
  <2>6. disk[p].kind = "hdr"
    <3>1. k \in MapKeys
      BY <1>1, <2>1 DEF IInv, DiskInv, WellFormed
    <3>2. k.EvtNum \in Int
      BY <3>1, HalfAssumption DEF MapKeys, RunEvent, IntRange, IntMax
    <3>3. QED
      BY <1>1, <2>1, <2>5, <3>2 DEF TidyAt
  <2> DEFINE q == p + DataLen
  <2>7. q < e /\ q \in DOMAIN disk /\ disk[q].kind = "evt" /\ disk[q].body = disk[p].body
    BY <2>5, <2>6 DEF TidyAt, Followed
  <2>8. disk[q].ok
    BY <2>3, <2>7 DEF Tidy, TidyAt
  <2>9. Within(disk, size)
    BY <1>1, Positions DEF IInv
  <2> HIDE DEF q
  <2>10. Payload(disk, p) = disk[q].body
    BY <2>1, <2>6, <2>7, <2>8, <2>9, PayloadFollows DEF q
  <2>11. QED
    BY <2>7, <2>10 DEF p
<1>2. IInv /\ LinkInv /\ SoundInv /\ TidyUnlessCrashed => (crashes = 0 => ReadsOwnPayload)
  BY <1>1, SoundIndices DEF TidyUnlessCrashed, ReadsOwnPayload
<1>3. Spec /\ [](wpos <= IntMax) => []SoundInv
  BY SpecBoundedSoundInv
<1>4. QED
  BY <1>2, <1>3, SpecIInv, SpecLinkInv, SpecTidyInv, PTL

-----------------------------------------------------------------------------
(***************************************************************************)
(* A file w up to n in which no key has two headers, and each block has an *)
(* index of exactly the headers between the previous block and it.         *)
(***************************************************************************)
KeysOnce(w, n) ==
  \A p, q \in DOMAIN w : /\ p < n /\ q < n /\ HeaderAt(w, p) /\ HeaderAt(w, q)
                         /\ w[p].body.key = w[q].body.key
                         => p = q

\* f maps the keys of the headers from one position to another to these headers.
Exactly(w, f, from, to) ==
  /\ \A k \in DOMAIN f : /\ from <= f[k] /\ f[k] < to /\ f[k] \in DOMAIN w
                         /\ HeaderAt(w, f[k]) /\ w[f[k]].body.key = k
  /\ \A p \in DOMAIN w : from <= p /\ p < to /\ HeaderAt(w, p)
                         => w[p].body.key \in DOMAIN f /\ f[w[p].body.key] = p

IndexedAt(w, p) ==
  LET ipos == w[p].body.index
  IN  /\ ipos < p /\ IsKind(w, ipos, "idx")
      /\ Exactly(w, Decode(w[ipos].body), w[p].body.prev, p)
Keyed(w, n) ==
  /\ KeysOnce(w, n)
  /\ \A p \in DOMAIN w : p < n /\ w[p].kind = "acc" => IndexedAt(w, p)

\* In a closed file no header is behind the last block.
KeyedEnd(w, e) == Keyed(w, e) /\ Exactly(w, NoRecords, w[e].body.next, e)
FileKeyed(w, n) == n # 0 => KeyedEnd(w, n - AccLen)

(***************************************************************************)
(* The inductive invariant behind DirectIsSequential, on top of TidyInv.   *)
(* The map of a writer lists the headers behind the last block.            *)
(***************************************************************************)
FileListed == mode = "closed" \/ IsEmpty(map) => FileKeyed(disk, size)
OpenListed == mode = "open" => Keyed(Whole, wpos) /\ Exactly(Whole, map.pos, Tip, wpos)
ClosingListed == mode = "closing" /\ ~IsEmpty(map) => FileKeyed(Whole, wpos)
ListedInv == FileListed /\ OpenListed /\ ClosingListed

(***************************************************************************)
(* What depends on the records before n only.                              *)
(***************************************************************************)
LEMMA ExactlyKept ==
  ASSUME NEW w, NEW v, NEW n, Agree(w, v, n), NEW f, NEW from, NEW to \in Nat, to <= n,
         Exactly(w, f, from, to)
  PROVE  Exactly(v, f, from, to)
<1>1. /\ n \in Nat /\ \A x \in DOMAIN v : x \in Nat
      /\ \A x \in DOMAIN w : x \in Nat
  BY DEF Agree
<1>2. \A x \in Nat : x < to => /\ x \in DOMAIN w <=> x \in DOMAIN v
                               /\ x \in DOMAIN w => v[x] = w[x]
  BY <1>1 DEF Agree
<1>3. ASSUME NEW k \in DOMAIN f
      PROVE  /\ from <= f[k] /\ f[k] < to /\ f[k] \in DOMAIN v
             /\ HeaderAt(v, f[k]) /\ v[f[k]].body.key = k
  BY <1>1, <1>2 DEF Exactly, HeaderAt
<1>4. ASSUME NEW p \in DOMAIN v, from <= p, p < to, HeaderAt(v, p)
      PROVE  v[p].body.key \in DOMAIN f /\ f[v[p].body.key] = p
  <2>1. p \in DOMAIN w /\ v[p] = w[p]
    BY <1>1, <1>2, <1>4
  <2>2. QED
    BY <1>4, <2>1 DEF Exactly, HeaderAt
<1>5. QED
  BY <1>3, <1>4 DEF Exactly

\* No other headers before m: the same map is exact up to m.
LEMMA ExactlyGrows ==
  ASSUME NEW w, DOMAIN w \subseteq Nat, NEW f, NEW from, NEW n \in Nat, NEW m \in Nat, n <= m,
         Exactly(w, f, from, n),
         \A p \in DOMAIN w : n <= p /\ p < m => ~HeaderAt(w, p)
  PROVE  Exactly(w, f, from, m)
<1>1. ASSUME NEW k \in DOMAIN f
      PROVE  /\ from <= f[k] /\ f[k] < m /\ f[k] \in DOMAIN w
             /\ HeaderAt(w, f[k]) /\ w[f[k]].body.key = k
  <2>1. /\ from <= f[k] /\ f[k] < n /\ f[k] \in DOMAIN w
        /\ HeaderAt(w, f[k]) /\ w[f[k]].body.key = k
    BY DEF Exactly
  <2>2. f[k] \in Nat
    BY <2>1
  <2>3. QED
    BY <2>1, <2>2
<1>2. ASSUME NEW p \in DOMAIN w, from <= p, p < m, HeaderAt(w, p)
      PROVE  w[p].body.key \in DOMAIN f /\ f[w[p].body.key] = p
  <2>1. p \in Nat /\ p < n
    BY <1>2
  <2>2. QED
    BY <1>2, <2>1 DEF Exactly
<1>3. QED
  BY <1>1, <1>2 DEF Exactly

\* The index of a block before n.
LEMMA IndexedAtKept ==
  ASSUME NEW w, NEW v, NEW n, Agree(w, v, n), NEW p \in DOMAIN w, p < n, IndexedAt(w, p)
  PROVE  p \in DOMAIN v /\ v[p] = w[p] /\ IndexedAt(v, p)
<1> DEFINE ipos == w[p].body.index
<1>1. n \in Nat /\ p \in Nat /\ p \in DOMAIN v /\ v[p] = w[p] /\ p <= n
  BY DEF Agree
<1>2. /\ ipos < p /\ IsKind(w, ipos, "idx")
      /\ Exactly(w, Decode(w[ipos].body), w[p].body.prev, p)
  BY DEF IndexedAt
<1> HIDE DEF ipos
<1>3. ipos \in Nat /\ ipos < n /\ ipos \in DOMAIN w
  BY <1>1, <1>2 DEF Agree, IsKind, Readable
<1>4. ipos \in DOMAIN v /\ v[ipos] = w[ipos]
  BY <1>3 DEF Agree
<1>5. Exactly(v, Decode(w[ipos].body), w[p].body.prev, p)
  BY <1>1, <1>2, ExactlyKept
<1>6. IsKind(v, ipos, "idx")
  BY <1>2, <1>4 DEF IsKind, Readable
<1>7. QED
  BY <1>1, <1>2, <1>4, <1>5, <1>6 DEF IndexedAt, ipos

\* A file stays keyed when no headers and only indexed blocks are put behind it.
LEMMA KeyedGrows ==
  ASSUME NEW w, NEW v, NEW n, Agree(w, v, n), Keyed(w, n), NEW m \in Nat, n <= m,
         \A p \in DOMAIN v : n <= p /\ p < m =>
           ~HeaderAt(v, p) /\ (v[p].kind = "acc" => IndexedAt(v, p))
  PROVE  Keyed(v, m)
<1>1. n \in Nat /\ \A p \in DOMAIN v : p \in Nat
  BY DEF Agree
<1>2. \A p \in DOMAIN v : p < n => p \in DOMAIN w /\ v[p] = w[p]
  BY <1>1 DEF Agree
<1>3. \A p \in DOMAIN v : p < m /\ HeaderAt(v, p) => p < n
  BY <1>1
<1>4. KeysOnce(v, m)
  BY <1>2, <1>3 DEF Keyed, KeysOnce, HeaderAt
<1>5. ASSUME NEW p \in DOMAIN v, p < m, v[p].kind = "acc" PROVE IndexedAt(v, p)
  <2>1. CASE p < n
    <3>1. p \in DOMAIN w /\ w[p].kind = "acc"
      BY <1>2, <1>5, <2>1
    <3>2. IndexedAt(w, p)
      BY <2>1, <3>1 DEF Keyed
    <3>3. QED
      BY <2>1, <3>1, <3>2, IndexedAtKept
  <2>2. CASE ~(p < n)
    BY <1>1, <1>5, <2>2
  <2>3. QED
    BY <2>1, <2>2
<1>6. QED
  BY <1>4, <1>5 DEF Keyed

\* So it does when nothing is.
LEMMA KeyedKept ==
  ASSUME NEW w, NEW v, NEW n, Agree(w, v, n), Keyed(w, n)
  PROVE  Keyed(v, n)
<1>1. n \in Nat /\ \A p \in DOMAIN v : p \in Nat
  BY DEF Agree
<1>2. QED
  BY <1>1, KeyedGrows

\* A closed file is keyed whatever it is called.
LEMMA FileKeyedSame ==
  ASSUME NEW w, NEW v, Same(w, v), DOMAIN w \subseteq Nat, NEW n \in Nat,
         FileTidy(w, n), FileKeyed(w, n)
  PROVE  FileKeyed(v, n)
<1> SUFFICES ASSUME n # 0 PROVE KeyedEnd(v, n - AccLen)
  BY DEF FileKeyed
<1> DEFINE e == n - AccLen
<1>1. KeyedEnd(w, e) /\ Ended(w, e)
  BY DEF FileKeyed, FileTidy
<1> HIDE DEF e
<1>2. e \in Nat /\ e <= e /\ v[e] = w[e]
  BY <1>1 DEF Ended, Same, IsKind, Readable
<1>3. Agree(w, v, e)
  BY <1>2 DEF Same, Agree
<1>4. Keyed(v, e)
  BY <1>1, <1>3, KeyedKept DEF KeyedEnd
<1>5. Exactly(v, NoRecords, w[e].body.next, e)
  BY <1>1, <1>2, <1>3, ExactlyKept DEF KeyedEnd
<1>6. KeyedEnd(v, e)
  BY <1>2, <1>4, <1>5 DEF KeyedEnd
<1>7. QED
  BY <1>6 DEF e

(***************************************************************************)
(* A header of a new key is put behind the file, and its place in the map. *)
(***************************************************************************)
LEMMA HeaderListed ==
  ASSUME NEW w, NEW v, NEW n, Agree(w, v, n), Keyed(w, n), NEW from \in Nat, from <= n,
         NEW f, Exactly(w, f, from, n), NEW m \in Nat, n < m,
         NEW k, n \in DOMAIN v, HeaderAt(v, n), v[n].body.key = k,
         \A p \in DOMAIN w : p < n /\ HeaderAt(w, p) => w[p].body.key # k,
         \A p \in DOMAIN v : n < p /\ p < m => ~HeaderAt(v, p) /\ v[p].kind # "acc",
         NEW g, DOMAIN g = DOMAIN f \cup {k}, g[k] = n,
         \A x \in DOMAIN f : x # k => g[x] = f[x]
  PROVE  Keyed(v, m) /\ Exactly(v, g, from, m)
<1>1. n \in Nat /\ n <= n /\ n <= m /\ \A p \in DOMAIN v : p \in Nat
  BY DEF Agree
<1>2. \A p \in DOMAIN v : p < n => p \in DOMAIN w /\ v[p] = w[p]
  BY <1>1 DEF Agree
<1>3. \A p \in DOMAIN v : p < n /\ HeaderAt(v, p) => v[p].body.key # k
  BY <1>2 DEF HeaderAt
<1>4. \A p \in DOMAIN v : p < m /\ HeaderAt(v, p) => p < n \/ p = n
  BY <1>1
<1>5. Keyed(v, n) /\ Exactly(v, f, from, n)
  BY <1>1, KeyedKept, ExactlyKept
<1>6. KeysOnce(v, m)
  <2> SUFFICES ASSUME NEW p \in DOMAIN v, NEW q \in DOMAIN v, p < m, q < m,
                      HeaderAt(v, p), HeaderAt(v, q), v[p].body.key = v[q].body.key
               PROVE  p = q
    BY DEF KeysOnce
  <2>1. CASE p < n /\ q < n
    BY <1>5, <2>1 DEF Keyed, KeysOnce
  <2>2. CASE p = n /\ q = n
    BY <2>2
  <2>3. QED
    BY <1>3, <1>4, <2>1, <2>2
<1>7. Keyed(v, m)
  <2> SUFFICES ASSUME NEW p \in DOMAIN v, p < m, v[p].kind = "acc" PROVE IndexedAt(v, p)
    BY <1>6 DEF Keyed
  <2>1. p # n
    BY DEF HeaderAt
  <2>2. p < n
    BY <1>1, <2>1
  <2>3. QED
    BY <1>5, <2>2 DEF Keyed
<1>8. k \notin DOMAIN f
  <2> SUFFICES ASSUME k \in DOMAIN f PROVE FALSE
    OBVIOUS
  <2>1. f[k] < n /\ f[k] \in DOMAIN w /\ HeaderAt(w, f[k]) /\ w[f[k]].body.key = k
    BY DEF Exactly
  <2>2. QED
    BY <2>1
<1>9. ASSUME NEW x \in DOMAIN g
      PROVE  /\ from <= g[x] /\ g[x] < m /\ g[x] \in DOMAIN v
             /\ HeaderAt(v, g[x]) /\ v[g[x]].body.key = x
  <2>1. CASE x = k
    BY <2>1
  <2>2. CASE x # k
    <3>1. x \in DOMAIN f /\ g[x] = f[x]
      BY <2>2
    <3>2. /\ from <= f[x] /\ f[x] < n /\ f[x] \in DOMAIN v
          /\ HeaderAt(v, f[x]) /\ v[f[x]].body.key = x
      BY <1>5, <3>1 DEF Exactly
    <3>3. f[x] < m
      BY <1>1, <3>2
    <3>4. QED
      BY <3>1, <3>2, <3>3
  <2>3. QED
    BY <2>1, <2>2
<1>10. ASSUME NEW p \in DOMAIN v, from <= p, p < m, HeaderAt(v, p)
       PROVE  v[p].body.key \in DOMAIN g /\ g[v[p].body.key] = p
  <2>1. CASE p = n
    BY <2>1
  <2>2. CASE p < n
    BY <1>3, <1>5, <1>10, <2>2 DEF Exactly
  <2>3. QED
    BY <1>4, <1>10, <2>1, <2>2
<1>11. Exactly(v, g, from, m)
  BY <1>9, <1>10 DEF Exactly
<1>12. QED
  BY <1>7, <1>11

(***************************************************************************)
(* A client that writes no key twice writes a new one: the headers up to   *)
(* the last block are on the disk, those behind it in the map.             *)
(***************************************************************************)
LEMMA KeyIsNew ==
  ASSUME UniqueKeys, IInv, LinkInv, ListedInv, NEW key, MayWrite(key),
         NEW p \in DOMAIN Whole, p < wpos, HeaderAt(Whole, p)
  PROVE  Whole[p].body.key # key
<1>1. mode = "open" /\ key \notin Keys(map)
  BY DEF MayWrite
<1>2. \A x \in DOMAIN disk : disk[x].kind \in {"run", "hdr"} => disk[x].body.key # key
  BY DEF MayWrite
<1>3. p \in Nat /\ Tip \in Nat
  BY DiskTyped, TipIsPosition DEF AccTyped
<1>4. CASE Tip <= p
  BY <1>1, <1>4 DEF ListedInv, OpenListed, Exactly, Keys
<1>5. CASE p < Tip
  <2>1. lastRa # None
    BY <1>3, <1>5 DEF Tip
  <2>2. p < synced
    BY <1>3, <1>5, <2>1 DEF Tip, LinkInv, WriterLinked, IInv, WriterInv
  <2>3. p \notin DOMAIN buf
    BY <1>3, <2>2 DEF IInv, WriterInv, Output
  <2>4. p \in DOMAIN disk /\ Whole[p] = disk[p]
    BY <2>3, WholeRecords DEF WrittenOver
  <2>5. QED
    BY <1>2, <2>4 DEF HeaderAt
<1>6. QED
  BY <1>3, <1>4, <1>5

\* What a put leaves to be shown of the records it writes.
LEMMA PutKeepsListed ==
  ASSUME UniqueKeys, IInv, IInv', LinkInv, ListedInv, mode = "open", mode' = "open",
         UNCHANGED <<disk, size, synced, lastRa>>,
         NEW key \in MapKeys, MayWrite(key), map' = Add(map, key, wpos),
         NEW fresh, DOMAIN buf' = DOMAIN buf \cup fresh,
         \A p \in DOMAIN buf : buf'[p] = buf[p],
         \A p \in fresh : wpos <= p, wpos < wpos',
         wpos \in fresh, HeaderAt(buf', wpos), buf'[wpos].body.key = key,
         \A p \in fresh : p # wpos => ~HeaderAt(buf', p) /\ buf'[p].kind # "acc"
  PROVE  ListedInv'
<1>1. OneInTheWay
  BY DEF LinkInv
<1>2. /\ Agree(Whole, Whole', wpos)
      /\ \A p \in fresh : p \in DOMAIN Whole' /\ Whole'[p] = buf'[p]
      /\ \A p \in DOMAIN Whole' : p \in fresh \/ p < wpos
  BY <1>1, GrowthAgrees
<1>3. wpos \in Nat /\ wpos' \in Nat /\ Tip \in Nat /\ Tip' = Tip
  BY TipIsPosition DEF IInv, WriterInv, Tip
<1>4. Tip <= wpos
  <2>1. lastRa # None => lastRa.first < synced /\ synced <= wpos /\ synced \in Nat
    BY DEF LinkInv, WriterLinked, IInv, WriterInv
  <2>2. QED
    BY <1>3, <2>1 DEF Tip
<1>5. Keyed(Whole, wpos) /\ Exactly(Whole, map.pos, Tip, wpos)
  BY DEF ListedInv, OpenListed
<1>6. /\ wpos \in DOMAIN Whole' /\ HeaderAt(Whole', wpos) /\ Whole'[wpos].body.key = key
  BY <1>2 DEF HeaderAt
<1>7. \A p \in DOMAIN Whole' : wpos < p /\ p < wpos' => ~HeaderAt(Whole', p) /\ Whole'[p].kind # "acc"
  <2> SUFFICES ASSUME NEW p \in DOMAIN Whole', wpos < p
               PROVE  ~HeaderAt(Whole', p) /\ Whole'[p].kind # "acc"
    OBVIOUS
  <2>1. p \in Nat
    BY <1>2 DEF Agree
  <2>2. p \in fresh /\ p # wpos
    BY <1>2, <1>3, <2>1
  <2>3. QED
    BY <1>2, <2>2 DEF HeaderAt
<1>8. \A p \in DOMAIN Whole : p < wpos /\ HeaderAt(Whole, p) => Whole[p].body.key # key
  BY KeyIsNew
<1> DEFINE g == map'.pos
<1>9. /\ DOMAIN g = DOMAIN map.pos \cup {key} /\ g[key] = wpos
      /\ \A x \in DOMAIN map.pos : x # key => g[x] = map.pos[x]
  <2>1. FromLong64(ToLong64(key)) = key
    BY Long64RoundTrip DEF MapKeys
  <2>2. g = [k \in Keys(map) \cup {key} |-> IF k = key THEN wpos ELSE map.pos[k]]
    BY <2>1 DEF Add
  <2>3. QED
    BY <2>2 DEF Keys
<1> HIDE DEF g
<1>10. Keyed(Whole', wpos') /\ Exactly(Whole', g, Tip, wpos')
  BY <1>2, <1>3, <1>4, <1>5, <1>6, <1>7, <1>8, <1>9, HeaderListed
<1>11. ~IsEmpty(map')
  BY AddedTo
<1>12. QED
  BY <1>3, <1>10, <1>11 DEF ListedInv, FileListed, OpenListed, ClosingListed, g

\* A run header is listed at its position.
LEMMA WriteRunHeaderKeepsListed ==
  ASSUME UniqueKeys, IInv, IInv', LinkInv, ListedInv, NEW r \in Runs, WriteRunHeader(r)
  PROVE  ListedInv'
<1> DEFINE key == RunKey(r)
           rec == Record("run", Item(key))
           fresh == {wpos}
<1>1. /\ mode = "open" /\ mode' = "open" /\ MayWrite(key)
      /\ buf' = [p \in DOMAIN buf \cup fresh |-> IF p = wpos THEN rec ELSE buf[p]]
      /\ wpos' = wpos + DataLen
      /\ map' = Add(map, key, wpos)
      /\ UNCHANGED <<disk, size, synced, lastRa>>
  BY DEF WriteRunHeader, MayWrite
<1>2. rec.kind = "run" /\ rec.body.key = key /\ key \in MapKeys
  BY KeysOfRuns DEF Record, Item
<1> HIDE DEF rec, key
<1>3. wpos \in Nat /\ wpos < wpos' /\ \A p \in DOMAIN buf : p # wpos
  BY <1>1, Lengths DEF IInv, WriterInv, Output
<1>4. /\ DOMAIN buf' = DOMAIN buf \cup fresh
      /\ \A p \in DOMAIN buf : buf'[p] = buf[p]
      /\ \A p \in fresh : wpos <= p /\ p = wpos
      /\ wpos \in fresh /\ buf'[wpos] = rec
  BY <1>1, <1>3
<1> HIDE DEF fresh
<1>5. HeaderAt(buf', wpos) /\ buf'[wpos].body.key = key
  BY <1>2, <1>4 DEF HeaderAt
<1>6. QED
  BY <1>1, <1>2, <1>3, <1>4, <1>5, PutKeepsListed

\* An event is listed at the position of its header.
LEMMA WriteEventKeepsListed ==
  ASSUME UniqueKeys, IInv, IInv', LinkInv, ListedInv, NEW r \in Runs, NEW e \in Evts,
         WriteEvent(r, e)
  PROVE  ListedInv'
<1> DEFINE key == EvtKey(r, e)
           epos == wpos + DataLen
           hdr == Record("hdr", Item(key))
           evt == Record("evt", Item(key))
           fresh == {wpos, epos}
<1>1. /\ mode = "open" /\ mode' = "open" /\ MayWrite(key)
      /\ buf' = [p \in DOMAIN buf \cup fresh |->
                   IF p = wpos THEN hdr ELSE IF p = epos THEN evt ELSE buf[p]]
      /\ wpos' = epos + DataLen
      /\ map' = Add(map, key, wpos)
      /\ UNCHANGED <<disk, size, synced, lastRa>>
  BY DEF WriteEvent, MayWrite
<1>2. /\ hdr.kind = "hdr" /\ hdr.body.key = key /\ key \in MapKeys
      /\ evt.kind = "evt"
  BY KeysOfEvents DEF Record, Item
<1> HIDE DEF hdr, evt, key
<1>3. /\ wpos \in Nat /\ epos \in Nat /\ wpos < wpos' /\ wpos < epos
      /\ \A p \in DOMAIN buf : p # wpos /\ p # epos
  BY <1>1, Lengths DEF IInv, WriterInv, Output
<1> HIDE DEF epos
<1>4. /\ DOMAIN buf' = DOMAIN buf \cup fresh
      /\ \A p \in DOMAIN buf : buf'[p] = buf[p]
      /\ \A p \in fresh : wpos <= p /\ (p = wpos \/ p = epos)
      /\ wpos \in fresh /\ buf'[wpos] = hdr /\ buf'[epos] = evt
  BY <1>1, <1>3
<1> HIDE DEF fresh
<1>5. HeaderAt(buf', wpos) /\ buf'[wpos].body.key = key
  BY <1>2, <1>4 DEF HeaderAt
<1>6. \A p \in fresh : p # wpos => ~HeaderAt(buf', p) /\ buf'[p].kind # "acc"
  BY <1>2, <1>4 DEF HeaderAt
<1>7. QED
  BY <1>1, <1>2, <1>3, <1>4, <1>5, <1>6, PutKeepsListed

(***************************************************************************)
(* The index of a new block lists the headers since the previous block.    *)
(***************************************************************************)
LEMMA WriteRandomAccessRecordsKeepsListed ==
  ASSUME IInv, IInv', LinkInv, SoundInv, ClosesCompactible, ListedInv, WriteRandomAccessRecords
  PROVE  ListedInv'
<1> DEFINE apos == wpos + DataLen
           fpos == apos + AccLen
           idx == Record("idx", Encode(map))
           ra == NewAccess(wpos, apos)
           file == FileRecord(ra, apos)
           fresh == {wpos, apos, fpos}
<1>1. /\ mode = "open" /\ mode' = "closing" /\ MayClose
      /\ IF IsEmpty(map) THEN UNCHANGED <<buf, wpos>>
         ELSE /\ buf' = [p \in DOMAIN buf \cup fresh |->
                         IF p = wpos THEN idx ELSE IF p = apos THEN Record("acc", ra)
                         ELSE IF p = fpos THEN Record("acc", file) ELSE buf[p]]
              /\ wpos' = fpos + AccLen
      /\ UNCHANGED <<disk, size, synced, map, lastRa, fileRec, sessions, puts, crashes>>
  BY DEF WriteRandomAccessRecords
<1>2. /\ wpos \in Nat /\ apos \in Nat /\ fpos \in Nat
      /\ wpos < apos /\ apos < fpos /\ wpos < fpos + AccLen
      /\ synced \in Nat /\ synced <= wpos
  BY Lengths DEF IInv, WriterInv
<1>3. CASE IsEmpty(map)
  BY <1>1, <1>3 DEF ListedInv, FileListed, OpenListed, ClosingListed
<1>4. CASE ~IsEmpty(map)
  <2>1. /\ idx.kind = "idx" /\ idx.ok /\ idx.body = Encode(map)
        /\ \A body : /\ Record("acc", body).kind = "acc" /\ Record("acc", body).body = body
    BY DEF Record
  <2>2. ra.index = wpos /\ ra.prev = Tip
    BY <1>2, NewAccessFields
  <2>3. file.next = apos
    BY <1>2, FileRecordNext
  <2> HIDE DEF idx, ra, file
  <2>4. \A p \in DOMAIN buf : p \notin fresh
    BY <1>2, Lengths DEF IInv, WriterInv, Output
  <2>5. /\ DOMAIN buf' = DOMAIN buf \cup fresh
        /\ \A p \in DOMAIN buf : buf'[p] = buf[p]
        /\ \A p \in fresh : wpos <= p
        /\ wpos < wpos' /\ wpos' = fpos + AccLen
    BY <1>1, <1>2, <1>4, <2>4
  <2>6. buf'[wpos] = idx /\ buf'[apos] = Record("acc", ra) /\ buf'[fpos] = Record("acc", file)
    BY <1>1, <1>2, <1>4
  <2> HIDE DEF apos, fpos
  <2>7. /\ Agree(Whole, Whole', wpos)
        /\ \A p \in fresh : p \in DOMAIN Whole' /\ Whole'[p] = buf'[p]
        /\ \A p \in DOMAIN Whole' : p \in fresh \/ p < wpos
    <3> HIDE DEF fresh
    <3>1. QED
      BY <1>1, <2>5, GrowthAgrees DEF LinkInv
  <2>8. /\ Tip \in Nat /\ DOMAIN Whole' \subseteq Nat
        /\ Keyed(Whole, wpos) /\ Exactly(Whole, map.pos, Tip, wpos)
    BY <1>1, <2>7, TipIsPosition DEF ListedInv, OpenListed, Agree
  <2>9. \A p \in DOMAIN Whole' : wpos <= p /\ p < fpos => p = wpos \/ p = apos
    BY <1>2, <2>7, <2>8
  <2>10. /\ Whole'[wpos] = idx /\ Whole'[apos] = Record("acc", ra)
         /\ Whole'[fpos] = Record("acc", file)
         /\ wpos \in DOMAIN Whole' /\ apos \in DOMAIN Whole' /\ fpos \in DOMAIN Whole'
    BY <2>6, <2>7
  <2>11. \A p \in DOMAIN Whole' : wpos <= p /\ p < fpos => ~HeaderAt(Whole', p)
    BY <2>1, <2>9, <2>10 DEF HeaderAt
  <2>12. Decode(Encode(map)) = map.pos
    <3>1. MapOK(map) /\ Compactible(map)
      BY <1>1, <1>4 DEF IInv, WriterInv, MapType, MapOK, SoundInv, ClosesCompactible
    <3>2. QED
      BY <1>4, <3>1, CompactibleRoundTrip
  <2>13. Exactly(Whole', map.pos, Tip, apos)
    <3>1. wpos <= wpos /\ wpos <= apos
      BY <1>2
    <3>2. Exactly(Whole', map.pos, Tip, wpos)
      BY <1>2, <2>7, <2>8, <3>1, ExactlyKept
    <3>3. \A p \in DOMAIN Whole' : wpos <= p /\ p < apos => ~HeaderAt(Whole', p)
      BY <1>2, <2>8, <2>11
    <3>4. QED
      BY <1>2, <2>8, <3>1, <3>2, <3>3, ExactlyGrows
  <2>14. IndexedAt(Whole', apos)
    BY <1>2, <2>1, <2>2, <2>10, <2>12, <2>13 DEF IndexedAt, IsKind, Readable
  <2>15. Keyed(Whole', fpos)
    <3>1. \A p \in DOMAIN Whole' : wpos <= p /\ p < fpos =>
            ~HeaderAt(Whole', p) /\ (Whole'[p].kind = "acc" => IndexedAt(Whole', p))
      BY <2>1, <2>9, <2>10, <2>11, <2>14
    <3>2. wpos <= fpos
      BY <1>2
    <3>3. QED
      BY <1>2, <2>7, <2>8, <3>1, <3>2, KeyedGrows
  <2>16. Exactly(Whole', NoRecords, apos, fpos)
    <3>1. DOMAIN NoRecords = {}
      BY DEF NoRecords
    <3>2. \A p \in DOMAIN Whole' : apos <= p /\ p < fpos => ~HeaderAt(Whole', p)
      BY <1>2, <2>8, <2>11
    <3>3. QED
      BY <3>1, <3>2 DEF Exactly
  <2>17. KeyedEnd(Whole', fpos)
    BY <2>1, <2>3, <2>10, <2>15, <2>16 DEF KeyedEnd
  <2>18. wpos' - AccLen = fpos
    BY <1>2, <2>5, Lengths
  <2>19. FileKeyed(Whole', wpos')
    BY <2>17, <2>18 DEF FileKeyed
  <2>20. QED
    BY <1>1, <1>4, <2>19 DEF ListedInv, FileListed, OpenListed, ClosingListed
<1>5. QED
  BY <1>3, <1>4

(***************************************************************************)
(* Opening: a new file has no headers, and behind the last block of a      *)
(* closed one there are none.                                              *)
(***************************************************************************)
LEMMA OpenNewKeepsListed ==
  ASSUME IInv, IInv', LinkInv, TidyInv, ListedInv, OpenNew PROVE ListedInv'
<1>1. /\ StartSession(0) /\ disk' = NoRecords /\ size' = 0 /\ UNCHANGED <<map, lastRa>>
      /\ DOMAIN disk' = {}
  BY DEF OpenNew, writer, NoRecords
<1>2. /\ mode = "closed" /\ mode' = "open" /\ synced' = 0 /\ wpos' = 0 /\ buf' = NoRecords
      /\ IsEmpty(map')
  BY <1>1 DEF StartSession, IInv, WriterInv, LinkInv, TidyInv, ClosedTidy
<1>3. DOMAIN Whole' = {}
  BY <1>1, <1>2, WholeWithoutOutput DEF Whole, Same
<1>4. Keyed(Whole', wpos') /\ Exactly(Whole', map'.pos, Tip', wpos')
  BY <1>2, <1>3 DEF Keyed, KeysOnce, Exactly, IsEmpty, Keys
<1>5. QED
  BY <1>1, <1>2, <1>4 DEF ListedInv, FileListed, OpenListed, ClosingListed, FileKeyed

\* A closed file is continued behind its last block.
LEMMA OpenAppendKeepsListed ==
  ASSUME IInv, IInv', LinkInv, TidyInv, ListedInv, OpenAppend PROVE ListedInv'
<1> DEFINE end == size - AccLen
           first == disk[end].body.next
<1>1. /\ StartSession(end) /\ size >= AccLen
      /\ lastRa' = IF IsKind(disk, first, "acc") THEN disk[first].body ELSE None
      /\ UNCHANGED <<disk, size, map>>
  BY DEF OpenAppend
<1>2. /\ mode = "closed" /\ mode' = "open" /\ synced' = end /\ wpos' = end /\ buf' = NoRecords
      /\ FileTidy(disk, size) /\ IsEmpty(map') /\ size # 0
  BY <1>1, Lengths DEF StartSession, IInv, DiskInv, WriterInv, TidyInv, ClosedTidy
<1>3. Ended(disk, end)
  BY <1>2, TidyEnd
<1>4. end \in Nat /\ end <= end /\ DOMAIN disk \subseteq Nat
  BY <1>3 DEF Ended, IInv, DiskInv
<1>5. /\ first \in DOMAIN disk /\ first < end /\ disk[first].kind = "acc" /\ first \in Nat
  BY <1>3, <1>4 DEF Ended, LastBlock
<1>6. disk[first].ok /\ Placed(disk, first)
  BY <1>3, <1>5 DEF Ended, Tidy, TidyAt
<1>7. Tip' = first
  BY <1>1, <1>5, <1>6 DEF Tip, Placed, IsKind, Readable
<1>8. FileKeyed(disk, size)
  BY <1>2 DEF ListedInv, FileListed
<1>9. Keyed(disk, end) /\ Exactly(disk, NoRecords, first, end)
  BY <1>2, <1>8 DEF FileKeyed, KeyedEnd
<1> HIDE DEF first
<1>10. Agree(disk, Whole', end)
  <2> HIDE DEF end
  <2>1. Whole' = Overlay(disk, NoRecords, end, end)
    BY <1>1, <1>2 DEF Whole
  <2>2. QED
    BY <1>4, <2>1, NothingToCome
<1> HIDE DEF end
<1>11. Keyed(Whole', end) /\ Exactly(Whole', NoRecords, first, end)
  BY <1>4, <1>9, <1>10, KeyedKept, ExactlyKept
<1>12. DOMAIN NoRecords = {} /\ DOMAIN map'.pos = {}
  BY <1>2 DEF NoRecords, IsEmpty, Keys
<1>13. Exactly(Whole', map'.pos, first, end)
  BY <1>11, <1>12 DEF Exactly
<1>14. QED
  BY <1>1, <1>2, <1>7, <1>8, <1>11, <1>13 DEF ListedInv, FileListed, OpenListed, ClosingListed

(***************************************************************************)
(* Output that reaches the file.                                           *)
(***************************************************************************)
LEMMA FlushKeepsListed ==
  ASSUME IInv, IInv', LinkInv, TidyInv, ListedInv, Flush PROVE ListedInv'
<1>1. /\ mode = "open" /\ buf # NoRecords /\ disk' = Whole
      /\ buf' = NoRecords /\ synced' = wpos
      /\ UNCHANGED <<mode, wpos, map, lastRa>>
  BY DEF Flush, Drain, Whole
<1>2. ~IsEmpty(map)
  BY <1>1 DEF TidyInv, UnusedTidy, Untouched
<1>3. /\ wpos \in Nat /\ wpos <= wpos /\ DOMAIN Whole \subseteq Nat /\ Tip' = Tip
      /\ Keyed(Whole, wpos) /\ Exactly(Whole, map.pos, Tip, wpos)
  BY <1>1, DiskTyped DEF ListedInv, OpenListed, IInv, WriterInv, Tip, AccTyped
<1>4. Agree(Whole, Whole', wpos)
  <2>1. Whole' = Overlay(Whole, NoRecords, wpos, wpos)
    <3>1. Whole' = Overlay(disk', buf', synced', wpos')
      BY DEF Whole
    <3>2. QED
      BY <1>1, <3>1
  <2>2. QED
    BY <1>3, <2>1, NothingToCome
<1>5. Keyed(Whole', wpos) /\ Exactly(Whole', map.pos, Tip, wpos)
  BY <1>3, <1>4, KeyedKept, ExactlyKept
<1>6. QED
  BY <1>1, <1>2, <1>3, <1>5 DEF ListedInv, FileListed, OpenListed, ClosingListed

\* What close() leaves is the file as it was going to be.
LEMMA CloseStreamKeepsListed ==
  ASSUME IInv, LinkInv, TidyInv, ListedInv, CloseStream PROVE ListedInv'
<1>1. /\ mode = "closing" /\ disk' = Whole /\ size' = Larger(size, wpos) /\ mode' = "closed"
  BY DEF CloseStream, Drain, Whole, EndSession
<1>2. /\ wpos \in Nat /\ size \in Nat /\ DOMAIN disk \subseteq Nat
  BY DEF IInv, DiskInv, WriterInv
<1>3. FileKeyed(disk', size')
  <2>1. CASE IsEmpty(map)
    <3>1. Untouched /\ FileKeyed(disk, size)
      BY <1>1, <2>1 DEF TidyInv, UnusedTidy, ListedInv, FileListed
    <3>2. size' = size
      BY <1>1, <1>2, <3>1, Lengths DEF Untouched, Larger
    <3>3. Whole = Overlay(disk, NoRecords, wpos, wpos)
      BY <3>1 DEF Untouched, Whole
    <3>4. Same(disk, Whole)
      BY <1>2, <3>3, NothingToCome
    <3>5. QED
      BY <1>1, <1>2, <3>1, <3>2, <3>4, FileKeyedSame DEF Untouched
  <2>2. CASE ~IsEmpty(map)
    <3>1. FileKeyed(Whole, wpos) /\ size <= wpos
      BY <1>1, <2>2 DEF TidyInv, ClosingTidy, ListedInv, ClosingListed
    <3>2. size' = wpos
      BY <1>1, <1>2, <3>1 DEF Larger
    <3>3. QED
      BY <1>1, <3>1, <3>2
  <2>3. QED
    BY <2>1, <2>2
<1>4. QED
  BY <1>1, <1>3 DEF ListedInv, FileListed, OpenListed, ClosingListed

(***************************************************************************)
(* Every step but a crash keeps the indices exact.                         *)
(***************************************************************************)
ListedUnlessCrashed == crashes = 0 => ListedInv

\* A step that does not kill the writer keeps ListedInv.
LEMMA NextListed ==
  ASSUME UniqueKeys
  PROVE  /\ IInv /\ IInv' /\ LinkInv /\ SoundInv /\ ClosesCompactible
         /\ TidyUnlessCrashed /\ ListedUnlessCrashed /\ [Next]_vars
         => ListedUnlessCrashed'
<1> SUFFICES ASSUME IInv, IInv', LinkInv, SoundInv, ClosesCompactible,
                    TidyUnlessCrashed, ListedUnlessCrashed, [Next]_vars, crashes' = 0
             PROVE  ListedInv'
  BY DEF ListedUnlessCrashed
<1>1. CASE Crash
  BY <1>1 DEF Crash, IInv, CountInv
<1>2. CASE ~Crash
  <2>1. crashes = 0
    BY <1>2 DEF Next, OpenNew, OpenAppend, OpenAppendOld, StartSession, WriteRunHeader, WriteEvent,
                Flush, WriteRandomAccessRecords, CloseStream, vars
  <2>2. TidyInv /\ ListedInv
    BY <2>1 DEF TidyUnlessCrashed, ListedUnlessCrashed
  <2>3. CASE OpenNew
    BY <2>2, <2>3, OpenNewKeepsListed
  <2>4. CASE OpenAppend
    BY <2>2, <2>4, OpenAppendKeepsListed
  <2>5. CASE OpenAppendOld
    BY <2>2, <2>5, OpenAppendOldKeepsTidy
  <2>6. ASSUME NEW r \in Runs, WriteRunHeader(r) PROVE ListedInv'
    BY <2>2, <2>6, WriteRunHeaderKeepsListed
  <2>7. ASSUME NEW r \in Runs, NEW e \in Evts, WriteEvent(r, e) PROVE ListedInv'
    BY <2>2, <2>7, WriteEventKeepsListed
  <2>8. CASE Flush
    BY <2>2, <2>8, FlushKeepsListed
  <2>9. CASE WriteRandomAccessRecords
    BY <2>2, <2>9, WriteRandomAccessRecordsKeepsListed
  <2>10. CASE CloseStream
    BY <2>2, <2>10, CloseStreamKeepsListed
  <2>11. CASE UNCHANGED vars
    <3>1. Whole' = Whole /\ Tip' = Tip
      BY <2>11 DEF Whole, Tip, vars
    <3>2. UNCHANGED <<disk, size, mode, map, wpos>>
      BY <2>11 DEF vars
    <3>3. QED
      BY <2>2, <3>1, <3>2 DEF ListedInv, FileListed, OpenListed, ClosingListed
  <2>12. QED
    BY <1>2, <2>3, <2>4, <2>5, <2>6, <2>7, <2>8, <2>9, <2>10, <2>11 DEF Next
<1>3. QED
  BY <1>1, <1>2

(***************************************************************************)
(* While no writer has died the index of every block lists the headers     *)
(* between the previous block and it: of clients that write no key twice   *)
(* and whose maps the index record can hold.                               *)
(***************************************************************************)
THEOREM SpecListedInv ==
  ASSUME UniqueKeys, WholeRuns
  PROVE  Spec /\ [](wpos <= IntMax) => []ListedUnlessCrashed
<1>1. Init => ListedUnlessCrashed
  <2>1. Init => size = 0 /\ mode = "closed"
    BY DEF Init
  <2>2. QED
    BY <2>1 DEF ListedUnlessCrashed, ListedInv, FileListed, OpenListed, ClosingListed, FileKeyed
<1>2. IInv /\ SoundInv /\ wpos <= IntMax => ClosesCompactible
  BY WholeRunsClose
<1>3. Spec /\ [](wpos <= IntMax) => []SoundInv
  BY SpecBoundedSoundInv
<1>4. /\ IInv /\ IInv' /\ LinkInv /\ SoundInv /\ wpos <= IntMax
      /\ TidyUnlessCrashed /\ ListedUnlessCrashed /\ [Next]_vars
      => ListedUnlessCrashed'
  BY <1>2, NextListed
<1>5. QED
  BY <1>1, <1>3, <1>4, SpecIInv, SpecLinkInv, SpecTidyInv, PTL DEF Spec

-----------------------------------------------------------------------------
(***************************************************************************)
(* Maps of the headers on the two sides of a block are merged to one of    *)
(* both.                                                                   *)
(***************************************************************************)
LEMMA ExactlyJoined ==
  ASSUME NEW d, DOMAIN d \subseteq Nat, NEW n \in Nat, KeysOnce(d, n),
         NEW mid \in Nat, NEW to \in Nat, mid <= to, to <= n,
         NEW f, Exactly(d, f, 0, mid), NEW g, Exactly(d, g, mid, to)
  PROVE  Exactly(d, Merge(f, g), 0, to)
<1> DEFINE m == Merge(f, g)
<1>1. /\ DOMAIN m = DOMAIN f \cup DOMAIN g
      /\ \A k \in DOMAIN m : m[k] = IF k \in DOMAIN f THEN f[k] ELSE g[k]
  BY DEF Merge
<1> HIDE DEF m
<1>2. ASSUME NEW k \in DOMAIN f
      PROVE  /\ f[k] \in Nat /\ 0 <= f[k] /\ f[k] < mid /\ f[k] < to /\ f[k] < n
             /\ f[k] \in DOMAIN d /\ HeaderAt(d, f[k]) /\ d[f[k]].body.key = k
  <2>1. f[k] < mid /\ f[k] \in DOMAIN d /\ HeaderAt(d, f[k]) /\ d[f[k]].body.key = k
    BY DEF Exactly
  <2>2. QED
    BY <2>1
<1>3. ASSUME NEW k \in DOMAIN g
      PROVE  /\ g[k] \in Nat /\ 0 <= g[k] /\ mid <= g[k] /\ g[k] < to /\ g[k] < n
             /\ g[k] \in DOMAIN d /\ HeaderAt(d, g[k]) /\ d[g[k]].body.key = k
  <2>1. mid <= g[k] /\ g[k] < to /\ g[k] \in DOMAIN d /\ HeaderAt(d, g[k]) /\ d[g[k]].body.key = k
    BY DEF Exactly
  <2>2. QED
    BY <2>1
<1>4. ASSUME NEW k \in DOMAIN g PROVE k \notin DOMAIN f
  <2> SUFFICES ASSUME k \in DOMAIN f PROVE FALSE
    OBVIOUS
  <2>1. f[k] = g[k]
    BY <1>2, <1>3 DEF KeysOnce
  <2>2. QED
    BY <1>2, <1>3, <2>1
<1>5. ASSUME NEW k \in DOMAIN m
      PROVE  /\ 0 <= m[k] /\ m[k] < to /\ m[k] \in DOMAIN d
             /\ HeaderAt(d, m[k]) /\ d[m[k]].body.key = k
  <2>1. CASE k \in DOMAIN f
    BY <1>1, <1>2, <2>1
  <2>2. CASE k \notin DOMAIN f
    BY <1>1, <1>3, <2>2
  <2>3. QED
    BY <2>1, <2>2
<1>6. ASSUME NEW p \in DOMAIN d, p < to, HeaderAt(d, p)
      PROVE  d[p].body.key \in DOMAIN m /\ m[d[p].body.key] = p
  <2> DEFINE k == d[p].body.key
  <2>1. p \in Nat /\ 0 <= p
    OBVIOUS
  <2>2. CASE p < mid
    <3>1. k \in DOMAIN f /\ f[k] = p
      BY <1>6, <2>1, <2>2 DEF Exactly
    <3>2. QED
      BY <1>1, <3>1
  <2>3. CASE mid <= p
    <3>1. k \in DOMAIN g /\ g[k] = p
      BY <1>6, <2>3 DEF Exactly
    <3>2. QED
      BY <1>1, <1>4, <3>1
  <2>4. QED
    BY <2>1, <2>2, <2>3
<1>7. Exactly(d, m, 0, to)
  BY <1>5, <1>6 DEF Exactly
<1>8. QED
  BY <1>7 DEF m

(***************************************************************************)
(* What the loop of createEventMap collects from a block on is the headers *)
(* before this block.                                                      *)
(***************************************************************************)
LEMMA EntriesExact ==
  ASSUME NEW d, AccTyped(d), Linked(d), IndexSound(d),
         NEW n \in Nat, Tidy(d, n), Keyed(d, n),
         NEW tip \in DOMAIN d, tip < n, d[tip].kind = "acc"
  PROVE  Exactly(d, ChainEntries(d, tip), 0, tip)
<1>1. PICK g : EntriesWalk(g, d) /\ \A p \in Nat : ChainEntries(d, p) = g[p]
  BY ChainEntriesPath
<1> DEFINE AtBlock(q) == q \in DOMAIN d /\ q < n /\ d[q].kind = "acc"
           Bad == {q \in Nat : (q = 0 \/ AtBlock(q)) /\ ~Exactly(d, g[q], 0, q)}
<1>2. DOMAIN d \subseteq Nat
  BY DEF AccTyped
<1>3. Bad = {}
  <2> SUFFICES ASSUME Bad # {} PROVE FALSE
    OBVIOUS
  <2>1. PICK q \in Bad : \A x \in Bad : q <= x
    <3> HIDE DEF Bad
    <3>1. Bad \in SUBSET Nat
      BY DEF Bad
    <3>2. QED
      BY <3>1, LeastNatural
  <2>2. g[q] = IF q = 0 \/ ~IsKind(d, q, "acc") THEN NoRecords
               ELSE Merge(g[d[q].body.prev], ReadIndexAt(d, d[q].body.index))
    BY <1>1 DEF EntriesWalk
  <2>3. CASE q = 0
    <3>1. DOMAIN g[q] = {}
      BY <2>2, <2>3 DEF NoRecords
    <3>2. Exactly(d, g[q], 0, q)
      BY <1>2, <2>3, <3>1 DEF Exactly
    <3>3. QED
      BY <3>2
  <2>4. CASE q # 0
    <3> DEFINE x == d[q].body.prev
               own == ReadIndexAt(d, d[q].body.index)
    <3>1. AtBlock(q) /\ q \in Nat /\ q <= q /\ q <= n
      BY <2>4
    <3>2. IsKind(d, q, "acc") /\ LastBlock(d, x, q)
      BY <3>1 DEF Tidy, TidyAt, Placed, IsKind, Readable
    <3>3. x \in Nat /\ x < q /\ x <= q
      BY <3>1, <3>2, AccessFields DEF AccTyped, Linked, Links
    <3>4. x = 0 \/ AtBlock(x)
      BY <3>1, <3>2, <3>3 DEF LastBlock
    <3>5. Exactly(d, g[x], 0, x)
      BY <2>1, <3>3, <3>4
    <3>6. Exactly(d, own, x, q)
      BY <3>1 DEF Keyed, IndexedAt, ReadIndexAt
    <3>7. g[q] = Merge(g[x], own)
      BY <2>2, <2>4, <3>2
    <3> HIDE DEF x, own
    <3>8. Exactly(d, g[q], 0, q)
      BY <1>2, <3>1, <3>3, <3>5, <3>6, <3>7, ExactlyJoined DEF Keyed
    <3>9. QED
      BY <3>8
  <2>5. QED
    BY <2>3, <2>4
<1>4. tip \in Nat
  BY <1>2
<1>5. QED
  BY <1>1, <1>3, <1>4

(***************************************************************************)
(* Where all records are intact the walk from a position passes what       *)
(* follows anything it passes.                                             *)
(***************************************************************************)
LEMMA WalkGoesOn ==
  ASSUME NEW d, NEW kinds, NEW n, Within(d, n), \A p \in DOMAIN d : d[p].ok,
         NEW f, ScanWalk(f, d, kinds), NEW x \in Nat,
         NEW q \in f[x], q \in DOMAIN d, q + Length(d[q]) \in DOMAIN d
  PROVE  q + Length(d[q]) \in f[x]
<1> DEFINE Misses(y, r) == r \in DOMAIN d /\ r + Length(d[r]) \in DOMAIN d /\ r + Length(d[r]) \notin f[y]
           Bad == {y \in Nat : \E r \in f[y] : Misses(y, r)}
<1>1. SUFFICES ASSUME Bad # {} PROVE FALSE
  OBVIOUS
<1>2. \A y \in Nat : y \notin DOMAIN d => f[y] = {}
  BY DEF ScanWalk, ScanStops
<1>3. n \in Nat /\ \A y \in Bad : y <= n
  BY <1>2 DEF Within
<1>4. PICK y \in Bad : \A z \in Bad : z <= y
  <2> HIDE DEF Bad
  <2>1. Bad \in SUBSET Nat
    BY DEF Bad
  <2>2. QED
    BY <1>1, <1>3, <2>1, LastPosition
<1> DEFINE z == y + Length(d[y])
<1>5. y \in Nat /\ y \in DOMAIN d /\ z \in Nat /\ y < z
  BY <1>2, Lengths
<1>6. \A v \in DOMAIN d : v \in Nat => v \in f[v]
  BY DEF ScanWalk, ScanStops
<1>7. f[y] = {y} \cup f[z]
  BY <1>5 DEF ScanWalk, ScanStops
<1>8. z \notin Bad
  BY <1>4, <1>5
<1>9. PICK r \in f[y] : Misses(y, r)
  BY <1>4
<1>10. CASE r = y
  BY <1>5, <1>6, <1>7, <1>9, <1>10
<1>11. CASE r \in f[z]
  <2>1. ~Misses(z, r)
    BY <1>5, <1>8, <1>11
  <2>2. QED
    BY <1>7, <1>9, <2>1
<1>12. QED
  BY <1>7, <1>10, <1>11

(***************************************************************************)
(* Reading a file of intact records without gaps passes all of its run and *)
(* event headers.                                                          *)
(***************************************************************************)
LEMMA AllHeadersRead ==
  ASSUME NEW d, NEW n, Within(d, n), \A p \in DOMAIN d : d[p].ok /\ EndsAt(d, p)
  PROVE  Headers(d) = {p \in DOMAIN d : HeaderAt(d, p)}
<1> DEFINE kinds == {"run", "hdr"}
<1>1. PICK f : /\ ScanWalk(f, d, kinds)
               /\ \A from \in Nat : Scan(d, kinds, from) =
                    {p \in DOMAIN d : d[p].kind \in kinds /\ d[p].ok /\ p \in f[from]}
  BY ScanPath
<1>2. \A p \in DOMAIN d : p \in Nat
  BY DEF Within
<1> DEFINE start == 0
           Bad == {p \in DOMAIN d : p \notin f[start]}
<1>3. start \in Nat
  OBVIOUS
<1> HIDE DEF start
<1>4. Bad = {}
  <2> SUFFICES ASSUME Bad # {} PROVE FALSE
    OBVIOUS
  <2>1. PICK p \in Bad : \A x \in Bad : p <= x
    <3>1. Bad \in SUBSET Nat
      BY <1>2
    <3> HIDE DEF Bad
    <3>2. QED
      BY <3>1, LeastNatural
  <2>2. p \in DOMAIN d /\ p \in Nat /\ EndsAt(d, p)
    BY <1>2
  <2>3. CASE p = 0
    <3>1. ~ScanStops(d, kinds, p)
      BY <2>2 DEF ScanStops
    <3>2. f[p] = IF ScanStops(d, kinds, p) THEN {} ELSE {p} \cup f[p + Length(d[p])]
      BY <1>1, <2>2 DEF ScanWalk
    <3>3. p \in f[start]
      BY <2>3, <3>1, <3>2 DEF start
    <3>4. QED
      BY <3>3
  <2>4. ASSUME NEW q \in DOMAIN d, q + Length(d[q]) = p PROVE FALSE
    <3>1. q \in Nat /\ q < p
      BY <1>2, <2>2, <2>4, Lengths
    <3>2. q \in f[start]
      BY <2>1, <2>2, <3>1
    <3> HIDE DEF kinds
    <3>3. p \in f[start]
      BY <1>1, <1>3, <2>2, <2>4, <3>2, WalkGoesOn
    <3>4. QED
      BY <3>3
  <2>5. QED
    BY <2>2, <2>3, <2>4 DEF EndsAt
<1>5. Scan(d, kinds, start) = {p \in DOMAIN d : d[p].kind \in kinds}
  BY <1>1, <1>3, <1>4
<1>6. QED
  BY <1>5 DEF Headers, HeaderAt, start

(***************************************************************************)
(* So the map made by reading such a file from the start is any that has   *)
(* exactly its headers.                                                    *)
(***************************************************************************)
LEMMA RecreatedExactly ==
  ASSUME NEW d, NEW n, Within(d, n), \A p \in DOMAIN d : d[p].ok /\ EndsAt(d, p),
         NEW e, \A p \in DOMAIN d : HeaderAt(d, p) => p < e,
         NEW f, f = [k \in DOMAIN f |-> f[k]], Exactly(d, f, 0, e)
  PROVE  RecreateEventMap(d) = AddAll(EmptyMap, f)
<1> DEFINE H == Headers(d)
           K == {d[p].body.key : p \in H}
           at(k) == {p \in H : d[p].body.key = k}
           last(k) == CHOOSE p \in at(k) : \A q \in at(k) : q <= p
           r == [k \in K |-> last(k)]
<1>1. H = {p \in DOMAIN d : HeaderAt(d, p)}
  BY AllHeadersRead
<1> HIDE DEF H
<1>2. \A p \in DOMAIN d : p \in Nat /\ 0 <= p
  BY DEF Within
<1>3. \A p \in H : /\ p \in Nat /\ d[p].body.key \in DOMAIN f /\ f[d[p].body.key] = p
  BY <1>1, <1>2 DEF Exactly
<1>4. \A k \in DOMAIN f : f[k] \in H /\ d[f[k]].body.key = k
  BY <1>1 DEF Exactly
<1>5. K = DOMAIN f
  <2>1. \A k \in K : k \in DOMAIN f
    BY <1>3
  <2>2. \A k \in DOMAIN f : k \in K
    BY <1>4
  <2> HIDE DEF K
  <2>3. QED
    BY <2>1, <2>2
<1>6. ASSUME NEW k \in DOMAIN f PROVE last(k) = f[k]
  <2>1. at(k) = {f[k]} /\ f[k] \in Nat
    BY <1>3, <1>4
  <2> HIDE DEF at
  <2>2. f[k] \in at(k) /\ (\A q \in at(k) : q <= f[k]) /\ \A p \in at(k) : p = f[k]
    BY <2>1
  <2>3. QED
    BY <2>2
<1>7. r = f
  <2> HIDE DEF last, K
  <2>1. \A k \in DOMAIN f : r[k] = f[k]
    BY <1>5, <1>6
  <2>2. r = [k \in DOMAIN f |-> r[k]]
    BY <1>5
  <2>3. QED
    BY <2>1, <2>2
<1>8. RecreateEventMap(d) = AddAll(EmptyMap, r)
  BY DEF RecreateEventMap, H
<1>9. QED
  BY <1>7, <1>8

(***************************************************************************)
(* Direct access finds the runs and events that reading from the start     *)
(* finds, at the same positions and in the same number, while no writer    *)
(* has died: in files of clients that write no key twice and either write  *)
(* a run header for every run they write events of or none.                *)
(***************************************************************************)
THEOREM SpecDirectIsSequential ==
  ASSUME UniqueKeys, WholeRuns
  PROVE  Spec /\ [](wpos <= IntMax) => [](crashes = 0 => DirectIsSequential)
<1>1. ASSUME IInv, LinkInv, SoundInv, TidyInv, ListedInv, mode = "closed", size > 0
      PROVE  Direct = [status |-> "ok", map |-> RecreateEventMap(disk)]
  <2> DEFINE e == size - AccLen
             tip == disk[e].body.next
             f == ChainEntries(disk, tip)
  <2>1. /\ Ended(disk, e) /\ size >= AccLen /\ e \in Nat /\ tip \in Nat
        /\ e \in DOMAIN disk /\ IsKind(disk, e, "acc") /\ IsKind(disk, tip, "acc")
        /\ Tidy(disk, e) /\ LastBlock(disk, tip, e)
    BY <1>1, ClosedEnd
  <2>2. AccTyped(disk) /\ Linked(disk) /\ IndexSound(disk) /\ DOMAIN disk \subseteq Nat
    BY <1>1, DiskTyped DEF LinkInv, SoundInv, AccTyped
  <2>3. size \in Nat /\ Within(disk, size)
    BY <1>1, Positions DEF IInv, DiskInv
  <2>4. KeyedEnd(disk, e)
    BY <1>1, <2>3 DEF ListedInv, FileListed, FileKeyed
  <2>5. ~(\E p \in Chain(disk, tip) : ~Readable(disk, p))
        /\ ~(\E p \in Chain(disk, tip) : disk[p].kind # "acc")
    <3> HIDE DEF tip
    <3>1. \A p \in Chain(disk, tip) : IsKind(disk, p, "acc")
      BY <2>1, <2>2, ChainIntact
    <3>2. QED
      BY <3>1 DEF IsKind
  <2>6. Direct = [status |-> "ok", map |-> AddAll(EmptyMap, f)]
    <3>1. ~(size < AccLen) /\ Readable(disk, e)
      BY <2>1, <2>3, Lengths DEF IsKind
    <3>2. QED
      BY <2>1, <2>5, <3>1 DEF Direct, CreateEventMap
  <2> HIDE DEF tip
  <2>7. tip \in DOMAIN disk /\ tip < e /\ disk[tip].kind = "acc"
    <3>1. tip \in DOMAIN disk /\ disk[tip].kind = "acc" /\ tip # 0
      BY <2>1 DEF IsKind, Readable, Ended, tip
    <3>2. QED
      BY <2>1, <3>1 DEF LastBlock
  <2> HIDE DEF e
  <2>8. Exactly(disk, f, 0, e)
    <3>1. Exactly(disk, f, 0, tip)
      BY <2>1, <2>2, <2>4, <2>7, EntriesExact DEF KeyedEnd
    <3>2. Exactly(disk, NoRecords, tip, e)
      BY <2>4 DEF KeyedEnd, tip
    <3>3. \A p \in DOMAIN disk : tip <= p /\ p < e => ~HeaderAt(disk, p)
      BY <3>2 DEF Exactly, NoRecords
    <3> DEFINE start == 0
    <3>4. Exactly(disk, f, start, tip) /\ tip <= e
      BY <2>1, <2>7, <3>1
    <3> HIDE DEF start, f
    <3>5. Exactly(disk, f, start, e)
      BY <2>1, <2>2, <3>3, <3>4, ExactlyGrows
    <3>6. QED
      BY <3>5 DEF start
  <2>9. f = [k \in DOMAIN f |-> f[k]]
    <3>1. f \in HeaderMaps(disk)
      BY <2>1, <2>2, ChainEntriesSound
    <3> HIDE DEF f
    <3>2. QED
      BY <3>1 DEF HeaderMaps
  <2>10. \A p \in DOMAIN disk : /\ disk[p].ok /\ EndsAt(disk, p)
                                /\ HeaderAt(disk, p) => p < e
    <3> SUFFICES ASSUME NEW p \in DOMAIN disk
                 PROVE  disk[p].ok /\ EndsAt(disk, p) /\ (HeaderAt(disk, p) => p < e)
      OBVIOUS
    <3>1. p \in Nat /\ p <= e
      BY <2>1, <2>2 DEF Ended
    <3>2. CASE p < e
      BY <2>1, <3>2 DEF Tidy, TidyAt
    <3>3. CASE p = e
      BY <2>1, <3>3 DEF Tidy, IsKind, Readable, HeaderAt
    <3>4. QED
      BY <2>1, <3>1, <3>2, <3>3
  <2> HIDE DEF f
  <2>11. RecreateEventMap(disk) = AddAll(EmptyMap, f)
    BY <2>3, <2>8, <2>9, <2>10, RecreatedExactly
  <2>12. QED
    BY <2>6, <2>11
<1>2. /\ IInv /\ LinkInv /\ SoundInv /\ TidyUnlessCrashed /\ ListedUnlessCrashed
      => (crashes = 0 => DirectIsSequential)
  BY <1>1 DEF TidyUnlessCrashed, ListedUnlessCrashed, DirectIsSequential
<1>3. Spec /\ [](wpos <= IntMax) => []SoundInv
  BY SpecBoundedSoundInv
<1>4. Spec /\ [](wpos <= IntMax) => []ListedUnlessCrashed
  BY SpecListedInv
<1>5. QED
  BY <1>2, <1>3, <1>4, SpecIInv, SpecLinkInv, SpecTidyInv, PTL

=============================================================================
