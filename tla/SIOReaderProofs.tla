--------------------------- MODULE SIOReaderProofs ---------------------------
(***************************************************************************)
(* A reader for any list of files, with any records in them, and any       *)
(* listeners: its state stays of its type, what it holds refers to intact  *)
(* records, and readStream tells every listener once. The reads are        *)
(* recursive functions of the position in a file, of the file in a list    *)
(* and of the reads of one call; two lemmas on such functions (they exist, *)
(* and end) carry the facts about one read to a whole call.                *)
(***************************************************************************)
EXTENDS SIOReader, OperatorProofs

(***************************************************************************)
(* The reader, with a map of the set M.                                    *)
(***************************************************************************)
Refs == (Files \X Nat) \cup {None}
Readers(M) ==
  [stream : {"none", "open", "error"}, file : Files \cup {None}, pos : Nat,
   names : Seq(Files), index : Nat, direct : BOOLEAN, map : M,
   run : Refs, evt : Refs, data : Refs]
Statuses == {"ok", "EOF", "IOException", "null"}

\* What the reader holds is an intact record of its kind.
Refers(ref, kind) ==
  ref # None =>
    /\ ref[1] \in Files /\ ref[2] \in DOMAIN content[ref[1]]
    /\ RecordOf(ref).kind = kind /\ RecordOf(ref).ok

\* The positions in an event map are those of records of the file.
PositionsIn(m, n) == \A k \in Keys(m) : m.pos[k] \in 1 .. n

GoodRd(r) ==
  /\ r.stream # "none" => /\ r.file \in Files /\ r.pos \in 1 .. Len(Records(r)) + 1
                          /\ PositionsIn(r.map, Len(Records(r)))
  /\ r.stream = "none" => r.map = EmptyMap
  /\ r.names = << >> => r.index = 0
  /\ r.names # << >> => r.index + 1 \in DOMAIN r.names
  /\ Refers(r.run, "run") /\ Refers(r.evt, "hdr") /\ Refers(r.data, "evt")

\* A reader that is not closed.
Good(r, M) == r \in Readers(M) /\ GoodRd(r) /\ r.stream # "none"
GoodOut(o, M) == o = Outcome(o.rd, o.status) /\ Good(o.rd, M) /\ o.status \in Statuses

\* A record of a wanted kind was read last.
JustRead(r, wanted) ==
  /\ r.stream = "open" /\ r.pos - 1 \in DOMAIN Records(r)
  /\ Records(r)[r.pos - 1].kind \in wanted

\* The records of a file.
LEMMA RecordsOfFile ==
  ASSUME content \in Contents, NEW f \in Files
  PROVE  /\ content[f] \in Seq([kind : STRING, key : MapKeys, ok : BOOLEAN])
         /\ Len(content[f]) \in Nat /\ DOMAIN content[f] = 1 .. Len(content[f])
         /\ \A i \in DOMAIN content[f] : content[f][i].kind = "junk" => ~content[f][i].ok
<1>1. content[f] \in Seq([kind : STRING, key : MapKeys, ok : BOOLEAN])
  BY ReaderAssumption
<1>2. QED
  BY <1>1, JunkAssumption, LenProperties

-----------------------------------------------------------------------------
(* One file. *)

\* A record of a wanted kind that is unpacked leaves a reader that holds it.
LEMMA UnpackedGood ==
  ASSUME content \in Contents, NEW M, NEW r, Good(r, M), r.stream = "open",
         NEW wanted \in SUBSET {"run", "hdr", "evt"}, NEW i \in DOMAIN Records(r),
         Records(r)[i].kind \in wanted, Records(r)[i].ok
  PROVE  /\ Good(Unpacked(r, i), M)
         /\ Unpacked(r, i).names = r.names /\ Unpacked(r, i).index = r.index
         /\ JustRead(Unpacked(r, i), wanted)
<1> DEFINE ref == <<r.file, i>>
           kind == Records(r)[i].kind
<1>1. r \in Readers(M) /\ r.file \in Files /\ GoodRd(r)
  BY DEF Good, GoodRd
<1>2. Records(r) = content[r.file] /\ Len(Records(r)) \in Nat /\ DOMAIN Records(r) = 1 .. Len(Records(r))
  BY <1>1, RecordsOfFile DEF Records
<1>3. i \in Nat /\ i + 1 \in Nat /\ i + 1 \in 1 .. Len(Records(r)) + 1 /\ (i + 1) - 1 = i
  BY <1>2
<1>4. ref \in Refs /\ Refers(ref, kind)
  BY <1>1, <1>2, <1>3 DEF Refs, Refers, RecordOf
<1> DEFINE u == Unpacked(r, i)
<1>5. /\ u \in Readers(M) /\ u.stream = r.stream /\ u.file = r.file /\ u.pos = i + 1
      /\ u.names = r.names /\ u.index = r.index /\ u.map = r.map
      /\ Refers(u.run, "run") /\ Refers(u.evt, "hdr") /\ Refers(u.data, "evt")
  <2> HIDE DEF ref, kind
  <2>1. r.run \in Refs /\ r.evt \in Refs /\ r.data \in Refs /\ None \in Refs /\ Refers(None, "evt")
    BY <1>1 DEF Readers, Refs, Refers
  <2>2. Refers(r.run, "run") /\ Refers(r.evt, "hdr") /\ Refers(r.data, "evt")
    BY <1>1 DEF GoodRd
  <2>3. CASE kind = "run"
    <3>1. u = [r EXCEPT !.pos = i + 1, !.run = ref]
      BY <2>3 DEF Unpacked, kind, ref
    <3> HIDE DEF u
    <3>2. QED
      BY <1>1, <1>3, <1>4, <2>1, <2>2, <2>3, <3>1 DEF Readers
  <2>4. CASE kind = "hdr"
    <3>1. u = [r EXCEPT !.pos = i + 1, !.evt = ref, !.data = None]
      BY <2>4 DEF Unpacked, kind, ref
    <3> HIDE DEF u
    <3>2. QED
      BY <1>1, <1>3, <1>4, <2>1, <2>2, <2>4, <3>1 DEF Readers
  <2>5. CASE kind = "evt"
    <3>1. u = [r EXCEPT !.pos = i + 1, !.data = ref]
      BY <2>5 DEF Unpacked, kind, ref
    <3> HIDE DEF u
    <3>2. QED
      BY <1>1, <1>3, <1>4, <2>1, <2>2, <2>5, <3>1 DEF Readers
  <2>6. QED
    BY <2>3, <2>4, <2>5 DEF kind
<1> HIDE DEF u
<1>6. Records(u) = Records(r)
  BY <1>5 DEF Records
<1>7. GoodRd(u)
  BY <1>1, <1>3, <1>5, <1>6 DEF GoodRd
<1>8. JustRead(u, wanted)
  BY <1>3, <1>5, <1>6 DEF JustRead
<1>9. QED
  BY <1>5, <1>7, <1>8 DEF Good, u

(***************************************************************************)
(* A call that reads one stream leaves a reader with an open stream and    *)
(* what it held or has just read.                                          *)
(***************************************************************************)
LEMMA ReadHereGood ==
  ASSUME content \in Contents, NEW M, NEW r, Good(r, M), NEW wanted \in SUBSET {"run", "hdr", "evt"}
  PROVE  LET o == ReadHere(r, wanted)
         IN  /\ GoodOut(o, M) /\ o.rd.names = r.names /\ o.rd.index = r.index
             /\ o.status = "ok" => JustRead(o.rd, wanted)
             /\ o.status # "null"
<1> DEFINE recs == Records(r)
           hits == {i \in r.pos .. Len(recs) : recs[i].kind \in wanted \cup {"junk"}}
           i == CHOOSE j \in hits : \A h \in hits : j <= h
           atEnd == [r EXCEPT !.pos = Len(recs) + 1]
           o == ReadHere(r, wanted)
<1>1. r \in Readers(M) /\ GoodRd(r)
  BY DEF Good
<1>2. CASE r.stream # "open"
  <2>1. o = Outcome(r, "IOException")
    BY <1>2 DEF ReadHere
  <2>2. o.rd = r /\ o.status = "IOException"
    BY <2>1 DEF Outcome
  <2> HIDE DEF o
  <2>3. QED
    BY <2>1, <2>2 DEF GoodOut, Statuses, o
<1>3. CASE r.stream = "open"
  <2>1. r.file \in Files /\ r.pos \in 1 .. Len(recs) + 1
    BY <1>1, <1>3 DEF GoodRd
  <2>2. Len(recs) \in Nat /\ DOMAIN recs = 1 .. Len(recs)
        /\ \A j \in DOMAIN recs : recs[j].kind = "junk" => ~recs[j].ok
    BY <2>1, RecordsOfFile DEF Records
  <2> DEFINE n == Len(recs) + 1
  <2>3. ASSUME NEW x \in {"open", "error"}
        PROVE  LET e == [atEnd EXCEPT !.stream = x]
               IN  Good(e, M) /\ e.names = r.names /\ e.index = r.index
    <3>1. n \in Nat /\ n \in 1 .. Len(recs) + 1
      BY <2>2
    <3> DEFINE a == [r EXCEPT !.pos = n]
               e == [a EXCEPT !.stream = x]
    <3> HIDE DEF n
    <3>2. /\ a \in Readers(M) /\ a.file = r.file /\ a.pos = n
          /\ a.names = r.names /\ a.index = r.index /\ a.map = r.map
          /\ a.run = r.run /\ a.evt = r.evt /\ a.data = r.data
      BY <1>1, <3>1 DEF Readers
    <3> HIDE DEF a
    <3>3. /\ e \in Readers(M) /\ e.stream = x /\ e.file = r.file /\ e.pos = n
          /\ e.names = r.names /\ e.index = r.index /\ e.map = r.map
          /\ e.run = r.run /\ e.evt = r.evt /\ e.data = r.data
      BY <3>2 DEF Readers
    <3> HIDE DEF e
    <3>4. Records(e) = recs
      BY <3>3 DEF Records
    <3> HIDE DEF recs
    <3>5. GoodRd(e)
      BY <1>1, <1>3, <2>1, <3>1, <3>3, <3>4 DEF GoodRd, recs
    <3>6. QED
      BY <3>3, <3>5 DEF Good, e, a, n, recs
  <2>4. Good(atEnd, M) /\ atEnd.names = r.names /\ atEnd.index = r.index
    <3>1. [atEnd EXCEPT !.stream = "open"] = atEnd
      BY <1>1, <1>3 DEF Readers
    <3>2. QED
      BY <2>3, <3>1
  <2> HIDE DEF n
  <2>5. CASE hits = {}
    <3>1. o = Outcome(atEnd, "EOF")
      BY <1>3, <2>5 DEF ReadHere
    <3>2. o.rd = atEnd /\ o.status = "EOF"
      BY <3>1 DEF Outcome
    <3> HIDE DEF o, atEnd
    <3>3. QED
      BY <2>4, <3>1, <3>2 DEF GoodOut, Statuses, o
  <2>6. CASE hits # {}
    <3>1. i \in hits
      <4>1. hits \in SUBSET Nat
        BY <2>1, <2>2
      <4> HIDE DEF hits
      <4>2. \E j \in hits : \A h \in hits : j <= h
        BY <2>6, <4>1, LeastNatural
      <4>3. QED
        BY <4>2
    <3> HIDE DEF i
    <3>2. i \in DOMAIN recs /\ recs[i].kind \in wanted \cup {"junk"}
      BY <2>1, <2>2, <3>1
    <3>3. CASE ~recs[i].ok
      <4> DEFINE e == [atEnd EXCEPT !.stream = "error"]
      <4>1. o = Outcome(e, "EOF")
        BY <1>3, <2>6, <3>3 DEF ReadHere, i
      <4>2. o.rd = e /\ o.status = "EOF"
        BY <4>1 DEF Outcome
      <4>3. Good(e, M) /\ e.names = r.names /\ e.index = r.index
        BY <2>3
      <4> HIDE DEF o, e
      <4>4. QED
        BY <4>1, <4>2, <4>3 DEF GoodOut, Statuses, o
    <3>4. CASE recs[i].ok
      <4>1. o = Outcome(Unpacked(r, i), "ok")
        BY <1>3, <2>6, <3>4 DEF ReadHere, i
      <4>2. o.rd = Unpacked(r, i) /\ o.status = "ok"
        BY <4>1 DEF Outcome
      <4>3. recs[i].kind \in wanted
        BY <2>2, <3>2, <3>4
      <4>4. /\ Good(Unpacked(r, i), M) /\ Unpacked(r, i).names = r.names
            /\ Unpacked(r, i).index = r.index /\ JustRead(Unpacked(r, i), wanted)
        BY <1>3, <3>2, <3>4, <4>3, UnpackedGood
      <4> HIDE DEF o
      <4>5. QED
        BY <4>1, <4>2, <4>4 DEF GoodOut, Statuses, o
    <3>5. QED
      BY <3>3, <3>4
  <2>7. QED
    BY <2>5, <2>6
<1>4. QED
  BY <1>2, <1>3

-----------------------------------------------------------------------------
(* Recursive functions on the natural numbers. *)

(***************************************************************************)
(* f walks on from i to i + 1 until it stops.                              *)
(***************************************************************************)
Walks(f, stop, base) ==
  \A i \in Nat : f[i] = IF i \in stop THEN base[i] ELSE f[i + 1]

\* It stops before n.
StopsBefore(stop, n) == \A i \in Nat \ stop : i + 1 < n

\* A function that walks on exists.
LEMMA WalkExists ==
  ASSUME NEW n \in Nat, NEW V, NEW stop, NEW base \in [Nat -> V],
         StopsBefore(stop, n)
  PROVE  \E f : f \in [Nat -> V] /\ Walks(f, stop, base)
<1> DEFINE rank == [i \in Nat |-> IF i < n THEN n - i ELSE 0]
           nxt  == [i \in Nat |-> i + 1]
           step == [x \in Nat \X V |-> x[2]]
<1>1. rank \in [Nat -> Nat] /\ nxt \in [Nat -> Nat] /\ step \in [Nat \X V -> V]
  OBVIOUS
<1>2. \A i \in Nat \ stop : rank[nxt[i]] < rank[i]
  BY DEF StopsBefore
<1>3. \A i \in Nat : nxt[i] = i + 1 /\ \A v \in V : step[<<i, v>>] = v
  OBVIOUS
<1> HIDE DEF rank, nxt, step
<1>4. PICK f : Solves(f, Nat, V, stop, base, nxt, step)
  BY <1>1, <1>2, RecursionExists
<1>5. f \in [Nat -> V]
  BY <1>4 DEF Solves
<1>6. ASSUME NEW i \in Nat PROVE f[i] = IF i \in stop THEN base[i] ELSE f[i + 1]
  <2>1. f[i] = IF i \in stop THEN base[i] ELSE step[<<i, f[nxt[i]]>>]
    BY <1>4 DEF Solves
  <2>2. nxt[i] = i + 1 /\ f[i + 1] \in V
    BY <1>3, <1>5
  <2>3. QED
    BY <1>3, <2>1, <2>2
<1>7. QED
  BY <1>5, <1>6 DEF Walks

\* And takes the value at which it stops.
LEMMA WalkEnds ==
  ASSUME NEW n \in Nat, NEW stop, NEW base, StopsBefore(stop, n),
         NEW f, Walks(f, stop, base), NEW i \in Nat, i < n
  PROVE  \E j \in Nat : j < n /\ f[i] = base[j]
<1> DEFINE ends(k) == \E j \in Nat : j < n /\ f[k] = base[j]
           S == {d \in Nat : \A k \in Nat : k < n /\ n <= k + d => ends(k)}
<1>1. 0 \in S
  OBVIOUS
<1>2. ASSUME NEW d \in S PROVE d + 1 \in S
  <2> SUFFICES ASSUME NEW k \in Nat, k < n, n <= k + (d + 1) PROVE ends(k)
    OBVIOUS
  <2>1. CASE k \in stop
    BY <2>1 DEF Walks
  <2>2. CASE k \notin stop
    <3>1. k + 1 \in Nat /\ k + 1 < n /\ n <= (k + 1) + d
      BY <2>2 DEF StopsBefore
    <3>2. ends(k + 1)
      BY <1>2, <3>1
    <3>3. f[k] = f[k + 1]
      BY <2>2 DEF Walks
    <3>4. QED
      BY <3>2, <3>3
  <2>3. QED
    BY <2>1, <2>2
<1>3. S = Nat
  <2> HIDE DEF S
  <2>1. S \in SUBSET Nat
    BY DEF S
  <2>2. QED
    BY <1>1, <1>2, <2>1, SetInduction
<1>4. n - i \in Nat /\ n <= i + (n - i)
  OBVIOUS
<1>5. ends(i)
  BY <1>3, <1>4
<1>6. QED
  BY <1>5

(***************************************************************************)
(* f starts with first and goes on by steps after b.                       *)
(***************************************************************************)
Iterates(f, b, first, step) ==
  f = [i \in Nat |-> IF i <= b THEN first ELSE step[f[i - 1]]]

\* A function that goes on by steps exists.
LEMMA IterationExists ==
  ASSUME NEW V, NEW first \in V, NEW step \in [V -> V], NEW b \in Nat
  PROVE  \E f \in [Nat -> V] : Iterates(f, b, first, step)
<1> DEFINE rank == [i \in Nat |-> i]
           nxt  == [i \in Nat |-> IF i = 0 THEN 0 ELSE i - 1]
           stop == 0 .. b
           base == [i \in Nat |-> first]
           next == [x \in Nat \X V |-> step[x[2]]]
<1>1. /\ rank \in [Nat -> Nat] /\ nxt \in [Nat -> Nat]
      /\ base \in [Nat -> V] /\ next \in [Nat \X V -> V]
  OBVIOUS
<1>2. \A i \in Nat \ stop : rank[nxt[i]] < rank[i] /\ nxt[i] = i - 1
  OBVIOUS
<1>3. \A i \in Nat : base[i] = first /\ (i \in stop <=> i <= b) /\ \A v \in V : next[<<i, v>>] = step[v]
  OBVIOUS
<1> HIDE DEF rank, nxt, stop, base, next
<1>4. PICK f : Solves(f, Nat, V, stop, base, nxt, next)
  BY <1>1, <1>2, RecursionExists
<1>5. f \in [Nat -> V]
  BY <1>4 DEF Solves
<1>6. ASSUME NEW i \in Nat PROVE f[i] = IF i <= b THEN first ELSE step[f[i - 1]]
  <2>1. f[i] = IF i \in stop THEN base[i] ELSE next[<<i, f[nxt[i]]>>]
    BY <1>4 DEF Solves
  <2>2. nxt[i] \in Nat /\ f[nxt[i]] \in V
    BY <1>1, <1>5
  <2>3. QED
    BY <1>2, <1>3, <2>1, <2>2
<1>7. f = [i \in Nat |-> IF i <= b THEN first ELSE step[f[i - 1]]]
  BY <1>5, <1>6
<1>8. QED
  BY <1>5, <1>7 DEF Iterates

\* And stays among the values its steps keep to.
LEMMA IterationTyped ==
  ASSUME NEW V, NEW b \in Nat, NEW f, \A i \in Nat : i <= b => f[i] \in V,
         \A i \in Nat : i > b /\ f[i - 1] \in V => f[i] \in V
  PROVE  \A i \in Nat : f[i] \in V
<1> DEFINE S == {i \in Nat : f[i] \in V}
<1>1. 0 \in S
  OBVIOUS
<1>2. ASSUME NEW i \in S PROVE i + 1 \in S
  <2>1. i \in Nat /\ i + 1 \in Nat /\ (i + 1) - 1 = i /\ f[i] \in V
    BY <1>2
  <2>2. CASE i + 1 <= b
    BY <2>1, <2>2
  <2>3. CASE i + 1 > b
    BY <2>1, <2>3
  <2>4. QED
    BY <2>1, <2>2, <2>3
<1>3. S = Nat
  <2> HIDE DEF S
  <2>1. S \in SUBSET Nat
    BY DEF S
  <2>2. QED
    BY <1>1, <1>2, <2>1, SetInduction
<1>4. QED
  BY <1>3

-----------------------------------------------------------------------------
(* The files of a list. *)

\* The next file of a list is opened with an event map of its own, empty.
LEMMA OpenedAtGood ==
  ASSUME content \in Contents, NEW M, EmptyMap \in M, NEW r, Good(r, M),
         NEW i \in Nat, i + 1 \in DOMAIN r.names
  PROVE  Good(OpenedAt(Closed(r), i), M) /\ OpenedAt(Closed(r), i).names = r.names
<1>1. r \in Readers(M) /\ GoodRd(r) /\ r.names \in Seq(Files)
  BY DEF Good, Readers
<1>2. r.names[i + 1] \in Files /\ r.names # << >>
  <2> DEFINE s == r.names
  <2> HIDE DEF s
  <2>1. s \in Seq(Files) /\ i + 1 \in DOMAIN s
    BY <1>1 DEF s
  <2>2. s[i + 1] \in Files /\ s # << >>
    BY <2>1
  <2>3. QED
    BY <2>2 DEF s
<1> DEFINE e == [r EXCEPT !.stream = "none", !.map = EmptyMap, !.direct = FALSE]
           f == r.names[i + 1]
           o == [e EXCEPT !.stream = "open", !.index = i, !.file = f, !.pos = 1]
<1>3. /\ e \in Readers(M) /\ e.names = r.names /\ e.map = EmptyMap
      /\ e.run = r.run /\ e.evt = r.evt /\ e.data = r.data
  BY <1>1 DEF Readers
<1>4. o = OpenedAt(Closed(r), i)
  BY <1>3 DEF OpenedAt, Closed
<1> HIDE DEF e, f
<1>5. f \in Files /\ f \in Files \cup {None}
  BY <1>2 DEF f
<1>6. /\ o \in Readers(M) /\ o.stream = "open" /\ o.index = i /\ o.file = f /\ o.pos = 1
      /\ o.names = r.names /\ o.map = EmptyMap
      /\ o.run = r.run /\ o.evt = r.evt /\ o.data = r.data
  BY <1>3, <1>5 DEF Readers
<1> HIDE DEF o
<1>7. Len(Records(o)) \in Nat /\ PositionsIn(o.map, Len(Records(o)))
  BY <1>5, <1>6, RecordsOfFile, EmptyCounted DEF Records, PositionsIn
<1>8. 1 \in 1 .. Len(Records(o)) + 1
  BY <1>7
<1>9. GoodRd(o)
  BY <1>1, <1>2, <1>5, <1>6, <1>7, <1>8 DEF GoodRd
<1>10. QED
  BY <1>4, <1>6, <1>9 DEF Good

(***************************************************************************)
(* readRecord goes on to the next file at the end of one, as often as      *)
(* there are files.                                                        *)
(***************************************************************************)
LEMMA ReadRecordGood ==
  ASSUME content \in Contents, NEW M, EmptyMap \in M, NEW r, Good(r, M),
         NEW wanted \in SUBSET {"run", "hdr", "evt"}
  PROVE  LET o == ReadRecord(r, wanted)
         IN  /\ GoodOut(o, M) /\ o.rd.names = r.names
             /\ o.status = "ok" => JustRead(o.rd, wanted)
<1> DEFINE here == ReadHere(r, wanted)
           h == here.rd
           n == Len(r.names)
           in(i) == ReadHere(OpenedAt(Closed(h), i), wanted)
<1>1. /\ GoodOut(here, M) /\ h.names = r.names
      /\ here.status = "ok" => JustRead(h, wanted)
  BY ReadHereGood
<1>2. CASE ~(here.status = "EOF" /\ r.index + 1 < n)
  <2>1. ReadRecord(r, wanted) = here
    BY <1>2 DEF ReadRecord
  <2> HIDE DEF here
  <2>2. QED
    BY <1>1, <2>1
<1>3. CASE here.status = "EOF" /\ r.index + 1 < n
  <2> DEFINE F == CHOOSE f : f = [i \in Nat |->
                     IF in(i).status = "EOF" /\ i + 1 < n THEN f[i + 1] ELSE in(i)]
  <2>1. ReadRecord(r, wanted) = F[r.index + 1]
    BY <1>3 DEF ReadRecord
  <2>2. n \in Nat /\ DOMAIN r.names = 1 .. n /\ r.index + 1 \in Nat
    <3>1. r.names \in Seq(Files) /\ r.index \in Nat
      BY DEF Good, Readers
    <3> DEFINE s == r.names
    <3> HIDE DEF s
    <3>2. Len(s) \in Nat /\ DOMAIN s = 1 .. Len(s)
      BY <3>1, LenProperties DEF s
    <3>3. QED
      BY <3>1, <3>2 DEF s
  <2>3. ASSUME NEW i \in Nat, i < n
        PROVE  /\ GoodOut(in(i), M) /\ in(i).rd.names = r.names
               /\ in(i).status = "ok" => JustRead(in(i).rd, wanted)
    <3> HIDE DEF here
    <3>1. Good(h, M)
      BY <1>1 DEF GoodOut
    <3> DEFINE x == OpenedAt(Closed(h), i)
    <3>2. i + 1 \in DOMAIN h.names
      BY <1>1, <2>2, <2>3
    <3>3. Good(x, M) /\ x.names = h.names
      BY <3>1, <3>2, OpenedAtGood
    <3> HIDE DEF x
    <3> DEFINE o == ReadHere(x, wanted)
    <3>4. /\ GoodOut(o, M) /\ o.rd.names = x.names
          /\ o.status = "ok" => JustRead(o.rd, wanted)
      BY <3>3, ReadHereGood
    <3> HIDE DEF o
    <3>5. /\ GoodOut(o, M) /\ o.rd.names = r.names
          /\ o.status = "ok" => JustRead(o.rd, wanted)
      BY <1>1, <3>3, <3>4
    <3>6. QED
      BY <3>5 DEF o, x
  <2> HIDE DEF n
  <2> DEFINE base == [i \in Nat |-> in(i)]
             stop == {i \in Nat : ~(in(i).status = "EOF" /\ i + 1 < n)}
             V == {in(i) : i \in Nat}
  <2>4. /\ base \in [Nat -> V] /\ \A i \in Nat : base[i] = in(i)
        /\ \A i \in Nat : i \notin stop <=> (in(i).status = "EOF" /\ i + 1 < n)
    <3> HIDE DEF in
    <3>1. QED
      OBVIOUS
  <2> HIDE DEF base, stop, V, in
  <2>5. StopsBefore(stop, n)
    BY <2>4 DEF StopsBefore
  <2>6. PICK f : f \in [Nat -> V] /\ Walks(f, stop, base)
    BY <2>2, <2>4, <2>5, WalkExists
  <2>7. f = [i \in Nat |-> IF in(i).status = "EOF" /\ i + 1 < n THEN f[i + 1] ELSE in(i)]
    <3>1. ASSUME NEW i \in Nat
          PROVE f[i] = IF in(i).status = "EOF" /\ i + 1 < n THEN f[i + 1] ELSE in(i)
      BY <2>4, <2>6 DEF Walks
    <3>2. f = [i \in Nat |-> f[i]]
      BY <2>6
    <3>3. QED
      BY <3>1, <3>2
  <2>8. F = [i \in Nat |-> IF in(i).status = "EOF" /\ i + 1 < n THEN F[i + 1] ELSE in(i)]
    BY <2>7
  <2> HIDE DEF F
  <2>9. Walks(F, stop, base)
    BY <2>4, <2>8 DEF Walks
  <2>10. r.index + 1 \in Nat /\ r.index + 1 < n
    BY <1>3, <2>2
  <2>11. PICK j \in Nat : j < n /\ F[r.index + 1] = base[j]
    BY <2>2, <2>5, <2>9, <2>10, WalkEnds
  <2>12. ReadRecord(r, wanted) = in(j)
    BY <2>1, <2>4, <2>11
  <2>13. /\ GoodOut(in(j), M) /\ in(j).rd.names = r.names
         /\ in(j).status = "ok" => JustRead(in(j).rd, wanted)
    BY <2>3, <2>11 DEF n
  <2>14. QED
    BY <2>12, <2>13
<1>4. QED
  BY <1>2, <1>3

-----------------------------------------------------------------------------
(* The calls that read. *)

Outs(M) == {Outcome(x, t) : x \in {y \in Readers(M) : Good(y, M)}, t \in Statuses}

\* The outcomes of a call, as a set.
LEMMA OutsGood ==
  ASSUME NEW M, NEW o
  PROVE  o \in Outs(M) <=> GoodOut(o, M)
<1>1. ASSUME o \in Outs(M) PROVE GoodOut(o, M)
  <2>1. PICK x \in Readers(M), t \in Statuses : Good(x, M) /\ o = Outcome(x, t)
    BY <1>1 DEF Outs
  <2>2. o.rd = x /\ o.status = t
    BY <2>1 DEF Outcome
  <2>3. QED
    BY <2>1, <2>2 DEF GoodOut, Good
<1>2. ASSUME GoodOut(o, M) PROVE o \in Outs(M)
  BY <1>2 DEF GoodOut, Good, Outs
<1>3. QED
  BY <1>1, <1>2

\* A call that gives back the reader as it was.
LEMMA OutcomeGood ==
  ASSUME NEW M, NEW r, Good(r, M), NEW t \in Statuses
  PROVE  /\ GoodOut(Outcome(r, t), M)
         /\ Outcome(r, t).rd = r /\ Outcome(r, t).status = t
<1> DEFINE o == Outcome(r, t)
<1>1. o.rd = r /\ o.status = t
  BY DEF Outcome
<1> HIDE DEF o
<1>2. QED
  BY <1>1 DEF GoodOut, o

\* The three reads of one record.
LEMMA KindsGood ==
  ASSUME content \in Contents, NEW M, EmptyMap \in M, NEW r, Good(r, M)
  PROVE  /\ GoodOut(ReadRunRecord(r), M)
         /\ GoodOut(ReadHdrRecord(r), M)
         /\ GoodOut(ReadEvtRecord(r), M)
<1> DEFINE o(w) == ReadRecord(r, w)
<1>1. \A w \in SUBSET {"run", "hdr", "evt"} : GoodOut(o(w), M)
  BY ReadRecordGood
<1>2. {"run"} \in SUBSET {"run", "hdr", "evt"} /\ {"hdr"} \in SUBSET {"run", "hdr", "evt"}
      /\ {"evt"} \in SUBSET {"run", "hdr", "evt"}
  OBVIOUS
<1> HIDE DEF o
<1>3. QED
  BY <1>1, <1>2 DEF o, ReadRunRecord, ReadHdrRecord, ReadEvtRecord

\* readNextEvent.
LEMMA NextEventGood ==
  ASSUME content \in Contents, NEW M, EmptyMap \in M, NEW r, Good(r, M)
  PROVE  GoodOut(NextEventOf(r), M)
<1> DEFINE o == ReadHdrRecord(r)
<1>1. GoodOut(o, M)
  BY KindsGood
<1>2. NextEventOf(r) = IF o.status = "ok" THEN ReadEvtRecord(o.rd) ELSE o
  BY DEF NextEventOf, Then
<1> HIDE DEF o
<1>3. Good(o.rd, M)
  BY <1>1 DEF GoodOut
<1>4. GoodOut(ReadEvtRecord(o.rd), M)
  BY <1>3, KindsGood
<1>5. QED
  BY <1>1, <1>2, <1>4

\* skipNEvents, for any number of events.
LEMMA SkipEventsGood ==
  ASSUME content \in Contents, NEW M, EmptyMap \in M, NEW r, Good(r, M), NEW n \in Nat
  PROVE  GoodOut(SkipEventsOf(r, n), M)
<1> DEFINE first == Outcome(r, "ok")
           F == CHOOSE f : f = [i \in Nat |->
                  IF i = 0 THEN first
                  ELSE IF f[i - 1].status = "ok" THEN ReadHdrRecord(f[i - 1].rd) ELSE f[i - 1]]
           V == Outs(M)
           step == [o \in V |-> IF o.status = "ok" THEN ReadHdrRecord(o.rd) ELSE o]
<1>1. SkipEventsOf(r, n) = IF F[n].status = "ok" THEN ReadEvtRecord(F[n].rd) ELSE F[n]
  BY DEF SkipEventsOf, Then
<1>2. ASSUME NEW o \in V
      PROVE  /\ (IF o.status = "ok" THEN ReadHdrRecord(o.rd) ELSE o) \in V
             /\ GoodOut(ReadEvtRecord(o.rd), M)
  <2>1. GoodOut(o, M) /\ Good(o.rd, M)
    BY OutsGood DEF GoodOut
  <2>2. GoodOut(ReadHdrRecord(o.rd), M) /\ GoodOut(ReadEvtRecord(o.rd), M)
    BY <2>1, KindsGood
  <2>3. QED
    BY <2>1, <2>2, OutsGood
<1>3. first \in V
  <2>1. "ok" \in Statuses
    BY DEF Statuses
  <2>2. GoodOut(first, M)
    BY <2>1, OutcomeGood
  <2> HIDE DEF first
  <2>3. QED
    BY <2>2, OutsGood
<1> HIDE DEF first, V
<1>4. step \in [V -> V] /\ \A o \in V : step[o] = IF o.status = "ok" THEN ReadHdrRecord(o.rd) ELSE o
  BY <1>2
<1> HIDE DEF step
<1>5. PICK f \in [Nat -> V] : Iterates(f, 0, first, step)
  BY <1>3, <1>4, IterationExists
<1>6. \A i \in Nat : f[i] = IF i <= 0 THEN first ELSE step[f[i - 1]]
  BY <1>5 DEF Iterates
<1>7. \A i \in Nat : f[i] \in V
  BY <1>5
<1>8. f = [i \in Nat |->
             IF i = 0 THEN first
             ELSE IF f[i - 1].status = "ok" THEN ReadHdrRecord(f[i - 1].rd) ELSE f[i - 1]]
  <2>1. ASSUME NEW i \in Nat
        PROVE  f[i] = IF i = 0 THEN first
                      ELSE IF f[i - 1].status = "ok" THEN ReadHdrRecord(f[i - 1].rd) ELSE f[i - 1]
    <3>1. CASE i = 0
      BY <1>6, <3>1
    <3>2. CASE i # 0
      <4>1. i - 1 \in Nat /\ ~(i <= 0)
        BY <3>2
      <4>2. f[i - 1] \in V /\ f[i] = step[f[i - 1]]
        BY <1>6, <1>7, <4>1
      <4>3. QED
        BY <1>4, <3>2, <4>2
    <3>3. QED
      BY <3>1, <3>2
  <2>2. f = [i \in Nat |-> f[i]]
    BY <1>5 DEF Iterates
  <2>3. QED
    BY <2>1, <2>2
<1>9. F = [i \in Nat |->
             IF i = 0 THEN first
             ELSE IF F[i - 1].status = "ok" THEN ReadHdrRecord(F[i - 1].rd) ELSE F[i - 1]]
  BY <1>8
<1> HIDE DEF F
<1>10. \A i \in Nat : F[i] \in V
  <2>1. \A i \in Nat : i <= 0 => F[i] \in V
    BY <1>3, <1>9
  <2>2. ASSUME NEW i \in Nat, i > 0, F[i - 1] \in V PROVE F[i] \in V
    BY <1>2, <1>9, <2>2
  <2>3. QED
    BY <2>1, <2>2, IterationTyped
<1>11. F[n] \in V
  BY <1>10
<1>12. QED
  BY <1>1, <1>2, <1>11, OutsGood DEF V

(***************************************************************************)
(* ReadUntil with the two reads and conditions of readEvent.               *)
(***************************************************************************)
MostReads(r) == 1 + Len(Records(r)) + Len(FlattenSeq([i \in DOMAIN r.names |-> content[r.names[i]]]))

\* A call makes finitely many reads.
LEMMA MostReadsNat ==
  ASSUME content \in Contents, NEW M, NEW r, Good(r, M)
  PROVE  MostReads(r) \in Nat
<1> DEFINE R == [kind : STRING, key : MapKeys, ok : BOOLEAN]
           s == r.names
           ss == [i \in DOMAIN s |-> content[s[i]]]
<1>1. r.file \in Files /\ s \in Seq(Files)
  BY DEF Good, GoodRd, Readers
<1> HIDE DEF s, R
<1>2. Len(Records(r)) \in Nat
  BY <1>1, RecordsOfFile DEF Records
<1>3. DOMAIN s = 1 .. Len(s) /\ Len(s) \in Nat /\ \A i \in 1 .. Len(s) : s[i] \in Files
  BY <1>1, LenProperties
<1>4. ss \in [1 .. Len(s) -> Seq(R)]
  BY <1>3, RecordsOfFile DEF R
<1> HIDE DEF ss
<1>5. Len(FlattenSeq(ss)) \in Nat
  <2> DEFINE n == Len(s)
  <2>1. n \in Nat /\ ss \in [1 .. n -> Seq(R)]
    BY <1>3, <1>4
  <2> HIDE DEF n
  <2>2. CASE n = 0
    <3>1. ss = << >> /\ Len(ss) = 0
      BY <2>1, <2>2
    <3>2. FlattenSeq(ss) = ss
      BY <3>1 DEF FlattenSeq
    <3>3. QED
      BY <3>1, <3>2
  <2>3. CASE n # 0
    <3>1. PICK F : Flattens(F, ss, n, R) /\ FlattenSeq(ss) = F[n]
      BY <2>1, <2>3, FlattenIs
    <3>2. F[n] \in Seq(R)
      BY <2>1, <2>3, <3>1 DEF Flattens
    <3>3. QED
      BY <3>1, <3>2, LenProperties
  <2>4. QED
    BY <2>2, <2>3
<1>6. QED
  BY <1>2, <1>5 DEF MostReads, ss, s

UntilRun(r, key) == ReadUntil(r, ReadRunRecord, LAMBDA x : RunNumber(x.run) = key.RunNum)

\* readRunHeader by number in a file that cannot be sought in: it reads on.
LEMMA UntilRunGood ==
  ASSUME content \in Contents, NEW M, EmptyMap \in M, NEW r, Good(r, M), NEW key
  PROVE  GoodOut(UntilRun(r, key), M)
<1> DEFINE enough(x) == RunNumber(x.run) = key.RunNum
           more(u) == IF u.status # "ok" \/ enough(u.rd) THEN u ELSE ReadRunRecord(u.rd)
           first == ReadRunRecord(r)
           F == CHOOSE f : f = [i \in Nat |-> IF i <= 1 THEN first ELSE more(f[i - 1])]
           V == Outs(M)
           step == [u \in V |-> more(u)]
<1>1. UntilRun(r, key) = F[MostReads(r)]
  BY DEF UntilRun, ReadUntil, MostReads
<1>2. ASSUME NEW u \in V PROVE more(u) \in V
  <2>1. GoodOut(u, M) /\ Good(u.rd, M)
    BY OutsGood DEF GoodOut
  <2>2. GoodOut(ReadRunRecord(u.rd), M)
    BY <2>1, KindsGood
  <2>3. QED
    BY <2>1, <2>2, OutsGood
<1>3. first \in V
  BY KindsGood, OutsGood
<1> HIDE DEF first, V, more
<1>4. step \in [V -> V] /\ \A u \in V : step[u] = more(u)
  BY <1>2
<1> HIDE DEF step
<1>5. PICK f \in [Nat -> V] : Iterates(f, 1, first, step)
  BY <1>3, <1>4, IterationExists
<1>6. \A i \in Nat : f[i] \in V /\ f[i] = IF i <= 1 THEN first ELSE step[f[i - 1]]
  BY <1>5 DEF Iterates
<1>7. f = [i \in Nat |-> IF i <= 1 THEN first ELSE more(f[i - 1])]
  <2>1. \A i \in Nat : f[i] = IF i <= 1 THEN first ELSE more(f[i - 1])
    BY <1>4, <1>6
  <2>2. f = [i \in Nat |-> f[i]]
    BY <1>5
  <2>3. QED
    BY <2>1, <2>2
<1>8. F = [i \in Nat |-> IF i <= 1 THEN first ELSE more(F[i - 1])]
  BY <1>7
<1> HIDE DEF F
<1>9. \A i \in Nat : F[i] \in V
  <2>1. \A i \in Nat : i <= 1 => F[i] \in V
    BY <1>3, <1>8
  <2>2. \A i \in Nat : i > 1 /\ F[i - 1] \in V => F[i] \in V
    BY <1>2, <1>8
  <2>3. QED
    BY <2>1, <2>2, IterationTyped
<1>10. QED
  BY <1>1, <1>9, MostReadsNat, OutsGood DEF V

UntilEvt(r, key) == ReadUntil(r, ReadHdrRecord, LAMBDA x : EvtNumber(x.evt) = key.EvtNum)

\* readEvent by number in such a file.
LEMMA UntilEvtGood ==
  ASSUME content \in Contents, NEW M, EmptyMap \in M, NEW r, Good(r, M), NEW key
  PROVE  GoodOut(UntilEvt(r, key), M)
<1> DEFINE enough(x) == EvtNumber(x.evt) = key.EvtNum
           more(u) == IF u.status # "ok" \/ enough(u.rd) THEN u ELSE ReadHdrRecord(u.rd)
           first == ReadHdrRecord(r)
           F == CHOOSE f : f = [i \in Nat |-> IF i <= 1 THEN first ELSE more(f[i - 1])]
           V == Outs(M)
           step == [u \in V |-> more(u)]
<1>1. UntilEvt(r, key) = F[MostReads(r)]
  BY DEF UntilEvt, ReadUntil, MostReads
<1>2. ASSUME NEW u \in V PROVE more(u) \in V
  <2>1. GoodOut(u, M) /\ Good(u.rd, M)
    BY OutsGood DEF GoodOut
  <2>2. GoodOut(ReadHdrRecord(u.rd), M)
    BY <2>1, KindsGood
  <2>3. QED
    BY <2>1, <2>2, OutsGood
<1>3. first \in V
  BY KindsGood, OutsGood
<1> HIDE DEF first, V, more
<1>4. step \in [V -> V] /\ \A u \in V : step[u] = more(u)
  BY <1>2
<1> HIDE DEF step
<1>5. PICK f \in [Nat -> V] : Iterates(f, 1, first, step)
  BY <1>3, <1>4, IterationExists
<1>6. \A i \in Nat : f[i] \in V /\ f[i] = IF i <= 1 THEN first ELSE step[f[i - 1]]
  BY <1>5 DEF Iterates
<1>7. f = [i \in Nat |-> IF i <= 1 THEN first ELSE more(f[i - 1])]
  <2>1. \A i \in Nat : f[i] = IF i <= 1 THEN first ELSE more(f[i - 1])
    BY <1>4, <1>6
  <2>2. f = [i \in Nat |-> f[i]]
    BY <1>5
  <2>3. QED
    BY <2>1, <2>2
<1>8. F = [i \in Nat |-> IF i <= 1 THEN first ELSE more(F[i - 1])]
  BY <1>7
<1> HIDE DEF F
<1>9. \A i \in Nat : F[i] \in V
  <2>1. \A i \in Nat : i <= 1 => F[i] \in V
    BY <1>3, <1>8
  <2>2. \A i \in Nat : i > 1 /\ F[i - 1] \in V => F[i] \in V
    BY <1>2, <1>8
  <2>3. QED
    BY <2>1, <2>2, IterationTyped
<1>10. QED
  BY <1>1, <1>9, MostReadsNat, OutsGood DEF V

-----------------------------------------------------------------------------
(* Reading by key, and the event map. *)

\* And the fast skip from the last run header.
LEMMA FastSkipGood ==
  ASSUME content \in Contents, NEW M, EmptyMap \in M, NEW r, Good(r, M), NEW key
  PROVE  GoodOut(FastSkip(r, key), M)
<1> DEFINE toRun == UntilRun(r, key)
           toHdr(y) == UntilEvt(y, key)
           toEvt(y) == IF toHdr(y).status = "ok" THEN ReadEvtRecord(toHdr(y).rd) ELSE toHdr(y)
<1>1. ASSUME NEW y, Good(y, M) PROVE GoodOut(toEvt(y), M)
  <2> DEFINE o == toHdr(y)
  <2>1. GoodOut(o, M)
    BY <1>1, UntilEvtGood
  <2> HIDE DEF o
  <2>2. GoodOut(ReadEvtRecord(o.rd), M)
    BY <2>1, KindsGood DEF GoodOut
  <2>3. GoodOut(IF o.status = "ok" THEN ReadEvtRecord(o.rd) ELSE o, M)
    BY <2>1, <2>2
  <2>4. QED
    BY <2>3 DEF o
<1>2. FastSkip(r, key) = IF r.run # None /\ RunNumber(r.run) = key.RunNum THEN toEvt(r)
                         ELSE IF toRun.status = "ok" THEN toEvt(toRun.rd) ELSE toRun
  BY DEF FastSkip, Then, UntilRun, UntilEvt
<1>3. GoodOut(toRun, M)
  BY UntilRunGood
<1> HIDE DEF toRun, toEvt
<1>4. GoodOut(toEvt(toRun.rd), M) /\ GoodOut(toEvt(r), M)
  BY <1>1, <1>3 DEF GoodOut
<1>5. QED
  BY <1>2, <1>3, <1>4

\* A position of the event map is one to which the stream can be sent.
LEMMA SoughtGood ==
  ASSUME content \in Contents, NEW M, NEW r, Good(r, M), NEW key,
         GetPosition(r.map, key) # NPos
  PROVE  Good([r EXCEPT !.pos = GetPosition(r.map, key)], M)
<1> DEFINE p == GetPosition(r.map, key)
           n == Len(Records(r))
           e == [r EXCEPT !.pos = p]
<1>1. r \in Readers(M) /\ GoodRd(r) /\ r.stream # "none" /\ r.file \in Files /\ n \in Nat
  BY RecordsOfFile DEF Good, GoodRd, Records
<1>2. p \in 1 .. n
  BY <1>1 DEF GoodRd, PositionsIn, GetPosition
<1>3. p \in Nat /\ p \in 1 .. n + 1
  BY <1>1, <1>2
<1> HIDE DEF p, n
<1>4. /\ e \in Readers(M) /\ e.pos = p /\ e.stream = r.stream /\ e.file = r.file /\ e.index = r.index
      /\ e.names = r.names /\ e.map = r.map /\ e.run = r.run /\ e.evt = r.evt /\ e.data = r.data
  BY <1>1, <1>3 DEF Readers
<1> HIDE DEF e
<1>5. Records(e) = Records(r)
  BY <1>4 DEF Records
<1>6. GoodRd(e)
  BY <1>1, <1>3, <1>4, <1>5 DEF GoodRd, n
<1>7. QED
  BY <1>1, <1>4, <1>6 DEF Good, e, p

\* Both reads by number, sought or read on.
LEMMA ByKeyGood ==
  ASSUME content \in Contents, NEW M, EmptyMap \in M, NEW r, Good(r, M), NEW key
  PROVE  GoodOut(ReadRunHeaderOf(r, key), M) /\ GoodOut(ReadEventOf(r, key), M)
<1> DEFINE p == GetPosition(r.map, key)
           e == [r EXCEPT !.pos = p]
           null == Outcome(r, "null")
<1>1. GoodOut(null, M)
  BY OutcomeGood DEF Statuses
<1>2. p # NPos => GoodOut(ReadRunRecord(e), M) /\ GoodOut(NextEventOf(e), M)
  <2>1. p # NPos => Good(e, M)
    BY SoughtGood
  <2> HIDE DEF e, p
  <2>2. QED
    BY <2>1, KindsGood, NextEventGood
<1>3. GoodOut(FastSkip(r, key), M)
  BY FastSkipGood
<1>4. ReadRunHeaderOf(r, key) = IF r.direct THEN IF p = NPos THEN null ELSE ReadRunRecord(e) ELSE null
  BY DEF ReadRunHeaderOf, ReadAt
<1>5. ReadEventOf(r, key) = IF r.direct THEN IF p = NPos THEN null ELSE NextEventOf(e)
                            ELSE FastSkip(r, key)
  BY DEF ReadEventOf, ReadAt
<1> HIDE DEF p, e, null
<1>6. QED
  BY <1>1, <1>2, <1>3, <1>4, <1>5

\* Finitely many numbers have a greatest one.
LEMMA GreatestUpTo ==
  ASSUME NEW n \in Nat, NEW S \in SUBSET (1 .. n), S # {}
  PROVE  \E i \in S : \A j \in S : j <= i
<1> DEFINE T == {n - i : i \in S}
<1>1. T \in SUBSET Nat /\ T # {}
  <2>1. \A i \in S : i \in 1 .. n /\ n - i \in Nat
    OBVIOUS
  <2>2. \E i \in S : n - i \in T
    OBVIOUS
  <2>3. \A t \in T : \E i \in S : t = n - i
    OBVIOUS
  <2> HIDE DEF T
  <2>4. QED
    BY <2>1, <2>2, <2>3
<1>2. \A i \in S : i \in Nat /\ n - i \in T
  OBVIOUS
<1>3. \A t \in T : \E i \in S : t = n - i
  OBVIOUS
<1> HIDE DEF T
<1>4. PICK t \in T : \A u \in T : t <= u
  BY <1>1, LeastNatural
<1>5. PICK i \in S : t = n - i
  BY <1>3
<1>6. \A j \in S : n - i <= n - j
  BY <1>2, <1>4, <1>5
<1>7. \A j \in S : j <= i
  BY <1>2, <1>6
<1>8. QED
  BY <1>7

\* The event map of a file has positions of that file only.
LEMMA CreateEventMapGood ==
  ASSUME content \in Contents, NEW M, NEW r, Good(r, M)
  PROVE  LET o == CreateEventMap(r) IN GoodOut(o, {o.rd.map})
<1> DEFINE recs  == Records(r)
           n     == Len(recs)
           heads == {i \in DOMAIN recs : recs[i].kind \in {"run", "hdr"} /\ recs[i].ok}
           at(k) == {i \in heads : recs[i].key = k}
           found == [k \in {recs[i].key : i \in heads} |->
                       CHOOSE i \in at(k) : \A j \in at(k) : j <= i]
           more  == AddAll(r.map, found)
<1>1. r \in Readers(M) /\ GoodRd(r) /\ r.stream # "none" /\ r.file \in Files
      /\ n \in Nat /\ DOMAIN recs = 1 .. n
  BY RecordsOfFile DEF Good, GoodRd, Records
<1>2. PositionsIn(r.map, n) /\ r.pos \in 1 .. n + 1
  BY <1>1 DEF GoodRd
<1>3. \A k \in DOMAIN found : found[k] \in 1 .. n
  <2> SUFFICES ASSUME NEW k \in DOMAIN found PROVE found[k] \in 1 .. n
    OBVIOUS
  <2> DEFINE S == at(k)
  <2>1. S # {} /\ S \in SUBSET (1 .. n)
    BY <1>1
  <2>2. found[k] = CHOOSE i \in S : \A j \in S : j <= i
    OBVIOUS
  <2> HIDE DEF S, found
  <2>3. \E i \in S : \A j \in S : j <= i
    BY <1>1, <2>1, GreatestUpTo
  <2>4. found[k] \in S
    BY <2>2, <2>3
  <2>5. QED
    BY <2>1, <2>4
<1> HIDE DEF found
<1>4. PositionsIn(more, n)
  <2>1. Keys(more) = Keys(r.map) \cup DOMAIN found
        /\ \A k \in Keys(more) : more.pos[k] = IF k \in DOMAIN found THEN found[k] ELSE r.map.pos[k]
    BY DEF AddAll, Keys
  <2>2. QED
    BY <1>2, <1>3, <2>1 DEF PositionsIn
<1> HIDE DEF more
<1>5. ASSUME NEW x \in {"open", "error"}, NEW p \in 1 .. n + 1, NEW m, PositionsIn(m, n),
             NEW e, e = [r EXCEPT !.stream = x, !.direct = TRUE, !.pos = p, !.map = m]
      PROVE  Good(e, {m})
  <2>1. p \in Nat
    BY <1>1
  <2>2. /\ e \in Readers({m}) /\ e.pos = p /\ e.stream = x /\ e.file = r.file /\ e.index = r.index
        /\ e.names = r.names /\ e.map = m /\ e.run = r.run /\ e.evt = r.evt /\ e.data = r.data
    BY <1>1, <1>5, <2>1 DEF Readers
  <2>3. Records(e) = recs
    BY <2>2 DEF Records
  <2> HIDE DEF recs
  <2>4. GoodRd(e)
    BY <1>1, <1>5, <2>2, <2>3 DEF GoodRd, recs
  <2>5. QED
    BY <2>2, <2>4 DEF Good, Readers
<1> DEFINE full == [r EXCEPT !.direct = TRUE, !.pos = 1, !.map = more]
           toc  == recs # << >> /\ Last(recs).kind = "toc" /\ Last(recs).ok
           bad  == \E i \in DOMAIN recs : recs[i].kind \in {"run", "hdr", "junk"} /\ ~recs[i].ok
           o    == CreateEventMap(r)
<1>6. o = IF r.stream # "open" THEN Outcome([r EXCEPT !.direct = TRUE], "IOException")
          ELSE IF recs = << >> \/ (~toc /\ bad)
               THEN Outcome([full EXCEPT !.stream = "error", !.pos = n + 1], "IOException")
          ELSE Outcome(full, "ok")
  BY DEF CreateEventMap, more, found
<1> HIDE DEF toc, bad, recs
<1>7. r.stream \in {"open", "error"} /\ r.pos \in Nat /\ r.pos \in 1 .. n + 1
      /\ 1 \in 1 .. n + 1 /\ n + 1 \in 1 .. n + 1 /\ n + 1 \in Nat
  BY <1>1, <1>2 DEF Readers
<1> HIDE DEF n
<1>8. \E e, t : /\ o = Outcome(e, t) /\ t \in Statuses /\ Good(e, {e.map})
  <2>1. CASE r.stream # "open"
    <3> DEFINE e == [r EXCEPT !.direct = TRUE]
    <3>1. e = [r EXCEPT !.stream = r.stream, !.direct = TRUE, !.pos = r.pos, !.map = r.map]
          /\ e.map = r.map
      BY <1>1 DEF Readers
    <3> HIDE DEF e
    <3>2. Good(e, {e.map})
      BY <1>2, <1>5, <1>7, <3>1 DEF n
    <3>3. QED
      BY <1>6, <2>1, <3>2 DEF Statuses, e
  <2>2. CASE r.stream = "open" /\ (recs = << >> \/ (~toc /\ bad))
    <3> DEFINE e == [full EXCEPT !.stream = "error", !.pos = n + 1]
    <3>1. e = [r EXCEPT !.stream = "error", !.direct = TRUE, !.pos = n + 1, !.map = more]
          /\ e.map = more
      BY <1>1, <1>7 DEF Readers
    <3> HIDE DEF e
    <3>2. Good(e, {e.map})
      BY <1>4, <1>5, <1>7, <3>1 DEF n
    <3>3. QED
      BY <1>6, <2>2, <3>2 DEF Statuses, e
  <2>3. CASE r.stream = "open" /\ ~(recs = << >> \/ (~toc /\ bad))
    <3> DEFINE e == full
    <3>1. e = [r EXCEPT !.stream = "open", !.direct = TRUE, !.pos = 1, !.map = more]
          /\ e.map = more
      BY <1>1, <1>7, <2>3 DEF Readers
    <3> HIDE DEF full
    <3>2. Good(e, {e.map})
      BY <1>4, <1>5, <1>7, <3>1 DEF n
    <3>3. QED
      BY <1>6, <2>3, <3>2 DEF Statuses
  <2>4. QED
    BY <2>1, <2>2, <2>3
<1>9. PICK e, t : o = Outcome(e, t) /\ t \in Statuses /\ Good(e, {e.map})
  BY <1>8
<1> HIDE DEF o
<1>10. GoodOut(o, {e.map}) /\ o.rd = e
  BY <1>9, OutcomeGood
<1>11. QED
  BY <1>10 DEF o

-----------------------------------------------------------------------------
(* The invariant. *)

TaskOK ==
  task # None =>
    /\ rd.stream # "none"
    /\ task \in [left : Nat \cup {None}, to : {"run", "evt", None}, iter : Nat \cup {None},
                 told : SUBSET Nat, meant : SUBSET Nat]
    /\ task.to = None <=> task.iter = None
    /\ task.to # None =>
         /\ task.meant \subseteq listeners[task.to]
         /\ \A l \in task.told : l < task.iter
         /\ \A l \in task.meant : l < task.iter => l \in task.told

ReaderInv ==
  /\ content \in Contents
  /\ rd \in Readers({rd.map}) /\ GoodRd(rd)
  /\ listeners \in [{"run", "evt"} -> SUBSET Listeners]
  /\ TaskOK

\* The invariant implies that the state is of the right type.
LEMMA ReaderInvTypeOK == ReaderInv => TypeOK
<1> SUFFICES ASSUME ReaderInv PROVE TypeOK
  OBVIOUS
<1>1. rd.stream \in {"none", "open", "error"} /\ rd.direct \in BOOLEAN
  BY DEF ReaderInv, Readers
<1>2. task = None \/ (task.iter = None <=> task.to = None)
  BY DEF ReaderInv, TaskOK
<1>3. QED
  BY <1>1, <1>2 DEF ReaderInv, GoodRd, Refers, TypeOK

\* A new reader.
LEMMA ReaderInit == Init => ReaderInv
<1> SUFFICES ASSUME Init PROVE ReaderInv
  OBVIOUS
<1>1. PICK direct \in BOOLEAN : rd = NewReader(direct)
  BY DEF Init
<1> DEFINE r == NewReader(direct)
<1>2. /\ r.stream = "none" /\ r.file = None /\ r.pos = 1 /\ r.names = << >> /\ r.index = 0
      /\ r.direct = direct /\ r.map = EmptyMap /\ r.run = None /\ r.evt = None /\ r.data = None
      /\ r \in Readers({EmptyMap})
  BY DEF NewReader, Readers, Refs
<1> HIDE DEF r
<1>3. GoodRd(r)
  BY <1>2 DEF GoodRd, Refers
<1>4. QED
  BY <1>1, <1>2, <1>3 DEF Init, ReaderInv, TaskOK, r

\* The reader after a call, when nothing else that the invariant is about changes.
RdKept(r) == rd' = r /\ UNCHANGED <<content, task, listeners>>

\* A reader with a stream is a good one.
LEMMA LiveReader ==
  ASSUME ReaderInv, rd.stream # "none"
  PROVE  Good(rd, {rd.map, EmptyMap})
BY DEF ReaderInv, Good, Readers

\* A reader that is good keeps the invariant when nothing else changes.
LEMMA RdKeeps ==
  ASSUME ReaderInv, NEW M, NEW r, r \in Readers(M), GoodRd(r), RdKept(r),
         r.stream # "none" \/ task = None
  PROVE  ReaderInv'
<1>1. rd' = r /\ content' = content /\ task' = task /\ listeners' = listeners
  BY DEF RdKept
<1>2. rd' \in Readers({rd'.map})
  BY <1>1 DEF Readers
<1>3. GoodRd(rd)'
  BY <1>1 DEF GoodRd, Refers, Records, RecordOf
<1>4. TaskOK'
  BY <1>1 DEF ReaderInv, TaskOK
<1>5. Readers({rd.map})' = Readers({rd'.map})
  BY DEF Readers, Refs
<1>6. QED
  BY <1>1, <1>2, <1>3, <1>4, <1>5 DEF ReaderInv

\* And so does the outcome of a call.
LEMMA OutKeeps ==
  ASSUME ReaderInv, NEW M, NEW o, GoodOut(o, M), RdKept(o.rd)
  PROVE  ReaderInv'
BY RdKeeps DEF GoodOut, Good

\* open on a stream.
LEMMA OpenStreamGood ==
  ASSUME content \in Contents, NEW M, NEW r, Good(r, M)
  PROVE  LET o == OpenStream(r) IN GoodOut(o, {o.rd.map})
<1>1. GoodOut(CreateEventMap(r), {CreateEventMap(r).rd.map})
  BY CreateEventMapGood
<1>2. Good(r, {r.map})
  BY DEF Good, Readers
<1>3. GoodOut(Outcome(r, "ok"), {Outcome(r, "ok").rd.map})
  BY <1>2, OutcomeGood DEF Statuses
<1>4. QED
  BY <1>1, <1>3 DEF OpenStream

\* open with a list of files.
LEMMA OpenListKeeps ==
  ASSUME ReaderInv, NEW names \in Lists, OpenList(names)
  PROVE  ReaderInv'
<1> DEFINE a == [rd EXCEPT !.names = names]
           M == {EmptyMap}
           r == OpenedAt(a, 0)
           c == Closed(a)
<1>1. /\ rd \in Readers({rd.map}) /\ GoodRd(rd) /\ rd.stream = "none" /\ rd.map = EmptyMap
      /\ content \in Contents
  BY DEF ReaderInv, GoodRd, OpenList, OpenCall
<1>2. names \in Seq(Files) /\ names # << >>
  BY ReaderAssumption
<1>3. 1 \in DOMAIN names /\ names[1] \in Files
  BY <1>2
<1>4. /\ a \in Readers(M) /\ a.names = names /\ a.stream = "none" /\ a.map = EmptyMap
      /\ a.run = rd.run /\ a.evt = rd.evt /\ a.data = rd.data
  BY <1>1, <1>2 DEF Readers
<1>5. r = [a EXCEPT !.stream = "open", !.index = 0, !.file = names[1], !.pos = 1]
  BY <1>4 DEF OpenedAt
<1> HIDE DEF a, r
<1>6. /\ r \in Readers(M) /\ r.stream = "open" /\ r.index = 0 /\ r.file = names[1] /\ r.pos = 1
      /\ r.names = names /\ r.map = EmptyMap
      /\ r.run = rd.run /\ r.evt = rd.evt /\ r.data = rd.data
  BY <1>1, <1>3, <1>4, <1>5 DEF Readers
<1>7. Len(Records(r)) \in Nat /\ PositionsIn(r.map, Len(Records(r)))
  BY <1>1, <1>3, <1>6, RecordsOfFile, EmptyCounted DEF Records, PositionsIn
<1>8. 1 \in 1 .. Len(Records(r)) + 1 /\ 0 + 1 = 1
  BY <1>7
<1>9. GoodRd(r)
  BY <1>1, <1>2, <1>3, <1>6, <1>7, <1>8 DEF GoodRd
<1>10. Good(r, M)
  BY <1>6, <1>9 DEF Good
<1> DEFINE o == OpenStream(r)
<1>11. GoodOut(o, {o.rd.map})
  BY <1>1, <1>10, OpenStreamGood
<1>12. RdKept(o.rd)
  BY DEF OpenList, OpenCall, RdKept, r, a
<1> HIDE DEF o
<1>13. QED
  BY <1>11, <1>12, OutKeeps

\* The name of the file, kept for reopening.
LEMMA NamedGood ==
  ASSUME NEW M, NEW r, Good(r, M), r.names = << >>, NEW f \in Files
  PROVE  Good([r EXCEPT !.names = <<f>>], M)
<1> DEFINE s == <<f>>
           e == [r EXCEPT !.names = s]
<1>1. s \in Seq(Files) /\ s # << >> /\ 0 + 1 \in DOMAIN s
  OBVIOUS
<1> HIDE DEF s
<1>2. r \in Readers(M) /\ GoodRd(r) /\ r.stream # "none" /\ r.index = 0
  BY DEF Good, GoodRd
<1>3. /\ e \in Readers(M) /\ e.pos = r.pos /\ e.stream = r.stream /\ e.file = r.file
      /\ e.index = r.index /\ e.names = s /\ e.map = r.map
      /\ e.run = r.run /\ e.evt = r.evt /\ e.data = r.data
  BY <1>1, <1>2 DEF Readers
<1> HIDE DEF e
<1>4. Records(e) = Records(r)
  BY <1>3 DEF Records
<1>5. GoodRd(e)
  BY <1>1, <1>2, <1>3, <1>4 DEF GoodRd
<1>6. QED
  BY <1>2, <1>3, <1>5 DEF Good, e, s

\* open with one file, in either access mode.
LEMMA OpenFileKeeps ==
  ASSUME ReaderInv, NEW f \in Files, OpenFile(f)
  PROVE  ReaderInv'
<1> DEFINE M == {EmptyMap}
           r == [rd EXCEPT !.stream = "open", !.file = f, !.pos = 1]
           o == OpenStream(r)
           x == IF o.status = "ok" /\ o.rd.names = << >> THEN [o.rd EXCEPT !.names = <<f>>] ELSE o.rd
<1>1. OpenCall(<<f>>, Outcome(x, o.status))
  BY DEF OpenFile
<1>2. /\ rd \in Readers({rd.map}) /\ GoodRd(rd) /\ rd.stream = "none" /\ rd.map = EmptyMap
      /\ content \in Contents /\ RdKept(Outcome(x, o.status).rd)
  BY <1>1 DEF ReaderInv, GoodRd, OpenCall, RdKept
<1>3. RdKept(x)
  <2> HIDE DEF x
  <2>1. QED
    BY <1>2 DEF Outcome
<1> HIDE DEF r
<1>4. /\ r \in Readers(M) /\ r.stream = "open" /\ r.index = rd.index /\ r.file = f /\ r.pos = 1
      /\ r.names = rd.names /\ r.map = EmptyMap
      /\ r.run = rd.run /\ r.evt = rd.evt /\ r.data = rd.data
  BY <1>2 DEF Readers, r
<1>5. Len(Records(r)) \in Nat /\ PositionsIn(r.map, Len(Records(r)))
  BY <1>2, <1>4, RecordsOfFile, EmptyCounted DEF Records, PositionsIn
<1>6. 1 \in 1 .. Len(Records(r)) + 1
  BY <1>5
<1>7. GoodRd(r)
  BY <1>2, <1>4, <1>5, <1>6 DEF GoodRd
<1>8. Good(r, M)
  BY <1>4, <1>7 DEF Good
<1>9. GoodOut(o, {o.rd.map})
  BY <1>2, <1>8, OpenStreamGood
<1> HIDE DEF o
<1>10. Good(o.rd, {o.rd.map})
  BY <1>9 DEF GoodOut
<1>11. Good(x, {o.rd.map})
  BY <1>10, NamedGood
<1> HIDE DEF x
<1>12. QED
  BY <1>3, <1>11, RdKeeps DEF Good

(***************************************************************************)
(* The calls on an open reader.                                            *)
(***************************************************************************)
LEMMA CallsKeep ==
  ASSUME ReaderInv,
         \/ ReadNextRunHeader \/ ReadNextEvent \/ (\E n \in 1 .. MaxSkip : SkipNEvents(n))
         \/ GetNumbers \/ (\E key \in Asked : ReadRunHeader(key) \/ ReadEvent(key)) \/ Close
  PROVE  ReaderInv'
<1> DEFINE M == {rd.map, EmptyMap}
<1>1. Ready
  BY DEF ReadNextRunHeader, ReadNextEvent, SkipNEvents, GetNumbers, ReadRunHeader, ReadEvent, Close
<1>2. content \in Contents /\ rd.stream # "none" /\ task = None /\ Good(rd, M) /\ EmptyMap \in M
  BY <1>1, LiveReader DEF Ready, ReaderInv
<1> HIDE DEF M
<1>3. CASE ReadNextRunHeader
  <2> DEFINE o == ReadRunRecord(rd)
  <2>1. GoodOut(o, M)
    BY <1>2, KindsGood
  <2>2. RdKept(o.rd)
    BY <1>3 DEF ReadNextRunHeader, Answer, RdKept
  <2> HIDE DEF o
  <2>3. QED
    BY <2>1, <2>2, OutKeeps
<1>4. CASE ReadNextEvent
  <2> DEFINE o == NextEventOf(rd)
  <2>1. GoodOut(o, M)
    BY <1>2, NextEventGood
  <2>2. RdKept(o.rd)
    BY <1>4 DEF ReadNextEvent, Answer, RdKept
  <2> HIDE DEF o
  <2>3. QED
    BY <2>1, <2>2, OutKeeps
<1>5. ASSUME NEW n \in 1 .. MaxSkip, SkipNEvents(n) PROVE ReaderInv'
  <2> DEFINE o == SkipEventsOf(rd, n)
  <2>1. n \in Nat
    BY ReaderAssumption
  <2>2. GoodOut(o, M)
    BY <1>2, <2>1, SkipEventsGood
  <2>3. RdKept(o.rd)
    BY <1>5 DEF SkipNEvents, Answer, RdKept
  <2> HIDE DEF o
  <2>4. QED
    BY <2>2, <2>3, OutKeeps
<1>6. CASE GetNumbers
  <2> DEFINE o == CountOf(rd)
  <2>1. GoodOut(CreateEventMap(rd), {CreateEventMap(rd).rd.map})
    BY <1>2, CreateEventMapGood
  <2>2. Good(rd, {rd.map})
    BY <1>2 DEF Good, Readers
  <2>3. GoodOut(Outcome(rd, "ok"), {Outcome(rd, "ok").rd.map})
    BY <2>2, OutcomeGood DEF Statuses
  <2>4. GoodOut(o, {o.rd.map})
    BY <2>1, <2>3 DEF CountOf
  <2>5. RdKept(o.rd)
    BY <1>6 DEF GetNumbers, Answer, RdKept
  <2> HIDE DEF o
  <2>6. QED
    BY <2>4, <2>5, OutKeeps
<1>7. ASSUME NEW key, ReadRunHeader(key) PROVE ReaderInv'
  <2> DEFINE o == ReadRunHeaderOf(rd, key)
  <2>1. GoodOut(o, M)
    BY <1>2, ByKeyGood
  <2>2. RdKept(o.rd)
    BY <1>7 DEF ReadRunHeader, Answer, RdKept
  <2> HIDE DEF o
  <2>3. QED
    BY <2>1, <2>2, OutKeeps
<1>8. ASSUME NEW key, ReadEvent(key) PROVE ReaderInv'
  <2> DEFINE o == ReadEventOf(rd, key)
  <2>1. GoodOut(o, M)
    BY <1>2, ByKeyGood
  <2>2. RdKept(o.rd)
    BY <1>8 DEF ReadEvent, Answer, RdKept
  <2> HIDE DEF o
  <2>3. QED
    BY <2>1, <2>2, OutKeeps
<1>9. CASE Close
  <2> DEFINE r == Closed(rd)
  <2>1. RdKept(Outcome(r, "ok").rd)
    BY <1>9 DEF Close, Answer, RdKept
  <2>2. r = [rd EXCEPT !.stream = "none", !.map = EmptyMap, !.direct = FALSE]
    BY DEF Closed
  <2> HIDE DEF r
  <2>3. /\ r \in Readers({EmptyMap}) /\ r.stream = "none" /\ r.names = rd.names /\ r.index = rd.index
        /\ r.map = EmptyMap /\ r.run = rd.run /\ r.evt = rd.evt /\ r.data = rd.data
    BY <2>2 DEF ReaderInv, Readers
  <2>4. GoodRd(r)
    BY <2>3 DEF ReaderInv, GoodRd
  <2>5. RdKept(r)
    BY <2>1 DEF Outcome
  <2>6. QED
    BY <1>2, <2>3, <2>4, <2>5, RdKeeps
<1>10. QED
  BY <1>3, <1>4, <1>5, <1>6, <1>7, <1>8, <1>9

-----------------------------------------------------------------------------
(* readStream. *)

\* The least of a set of numbers, None if it is empty.
LEMMA LeastOfIs ==
  ASSUME NEW S \in SUBSET Nat
  PROVE  /\ LeastOf(S) = None <=> S = {}
         /\ LeastOf(S) # None => LeastOf(S) \in S /\ \A l \in S : LeastOf(S) <= l
<1>1. None \notin Nat
  BY ReaderAssumption
<1>2. CASE S = {}
  BY <1>2 DEF LeastOf
<1>3. CASE S # {}
  <2>1. \E l \in S : \A m \in S : l <= m
    BY <1>3, LeastNatural
  <2> DEFINE x == CHOOSE l \in S : \A m \in S : l <= m
  <2>2. LeastOf(S) = x
    BY <1>3 DEF LeastOf
  <2>3. x \in S /\ \A m \in S : x <= m
    BY <2>1
  <2> HIDE DEF x
  <2>4. QED
    BY <1>1, <2>2, <2>3
<1>4. QED
  BY <1>2, <1>3

\* What the invariant says of the reader does not change with these.
LEMMA SameRd ==
  ASSUME ReaderInv, rd' = rd, content' = content,
         listeners' \in [{"run", "evt"} -> SUBSET Listeners], TaskOK'
  PROVE  ReaderInv'
<1>1. (rd \in Readers({rd.map}))' /\ GoodRd(rd)'
  BY DEF ReaderInv, Readers, Refs, GoodRd, Refers, Records, RecordOf
<1>2. QED
  BY <1>1 DEF ReaderInv

\* What ToldOnce says of a step during a callback.
Round == task' # None => /\ task'.iter \notin task'.told
                         /\ task'.to = None => task'.meant \subseteq task'.told

(***************************************************************************)
(* A listener returns: the next one in order that is registered now is     *)
(* called, and none twice.                                                 *)
(***************************************************************************)
LEMMA CallbackReturnsKeeps ==
  ASSUME ReaderInv, CallbackReturns
  PROVE  ReaderInv' /\ Round
<1> DEFINE above == {l \in listeners[task.to] : l > task.iter}
           next == LeastOf(above)
           Tasks == [left : Nat \cup {None}, to : {"run", "evt", None}, iter : Nat \cup {None},
                     told : SUBSET Nat, meant : SUBSET Nat]
<1>1. /\ task # None /\ task.to # None /\ UNCHANGED <<content, rd, listeners>>
      /\ task' = [task EXCEPT !.iter = next, !.told = @ \cup {task.iter},
                              !.to = IF next = None THEN None ELSE @]
  BY DEF CallbackReturns
<1>2. /\ rd.stream # "none" /\ task \in Tasks /\ task.to \in {"run", "evt"} /\ task.iter \in Nat
      /\ task.meant \subseteq listeners[task.to]
      /\ \A l \in task.told : l < task.iter
      /\ \A l \in task.meant : l < task.iter => l \in task.told
  BY <1>1 DEF ReaderInv, TaskOK
<1>3. listeners[task.to] \in SUBSET Nat /\ None \notin Nat
  BY <1>2, ReaderAssumption DEF ReaderInv
<1>4. /\ next = None => \A l \in listeners[task.to] : l <= task.iter
      /\ next # None => /\ next \in listeners[task.to] /\ next > task.iter
                        /\ \A l \in listeners[task.to] : l > task.iter => next <= l
  <2>1. above \in SUBSET Nat
    BY <1>3
  <2> HIDE DEF above
  <2>2. /\ next = None <=> above = {}
        /\ next # None => next \in above /\ \A l \in above : next <= l
    BY <2>1, LeastOfIs
  <2> HIDE DEF next
  <2>3. \A l \in listeners[task.to] : l \in Nat /\ (l > task.iter <=> l \in above)
    BY <1>3 DEF above
  <2>4. \A l \in above : l \in listeners[task.to] /\ l > task.iter
    BY DEF above
  <2>5. QED
    BY <1>2, <2>2, <2>3, <2>4
<1> HIDE DEF above, next
<1>5. next \in Nat \cup {None}
  BY <1>3, <1>4
<1>6. /\ task' \in Tasks /\ task'.iter = next /\ task'.told = task.told \cup {task.iter}
      /\ task'.to = (IF next = None THEN None ELSE task.to) /\ task'.meant = task.meant
  BY <1>1, <1>2, <1>5
<1>7. None \notin {"run", "evt"} /\ task.told \in SUBSET Nat /\ task.meant \in SUBSET Nat
  BY <1>2, ReaderAssumption
<1>8. CASE next = None
  <2>1. task'.to = None /\ task'.iter = None /\ task'.iter \notin task'.told
    BY <1>2, <1>3, <1>6, <1>7, <1>8
  <2>2. task'.meant \subseteq task'.told
    BY <1>2, <1>3, <1>4, <1>6, <1>7, <1>8
  <2>3. TaskOK'
    BY <1>1, <1>2, <1>6, <2>1 DEF TaskOK
  <2>4. QED
    BY <1>1, <2>1, <2>2, <2>3, SameRd DEF ReaderInv, Round
<1>9. CASE next # None
  <2>1. /\ next \in Nat /\ next > task.iter /\ task'.to = task.to /\ task'.to # None /\ task'.iter # None
    BY <1>3, <1>4, <1>6, <1>7, <1>2, <1>9
  <2>2. \A l \in task'.told : l < task'.iter /\ l \in Nat
    BY <1>2, <1>6, <1>7, <2>1
  <2>3. \A l \in task'.meant : l < task'.iter => l \in task'.told
    <3> SUFFICES ASSUME NEW l \in task.meant, l < next PROVE l \in task.told \cup {task.iter}
      BY <1>6
    <3>1. l \in Nat /\ l \in listeners[task.to] /\ ~(l > task.iter)
      BY <1>2, <1>4, <1>7, <1>9, <2>1
    <3>2. QED
      BY <1>2, <3>1
  <2>4. TaskOK'
    BY <1>1, <1>2, <1>6, <2>1, <2>2, <2>3 DEF TaskOK
  <2>5. task'.iter \notin task'.told
    BY <1>6, <2>1, <2>2
  <2>6. QED
    BY <1>1, <2>1, <2>4, <2>5, SameRd DEF ReaderInv, Round
<1>10. QED
  BY <1>8, <1>9

\* readStream reads the next record; the first listener of its kind is next.
LEMMA StreamReadKeeps ==
  ASSUME ReaderInv, StreamRead
  PROVE  ReaderInv'
<1> DEFINE o     == ReadRecord(rd, {"run", "hdr", "evt"})
           kind  == Records(o.rd)[o.rd.pos - 1].kind
           first == LeastOf(listeners[kind])
           less  == IF task.left = None THEN None ELSE task.left - 1
           M     == {rd.map, EmptyMap}
           Tasks == [left : Nat \cup {None}, to : {"run", "evt", None}, iter : Nat \cup {None},
                     told : SUBSET Nat, meant : SUBSET Nat]
<1>1. /\ task # None /\ task.to = None /\ task.left # 0
      /\ rd' = o.rd /\ UNCHANGED <<content, listeners>>
      /\ \/ task' = task
         \/ /\ o.status = "ok" /\ kind # "hdr"
            /\ task' = [left |-> less, to |-> IF first = None THEN None ELSE kind,
                        iter |-> first, told |-> {}, meant |-> listeners[kind]]
         \/ task' = None
  BY DEF StreamRead
<1>2. /\ rd.stream # "none" /\ task \in Tasks /\ content \in Contents
      /\ listeners \in [{"run", "evt"} -> SUBSET Listeners]
  BY <1>1 DEF ReaderInv, TaskOK
<1>3. Good(rd, M) /\ EmptyMap \in M
  BY <1>2, LiveReader
<1> HIDE DEF M
<1>4. /\ GoodOut(o, M)
      /\ o.status = "ok" => JustRead(o.rd, {"run", "hdr", "evt"})
  BY <1>2, <1>3, ReadRecordGood
<1> HIDE DEF o
<1>5. Good(o.rd, M)
  BY <1>4 DEF GoodOut
<1>6. rd' \in Readers({rd'.map}) /\ GoodRd(rd)' /\ rd'.stream # "none"
  BY <1>1, <1>5 DEF Good, Readers, GoodRd, Refers, Records, RecordOf
<1>7. TaskOK'
  <2>1. CASE task' = task
    BY <1>1, <1>6, <2>1 DEF ReaderInv, TaskOK
  <2>2. CASE /\ o.status = "ok" /\ kind # "hdr"
             /\ task' = [left |-> less, to |-> IF first = None THEN None ELSE kind,
                         iter |-> first, told |-> {}, meant |-> listeners[kind]]
    <3>1. kind \in {"run", "evt"}
      BY <1>4, <2>2 DEF JustRead
    <3> HIDE DEF kind
    <3>2. listeners[kind] \in SUBSET Nat
      BY <1>2, <3>1, ReaderAssumption
    <3>3. /\ first = None <=> listeners[kind] = {}
          /\ first # None => first \in listeners[kind] /\ \A l \in listeners[kind] : first <= l
      BY <3>2, LeastOfIs
    <3> HIDE DEF first
    <3>4. less \in Nat \cup {None}
      BY <1>1, <1>2
    <3> HIDE DEF less
    <3> DEFINE to == IF first = None THEN None ELSE kind
    <3>5. to \in {"run", "evt", None} /\ (to = None <=> first = None) /\ (to # None => to = kind)
      BY <3>1, ReaderAssumption
    <3> HIDE DEF to
    <3>6. /\ task' \in Tasks /\ task'.to = to /\ task'.iter = first /\ task'.told = {}
          /\ task'.meant = listeners[kind]
      BY <2>2, <3>2, <3>3, <3>4, <3>5 DEF to
    <3>7. \A l \in listeners[kind] : first # None => ~(l < first)
      BY <3>2, <3>3
    <3>8. QED
      BY <1>1, <1>6, <3>5, <3>6, <3>7 DEF TaskOK
  <2>3. CASE task' = None
    BY <2>3 DEF TaskOK
  <2>4. QED
    BY <1>1, <2>1, <2>2, <2>3
<1>8. (rd \in Readers({rd.map}))'
  BY <1>6 DEF Readers, Refs
<1>9. QED
  BY <1>1, <1>2, <1>6, <1>7, <1>8 DEF ReaderInv

\* A listener that registers or removes another keeps who was told.
LEMMA ListenersChange ==
  ASSUME ReaderInv, NEW kind \in {"run", "evt"}, NEW l \in Listeners,
         RegisterListener(kind, l) \/ RemoveListener(kind, l)
  PROVE  /\ ReaderInv'
         /\ InCallback => task'.iter = task.iter /\ task'.told = task.told /\ task'.to = task.to
<1> DEFINE Tasks == [left : Nat \cup {None}, to : {"run", "evt", None}, iter : Nat \cup {None},
                     told : SUBSET Nat, meant : SUBSET Nat]
<1>1. /\ listeners \in [{"run", "evt"} -> SUBSET Listeners]
      /\ rd' = rd /\ content' = content /\ (task = None \/ (InCallback /\ task # None))
  BY DEF ReaderInv, RegisterListener, RemoveListener, InCallback
<1>2. task # None =>
        /\ rd.stream # "none" /\ task \in Tasks /\ (task.to = None <=> task.iter = None)
        /\ task.to \in {"run", "evt"} /\ task.to # None /\ task.meant \subseteq listeners[task.to]
        /\ \A m \in task.told : m < task.iter
        /\ \A m \in task.meant : m < task.iter => m \in task.told
  BY <1>1 DEF ReaderInv, TaskOK, InCallback
<1>3. CASE RegisterListener(kind, l)
  <2>1. task' = task /\ listeners' = [listeners EXCEPT ![kind] = @ \cup {l}]
    BY <1>3 DEF RegisterListener
  <2>2. /\ listeners' \in [{"run", "evt"} -> SUBSET Listeners]
        /\ \A k \in {"run", "evt"} : listeners[k] \subseteq listeners'[k]
    BY <1>1, <2>1
  <2>3. TaskOK'
    BY <1>1, <1>2, <2>1, <2>2 DEF TaskOK
  <2>4. QED
    BY <1>1, <2>1, <2>2, <2>3, SameRd
<1>4. CASE RemoveListener(kind, l)
  <2>1. /\ listeners' = [listeners EXCEPT ![kind] = @ \ {l}]
        /\ task' = IF InCallback /\ task.to = kind THEN [task EXCEPT !.meant = @ \ {l}] ELSE task
    BY <1>4 DEF RemoveListener
  <2>2. /\ listeners' \in [{"run", "evt"} -> SUBSET Listeners]
        /\ listeners'[kind] = listeners[kind] \ {l}
        /\ \A k \in {"run", "evt"} : k # kind => listeners'[k] = listeners[k]
    BY <1>1, <2>1
  <2>3. CASE InCallback /\ task.to = kind
    <3>1. task # None
      BY <2>3 DEF InCallback
    <3>2. /\ task' \in Tasks /\ task'.to = task.to /\ task'.iter = task.iter
          /\ task'.told = task.told /\ task'.meant = task.meant \ {l}
      BY <1>2, <2>1, <2>3, <3>1
    <3>3. TaskOK'
      BY <1>1, <1>2, <2>2, <2>3, <3>1, <3>2 DEF TaskOK
    <3>4. QED
      BY <1>1, <2>2, <3>2, <3>3, SameRd
  <2>4. CASE ~(InCallback /\ task.to = kind)
    <3>1. task' = task
      BY <2>1, <2>4
    <3>2. TaskOK'
      BY <1>1, <1>2, <2>2, <2>4, <3>1 DEF TaskOK
    <3>3. QED
      BY <1>1, <2>2, <3>1, <3>2, SameRd
  <2>5. QED
    BY <2>3, <2>4
<1>5. QED
  BY <1>3, <1>4

\* readStream starts, ends or is left by an exception.
LEMMA TaskStepsKeep ==
  ASSUME ReaderInv, (\E left \in {Batch, None} : ReadStream(left)) \/ StreamDone \/ CallbackThrows
  PROVE  ReaderInv'
<1>1. rd' = rd /\ content' = content /\ listeners' = listeners
  BY DEF ReadStream, StreamDone, CallbackThrows
<1>2. listeners' \in [{"run", "evt"} -> SUBSET Listeners]
  BY <1>1 DEF ReaderInv
<1>3. TaskOK'
  <2>1. CASE task' = None
    BY <2>1 DEF TaskOK
  <2>2. ASSUME NEW left \in {Batch, None}, ReadStream(left) PROVE TaskOK'
    <3>1. left \in Nat \cup {None} /\ rd.stream # "none" /\ task' = Task(left)
      BY <2>2, ReaderAssumption DEF ReadStream, Ready
    <3>2. QED
      BY <1>1, <3>1 DEF TaskOK, Task
  <2>3. QED
    BY <2>1, <2>2 DEF StreamDone, CallbackThrows
<1>4. QED
  BY <1>1, <1>2, <1>3, SameRd

-----------------------------------------------------------------------------
(* Theorems. *)

\* Every step keeps the invariant.
LEMMA ReaderNext == ReaderInv /\ [Next]_vars => ReaderInv'
<1> SUFFICES ASSUME ReaderInv, [Next]_vars PROVE ReaderInv'
  OBVIOUS
<1>1. ASSUME NEW names \in Lists, OpenList(names) PROVE ReaderInv'
  BY <1>1, OpenListKeeps
<1>2. ASSUME NEW f \in Files, OpenFile(f) PROVE ReaderInv'
  BY <1>2, OpenFileKeeps
<1>3. CASE \/ ReadNextRunHeader \/ ReadNextEvent \/ (\E n \in 1 .. MaxSkip : SkipNEvents(n))
           \/ GetNumbers \/ (\E key \in Asked : ReadRunHeader(key) \/ ReadEvent(key)) \/ Close
  BY <1>3, CallsKeep
<1>4. CASE (\E left \in {Batch, None} : ReadStream(left)) \/ StreamDone \/ CallbackThrows
  BY <1>4, TaskStepsKeep
<1>5. CASE StreamRead
  BY <1>5, StreamReadKeeps
<1>6. CASE CallbackReturns
  BY <1>6, CallbackReturnsKeeps
<1>7. ASSUME NEW kind \in {"run", "evt"}, NEW l \in Listeners,
             RegisterListener(kind, l) \/ RemoveListener(kind, l)
      PROVE  ReaderInv'
  BY <1>7, ListenersChange
<1>8. CASE UNCHANGED vars
  <2>1. rd' = rd /\ content' = content /\ listeners' = listeners /\ task' = task
    BY <1>8 DEF vars
  <2>2. listeners' \in [{"run", "evt"} -> SUBSET Listeners] /\ TaskOK'
    BY <2>1 DEF ReaderInv, TaskOK
  <2>3. QED
    BY <2>1, <2>2, SameRd
<1>9. QED
  BY <1>1, <1>2, <1>3, <1>4, <1>5, <1>6, <1>7, <1>8 DEF Next

(***************************************************************************)
(* In every state a reader's position and the positions of its event map   *)
(* are in the file it has open, and the run header, event header and event *)
(* it holds were intact records of these kinds.                            *)
(***************************************************************************)
THEOREM ReaderInvariant == Spec => []ReaderInv
<1>1. QED
  BY ReaderInit, ReaderNext, PTL DEF Spec

(***************************************************************************)
(* Every part of the reader's state keeps its type, and what it holds      *)
(* refers to intact records of the kinds they must have: the run header,   *)
(* the event header and the event of the files that are open or were       *)
(* (SIOReader).                                                            *)
(***************************************************************************)
THEOREM ReaderTypeCorrect == Spec => []TypeOK
<1>1. QED
  BY ReaderInvariant, ReaderInvTypeOK, PTL

(***************************************************************************)
(* A step during a callback goes on with the round of listeners as         *)
(* ToldOnce says.                                                          *)
(***************************************************************************)
LEMMA RoundStep == ReaderInv /\ [Next]_vars => [InCallback => Round]_vars
<1> SUFFICES ASSUME ReaderInv, Next, InCallback, task' # None PROVE Round
  BY DEF Round
<1>1. task # None /\ task.to # None
  BY DEF InCallback
<1>2. CASE CallbackReturns
  BY <1>2, CallbackReturnsKeeps
<1>3. ASSUME NEW kind \in {"run", "evt"}, NEW l \in Listeners,
             RegisterListener(kind, l) \/ RemoveListener(kind, l)
      PROVE  Round
  <2>1. task'.iter = task.iter /\ task'.told = task.told /\ task'.to = task.to
    BY <1>3, ListenersChange
  <2>2. task.iter \in Nat /\ \A m \in task.told : m < task.iter /\ m \in Nat
    BY <1>1 DEF ReaderInv, TaskOK
  <2>3. task.iter \notin task.told
    BY <2>2
  <2>4. QED
    BY <1>1, <2>1, <2>3 DEF Round
<1>4. CallbackReturns \/ \E kind \in {"run", "evt"}, l \in Listeners :
        RegisterListener(kind, l) \/ RemoveListener(kind, l)
  BY <1>1 DEF Next, OpenList, OpenFile, OpenCall, ReadNextRunHeader, ReadNextEvent, SkipNEvents,
              GetNumbers, ReadRunHeader, ReadEvent, Close, ReadStream, Ready, StreamRead,
              StreamDone, CallbackThrows
<1>5. QED
  BY <1>2, <1>3, <1>4

(***************************************************************************)
(* Whatever listeners are registered and removed by the callbacks of one   *)
(* record, nobody is told of it twice, and everybody who was registered    *)
(* from its reading to the end of its round has been told (the loops over  *)
(* the listener sets in SIOReader::readStream), for any files, any         *)
(* listeners and any number of calls.                                      *)
(***************************************************************************)
THEOREM SpecToldOnce == Spec => ToldOnce
<1>1. ReaderInv /\ [Next]_vars => [InCallback => Round]_vars
  BY RoundStep
<1>2. QED
  BY <1>1, ReaderInvariant, PTL DEF Spec, ToldOnce, Round
=============================================================================
