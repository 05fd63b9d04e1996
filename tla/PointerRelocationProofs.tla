----------------------- MODULE PointerRelocationProofs -----------------------
(***************************************************************************)
(* A record on the file needs no other: for any objects, pointers, size of *)
(* the buffer and failures, the match words of a record that was not       *)
(* packed next to an error lead every pointer to its target; and a pointer *)
(* that was read points to the target it was read with, or is null.        *)
(***************************************************************************)
EXTENDS PointerRelocation, FiniteSetTheorems, TLAPS

(***************************************************************************)
(* The first place of an object in a record.                               *)
(***************************************************************************)
IsFirst(items, o, i) ==
  i \in Places(items, o) /\ \A j \in Places(items, o) : i <= j

PackedPointers(items, k) == {i \in 1 .. k : items[i].kind = "to" /\ items[i].obj # NULL}

(***************************************************************************)
(* What the tables and the buffer hold when the first k items are packed.  *)
(* The bound on the number of targets keeps match words below SIO_ptag.    *)
(***************************************************************************)
Tables(items, k) ==
  /\ \A i \in 1 .. k : items[i].kind = "at" => items[i].obj \in DOMAIN wAt
  /\ \A o \in DOMAIN wAt : \E i \in 1 .. k : wAt[o] = i - 1 /\ IsFirst(items, o, i)
  /\ wTo = {<<items[i].obj, i - 1>> : i \in PackedPointers(items, k)}
  /\ Cardinality(Targets) <= k
  /\ \A i \in 1 .. k : buf[i] = IF items[i].kind = "at" THEN SIO_ptag ELSE NULL

Words == Seq(Nat)
FileRecords == [words : Words, items : Contents, stale : BOOLEAN]

(***************************************************************************)
(* RecordSelfContained, of one record; and the match word of a pointer is  *)
(* taken for one when it is read.                                          *)
(***************************************************************************)
SelfContained(rec) ==
  /\ DOMAIN rec.words = DOMAIN rec.items
  /\ ~rec.stale =>
       \A i \in Pointers(rec.items) :
         LET o == rec.items[i].obj
             same == {j \in DOMAIN rec.items : rec.items[j].kind = "at"
                                               /\ rec.words[j] = rec.words[i]}
         IN IF o = NULL \/ Places(rec.items, o) = {}
              THEN rec.words[i] = NULL
              ELSE /\ same = {Min(Places(rec.items, o))}
                   /\ rec.words[i] \notin {NULL, SIO_ptag}

(***************************************************************************)
(* The inductive invariant.  Nothing is known of the tables after a record *)
(* was given up, until one is written.                                     *)
(***************************************************************************)
IInv ==
  /\ bufloc \in Nat /\ bufsize \in Nat \ {0} /\ buf \in Words
  /\ packing \in Contents \cup {<< >>}
  /\ packing # << >> => Len(buf) <= Len(packing)
  /\ gaveUp \in BOOLEAN
  /\ IsFiniteSet(Targets)
  /\ ~gaveUp => IF packing = << >> THEN DOMAIN wAt = {} /\ wTo = {}
                                   ELSE Tables(packing, Len(buf))
  /\ file \in Seq(FileRecords)
  /\ \A n \in DOMAIN file : SelfContained(file[n])

-----------------------------------------------------------------------------
(* Records and match words. *)

LEMMA ItemType ==
  ASSUME NEW items \in Contents
  PROVE  /\ Len(items) \in Nat /\ DOMAIN items = 1 .. Len(items)
         /\ \A i \in 1 .. Len(items) : items[i].kind \in {"at", "to"} /\ items[i].obj \in Nat
         /\ Len(items) < SIO_ptag
<1> DEFINE Items == [blk : Blocks, kind : {"at", "to"}, obj : Nat]
<1>1. items \in Seq(Items)
  BY RelocationAssumption
<1> HIDE DEF Items
<1>2. Len(items) \in Nat /\ DOMAIN items = 1 .. Len(items)
      /\ \A i \in 1 .. Len(items) : items[i] \in Items
  BY <1>1
<1>3. QED
  BY <1>2, RelocationAssumption DEF Items

(***************************************************************************)
(* Match words are numbers of 1 to the number of targets, and different    *)
(* for different targets.                                                  *)
(***************************************************************************)
LEMMA MatchWords ==
  ASSUME IsFiniteSet(Targets), Targets \subseteq Nat
  PROVE  /\ \A o \in Nat : Match(o) \in Nat /\ Match(o) <= Cardinality(Targets)
         /\ \A o \in Targets : Match(o) > 0
         /\ \A o, p \in Targets : Match(o) = Match(p) => o = p
<1> DEFINE Below(o) == {p \in Targets : p <= o}
<1>1. Cardinality(Targets) \in Nat
  BY FS_CardinalityType
<1>2. \A o : Below(o) \in SUBSET Targets
  OBVIOUS
<1>3. \A o : Match(o) = Cardinality(Below(o))
  BY DEF Match
<1>4. \A o : IsFiniteSet(Below(o)) /\ Cardinality(Below(o)) <= Cardinality(Targets)
  <2> SUFFICES ASSUME NEW o PROVE IsFiniteSet(Below(o)) /\ Cardinality(Below(o)) <= Cardinality(Targets)
    OBVIOUS
  <2> HIDE DEF Below
  <2>1. QED
    BY <1>2, FS_Subset
<1>5. \A o \in Targets : o \in Below(o)
  OBVIOUS
<1>6. ASSUME NEW o \in Targets, NEW p \in Targets, o < p
      PROVE  Below(o) \in SUBSET Below(p) /\ Below(o) # Below(p)
  <2>1. o \in Nat /\ p \in Nat /\ p \in Below(p) /\ p \notin Below(o)
    BY <1>6
  <2>2. ASSUME NEW q \in Below(o) PROVE q \in Below(p)
    BY <1>6, <2>1
  <2>3. QED
    BY <2>1, <2>2
<1> HIDE DEF Below
<1>7. \A o : Cardinality(Below(o)) \in Nat
  BY <1>4, FS_CardinalityType
<1>8. \A o \in Targets : Cardinality(Below(o)) # 0
  BY <1>4, <1>5, FS_EmptySet
<1>9. ASSUME NEW o \in Targets, NEW p \in Targets, o < p PROVE Match(o) # Match(p)
  <2>1. IsFiniteSet(Below(p)) /\ Below(o) \in SUBSET Below(p) /\ Below(o) # Below(p)
    BY <1>4, <1>6, <1>9
  <2>2. Cardinality(Below(p)) # Cardinality(Below(o))
    BY <2>1, FS_Subset
  <2>3. QED
    BY <1>3, <2>2
<1>10. \A o, p \in Targets : o < p \/ p < o \/ o = p
  OBVIOUS
<1>11. QED
  BY <1>1, <1>3, <1>4, <1>7, <1>8, <1>9, <1>10

(***************************************************************************)
(* The record that is made of complete tables needs no other.              *)
(***************************************************************************)
LEMMA WholeRecord ==
  ASSUME IInv, ~gaveUp, packing # << >>, Len(buf) = Len(packing)
  PROVE  \A i \in Pointers(packing) :
           LET o == packing[i].obj
               same == {j \in DOMAIN packing : packing[j].kind = "at"
                                               /\ RelocatedWords[j] = RelocatedWords[i]}
           IN IF o = NULL \/ Places(packing, o) = {}
                THEN RelocatedWords[i] = NULL
                ELSE /\ same = {Min(Places(packing, o))}
                     /\ RelocatedWords[i] \notin {NULL, SIO_ptag}
<1> DEFINE L == Len(packing)
           w == RelocatedWords
<1>1. packing \in Contents /\ Tables(packing, L) /\ IsFiniteSet(Targets) /\ buf \in Seq(Nat)
  BY DEF IInv, Words
<1>2. /\ L \in Nat /\ DOMAIN packing = 1 .. L /\ L < SIO_ptag /\ DOMAIN buf = 1 .. L
      /\ \A i \in 1 .. L : packing[i].kind \in {"at", "to"} /\ packing[i].obj \in Nat
  BY <1>1, ItemType
<1>3. Targets = {packing[i].obj : i \in PackedPointers(packing, L)}
  <2>1. wTo = {<<packing[i].obj, i - 1>> : i \in PackedPointers(packing, L)}
    BY <1>1 DEF Tables
  <2>2. ASSUME NEW i \in PackedPointers(packing, L) PROVE packing[i].obj \in Targets
    <3>1. <<packing[i].obj, i - 1>> \in wTo
      BY <2>1
    <3>2. QED
      BY <3>1 DEF Targets
  <2>3. ASSUME NEW o \in Targets
        PROVE  o \in {packing[i].obj : i \in PackedPointers(packing, L)}
    <3>1. PICK e \in wTo : o = e[1]
      BY DEF Targets
    <3>2. PICK i \in PackedPointers(packing, L) : e = <<packing[i].obj, i - 1>>
      BY <2>1, <3>1
    <3>3. QED
      BY <3>1, <3>2
  <2>4. QED
    BY <2>2, <2>3
<1>4. Targets \subseteq Nat \ {0}
  BY <1>2, <1>3 DEF PackedPointers, NULL
<1>5. /\ \A o \in Targets : Match(o) \in Nat /\ Match(o) > 0 /\ Match(o) < SIO_ptag
      /\ \A o, p \in Targets : Match(o) = Match(p) => o = p
  <2>1. Cardinality(Targets) \in Nat /\ Cardinality(Targets) <= L /\ SIO_ptag \in Nat
    BY <1>1, FS_CardinalityType, RelocationAssumption DEF Tables
  <2>2. Targets \subseteq Nat
    BY <1>4
  <2>3. /\ \A o \in Nat : Match(o) \in Nat /\ Match(o) <= Cardinality(Targets)
        /\ \A o \in Targets : Match(o) > 0
        /\ \A o, p \in Targets : Match(o) = Match(p) => o = p
    BY <1>1, <2>2, MatchWords
  <2>4. QED
    BY <1>2, <2>1, <2>2, <2>3
<1>6. \A o \in DOMAIN wAt : \E f \in 1 .. L : wAt[o] = f - 1 /\ IsFirst(packing, o, f)
  BY <1>1 DEF Tables
<1>7. \A i \in 1 .. L : w[i] = IF CopiedTo(i - 1) = {} THEN buf[i] ELSE Match(Max(CopiedTo(i - 1)))
  BY <1>2 DEF RelocatedWords
<1> HIDE DEF w
<1>8. ASSUME NEW i \in 1 .. L PROVE CopiedTo(i - 1) \subseteq {packing[i].obj}
  <2> SUFFICES ASSUME NEW o \in CopiedTo(i - 1) PROVE o = packing[i].obj
    OBVIOUS
  <2>1. o \in DOMAIN wAt /\ (wAt[o] = i - 1 \/ <<o, i - 1>> \in wTo)
    BY DEF CopiedTo
  <2>2. CASE wAt[o] = i - 1
    <3>1. PICK f \in 1 .. L : wAt[o] = f - 1 /\ IsFirst(packing, o, f)
      BY <1>6, <2>1
    <3>2. f = i
      BY <1>2, <2>2, <3>1
    <3>3. QED
      BY <3>1, <3>2 DEF IsFirst, Places
  <2>3. CASE <<o, i - 1>> \in wTo
    <3>1. PICK j \in PackedPointers(packing, L) : <<o, i - 1>> = <<packing[j].obj, j - 1>>
      BY <1>1, <2>3 DEF Tables
    <3>2. j \in 1 .. L /\ o = packing[j].obj /\ i - 1 = j - 1
      BY <3>1 DEF PackedPointers
    <3>3. QED
      BY <1>2, <3>2
  <2>4. QED
    BY <2>1, <2>2, <2>3
<1>9. \A o \in Nat : Max({o}) = o
  <2> SUFFICES ASSUME NEW o \in Nat PROVE Max({o}) = o
    OBVIOUS
  <2>1. \E x \in {o} : \A y \in {o} : x >= y
    OBVIOUS
  <2>2. QED
    BY <2>1 DEF Max
<1>10. ASSUME NEW i \in 1 .. L
       PROVE  w[i] = IF packing[i].obj \in CopiedTo(i - 1) THEN Match(packing[i].obj) ELSE buf[i]
  <2>1. CASE packing[i].obj \in CopiedTo(i - 1)
    <3>1. CopiedTo(i - 1) = {packing[i].obj}
      BY <1>8, <2>1
    <3>2. Max(CopiedTo(i - 1)) = packing[i].obj
      BY <1>2, <1>9, <3>1
    <3>3. QED
      BY <1>7, <2>1, <3>2
  <2>2. CASE packing[i].obj \notin CopiedTo(i - 1)
    <3>1. CopiedTo(i - 1) = {}
      BY <1>8, <2>2
    <3>2. QED
      BY <1>7, <2>2, <3>1
  <2>3. QED
    BY <2>1, <2>2
<1>11. \A o : o \in DOMAIN wAt <=> Places(packing, o) # {}
  <2>1. ASSUME NEW o \in DOMAIN wAt PROVE Places(packing, o) # {}
    BY <1>6 DEF IsFirst
  <2>2. ASSUME NEW o, NEW i \in Places(packing, o) PROVE o \in DOMAIN wAt
    BY <1>1, <1>2 DEF Places, Tables
  <2>3. QED
    BY <2>1, <2>2
<1>12. ASSUME NEW j \in 1 .. L, packing[j].kind = "at"
       PROVE  LET p == packing[j].obj
              IN w[j] = IF p \in Targets /\ IsFirst(packing, p, j) THEN Match(p) ELSE SIO_ptag
  <2> DEFINE p == packing[j].obj
  <2>1. j \in Places(packing, p) /\ p \in DOMAIN wAt
    BY <1>1, <1>2, <1>12 DEF Places, Tables
  <2>2. PICK f \in 1 .. L : wAt[p] = f - 1 /\ IsFirst(packing, p, f)
    BY <1>6, <2>1
  <2>3. IsFirst(packing, p, j) <=> f = j
    BY <1>2, <2>1, <2>2 DEF IsFirst
  <2>4. <<p, j - 1>> \notin wTo
    <3> SUFFICES ASSUME NEW i \in PackedPointers(packing, L), <<p, j - 1>> = <<packing[i].obj, i - 1>>
                 PROVE  FALSE
      BY <1>1 DEF Tables
    <3>1. i \in 1 .. L /\ packing[i].kind = "to" /\ i - 1 = j - 1
      BY DEF PackedPointers
    <3>2. i = j
      BY <1>2, <3>1
    <3>3. QED
      BY <1>12, <3>1, <3>2
  <2>5. wAt[p] = j - 1 <=> f = j
    BY <1>2, <2>2
  <2>6. p \in CopiedTo(j - 1) <=> p \in Targets /\ IsFirst(packing, p, j)
    BY <2>1, <2>3, <2>4, <2>5 DEF CopiedTo
  <2>7. buf[j] = SIO_ptag
    BY <1>1, <1>12 DEF Tables
  <2>8. QED
    BY <1>10, <2>6, <2>7
<1> SUFFICES ASSUME NEW i \in Pointers(packing)
             PROVE  LET o == packing[i].obj
                        same == {j \in 1 .. L : packing[j].kind = "at" /\ w[j] = w[i]}
                    IN IF o = NULL \/ Places(packing, o) = {}
                         THEN w[i] = NULL
                         ELSE /\ same = {Min(Places(packing, o))}
                              /\ w[i] \notin {NULL, SIO_ptag}
  BY <1>2 DEF w
<1> DEFINE o == packing[i].obj
           same == {j \in 1 .. L : packing[j].kind = "at" /\ w[j] = w[i]}
<1>13. i \in 1 .. L /\ packing[i].kind = "to" /\ buf[i] = NULL
  BY <1>1, <1>2 DEF Pointers, Tables
<1>14. CASE o = NULL \/ Places(packing, o) = {}
  <2>1. o \notin CopiedTo(i - 1)
    BY <1>4, <1>11, <1>14 DEF CopiedTo, NULL
  <2>2. w[i] = NULL
    BY <1>10, <1>13, <2>1
  <2>3. QED
    BY <1>14, <2>2
<1>15. CASE o # NULL /\ Places(packing, o) # {}
  <2>1. i \in PackedPointers(packing, L)
    BY <1>13, <1>15 DEF PackedPointers
  <2>2. <<o, i - 1>> \in wTo /\ o \in Targets
    BY <1>1, <1>3, <2>1 DEF Tables
  <2>3. o \in CopiedTo(i - 1)
    BY <1>11, <1>15, <2>2 DEF CopiedTo
  <2>4. w[i] = Match(o)
    BY <1>10, <1>13, <2>3
  <2>5. PICK f \in 1 .. L : IsFirst(packing, o, f)
    BY <1>6, <1>11, <1>15
  <2>6. Places(packing, o) \subseteq Nat /\ f \in Places(packing, o) /\ \A j \in Places(packing, o) : f <= j
    BY <1>2, <2>5 DEF IsFirst, Places
  <2>7. Min(Places(packing, o)) = f
    <3>1. \A x \in Places(packing, o) : (\A j \in Places(packing, o) : x <= j) => x = f
      BY <2>6
    <3>2. QED
      BY <2>6, <3>1 DEF Min
  <2>8. f \in same
    <3>1. packing[f].kind = "at" /\ packing[f].obj = o
      BY <2>6 DEF Places
    <3>2. w[f] = Match(o)
      BY <1>12, <2>2, <2>5, <3>1
    <3>3. QED
      BY <2>4, <3>1, <3>2
  <2>9. ASSUME NEW j \in same PROVE j = f
    <3>1. packing[j].kind = "at" /\ w[j] = Match(o) /\ w[j] # SIO_ptag
      BY <1>5, <2>2, <2>4, RelocationAssumption
    <3>2. packing[j].obj \in Targets /\ IsFirst(packing, packing[j].obj, j)
          /\ w[j] = Match(packing[j].obj)
      BY <1>12, <3>1
    <3>3. packing[j].obj = o
      BY <1>5, <2>2, <3>1, <3>2
    <3>4. j \in Places(packing, o) /\ j <= f
      BY <2>6, <3>2, <3>3 DEF IsFirst
    <3>5. QED
      BY <2>6, <3>4
  <2>10. same = {Min(Places(packing, o))}
    BY <2>7, <2>8, <2>9
  <2>11. w[i] \notin {NULL, SIO_ptag}
    BY <1>5, <2>2, <2>4, RelocationAssumption DEF NULL
  <2>12. QED
    BY <1>15, <2>10, <2>11
<1>16. QED
  BY <1>14, <1>15

-----------------------------------------------------------------------------
(* Packing. *)

(***************************************************************************)
(* One word more in the buffer, which moves when it is full.               *)
(***************************************************************************)
LEMMA PutWordOK ==
  ASSUME IInv, NEW w \in Nat, PutWord(w)
  PROVE  /\ bufloc' \in Nat /\ bufsize' \in Nat \ {0} /\ buf' \in Words
         /\ Len(buf') = Len(buf) + 1 /\ Len(buf) \in Nat
         /\ buf'[Len(buf) + 1] = w /\ \A i \in 1 .. Len(buf) : buf'[i] = buf[i]
<1>1. buf \in Seq(Nat) /\ bufloc \in Nat /\ bufsize \in Nat \ {0} /\ buf' = Append(buf, w)
  BY DEF IInv, Words, PutWord
<1>2. bufloc' \in Nat /\ bufsize' \in Nat \ {0}
  <2>1. CASE Fits
    BY <1>1, <2>1 DEF PutWord
  <2>2. CASE ~Fits
    BY <1>1, <2>2 DEF PutWord, Grow
  <2>3. QED
    BY <2>1, <2>2
<1>3. QED
  BY <1>1, <1>2 DEF Words

(***************************************************************************)
(* An item is packed: the tables say where it is in the record, not where  *)
(* it is in memory, so that they stay right when the buffer moves.         *)
(***************************************************************************)
LEMMA PackOK ==
  ASSUME IInv, PackItem
  PROVE  IInv'
<1> DEFINE k == Len(buf)
<1>1. /\ buf \in Seq(Nat) /\ k \in Nat /\ bufloc \in Nat /\ k < Len(packing)
      /\ packing \in Contents \cup {<< >>} /\ IsFiniteSet(Targets)
  BY DEF IInv, Words, PackItem
<1>2. packing \in Contents /\ packing # << >>
  BY <1>1
<1>3. /\ Len(packing) \in Nat
      /\ \A i \in 1 .. Len(packing) : packing[i].kind \in {"at", "to"} /\ packing[i].obj \in Nat
  BY <1>2, ItemType
<1>4. Item = packing[k + 1] /\ k + 1 \in 1 .. Len(packing)
  BY <1>1, <1>3 DEF Item
<1>5. Offset = k
  BY <1>1 DEF Offset, Cursor
<1>6. UNCHANGED <<packing, gaveUp, file>>
  BY DEF PackItem
<1>7. \A n \in DOMAIN file' : SelfContained(file'[n])
  BY <1>6 DEF IInv
<1>8. ~gaveUp => Tables(packing, k)
  BY <1>2 DEF IInv
<1>9. CASE PointedAtWrite
  <2> DEFINE o == packing[k + 1].obj
  <2>1. /\ packing[k + 1].kind = "at" /\ wAt' = Insert(wAt, o, k) /\ PutWord(SIO_ptag)
        /\ wTo' = wTo
    BY <1>4, <1>5, <1>9 DEF PointedAtWrite
  <2>2. SIO_ptag \in Nat
    BY RelocationAssumption
  <2>3. /\ bufloc' \in Nat /\ bufsize' \in Nat \ {0} /\ buf' \in Words
        /\ Len(buf') = k + 1
        /\ buf'[k + 1] = SIO_ptag /\ \A i \in 1 .. k : buf'[i] = buf[i]
    BY <2>1, <2>2, PutWordOK
  <2>4. Targets' = Targets
    BY <2>1 DEF Targets
  <2>5. ASSUME ~gaveUp PROVE Tables(packing, Len(buf))'
    <3>1. Tables(packing, k)
      BY <1>8, <2>5
    <3>2. /\ DOMAIN wAt' = DOMAIN wAt \cup {o} /\ \A x \in DOMAIN wAt : wAt'[x] = wAt[x]
          /\ o \notin DOMAIN wAt => wAt'[o] = k
      BY <2>1 DEF Insert
    <3>3. \A i \in 1 .. k + 1 : packing[i].kind = "at" => packing[i].obj \in DOMAIN wAt'
      <4>1. \A i \in 1 .. k + 1 : i \in 1 .. k \/ i = k + 1
        BY <1>1
      <4>2. QED
        BY <3>1, <3>2, <4>1 DEF Tables
    <3>4. \A x \in DOMAIN wAt : \E i \in 1 .. k + 1 : wAt'[x] = i - 1 /\ IsFirst(packing, x, i)
      <4>1. \A x \in DOMAIN wAt : \E i \in 1 .. k : wAt[x] = i - 1 /\ IsFirst(packing, x, i)
        BY <3>1 DEF Tables
      <4>2. \A i \in 1 .. k : i \in 1 .. k + 1
        BY <1>1
      <4>3. QED
        BY <3>2, <4>1, <4>2
    <3>5. o \notin DOMAIN wAt => IsFirst(packing, o, k + 1)
      <4> SUFFICES ASSUME o \notin DOMAIN wAt, NEW j \in Places(packing, o)
                   PROVE  k + 1 \in Places(packing, o) /\ k + 1 <= j
        <5>1. k + 1 \in Places(packing, o)
          BY <1>2, <1>4, <2>1, ItemType DEF Places
        <5>2. QED
          BY <5>1 DEF IsFirst
      <4>1. /\ j \in 1 .. Len(packing) /\ packing[j].kind = "at" /\ packing[j].obj = o
            /\ k + 1 \in Places(packing, o)
        BY <1>2, <1>4, <2>1, ItemType DEF Places
      <4>2. j \notin 1 .. k
        BY <3>1, <4>1 DEF Tables
      <4>3. QED
        BY <1>1, <1>3, <4>1, <4>2
    <3>6. \A x \in DOMAIN wAt' : \E i \in 1 .. k + 1 : wAt'[x] = i - 1 /\ IsFirst(packing, x, i)
      <4>1. k + 1 \in 1 .. k + 1 /\ k = (k + 1) - 1
        BY <1>1
      <4>2. CASE o \in DOMAIN wAt
        BY <3>2, <3>4, <4>2
      <4>3. CASE o \notin DOMAIN wAt
        <5>1. wAt'[o] = (k + 1) - 1
          BY <1>1, <3>2, <4>3
        <5>2. IsFirst(packing, o, k + 1)
          BY <3>5, <4>3
        <5>3. QED
          BY <3>2, <3>4, <4>1, <5>1, <5>2
      <4>4. QED
        BY <4>2, <4>3
    <3>7. PackedPointers(packing, k + 1) = PackedPointers(packing, k)
      BY <1>1, <2>1 DEF PackedPointers
    <3>8. \A i \in 1 .. k + 1 : buf'[i] = IF packing[i].kind = "at" THEN SIO_ptag ELSE NULL
      <4>1. \A i \in 1 .. k + 1 : i \in 1 .. k \/ i = k + 1
        BY <1>1
      <4>2. QED
        BY <2>1, <2>3, <3>1, <4>1 DEF Tables
    <3>9. Cardinality(Targets) <= k + 1
      <4>1. Cardinality(Targets) \in Nat
        BY <1>1, FS_CardinalityType
      <4>2. QED
        BY <1>1, <3>1, <4>1 DEF Tables
    <3>10. QED
      BY <1>6, <2>1, <2>3, <2>4, <3>1, <3>3, <3>6, <3>7, <3>8, <3>9 DEF Tables, IsFirst, Places, PackedPointers
  <2>6. QED
    BY <1>1, <1>2, <1>3, <1>6, <1>7, <2>3, <2>4, <2>5 DEF IInv
<1>10. CASE PointerToWrite
  <2> DEFINE o == packing[k + 1].obj
  <2>1. /\ packing[k + 1].kind = "to" /\ wAt' = wAt /\ PutWord(NULL)
        /\ wTo' = IF o = NULL THEN wTo ELSE wTo \cup {<<o, k>>}
    BY <1>4, <1>5, <1>10 DEF PointerToWrite
  <2>2. /\ bufloc' \in Nat /\ bufsize' \in Nat \ {0} /\ buf' \in Words
        /\ Len(buf') = k + 1
        /\ buf'[k + 1] = NULL /\ \A i \in 1 .. k : buf'[i] = buf[i]
    BY <2>1, PutWordOK DEF NULL
  <2>3. Targets' = IF o = NULL THEN Targets ELSE Targets \cup {o}
    <3>1. CASE o = NULL
      BY <2>1, <3>1 DEF Targets
    <3>2. CASE o # NULL
      <4>1. wTo' = wTo \cup {<<o, k>>} /\ <<o, k>>[1] = o
        BY <2>1, <3>2
      <4>2. Targets' = Targets \cup {o}
        BY <4>1 DEF Targets
      <4>3. QED
        BY <3>2, <4>2
    <3>3. QED
      BY <3>1, <3>2
  <2>4. /\ IsFiniteSet(Targets') /\ Cardinality(Targets) \in Nat
        /\ Cardinality(Targets') \in {Cardinality(Targets), Cardinality(Targets) + 1}
    <3>1. Cardinality(Targets) \in Nat
      BY <1>1, FS_CardinalityType
    <3>2. /\ IsFiniteSet(Targets \cup {o})
          /\ Cardinality(Targets \cup {o}) = IF o \in Targets THEN Cardinality(Targets)
                                             ELSE Cardinality(Targets) + 1
      BY <1>1, FS_AddElement
    <3>3. QED
      BY <1>1, <2>3, <3>1, <3>2
  <2>5. ASSUME ~gaveUp PROVE Tables(packing, Len(buf))'
    <3>1. Tables(packing, k)
      BY <1>8, <2>5
    <3>2. \A i \in 1 .. k + 1 : i \in 1 .. k \/ i = k + 1
      BY <1>1
    <3>3. \A i \in 1 .. k + 1 : packing[i].kind = "at" => packing[i].obj \in DOMAIN wAt
      BY <2>1, <3>1, <3>2 DEF Tables
    <3>4. \A x \in DOMAIN wAt : \E i \in 1 .. k + 1 : wAt[x] = i - 1 /\ IsFirst(packing, x, i)
      <4>1. \A x \in DOMAIN wAt : \E i \in 1 .. k : wAt[x] = i - 1 /\ IsFirst(packing, x, i)
        BY <3>1 DEF Tables
      <4>2. \A i \in 1 .. k : i \in 1 .. k + 1
        BY <1>1
      <4>3. QED
        BY <4>1, <4>2
    <3>5. PackedPointers(packing, k + 1) =
            IF o = NULL THEN PackedPointers(packing, k) ELSE PackedPointers(packing, k) \cup {k + 1}
      BY <1>1, <2>1 DEF PackedPointers
    <3>6. wTo' = {<<packing[i].obj, i - 1>> : i \in PackedPointers(packing, k + 1)}
      <4>1. wTo = {<<packing[i].obj, i - 1>> : i \in PackedPointers(packing, k)}
        BY <3>1 DEF Tables
      <4>2. (k + 1) - 1 = k
        BY <1>1
      <4>3. CASE o = NULL
        BY <2>1, <3>5, <4>1, <4>3
      <4>4. CASE o # NULL
        <5>1. PackedPointers(packing, k + 1) = PackedPointers(packing, k) \cup {k + 1}
          BY <3>5, <4>4
        <5>2. {<<packing[i].obj, i - 1>> : i \in PackedPointers(packing, k) \cup {k + 1}}
                = {<<packing[i].obj, i - 1>> : i \in PackedPointers(packing, k)}
                    \cup {<<o, (k + 1) - 1>>}
          OBVIOUS
        <5>3. QED
          BY <2>1, <4>1, <4>2, <4>4, <5>1, <5>2
      <4>5. QED
        BY <4>3, <4>4
    <3>7. Cardinality(Targets') <= k + 1
      BY <1>1, <2>4, <3>1 DEF Tables
    <3>8. \A i \in 1 .. k + 1 : buf'[i] = IF packing[i].kind = "at" THEN SIO_ptag ELSE NULL
      BY <2>1, <2>2, <3>1, <3>2 DEF Tables
    <3>9. QED
      BY <1>6, <2>1, <2>2, <3>3, <3>4, <3>6, <3>7, <3>8 DEF Tables, IsFirst, Places, PackedPointers
  <2>6. QED
    BY <1>1, <1>2, <1>3, <1>6, <1>7, <2>2, <2>4, <2>5 DEF IInv
<1>11. QED
  BY <1>9, <1>10 DEF PackItem

(***************************************************************************)
(* A record is written: it joins those that need no other.                 *)
(***************************************************************************)
LEMMA WriteOK ==
  ASSUME IInv, WriteRecord
  PROVE  IInv'
<1> DEFINE rec == [words |-> RelocatedWords, items |-> packing, stale |-> gaveUp]
<1>1. /\ packing # << >> /\ Len(buf) = Len(packing) /\ file' = Append(file, rec)
      /\ packing' = << >> /\ gaveUp' = FALSE /\ wTo' = {} /\ wAt' = Empty
      /\ UNCHANGED <<bufloc, bufsize, buf>>
  BY DEF WriteRecord
<1>2. packing \in Contents /\ buf \in Seq(Nat) /\ gaveUp \in BOOLEAN /\ IsFiniteSet(Targets)
      /\ file \in Seq(FileRecords)
  BY <1>1 DEF IInv, Words
<1>3. RelocatedWords \in Seq(Nat)
  <2>1. \A o : Match(o) \in Nat
    <3> SUFFICES ASSUME NEW o PROVE Match(o) \in Nat
      OBVIOUS
    <3>1. {p \in Targets : p <= o} \in SUBSET Targets
      OBVIOUS
    <3>2. IsFiniteSet({p \in Targets : p <= o})
      BY <1>2, <3>1, FS_Subset
    <3>3. QED
      BY <3>2, FS_CardinalityType DEF Match
  <2>2. DOMAIN buf = 1 .. Len(buf) /\ Len(buf) \in Nat /\ \A i \in DOMAIN buf : buf[i] \in Nat
    BY <1>2
  <2>3. RelocatedWords \in [1 .. Len(buf) -> Nat]
    BY <2>1, <2>2 DEF RelocatedWords
  <2>4. QED
    BY <2>2, <2>3
<1>4. rec \in FileRecords
  BY <1>2, <1>3 DEF FileRecords, Words
<1>5. /\ file' \in Seq(FileRecords) /\ DOMAIN file' = DOMAIN file \cup {Len(file) + 1}
      /\ file'[Len(file) + 1] = rec /\ \A n \in DOMAIN file : file'[n] = file[n]
  <2> HIDE DEF rec
  <2>1. QED
    BY <1>1, <1>2, <1>4
<1>6. Targets' = {}
  BY <1>1 DEF Targets
<1>7. \A n \in DOMAIN file' : SelfContained(file'[n])
  <2>1. SelfContained(rec)
    <3>1. ~gaveUp => \A i \in Pointers(packing) :
            LET o == packing[i].obj
                same == {j \in DOMAIN packing : packing[j].kind = "at"
                                                /\ RelocatedWords[j] = RelocatedWords[i]}
            IN IF o = NULL \/ Places(packing, o) = {}
                 THEN RelocatedWords[i] = NULL
                 ELSE /\ same = {Min(Places(packing, o))}
                      /\ RelocatedWords[i] \notin {NULL, SIO_ptag}
      BY <1>1, WholeRecord
    <3>2. rec.words = RelocatedWords /\ rec.items = packing /\ rec.stale = gaveUp
      OBVIOUS
    <3>3. DOMAIN RelocatedWords = DOMAIN packing
      BY <1>1, <1>2, ItemType DEF RelocatedWords
    <3> HIDE DEF rec
    <3>4. QED
      BY <3>1, <3>2, <3>3 DEF SelfContained
  <2> HIDE DEF rec
  <2>2. QED
    BY <1>5, <2>1 DEF IInv
<1>8. IsFiniteSet(Targets') /\ DOMAIN wAt' = {}
  BY <1>1, <1>6, FS_EmptySet DEF Empty
<1>9. QED
  BY <1>1, <1>5, <1>7, <1>8 DEF IInv

-----------------------------------------------------------------------------
(* The invariant. *)

LEMMA InitIInv == Init => IInv
<1> SUFFICES ASSUME Init PROVE IInv
  OBVIOUS
<1>1. Targets = {} /\ DOMAIN wAt = {} /\ DOMAIN file = {}
  BY DEF Init, Targets, Empty
<1>2. \A n \in DOMAIN file : SelfContained(file[n])
  BY <1>1
<1>3. file \in Seq(FileRecords) /\ buf \in Words
  BY DEF Init, Words
<1>4. QED
  BY <1>1, <1>2, <1>3, FS_EmptySet, RelocationAssumption DEF Init, IInv

(***************************************************************************)
(* What does not touch what the invariant is about.                        *)
(***************************************************************************)
LEMMA Untouched ==
  ASSUME IInv, UNCHANGED <<packing, bufloc, bufsize, buf, wAt, wTo, gaveUp, file>>
  PROVE  IInv'
<1>1. Targets' = Targets
  BY DEF Targets
<1>2. Tables(packing, Len(buf))' <=> Tables(packing, Len(buf))
  BY <1>1 DEF Tables, IsFirst, Places, PackedPointers
<1>3. QED
  BY <1>1, <1>2 DEF IInv

(***************************************************************************)
(* A record is given up: the tables may hold anything from then on.        *)
(***************************************************************************)
LEMMA GivenUp ==
  ASSUME IInv, packing' = << >>, gaveUp' = TRUE, UNCHANGED <<bufloc, bufsize, buf, wTo, file>>
  PROVE  IInv'
BY DEF IInv, Targets

LEMMA NextIInv == IInv /\ [Next]_vars => IInv'
<1> SUFFICES ASSUME IInv, [Next]_vars PROVE IInv'
  OBVIOUS
<1>1. CASE BeginRecord
  <2>1. /\ packing = << >> /\ packing' \in Contents \ {<< >>} /\ buf' = << >>
        /\ UNCHANGED <<bufloc, bufsize, wAt, wTo, gaveUp, file>>
    BY <1>1 DEF BeginRecord
  <2>2. \A n \in DOMAIN file' : SelfContained(file'[n])
    BY <2>1 DEF IInv
  <2>3. Len(packing') \in Nat /\ buf' \in Words /\ Len(buf') = 0
    BY <2>1, ItemType DEF Words
  <2>4. ASSUME ~gaveUp PROVE Tables(packing, 0)'
    <3>1. DOMAIN wAt = {} /\ wTo = {}
      BY <2>1, <2>4 DEF IInv
    <3>2. Targets' = {} /\ PackedPointers(packing', 0) = {}
      BY <2>1, <3>1 DEF Targets, PackedPointers
    <3>3. Cardinality(Targets') = 0
      BY <3>2, FS_EmptySet
    <3>4. QED
      BY <2>1, <3>1, <3>2, <3>3 DEF Tables, PackedPointers
  <2>5. ~gaveUp' => Tables(packing, Len(buf))'
    BY <2>1, <2>3, <2>4
  <2>6. QED
    BY <2>1, <2>2, <2>3, <2>5 DEF IInv, Targets
<1>2. CASE PackItem
  BY <1>2, PackOK
<1>3. CASE AllocationFails \/ PackingError \/ DiskFails
  BY <1>3, GivenUp DEF AllocationFails, PackingError, DiskFails
<1>4. CASE WriteRecord
  BY <1>4, WriteOK
<1>5. CASE Close
  <2>1. /\ packing = << >> /\ wAt' = Empty /\ wTo' = {}
        /\ UNCHANGED <<packing, bufloc, bufsize, buf, gaveUp, file>>
    BY <1>5 DEF Close
  <2>2. \A n \in DOMAIN file' : SelfContained(file'[n])
    BY <2>1 DEF IInv
  <2>3. DOMAIN wAt' = {} /\ Targets' = {} /\ IsFiniteSet(Targets')
    BY <2>1, FS_EmptySet DEF Empty, Targets
  <2>4. QED
    BY <2>1, <2>2, <2>3 DEF IInv
<1>6. CASE \E r \in DOMAIN file, wanted \in Wanted : BeginRead(r, wanted)
  BY <1>6, Untouched DEF BeginRead, wvars
<1>7. CASE UnpackItem \/ UnpackFails \/ UnpackThrows \/ RelocateRead
  BY <1>7, Untouched DEF UnpackItem, UnpackFails, UnpackThrows, RelocateRead, wvars
<1>8. CASE UNCHANGED vars
  BY <1>8, Untouched DEF vars, wvars
<1>9. QED
  BY <1>1, <1>2, <1>3, <1>4, <1>5, <1>6, <1>7, <1>8 DEF Next

(***************************************************************************)
(* A record on the file needs no other: every pointer in it has the match  *)
(* word of its target and of nothing else, or 0, whatever the buffer, the  *)
(* addresses and the records before it; but for the record that is written *)
(* next after one was given up.                                            *)
(***************************************************************************)
THEOREM SpecRecordSelfContained == Spec => []RecordSelfContained
<1>1. IInv => RecordSelfContained
  BY DEF IInv, RecordSelfContained, SelfContained
<1>2. QED
  BY <1>1, InitIInv, NextIInv, PTL DEF Spec
-----------------------------------------------------------------------------
(* What is read. *)

Addresses == Nat \X Nat
ReadRecords == [rec : Nat, wanted : SUBSET Blocks, slot : Seq(Addresses),
                state : {"busy", "ok", "failed", "thrown"}]

\* The read before it left nothing in the tables.
Clean(n) == n > 1 => reads[n - 1].state # "thrown"

\* The items that were unpacked, of the first k of the record at work.
Taken(k) == {i \in 1 .. k : Record.items[i].blk \in reads[At].wanted}

(***************************************************************************)
(* What the tables and the pointers hold when the first rpos items of a    *)
(* record are unpacked.  The tables may hold what an exception left, too:  *)
(* pointers of older reads, and objects if the last read threw.            *)
(***************************************************************************)
ReadTables ==
  /\ rpos <= Len(Record.items)
  /\ \A e \in rTo : e[2][1] = At =>
       /\ e[2][2] \in Taken(rpos) /\ Record.items[e[2][2]].kind = "to"
       /\ e[1] = Record.words[e[2][2]] /\ e[1] # NULL
  /\ \A i \in Taken(rpos) : Record.items[i].kind = "to" /\ Record.words[i] # NULL =>
       <<Record.words[i], Addr(At, i)>> \in rTo
  /\ Clean(At) => \A m \in DOMAIN rAt : \E j \in Taken(rpos) :
       Record.items[j].kind = "at" /\ Record.words[j] = m /\ rAt[m] = Addr(At, j)
  /\ \A j \in Taken(rpos) : Record.items[j].kind = "at" /\ Record.words[j] # SIO_ptag =>
       Record.words[j] \in DOMAIN rAt
  /\ \A i \in Pointers(Record.items) : reads[At].slot[i] =
       IF i \in Taken(rpos) THEN Raw(Record.words[i]) ELSE NullPointer

(***************************************************************************)
(* The reads: only the last one may be at work, and only its pointers and  *)
(* those of reads that threw are in the tables.                            *)
(***************************************************************************)
ReadsShape ==
  /\ reads \in Seq(ReadRecords) /\ rpos \in Nat
  /\ \A n \in DOMAIN reads :
       /\ reads[n].rec \in DOMAIN file
       /\ DOMAIN reads[n].slot = DOMAIN file[reads[n].rec].items
       /\ n # At => reads[n].state # "busy"
  /\ \A e \in rTo : /\ e[1] \in Nat /\ e[2] \in Addresses /\ e[2][1] \in DOMAIN reads
                    /\ reads[e[2][1]].state \in {"busy", "thrown"}
  /\ \A m \in DOMAIN rAt : m \in Nat /\ rAt[m] \in Addresses
  /\ ~Busy /\ Clean(At + 1) => rTo = {} /\ DOMAIN rAt = {}

(***************************************************************************)
(* The inductive invariant of the reading side, relative to IInv.          *)
(***************************************************************************)
RInv == ReadsShape /\ (Busy => ReadTables) /\ PointersHome

LEMMA FileShape ==
  ASSUME IInv, NEW r \in DOMAIN file
  PROVE  /\ r \in Nat /\ file[r].items \in Contents /\ file[r].words \in Seq(Nat)
         /\ Len(file[r].items) \in Nat /\ DOMAIN file[r].items = 1 .. Len(file[r].items)
         /\ DOMAIN file[r].words = 1 .. Len(file[r].items)
         /\ \A i \in 1 .. Len(file[r].items) :
              file[r].items[i].kind \in {"at", "to"} /\ file[r].words[i] \in Nat
         /\ SelfContained(file[r])
<1>1. file \in Seq(FileRecords) /\ SelfContained(file[r])
  BY DEF IInv
<1>2. r \in Nat /\ file[r] \in FileRecords
  BY <1>1
<1>3. file[r].items \in Contents /\ file[r].words \in Seq(Nat)
  BY <1>2 DEF FileRecords, Words
<1>4. DOMAIN file[r].words = DOMAIN file[r].items
  BY <1>1 DEF SelfContained
<1>5. QED
  BY <1>1, <1>2, <1>3, <1>4, ItemType

(***************************************************************************)
(* What the record at work looks like.                                     *)
(***************************************************************************)
LEMMA RecordShape ==
  ASSUME IInv, ReadsShape, Busy
  PROVE  /\ At \in Nat /\ At > 0 /\ At \in DOMAIN reads /\ DOMAIN reads = 1 .. At
         /\ reads[At] \in ReadRecords /\ reads[At].rec \in DOMAIN file
         /\ Record = file[reads[At].rec] /\ Record.items \in Contents
         /\ DOMAIN reads[At].slot = DOMAIN Record.items
         /\ Len(Record.items) \in Nat /\ DOMAIN Record.items = 1 .. Len(Record.items)
         /\ \A i \in 1 .. Len(Record.items) :
              Record.items[i].kind \in {"at", "to"} /\ Record.words[i] \in Nat
         /\ SelfContained(Record)
<1>1. reads \in Seq(ReadRecords) /\ reads # << >>
  BY DEF ReadsShape, Busy
<1>2. At \in Nat /\ At > 0 /\ At \in DOMAIN reads /\ DOMAIN reads = 1 .. At
  BY <1>1 DEF At
<1>3. reads[At].rec \in DOMAIN file /\ DOMAIN reads[At].slot = DOMAIN file[reads[At].rec].items
  BY <1>2 DEF ReadsShape
<1>4. reads[At] \in ReadRecords
  BY <1>1, <1>2
<1>5. QED
  BY <1>2, <1>3, <1>4, FileShape DEF Record

LEMMA AllHomeKept ==
  ASSUME NEW n, AllHome(n),
         reads'[n].rec = reads[n].rec, reads'[n].wanted = reads[n].wanted,
         reads'[n].slot = reads[n].slot, file'[reads[n].rec] = file[reads[n].rec]
  PROVE  AllHome(n)'
BY DEF AllHome, Home

(***************************************************************************)
(* What the writing stream does: it adds to the file.                      *)
(***************************************************************************)
LEMMA ReaderUntouched ==
  ASSUME RInv, UNCHANGED rvars,
         \A r \in DOMAIN file : r \in DOMAIN file' /\ file'[r] = file[r]
  PROVE  RInv'
<1>1. reads' = reads /\ rpos' = rpos /\ rAt' = rAt /\ rTo' = rTo
  BY DEF rvars
<1>2. \A n \in DOMAIN reads : reads[n].rec \in DOMAIN file'
                             /\ file'[reads[n].rec] = file[reads[n].rec]
  BY DEF RInv, ReadsShape
<1>3. ReadsShape'
  BY <1>1, <1>2 DEF RInv, ReadsShape, Busy, Clean, At
<1>4. ASSUME Busy' PROVE ReadTables'
  <2>1. Busy /\ At \in DOMAIN reads
    BY <1>1, <1>4 DEF Busy, RInv, ReadsShape, At
  <2>2. Record' = Record /\ At' = At
    BY <1>1, <1>2, <2>1 DEF Record, At
  <2>3. Taken(rpos)' = Taken(rpos)
    BY <1>1, <2>2 DEF Taken
  <2>4. Clean(At)' <=> Clean(At)
    BY <1>1, <2>2 DEF Clean
  <2>5. ReadTables
    BY <2>1 DEF RInv
  <2>6. QED
    BY <1>1, <2>2, <2>3, <2>4, <2>5 DEF ReadTables
<1>5. PointersHome'
  <2> SUFFICES ASSUME NEW n \in DOMAIN reads, UnpackedWell(n)',
                      n > 1 => reads'[n - 1].state # "thrown"
               PROVE  AllHome(n)'
    BY <1>1 DEF PointersHome
  <2>1. UnpackedWell(n)
    BY <1>1, <1>2 DEF UnpackedWell
  <2>2. AllHome(n)
    BY <1>1, <2>1 DEF RInv, PointersHome
  <2>3. QED
    BY <1>1, <1>2, <2>2, AllHomeKept
<1>6. QED
  BY <1>3, <1>4, <1>5 DEF RInv

(***************************************************************************)
(* A step of the read at work that does not finish it leaves the others    *)
(* alone.                                                                  *)
(***************************************************************************)
LEMMA OthersKept ==
  ASSUME IInv, RInv, Busy, UNCHANGED file,
         reads' \in Seq(ReadRecords), Len(reads') = Len(reads),
         reads'[At].rec = reads[At].rec, reads'[At].wanted = reads[At].wanted,
         DOMAIN reads'[At].slot = DOMAIN reads[At].slot, reads'[At].state # "ok",
         \A n \in DOMAIN reads : n # At => reads'[n] = reads[n]
  PROVE  /\ DOMAIN reads' = DOMAIN reads /\ At' = At /\ Record' = Record
         /\ \A n \in DOMAIN reads' :
              /\ reads'[n].rec \in DOMAIN file'
              /\ DOMAIN reads'[n].slot = DOMAIN file'[reads'[n].rec].items
              /\ n # At' => reads'[n].state # "busy"
         /\ \A k : Taken(k)' = Taken(k)
         /\ Clean(At)' <=> Clean(At)
         /\ PointersHome'
<1>1. reads \in Seq(ReadRecords) /\ ReadsShape /\ PointersHome
  BY DEF RInv, ReadsShape
<1>2. At \in Nat /\ At > 0 /\ DOMAIN reads = 1 .. At /\ DOMAIN reads' = 1 .. At /\ At' = At
  BY <1>1, RecordShape DEF At
<1>3. \A n \in DOMAIN reads : /\ reads'[n].rec = reads[n].rec
                              /\ reads'[n].wanted = reads[n].wanted
                              /\ DOMAIN reads'[n].slot = DOMAIN reads[n].slot
  BY <1>2
<1>4. Record' = Record
  BY <1>2, <1>3 DEF Record
<1>5. \A k : Taken(k)' = Taken(k)
  BY <1>2, <1>3, <1>4 DEF Taken
<1>6. Clean(At)' <=> Clean(At)
  <2>1. At > 1 => At - 1 \in DOMAIN reads /\ At - 1 # At
    BY <1>2
  <2>2. At > 1 => reads'[At - 1] = reads[At - 1]
    BY <2>1
  <2>3. QED
    BY <1>2, <2>2 DEF Clean
<1>7. PointersHome'
  <2> SUFFICES ASSUME NEW n \in DOMAIN reads, UnpackedWell(n)',
                      n > 1 => reads'[n - 1].state # "thrown"
               PROVE  AllHome(n)'
    BY <1>2 DEF PointersHome
  <2>1. n # At /\ reads'[n] = reads[n]
    BY DEF UnpackedWell
  <2>2. n > 1 => n - 1 \in DOMAIN reads /\ n - 1 # At
    BY <1>2, <2>1
  <2>3. n > 1 => reads'[n - 1] = reads[n - 1]
    BY <2>2
  <2>4. UnpackedWell(n) /\ (n > 1 => reads[n - 1].state # "thrown")
    BY <2>1, <2>3 DEF UnpackedWell
  <2>5. AllHome(n)
    BY <1>1, <2>4 DEF PointersHome
  <2>6. QED
    BY <2>1, <2>5, AllHomeKept
<1>8. QED
  BY <1>1, <1>2, <1>3, <1>4, <1>5, <1>6, <1>7 DEF ReadsShape

LEMMA BeginReadOK ==
  ASSUME IInv, RInv, NEW r \in DOMAIN file, NEW wanted \in Wanted, BeginRead(r, wanted)
  PROVE  RInv'
<1> DEFINE items == file[r].items
           new == [rec |-> r, wanted |-> wanted, state |-> "busy",
                   slot |-> [i \in DOMAIN items |-> NullPointer]]
<1>1. /\ ~Busy /\ reads' = Append(reads, new) /\ rpos' = 0
      /\ file' = file /\ rAt' = rAt /\ rTo' = rTo
  BY DEF BeginRead
<1>2. /\ r \in Nat /\ items \in Contents /\ Len(items) \in Nat
      /\ DOMAIN items = 1 .. Len(items)
  BY FileShape
<1>3. /\ reads \in Seq(ReadRecords) /\ ReadsShape /\ PointersHome
  BY DEF RInv, ReadsShape
<1>4. new \in ReadRecords
  <2>1. NullPointer \in Addresses
    BY DEF NullPointer, Raw, NULL, Addresses
  <2>2. [i \in DOMAIN items |-> NullPointer] \in Seq(Addresses)
    BY <1>2, <2>1
  <2>3. wanted \in SUBSET Blocks
    BY RelocationAssumption
  <2>4. QED
    BY <1>2, <2>2, <2>3 DEF ReadRecords
<1>5. /\ new.rec = r /\ new.wanted = wanted /\ new.state = "busy"
      /\ new.slot = [i \in DOMAIN items |-> NullPointer]
  OBVIOUS
<1> HIDE DEF new
<1>6. /\ reads' \in Seq(ReadRecords) /\ Len(reads) \in Nat /\ DOMAIN reads = 1 .. Len(reads)
      /\ Len(reads') = Len(reads) + 1 /\ DOMAIN reads' = 1 .. Len(reads) + 1
      /\ reads'[Len(reads) + 1] = new /\ \A n \in DOMAIN reads : reads'[n] = reads[n]
  BY <1>1, <1>3, <1>4
<1>7. At' = At + 1 /\ At = Len(reads) /\ reads'[At'] = new /\ Record' = file[r]
  BY <1>1, <1>5, <1>6 DEF At, Record
<1>8. Busy'
  <2>1. reads' # << >>
    BY <1>6
  <2>2. QED
    BY <1>5, <1>6, <2>1 DEF Busy
<1>9. \A n \in DOMAIN reads : reads[n].state # "busy"
  <2> SUFFICES ASSUME NEW n \in DOMAIN reads, reads[n].state = "busy" PROVE FALSE
    OBVIOUS
  <2>1. n = At
    BY <1>3 DEF ReadsShape
  <2>2. reads # << >>
    BY <1>6
  <2>3. QED
    BY <1>1, <1>7, <2>1, <2>2 DEF Busy
<1>10. ASSUME NEW n \in DOMAIN reads'
       PROVE  /\ reads'[n].rec \in DOMAIN file'
              /\ DOMAIN reads'[n].slot = DOMAIN file'[reads'[n].rec].items
              /\ n # At' => reads'[n].state # "busy"
  <2>1. CASE n = Len(reads) + 1
    <3>1. reads'[n] = new
      BY <1>6, <2>1
    <3>2. DOMAIN new.slot = DOMAIN items
      BY <1>5
    <3>3. QED
      BY <1>1, <1>5, <1>7, <2>1, <3>1, <3>2
  <2>2. CASE n # Len(reads) + 1
    <3>1. n \in DOMAIN reads /\ reads'[n] = reads[n]
      BY <1>6, <2>2
    <3>2. QED
      BY <1>1, <1>3, <1>9, <3>1 DEF ReadsShape
  <2>3. QED
    BY <2>1, <2>2
<1>11. \A e \in rTo : /\ e[1] \in Nat /\ e[2] \in Addresses
                      /\ e[2][1] \in DOMAIN reads /\ e[2][1] \in DOMAIN reads'
                      /\ reads'[e[2][1]].state \in {"busy", "thrown"}
  <2>1. \A n \in DOMAIN reads : n \in DOMAIN reads'
    BY <1>6
  <2>2. QED
    BY <1>3, <1>6, <2>1 DEF ReadsShape
<1>12. ReadsShape'
  BY <1>1, <1>3, <1>6, <1>8, <1>10, <1>11 DEF ReadsShape
<1>13. ReadTables'
  <2>1. Taken(rpos)' = {}
    BY <1>1 DEF Taken
  <2>2. \A e \in rTo : e[2][1] # At'
    BY <1>6, <1>7, <1>11
  <2>3. Clean(At)' => DOMAIN rAt = {}
    <3>1. CASE reads = << >>
      BY <1>1, <1>3, <1>6, <1>7, <3>1 DEF ReadsShape, Clean
    <3>2. CASE reads # << >>
      <4>1. At \in DOMAIN reads /\ (At + 1) - 1 = At /\ At + 1 > 1
        BY <1>6, <1>7, <3>2
      <4>2. reads'[At] = reads[At]
        BY <1>6, <4>1
      <4>3. Clean(At)' => Clean(At + 1)
        BY <1>7, <4>1, <4>2 DEF Clean
      <4>4. QED
        BY <1>1, <1>3, <4>3 DEF ReadsShape
    <3>3. QED
      BY <3>1, <3>2
  <2>4. \A i \in Pointers(items) : reads'[At'].slot[i] = NullPointer
    BY <1>5, <1>7 DEF Pointers
  <2>5. rpos' <= Len(Record'.items)
    BY <1>1, <1>2, <1>7
  <2>6. QED
    BY <1>1, <1>7, <2>1, <2>2, <2>3, <2>4, <2>5 DEF ReadTables
<1>14. PointersHome'
  <2> SUFFICES ASSUME NEW n \in DOMAIN reads', UnpackedWell(n)',
                      n > 1 => reads'[n - 1].state # "thrown"
               PROVE  AllHome(n)'
    BY DEF PointersHome
  <2>1. n \in DOMAIN reads
    BY <1>5, <1>6 DEF UnpackedWell
  <2>2. reads'[n] = reads[n] /\ (n > 1 => n - 1 \in DOMAIN reads)
    BY <1>6, <2>1
  <2>3. UnpackedWell(n) /\ (n > 1 => reads[n - 1].state # "thrown")
    BY <1>1, <1>6, <2>2 DEF UnpackedWell
  <2>4. AllHome(n)
    BY <1>3, <2>1, <2>3 DEF PointersHome
  <2>5. QED
    BY <1>1, <2>2, <2>4, AllHomeKept
<1>15. QED
  BY <1>12, <1>13, <1>14 DEF RInv

(***************************************************************************)
(* An item is unpacked or skipped.                                         *)
(***************************************************************************)
LEMMA UnpackItemOK ==
  ASSUME IInv, RInv, UnpackItem
  PROVE  RInv'
<1> DEFINE k == rpos + 1
           items == Record.items
           words == Record.words
<1>1. /\ Busy /\ rpos < Len(items) /\ rpos' = k /\ file' = file
      /\ ReadsShape /\ ReadTables /\ rpos \in Nat
  BY DEF UnpackItem, RInv, ReadsShape
<1>2. /\ At \in Nat /\ At > 0 /\ At \in DOMAIN reads /\ DOMAIN reads = 1 .. At
      /\ reads[At] \in ReadRecords /\ reads[At].rec \in DOMAIN file
      /\ items \in Contents /\ DOMAIN reads[At].slot = DOMAIN items
      /\ Len(items) \in Nat /\ DOMAIN items = 1 .. Len(items)
      /\ \A i \in 1 .. Len(items) : items[i].kind \in {"at", "to"} /\ words[i] \in Nat
  BY <1>1, RecordShape
<1>3. k \in 1 .. Len(items) /\ k \notin 1 .. rpos /\ \A i \in 1 .. k : i \in 1 .. rpos \/ i = k
  BY <1>1, <1>2
<1>4. Next1 = items[k] /\ Word1 = words[k] /\ Here = Addr(At, k) /\ words[k] \in Nat
  BY <1>2, <1>3 DEF Next1, Word1, Here
<1>5. Taken(k) = IF items[k].blk \in reads[At].wanted THEN Taken(rpos) \cup {k} ELSE Taken(rpos)
  <2>1. \A i : i \in 1 .. k <=> i \in 1 .. rpos \/ i = k
    BY <1>1
  <2>2. QED
    BY <2>1 DEF Taken
<1>6. k \notin Taken(rpos) /\ Taken(rpos) \subseteq Taken(k)
  BY <1>3, <1>5 DEF Taken
<1>7. SIO_ptag \in Nat
  BY RelocationAssumption
<1>8. reads \in Seq(ReadRecords) /\ reads # << >> /\ At = Len(reads) /\ reads[At].state = "busy"
  BY <1>1 DEF ReadsShape, Busy, At
<1>9. Addr(At, k) \in Addresses /\ Addr(At, k)[1] = At /\ Addr(At, k)[2] = k
  BY <1>2, <1>3 DEF Addr, Addresses
<1> HIDE DEF k, items, words
<1>10. ASSUME reads' \in Seq(ReadRecords), Len(reads') = Len(reads),
              reads'[At].rec = reads[At].rec, reads'[At].wanted = reads[At].wanted,
              DOMAIN reads'[At].slot = DOMAIN reads[At].slot, reads'[At].state = "busy",
              \A n \in DOMAIN reads : n # At => reads'[n] = reads[n]
       PROVE  /\ DOMAIN reads' = DOMAIN reads /\ At' = At /\ Record' = Record /\ Busy'
              /\ \A n \in DOMAIN reads' :
                   /\ reads'[n].rec \in DOMAIN file'
                   /\ DOMAIN reads'[n].slot = DOMAIN file'[reads'[n].rec].items
                   /\ n # At' => reads'[n].state # "busy"
              /\ Taken(rpos)' = Taken(k)
              /\ Clean(At)' <=> Clean(At)
              /\ PointersHome'
              /\ \A n \in DOMAIN reads : reads'[n].state = reads[n].state
  <2>1. reads'[At].state # "ok"
    BY <1>10
  <2>2. /\ DOMAIN reads' = DOMAIN reads /\ At' = At /\ Record' = Record
        /\ \A n \in DOMAIN reads' :
             /\ reads'[n].rec \in DOMAIN file'
             /\ DOMAIN reads'[n].slot = DOMAIN file'[reads'[n].rec].items
             /\ n # At' => reads'[n].state # "busy"
        /\ \A x : Taken(x)' = Taken(x)
        /\ Clean(At)' <=> Clean(At)
        /\ PointersHome'
    BY <1>1, <1>10, <2>1, OthersKept
  <2>3. Taken(rpos)' = Taken(k)
    BY <1>1, <1>10, <2>2 DEF Taken, k
  <2>4. Busy'
    BY <1>2, <1>8, <1>10, <2>2 DEF Busy
  <2>5. QED
    BY <1>8, <1>10, <2>2, <2>3, <2>4
<1>11. rpos' \in Nat /\ rpos' <= Len(items)
  BY <1>1, <1>2, <1>3
<1>12. /\ \A e \in rTo : e[2][1] = At =>
            /\ e[2][2] \in Taken(rpos) /\ items[e[2][2]].kind = "to"
            /\ e[1] = words[e[2][2]] /\ e[1] # NULL
       /\ \A i \in Taken(rpos) : items[i].kind = "to" /\ words[i] # NULL =>
            <<words[i], Addr(At, i)>> \in rTo
       /\ Clean(At) => \A m \in DOMAIN rAt : \E j \in Taken(rpos) :
            items[j].kind = "at" /\ words[j] = m /\ rAt[m] = Addr(At, j)
       /\ \A j \in Taken(rpos) : items[j].kind = "at" /\ words[j] # SIO_ptag =>
            words[j] \in DOMAIN rAt
       /\ \A i \in Pointers(items) : reads[At].slot[i] =
            IF i \in Taken(rpos) THEN Raw(words[i]) ELSE NullPointer
  BY <1>1 DEF ReadTables, items, words
<1>13. /\ \A e \in rTo : /\ e[1] \in Nat /\ e[2] \in Addresses /\ e[2][1] \in DOMAIN reads
                         /\ reads[e[2][1]].state \in {"busy", "thrown"}
       /\ \A m \in DOMAIN rAt : m \in Nat /\ rAt[m] \in Addresses
  BY <1>1 DEF ReadsShape
<1>14. CASE SkipBlock
  <2>1. items[k].blk \notin reads[At].wanted /\ reads' = reads /\ rAt' = rAt /\ rTo' = rTo
    BY <1>4, <1>14 DEF SkipBlock
  <2>2. Taken(k) = Taken(rpos)
    BY <1>5, <2>1
  <2>3. /\ DOMAIN reads' = DOMAIN reads /\ At' = At /\ Record' = Record /\ Busy'
        /\ \A n \in DOMAIN reads' :
             /\ reads'[n].rec \in DOMAIN file'
             /\ DOMAIN reads'[n].slot = DOMAIN file'[reads'[n].rec].items
             /\ n # At' => reads'[n].state # "busy"
        /\ Taken(rpos)' = Taken(rpos) /\ (Clean(At)' <=> Clean(At)) /\ PointersHome'
    BY <1>8, <1>10, <2>1, <2>2
  <2>4. ReadsShape'
    BY <1>8, <1>11, <1>13, <2>1, <2>3 DEF ReadsShape
  <2>5. ReadTables'
    BY <1>11, <1>12, <2>1, <2>3 DEF ReadTables, items, words
  <2>6. QED
    BY <2>3, <2>4, <2>5 DEF RInv
<1>15. CASE PointedAtRead
  <2>1. /\ items[k].blk \in reads[At].wanted /\ items[k].kind = "at"
        /\ rAt' = IF words[k] = SIO_ptag THEN rAt ELSE Insert(rAt, words[k], Addr(At, k))
        /\ reads' = reads /\ rTo' = rTo
    BY <1>4, <1>15 DEF PointedAtRead
  <2>2. Taken(k) = Taken(rpos) \cup {k}
    BY <1>5, <2>1
  <2>3. /\ DOMAIN reads' = DOMAIN reads /\ At' = At /\ Record' = Record /\ Busy'
        /\ \A n \in DOMAIN reads' :
             /\ reads'[n].rec \in DOMAIN file'
             /\ DOMAIN reads'[n].slot = DOMAIN file'[reads'[n].rec].items
             /\ n # At' => reads'[n].state # "busy"
        /\ Taken(rpos)' = Taken(rpos) \cup {k} /\ (Clean(At)' <=> Clean(At)) /\ PointersHome'
    BY <1>8, <1>10, <2>1, <2>2
  <2>4. /\ DOMAIN rAt' = IF words[k] = SIO_ptag THEN DOMAIN rAt ELSE DOMAIN rAt \cup {words[k]}
        /\ \A m \in DOMAIN rAt : rAt'[m] = rAt[m]
        /\ words[k] # SIO_ptag /\ words[k] \notin DOMAIN rAt => rAt'[words[k]] = Addr(At, k)
    <3>1. CASE words[k] = SIO_ptag
      BY <2>1, <3>1
    <3>2. CASE words[k] # SIO_ptag
      BY <2>1, <3>2 DEF Insert
    <3>3. QED
      BY <3>1, <3>2
  <2>5. \A m \in DOMAIN rAt' : m \in DOMAIN rAt
                               \/ (m = words[k] /\ m # SIO_ptag /\ rAt'[m] = Addr(At, k))
    BY <2>4
  <2>6. \A m \in DOMAIN rAt' : m \in Nat /\ rAt'[m] \in Addresses
    BY <1>4, <1>9, <1>13, <2>4, <2>5
  <2>7. ReadsShape'
    BY <1>8, <1>11, <1>13, <2>1, <2>3, <2>6 DEF ReadsShape
  <2>8. Clean(At) => \A m \in DOMAIN rAt' : \E j \in Taken(rpos) \cup {k} :
          items[j].kind = "at" /\ words[j] = m /\ rAt'[m] = Addr(At, j)
    BY <1>12, <2>1, <2>4, <2>5
  <2>9. \A j \in Taken(rpos) \cup {k} : items[j].kind = "at" /\ words[j] # SIO_ptag =>
          words[j] \in DOMAIN rAt'
    BY <1>12, <2>4
  <2>10. \A i \in Taken(rpos) \cup {k} : items[i].kind = "to" => i \in Taken(rpos)
    BY <2>1
  <2>11. k \notin Pointers(items)
    BY <2>1 DEF Pointers
  <2>12. ReadTables'
    <3>1. /\ \A e \in rTo' : e[2][1] = At =>
               /\ e[2][2] \in Taken(rpos) \cup {k} /\ items[e[2][2]].kind = "to"
               /\ e[1] = words[e[2][2]] /\ e[1] # NULL
          /\ \A i \in Taken(rpos) \cup {k} : items[i].kind = "to" /\ words[i] # NULL =>
               <<words[i], Addr(At, i)>> \in rTo'
      BY <1>12, <2>1, <2>10
    <3>2. \A i \in Pointers(items) : reads'[At].slot[i] =
            IF i \in Taken(rpos) \cup {k} THEN Raw(words[i]) ELSE NullPointer
      BY <1>12, <2>1, <2>11
    <3>3. QED
      BY <1>11, <2>3, <2>8, <2>9, <3>1, <3>2 DEF ReadTables, items, words
  <2>13. QED
    BY <2>3, <2>7, <2>12 DEF RInv
<1>16. CASE PointerToRead
  <2>1. /\ items[k].blk \in reads[At].wanted /\ items[k].kind = "to" /\ rAt' = rAt
        /\ rTo' = IF words[k] = NULL THEN rTo ELSE rTo \cup {<<words[k], Addr(At, k)>>}
        /\ reads' = [reads EXCEPT ![At].slot[k] = Raw(words[k])]
    BY <1>4, <1>16 DEF PointerToRead, k
  <2>2. Taken(k) = Taken(rpos) \cup {k}
    BY <1>5, <2>1
  <2>3. PICK new : new = [reads[At] EXCEPT !.slot = [@ EXCEPT ![k] = Raw(words[k])]]
    OBVIOUS
  <2>4. reads' = [reads EXCEPT ![At] = new]
    BY <2>1, <2>3
  <2>5. /\ new.rec = reads[At].rec /\ new.wanted = reads[At].wanted /\ new.state = reads[At].state
        /\ new.slot = [reads[At].slot EXCEPT ![k] = Raw(words[k])]
        /\ new \in ReadRecords
    <3>1. Raw(words[k]) \in Addresses
      BY <1>4 DEF Raw, Addresses
    <3>2. reads[At].slot \in Seq(Addresses)
      BY <1>2 DEF ReadRecords
    <3>3. [reads[At].slot EXCEPT ![k] = Raw(words[k])] \in Seq(Addresses)
      <4> DEFINE s == reads[At].slot
                 a == Raw(words[k])
      <4>1. s \in Seq(Addresses) /\ a \in Addresses
        BY <3>1, <3>2
      <4> HIDE DEF s, a
      <4>2. Len(s) \in Nat /\ DOMAIN s = 1 .. Len(s) /\ s \in [1 .. Len(s) -> Addresses]
        BY <4>1
      <4>3. [s EXCEPT ![k] = a] = [i \in 1 .. Len(s) |-> IF i = k THEN a ELSE s[i]]
        BY <4>2
      <4>4. \A i \in 1 .. Len(s) : (IF i = k THEN a ELSE s[i]) \in Addresses
        BY <4>1, <4>2
      <4>5. [i \in 1 .. Len(s) |-> IF i = k THEN a ELSE s[i]] \in Seq(Addresses)
        BY <4>2, <4>4
      <4>6. QED
        BY <4>3, <4>5 DEF s, a
    <3>4. QED
      BY <1>2, <2>3, <3>3 DEF ReadRecords
  <2>6. /\ reads' \in Seq(ReadRecords) /\ Len(reads') = Len(reads) /\ reads'[At] = new
        /\ \A n \in DOMAIN reads : n # At => reads'[n] = reads[n]
    BY <1>2, <1>8, <2>4, <2>5
  <2>7. /\ DOMAIN reads' = DOMAIN reads /\ At' = At /\ Record' = Record /\ Busy'
        /\ \A n \in DOMAIN reads' :
             /\ reads'[n].rec \in DOMAIN file'
             /\ DOMAIN reads'[n].slot = DOMAIN file'[reads'[n].rec].items
             /\ n # At' => reads'[n].state # "busy"
        /\ Taken(rpos)' = Taken(rpos) \cup {k} /\ (Clean(At)' <=> Clean(At)) /\ PointersHome'
        /\ \A n \in DOMAIN reads : reads'[n].state = reads[n].state
    BY <1>8, <1>10, <2>2, <2>5, <2>6
  <2>8. \A e \in rTo' : e \in rTo \/ (e = <<words[k], Addr(At, k)>> /\ words[k] # NULL)
    BY <2>1
  <2>9. ASSUME NEW e \in rTo'
        PROVE  /\ e[1] \in Nat /\ e[2] \in Addresses /\ e[2][1] \in DOMAIN reads
               /\ reads[e[2][1]].state \in {"busy", "thrown"}
    <3>1. CASE e \in rTo
      BY <1>13, <3>1
    <3>2. CASE e = <<words[k], Addr(At, k)>>
      BY <1>2, <1>4, <1>8, <1>9, <3>2
    <3>3. QED
      BY <2>8, <3>1, <3>2
  <2>10. ReadsShape'
    BY <1>11, <1>13, <2>1, <2>6, <2>7, <2>9 DEF ReadsShape
  <2>11. ASSUME NEW e \in rTo', e[2][1] = At
         PROVE  /\ e[2][2] \in Taken(rpos) \cup {k} /\ items[e[2][2]].kind = "to"
                /\ e[1] = words[e[2][2]] /\ e[1] # NULL
    <3>1. CASE e \in rTo
      BY <1>12, <2>11, <3>1
    <3>2. CASE e = <<words[k], Addr(At, k)>> /\ words[k] # NULL
      BY <1>9, <2>1, <3>2
    <3>3. QED
      BY <2>8, <3>1, <3>2
  <2>12. \A i \in Taken(rpos) \cup {k} : items[i].kind = "to" /\ words[i] # NULL =>
           <<words[i], Addr(At, i)>> \in rTo'
    BY <1>12, <2>1
  <2>13. Clean(At) => \A m \in DOMAIN rAt' : \E j \in Taken(rpos) \cup {k} :
           items[j].kind = "at" /\ words[j] = m /\ rAt'[m] = Addr(At, j)
    BY <1>12, <2>1
  <2>14. \A j \in Taken(rpos) \cup {k} : items[j].kind = "at" /\ words[j] # SIO_ptag =>
           words[j] \in DOMAIN rAt'
    BY <1>12, <2>1
  <2>15. ASSUME NEW i \in Pointers(items)
         PROVE  reads'[At].slot[i] =
                  IF i \in Taken(rpos) \cup {k} THEN Raw(words[i]) ELSE NullPointer
    <3>1. i \in DOMAIN reads[At].slot
      BY <1>2 DEF Pointers
    <3>2. CASE i = k
      BY <2>5, <2>6, <3>1, <3>2
    <3>3. CASE i # k
      BY <1>12, <2>5, <2>6, <3>1, <3>3
    <3>4. QED
      BY <3>2, <3>3
  <2>16. ReadTables'
    BY <1>11, <2>7, <2>11, <2>12, <2>13, <2>14, <2>15 DEF ReadTables, items, words
  <2>17. QED
    BY <2>7, <2>10, <2>16 DEF RInv
<1>17. QED
  BY <1>14, <1>15, <1>16 DEF UnpackItem

(***************************************************************************)
(* A read that a handler ends, by its status or by an exception.           *)
(***************************************************************************)
LEMMA UnpackEndsOK ==
  ASSUME IInv, RInv, UnpackFails \/ UnpackThrows
  PROVE  RInv'
<1>1. PICK s \in {"failed", "thrown"} :
        /\ reads' = [reads EXCEPT ![At].state = s]
        /\ s = "failed" => rTo' = {} /\ rAt' = Empty
        /\ s = "thrown" => rTo' = rTo /\ rAt' = rAt
  BY DEF UnpackFails, UnpackThrows
<1>2. Busy /\ file' = file /\ rpos' = rpos /\ ReadsShape
  BY DEF UnpackFails, UnpackThrows, wvars, RInv
<1>3. /\ At \in Nat /\ At > 0 /\ At \in DOMAIN reads /\ DOMAIN reads = 1 .. At
      /\ reads[At] \in ReadRecords /\ At = Len(reads) /\ reads \in Seq(ReadRecords)
  BY <1>2, RecordShape DEF At, ReadsShape
<1>4. PICK new : new = [reads[At] EXCEPT !.state = s]
  OBVIOUS
<1>5. reads' = [reads EXCEPT ![At] = new]
  BY <1>1, <1>4
<1>6. /\ new.rec = reads[At].rec /\ new.wanted = reads[At].wanted /\ new.state = s
      /\ new.slot = reads[At].slot /\ new \in ReadRecords
  BY <1>3, <1>4 DEF ReadRecords
<1>7. /\ reads' \in Seq(ReadRecords) /\ Len(reads') = Len(reads) /\ reads'[At] = new
      /\ \A n \in DOMAIN reads : n # At => reads'[n] = reads[n]
  BY <1>3, <1>5, <1>6
<1>8. /\ DOMAIN reads' = DOMAIN reads /\ At' = At /\ Record' = Record
      /\ \A n \in DOMAIN reads' :
           /\ reads'[n].rec \in DOMAIN file'
           /\ DOMAIN reads'[n].slot = DOMAIN file'[reads'[n].rec].items
           /\ n # At' => reads'[n].state # "busy"
      /\ PointersHome'
  <2>1. reads'[At].state # "ok"
    BY <1>6, <1>7
  <2>2. QED
    BY <1>2, <1>6, <1>7, <2>1, OthersKept
<1>9. ~Busy'
  BY <1>3, <1>6, <1>7, <1>8 DEF Busy
<1>10. Clean(At + 1)' => s = "failed"
  <2>1. At + 1 > 1 /\ (At + 1) - 1 = At
    BY <1>3
  <2>2. Clean(At + 1)' => reads'[At].state # "thrown"
    BY <1>8, <2>1 DEF Clean
  <2>3. QED
    BY <1>6, <1>7, <2>2
<1>11. ReadsShape'
  <2>1. CASE s = "failed"
    <3>1. rTo' = {} /\ DOMAIN rAt' = {}
      BY <1>1, <2>1 DEF Empty
    <3>2. QED
      BY <1>2, <1>7, <1>8, <3>1 DEF ReadsShape
  <2>2. CASE s = "thrown"
    <3>1. rTo' = rTo /\ rAt' = rAt
      BY <1>1, <2>2
    <3>2. \A n \in DOMAIN reads : reads[n].state \in {"busy", "thrown"}
                                  => reads'[n].state \in {"busy", "thrown"}
      BY <1>6, <1>7, <2>2
    <3>3. ~Clean(At + 1)'
      BY <1>10, <2>2
    <3>4. QED
      BY <1>2, <1>7, <1>8, <3>1, <3>2, <3>3 DEF ReadsShape
  <2>3. QED
    BY <2>1, <2>2
<1>12. QED
  BY <1>8, <1>9, <1>11 DEF RInv

(***************************************************************************)
(* A pointer that was read, when the record is complete.  If the tables    *)
(* held nothing before, it is set to where its target was read.            *)
(***************************************************************************)
LEMMA RelocatedHome ==
  ASSUME IInv, RInv, Busy, rpos = Len(Record.items), Clean(At), ~Record.stale,
         NEW i \in Pointers(Record.items)
  PROVE  Relocated(At, i, reads[At].slot[i]) = Home(At, i)
<1> DEFINE items == Record.items
           words == Record.words
           o == items[i].obj
           places == Places(items, o)
           m == {e[1] : e \in {x \in rTo : x[2] = Addr(At, i)}}
           T == Taken(rpos)
<1>1. ReadsShape /\ ReadTables
  BY DEF RInv
<1>2. /\ At \in Nat /\ reads[At].rec \in DOMAIN file /\ Record = file[reads[At].rec]
      /\ items \in Contents /\ Len(items) \in Nat /\ DOMAIN items = 1 .. Len(items)
      /\ \A j \in 1 .. Len(items) : items[j].kind \in {"at", "to"} /\ words[j] \in Nat
      /\ SelfContained(Record)
  BY <1>1, RecordShape
<1>3. i \in 1 .. Len(items) /\ items[i].kind = "to"
  BY <1>2 DEF Pointers
<1>4. T = {j \in 1 .. Len(items) : items[j].blk \in reads[At].wanted}
  BY DEF Taken
<1>5. Addr(At, i)[1] = At /\ Addr(At, i)[2] = i
  BY DEF Addr
<1>6. m = IF i \in T /\ words[i] # NULL THEN {words[i]} ELSE {}
  <2>1. \A e \in rTo : e[2] = Addr(At, i) => i \in T /\ e[1] = words[i] /\ words[i] # NULL
    BY <1>1, <1>5 DEF ReadTables
  <2>2. i \in T /\ words[i] # NULL => <<words[i], Addr(At, i)>> \in rTo
    BY <1>1, <1>3 DEF ReadTables
  <2>3. CASE i \in T /\ words[i] # NULL
    <3>1. <<words[i], Addr(At, i)>> \in {x \in rTo : x[2] = Addr(At, i)}
      BY <2>2, <2>3
    <3>2. words[i] \in m
      BY <3>1
    <3>3. \A w \in m : w = words[i]
      BY <2>1
    <3>4. QED
      BY <2>3, <3>2, <3>3
  <2>4. CASE ~(i \in T /\ words[i] # NULL)
    <3>1. m = {}
      BY <2>1, <2>4
    <3>2. QED
      BY <2>4, <3>1
  <2>5. QED
    BY <2>3, <2>4
<1>7. reads[At].slot[i] = IF i \in T THEN Raw(words[i]) ELSE NullPointer
  BY <1>1 DEF ReadTables
<1>8. /\ o = NULL \/ places = {} => words[i] = NULL
      /\ o # NULL /\ places # {} =>
           /\ {j \in DOMAIN items : items[j].kind = "at" /\ words[j] = words[i]} = {Min(places)}
           /\ words[i] \notin {NULL, SIO_ptag}
  BY <1>2 DEF SelfContained
<1>9. o = NULL => places = {}
  BY <1>2, RelocationAssumption DEF Places
<1>10. Relocated(At, i, reads[At].slot[i]) = IF m = {} THEN reads[At].slot[i] ELSE Found(Max(m))
  BY DEF Relocated
<1>11. Home(At, i) = IF items[i].blk \notin reads[At].wanted \/ places = {} THEN NullPointer
                     ELSE IF items[Min(places)].blk \notin reads[At].wanted THEN NullPointer
                     ELSE Addr(At, Min(places))
  BY <1>2 DEF Home
<1> HIDE DEF m, T, places, o
<1>12. CASE i \notin T
  <2>1. items[i].blk \notin reads[At].wanted
    BY <1>3, <1>4, <1>12
  <2>2. QED
    BY <1>6, <1>7, <1>10, <1>11, <1>12, <2>1
<1>13. CASE i \in T /\ places = {}
  <2>1. words[i] = NULL
    BY <1>8, <1>13
  <2>2. QED
    BY <1>6, <1>7, <1>10, <1>11, <1>13, <2>1 DEF NullPointer
<1>14. CASE i \in T /\ places # {}
  <2> DEFINE w == words[i]
             h == Min(places)
  <2>1. {j \in DOMAIN items : items[j].kind = "at" /\ words[j] = w} = {h} /\ w \notin {NULL, SIO_ptag}
    BY <1>8, <1>9, <1>14
  <2>2. h \in 1 .. Len(items) /\ items[h].kind = "at" /\ words[h] = w
        /\ \A j \in 1 .. Len(items) : items[j].kind = "at" /\ words[j] = w => j = h
    BY <1>2, <2>1
  <2>3. m = {w} /\ w \in Nat
    BY <1>2, <1>3, <1>6, <1>14, <2>1
  <2>4. Max(m) = w
    <3>1. \E x \in {w} : \A y \in {w} : x >= y
      BY <2>3
    <3>2. \A x \in {w} : x = w
      OBVIOUS
    <3>3. QED
      BY <2>3, <3>1, <3>2 DEF Max
  <2>5. Relocated(At, i, reads[At].slot[i]) = Found(w)
    BY <1>10, <2>3, <2>4
  <2>6. items[i].blk \in reads[At].wanted
    BY <1>4, <1>14
  <2> HIDE DEF h, w
  <2>7. CASE h \in T
    <3>1. w \in DOMAIN rAt
      BY <1>1, <2>1, <2>2, <2>7 DEF ReadTables, T
    <3>2. PICK j \in T : items[j].kind = "at" /\ words[j] = w /\ rAt[w] = Addr(At, j)
      BY <1>1, <3>1 DEF ReadTables, T
    <3>3. j = h
      BY <1>4, <2>2, <3>2
    <3>4. Found(w) = Addr(At, h)
      BY <3>1, <3>2, <3>3 DEF Found
    <3>5. Home(At, i) = Addr(At, h)
      BY <1>4, <1>11, <1>14, <2>6, <2>7 DEF h
    <3>6. QED
      BY <2>5, <3>4, <3>5
  <2>8. CASE h \notin T
    <3>1. w \notin DOMAIN rAt
      <4> SUFFICES ASSUME w \in DOMAIN rAt PROVE FALSE
        OBVIOUS
      <4>1. PICK j \in T : items[j].kind = "at" /\ words[j] = w
        BY <1>1 DEF ReadTables, T
      <4>2. j = h
        BY <1>4, <2>2, <4>1
      <4>3. QED
        BY <2>8, <4>1, <4>2
    <3>2. Found(w) = NullPointer
      BY <3>1 DEF Found
    <3>3. items[h].blk \notin reads[At].wanted
      BY <1>4, <2>2, <2>8
    <3>4. Home(At, i) = NullPointer
      BY <1>11, <1>14, <2>6, <3>3 DEF h
    <3>5. QED
      BY <2>5, <3>2, <3>4
  <2>9. QED
    BY <2>7, <2>8
<1>15. QED
  BY <1>12, <1>13, <1>14

(***************************************************************************)
(* The pointers are set.  Those of reads that were finished before are not *)
(* in the table and stay as they are.                                      *)
(***************************************************************************)
LEMMA RelocateReadOK ==
  ASSUME IInv, RInv, RelocateRead
  PROVE  RInv'
<1> DEFINE Slot(n) == [i \in DOMAIN reads[n].slot |-> Relocated(n, i, reads[n].slot[i])]
<1>1. /\ Busy /\ rpos = Len(Record.items) /\ rTo' = {} /\ rAt' = Empty
      /\ rpos' = rpos /\ file' = file /\ ReadsShape /\ ReadTables /\ PointersHome
  BY DEF RelocateRead, wvars, RInv
<1>2. reads' = [n \in DOMAIN reads |->
                  [reads[n] EXCEPT !.slot = Slot(n),
                                   !.state = IF n = At THEN "ok" ELSE reads[n].state]]
  BY DEF RelocateRead
<1>3. /\ At \in Nat /\ At > 0 /\ At \in DOMAIN reads /\ DOMAIN reads = 1 .. At
      /\ Record = file[reads[At].rec] /\ DOMAIN reads[At].slot = DOMAIN Record.items
      /\ reads \in Seq(ReadRecords) /\ At = Len(reads)
  BY <1>1, RecordShape DEF At, ReadsShape
<1>4. ASSUME NEW n, NEW i, NEW old \in Addresses
      PROVE  Relocated(n, i, old) \in Addresses
  <2>1. NullPointer \in Addresses
    BY DEF NullPointer, Raw, NULL, Addresses
  <2>2. \A w : Found(w) \in Addresses
    BY <1>1, <2>1 DEF Found, ReadsShape
  <2>3. QED
    BY <1>4, <2>2 DEF Relocated
<1>5. ASSUME NEW n \in DOMAIN reads
      PROVE  reads[n] \in ReadRecords /\ Slot(n) \in Seq(Addresses)
             /\ DOMAIN Slot(n) = DOMAIN reads[n].slot
  <2>1. reads[n] \in ReadRecords
    BY <1>3
  <2>2. reads[n].slot \in Seq(Addresses)
    BY <2>1 DEF ReadRecords
  <2>3. \A i \in DOMAIN reads[n].slot : Relocated(n, i, reads[n].slot[i]) \in Addresses
    BY <1>4, <2>2
  <2>4. Slot(n) \in [1 .. Len(reads[n].slot) -> Addresses] /\ Len(reads[n].slot) \in Nat
    BY <2>2, <2>3
  <2>5. QED
    BY <2>1, <2>2, <2>4
<1>6. ASSUME NEW n \in DOMAIN reads
      PROVE  /\ reads'[n].rec = reads[n].rec /\ reads'[n].wanted = reads[n].wanted
             /\ reads'[n].slot = Slot(n)
             /\ reads'[n].state = IF n = At THEN "ok" ELSE reads[n].state
             /\ reads'[n] \in ReadRecords
  <2> DEFINE sl == Slot(n)
             st == IF n = At THEN "ok" ELSE reads[n].state
  <2>1. reads'[n] = [reads[n] EXCEPT !.slot = sl, !.state = st]
    BY <1>2
  <2>2. reads[n] \in ReadRecords /\ sl \in Seq(Addresses)
        /\ st \in {"busy", "ok", "failed", "thrown"}
    BY <1>5 DEF ReadRecords
  <2> HIDE DEF sl, st, Slot
  <2>3. /\ reads'[n].rec = reads[n].rec /\ reads'[n].wanted = reads[n].wanted
        /\ reads'[n].slot = sl /\ reads'[n].state = st /\ reads'[n] \in ReadRecords
    BY <2>1, <2>2 DEF ReadRecords
  <2>4. QED
    BY <2>3 DEF sl, st
<1>7. DOMAIN reads' = DOMAIN reads
  BY <1>2
<1>8. reads' \in Seq(ReadRecords) /\ Len(reads') = At /\ At' = At
  <2>1. reads' \in [1 .. At -> ReadRecords]
    <3>1. reads' = [n \in 1 .. At |-> reads'[n]]
      BY <1>2, <1>3, <1>7
    <3>2. QED
      BY <1>3, <1>6, <3>1
  <2>2. reads' \in Seq(ReadRecords) /\ Len(reads') = At
    BY <1>3, <2>1
  <2>3. QED
    BY <1>3, <2>2 DEF At
<1>9. DOMAIN rAt' = {} /\ rTo' = {}
  BY <1>1 DEF Empty
<1> HIDE DEF Slot
<1>10. ReadsShape'
  <2>1. \A n \in DOMAIN reads' :
          /\ reads'[n].rec \in DOMAIN file'
          /\ DOMAIN reads'[n].slot = DOMAIN file'[reads'[n].rec].items
          /\ n # At' => reads'[n].state # "busy"
    BY <1>1, <1>5, <1>6, <1>7, <1>8 DEF ReadsShape
  <2>2. QED
    BY <1>1, <1>8, <1>9, <2>1 DEF ReadsShape
<1>11. ~Busy'
  BY <1>3, <1>6, <1>8 DEF Busy
<1>12. ASSUME NEW n \in DOMAIN reads, UnpackedWell(n)', n > 1 => reads'[n - 1].state # "thrown"
       PROVE  AllHome(n)'
  <2>1. /\ file'[reads'[n].rec] = file[reads[n].rec] /\ ~file[reads[n].rec].stale
        /\ \A i : Home(n, i)' = Home(n, i)
    BY <1>1, <1>6, <1>12 DEF UnpackedWell, Home
  <2>2. n > 1 => n - 1 \in DOMAIN reads /\ n - 1 # At
    BY <1>3
  <2>3. n > 1 => reads[n - 1].state # "thrown"
    BY <1>6, <1>12, <2>2
  <2> SUFFICES ASSUME NEW i \in Pointers(file[reads[n].rec].items)
               PROVE  Slot(n)[i] = Home(n, i)
    BY <1>6, <2>1 DEF AllHome
  <2>4. i \in DOMAIN reads[n].slot
    BY <1>1 DEF Pointers, ReadsShape
  <2>5. Slot(n)[i] = Relocated(n, i, reads[n].slot[i])
    BY <2>4 DEF Slot
  <2>6. CASE n = At
    <3>1. Clean(At) /\ ~Record.stale /\ i \in Pointers(Record.items)
      BY <1>3, <2>1, <2>3, <2>6 DEF Clean
    <3>2. QED
      BY <1>1, <2>5, <2>6, <3>1, RelocatedHome
  <2>7. CASE n # At
    <3>1. reads[n].state = "ok"
      BY <1>6, <1>12, <2>7 DEF UnpackedWell
    <3>2. AllHome(n)
      BY <1>1, <2>1, <2>3, <3>1 DEF PointersHome, UnpackedWell
    <3>3. \A e \in rTo : e[2] # Addr(n, i)
      <4>1. \A e \in rTo : reads[e[2][1]].state # "ok"
        BY <1>1 DEF ReadsShape
      <4>2. QED
        BY <3>1, <4>1 DEF Addr
    <3>4. Relocated(n, i, reads[n].slot[i]) = reads[n].slot[i]
      BY <3>3 DEF Relocated
    <3>5. QED
      BY <2>5, <3>2, <3>4 DEF AllHome
  <2>8. QED
    BY <2>6, <2>7
<1>13. PointersHome'
  BY <1>7, <1>12 DEF PointersHome
<1>14. QED
  BY <1>10, <1>11, <1>13 DEF RInv

-----------------------------------------------------------------------------
(* Both sides together. *)

(***************************************************************************)
(* The types of what the writing stream has at work.                       *)
(***************************************************************************)
WriterTypes ==
  /\ wstate \in {"open", "error", "closed"} /\ Len(buf) <= bufsize
  /\ IsFiniteSet(wTo) /\ wTo \subseteq Nat \X Nat
  /\ \A o \in DOMAIN wAt : wAt[o] \in Nat

LEMMA InitRInv == Init => RInv /\ WriterTypes
<1> SUFFICES ASSUME Init PROVE RInv /\ WriterTypes
  OBVIOUS
<1>1. reads = << >> /\ rTo = {} /\ DOMAIN rAt = {} /\ rpos = 0 /\ DOMAIN wAt = {} /\ wTo = {}
      /\ wstate = "open" /\ buf = << >> /\ bufsize \in Nat
  BY RelocationAssumption DEF Init, Empty
<1>2. DOMAIN reads = {} /\ reads \in Seq(ReadRecords)
  BY <1>1
<1>3. ~Busy
  BY <1>1 DEF Busy
<1>4. RInv
  BY <1>1, <1>2, <1>3 DEF RInv, ReadsShape, PointersHome
<1>5. WriterTypes
  BY <1>1, FS_EmptySet DEF WriterTypes
<1>6. QED
  BY <1>4, <1>5

LEMMA NextRInv == IInv /\ RInv /\ [Next]_vars => RInv'
<1> SUFFICES ASSUME IInv, RInv, [Next]_vars PROVE RInv'
  OBVIOUS
<1>1. CASE BeginRecord \/ PackItem \/ AllocationFails \/ PackingError \/ DiskFails \/ Close
  BY <1>1, ReaderUntouched DEF BeginRecord, PackItem, AllocationFails, PackingError, DiskFails, Close
<1>2. CASE WriteRecord
  <2> DEFINE rec == [words |-> RelocatedWords, items |-> packing, stale |-> gaveUp]
  <2>1. file' = Append(file, rec) /\ UNCHANGED rvars /\ file \in Seq(FileRecords)
    BY <1>2 DEF WriteRecord, IInv
  <2> HIDE DEF rec
  <2>2. \A r \in DOMAIN file : r \in DOMAIN file' /\ file'[r] = file[r]
    BY <2>1
  <2>3. QED
    BY <2>1, <2>2, ReaderUntouched
<1>3. CASE \E r \in DOMAIN file, wanted \in Wanted : BeginRead(r, wanted)
  BY <1>3, BeginReadOK
<1>4. CASE UnpackItem
  BY <1>4, UnpackItemOK
<1>5. CASE UnpackFails \/ UnpackThrows
  BY <1>5, UnpackEndsOK
<1>6. CASE RelocateRead
  BY <1>6, RelocateReadOK
<1>7. CASE UNCHANGED vars
  BY <1>7, ReaderUntouched DEF vars
<1>8. QED
  BY <1>1, <1>2, <1>3, <1>4, <1>5, <1>6, <1>7 DEF Next

LEMMA NextWriterTypes == IInv /\ WriterTypes /\ [Next]_vars => WriterTypes'
<1> SUFFICES ASSUME IInv, WriterTypes, [Next]_vars PROVE WriterTypes'
  OBVIOUS
<1>1. bufsize \in Nat \ {0} /\ bufloc \in Nat /\ buf \in Seq(Nat) /\ Len(buf) \in Nat
      /\ packing \in Contents \cup {<< >>}
  BY DEF IInv, Words
<1>2. CASE BeginRecord
  <2>1. Len(buf') = 0 /\ UNCHANGED <<wstate, bufsize, wAt, wTo>>
    BY <1>2 DEF BeginRecord
  <2>2. QED
    BY <1>1, <2>1 DEF WriterTypes
<1>3. CASE PackItem
  <2> DEFINE k == Len(buf)
  <2>1. packing \in Contents /\ k < Len(packing)
    BY <1>1, <1>3 DEF PackItem
  <2>2. Item.obj \in Nat
    BY <1>1, <2>1, ItemType DEF Item
  <2>3. Offset = k
    BY <1>1 DEF Offset, Cursor
  <2>4. ASSUME NEW w \in Nat, PutWord(w) PROVE Len(buf') <= bufsize'
    <3>1. Len(buf') = k + 1
      BY <2>4, PutWordOK
    <3>2. CASE Fits
      BY <1>1, <2>4, <3>1, <3>2 DEF PutWord, Fits
    <3>3. CASE ~Fits
      <4>1. bufsize' = 2 * bufsize /\ k <= bufsize
        BY <2>4, <3>3 DEF PutWord, Grow, WriterTypes
      <4>2. QED
        BY <1>1, <3>1, <4>1
    <3>4. QED
      BY <3>2, <3>3
  <2>5. wstate' = wstate
    BY <1>3 DEF PackItem
  <2>6. CASE PointedAtWrite
    <3>1. /\ wAt' = Insert(wAt, Item.obj, k) /\ PutWord(SIO_ptag) /\ wTo' = wTo
          /\ SIO_ptag \in Nat
      BY <2>3, <2>6, RelocationAssumption DEF PointedAtWrite
    <3>2. \A o \in DOMAIN wAt' : wAt'[o] \in Nat
      BY <1>1, <3>1 DEF Insert, WriterTypes
    <3>3. QED
      BY <2>4, <2>5, <3>1, <3>2 DEF WriterTypes
  <2>7. CASE PointerToWrite
    <3>1. /\ wAt' = wAt /\ PutWord(NULL) /\ NULL \in Nat
          /\ wTo' = IF Item.obj = NULL THEN wTo ELSE wTo \cup {<<Item.obj, k>>}
      BY <2>3, <2>7 DEF PointerToWrite, NULL
    <3>2. IsFiniteSet(wTo')
      BY <3>1, FS_AddElement DEF WriterTypes
    <3>3. wTo' \subseteq Nat \X Nat
      BY <1>1, <2>2, <3>1 DEF WriterTypes
    <3>4. QED
      BY <2>4, <2>5, <3>1, <3>2, <3>3 DEF WriterTypes
  <2>8. QED
    BY <1>3, <2>6, <2>7 DEF PackItem
<1>4. CASE AllocationFails \/ PackingError \/ DiskFails
  BY <1>4 DEF AllocationFails, PackingError, DiskFails, WriterTypes
<1>5. CASE WriteRecord \/ Close
  <2>1. wAt' = Empty /\ wTo' = {} /\ UNCHANGED <<buf, bufsize>> /\ wstate' \in {wstate, "closed"}
    BY <1>5 DEF WriteRecord, Close
  <2>2. QED
    BY <2>1, FS_EmptySet DEF WriterTypes, Empty
<1>6. CASE UNCHANGED wvars
  BY <1>6 DEF wvars, WriterTypes
<1>7. QED
  BY <1>2, <1>3, <1>4, <1>5, <1>6
     DEF Next, BeginRead, UnpackItem, UnpackFails, UnpackThrows, RelocateRead, vars

(***************************************************************************)
(* The pointers of a record that was read point, in the same read, to what *)
(* they pointed to when it was written, whichever blocks had a handler, in *)
(* whatever order records are read, and after reads that failed; but for   *)
(* the read next after a handler threw (SIO_stream.cc, relocation).        *)
(***************************************************************************)
THEOREM SpecPointersHome == Spec => []PointersHome
<1>1. RInv => PointersHome
  BY DEF RInv
<1>2. QED
  BY <1>1, InitIInv, NextIInv, InitRInv, NextRInv, PTL DEF Spec

(***************************************************************************)
(* The buffer never holds more than it can, the tables hold places in it   *)
(* and the reads are of records on the file.                               *)
(***************************************************************************)
THEOREM RelocationTypeCorrect == Spec => []TypeOK
<1>1. IInv /\ RInv /\ WriterTypes => TypeOK
  <2> SUFFICES ASSUME IInv, RInv, WriterTypes PROVE TypeOK
    OBVIOUS
  <2>1. \A n \in DOMAIN file : DOMAIN file[n].words = DOMAIN file[n].items
    BY DEF IInv, SelfContained
  <2>2. \A n \in DOMAIN reads : reads[n].state \in {"busy", "ok", "failed", "thrown"}
                                /\ reads[n].rec \in DOMAIN file
    <3>1. reads \in Seq(ReadRecords) /\ \A n \in DOMAIN reads : reads[n].rec \in DOMAIN file
      BY DEF RInv, ReadsShape
    <3>2. \A n \in DOMAIN reads : reads[n] \in ReadRecords
      BY <3>1
    <3>3. QED
      BY <3>1, <3>2 DEF ReadRecords
  <2>3. \A e \in rTo : e[1] \in Nat /\ e[2][1] \in DOMAIN reads
    BY DEF RInv, ReadsShape
  <2>4. QED
    BY <2>1, <2>2, <2>3 DEF IInv, WriterTypes, TypeOK, Words
<1>2. QED
  BY <1>1, InitIInv, NextIInv, InitRInv, NextRInv, NextWriterTypes, PTL DEF Spec
=============================================================================
