--------------------------- MODULE CollectionBlock ---------------------------
(***************************************************************************)
(* One collection on its way through files: SIOCollectionHandler packs it  *)
(* into a block and unpacks it, with the handler of the collection's type  *)
(* (ObjectLayout); LCGenericObject has a handler of its own, which keeps   *)
(* the sizes once for all objects if every object says its size is fixed.  *)
(* A job creates the collection, writes it, reads it back, changes it and  *)
(* writes it again.                                                        *)
(*                                                                         *)
(* An object is a record: its shape as in ObjectLayout (n, m, endpoint,    *)
(* cov), the algorithm of a vertex (alg), and of an LCGenericObject its    *)
(* sizes (nInt, nFloat, the doubles left out) and whether they are fixed.  *)
(***************************************************************************)
EXTENDS ObjectLayout, Integers, FiniteSets

CONSTANTS
  Shapes(_),    \* the objects a job makes, for each type
  MixedSizes,   \* may a job add an object of another size, or of a size
                \* that is not fixed, to a collection marked as fixed?
  MaxObjects,   \* bound: objects in the collection
  MaxWrites     \* bound: times it is written

GENERIC == "LCGenericObject"
AllTypes == Types \cup {GENERIC}

ASSUME BlockAssumption ==
  MixedSizes \in BOOLEAN /\ MaxObjects \in Nat /\ MaxWrites \in Nat

Objects == [n : Nat, m : Nat, endpoint : BOOLEAN, cov : Nat, alg : Int,
            fixed : BOOLEAN, nInt : Nat, nFloat : Nat]

ASSUME ShapesAssumption ==
  \A type \in AllTypes : \A o \in Shapes(type) :
    o \in Objects /\ (type = "Track" => o.cov = TrackStateCov)

VARIABLES
  phase,   \* "memory", "written", "read" or "misread"
  col,     \* the collection: type, flags, objs
  block,   \* the block on the file
  writes   \* how often it was written

vars == <<phase, col, block, writes>>

\* The bits of LCIO.aid that the handlers look at; SUBSET is BITSubset.
FlagBits(type) ==
  CASE type = "SimCalorimeterHit" -> {"ID1", "LONG", "STEP"}
    [] type = "RawCalorimeterHit" -> {"ID1", "TIME", "NO_PTR"}
    [] type = "CalorimeterHit" -> {"ID1", "LONG", "TIME", "NO_PTR", "ENERGY_ERROR"}
    [] type = "SimTrackerHit" -> {"ID1", "MOMENTUM"}
    [] type = "TPCHit" -> {"RAW", "NO_PTR"}
    [] type = "TrackerPulse" -> {"ID1", "CM"}
    [] type \in {"TrackerRawData", "TrackerData", "TrackerHit", "TrackerHitPlane",
                 "TrackerHitZCylinder"} -> {"ID1"}
    [] type \in {"Track", "Cluster"} -> {"HITS"}
    [] type = "LCRelation" -> {"WEIGHTED"}
    [] OTHER -> {}

NoBlock == [flags |-> {}, algs |-> << >>, words |-> << >>, index |-> << >>, objs |-> << >>]

-----------------------------------------------------------------------------
(* Writing. *)

\* Mutant: the first object speaks for all.
FirstIsFixed(objs) == objs = << >> \/ objs[1].fixed
\* SIOLCGenericObjectHandler::init: there is no object whose size may change.
AllFixed(objs) == \A i \in DOMAIN objs : objs[i].fixed

\* Mutant: for collections of every type.
FixedWhatever(c) == IF AllFixed(c.objs) THEN c.flags \cup {"FIXED"} ELSE c.flags
\* Only sets the bit: it stays set when the objects are not fixed any more.
FlagsWritten(c) ==
  IF c.type = GENERIC /\ AllFixed(c.objs) THEN c.flags \cup {"FIXED"} ELSE c.flags

Sizes(nInt, nFloat) == <<<<"nInt", nInt>>, <<"nFloat", nFloat>>>>
SizesOf(o) == Sizes(o.nInt, o.nFloat)
Values(sizes) == Times(sizes[1][2], Field("int")) \o Times(sizes[2][2], Field("float"))

\* The sizes for all objects, those of the first.
SizesWritten(objs) ==
  If(AllFixed(objs), IF objs = << >> THEN Sizes(0, 0) ELSE SizesOf(objs[1]))

GenericObjectWritten(objs, i) ==
  LET sizes == IF AllFixed(objs) THEN SizesOf(objs[1]) ELSE SizesOf(objs[i])
  IN If(~AllFixed(objs), sizes) \o Values(sizes) \o Tag

ObjectWritten(c, i) ==
  IF "SUBSET" \in c.flags THEN Pointer("element")
  ELSE IF c.type = GENERIC THEN GenericObjectWritten(c.objs, i)
  ELSE Written(c.type, c.flags, c.objs[i])

\* SIOVertexHandler::init: the parameter _lcio.VertexAlgorithmTypes, a sorted
\* set, into which the objects have an index.
Place(algs, a) == Cardinality({b \in algs : b <= a})
Sorted(algs) == [k \in 1..Cardinality(algs) |-> CHOOSE a \in algs : Place(algs, a) = k]
Algorithms(objs) == Sorted({objs[i].alg : i \in DOMAIN objs})
IndexOf(algs, a) == CHOOSE k \in DOMAIN algs : algs[k] = a

BlockOf(c) ==
  LET nObj == Len(c.objs)
      algs == IF c.type = "Vertex" THEN Algorithms(c.objs) ELSE << >>
  IN [flags |-> FlagsWritten(c),
      algs |-> algs,
      words |-> If(c.type = GENERIC, SizesWritten(c.objs))
                \o <<<<"nObj", nObj>>>>
                \o FlattenSeq([i \in 1..nObj |-> ObjectWritten(c, i)]),
      index |-> IF c.type = "Vertex"
                  THEN [i \in 1..nObj |-> IndexOf(algs, c.objs[i].alg)]
                  ELSE << >>,
      objs |-> c.objs]

-----------------------------------------------------------------------------
(* Reading, from the first word to the last.                               *)

StartsWith(words, layout) ==
  Len(words) >= Len(layout) /\ SubSeq(words, 1, Len(layout)) = layout
Rest(words, n) == SubSeq(words, n + 1, Len(words))

Misread == [ok |-> FALSE, words |-> << >>, objs |-> << >>]
Expect(r, layout, o) ==
  IF r.ok /\ StartsWith(r.words, layout)
    THEN [ok |-> TRUE, words |-> Rest(r.words, Len(layout)), objs |-> Append(r.objs, o)]
    ELSE Misread

IsSizes(words) == Len(words) >= 2 /\ words[1][1] = "nInt" /\ words[2][1] = "nFloat"

\* An object that was read has the sizes on the file, fixed if the bit says so.
GenericOf(o, sizes, fixed) ==
  [o EXCEPT !.nInt = sizes[1][2], !.nFloat = sizes[2][2], !.fixed = fixed]

GenericObjectRead(r, o, fixed, sizes) ==
  IF fixed THEN Expect(r, Values(sizes) \o Tag, GenericOf(o, sizes, TRUE))
  ELSE IF ~r.ok \/ ~IsSizes(r.words) THEN Misread
  ELSE LET own == SubSeq(r.words, 1, 2)
       IN Expect(r, own \o Values(own) \o Tag, GenericOf(o, own, FALSE))

\* imr[ algtype ]: the algorithm of a vertex from its index.
VertexOf(b, i) == [b.objs[i] EXCEPT !.alg = b.algs[b.index[i]]]

ObjectRead(type, b, sizes, r, i) ==
  IF "SUBSET" \in b.flags THEN Expect(r, Pointer("element"), b.objs[i])
  ELSE IF type = GENERIC
    THEN GenericObjectRead(r, b.objs[i], "FIXED" \in b.flags, sizes)
  ELSE Expect(r, ReadBack(type, b.flags, Current, b.objs[i]),
              IF type = "Vertex" THEN VertexOf(b, i) ELSE b.objs[i])

\* What SIOCollectionHandler::xfer makes of a block.
Unpacked(type, b) ==
  LET head == type = GENERIC /\ "FIXED" \in b.flags
      wrong == head /\ ~IsSizes(b.words)
      words == IF head THEN Rest(b.words, 2) ELSE b.words
      start == IF wrong \/ words = << >> \/ words[1][1] # "nObj" THEN Misread
               ELSE [ok |-> TRUE, words |-> Rest(words, 1), objs |-> << >>]
      sizes == SubSeq(b.words, 1, 2)
      after[i \in 0..Len(b.objs)] ==
        IF i = 0 THEN start ELSE ObjectRead(type, b, sizes, after[i - 1], i)
  IN after[Len(b.objs)]

\* Mutant: the collection does not get the flag word.
FlagsDropped(b) == {}
\* col->setFlag( _flag ).
FlagsRead(b) == b.flags

-----------------------------------------------------------------------------
Init ==
  /\ phase = "memory" /\ block = NoBlock /\ writes = 0
  /\ \E type \in AllTypes : \E flags \in SUBSET (FlagBits(type) \cup {"SUBSET"}) :
       col = [type |-> type, flags |-> flags, objs |-> << >>]

InMemory == phase \in {"memory", "read"}
Changed(c) == col' = c /\ phase' = "memory" /\ block' = NoBlock /\ UNCHANGED writes

SetFlag ==
  /\ InMemory
  /\ \E flags \in SUBSET (FlagBits(col.type) \cup {"SUBSET"} \cup (col.flags \cap {"FIXED"})) :
       Changed([col EXCEPT !.flags = flags])

\* What LCGenericObject.aid says of sizes.
FitsIn(o, c) ==
  \/ c.type # GENERIC
  \/ MixedSizes
  \/ /\ "FIXED" \in c.flags => o.fixed
     /\ o.fixed => \A i \in DOMAIN c.objs : c.objs[i].fixed => SizesOf(c.objs[i]) = SizesOf(o)

AddElement ==
  /\ InMemory /\ Len(col.objs) < MaxObjects
  /\ \E o \in Shapes(col.type) :
       FitsIn(o, col) /\ Changed([col EXCEPT !.objs = Append(@, o)])

RemoveElement ==
  /\ InMemory
  /\ \E i \in DOMAIN col.objs : Changed([col EXCEPT !.objs = RemoveAt(@, i)])

Write ==
  /\ InMemory /\ writes < MaxWrites
  /\ phase' = "written" /\ block' = BlockOf(col) /\ writes' = writes + 1
  /\ UNCHANGED col

Read ==
  /\ phase = "written"
  /\ LET r == Unpacked(col.type, block)
     IN /\ phase' = IF r.ok /\ r.words = << >> THEN "read" ELSE "misread"
        /\ col' = [col EXCEPT !.flags = FlagsRead(block), !.objs = r.objs]
  /\ UNCHANGED <<block, writes>>

Next == SetFlag \/ AddElement \/ RemoveElement \/ Write \/ Read
Spec == Init /\ [][Next]_vars

-----------------------------------------------------------------------------
\* The state is of the right shape.
TypeOK ==
  /\ phase \in {"memory", "written", "read", "misread"}
  /\ col.type \in AllTypes
  /\ "FIXED" \in col.flags => col.type = GENERIC
  /\ col.flags \subseteq FlagBits(col.type) \cup {"SUBSET", "FIXED"}
  /\ Len(col.objs) <= MaxObjects /\ DOMAIN block = DOMAIN NoBlock
  /\ writes \in 0..MaxWrites

\* The objects that are read are those that were written, in number, shape and
\* algorithm, and the reader ends where the writer ended: the read and the
\* write method of every handler take the same fields for every flag word.
ReadsWhatWasWritten ==
  /\ phase # "misread"
  /\ phase = "read" => /\ Len(col.objs) = Len(block.objs)
                       /\ \A i \in DOMAIN col.objs :
                            [col.objs[i] EXCEPT !.fixed = block.objs[i].fixed] = block.objs[i]

\* A collection that is read and written again unchanged makes the same block.
RewriteStable ==
  phase = "read" =>
    LET again == BlockOf(col)
    IN /\ again.flags = block.flags /\ again.words = block.words
       /\ again.algs = block.algs /\ again.index = block.index

\* What SIOEvent.java:414 does and the bit's name says (LCIO.aid): a collection
\* on a file is marked as fixed size only if its objects are stored that way.
FixedBitIsTrue ==
  phase = "written" /\ col.type = GENERIC =>
    ("FIXED" \in block.flags => IsSizes(block.words))
=============================================================================
