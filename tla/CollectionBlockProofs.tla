------------------------ MODULE CollectionBlockProofs ------------------------
(***************************************************************************)
(* A collection of any type, with any objects and any flag word, is read   *)
(* back as it was written, and written again as it was read. The words of  *)
(* a block are the layouts of its objects one after the other, so that a   *)
(* reader that takes one layout from the front has the next one before it. *)
(*                                                                         *)
(* The one assumption is what LCIO.aid asks of clients: in a collection    *)
(* that is marked as fixed, all LCGenericObjects have one size (the        *)
(* library does not check it, and FixedBit shows what happens otherwise).  *)
(***************************************************************************)
EXTENDS CollectionBlock, OperatorProofs

-----------------------------------------------------------------------------
(* Layouts. *)

(***************************************************************************)
(* A sequence, of whatever.                                                *)
(***************************************************************************)
Layout(s) == \E X : s \in Seq(X)

\* Two layouts make one.
LEMMA ConcatLayouts ==
  ASSUME NEW s, NEW t, Layout(s), Layout(t)
  PROVE  Layout(s \o t)
<1>1. PICK X : s \in Seq(X)
  BY DEF Layout
<1>2. PICK Y : t \in Seq(Y)
  BY DEF Layout
<1>3. s \in Seq(X \cup Y) /\ t \in Seq(X \cup Y)
  BY <1>1, <1>2, SeqMonotonic
<1>4. s \o t \in Seq(X \cup Y)
  BY <1>3, ConcatProperties
<1>5. QED
  BY <1>4 DEF Layout

\* Layouts can be put together in any grouping.
LEMMA ConcatLayoutsAssociate ==
  ASSUME NEW s, NEW t, NEW u, Layout(s), Layout(t), Layout(u)
  PROVE  (s \o t) \o u = s \o (t \o u)
<1>1. PICK X : s \in Seq(X)
  BY DEF Layout
<1>2. PICK Y : t \in Seq(Y)
  BY DEF Layout
<1>3. PICK Z : u \in Seq(Z)
  BY DEF Layout
<1> DEFINE W == X \cup Y \cup Z
<1>4. s \in Seq(W) /\ t \in Seq(W) /\ u \in Seq(W)
  BY <1>1, <1>2, <1>3, SeqMonotonic
<1> HIDE DEF W
<1>5. QED
  BY <1>4, ConcatAssociative

\* An empty layout is one, and adds nothing.
LEMMA EmptyLayout ==
  /\ Layout(<< >>)
  /\ \A s : Layout(s) => s \o << >> = s /\ << >> \o s = s
<1>1. << >> \in Seq({})
  BY EmptySeq
<1>2. ASSUME NEW s, Layout(s) PROVE s \o << >> = s /\ << >> \o s = s
  BY <1>2, ConcatEmptySeq DEF Layout
<1>3. QED
  BY <1>1, <1>2 DEF Layout

\* And so is a single word.
LEMMA OneWord == \A w : Layout(<<w>>)
<1>1. ASSUME NEW w PROVE Layout(<<w>>)
  <2>1. <<w>> \in Seq({w})
    OBVIOUS
  <2>2. QED
    BY <2>1 DEF Layout
<1>2. QED
  BY <1>1

\* Finitely many layouts are sequences over one set.
LEMMA FlattenLayouts ==
  ASSUME NEW n \in Nat, NEW ss, DOMAIN ss = 1 .. n, ss = [i \in 1 .. n |-> ss[i]],
         \A i \in 1 .. n : Layout(ss[i])
  PROVE  \E X : ss \in [1 .. n -> Seq(X)]
<1> DEFINE X == UNION {{ss[i][j] : j \in DOMAIN ss[i]} : i \in 1 .. n}
<1>1. ASSUME NEW i \in 1 .. n PROVE ss[i] \in Seq(X)
  <2>1. PICK Y : ss[i] \in Seq(Y)
    BY DEF Layout
  <2>2. ss[i] \in [1 .. Len(ss[i]) -> Y] /\ Len(ss[i]) \in Nat /\ DOMAIN ss[i] = 1 .. Len(ss[i])
    BY <2>1, LenProperties
  <2>3. \A j \in DOMAIN ss[i] : ss[i][j] \in X
    OBVIOUS
  <2> HIDE DEF X
  <2>4. QED
    BY <2>2, <2>3
<1> HIDE DEF X
<1>2. ss \in [1 .. n -> Seq(X)]
  BY <1>1
<1>3. QED
  BY <1>2

\* A layout that is repeated.
LEMMA TimesLayout ==
  ASSUME NEW n \in Nat, NEW l, Layout(l)
  PROVE  Layout(Times(n, l))
<1> DEFINE ss == [i \in 1 .. n |-> l]
<1>1. CASE n = 0
  <2>1. Len(ss) = 0 /\ ss = << >>
    BY <1>1
  <2>2. Times(n, l) = << >>
    BY <2>1 DEF Times, FlattenSeq
  <2>3. QED
    BY <2>2, EmptyLayout
<1>2. CASE n # 0
  <2>1. PICK X : l \in Seq(X)
    BY DEF Layout
  <2>2. ss \in [1 .. n -> Seq(X)] /\ n \in Nat \ {0} /\ n \in 1 .. n
    BY <1>2, <2>1
  <2>3. PICK F : Flattens(F, ss, n, X) /\ FlattenSeq(ss) = F[n]
    BY <2>2, FlattenIs
  <2>4. FlattenSeq(ss) \in Seq(X)
    BY <2>2, <2>3 DEF Flattens
  <2>5. QED
    BY <2>4 DEF Layout, Times
<1>3. QED
  BY <1>1, <1>2

\* Everything layouts are made of.
LEMMA FieldLayouts ==
  /\ \A s, t : Layout(s) /\ Layout(t) => Layout(s \o t)
  /\ \A name : Layout(Field(name)) /\ Layout(Text(name)) /\ Layout(Pointer(name))
  /\ \A name, n : Layout(Array(name, n)) /\ Layout(Doubles(name, n)) /\ Layout(Shorts(name, n))
  /\ Layout(Tag)
  /\ \A c, s : Layout(s) => Layout(If(c, s))
  /\ \A s : \A n \in Nat : Layout(s) => Layout(Times(n, s))
  /\ \A name, s : \A n \in Nat : Layout(s) => Layout(List(name, n, s))
<1>1. \A s, t : Layout(s) /\ Layout(t) => Layout(s \o t)
  BY ConcatLayouts
<1>2. \A name : Layout(Field(name)) /\ Layout(Pointer(name))
  BY OneWord DEF Field, Pointer
<1>3. ASSUME NEW name PROVE Layout(Text(name))
  <2>1. Text(name) = <<<<name, 1>>>> \o <<<<name, 2>>>>
    BY DEF Text
  <2>2. QED
    BY <2>1, <1>1, OneWord
<1>4. \A name, n : Layout(Array(name, n)) /\ Layout(Doubles(name, n)) /\ Layout(Shorts(name, n))
  BY OneWord DEF Array, Doubles, Shorts
<1>5. Layout(Tag)
  BY OneWord DEF Tag
<1>6. \A c, s : Layout(s) => Layout(If(c, s))
  BY EmptyLayout DEF If
<1>7. \A s : \A n \in Nat : Layout(s) => Layout(Times(n, s))
  BY TimesLayout
<1>8. \A name, s : \A n \in Nat : Layout(s) => Layout(List(name, n, s))
  BY <1>1, <1>2, <1>7 DEF List
<1>9. QED
  BY <1>1, <1>2, <1>3, <1>4, <1>5, <1>6, <1>7, <1>8

(***************************************************************************)
(* What a handler writes for an object is a layout, for every type and     *)
(* flag word.                                                              *)
(***************************************************************************)
LEMMA WrittenIsLayout ==
  ASSUME NEW type \in Types, NEW f, NEW o \in Objects
  PROVE  Layout(Written(type, f, o))
<1>1. o.n \in Nat /\ o.m \in Nat
  BY DEF Objects
<1> USE <1>1, FieldLayouts
<1>2. Layout(SimCalorimeterHitWritten(f, o))
  BY DEF SimCalorimeterHitWritten
<1>3. Layout(RawCalorimeterHitWritten(f, o))
  BY DEF RawCalorimeterHitWritten
<1>4. Layout(CalorimeterHitWritten(f, o))
  BY DEF CalorimeterHitWritten
<1>5. Layout(SimTrackerHitWritten(f, o))
  BY DEF SimTrackerHitWritten
<1>6. Layout(TPCHitWritten(f, o))
  BY DEF TPCHitWritten
<1>7. Layout(TrackerRawDataWritten(f, o))
  BY DEF TrackerRawDataWritten
<1>8. Layout(TrackerDataWritten(f, o))
  BY DEF TrackerDataWritten
<1>9. Layout(TrackerPulseWritten(f, o))
  BY DEF TrackerPulseWritten
<1>10. Layout(TrackerHitWritten(f, o))
  BY DEF TrackerHitWritten
<1>11. Layout(TrackerHitPlaneWritten(f, o))
  BY DEF TrackerHitPlaneWritten
<1>12. Layout(TrackerHitZCylinderWritten(f, o))
  BY DEF TrackerHitZCylinderWritten
<1>13. Layout(TrackWritten(f, o))
  BY DEF TrackWritten, TrackParameters, AfterTrackStates
<1>14. Layout(ClusterWritten(f, o))
  BY DEF ClusterWritten, ParticleIDLayout
<1>15. Layout(ReconstructedParticleWritten(f, o))
  BY DEF ReconstructedParticleWritten, ParticleIDLayout
<1>16. Layout(LCRelationWritten(f, o))
  BY DEF LCRelationWritten
<1>17. Layout(VertexWritten(f, o))
  BY DEF VertexWritten
<1>18. Layout(MCParticleWritten(f, o))
  BY DEF MCParticleWritten
<1>19. Layout(LCStrVecWritten(f, o))
  BY DEF LCStrVecWritten
<1>20. Layout(LCFloatVecWritten(f, o))
  BY DEF LCFloatVecWritten
<1>21. Layout(LCIntVecWritten(f, o))
  BY DEF LCIntVecWritten
<1>22. QED
  BY <1>2, <1>3, <1>4, <1>5, <1>6, <1>7, <1>8, <1>9, <1>10, <1>11, <1>12, <1>13, <1>14, <1>15, <1>16, <1>17, <1>18, <1>19, <1>20, <1>21 DEF Written, Types

(***************************************************************************)
(* The read and the write method of every handler take the same fields in  *)
(* the same order for every flag word, every number of elements and both   *)
(* ends of a version-dependent field: the pairs of the 20 types agree on   *)
(* files of the current version. A Track state has its fixed covariance    *)
(* matrix, which is the one array whose length the reader takes from its   *)
(* own code.                                                               *)
(***************************************************************************)
THEOREM ReadIsWritten ==
  ASSUME NEW type \in Types, NEW f, NEW o \in Objects, type = "Track" => o.cov = TrackStateCov
  PROVE  ReadBack(type, f, Current, o) = Written(type, f, o)
<1>a. o.n \in Nat /\ o.m \in Nat
  BY DEF Objects
<1>b. \A c, s : (c => If(c, s) = s) /\ (~c => If(c, s) = << >>)
  BY DEF If
<1>c. /\ Current > Version(1, 51) /\ Current > Version(1, 0) /\ Current > Version(1, 2)
      /\ Current > Version(1, 9) /\ Current > Version(1, 7) /\ Current > Version(2, 6)
      /\ ~(Current <= Version(1, 2)) /\ Current # Version(0, 8)
  BY DEF Current, Version
<1>d. \A s, t, u : Layout(s) /\ Layout(t) /\ Layout(u) => s \o (t \o u) = (s \o t) \o u
  BY ConcatLayoutsAssociate
<1>1. SimCalorimeterHitRead(f, Current, o) = SimCalorimeterHitWritten(f, o)
  <2> DEFINE P == Pointer("Particle") \o Field("Energy") \o Field("Time")
             A == Field("PDG")
             B == Array("StepPosition", 3)
  <2>1. Layout(P) /\ Layout(A) /\ Layout(B)
    BY FieldLayouts
  <2> HIDE DEF P, A, B
  <2>2. (P \o If("STEP" \in f, A)) \o If("STEP" \in f, B) = P \o If("STEP" \in f, A \o B)
    <3>1. CASE "STEP" \in f
      BY <1>d, <2>1, <3>1 DEF If
    <3>2. CASE "STEP" \notin f
      <4>1. If("STEP" \in f, A) = << >> /\ If("STEP" \in f, B) = << >>
            /\ If("STEP" \in f, A \o B) = << >>
        BY <3>2 DEF If
      <4>2. QED
        BY <2>1, <4>1, EmptyLayout
    <3>3. QED
      BY <3>1, <3>2
  <2>3. QED
    <3> DEFINE H == Field("cellID0") \o If("ID1" \in f, Field("cellID1")) \o Field("energy")
                    \o If("LONG" \in f, Array("position", 3))
    <3>1. SimCalorimeterHitWritten(f, o) = (H \o List("nMC", o.n, P \o If("STEP" \in f, A \o B))) \o Tag
      BY DEF SimCalorimeterHitWritten, P, A, B
    <3>2. SimCalorimeterHitRead(f, Current, o)
            = (H \o List("nMC", o.n, (P \o If("STEP" \in f, A)) \o If("STEP" \in f, B))) \o Tag
      BY <1>b, <1>c DEF SimCalorimeterHitRead, P, A, B
    <3>3. QED
      BY <2>2, <3>1, <3>2
<1>2. RawCalorimeterHitRead(f, Current, o) = RawCalorimeterHitWritten(f, o)
  BY DEF RawCalorimeterHitWritten, RawCalorimeterHitRead, Current, Version, If
<1>3. CalorimeterHitRead(f, Current, o) = CalorimeterHitWritten(f, o)
  <2> DEFINE P == Field("cellID0") \o If("ID1" \in f, Field("cellID1")) \o Field("energy")
                  \o If("ENERGY_ERROR" \in f, Field("energyError"))
                  \o If("TIME" \in f, Field("time")) \o If("LONG" \in f, Array("position", 3))
             T == If("NO_PTR" \notin f, Tag)
  <2>1. Layout(P) /\ Layout(Field("type")) /\ Layout(Pointer("rawHit"))
    BY FieldLayouts
  <2>2. CalorimeterHitWritten(f, o) = ((P \o Field("type")) \o Pointer("rawHit")) \o T
    BY DEF CalorimeterHitWritten
  <2>3. CalorimeterHitRead(f, Current, o) = (P \o (Field("type") \o Pointer("rawHit"))) \o T
    BY <1>b, <1>c DEF CalorimeterHitRead
  <2> HIDE DEF P, T
  <2>4. QED
    BY <1>d, <2>1, <2>2, <2>3
<1>4. SimTrackerHitRead(f, Current, o) = SimTrackerHitWritten(f, o)
  BY DEF SimTrackerHitWritten, SimTrackerHitRead, Current, Version, If
<1>5. TPCHitRead(f, Current, o) = TPCHitWritten(f, o)
  BY DEF TPCHitWritten, TPCHitRead, Current, Version, If
<1>6. TrackerRawDataRead(f, Current, o) = TrackerRawDataWritten(f, o)
  BY DEF TrackerRawDataWritten, TrackerRawDataRead, Current, Version, If
<1>7. TrackerDataRead(f, Current, o) = TrackerDataWritten(f, o)
  BY DEF TrackerDataWritten, TrackerDataRead, Current, Version, If
<1>8. TrackerPulseRead(f, Current, o) = TrackerPulseWritten(f, o)
  BY DEF TrackerPulseWritten, TrackerPulseRead, Current, Version, If
<1>9. TrackerHitRead(f, Current, o) = TrackerHitWritten(f, o)
  BY DEF TrackerHitWritten, TrackerHitRead, Current, Version, If
<1>10. TrackerHitPlaneRead(f, Current, o) = TrackerHitPlaneWritten(f, o)
  BY DEF TrackerHitPlaneWritten, TrackerHitPlaneRead, Current, Version, If
<1>11. TrackerHitZCylinderRead(f, Current, o) = TrackerHitZCylinderWritten(f, o)
  BY DEF TrackerHitZCylinderWritten, TrackerHitZCylinderRead, Current, Version, If
<1>12. o.cov = TrackStateCov => TrackRead(f, Current, o) = TrackWritten(f, o)
  BY DEF TrackWritten, TrackRead, Current, Version, If, TrackParameters, AfterTrackStates
<1>13. ClusterRead(f, Current, o) = ClusterWritten(f, o)
  <2> DEFINE P == Field("type") \o Field("energy") \o Field("energyError") \o Array("position", 3)
                  \o Array("errpos", 6) \o Field("theta") \o Field("phi") \o Array("errdir", 3)
             A == Field("nShape")
             B == Array("shape", o.n)
             C == List("nPid", o.n, ParticleIDLayout(o))
             D == List("nClusters", o.m, Pointer("cluster"))
             E == If("HITS" \in f, List("nHits", o.n, Pointer("hit") \o Field("weight")))
             F == List("nEnergies", o.m, Field("subdetectorEnergy"))
  <2>1. Layout(P) /\ Layout(A) /\ Layout(B) /\ Layout(C)
    BY <1>a, FieldLayouts DEF ParticleIDLayout
  <2>2. ClusterWritten(f, o) = (((((((P \o A) \o B) \o C) \o D) \o E) \o F) \o Tag)
    BY DEF ClusterWritten
  <2>3. ClusterRead(f, Current, o) = (((((P \o ((A \o B) \o C)) \o D) \o E) \o F) \o Tag)
    BY <1>b, <1>c DEF ClusterRead
  <2> HIDE DEF P, A, B, C, D, E, F
  <2>4. P \o ((A \o B) \o C) = ((P \o A) \o B) \o C
    BY <1>d, <2>1, ConcatLayouts
  <2>5. QED
    BY <2>2, <2>3, <2>4
<1>14. ReconstructedParticleRead(f, Current, o) = ReconstructedParticleWritten(f, o)
  <2> DEFINE P == Field("type") \o Array("momentum", 3) \o Field("energy") \o Array("cov", 10)
                  \o Field("mass") \o Field("charge") \o Array("reference", 3)
                  \o List("nPid", o.n, ParticleIDLayout(o) \o Tag)
             A == Pointer("pidUsed")
             B == Field("goodnessOfPID")
             C(w) == List("nParticles", o.n, Pointer("particle") \o w)
             D(w) == List("nTracks", o.m, Pointer("track") \o w)
             E(w) == List("nClusters", o.n, Pointer("cluster") \o w)
             Q == List("nParticles", o.n, Pointer("particle"))
             R == List("nTracks", o.m, Pointer("track"))
             S == List("nClusters", o.n, Pointer("cluster"))
             V == Pointer("startVertex")
  <2>1. Layout(P) /\ Layout(A) /\ Layout(B) /\ Layout(Q) /\ Layout(R) /\ Layout(S)
        /\ Layout(V) /\ Layout(Tag)
    BY <1>a, FieldLayouts DEF ParticleIDLayout
  <2>2. ReconstructedParticleWritten(f, o) = (((((((P \o A) \o B) \o Q) \o R) \o S) \o V) \o Tag)
    BY DEF ReconstructedParticleWritten
  <2>3. ReconstructedParticleRead(f, Current, o)
          = (((((((P \o (A \o B)) \o C(<< >>)) \o D(<< >>)) \o E(<< >>)) \o << >>) \o V) \o Tag)
    BY <1>b, <1>c DEF ReconstructedParticleRead
  <2>4. C(<< >>) = Q /\ D(<< >>) = R /\ E(<< >>) = S
    BY FieldLayouts, EmptyLayout
  <2> HIDE DEF P, A, B, C, D, E, Q, R, S, V
  <2>5. P \o (A \o B) = (P \o A) \o B /\ Layout(((((P \o A) \o B) \o Q) \o R) \o S)
    <3>1. P \o (A \o B) = (P \o A) \o B /\ Layout((P \o A) \o B)
      <4>1. Layout(P \o A)
        BY <2>1, ConcatLayouts
      <4>5. Layout(P) /\ Layout(A) /\ Layout(B)
        BY <2>1
      <4>2. P \o (A \o B) = (P \o A) \o B
        BY <4>5, ConcatLayoutsAssociate
      <4>3. Layout((P \o A) \o B)
        BY <2>1, <4>1, ConcatLayouts
      <4>4. QED
        BY <4>2, <4>3
    <3>2. Layout(((P \o A) \o B) \o Q)
      BY <2>1, <3>1, ConcatLayouts
    <3>3. Layout((((P \o A) \o B) \o Q) \o R)
      BY <2>1, <3>2, ConcatLayouts
    <3>4. QED
      BY <2>1, <3>1, <3>3, ConcatLayouts
  <2>6. QED
    BY <2>2, <2>3, <2>4, <2>5, EmptyLayout
<1>15. LCRelationRead(f, Current, o) = LCRelationWritten(f, o)
  BY DEF LCRelationWritten, LCRelationRead, Current, Version, If
<1>16. VertexRead(f, Current, o) = VertexWritten(f, o)
  BY DEF VertexWritten, VertexRead, Current, Version, If
<1>17. MCParticleRead(f, Current, o) = MCParticleWritten(f, o)
  <2> DEFINE P == Tag \o List("nParents", o.n, Pointer("parent")) \o Field("pdg") \o Field("genstatus")
                  \o Field("simstatus") \o Doubles("vertex", 3) \o Field("time")
                  \o Array("momentum", 3) \o Field("mass") \o Field("charge")
                  \o If(o.endpoint, Doubles("endpoint", 3) \o Array("momentumAtEndpoint", 3))
             A == Array("spin", 3)
             B == Array("colorFlow", 2)
  <2>1. Layout(P) /\ Layout(A) /\ Layout(B)
    BY <1>a, FieldLayouts
  <2>2. MCParticleWritten(f, o) = (P \o A) \o B
    BY DEF MCParticleWritten
  <2>3. MCParticleRead(f, Current, o) = P \o (A \o B)
    BY <1>b, <1>c DEF MCParticleRead
  <2> HIDE DEF P, A, B
  <2>4. QED
    BY <1>d, <2>1, <2>2, <2>3
<1>18. LCStrVecRead(f, Current, o) = LCStrVecWritten(f, o)
  BY DEF LCStrVecWritten, LCStrVecRead, Current, Version, If
<1>19. LCFloatVecRead(f, Current, o) = LCFloatVecWritten(f, o)
  BY DEF LCFloatVecWritten, LCFloatVecRead, Current, Version, If
<1>20. LCIntVecRead(f, Current, o) = LCIntVecWritten(f, o)
  BY <1>b, <1>c DEF LCIntVecWritten, LCIntVecRead, List
<1>21. QED
  BY <1>1, <1>2, <1>3, <1>4, <1>5, <1>6, <1>7, <1>8, <1>9, <1>10, <1>11, <1>12, <1>13, <1>14, <1>15, <1>16, <1>17, <1>18, <1>19, <1>20 DEF Written, ReadBack, Types

-----------------------------------------------------------------------------
(* The algorithms of vertices. *)

\* Algorithms have places from 1 on, each another one.
LEMMA PlacesDiffer ==
  ASSUME NEW S \in SUBSET Int, IsFiniteSet(S), NEW a \in S, NEW b \in S
  PROVE  /\ Place(S, a) \in 1 .. Cardinality(S)
         /\ Place(S, a) = Place(S, b) => a = b
<1> DEFINE Upto(x) == {y \in S : y <= x}
<1>1. ASSUME NEW x \in S
      PROVE  /\ IsFiniteSet(Upto(x)) /\ Cardinality(Upto(x)) \in Nat
             /\ Cardinality(Upto(x)) <= Cardinality(S) /\ Cardinality(Upto(x)) # 0
  <2>1. Upto(x) \in SUBSET S /\ x \in Upto(x)
    OBVIOUS
  <2> HIDE DEF Upto
  <2>2. IsFiniteSet(Upto(x)) /\ Cardinality(Upto(x)) <= Cardinality(S)
    BY <2>1, FS_Subset
  <2>3. QED
    BY <2>1, <2>2, FS_CardinalityType, FS_EmptySet
<1>2. ASSUME NEW x \in S, NEW y \in S, x < y
      PROVE  Cardinality(Upto(x)) # Cardinality(Upto(y))
  <2>1. Upto(x) \in SUBSET Upto(y) /\ y \in Upto(y) /\ y \notin Upto(x)
    <3>1. x \in Int /\ y \in Int /\ \A z \in S : z \in Int
      OBVIOUS
    <3>2. \A z \in Int : z <= x => z <= y
      BY <1>2, <3>1
    <3>3. y <= y /\ ~(y <= x)
      BY <1>2, <3>1
    <3>4. QED
      BY <3>1, <3>2, <3>3
  <2> HIDE DEF Upto
  <2>2. QED
    BY <1>1, <2>1, FS_Subset
<1>3. Cardinality(S) \in Nat
  BY FS_CardinalityType
<1> HIDE DEF Upto
<1>4. Place(S, a) = Cardinality(Upto(a)) /\ Place(S, b) = Cardinality(Upto(b))
  BY DEF Place, Upto
<1>5. a = b \/ a < b \/ b < a
  OBVIOUS
<1>6. QED
  BY <1>1, <1>2, <1>3, <1>4, <1>5

\* The algorithm of a vertex is found again under its index.
LEMMA AlgorithmKept ==
  ASSUME NEW objs \in Seq(Objects), NEW i \in DOMAIN objs
  PROVE  Algorithms(objs)[IndexOf(Algorithms(objs), objs[i].alg)] = objs[i].alg
<1> DEFINE S == {objs[j].alg : j \in DOMAIN objs}
           a == objs[i].alg
           k == Place(S, a)
<1>1. Len(objs) \in Nat /\ DOMAIN objs = 1 .. Len(objs) /\ \A j \in DOMAIN objs : objs[j] \in Objects
  BY LenProperties, ElementOfSeq
<1>2. S \in SUBSET Int
  BY <1>1 DEF Objects
<1>3. IsFiniteSet(S)
  <2>1. IsFiniteSet(DOMAIN objs)
    BY <1>1, FS_Interval
  <2> DEFINE f == [j \in DOMAIN objs |-> objs[j].alg]
  <2>2. f \in Surjection(DOMAIN objs, S)
    BY DEF Surjection
  <2> HIDE DEF f, S
  <2>3. QED
    BY <2>1, <2>2, FS_Surjection
<1>4. a \in S
  OBVIOUS
<1> HIDE DEF S, a
<1>5. k \in 1 .. Cardinality(S) /\ \A b \in S : Place(S, b) = k => b = a
  BY <1>2, <1>3, <1>4, PlacesDiffer
<1>6. Sorted(S)[k] = a /\ k \in DOMAIN Sorted(S)
  BY <1>4, <1>5 DEF Sorted
<1>7. Sorted(S)[IndexOf(Sorted(S), a)] = a
  BY <1>6 DEF IndexOf
<1>8. QED
  BY <1>7 DEF Algorithms, S, a

-----------------------------------------------------------------------------
(* Reading what was written. *)

(***************************************************************************)
(* A collection in memory.                                                 *)
(***************************************************************************)
GoodCol(c) ==
  /\ c = [type |-> c.type, flags |-> c.flags, objs |-> c.objs]
  /\ c.type \in AllTypes
  /\ c.flags \subseteq FlagBits(c.type) \cup {"SUBSET", "FIXED"}
  /\ "FIXED" \in c.flags => c.type = GENERIC /\ AllFixed(c.objs)
  /\ c.objs \in Seq(Objects) /\ Len(c.objs) <= MaxObjects
  /\ c.type = "Track" => \A i \in DOMAIN c.objs : c.objs[i].cov = TrackStateCov
  /\ c.type = GENERIC =>
       \A i, j \in DOMAIN c.objs :
         c.objs[i].fixed /\ c.objs[j].fixed => SizesOf(c.objs[i]) = SizesOf(c.objs[j])

(***************************************************************************)
(* The object at i as it is read.                                          *)
(***************************************************************************)
AsRead(c, i) ==
  IF c.type = GENERIC /\ "SUBSET" \notin c.flags
    THEN [c.objs[i] EXCEPT !.fixed = AllFixed(c.objs)] ELSE c.objs[i]
AsReads(c) == [i \in 1 .. Len(c.objs) |-> AsRead(c, i)]

\* The objects of a collection.
LEMMA ObjectsOf ==
  ASSUME NEW c, GoodCol(c)
  PROVE  /\ Len(c.objs) \in Nat /\ DOMAIN c.objs = 1 .. Len(c.objs)
         /\ \A i \in 1 .. Len(c.objs) :
              /\ c.objs[i] \in Objects
              /\ c.objs[i].n \in Nat /\ c.objs[i].m \in Nat /\ c.objs[i].fixed \in BOOLEAN
              /\ c.objs[i].nInt \in Nat /\ c.objs[i].nFloat \in Nat
<1>1. c.objs \in Seq(Objects)
  BY DEF GoodCol
<1>2. Len(c.objs) \in Nat /\ DOMAIN c.objs = 1 .. Len(c.objs)
      /\ \A i \in 1 .. Len(c.objs) : c.objs[i] \in Objects
  BY <1>1, LenProperties, ElementOfSeq
<1>3. QED
  BY <1>2 DEF Objects

\* Two sizes, and the values they announce, are layouts.
LEMMA SizesLayouts ==
  ASSUME NEW x \in Nat, NEW y \in Nat
  PROVE  /\ Layout(Sizes(x, y)) /\ Layout(Values(Sizes(x, y)))
         /\ Sizes(x, y)[1][2] = x /\ Sizes(x, y)[2][2] = y
<1>1. Sizes(x, y) \in Seq({<<"nInt", x>>, <<"nFloat", y>>})
  BY DEF Sizes
<1>2. Layout(Sizes(x, y))
  BY <1>1 DEF Layout
<1>3. Sizes(x, y)[1][2] = x /\ Sizes(x, y)[2][2] = y
  BY DEF Sizes
<1>4. Layout(Values(Sizes(x, y)))
  BY <1>3, FieldLayouts DEF Values
<1>5. QED
  BY <1>2, <1>3, <1>4

\* And so is every object of a collection.
LEMMA ObjectWrittenLayout ==
  ASSUME NEW c, GoodCol(c), NEW i \in 1 .. Len(c.objs)
  PROVE  Layout(ObjectWritten(c, i))
<1>1. /\ c.type \in AllTypes /\ c.objs[i] \in Objects
      /\ c.objs[i].nInt \in Nat /\ c.objs[i].nFloat \in Nat
      /\ c.objs[1].nInt \in Nat /\ c.objs[1].nFloat \in Nat
  <2>1. 1 \in 1 .. Len(c.objs)
    BY ObjectsOf
  <2>2. QED
    BY <2>1, ObjectsOf DEF GoodCol
<1>2. CASE "SUBSET" \in c.flags
  BY <1>2, FieldLayouts DEF ObjectWritten
<1>3. CASE "SUBSET" \notin c.flags /\ c.type = GENERIC
  <2> DEFINE sizes == IF AllFixed(c.objs) THEN SizesOf(c.objs[1]) ELSE SizesOf(c.objs[i])
  <2>1. Layout(sizes) /\ Layout(Values(sizes))
    BY <1>1, SizesLayouts DEF SizesOf
  <2>2. ObjectWritten(c, i) = (If(~AllFixed(c.objs), sizes) \o Values(sizes)) \o Tag
    BY <1>3 DEF ObjectWritten, GenericObjectWritten
  <2> HIDE DEF sizes
  <2>3. Layout(If(~AllFixed(c.objs), sizes))
    BY <2>1, EmptyLayout DEF If
  <2>4. QED
    BY <2>1, <2>2, <2>3, FieldLayouts
<1>4. CASE "SUBSET" \notin c.flags /\ c.type # GENERIC
  <2>1. c.type \in Types
    BY <1>1, <1>4 DEF AllTypes
  <2>2. QED
    BY <1>1, <1>4, <2>1, WrittenIsLayout DEF ObjectWritten
<1>5. QED
  BY <1>2, <1>3, <1>4

\* A reader that expects s finds it, and goes on behind it.
LEMMA SplitConcat ==
  ASSUME NEW s, NEW t, Layout(s), Layout(t)
  PROVE  StartsWith(s \o t, s) /\ Rest(s \o t, Len(s)) = t
<1>1. PICK X : s \in Seq(X) /\ t \in Seq(X)
  <2>1. PICK Y : s \in Seq(Y)
    BY DEF Layout
  <2>2. PICK Z : t \in Seq(Z)
    BY DEF Layout
  <2>3. s \in Seq(Y \cup Z) /\ t \in Seq(Y \cup Z)
    BY <2>1, <2>2, SeqMonotonic
  <2>4. QED
    BY <2>3
<1>2. Len(s) \in Nat /\ Len(t) \in Nat
  BY <1>1, LenProperties
<1>3. /\ s \o t \in Seq(X) /\ Len(s \o t) = Len(s) + Len(t)
      /\ \A i \in 1 .. Len(s) + Len(t) : (s \o t)[i] = IF i <= Len(s) THEN s[i] ELSE t[i - Len(s)]
  BY <1>1, ConcatProperties
<1> DEFINE u == s \o t
<1>4. \A i \in 1 .. Len(s) + Len(t) : u[i] \in X
  BY <1>3, ElementOfSeq
<1> HIDE DEF u
<1>5. SubSeq(u, 1, Len(s)) = s
  <2>1. /\ SubSeq(u, 1, Len(s)) \in Seq(X)
        /\ Len(SubSeq(u, 1, Len(s))) = IF 1 <= Len(s) THEN Len(s) - 1 + 1 ELSE 0
        /\ \A i \in 1 .. Len(s) - 1 + 1 : SubSeq(u, 1, Len(s))[i] = u[1 + i - 1]
    BY <1>2, <1>4, SubSeqProperties
  <2>2. Len(SubSeq(u, 1, Len(s))) = Len(s)
    BY <1>2, <2>1
  <2>3. \A i \in 1 .. Len(s) : SubSeq(u, 1, Len(s))[i] = s[i]
    BY <1>2, <1>3, <2>1 DEF u
  <2>4. QED
    BY <1>1, <2>1, <2>2, <2>3, SeqEqual
<1>6. SubSeq(u, Len(s) + 1, Len(s) + Len(t)) = t
  <2> DEFINE v == SubSeq(u, Len(s) + 1, Len(s) + Len(t))
  <2>1. /\ v \in Seq(X)
        /\ Len(v) = IF Len(s) + 1 <= Len(s) + Len(t) THEN Len(s) + Len(t) - (Len(s) + 1) + 1 ELSE 0
        /\ \A i \in 1 .. Len(s) + Len(t) - (Len(s) + 1) + 1 : v[i] = u[Len(s) + 1 + i - 1]
    BY <1>2, <1>4, SubSeqProperties
  <2> HIDE DEF v
  <2>2. Len(v) = Len(t)
    BY <1>2, <2>1
  <2>3. ASSUME NEW i \in 1 .. Len(t) PROVE v[i] = t[i]
    <3>1. i \in 1 .. Len(s) + Len(t) - (Len(s) + 1) + 1 /\ Len(s) + 1 + i - 1 = Len(s) + i
          /\ Len(s) + i \in 1 .. Len(s) + Len(t) /\ ~(Len(s) + i <= Len(s)) /\ Len(s) + i - Len(s) = i
      BY <1>2
    <3>2. QED
      BY <1>3, <2>1, <3>1 DEF u
  <2>4. v = t
    BY <1>1, <2>1, <2>2, <2>3, SeqEqual
  <2>5. QED
    BY <2>4 DEF v
<1>7. QED
  BY <1>2, <1>3, <1>5, <1>6 DEF StartsWith, Rest, u

\* A reader that expects two sizes finds them.
LEMMA SizesFirst ==
  ASSUME NEW x \in Nat, NEW y \in Nat, NEW u, Layout(u)
  PROVE  LET w == Sizes(x, y) \o u
         IN  /\ IsSizes(w) /\ SubSeq(w, 1, 2) = Sizes(x, y) /\ Rest(w, 2) = u
<1>1. Layout(Sizes(x, y)) /\ Len(Sizes(x, y)) = 2
  BY SizesLayouts DEF Sizes
<1> DEFINE w == Sizes(x, y) \o u
<1>2. Len(w) >= 2 /\ SubSeq(w, 1, 2) = Sizes(x, y) /\ Rest(w, 2) = u
  BY <1>1, SplitConcat DEF StartsWith
<1>3. w[1] = <<"nInt", x>> /\ w[2] = <<"nFloat", y>>
  <2>1. PICK X : Sizes(x, y) \in Seq(X) /\ u \in Seq(X)
    <3>1. PICK Y : Sizes(x, y) \in Seq(Y)
      BY <1>1 DEF Layout
    <3>2. PICK Z : u \in Seq(Z)
      BY DEF Layout
    <3>3. Sizes(x, y) \in Seq(Y \cup Z) /\ u \in Seq(Y \cup Z)
      BY <3>1, <3>2, SeqMonotonic
    <3>4. QED
      BY <3>3
  <2>2. Len(u) \in Nat
    BY <2>1, LenProperties
  <2>3. /\ 1 \in 1 .. Len(Sizes(x, y)) + Len(u) /\ 2 \in 1 .. Len(Sizes(x, y)) + Len(u)
        /\ 1 <= Len(Sizes(x, y)) /\ 2 <= Len(Sizes(x, y))
    BY <1>1, <2>2
  <2>4. \A i \in 1 .. Len(Sizes(x, y)) + Len(u) :
          w[i] = IF i <= Len(Sizes(x, y)) THEN Sizes(x, y)[i] ELSE u[i - Len(Sizes(x, y))]
    BY <2>1, ConcatProperties
  <2>5. w[1] = Sizes(x, y)[1] /\ w[2] = Sizes(x, y)[2]
    BY <2>3, <2>4
  <2>6. QED
    BY <2>5 DEF Sizes
<1>4. QED
  BY <1>2, <1>3 DEF IsSizes

(***************************************************************************)
(* The words of the objects, and their block.                              *)
(***************************************************************************)
ObjectWords(c) == [i \in 1 .. Len(c.objs) |-> ObjectWritten(c, i)]
After(c) == <<<<"nObj", Len(c.objs)>>>> \o FlattenSeq(ObjectWords(c))

(***************************************************************************)
(* The words of the objects are those of the first object, of the second,  *)
(* and so on.                                                              *)
(***************************************************************************)
LEMMA ObjectWordsFlatten ==
  ASSUME NEW c, GoodCol(c), Len(c.objs) # 0
  PROVE  /\ Len(c.objs) \in Nat \ {0} /\ Len(c.objs) \in 1 .. Len(c.objs)
         /\ \E X : /\ ObjectWords(c) \in [1 .. Len(c.objs) -> Seq(X)]
                   /\ \E F : Flattens(F, ObjectWords(c), Len(c.objs), X)
                             /\ FlattenSeq(ObjectWords(c)) = F[Len(c.objs)]
<1> DEFINE n == Len(c.objs)
           ss == ObjectWords(c)
<1>1. n \in Nat \ {0} /\ n \in 1 .. n
  BY ObjectsOf
<1>2. DOMAIN ss = 1 .. n /\ ss = [i \in 1 .. n |-> ss[i]] /\ \A i \in 1 .. n : Layout(ss[i])
  BY ObjectWrittenLayout DEF ObjectWords
<1> HIDE DEF n, ss
<1>3. PICK X : ss \in [1 .. n -> Seq(X)]
  BY <1>1, <1>2, FlattenLayouts
<1>4. \E F : Flattens(F, ss, n, X) /\ FlattenSeq(ss) = F[n]
  BY <1>1, <1>3, FlattenIs
<1>5. QED
  BY <1>1, <1>3, <1>4 DEF n, ss

\* The block behind the sizes: the number of objects, and their words.
LEMMA AfterLayout ==
  ASSUME NEW c, GoodCol(c)
  PROVE  /\ Layout(FlattenSeq(ObjectWords(c))) /\ Layout(After(c))
         /\ After(c) # << >> /\ After(c)[1] = <<"nObj", Len(c.objs)>>
         /\ Rest(After(c), 1) = FlattenSeq(ObjectWords(c))
<1>1. Layout(FlattenSeq(ObjectWords(c)))
  <2>1. CASE Len(c.objs) = 0
    <3>1. ObjectWords(c) = << >> /\ Len(ObjectWords(c)) = 0
      BY <2>1 DEF ObjectWords
    <3>2. QED
      BY <3>1, EmptyLayout DEF FlattenSeq
  <2>2. CASE Len(c.objs) # 0
    <3>1. PICK X, F : /\ Len(c.objs) \in 1 .. Len(c.objs)
                      /\ Flattens(F, ObjectWords(c), Len(c.objs), X)
                      /\ FlattenSeq(ObjectWords(c)) = F[Len(c.objs)]
      BY <2>2, ObjectWordsFlatten
    <3>2. FlattenSeq(ObjectWords(c)) \in Seq(X)
      BY <3>1 DEF Flattens
    <3>3. QED
      BY <3>2 DEF Layout
  <2>3. QED
    BY <2>1, <2>2
<1> DEFINE u == FlattenSeq(ObjectWords(c))
           h == <<"nObj", Len(c.objs)>>
<1>2. Layout(<<h>>) /\ Len(<<h>>) = 1 /\ <<h>>[1] = h
  BY OneWord
<1> HIDE DEF u, h
<1>3. Layout(<<h>> \o u) /\ Rest(<<h>> \o u, 1) = u /\ StartsWith(<<h>> \o u, <<h>>)
  BY <1>1, <1>2, SplitConcat, ConcatLayouts DEF u
<1>4. <<h>> \o u # << >> /\ (<<h>> \o u)[1] = h
  <2>1. PICK X : u \in Seq(X)
    BY <1>1 DEF Layout, u
  <2>2. u \in Seq(X \cup {h}) /\ <<h>> \in Seq(X \cup {h})
    BY <2>1, SeqMonotonic
  <2> DEFINE Y == X \cup {h}
  <2> HIDE DEF Y
  <2>3. Len(u) \in Nat
    BY <2>1, LenProperties
  <2>4. Len(<<h>> \o u) = 1 + Len(u) /\ (<<h>> \o u)[1] = h
    BY <1>2, <2>2, <2>3, ConcatProperties DEF Y
  <2>5. QED
    BY <2>3, <2>4, EmptySeq
<1>5. After(c) = <<h>> \o u
  BY DEF After, u, h
<1>6. QED
  BY <1>1, <1>3, <1>4, <1>5 DEF u, h

(***************************************************************************)
(* The words of a block, with the sizes for all objects in front if all    *)
(* are fixed.                                                              *)
(***************************************************************************)
LEMMA WordsOfBlock ==
  ASSUME NEW c, GoodCol(c)
  PROVE  /\ BlockOf(c).objs = c.objs /\ BlockOf(c).flags = FlagsWritten(c)
         /\ c.type = GENERIC => ("FIXED" \in FlagsWritten(c) <=> AllFixed(c.objs))
         /\ c.type # GENERIC => FlagsWritten(c) = c.flags /\ BlockOf(c).words = After(c)
         /\ "SUBSET" \in FlagsWritten(c) <=> "SUBSET" \in c.flags
         /\ c.type = GENERIC =>
              /\ ~AllFixed(c.objs) => BlockOf(c).words = After(c)
              /\ AllFixed(c.objs) =>
                   \E x, y \in Nat :
                     /\ BlockOf(c).words = Sizes(x, y) \o After(c)
                     /\ c.objs # << >> => Sizes(x, y) = SizesOf(c.objs[1])
<1>1. /\ BlockOf(c).objs = c.objs /\ BlockOf(c).flags = FlagsWritten(c)
      /\ BlockOf(c).words = (If(c.type = GENERIC, SizesWritten(c.objs)) \o <<<<"nObj", Len(c.objs)>>>>)
                            \o FlattenSeq(ObjectWords(c))
  BY DEF BlockOf, ObjectWords
<1>2. c.type = GENERIC => ("FIXED" \in FlagsWritten(c) <=> AllFixed(c.objs))
  BY DEF FlagsWritten, GoodCol
<1>3. (c.type # GENERIC => FlagsWritten(c) = c.flags) /\ ("SUBSET" \in FlagsWritten(c) <=> "SUBSET" \in c.flags)
  BY DEF FlagsWritten
<1>4. ASSUME NEW l, Layout(l), If(c.type = GENERIC, SizesWritten(c.objs)) = l
      PROVE  BlockOf(c).words = l \o After(c)
  <2>1. Layout(<<<<"nObj", Len(c.objs)>>>>) /\ Layout(FlattenSeq(ObjectWords(c)))
    BY OneWord, AfterLayout
  <2>2. QED
    BY <1>1, <1>4, <2>1, ConcatLayoutsAssociate DEF After
<1>5. ASSUME If(c.type = GENERIC, SizesWritten(c.objs)) = << >>
      PROVE  BlockOf(c).words = After(c)
  BY <1>4, <1>5, EmptyLayout, AfterLayout
<1>6. c.type # GENERIC => BlockOf(c).words = After(c)
  BY <1>5 DEF If
<1>7. c.type = GENERIC /\ ~AllFixed(c.objs) => BlockOf(c).words = After(c)
  BY <1>5 DEF If, SizesWritten
<1>8. ASSUME c.type = GENERIC, AllFixed(c.objs)
      PROVE  \E x, y \in Nat : /\ BlockOf(c).words = Sizes(x, y) \o After(c)
                               /\ c.objs # << >> => Sizes(x, y) = SizesOf(c.objs[1])
  <2>1. CASE c.objs = << >>
    <3>1. If(c.type = GENERIC, SizesWritten(c.objs)) = Sizes(0, 0)
      BY <1>8, <2>1 DEF If, SizesWritten
    <3>2. 0 \in Nat /\ Layout(Sizes(0, 0))
      BY SizesLayouts
    <3>3. BlockOf(c).words = Sizes(0, 0) \o After(c)
      BY <1>4, <3>1, <3>2
    <3>4. QED
      BY <2>1, <3>2, <3>3
  <2>2. CASE c.objs # << >>
    <3>1. 1 \in 1 .. Len(c.objs)
      BY <2>2, EmptySeq DEF GoodCol
    <3>2. c.objs[1].nInt \in Nat /\ c.objs[1].nFloat \in Nat
      BY <3>1, ObjectsOf
    <3>3. If(c.type = GENERIC, SizesWritten(c.objs)) = Sizes(c.objs[1].nInt, c.objs[1].nFloat)
      BY <1>8, <2>2 DEF If, SizesWritten, SizesOf
    <3>4. Layout(Sizes(c.objs[1].nInt, c.objs[1].nFloat))
      BY <3>2, SizesLayouts
    <3>5. BlockOf(c).words = SizesOf(c.objs[1]) \o After(c)
      BY <1>4, <3>3, <3>4 DEF SizesOf
    <3>6. QED
      BY <3>2, <3>5 DEF SizesOf
  <2>3. QED
    BY <2>1, <2>2
<1>9. QED
  BY <1>1, <1>2, <1>3, <1>6, <1>7, <1>8

(***************************************************************************)
(* An LCGenericObject of a fixed size is read by the sizes at the start of *)
(* the block.                                                              *)
(***************************************************************************)
LEMMA ReadsFixed ==
  ASSUME NEW c, GoodCol(c), NEW k \in 1 .. Len(c.objs), NEW t, Layout(t), NEW s,
         c.type = GENERIC, "SUBSET" \notin c.flags, AllFixed(c.objs)
  PROVE  ObjectRead(c.type, BlockOf(c), SubSeq(BlockOf(c).words, 1, 2),
                    [ok |-> TRUE, words |-> ObjectWritten(c, k) \o t, objs |-> s], k)
           = [ok |-> TRUE, words |-> t, objs |-> Append(s, AsRead(c, k))]
<1> DEFINE o == c.objs[k]
           p == c.objs[1]
<1>1. 1 \in 1 .. Len(c.objs)
  BY ObjectsOf
<1>2. /\ o \in Objects /\ p.nInt \in Nat /\ p.nFloat \in Nat /\ c.objs # << >>
      /\ k \in DOMAIN c.objs /\ 1 \in DOMAIN c.objs
  BY <1>1, ObjectsOf
<1>3. SizesOf(o) = SizesOf(p)
  <2>1. c.objs[k].fixed /\ c.objs[1].fixed
    BY <1>2 DEF AllFixed
  <2>2. QED
    BY <1>2, <2>1 DEF GoodCol
<1>4. SubSeq(BlockOf(c).words, 1, 2) = SizesOf(p)
  <2>1. PICK x, y \in Nat : BlockOf(c).words = Sizes(x, y) \o After(c) /\ Sizes(x, y) = SizesOf(p)
    BY <1>2, WordsOfBlock
  <2>2. SubSeq(Sizes(x, y) \o After(c), 1, 2) = Sizes(x, y)
    BY SizesFirst, AfterLayout
  <2>3. QED
    BY <2>1, <2>2
<1>5. Layout(Values(SizesOf(p))) /\ Layout(Values(SizesOf(p)) \o Tag)
  <2>1. Layout(Values(SizesOf(p)))
    BY <1>2, SizesLayouts DEF SizesOf
  <2>2. QED
    BY <2>1, FieldLayouts
<1>6. ObjectWritten(c, k) = Values(SizesOf(p)) \o Tag
  <2>1. ObjectWritten(c, k) = (If(~AllFixed(c.objs), SizesOf(p)) \o Values(SizesOf(p))) \o Tag
    BY DEF ObjectWritten, GenericObjectWritten
  <2>2. If(~AllFixed(c.objs), SizesOf(p)) = << >>
    BY DEF If
  <2>3. << >> \o Values(SizesOf(p)) = Values(SizesOf(p))
    BY <1>5, EmptyLayout
  <2>4. QED
    BY <2>1, <2>2, <2>3
<1>7. GenericOf(o, SizesOf(p), TRUE) = AsRead(c, k)
  <2>1. SizesOf(o)[1][2] = o.nInt /\ SizesOf(o)[2][2] = o.nFloat
    BY DEF SizesOf, Sizes
  <2>2. GenericOf(o, SizesOf(o), TRUE) = [o EXCEPT !.fixed = TRUE]
    <3> DEFINE a == SizesOf(o)
    <3>1. GenericOf(o, a, TRUE) = [o EXCEPT !.nInt = o.nInt, !.nFloat = o.nFloat, !.fixed = TRUE]
      BY <2>1 DEF GenericOf
    <3>2. [o EXCEPT !.nInt = o.nInt, !.nFloat = o.nFloat, !.fixed = TRUE] = [o EXCEPT !.fixed = TRUE]
      BY <1>2 DEF Objects
    <3>3. QED
      BY <3>1, <3>2
  <2>3. AsRead(c, k) = [o EXCEPT !.fixed = TRUE]
    BY DEF AsRead
  <2>4. QED
    BY <1>3, <2>2, <2>3
<1>8. "FIXED" \in BlockOf(c).flags /\ "SUBSET" \notin BlockOf(c).flags /\ BlockOf(c).objs[k] = o
  BY WordsOfBlock
<1> DEFINE r == [ok |-> TRUE, words |-> ObjectWritten(c, k) \o t, objs |-> s]
<1> HIDE DEF o, p
<1>9. ObjectRead(c.type, BlockOf(c), SizesOf(p), r, k)
        = Expect(r, Values(SizesOf(p)) \o Tag, GenericOf(o, SizesOf(p), TRUE))
  BY <1>8 DEF ObjectRead, GenericObjectRead
<1>10. Expect(r, Values(SizesOf(p)) \o Tag, AsRead(c, k))
         = [ok |-> TRUE, words |-> t, objs |-> Append(s, AsRead(c, k))]
  <2> DEFINE l == Values(SizesOf(p)) \o Tag
  <2> HIDE DEF l
  <2>1. Layout(l) /\ r = [ok |-> TRUE, words |-> l \o t, objs |-> s]
    BY <1>5, <1>6 DEF l
  <2>2. Expect([ok |-> TRUE, words |-> l \o t, objs |-> s], l, AsRead(c, k))
          = [ok |-> TRUE, words |-> t, objs |-> Append(s, AsRead(c, k))]
    BY <2>1, SplitConcat DEF Expect
  <2>3. QED
    BY <2>1, <2>2 DEF l
<1> HIDE DEF r
<1>11. ObjectRead(c.type, BlockOf(c), SubSeq(BlockOf(c).words, 1, 2), r, k)
         = [ok |-> TRUE, words |-> t, objs |-> Append(s, AsRead(c, k))]
  BY <1>4, <1>7, <1>9, <1>10
<1>12. QED
  BY <1>11 DEF r

\* Any other one is read by its own sizes.
LEMMA ReadsFree ==
  ASSUME NEW c, GoodCol(c), NEW k \in 1 .. Len(c.objs), NEW t, Layout(t), NEW s,
         c.type = GENERIC, "SUBSET" \notin c.flags, ~AllFixed(c.objs), NEW sizes
  PROVE  ObjectRead(c.type, BlockOf(c), sizes,
                    [ok |-> TRUE, words |-> ObjectWritten(c, k) \o t, objs |-> s], k)
           = [ok |-> TRUE, words |-> t, objs |-> Append(s, AsRead(c, k))]
<1> DEFINE o == c.objs[k]
           own == SizesOf(o)
           r == [ok |-> TRUE, words |-> ObjectWritten(c, k) \o t, objs |-> s]
<1>1. o \in Objects /\ o.nInt \in Nat /\ o.nFloat \in Nat
  BY ObjectsOf
<1>2. own = Sizes(o.nInt, o.nFloat)
  BY DEF SizesOf
<1>3. Layout(own) /\ Layout(Values(own)) /\ Layout(Tag) /\ own[1][2] = o.nInt /\ own[2][2] = o.nFloat
  BY <1>1, <1>2, SizesLayouts, FieldLayouts
<1>4. ObjectWritten(c, k) = (own \o Values(own)) \o Tag
  <2>1. ObjectWritten(c, k) = (If(~AllFixed(c.objs), own) \o Values(own)) \o Tag
    BY DEF ObjectWritten, GenericObjectWritten
  <2>2. If(~AllFixed(c.objs), own) = own
    BY DEF If
  <2>3. QED
    BY <2>1, <2>2
<1> HIDE DEF own
<1>5. Layout(own \o Values(own)) /\ Layout(Values(own) \o Tag)
  BY <1>3, ConcatLayouts
<1>6. Layout((own \o Values(own)) \o Tag) /\ Layout((Values(own) \o Tag) \o t)
  BY <1>3, <1>5, ConcatLayouts
<1>7. ObjectWritten(c, k) \o t = own \o ((Values(own) \o Tag) \o t)
  <2>1. (own \o Values(own)) \o Tag = own \o (Values(own) \o Tag)
    BY <1>3, ConcatLayoutsAssociate
  <2>2. (own \o (Values(own) \o Tag)) \o t = own \o ((Values(own) \o Tag) \o t)
    <3> DEFINE l == Values(own) \o Tag
    <3>1. Layout(l)
      BY <1>5
    <3> HIDE DEF l
    <3>2. (own \o l) \o t = own \o (l \o t)
      BY <1>3, <3>1, ConcatLayoutsAssociate
    <3>3. QED
      BY <3>2 DEF l
  <2>3. QED
    BY <1>4, <2>1, <2>2
<1>8. IsSizes(r.words) /\ SubSeq(r.words, 1, 2) = own
  <2> DEFINE u == (Values(own) \o Tag) \o t
  <2>1. Layout(u) /\ r.words = own \o u
    BY <1>6, <1>7
  <2> HIDE DEF u
  <2>2. IsSizes(Sizes(o.nInt, o.nFloat) \o u) /\ SubSeq(Sizes(o.nInt, o.nFloat) \o u, 1, 2) = Sizes(o.nInt, o.nFloat)
    BY <1>1, <2>1, SizesFirst
  <2>3. QED
    BY <1>2, <2>1, <2>2
<1>9. "FIXED" \notin BlockOf(c).flags /\ "SUBSET" \notin BlockOf(c).flags /\ BlockOf(c).objs[k] = o
  BY WordsOfBlock
<1>10. GenericOf(o, own, FALSE) = AsRead(c, k)
  <2>1. GenericOf(o, own, FALSE) = [o EXCEPT !.nInt = o.nInt, !.nFloat = o.nFloat, !.fixed = FALSE]
    BY <1>3 DEF GenericOf
  <2>2. [o EXCEPT !.nInt = o.nInt, !.nFloat = o.nFloat, !.fixed = FALSE] = [o EXCEPT !.fixed = FALSE]
    BY <1>1 DEF Objects
  <2>3. AsRead(c, k) = [o EXCEPT !.fixed = AllFixed(c.objs)]
    BY DEF AsRead
  <2>4. AllFixed(c.objs) = FALSE
    BY DEF AllFixed
  <2>5. QED
    BY <2>1, <2>2, <2>3, <2>4
<1> HIDE DEF o
<1>11. ObjectRead(c.type, BlockOf(c), sizes, r, k)
         = Expect(r, (own \o Values(own)) \o Tag, GenericOf(o, own, FALSE))
  <2>1. r.ok
    OBVIOUS
  <2> HIDE DEF r
  <2>2. QED
    BY <1>8, <1>9, <2>1 DEF ObjectRead, GenericObjectRead
<1>12. Expect(r, (own \o Values(own)) \o Tag, AsRead(c, k))
         = [ok |-> TRUE, words |-> t, objs |-> Append(s, AsRead(c, k))]
  <2> DEFINE l == (own \o Values(own)) \o Tag
  <2> HIDE DEF l
  <2>1. Layout(l) /\ r = [ok |-> TRUE, words |-> l \o t, objs |-> s]
    BY <1>4, <1>6 DEF l
  <2>2. Expect([ok |-> TRUE, words |-> l \o t, objs |-> s], l, AsRead(c, k))
          = [ok |-> TRUE, words |-> t, objs |-> Append(s, AsRead(c, k))]
    BY <2>1, SplitConcat DEF Expect
  <2>3. QED
    BY <2>1, <2>2 DEF l
<1> HIDE DEF r
<1>13. ObjectRead(c.type, BlockOf(c), sizes, r, k)
         = [ok |-> TRUE, words |-> t, objs |-> Append(s, AsRead(c, k))]
  BY <1>10, <1>11, <1>12
<1>14. QED
  BY <1>13 DEF r

\* Every object is read from where it was written, up to the next one.
LEMMA ReadsOne ==
  ASSUME NEW c, GoodCol(c), NEW k \in 1 .. Len(c.objs), NEW t, Layout(t), NEW s
  PROVE  ObjectRead(c.type, BlockOf(c), SubSeq(BlockOf(c).words, 1, 2),
                    [ok |-> TRUE, words |-> ObjectWritten(c, k) \o t, objs |-> s], k)
           = [ok |-> TRUE, words |-> t, objs |-> Append(s, AsRead(c, k))]
<1> DEFINE o == c.objs[k]
           r == [ok |-> TRUE, words |-> ObjectWritten(c, k) \o t, objs |-> s]
           sizes == SubSeq(BlockOf(c).words, 1, 2)
<1>1. o \in Objects /\ c.objs \in Seq(Objects) /\ k \in DOMAIN c.objs /\ c.type \in AllTypes
  BY ObjectsOf DEF GoodCol
<1>2. BlockOf(c).objs[k] = o /\ BlockOf(c).flags = FlagsWritten(c)
      /\ ("SUBSET" \in FlagsWritten(c) <=> "SUBSET" \in c.flags)
      /\ (c.type # GENERIC => FlagsWritten(c) = c.flags)
  BY WordsOfBlock
<1>3. CASE "SUBSET" \in c.flags
  <2>1. ObjectWritten(c, k) = Pointer("element") /\ AsRead(c, k) = o
    BY <1>3 DEF ObjectWritten, AsRead
  <2>2. ObjectRead(c.type, BlockOf(c), sizes, r, k) = Expect(r, Pointer("element"), o)
    BY <1>2, <1>3 DEF ObjectRead
  <2>3. Layout(Pointer("element"))
    BY FieldLayouts
  <2>4. Expect([ok |-> TRUE, words |-> Pointer("element") \o t, objs |-> s], Pointer("element"), o)
          = [ok |-> TRUE, words |-> t, objs |-> Append(s, o)]
    BY <2>3, SplitConcat DEF Expect
  <2>5. r = [ok |-> TRUE, words |-> Pointer("element") \o t, objs |-> s]
    BY <2>1
  <2> HIDE DEF r, o
  <2>6. ObjectRead(c.type, BlockOf(c), sizes, r, k) = [ok |-> TRUE, words |-> t, objs |-> Append(s, AsRead(c, k))]
    BY <2>1, <2>2, <2>4, <2>5
  <2>7. QED
    BY <2>6 DEF r
<1>4. CASE "SUBSET" \notin c.flags /\ c.type = GENERIC
  <2>1. CASE AllFixed(c.objs)
    BY <1>4, <2>1, ReadsFixed
  <2>2. CASE ~AllFixed(c.objs)
    BY <1>4, <2>2, ReadsFree
  <2>3. QED
    BY <2>1, <2>2
<1>5. CASE "SUBSET" \notin c.flags /\ c.type # GENERIC
  <2>1. c.type \in Types /\ (c.type = "Track" => o.cov = TrackStateCov)
    BY <1>1, <1>5 DEF AllTypes, GoodCol
  <2>2. ObjectWritten(c, k) = Written(c.type, c.flags, o) /\ AsRead(c, k) = o
    BY <1>5 DEF ObjectWritten, AsRead
  <2>3. ReadBack(c.type, c.flags, Current, o) = Written(c.type, c.flags, o)
        /\ Layout(Written(c.type, c.flags, o))
    BY <1>1, <2>1, ReadIsWritten, WrittenIsLayout
  <2>4. (IF c.type = "Vertex" THEN VertexOf(BlockOf(c), k) ELSE BlockOf(c).objs[k]) = o
    <3>1. CASE c.type = "Vertex"
      <4>1. /\ BlockOf(c).algs = Algorithms(c.objs)
            /\ BlockOf(c).index = [i \in 1 .. Len(c.objs) |-> IndexOf(Algorithms(c.objs), c.objs[i].alg)]
        BY <3>1 DEF BlockOf
      <4>2. BlockOf(c).algs[BlockOf(c).index[k]] = o.alg
        BY <1>1, <4>1, AlgorithmKept
      <4>3. [o EXCEPT !.alg = o.alg] = o
        BY <1>1 DEF Objects
      <4>4. QED
        BY <1>2, <3>1, <4>2, <4>3 DEF VertexOf
    <3>2. QED
      BY <1>2, <3>1
  <2>5. ObjectRead(c.type, BlockOf(c), sizes, r, k) = Expect(r, Written(c.type, c.flags, o), o)
    <3>1. ObjectRead(c.type, BlockOf(c), sizes, r, k)
            = Expect(r, ReadBack(c.type, BlockOf(c).flags, Current, BlockOf(c).objs[k]),
                     IF c.type = "Vertex" THEN VertexOf(BlockOf(c), k) ELSE BlockOf(c).objs[k])
      BY <1>2, <1>5 DEF ObjectRead
    <3> HIDE DEF r, o, sizes
    <3>2. BlockOf(c).flags = c.flags
      BY <1>2, <1>5
    <3>3. QED
      BY <1>2, <2>3, <2>4, <3>1, <3>2
  <2> DEFINE l == Written(c.type, c.flags, o)
  <2> HIDE DEF l
  <2>6. Expect([ok |-> TRUE, words |-> l \o t, objs |-> s], l, o)
          = [ok |-> TRUE, words |-> t, objs |-> Append(s, o)]
    BY <2>3, SplitConcat DEF l, Expect
  <2>7. r = [ok |-> TRUE, words |-> l \o t, objs |-> s]
    BY <2>2 DEF l
  <2> HIDE DEF r, o
  <2>8. ObjectRead(c.type, BlockOf(c), sizes, r, k) = [ok |-> TRUE, words |-> t, objs |-> Append(s, AsRead(c, k))]
    BY <2>2, <2>5, <2>6, <2>7 DEF l
  <2>9. QED
    BY <2>8 DEF r
<1>6. QED
  BY <1>3, <1>4, <1>5

\* The objects up to k are those before it, and the one at k.
LEMMA AppendRead ==
  ASSUME NEW c, GoodCol(c), NEW k \in 1 .. Len(c.objs)
  PROVE  Append([i \in 1 .. k - 1 |-> AsRead(c, i)], AsRead(c, k)) = [i \in 1 .. k |-> AsRead(c, i)]
<1> DEFINE s == [i \in 1 .. k - 1 |-> AsRead(c, i)]
           X == {AsRead(c, i) : i \in 1 .. k}
           u == [i \in 1 .. k |-> AsRead(c, i)]
<1>1. k \in Nat /\ k - 1 \in Nat /\ k \in 1 .. k
  BY ObjectsOf
<1>2. s \in Seq(X) /\ AsRead(c, k) \in X /\ Len(s) = k - 1 /\ u \in Seq(X) /\ Len(u) = k
  <2>1. \A i \in 1 .. k : AsRead(c, i) \in X
    OBVIOUS
  <2>2. \A i \in 1 .. k - 1 : i \in 1 .. k
    BY <1>1
  <2> HIDE DEF X
  <2>3. s \in [1 .. k - 1 -> X] /\ u \in [1 .. k -> X]
    BY <2>1, <2>2
  <2> HIDE DEF s, u
  <2>4. DOMAIN s = 1 .. k - 1 /\ DOMAIN u = 1 .. k /\ s \in Seq(X) /\ u \in Seq(X)
    BY <1>1, <2>3
  <2>5. Len(s) = k - 1 /\ Len(u) = k
    BY <1>1, <2>3, <2>4, LenProperties
  <2>6. QED
    BY <1>1, <2>1, <2>4, <2>5
<1>3. \A i \in 1 .. k - 1 : s[i] = AsRead(c, i)
  OBVIOUS
<1>4. \A i \in 1 .. k : u[i] = AsRead(c, i)
  OBVIOUS
<1> HIDE DEF s, X, u
<1> DEFINE w == Append(s, AsRead(c, k))
<1>5. /\ w \in Seq(X) /\ Len(w) = (k - 1) + 1
      /\ \A i \in 1 .. k : w[i] = IF i <= k - 1 THEN s[i] ELSE AsRead(c, k)
  <2>1. /\ w \in Seq(X) /\ Len(w) = Len(s) + 1
        /\ \A i \in 1 .. Len(s) : w[i] = s[i]
        /\ w[Len(s) + 1] = AsRead(c, k)
    BY <1>2, AppendProperties
  <2> HIDE DEF w
  <2>2. \A i \in 1 .. k : i <= k - 1 => i \in 1 .. Len(s)
    BY <1>1, <1>2
  <2>3. \A i \in 1 .. k : ~(i <= k - 1) => i = Len(s) + 1
    BY <1>1, <1>2
  <2>4. QED
    BY <1>2, <2>1, <2>2, <2>3
<1> HIDE DEF w
<1>6. \A i \in 1 .. k : w[i] = u[i]
  <2>1. ASSUME NEW i \in 1 .. k PROVE w[i] = u[i]
    <3>1. i <= k - 1 => i \in 1 .. k - 1
      BY <1>1
    <3>2. ~(i <= k - 1) => i = k
      BY <1>1
    <3>3. QED
      BY <1>3, <1>4, <1>5, <3>1, <3>2
  <2>2. QED
    BY <2>1
<1>7. Len(w) = k
  BY <1>1, <1>5
<1>8. w = u
  BY <1>2, <1>5, <1>6, <1>7, SeqEqual
<1>9. QED
  BY <1>8 DEF w, u, s

\* The number of objects is found, and their words behind it.
LEMMA StartOfBlock ==
  ASSUME NEW c, GoodCol(c)
  PROVE  LET b == BlockOf(c)
             head == c.type = GENERIC /\ "FIXED" \in b.flags
             wrong == head /\ ~IsSizes(b.words)
             words == IF head THEN Rest(b.words, 2) ELSE b.words
         IN  (IF wrong \/ words = << >> \/ words[1][1] # "nObj" THEN Misread
              ELSE [ok |-> TRUE, words |-> Rest(words, 1), objs |-> << >>])
             = [ok |-> TRUE, words |-> FlattenSeq(ObjectWords(c)), objs |-> << >>]
<1> DEFINE b == BlockOf(c)
           head == c.type = GENERIC /\ "FIXED" \in b.flags
           wrong == head /\ ~IsSizes(b.words)
           words == IF head THEN Rest(b.words, 2) ELSE b.words
<1>1. head <=> c.type = GENERIC /\ AllFixed(c.objs)
  BY WordsOfBlock
<1>2. ~wrong /\ words = After(c)
  <2>1. CASE c.type = GENERIC /\ AllFixed(c.objs)
    <3>1. PICK x, y \in Nat : b.words = Sizes(x, y) \o After(c)
      BY <2>1, WordsOfBlock
    <3>2. Layout(After(c))
      BY AfterLayout
    <3>3. IsSizes(Sizes(x, y) \o After(c)) /\ Rest(Sizes(x, y) \o After(c), 2) = After(c)
      BY <3>1, <3>2, SizesFirst
    <3>4. QED
      BY <1>1, <2>1, <3>1, <3>3
  <2>2. CASE ~(c.type = GENERIC /\ AllFixed(c.objs))
    <3>1. b.words = After(c)
      BY <2>2, WordsOfBlock
    <3>2. QED
      BY <1>1, <2>2, <3>1
  <2>3. QED
    BY <2>1, <2>2
<1> HIDE DEF b, head, wrong, words
<1>3. words # << >> /\ words[1][1] = "nObj" /\ Rest(words, 1) = FlattenSeq(ObjectWords(c))
  BY <1>2, AfterLayout
<1>4. (IF wrong \/ words = << >> \/ words[1][1] # "nObj" THEN Misread
       ELSE [ok |-> TRUE, words |-> Rest(words, 1), objs |-> << >>])
      = [ok |-> TRUE, words |-> FlattenSeq(ObjectWords(c)), objs |-> << >>]
  BY <1>2, <1>3
<1>5. QED
  BY <1>4 DEF b, head, wrong, words

(***************************************************************************)
(* SIOCollectionHandler::xfer reads the block of any collection to its end *)
(* and no further, with the handler of its type, and gives back its        *)
(* objects: however many there are, of whatever shapes, for every flag     *)
(* word. The collection obeys what LCIO.aid says of fixed sizes (GoodCol). *)
(***************************************************************************)
THEOREM UnpacksAll ==
  ASSUME NEW c, GoodCol(c)
  PROVE  Unpacked(c.type, BlockOf(c)) = [ok |-> TRUE, words |-> << >>, objs |-> AsReads(c)]
<1> DEFINE b == BlockOf(c)
           n == Len(c.objs)
           sizes == SubSeq(b.words, 1, 2)
           start == [ok |-> TRUE, words |-> FlattenSeq(ObjectWords(c)), objs |-> << >>]
           Eq(f) == f = [i \in 0 .. n |-> IF i = 0 THEN start
                                          ELSE ObjectRead(c.type, b, sizes, f[i - 1], i)]
           after == CHOOSE f : Eq(f)
<1>1. Unpacked(c.type, b) = after[n]
  <2>1. b.objs = c.objs
    BY WordsOfBlock
  <2> DEFINE head == c.type = GENERIC /\ "FIXED" \in b.flags
             wrong == head /\ ~IsSizes(b.words)
             words == IF head THEN Rest(b.words, 2) ELSE b.words
             start1 == IF wrong \/ words = << >> \/ words[1][1] # "nObj" THEN Misread
                       ELSE [ok |-> TRUE, words |-> Rest(words, 1), objs |-> << >>]
  <2>2. start1 = start
    BY StartOfBlock
  <2>3. Unpacked(c.type, b) = (CHOOSE f : f = [i \in 0 .. Len(b.objs) |->
                                 IF i = 0 THEN start1
                                 ELSE ObjectRead(c.type, b, sizes, f[i - 1], i)])[Len(b.objs)]
    BY DEF Unpacked
  <2> HIDE DEF start1, start, b, sizes
  <2>4. QED
    BY <2>1, <2>2, <2>3
<1>2. n \in Nat
  BY ObjectsOf
<1>3. \E W : /\ W[0] = FlattenSeq(ObjectWords(c)) /\ W[n] = << >>
             /\ \A k \in 1 .. n : W[k - 1] = ObjectWritten(c, k) \o W[k] /\ Layout(W[k])
  <2>1. CASE n = 0
    <3>1. ObjectWords(c) = << >> /\ Len(ObjectWords(c)) = 0
      BY <2>1 DEF ObjectWords
    <3>2. FlattenSeq(ObjectWords(c)) = << >>
      BY <3>1 DEF FlattenSeq
    <3> DEFINE W == [i \in 0 .. 0 |-> << >>]
    <3>3. W[0] = FlattenSeq(ObjectWords(c)) /\ W[n] = << >>
      BY <2>1, <3>2
    <3> HIDE DEF W
    <3>4. \A k \in 1 .. n : FALSE
      BY <2>1
    <3>5. QED
      BY <3>3, <3>4
  <2>2. CASE n # 0
    <3>1. PICK X, F : /\ ObjectWords(c) \in [1 .. n -> Seq(X)]
                      /\ Flattens(F, ObjectWords(c), n, X) /\ FlattenSeq(ObjectWords(c)) = F[n]
      BY <2>2, ObjectWordsFlatten
    <3>2. n \in Nat \ {0}
      BY <1>2, <2>2
    <3> HIDE DEF n
    <3>3. PICK W : Tails(W, F, ObjectWords(c), n, X)
      BY <3>1, <3>2, FlattenTails
    <3>4. ASSUME NEW k \in 1 .. n PROVE Layout(W[k])
      <4>1. W[k] \in Seq(X)
        BY <1>2, <3>3 DEF Tails
      <4>2. QED
        BY <4>1 DEF Layout
    <3>5. \A k \in 1 .. n : ObjectWords(c)[k] = ObjectWritten(c, k)
      BY DEF ObjectWords, n
    <3>6. QED
      BY <3>1, <3>3, <3>4, <3>5 DEF Tails
  <2>3. QED
    BY <2>1, <2>2
<1>4. PICK W : /\ W[0] = FlattenSeq(ObjectWords(c)) /\ W[n] = << >>
               /\ \A k \in 1 .. n : W[k - 1] = ObjectWritten(c, k) \o W[k] /\ Layout(W[k])
  BY <1>3
<1> DEFINE Objs(k) == [i \in 1 .. k |-> AsRead(c, i)]
           State(k) == [ok |-> TRUE, words |-> W[k], objs |-> Objs(k)]
           R == [k \in 0 .. n |-> State(k)]
<1>5. ASSUME NEW k \in 1 .. n
      PROVE  ObjectRead(c.type, b, sizes, State(k - 1), k) = State(k)
  <2>1. State(k - 1) = [ok |-> TRUE, words |-> ObjectWritten(c, k) \o W[k], objs |-> Objs(k - 1)]
    BY <1>4
  <2>2. Append(Objs(k - 1), AsRead(c, k)) = Objs(k)
    BY AppendRead
  <2>3. Layout(W[k])
    BY <1>4
  <2> DEFINE s == Objs(k - 1)
             t == W[k]
  <2>4. ObjectRead(c.type, b, sizes, [ok |-> TRUE, words |-> ObjectWritten(c, k) \o t, objs |-> s], k)
          = [ok |-> TRUE, words |-> t, objs |-> Append(s, AsRead(c, k))]
    <3> HIDE DEF s, t
    <3>1. Layout(t)
      BY <2>3 DEF t
    <3>2. QED
      BY <3>1, ReadsOne
  <2>5. QED
    BY <2>1, <2>2, <2>4
<1>6. State(0) = start
  <2>1. Objs(0) = << >>
    OBVIOUS
  <2>2. QED
    BY <1>4, <2>1
<1> HIDE DEF State
<1>7. Eq(R)
  <2>1. ASSUME NEW i \in 0 .. n
        PROVE  R[i] = IF i = 0 THEN start ELSE ObjectRead(c.type, b, sizes, R[i - 1], i)
    <3>1. CASE i = 0
      BY <1>6, <3>1
    <3>2. CASE i # 0
      <4>1. i \in 1 .. n /\ i - 1 \in 0 .. n
        BY <1>2, <3>2
      <4>2. R[i] = State(i) /\ R[i - 1] = State(i - 1)
        BY <4>1
      <4>3. QED
        BY <1>5, <3>2, <4>1, <4>2
    <3>3. QED
      BY <3>1, <3>2
  <2>2. R = [i \in 0 .. n |-> R[i]]
    OBVIOUS
  <2> HIDE DEF R, start, b, sizes
  <2>3. QED
    BY <2>1, <2>2
<1>8. Eq(after)
  <2> HIDE DEF Eq
  <2>1. QED
    BY <1>7
<1>9. after[0] = start /\ \A k \in 1 .. n : after[k] = ObjectRead(c.type, b, sizes, after[k - 1], k)
  <2>1. \A k \in 0 .. n : after[k] = IF k = 0 THEN start ELSE ObjectRead(c.type, b, sizes, after[k - 1], k)
    <3> HIDE DEF after, start, b, sizes
    <3>1. QED
      BY <1>8
  <2> HIDE DEF after, start, b, sizes
  <2>2. 0 \in 0 .. n /\ \A k \in 1 .. n : k \in 0 .. n /\ k # 0
    BY <1>2
  <2>3. QED
    BY <2>1, <2>2
<1> HIDE DEF after, Eq
<1>10. after[n] = State(n)
  <2>1. CASE n = 0
    BY <1>6, <1>9, <2>1
  <2>2. CASE n # 0
    <3> DEFINE T == {k \in 1 .. n : after[k] = State(k)}
    <3>1. ASSUME NEW k \in 1 .. n, k = 1 \/ k - 1 \in T PROVE k \in T
      <4>1. after[k - 1] = State(k - 1)
        <5>1. CASE k = 1
          <6>1. k - 1 = 0
            BY <5>1
          <6>2. QED
            BY <1>6, <1>9, <6>1
        <5>2. CASE k - 1 \in T
          BY <5>2
        <5>3. QED
          BY <3>1, <5>1, <5>2
      <4>2. after[k] = State(k)
        <5>1. ObjectRead(c.type, b, sizes, State(k - 1), k) = State(k)
          BY <1>5
        <5>2. after[k] = ObjectRead(c.type, b, sizes, after[k - 1], k)
          BY <1>9
        <5> HIDE DEF b, sizes, T
        <5>3. QED
          BY <4>1, <5>1, <5>2
      <4>3. QED
        BY <4>2
    <3> HIDE DEF T
    <3>2. 1 .. n \subseteq T
      BY <1>2, <3>1, UpToInduction
    <3>3. n \in 1 .. n
      BY <1>2, <2>2
    <3>4. QED
      BY <3>2, <3>3 DEF T
  <2>3. QED
    BY <2>1, <2>2
<1>11. State(n) = [ok |-> TRUE, words |-> << >>, objs |-> AsReads(c)]
  BY <1>4 DEF State, AsReads
<1>12. QED
  BY <1>1, <1>10, <1>11

-----------------------------------------------------------------------------
(* Writing again what was read. *)

(***************************************************************************)
(* The collection that is read from the block of a collection.             *)
(***************************************************************************)
Reread(c) == [c EXCEPT !.flags = FlagsWritten(c), !.objs = AsReads(c)]

(***************************************************************************)
(* What the object at i keeps.                                             *)
(***************************************************************************)
Kept(c, i) ==
  /\ AsRead(c, i) \in Objects
  /\ AsRead(c, i).alg = c.objs[i].alg /\ AsRead(c, i).cov = c.objs[i].cov
  /\ SizesOf(AsRead(c, i)) = SizesOf(c.objs[i])
  /\ [AsRead(c, i) EXCEPT !.fixed = c.objs[i].fixed] = c.objs[i]
  /\ AsRead(c, i).fixed = IF c.type = GENERIC /\ "SUBSET" \notin c.flags
                            THEN AllFixed(c.objs) ELSE c.objs[i].fixed
  /\ c.type # GENERIC => AsRead(c, i) = c.objs[i]

\* What an object keeps on its way through a file, one field at a time.
LEMMA AsReadKeeps ==
  ASSUME NEW c, GoodCol(c), NEW i \in 1 .. Len(c.objs)
  PROVE  Kept(c, i)
<1>1. c.objs[i] \in Objects
  BY ObjectsOf
<1>2. AllFixed(c.objs) \in BOOLEAN
  BY DEF AllFixed
<1> DEFINE o == c.objs[i]
<1>3. \A b \in BOOLEAN : /\ [o EXCEPT !.fixed = b] \in Objects
                         /\ [o EXCEPT !.fixed = b].alg = o.alg /\ [o EXCEPT !.fixed = b].cov = o.cov
                         /\ [o EXCEPT !.fixed = b].nInt = o.nInt /\ [o EXCEPT !.fixed = b].nFloat = o.nFloat
                         /\ [[o EXCEPT !.fixed = b] EXCEPT !.fixed = o.fixed] = o
                         /\ [o EXCEPT !.fixed = b].fixed = b
  BY <1>1 DEF Objects
<1>4. [o EXCEPT !.fixed = o.fixed] = o
  BY <1>1 DEF Objects
<1>5. CASE c.type = GENERIC /\ "SUBSET" \notin c.flags
  <2> DEFINE b == AllFixed(c.objs)
  <2>1. AsRead(c, i) = [o EXCEPT !.fixed = b]
    BY <1>5 DEF AsRead
  <2> HIDE DEF o, b
  <2>2. QED
    BY <1>2, <1>3, <1>5, <2>1 DEF SizesOf, Kept, o, b
<1>6. CASE ~(c.type = GENERIC /\ "SUBSET" \notin c.flags)
  <2>1. AsRead(c, i) = o
    BY <1>6 DEF AsRead
  <2> HIDE DEF o
  <2>2. QED
    BY <1>1, <1>4, <1>6, <2>1 DEF Kept, o
<1>7. QED
  BY <1>5, <1>6

\* The same, for the provers.
LEMMA AsReadFields ==
  ASSUME NEW c, GoodCol(c), NEW i \in 1 .. Len(c.objs)
  PROVE  /\ AsRead(c, i) \in Objects
         /\ AsRead(c, i).alg = c.objs[i].alg
         /\ AsRead(c, i).cov = c.objs[i].cov
         /\ SizesOf(AsRead(c, i)) = SizesOf(c.objs[i])
         /\ c.type = GENERIC /\ "SUBSET" \notin c.flags => AsRead(c, i).fixed = AllFixed(c.objs)
         /\ ~(c.type = GENERIC /\ "SUBSET" \notin c.flags) => AsRead(c, i).fixed = c.objs[i].fixed
         /\ c.type # GENERIC => AsRead(c, i) = c.objs[i]
<1>1. Kept(c, i)
  BY AsReadKeeps
<1>2. QED
  BY <1>1 DEF Kept

(***************************************************************************)
(* The objects that are read all have a fixed size if those that were      *)
(* written all had.                                                        *)
(***************************************************************************)
LEMMA AllFixedAgain ==
  ASSUME NEW c, GoodCol(c)
  PROVE  /\ Len(AsReads(c)) = Len(c.objs) /\ DOMAIN AsReads(c) = 1 .. Len(c.objs)
         /\ AsReads(c) \in Seq(Objects)
         /\ AllFixed(AsReads(c)) <=> AllFixed(c.objs)
         /\ AsReads(c) = << >> <=> c.objs = << >>
<1> DEFINE n == Len(c.objs)
           s == AsReads(c)
<1>1. n \in Nat /\ DOMAIN c.objs = 1 .. n /\ c.objs \in Seq(Objects)
  BY ObjectsOf DEF GoodCol
<1>2. DOMAIN s = 1 .. n /\ s = [i \in 1 .. n |-> s[i]] /\ \A i \in 1 .. n : s[i] = AsRead(c, i)
  BY DEF AsReads
<1> HIDE DEF s
<1>3. \A i \in 1 .. n : s[i] \in Objects
  BY <1>2, AsReadFields
<1>4. s \in Seq(Objects) /\ Len(s) = n
  <2> HIDE DEF n
  <2>1. s \in [1 .. n -> Objects]
    BY <1>2, <1>3
  <2>2. s \in Seq(Objects)
    BY <1>1, <2>1
  <2>3. QED
    BY <1>1, <1>2, <2>2, LenProperties
<1>5. AllFixed(s) <=> AllFixed(c.objs)
  <2>1. CASE c.type = GENERIC /\ "SUBSET" \notin c.flags
    <3>1. \A i \in 1 .. n : s[i].fixed = AllFixed(c.objs)
      BY <1>2, <2>1, AsReadFields
    <3>2. QED
      <4> HIDE DEF n
      <4>1. CASE n = 0
        <5>1. \A i \in 1 .. n : FALSE
          BY <4>1
        <5>2. QED
          BY <1>1, <1>2, <5>1 DEF AllFixed
      <4>2. CASE n # 0
        <5>1. 1 \in 1 .. n
          BY <1>1, <4>2
        <5>2. AllFixed(s) <=> \A i \in 1 .. n : s[i].fixed
          BY <1>2 DEF AllFixed
        <5>3. QED
          BY <3>1, <5>1, <5>2
      <4>3. QED
        BY <4>1, <4>2
  <2>2. CASE ~(c.type = GENERIC /\ "SUBSET" \notin c.flags)
    <3>1. \A i \in 1 .. n : s[i].fixed = c.objs[i].fixed
      BY <1>2, <2>2, AsReadFields
    <3>2. QED
      BY <1>1, <1>2, <3>1 DEF AllFixed
  <2>3. QED
    BY <2>1, <2>2
<1>6. s = << >> <=> c.objs = << >>
  BY <1>1, <1>4, EmptySeq
<1>7. QED
  BY <1>2, <1>4, <1>5, <1>6 DEF s

(***************************************************************************)
(* A collection that was read obeys the rules of fixed sizes, so that it   *)
(* can be written again.                                                   *)
(***************************************************************************)
LEMMA RereadIsGood ==
  ASSUME NEW c, GoodCol(c)
  PROVE  GoodCol(Reread(c))
<1> DEFINE d == Reread(c)
           s == AsReads(c)
<1>1. c = [type |-> c.type, flags |-> c.flags, objs |-> c.objs]
  BY DEF GoodCol
<1>2. d = [type |-> c.type, flags |-> FlagsWritten(c), objs |-> s]
  <2> DEFINE fw == FlagsWritten(c)
  <2>1. d = [c EXCEPT !.flags = fw, !.objs = s]
    BY DEF Reread
  <2> HIDE DEF fw, s, d
  <2>2. c \in [type : {c.type}, flags : {c.flags, fw}, objs : {c.objs, s}]
    BY <1>1
  <2>3. d \in [type : {c.type}, flags : {c.flags, fw}, objs : {c.objs, s}] /\ d.flags = fw /\ d.objs = s
    BY <2>1, <2>2
  <2>4. d \in [type : {c.type}, flags : {fw}, objs : {s}]
    BY <2>3
  <2>5. QED
    BY <2>4 DEF fw
<1>3. c.type \in AllTypes /\ FlagsWritten(c) \subseteq FlagBits(c.type) \cup {"SUBSET", "FIXED"}
  BY DEF GoodCol, FlagsWritten
<1>4. "FIXED" \in FlagsWritten(c) => c.type = GENERIC /\ AllFixed(s)
  BY AllFixedAgain DEF GoodCol, FlagsWritten
<1>5. Len(s) <= MaxObjects /\ s \in Seq(Objects) /\ DOMAIN s = 1 .. Len(c.objs)
  BY AllFixedAgain DEF GoodCol
<1>6. \A i \in 1 .. Len(c.objs) : s[i] = AsRead(c, i)
  BY DEF AsReads
<1>7. c.type = "Track" => \A i \in DOMAIN s : s[i].cov = TrackStateCov
  <2>1. c.type = "Track" => \A i \in 1 .. Len(c.objs) : c.objs[i].cov = TrackStateCov
    BY ObjectsOf DEF GoodCol
  <2>2. QED
    BY <1>5, <1>6, <2>1, AsReadFields
<1>8. ASSUME c.type = GENERIC, NEW i \in DOMAIN s, NEW j \in DOMAIN s, s[i].fixed, s[j].fixed
      PROVE  SizesOf(s[i]) = SizesOf(s[j])
  <2>1. i \in 1 .. Len(c.objs) /\ j \in 1 .. Len(c.objs)
    BY <1>5
  <2>2. SizesOf(s[i]) = SizesOf(c.objs[i]) /\ SizesOf(s[j]) = SizesOf(c.objs[j])
    BY <1>6, <2>1, AsReadFields
  <2>3. c.objs[i].fixed /\ c.objs[j].fixed
    <3>1. CASE "SUBSET" \notin c.flags
      <4>1. AllFixed(c.objs)
        BY <1>6, <1>8, <2>1, <3>1, AsReadFields
      <4>2. QED
        BY <2>1, <4>1, ObjectsOf DEF AllFixed
    <3>2. CASE "SUBSET" \in c.flags
      BY <1>6, <1>8, <2>1, <3>2, AsReadFields
    <3>3. QED
      BY <3>1, <3>2
  <2>4. i \in DOMAIN c.objs /\ j \in DOMAIN c.objs
    BY <2>1, ObjectsOf
  <2>5. QED
    BY <1>8, <2>2, <2>3, <2>4 DEF GoodCol
<1> HIDE DEF d, s
<1>9. QED
  BY <1>2, <1>3, <1>4, <1>5, <1>7, <1>8 DEF GoodCol, d

(***************************************************************************)
(* What was read and is written again makes the same block.                *)
(***************************************************************************)
THEOREM SameBlockAgain ==
  ASSUME NEW c, GoodCol(c)
  PROVE  LET again == BlockOf(Reread(c))
             first == BlockOf(c)
         IN  /\ again.flags = first.flags /\ again.words = first.words
             /\ again.algs = first.algs /\ again.index = first.index
<1> DEFINE d == Reread(c)
           s == AsReads(c)
           n == Len(c.objs)
<1>1. c = [type |-> c.type, flags |-> c.flags, objs |-> c.objs]
  BY DEF GoodCol
<1>2. d.type = c.type /\ d.flags = FlagsWritten(c) /\ d.objs = s
  BY <1>1 DEF Reread
<1>3. Len(s) = n /\ DOMAIN s = 1 .. n /\ (AllFixed(s) <=> AllFixed(c.objs)) /\ (s = << >> <=> c.objs = << >>)
  BY AllFixedAgain
<1>4. n \in Nat /\ DOMAIN c.objs = 1 .. n /\ \A i \in 1 .. n : s[i] = AsRead(c, i)
  BY ObjectsOf DEF AsReads
<1> HIDE DEF d, s
<1>5. \A i \in 1 .. n : /\ s[i].alg = c.objs[i].alg /\ SizesOf(s[i]) = SizesOf(c.objs[i])
                        /\ c.type # GENERIC => s[i] = c.objs[i]
  BY <1>4, AsReadFields
<1>6. AllFixed(s) = AllFixed(c.objs)
  BY <1>3 DEF AllFixed
<1>7. FlagsWritten(d) = FlagsWritten(c)
  <2>1. CASE c.type = GENERIC /\ AllFixed(c.objs)
    BY <1>2, <1>6, <2>1 DEF FlagsWritten
  <2>2. CASE ~(c.type = GENERIC /\ AllFixed(c.objs))
    BY <1>2, <1>6, <2>2 DEF FlagsWritten
  <2>3. QED
    BY <2>1, <2>2
<1>8. SizesWritten(s) = SizesWritten(c.objs)
  <2>1. CASE c.objs = << >>
    BY <1>3, <1>6, <2>1 DEF SizesWritten
  <2>2. CASE c.objs # << >>
    <3>1. 1 \in 1 .. n
      BY <1>4, <2>2, EmptySeq DEF GoodCol
    <3>2. QED
      BY <1>3, <1>5, <1>6, <2>2, <3>1 DEF SizesWritten
  <2>3. QED
    BY <2>1, <2>2
<1>9. ASSUME NEW i \in 1 .. n PROVE ObjectWritten(d, i) = ObjectWritten(c, i)
  <2>1. "SUBSET" \in d.flags <=> "SUBSET" \in c.flags
    BY <1>2, WordsOfBlock
  <2>2. CASE "SUBSET" \in c.flags
    BY <2>1, <2>2 DEF ObjectWritten
  <2>3. CASE "SUBSET" \notin c.flags /\ c.type = GENERIC
    <3>1. 1 \in 1 .. n
      BY <1>4
    <3>2. SizesOf(s[1]) = SizesOf(c.objs[1]) /\ SizesOf(s[i]) = SizesOf(c.objs[i])
      BY <1>5, <3>1
    <3>3. GenericObjectWritten(s, i) = GenericObjectWritten(c.objs, i)
      BY <1>6, <3>2 DEF GenericObjectWritten
    <3>4. QED
      BY <1>2, <2>1, <2>3, <3>3 DEF ObjectWritten
  <2>4. CASE "SUBSET" \notin c.flags /\ c.type # GENERIC
    <3>1. d.flags = c.flags /\ s[i] = c.objs[i]
      BY <1>2, <1>5, <2>4, WordsOfBlock
    <3>2. QED
      BY <1>2, <2>4, <3>1 DEF ObjectWritten
  <2>5. QED
    BY <2>2, <2>3, <2>4
<1>10. {s[i].alg : i \in 1 .. n} = {c.objs[i].alg : i \in 1 .. n}
  BY <1>5
<1>11. Algorithms(s) = Algorithms(c.objs)
  BY <1>3, <1>4, <1>10 DEF Algorithms
<1>12. BlockOf(d).flags = BlockOf(c).flags /\ BlockOf(d).algs = BlockOf(c).algs
  BY <1>2, <1>7, <1>11 DEF BlockOf
<1>13. BlockOf(d).words = BlockOf(c).words
  <2>1. [i \in 1 .. n |-> ObjectWritten(d, i)] = [i \in 1 .. n |-> ObjectWritten(c, i)]
    BY <1>9
  <2>2. BlockOf(d).words = If(d.type = GENERIC, SizesWritten(d.objs)) \o <<<<"nObj", Len(d.objs)>>>>
                           \o FlattenSeq([i \in 1 .. Len(d.objs) |-> ObjectWritten(d, i)])
    BY DEF BlockOf
  <2>3. BlockOf(c).words = If(c.type = GENERIC, SizesWritten(c.objs)) \o <<<<"nObj", n>>>>
                           \o FlattenSeq([i \in 1 .. n |-> ObjectWritten(c, i)])
    BY DEF BlockOf
  <2>4. QED
    BY <1>2, <1>3, <1>8, <2>1, <2>2, <2>3
<1>14. BlockOf(d).index = BlockOf(c).index
  <2> DEFINE algs == Algorithms(c.objs)
  <2>1. [i \in 1 .. n |-> IndexOf(algs, s[i].alg)] = [i \in 1 .. n |-> IndexOf(algs, c.objs[i].alg)]
    BY <1>5
  <2>2. BlockOf(d).index = IF c.type = "Vertex" THEN [i \in 1 .. n |-> IndexOf(algs, s[i].alg)] ELSE << >>
    BY <1>2, <1>3, <1>11 DEF BlockOf
  <2>3. BlockOf(c).index = IF c.type = "Vertex" THEN [i \in 1 .. n |-> IndexOf(algs, c.objs[i].alg)] ELSE << >>
    BY DEF BlockOf
  <2>4. QED
    BY <2>1, <2>2, <2>3
<1>15. QED
  BY <1>12, <1>13, <1>14 DEF d

-----------------------------------------------------------------------------
(* The specification. *)

(***************************************************************************)
(* The invariant: the collection in memory obeys the rules of LCIO.aid for *)
(* fixed sizes, a block on the file is that of the collection, and what    *)
(* was read is what was written and makes the same block.                  *)
(***************************************************************************)
BlockInv ==
  /\ phase \in {"memory", "written", "read"} /\ writes \in 0 .. MaxWrites
  /\ GoodCol(col)
  /\ DOMAIN block = DOMAIN NoBlock
  /\ phase = "written" => block = BlockOf(col)
  /\ ReadsWhatWasWritten
  /\ RewriteStable

\* A block has the fields of one.
LEMMA BlockDomain == \A c : DOMAIN BlockOf(c) = DOMAIN NoBlock
BY DEF BlockOf, NoBlock

\* The bit for fixed sizes is none of those that a handler looks at.
LEMMA FlagBitsFree ==
  ASSUME NEW type \in AllTypes
  PROVE  "FIXED" \notin FlagBits(type)
BY DEF AllTypes, Types, GENERIC, FlagBits

\* A new collection obeys the rules.
LEMMA BlockInit ==
  ASSUME Init
  PROVE  BlockInv
<1>1. PICK type \in AllTypes : \E flags \in SUBSET (FlagBits(type) \cup {"SUBSET"}) :
        col = [type |-> type, flags |-> flags, objs |-> << >>]
  BY DEF Init
<1>2. PICK flags \in SUBSET (FlagBits(type) \cup {"SUBSET"}) :
        col = [type |-> type, flags |-> flags, objs |-> << >>]
  BY <1>1
<1>3. << >> \in Seq(Objects) /\ Len(<< >>) = 0 /\ 0 <= MaxObjects /\ \A i \in DOMAIN << >> : FALSE
  BY BlockAssumption, EmptySeq
<1>4. "FIXED" \notin flags
  BY FlagBitsFree
<1>5. GoodCol(col)
  <2>1. col = [type |-> col.type, flags |-> col.flags, objs |-> col.objs]
        /\ col.type = type /\ col.flags = flags /\ col.objs = << >>
    BY <1>2
  <2>2. flags \subseteq FlagBits(type) \cup {"SUBSET", "FIXED"}
    OBVIOUS
  <2>3. QED
    BY <1>3, <1>4, <2>1, <2>2 DEF GoodCol
<1>6. phase = "memory" /\ block = NoBlock /\ writes \in 0 .. MaxWrites
  BY BlockAssumption DEF Init
<1>7. QED
  BY <1>5, <1>6 DEF BlockInv, ReadsWhatWasWritten, RewriteStable

\* setFlag keeps the rules: only writing sets the bit for fixed sizes.
LEMMA SetFlagKeeps ==
  ASSUME BlockInv, SetFlag
  PROVE  GoodCol(col') /\ Changed(col')
<1>1. PICK flags \in SUBSET (FlagBits(col.type) \cup {"SUBSET"} \cup (col.flags \cap {"FIXED"})) :
        Changed([col EXCEPT !.flags = flags])
  BY DEF SetFlag
<1>2. col' = [col EXCEPT !.flags = flags] /\ Changed(col')
  BY <1>1 DEF Changed
<1>3. GoodCol(col)
  BY DEF BlockInv
<1>4. PICK a, b, e : col = [type |-> a, flags |-> b, objs |-> e]
  BY <1>3 DEF GoodCol
<1>5. col' = [type |-> a, flags |-> flags, objs |-> e]
      /\ col.type = a /\ col.flags = b /\ col.objs = e
  BY <1>2, <1>4
<1>6. col' = [type |-> col'.type, flags |-> col'.flags, objs |-> col'.objs]
      /\ col'.type = a /\ col'.flags = flags /\ col'.objs = e
  BY <1>5
<1>7. "FIXED" \in flags => "FIXED" \in b
  BY <1>3, <1>5, FlagBitsFree DEF GoodCol
<1>8. flags \subseteq FlagBits(a) \cup {"SUBSET", "FIXED"}
  BY <1>5
<1>9. QED
  BY <1>2, <1>3, <1>5, <1>6, <1>7, <1>8 DEF GoodCol

\* addElement keeps the rules, for an element that fits in.
LEMMA AddElementKeeps ==
  ASSUME ~MixedSizes, BlockInv, AddElement
  PROVE  GoodCol(col') /\ Changed(col')
<1>1. PICK o \in Shapes(col.type) : FitsIn(o, col) /\ Changed([col EXCEPT !.objs = Append(@, o)])
  BY DEF AddElement
<1>2. GoodCol(col) /\ Len(col.objs) < MaxObjects
  BY DEF BlockInv, AddElement
<1>3. PICK a, b, e : col = [type |-> a, flags |-> b, objs |-> e]
  BY <1>2 DEF GoodCol
<1> DEFINE s == Append(e, o)
<1>4. col' = [type |-> a, flags |-> b, objs |-> s] /\ Changed(col')
      /\ col.type = a /\ col.flags = b /\ col.objs = e
  BY <1>1, <1>3 DEF Changed
<1>5. o \in Objects /\ (a = "Track" => o.cov = TrackStateCov)
  BY <1>2, <1>4, ShapesAssumption DEF GoodCol
<1>6. e \in Seq(Objects) /\ Len(e) \in Nat /\ DOMAIN e = 1 .. Len(e) /\ Len(e) < MaxObjects
  BY <1>2, <1>4, ObjectsOf DEF GoodCol
<1>7. /\ s \in Seq(Objects) /\ Len(s) = Len(e) + 1 /\ DOMAIN s = 1 .. Len(e) + 1
      /\ \A i \in 1 .. Len(e) : s[i] = e[i]
      /\ s[Len(e) + 1] = o
  BY <1>5, <1>6, AppendProperties, LenProperties
<1> HIDE DEF s
<1>8. \A i \in DOMAIN s : (i \in DOMAIN e /\ s[i] = e[i]) \/ s[i] = o
  <2>1. \A i \in 1 .. Len(e) + 1 : i \in 1 .. Len(e) \/ i = Len(e) + 1
    BY <1>6
  <2>2. QED
    BY <1>6, <1>7, <2>1
<1>9. Len(s) <= MaxObjects
  BY <1>6, <1>7, BlockAssumption
<1>10. a = "Track" => \A i \in DOMAIN s : s[i].cov = TrackStateCov
  BY <1>2, <1>4, <1>5, <1>8 DEF GoodCol
<1>11. "FIXED" \in b => a = GENERIC /\ AllFixed(s)
  <2>1. ASSUME "FIXED" \in b PROVE a = GENERIC /\ AllFixed(s)
    <3>1. a = GENERIC /\ AllFixed(e)
      BY <1>2, <1>4, <2>1 DEF GoodCol
    <3>2. o.fixed
      BY <1>1, <1>4, <2>1, <3>1 DEF FitsIn
    <3>3. QED
      BY <1>8, <3>1, <3>2 DEF AllFixed
  <2>2. QED
    BY <2>1
<1>12. ASSUME a = GENERIC, NEW i \in DOMAIN s, NEW j \in DOMAIN s, s[i].fixed, s[j].fixed
       PROVE  SizesOf(s[i]) = SizesOf(s[j])
  <2>1. ASSUME o.fixed, NEW k \in DOMAIN e, e[k].fixed PROVE SizesOf(e[k]) = SizesOf(o)
    BY <1>1, <1>4, <1>12, <2>1 DEF FitsIn
  <2>2. ASSUME NEW k \in DOMAIN e, NEW l \in DOMAIN e, e[k].fixed, e[l].fixed
        PROVE  SizesOf(e[k]) = SizesOf(e[l])
    BY <1>2, <1>4, <1>12, <2>2 DEF GoodCol
  <2>3. CASE i \in DOMAIN e /\ s[i] = e[i] /\ j \in DOMAIN e /\ s[j] = e[j]
    BY <1>12, <2>2, <2>3
  <2>4. CASE s[i] = o /\ s[j] = o
    BY <2>4
  <2>5. CASE i \in DOMAIN e /\ s[i] = e[i] /\ s[j] = o
    BY <1>12, <2>1, <2>5
  <2>6. CASE s[i] = o /\ j \in DOMAIN e /\ s[j] = e[j]
    BY <1>12, <2>1, <2>6
  <2>7. QED
    BY <1>8, <2>3, <2>4, <2>5, <2>6
<1>13. a \in AllTypes /\ b \subseteq FlagBits(a) \cup {"SUBSET", "FIXED"}
  BY <1>2, <1>4 DEF GoodCol
<1>14. col' = [type |-> col'.type, flags |-> col'.flags, objs |-> col'.objs]
       /\ col'.type = a /\ col'.flags = b /\ col'.objs = s
  BY <1>4
<1>15. QED
  BY <1>4, <1>7, <1>9, <1>10, <1>11, <1>12, <1>13, <1>14 DEF GoodCol

\* removeElementAt leaves the other elements.
LEMMA Removed ==
  ASSUME NEW X, NEW e \in Seq(X), NEW k \in DOMAIN e
  PROVE  /\ RemoveAt(e, k) \in Seq(X) /\ Len(RemoveAt(e, k)) <= Len(e)
         /\ \A i \in DOMAIN RemoveAt(e, k) : \E j \in DOMAIN e : RemoveAt(e, k)[i] = e[j]
<1>1. Len(e) \in Nat /\ DOMAIN e = 1 .. Len(e) /\ k \in Int /\ 1 <= k /\ k <= Len(e)
  BY LenProperties
<1>2. \A i \in 1 .. Len(e) : e[i] \in X
  BY ElementOfSeq
<1> DEFINE u == SubSeq(e, 1, k - 1)
           v == SubSeq(e, k + 1, Len(e))
<1>3. /\ u \in Seq(X) /\ Len(u) = k - 1
      /\ \A i \in 1 .. k - 1 : u[i] = e[i]
  <2>1. /\ SubSeq(e, 1, k - 1) \in Seq(X)
        /\ Len(SubSeq(e, 1, k - 1)) = IF 1 <= k - 1 THEN (k - 1) - 1 + 1 ELSE 0
        /\ \A i \in 1 .. (k - 1) - 1 + 1 : SubSeq(e, 1, k - 1)[i] = e[1 + i - 1]
    <3>1. 1 \in Int /\ k - 1 \in Int /\ \A i \in 1 .. k - 1 : e[i] \in X
      BY <1>1, <1>2
    <3>2. QED
      BY <3>1, SubSeqProperties
  <2> HIDE DEF u
  <2>2. QED
    BY <1>1, <2>1 DEF u
<1>4. /\ v \in Seq(X) /\ Len(v) = Len(e) - k
      /\ \A i \in 1 .. Len(e) - k : v[i] = e[k + i]
  <2>1. /\ SubSeq(e, k + 1, Len(e)) \in Seq(X)
        /\ Len(SubSeq(e, k + 1, Len(e))) = IF k + 1 <= Len(e) THEN Len(e) - (k + 1) + 1 ELSE 0
        /\ \A i \in 1 .. Len(e) - (k + 1) + 1 : SubSeq(e, k + 1, Len(e))[i] = e[(k + 1) + i - 1]
    <3>1. k + 1 \in Int /\ Len(e) \in Int /\ \A i \in k + 1 .. Len(e) : e[i] \in X
      BY <1>1, <1>2
    <3>2. QED
      BY <3>1, SubSeqProperties
  <2> HIDE DEF v
  <2>2. QED
    BY <1>1, <2>1 DEF v
<1> HIDE DEF u, v
<1>5. RemoveAt(e, k) = u \o v
  BY DEF RemoveAt, u, v
<1>6. /\ u \o v \in Seq(X) /\ Len(u \o v) = Len(e) - 1 /\ DOMAIN (u \o v) = 1 .. Len(e) - 1
      /\ \A i \in 1 .. Len(e) - 1 : (u \o v)[i] = IF i <= k - 1 THEN u[i] ELSE v[i - (k - 1)]
  <2>1. /\ u \o v \in Seq(X) /\ Len(u \o v) = Len(u) + Len(v)
        /\ \A i \in 1 .. Len(u) + Len(v) : (u \o v)[i] = IF i <= Len(u) THEN u[i] ELSE v[i - Len(u)]
    BY <1>3, <1>4, ConcatProperties
  <2>2. Len(u) + Len(v) = Len(e) - 1
    BY <1>1, <1>3, <1>4
  <2>3. DOMAIN (u \o v) = 1 .. Len(u \o v)
    BY <2>1, LenProperties
  <2>4. QED
    BY <1>3, <2>1, <2>2, <2>3
<1>7. ASSUME NEW i \in 1 .. Len(e) - 1 PROVE \E j \in DOMAIN e : (u \o v)[i] = e[j]
  <2>1. CASE i <= k - 1
    <3>1. i \in 1 .. k - 1 /\ i \in DOMAIN e
      BY <1>1, <2>1
    <3>2. QED
      BY <1>3, <1>6, <2>1, <3>1
  <2>2. CASE ~(i <= k - 1)
    <3>1. i - (k - 1) \in 1 .. Len(e) - k /\ k + (i - (k - 1)) \in DOMAIN e
      BY <1>1, <2>2
    <3>2. QED
      BY <1>4, <1>6, <2>2, <3>1
  <2>3. QED
    BY <2>1, <2>2
<1> HIDE DEF u, v
<1> DEFINE w == u \o v
<1>8. w \in Seq(X) /\ Len(w) <= Len(e) /\ \A i \in DOMAIN w : \E j \in DOMAIN e : w[i] = e[j]
  <2>1. DOMAIN w = 1 .. Len(e) - 1 /\ w \in Seq(X) /\ Len(w) = Len(e) - 1
    BY <1>6
  <2>2. \A i \in 1 .. Len(e) - 1 : \E j \in DOMAIN e : w[i] = e[j]
    BY <1>7
  <2> HIDE DEF w
  <2>3. QED
    BY <1>1, <2>1, <2>2
<1> HIDE DEF w
<1>9. RemoveAt(e, k) = w
  BY <1>5 DEF w
<1>10. QED
  BY <1>8, <1>9

\* And keeps the rules.
LEMMA RemoveElementKeeps ==
  ASSUME BlockInv, RemoveElement
  PROVE  GoodCol(col') /\ Changed(col')
<1>1. PICK k \in DOMAIN col.objs : Changed([col EXCEPT !.objs = RemoveAt(@, k)])
  BY DEF RemoveElement
<1>2. GoodCol(col)
  BY DEF BlockInv
<1>3. PICK a, b, e : col = [type |-> a, flags |-> b, objs |-> e]
  BY <1>2 DEF GoodCol
<1> DEFINE s == RemoveAt(e, k)
<1>4. col' = [type |-> a, flags |-> b, objs |-> s] /\ Changed(col')
      /\ col.type = a /\ col.flags = b /\ col.objs = e
  BY <1>1, <1>3 DEF Changed
<1>5. e \in Seq(Objects) /\ Len(e) \in Nat /\ Len(e) <= MaxObjects /\ k \in DOMAIN e
  BY <1>2, <1>4, ObjectsOf DEF GoodCol
<1>6. s \in Seq(Objects) /\ Len(s) <= Len(e) /\ \A i \in DOMAIN s : \E j \in DOMAIN e : s[i] = e[j]
  BY <1>5, Removed
<1>7. Len(s) \in Nat
  BY <1>6, LenProperties
<1> HIDE DEF s
<1>8. Len(s) <= MaxObjects
  BY <1>5, <1>6, <1>7, BlockAssumption
<1>9. a = "Track" => \A i \in DOMAIN s : s[i].cov = TrackStateCov
  BY <1>2, <1>4, <1>6 DEF GoodCol
<1>10. "FIXED" \in b => a = GENERIC /\ AllFixed(s)
  <2>1. ASSUME "FIXED" \in b PROVE a = GENERIC /\ AllFixed(s)
    <3>1. a = GENERIC /\ AllFixed(e)
      BY <1>2, <1>4, <2>1 DEF GoodCol
    <3>2. QED
      BY <1>6, <3>1 DEF AllFixed
  <2>2. QED
    BY <2>1
<1>11. ASSUME a = GENERIC, NEW i \in DOMAIN s, NEW j \in DOMAIN s, s[i].fixed, s[j].fixed
       PROVE  SizesOf(s[i]) = SizesOf(s[j])
  <2>1. PICK p \in DOMAIN e : s[i] = e[p]
    BY <1>6
  <2>2. PICK q \in DOMAIN e : s[j] = e[q]
    BY <1>6
  <2>3. e[p].fixed /\ e[q].fixed
    BY <1>11, <2>1, <2>2
  <2>4. QED
    BY <1>2, <1>4, <1>11, <2>1, <2>2, <2>3 DEF GoodCol
<1>12. a \in AllTypes /\ b \subseteq FlagBits(a) \cup {"SUBSET", "FIXED"}
  BY <1>2, <1>4 DEF GoodCol
<1>13. col' = [type |-> col'.type, flags |-> col'.flags, objs |-> col'.objs]
       /\ col'.type = a /\ col'.flags = b /\ col'.objs = s
  BY <1>4
<1>14. QED
  BY <1>4, <1>6, <1>8, <1>9, <1>10, <1>11, <1>12, <1>13 DEF GoodCol

\* Reading a block gives what was written.
LEMMA ReadGives ==
  ASSUME BlockInv, Read
  PROVE  phase' = "read" /\ col' = Reread(col) /\ block' = block /\ writes' = writes
<1>1. GoodCol(col) /\ block = BlockOf(col)
  BY DEF BlockInv, Read
<1>2. Unpacked(col.type, block) = [ok |-> TRUE, words |-> << >>, objs |-> AsReads(col)]
  BY <1>1, UnpacksAll
<1>3. FlagsRead(block) = FlagsWritten(col)
  BY <1>1, WordsOfBlock DEF FlagsRead
<1> DEFINE r == Unpacked(col.type, block)
<1>4. phase' = (IF r.ok /\ r.words = << >> THEN "read" ELSE "misread")
      /\ col' = [col EXCEPT !.flags = FlagsRead(block), !.objs = r.objs]
      /\ block' = block /\ writes' = writes
  BY DEF Read
<1> HIDE DEF r
<1>5. r.ok /\ r.words = << >> /\ r.objs = AsReads(col)
  BY <1>2 DEF r
<1>6. QED
  BY <1>3, <1>4, <1>5 DEF Reread

\* Every step keeps the invariant.
LEMMA BlockNext ==
  ASSUME ~MixedSizes, BlockInv, [Next]_vars
  PROVE  BlockInv'
<1>1. ASSUME GoodCol(col'), Changed(col') PROVE BlockInv'
  BY <1>1 DEF BlockInv, Changed, ReadsWhatWasWritten, RewriteStable
<1>2. CASE SetFlag
  BY <1>1, <1>2, SetFlagKeeps
<1>3. CASE AddElement
  BY <1>1, <1>3, AddElementKeeps
<1>4. CASE RemoveElement
  BY <1>1, <1>4, RemoveElementKeeps
<1>5. CASE Write
  <2>1. phase' = "written" /\ block' = BlockOf(col) /\ col' = col /\ writes' \in 0 .. MaxWrites
    BY <1>5, BlockAssumption DEF Write, BlockInv
  <2>2. GoodCol(col') /\ block' = BlockOf(col') /\ DOMAIN block' = DOMAIN NoBlock
    BY <2>1, BlockDomain DEF BlockInv
  <2>3. QED
    BY <2>1, <2>2 DEF BlockInv, ReadsWhatWasWritten, RewriteStable
<1>6. CASE Read
  <2>1. phase' = "read" /\ col' = Reread(col) /\ block' = block /\ writes' = writes
    BY <1>6, ReadGives
  <2>2. GoodCol(col) /\ block = BlockOf(col)
    BY <1>6 DEF BlockInv, Read
  <2>3. GoodCol(col')
    BY <2>1, <2>2, RereadIsGood
  <2>4. RewriteStable'
    BY <2>1, <2>2, SameBlockAgain DEF RewriteStable
  <2>5. ReadsWhatWasWritten'
    <3>1. col'.objs = AsReads(col) /\ block'.objs = col.objs
      <4>1. col'.objs = AsReads(col)
        <5>1. col = [type |-> col.type, flags |-> col.flags, objs |-> col.objs]
          BY <2>2 DEF GoodCol
        <5>2. QED
          BY <2>1, <5>1 DEF Reread
      <4>2. QED
        BY <2>1, <2>2, <4>1, WordsOfBlock
    <3>2. Len(AsReads(col)) = Len(col.objs) /\ DOMAIN AsReads(col) = 1 .. Len(col.objs)
      BY <2>2, AllFixedAgain
    <3>3. ASSUME NEW i \in DOMAIN col'.objs
          PROVE  [col'.objs[i] EXCEPT !.fixed = block'.objs[i].fixed] = block'.objs[i]
      <4>1. Kept(col, i) /\ AsReads(col)[i] = AsRead(col, i)
        BY <2>2, <3>1, <3>2, <3>3, AsReadKeeps DEF AsReads
      <4>2. QED
        BY <3>1, <4>1 DEF Kept
    <3>4. QED
      BY <2>1, <3>1, <3>2, <3>3 DEF ReadsWhatWasWritten
  <2>6. QED
    BY <2>1, <2>3, <2>4, <2>5 DEF BlockInv
<1>7. CASE UNCHANGED vars
  BY <1>7 DEF vars, BlockInv, ReadsWhatWasWritten, RewriteStable
<1>8. QED
  BY <1>2, <1>3, <1>4, <1>5, <1>6, <1>7 DEF Next

(***************************************************************************)
(* The invariant holds in every state, when jobs keep to the rules of      *)
(* LCIO.aid for fixed sizes.                                               *)
(***************************************************************************)
THEOREM BlockInvariant ==
  ASSUME ~MixedSizes
  PROVE  Spec => []BlockInv
<1>1. Init => BlockInv
  BY BlockInit
<1>2. BlockInv /\ [Next]_vars => BlockInv'
  BY BlockNext
<1>3. QED
  BY <1>1, <1>2, PTL DEF Spec

\* The state of a collection and its block is of the right shape.
THEOREM BlockTypeCorrect ==
  ASSUME ~MixedSizes
  PROVE  Spec => []TypeOK
<1>1. BlockInv => TypeOK
  BY DEF BlockInv, GoodCol, TypeOK
<1>2. QED
  BY <1>1, BlockInvariant, PTL

(***************************************************************************)
(* The objects that are read are those that were written, in number, shape *)
(* and algorithm, and the reader ends where the writer ended, whatever job *)
(* wrote them (SIOCollectionHandler, the object handlers,                  *)
(* SIOLCGenericObjectHandler, SIOVertexHandler).                           *)
(***************************************************************************)
THEOREM SpecReadsWhatWasWritten ==
  ASSUME ~MixedSizes
  PROVE  Spec => []ReadsWhatWasWritten
<1>1. BlockInv => ReadsWhatWasWritten
  BY DEF BlockInv
<1>2. QED
  BY <1>1, BlockInvariant, PTL

(***************************************************************************)
(* A collection that was read and is written again unchanged makes the     *)
(* same block, any number of times.                                        *)
(***************************************************************************)
THEOREM SpecRewriteStable ==
  ASSUME ~MixedSizes
  PROVE  Spec => []RewriteStable
<1>1. BlockInv => RewriteStable
  BY DEF BlockInv
<1>2. QED
  BY <1>1, BlockInvariant, PTL
=============================================================================
