---------------------------- MODULE ObjectLayout ----------------------------
(***************************************************************************)
(* What the handlers of LCIO's data types write of an object and what they *)
(* read.  Writing and reading are two methods of a handler, each with its  *)
(* own conditions on the collection's flag word, on the object and, when   *)
(* reading, on the version of the library that wrote.  Nothing on the file *)
(* says which fields are there: the two must agree, or all that follows in *)
(* the block is taken for something else.                                  *)
(*                                                                         *)
(* A layout is the sequence of the fields of an object, each with its name *)
(* and its length in words of four bytes, to which SIO pads what a call    *)
(* transfers.  f is the set of the flag bits that are set, v the version   *)
(* that wrote; of an object o only matters how long its lists are (n), how *)
(* long those inside them are (m), whether it has an end point, and the    *)
(* size of its covariance matrix where the class does not fix it (cov).    *)
(***************************************************************************)
EXTENDS Naturals, Sequences, SequencesExt

\* TRKSTATENCOVMATRIX.
TrackStateCov == 15

\* SIO_VERSION_ENCODE, and the version this library writes.
Version(major, minor) == 1000 * major + minor
Current == Version(2, 7)

Field(name) == <<<<name, 1>>>>
Array(name, n) == <<<<name, n>>>>       \* of ints or floats
Doubles(name, n) == <<<<name, 2 * n>>>>
Shorts(name, n) == <<<<name, (n + 1) \div 2>>>>
Text(name) == <<<<name, 1>>, <<name, 2>>>>   \* its length and its characters
Pointer(name) == <<<<name, 1>>>>
Tag == <<<<"tag", 1>>>>
If(cond, layout) == IF cond THEN layout ELSE << >>
Times(n, layout) == FlattenSeq([i \in 1..n |-> layout])
List(name, n, layout) == Field(name) \o Times(n, layout)

SimCalorimeterHitWritten(f, o) ==
  Field("cellID0") \o If("ID1" \in f, Field("cellID1")) \o Field("energy")
  \o If("LONG" \in f, Array("position", 3))
  \o List("nMC", o.n, Pointer("Particle") \o Field("Energy") \o Field("Time")
                      \o If("STEP" \in f, Field("PDG") \o Array("StepPosition", 3)))
  \o Tag

SimCalorimeterHitRead(f, v, o) ==
  Field("cellID0")
  \o If("ID1" \in f \/ v = Version(0, 8), Field("cellID1")) \o Field("energy")
  \o If("LONG" \in f, Array("position", 3))
  \o List("nMC", o.n, Pointer("Particle") \o Field("Energy") \o Field("Time")
            \o If("STEP" \in f, Field("PDG"))
            \o If(v > Version(1, 51) /\ "STEP" \in f, Array("StepPosition", 3)))
  \o If(v > Version(1, 0), Tag)

RawCalorimeterHitWritten(f, o) ==
  Field("cellID0") \o If("ID1" \in f, Field("cellID1")) \o Field("amplitude")
  \o If("TIME" \in f, Field("timeStamp")) \o If("NO_PTR" \notin f, Tag)

RawCalorimeterHitRead(f, v, o) ==
  Field("cellID0") \o If("ID1" \in f \/ v = Version(0, 8), Field("cellID1"))
  \o Field("amplitude")
  \o If("TIME" \in f, Field("timeStamp")) \o If("NO_PTR" \notin f, Tag)

CalorimeterHitWritten(f, o) ==
  Field("cellID0") \o If("ID1" \in f, Field("cellID1")) \o Field("energy")
  \o If("ENERGY_ERROR" \in f, Field("energyError"))
  \o If("TIME" \in f, Field("time")) \o If("LONG" \in f, Array("position", 3))
  \o Field("type") \o Pointer("rawHit") \o If("NO_PTR" \notin f, Tag)

CalorimeterHitRead(f, v, o) ==
  Field("cellID0") \o If("ID1" \in f \/ v = Version(0, 8), Field("cellID1"))
  \o Field("energy")
  \o If(v > Version(1, 9) /\ "ENERGY_ERROR" \in f, Field("energyError"))
  \o If(v > Version(1, 2) /\ "TIME" \in f, Field("time"))
  \o If("LONG" \in f, Array("position", 3))
  \o If(v > Version(1, 2), Field("type") \o Pointer("rawHit"))
  \* the meaning of the bit was inverted in version 1.3
  \o If(v > Version(1, 2) <=> "NO_PTR" \notin f, Tag)

SimTrackerHitWritten(f, o) ==
  Field("cellID0") \o If("ID1" \in f, Field("cellID1")) \o Doubles("pos", 3)
  \o Field("EDep") \o Field("time") \o Pointer("particle")
  \o If("MOMENTUM" \in f, Array("p", 3) \o Field("pathLength")) \o Tag

SimTrackerHitRead(f, v, o) ==
  Field("cellID0") \o If(v > Version(1, 51) /\ "ID1" \in f, Field("cellID1"))
  \o Doubles("pos", 3) \o Field("EDep") \o Field("time") \o Pointer("particle")
  \o If("MOMENTUM" \in f, Array("p", 3) \o If(v > Version(1, 6), Field("pathLength")))
  \o If(v > Version(1, 0), Tag)

TPCHitWritten(f, o) ==
  Field("cellID") \o Field("time") \o Field("charge") \o Field("quality")
  \o If("RAW" \in f, Field("rawSize") \o Array("raw", o.n))
  \o If("NO_PTR" \notin f, Tag)

TPCHitRead(f, v, o) ==
  Field("cellID") \o Field("time") \o Field("charge") \o Field("quality")
  \o If("RAW" \in f, Field("rawSize") \o Array("raw", o.n))
  \o If(v > Version(1, 2) <=> "NO_PTR" \notin f, Tag)

TrackerRawDataWritten(f, o) ==
  Field("cellID0") \o If("ID1" \in f, Field("cellID1")) \o Field("time")
  \o Field("nADC") \o Shorts("adc", o.n) \o Tag

TrackerRawDataRead(f, v, o) ==
  Field("cellID0") \o If("ID1" \in f, Field("cellID1")) \o Field("time")
  \o Field("nADC") \o Shorts("adc", o.n) \o Tag

TrackerDataWritten(f, o) ==
  Field("cellID0") \o If("ID1" \in f, Field("cellID1")) \o Field("time")
  \o Field("nCharge") \o Array("charge", o.n) \o Tag

TrackerDataRead(f, v, o) ==
  Field("cellID0") \o If("ID1" \in f, Field("cellID1")) \o Field("time")
  \o Field("nCharge") \o Array("charge", o.n) \o Tag

TrackerPulseWritten(f, o) ==
  Field("cellID0") \o If("ID1" \in f, Field("cellID1")) \o Field("time")
  \o Field("charge") \o If("CM" \in f, Array("cov", 3)) \o Field("quality")
  \o Pointer("corrData") \o Tag

TrackerPulseRead(f, v, o) ==
  Field("cellID0") \o If("ID1" \in f, Field("cellID1")) \o Field("time")
  \o Field("charge") \o If(v > Version(1, 12) /\ "CM" \in f, Array("cov", 3))
  \o Field("quality") \o Pointer("corrData") \o Tag

TrackerHitWritten(f, o) ==
  Field("cellID0") \o If("ID1" \in f, Field("cellID1")) \o Field("type")
  \o Doubles("pos", 3) \o Array("cov", 6) \o Field("EDep") \o Field("EDepError")
  \o Field("time") \o Field("quality") \o List("nRaw", o.n, Pointer("rawHit")) \o Tag

TrackerHitRead(f, v, o) ==
  If(v > Version(1, 51), Field("cellID0") \o If("ID1" \in f, Field("cellID1")))
  \o If(v > Version(1, 2), Field("type")) \o Doubles("pos", 3) \o Array("cov", 6)
  \o Field("EDep") \o If(v > Version(1, 12), Field("EDepError")) \o Field("time")
  \o If(v > Version(1, 11), Field("quality"))
  \o (IF v > Version(1, 2) THEN List("nRaw", o.n, Pointer("rawHit")) ELSE Pointer("rawHit"))
  \o Tag

TrackerHitPlaneWritten(f, o) ==
  Field("cellID0") \o If("ID1" \in f, Field("cellID1")) \o Field("type")
  \o Doubles("pos", 3) \o Array("u", 2) \o Array("v", 2) \o Field("du") \o Field("dv")
  \o Field("EDep") \o Field("EDepError") \o Field("time") \o Field("quality")
  \o List("nRaw", o.n, Pointer("rawHit")) \o Tag

TrackerHitPlaneRead(f, v, o) ==
  If(v > Version(1, 51), Field("cellID0") \o If("ID1" \in f, Field("cellID1")))
  \o Field("type") \o Doubles("pos", 3) \o Array("u", 2) \o Array("v", 2)
  \o Field("du") \o Field("dv") \o Field("EDep") \o Field("EDepError")
  \o Field("time") \o Field("quality") \o List("nRaw", o.n, Pointer("rawHit")) \o Tag

TrackerHitZCylinderWritten(f, o) ==
  Field("cellID0") \o If("ID1" \in f, Field("cellID1")) \o Field("type")
  \o Doubles("pos", 3) \o Array("center", 2) \o Field("drphi") \o Field("dz")
  \o Field("EDep") \o Field("EDepError") \o Field("time") \o Field("quality")
  \o List("nRaw", o.n, Pointer("rawHit")) \o Tag

TrackerHitZCylinderRead(f, v, o) ==
  If(v > Version(1, 51), Field("cellID0") \o If("ID1" \in f, Field("cellID1")))
  \o Field("type") \o Doubles("pos", 3) \o Array("center", 2)
  \o Field("drphi") \o Field("dz") \o Field("EDep") \o Field("EDepError")
  \o Field("time") \o Field("quality") \o List("nRaw", o.n, Pointer("rawHit")) \o Tag

TrackParameters == Field("d0") \o Field("phi") \o Field("omega") \o Field("z0") \o Field("tanLambda")
AfterTrackStates(f, o) ==
  Field("chi2") \o Field("ndf") \o Field("dEdx") \o Field("dEdxError") \o Field("radius")
  \o List("nHitNumbers", o.n, Field("hitNumber")) \o List("nTracks", o.m, Pointer("track"))

TrackWritten(f, o) ==
  Field("type")
  \o List("nTrackStates", o.n, Field("location") \o TrackParameters
                               \o Array("cov", o.cov) \o Array("reference", 3))
  \o AfterTrackStates(f, o)
  \o If("HITS" \in f, List("nHits", o.n, Pointer("hit"))) \o Tag

TrackRead(f, v, o) ==
  LET state == If(v >= Version(2, 0), Field("location")) \o TrackParameters
               \o Array("cov", TrackStateCov) \o Array("reference", 3)
  IN Field("type")
     \o (IF v >= Version(2, 0) THEN List("nTrackStates", o.n, state) ELSE state)
     \o AfterTrackStates(f, o)
     \o If("HITS" \in f, List("nHits", o.n, Pointer("hit"))) \o Tag

ParticleIDLayout(o) ==
  Field("likelihood") \o Field("pidType") \o Field("pidPDG") \o Field("algorithmType")
  \o List("nPara", o.m, Field("parameter"))

ClusterWritten(f, o) ==
  Field("type") \o Field("energy") \o Field("energyError") \o Array("position", 3)
  \o Array("errpos", 6) \o Field("theta") \o Field("phi") \o Array("errdir", 3)
  \o Field("nShape") \o Array("shape", o.n)
  \o List("nPid", o.n, ParticleIDLayout(o)) \o List("nClusters", o.m, Pointer("cluster"))
  \o If("HITS" \in f, List("nHits", o.n, Pointer("hit") \o Field("weight")))
  \o List("nEnergies", o.m, Field("subdetectorEnergy")) \o Tag

ClusterRead(f, v, o) ==
  Field("type") \o Field("energy") \o If(v > Version(1, 51), Field("energyError"))
  \o Array("position", 3) \o Array("errpos", 6) \o Field("theta") \o Field("phi")
  \o Array("errdir", 3)
  \o (IF v > Version(1, 2)
        THEN Field("nShape") \o Array("shape", o.n) \o List("nPid", o.n, ParticleIDLayout(o))
        ELSE Array("shape", 6) \o Array("pType", 3))
  \o List("nClusters", o.m, Pointer("cluster"))
  \o If("HITS" \in f, List("nHits", o.n, Pointer("hit") \o Field("weight")))
  \o List("nEnergies", o.m, Field("subdetectorEnergy")) \o Tag

ReconstructedParticleWritten(f, o) ==
  Field("type") \o Array("momentum", 3) \o Field("energy") \o Array("cov", 10)
  \o Field("mass") \o Field("charge") \o Array("reference", 3)
  \o List("nPid", o.n, ParticleIDLayout(o) \o Tag)
  \o Pointer("pidUsed") \o Field("goodnessOfPID")
  \o List("nParticles", o.n, Pointer("particle")) \o List("nTracks", o.m, Pointer("track"))
  \o List("nClusters", o.n, Pointer("cluster")) \o Pointer("startVertex") \o Tag

ReconstructedParticleRead(f, v, o) ==
  LET old == v <= Version(1, 2)
      weight == If(old, Field("weight"))
      pid == IF old
               THEN Field("likelihood") \o Field("pidType") \o Field("algorithmType")
                    \o List("nPara", o.m, Field("parameter"))
               ELSE ParticleIDLayout(o) \o Tag
  IN Field("type") \o Array("momentum", 3) \o Field("energy") \o Array("cov", 10)
     \o Field("mass") \o Field("charge") \o Array("reference", 3)
     \o List("nPid", o.n, pid)
     \o If(~old, Pointer("pidUsed") \o Field("goodnessOfPID"))
     \o List("nParticles", o.n, Pointer("particle") \o weight)
     \o List("nTracks", o.m, Pointer("track") \o weight)
     \o List("nClusters", o.n, Pointer("cluster") \o weight)
     \o If(old, Field("nMCP") \o Array("mcp", o.m) \o Array("mcpWeight", o.m))
     \o If(v > Version(1, 7), Pointer("startVertex")) \o Tag

LCRelationWritten(f, o) ==
  Pointer("from") \o Pointer("to") \o If("WEIGHTED" \in f, Field("weight"))

LCRelationRead(f, v, o) ==
  Pointer("from") \o Pointer("to") \o If("WEIGHTED" \in f, Field("weight"))

\* The algorithm is stored as an index into a parameter of the collection.
VertexWritten(f, o) ==
  Field("primary") \o Field("algorithmIndex") \o Field("chi2") \o Field("probability")
  \o Array("position", 3) \o Array("cov", 6) \o List("nPara", o.n, Field("parameter"))
  \o Pointer("particle") \o Tag

VertexRead(f, v, o) ==
  Field("primary") \o Field("algorithmIndex") \o Field("chi2") \o Field("probability")
  \o Array("position", 3) \o Array("cov", 6) \o List("nPara", o.n, Field("parameter"))
  \o Pointer("particle") \o Tag

MCParticleWritten(f, o) ==
  Tag \o List("nParents", o.n, Pointer("parent")) \o Field("pdg") \o Field("genstatus")
  \o Field("simstatus") \o Doubles("vertex", 3) \o Field("time") \o Array("momentum", 3)
  \o Field("mass") \o Field("charge")
  \o If(o.endpoint, Doubles("endpoint", 3) \o Array("momentumAtEndpoint", 3))
  \o Array("spin", 3) \o Array("colorFlow", 2)

MCParticleRead(f, v, o) ==
  Tag \o List("nParents", o.n, Pointer("parent")) \o Field("pdg") \o Field("genstatus")
  \o Field("simstatus") \o Doubles("vertex", 3) \o If(v > Version(1, 2), Field("time"))
  \o Array("momentum", 3) \o Field("mass") \o Field("charge")
  \o If(o.endpoint, Doubles("endpoint", 3)
                    \o If(v > Version(2, 6), Array("momentumAtEndpoint", 3)))
  \o If(v > Version(1, 51), Array("spin", 3) \o Array("colorFlow", 2))

LCStrVecWritten(f, o) == List("nElements", o.n, Text("string")) \o Tag
LCStrVecRead(f, v, o) == List("nElements", o.n, Text("string")) \o If(v > Version(1, 2), Tag)
LCFloatVecWritten(f, o) == List("nElements", o.n, Field("float")) \o Tag
LCFloatVecRead(f, v, o) == List("nElements", o.n, Field("float")) \o If(v > Version(1, 2), Tag)
\* written in one transfer, read one by one
LCIntVecWritten(f, o) == Field("nElements") \o Times(o.n, Field("int")) \o Tag
LCIntVecRead(f, v, o) == List("nElements", o.n, Field("int")) \o If(v > Version(1, 2), Tag)

-----------------------------------------------------------------------------
\* SIOHandlerMgr: the handler of each type, but for LCGenericObject, which
\* has more to it (CollectionBlock).
Types == {"SimCalorimeterHit", "RawCalorimeterHit", "CalorimeterHit", "SimTrackerHit",
          "TPCHit", "TrackerRawData", "TrackerData", "TrackerPulse", "TrackerHit",
          "TrackerHitPlane", "TrackerHitZCylinder", "Track", "Cluster",
          "ReconstructedParticle", "LCRelation", "Vertex", "MCParticle",
          "LCStrVec", "LCFloatVec", "LCIntVec"}

Written(type, f, o) ==
  CASE type = "SimCalorimeterHit" -> SimCalorimeterHitWritten(f, o)
    [] type = "RawCalorimeterHit" -> RawCalorimeterHitWritten(f, o)
    [] type = "CalorimeterHit" -> CalorimeterHitWritten(f, o)
    [] type = "SimTrackerHit" -> SimTrackerHitWritten(f, o)
    [] type = "TPCHit" -> TPCHitWritten(f, o)
    [] type = "TrackerRawData" -> TrackerRawDataWritten(f, o)
    [] type = "TrackerData" -> TrackerDataWritten(f, o)
    [] type = "TrackerPulse" -> TrackerPulseWritten(f, o)
    [] type = "TrackerHit" -> TrackerHitWritten(f, o)
    [] type = "TrackerHitPlane" -> TrackerHitPlaneWritten(f, o)
    [] type = "TrackerHitZCylinder" -> TrackerHitZCylinderWritten(f, o)
    [] type = "Track" -> TrackWritten(f, o)
    [] type = "Cluster" -> ClusterWritten(f, o)
    [] type = "ReconstructedParticle" -> ReconstructedParticleWritten(f, o)
    [] type = "LCRelation" -> LCRelationWritten(f, o)
    [] type = "Vertex" -> VertexWritten(f, o)
    [] type = "MCParticle" -> MCParticleWritten(f, o)
    [] type = "LCStrVec" -> LCStrVecWritten(f, o)
    [] type = "LCFloatVec" -> LCFloatVecWritten(f, o)
    [] type = "LCIntVec" -> LCIntVecWritten(f, o)

ReadBack(type, f, v, o) ==
  CASE type = "SimCalorimeterHit" -> SimCalorimeterHitRead(f, v, o)
    [] type = "RawCalorimeterHit" -> RawCalorimeterHitRead(f, v, o)
    [] type = "CalorimeterHit" -> CalorimeterHitRead(f, v, o)
    [] type = "SimTrackerHit" -> SimTrackerHitRead(f, v, o)
    [] type = "TPCHit" -> TPCHitRead(f, v, o)
    [] type = "TrackerRawData" -> TrackerRawDataRead(f, v, o)
    [] type = "TrackerData" -> TrackerDataRead(f, v, o)
    [] type = "TrackerPulse" -> TrackerPulseRead(f, v, o)
    [] type = "TrackerHit" -> TrackerHitRead(f, v, o)
    [] type = "TrackerHitPlane" -> TrackerHitPlaneRead(f, v, o)
    [] type = "TrackerHitZCylinder" -> TrackerHitZCylinderRead(f, v, o)
    [] type = "Track" -> TrackRead(f, v, o)
    [] type = "Cluster" -> ClusterRead(f, v, o)
    [] type = "ReconstructedParticle" -> ReconstructedParticleRead(f, v, o)
    [] type = "LCRelation" -> LCRelationRead(f, v, o)
    [] type = "Vertex" -> VertexRead(f, v, o)
    [] type = "MCParticle" -> MCParticleRead(f, v, o)
    [] type = "LCStrVec" -> LCStrVecRead(f, v, o)
    [] type = "LCFloatVec" -> LCFloatVecRead(f, v, o)
    [] type = "LCIntVec" -> LCIntVecRead(f, v, o)
=============================================================================
