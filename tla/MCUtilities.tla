----------------------------- MODULE MCUtilities -----------------------------
(***************************************************************************)
(* Four of the UTIL classes and the MC particles of IMPL, which a job uses *)
(* beside readers and writers and which share nothing: a behaviour is one  *)
(* of one of them.                                                         *)
(***************************************************************************)
EXTENDS LCSplitWriter, RelationNavigator, CellID, PIDHandler, MCParticleFamily

CONSTANT Classes
VARIABLE class

anyVars == <<class, vars, relVars, cellVars, pidVars, famVars>>

\* The first, the second or the third file of a series may be there already.
MCOccupied == {{}, {<<"a", 1>>}, {<<"a", 2>>}, {<<"a", 0>>, <<"a", 2>>}}

MCWeights == {-1, 1, 2}

Field(offset, width, signed) == [offset |-> offset, width |-> width, signed |-> signed]
Plain == <<Field(0, 2, FALSE)>>

\* Within the first word, at its end, over it, behind a gap, and as wide as an
\* int but for one bit; the last two are refused.
MCEncodings ==
  {Plain,
   <<Field(0, 2, TRUE), Field(2, 2, FALSE)>>,
   <<Field(1, 2, FALSE), Field(3, 2, TRUE)>>,
   <<Field(0, 1, FALSE), Field(6, 2, TRUE)>>,
   <<Field(0, 2, TRUE), Field(2, 3, FALSE)>>,
   <<Field(0, 2, FALSE), Field(1, 2, FALSE)>>,
   <<Field(7, 2, FALSE)>>}

\* All particles in one collection, or the last in another, which comes after.
MCPlacements == {<<"A", "A", "A">>, <<"A", "A", "B">>}
MCColOrder == <<"0sub", "A", "B">>
MCSubsets == {{}, {2}, {1, 3}}

AnyInit ==
  /\ class \in Classes
  /\ Init /\ RelInit /\ CellInit /\ PIDInit /\ FamInit
  /\ class # "LCSplitWriter" => disk = << >>
  /\ class # "CellIDEncoder" => enc = Plain
  /\ class # "MCParticle" => place = <<"A", "A", "A">>

AnyNext ==
  \/ class = "LCSplitWriter" /\ Next /\ UNCHANGED <<class, relVars, cellVars, pidVars, famVars>>
  \/ class = "LCRelationNavigator" /\ RelNext /\ UNCHANGED <<class, vars, cellVars, pidVars, famVars>>
  \/ class = "CellIDEncoder" /\ CellNext /\ UNCHANGED <<class, vars, relVars, pidVars, famVars>>
  \/ class = "PIDHandler" /\ PIDNext /\ UNCHANGED <<class, vars, relVars, cellVars, famVars>>
  \/ class = "MCParticle" /\ FamNext /\ UNCHANGED <<class, vars, relVars, cellVars, pidVars>>

AnySpec == AnyInit /\ [][AnyNext]_anyVars
=============================================================================
