--------------------------- MODULE IndexRoundTrip ---------------------------
(***************************************************************************)
(* One LCIORandomAccessMgr of a writer and one of a reader: the map of run *)
(* and event positions is filled record by record, written as an LCIOIndex *)
(* record when the writer closes, and read back, possibly on top of what   *)
(* the reader already holds.                                               *)
(***************************************************************************)
EXTENDS LCIOIndex

CONSTANTS Runs,        \* run numbers a client uses
          Evts,        \* event numbers a client uses
          Positions,   \* file positions of the records
          NoIndex      \* no record has been written yet

VARIABLES runEvtMap,   \* of the manager
          index,       \* the LCIOIndex record on the stream, or NoIndex
          indexed      \* history: the map the record was written from

tripVars == <<runEvtMap, index, indexed>>

ASSUME ClientAssumption ==
  /\ Runs \subseteq IntRange
  /\ Evts \subseteq 0 .. IntMax
  /\ Positions \subseteq Nat

ClientKeys == {RunKey(r) : r \in Runs} \cup {EvtKey(r, e) : r \in Runs, e \in Evts}

TripInit ==
  /\ runEvtMap = EmptyMap
  /\ index = NoIndex
  /\ indexed = EmptyMap

(***************************************************************************)
(* The writer's side: LCIORandomAccessMgr::add for every record written,   *)
(* each record behind the ones before it.                                  *)
(***************************************************************************)
AddRecord(re, p) ==
  /\ index = NoIndex
  /\ \A k \in Keys(runEvtMap) : runEvtMap.pos[k] < p
  /\ runEvtMap' = Add(runEvtMap, re, p)
  /\ UNCHANGED <<index, indexed>>

(***************************************************************************)
(* SIOWriter::close: SIOIndexHandler::xfer with SIO_OP_WRITE, unless the   *)
(* map is empty, and LCIORandomAccessMgr::clear.                           *)
(***************************************************************************)
CloseWriter ==
  /\ index = NoIndex
  /\ ~IsEmpty(runEvtMap)
  /\ index' = Encode(runEvtMap)
  /\ indexed' = runEvtMap
  /\ runEvtMap' = EmptyMap

(***************************************************************************)
(* The reader's side: SIOIndexHandler::xfer with SIO_OP_READ adds to the   *)
(* map there is, which may hold the same keys already.                     *)
(***************************************************************************)
ReadIndex ==
  /\ index # NoIndex
  /\ runEvtMap' = AddAll(runEvtMap, Decode(index))
  /\ UNCHANGED <<index, indexed>>

CloseReader ==
  /\ index # NoIndex
  /\ runEvtMap' = EmptyMap
  /\ UNCHANGED <<index, indexed>>

TripNext ==
  \/ \E re \in ClientKeys, p \in Positions : AddRecord(re, p)
  \/ CloseWriter
  \/ ReadIndex
  \/ CloseReader

TripSpec == TripInit /\ [][TripNext]_tripVars

-----------------------------------------------------------------------------
(***************************************************************************)
(* The counters the reader reports as number of runs and of events are the *)
(* numbers of run headers and events in the map, whatever was added twice, *)
(* overwritten or read from a record (TESTS/test_randomaccess.cc:93).      *)
(***************************************************************************)
CountersMatch ==
  /\ runEvtMap.nRun = Cardinality({k \in Keys(runEvtMap) : k.EvtNum < 0})
  /\ runEvtMap.nEvt = Cardinality({k \in Keys(runEvtMap) : k.EvtNum >= 0})

(***************************************************************************)
(* A record written from a compactible map gives every key its position    *)
(* back, in a map that was cleared: the compact form loses nothing.        *)
(***************************************************************************)
RoundTrip ==
  index # NoIndex /\ Compactible(indexed) => Decode(index) = indexed.pos

(***************************************************************************)
(* "The LCIOIndex records hold the locations of the RunHeader and          *)
(* EventHeader in the file" (LCIORandomAccessMgr.h:24): every key that was *)
(* in the map is found in the record at its position.  Not so when the     *)
(* first and the last key share a run that others do not have.             *)
(***************************************************************************)
HoldsLocations == index # NoIndex => Decode(index) = indexed.pos

=============================================================================
