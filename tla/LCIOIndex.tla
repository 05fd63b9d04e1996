----------------------------- MODULE LCIOIndex -----------------------------
(***************************************************************************)
(* The LCIOIndex record: what SIOIndexHandler::xfer writes of a            *)
(* RunEventMap and what it adds to a RunEventMap when it reads the record  *)
(* back.  The record is compact: run numbers are left out when the first   *)
(* and the last key have the same run, and positions are written as int    *)
(* offsets when the positions of these two keys are close.                 *)
(*                                                                         *)
(* The entries are written in the order of the map, so the place of an     *)
(* entry in the record is named by the key it was written for; the reader  *)
(* sees only the contents of the entries and their order.                  *)
(*                                                                         *)
(* An index is a value here; IndexRoundTrip runs it, LCIORandomAccess      *)
(* puts it on the disk.                                                    *)
(***************************************************************************)
EXTENDS RunEventMap

Encode(m) ==
  LET minEntry   == MinRunEvent(m)
      maxEntry   == MaxRunEvent(m)
      oneRun     == minEntry.RunNum = maxEntry.RunNum
      baseOffset == GetPosition(m, minEntry)
      longOffset == GetPosition(m, maxEntry) - baseOffset > IntMax
  IN  [oneRun     |-> oneRun,
       longOffset |-> longOffset,
       runMin     |-> minEntry.RunNum,
       baseOffset |-> baseOffset,
       entry      |-> [re \in Keys(m) |->
         [runOffset |-> IF oneRun THEN 0 ELSE ToInt(re.RunNum - minEntry.RunNum),
          evtNum    |-> re.EvtNum,
          offset    |-> LET d == m.pos[re] - baseOffset
                        IN  IF longOffset THEN d ELSE ToInt(d)]]]

(***************************************************************************)
(* The key and the position the reader makes of the entry in one place.    *)
(***************************************************************************)
EntryKey(idx, place) ==
  EvtKey(ToInt(idx.runMin + idx.entry[place].runOffset), idx.entry[place].evtNum)
\* A variant with a bug: the position is kept in an int.
EntryPosInt(idx, place) == ToInt(idx.baseOffset + idx.entry[place].offset)

EntryPos(idx, place) == idx.baseOffset + idx.entry[place].offset

(***************************************************************************)
(* The keys and positions that reading the record adds.  When several      *)
(* entries give one key, add is called for each and the last one stays.    *)
(***************************************************************************)
Decode(idx) ==
  LET places  == DOMAIN idx.entry
      from(k) == {p \in places : EntryKey(idx, p) = k}
      last(k) == CHOOSE p \in from(k) : IsLast(p, from(k))
  IN  [k \in {EntryKey(idx, p) : p \in places} |-> EntryPos(idx, last(k))]

(***************************************************************************)
(* A map is compactible when the two shortcuts of the record hold for all  *)
(* of its entries and not only for the first and the last key: then the    *)
(* record can be expected to give the map back.                            *)
(***************************************************************************)
SameRun(m) == \A a, b \in Keys(m) : a.RunNum = b.RunNum
NearBase(m) == \A k \in Keys(m) :
                 m.pos[k] - GetPosition(m, MinRunEvent(m)) \in IntRange
Compactible(m) ==
  /\ Encode(m).oneRun => SameRun(m)
  /\ ~Encode(m).longOffset => NearBase(m)

=============================================================================
