-------------------------- MODULE LCIORandomAccess --------------------------
(***************************************************************************)
(* One LCIO file and the writers that create it, append to it and crash:   *)
(* SIOWriter with its LCIORandomAccessMgr on top of an SIO_stream.         *)
(*                                                                         *)
(* The file is a map from the position of each record's first byte to the  *)
(* record, and a length.  A position with no record has no record marker.  *)
(* What a writer has written since the last flush is in buf, the stdio     *)
(* buffer; a crash leaves on the disk what lies before some cut, so the    *)
(* record across the cut is torn.  Every closed session leaves a block of  *)
(* three records behind its events: an LCIOIndex, an LCIORandomAccess that *)
(* points to it and to the previous block, and the file record, an         *)
(* LCIORandomAccess that points to the last block and is found at a fixed  *)
(* distance from the end of the file.  An append session starts by writing *)
(* over the file record.                                                   *)
(***************************************************************************)
EXTENDS LCIOIndex, FiniteSetsExt

CONSTANTS Runs, Evts,     \* run and event numbers the clients use
          DataLen,        \* length of any record but LCIORandomAccess
          AccLen,         \* LCSIO_RANDOMACCESS_SIZE
          HeadLen,        \* length of a record's own header
          MaxSessions,    \* bound: number of writers
          MaxPuts,        \* bound: run headers and events of one writer
          MaxCrashes,     \* bound: writers that die before close returns
          UniqueKeys,     \* clients never write one run or event twice
          WholeRuns,      \* clients write run headers with their events
          None            \* null pointer

ASSUME ConstantsAssumption ==
  /\ Runs \subseteq 0 .. IntMax /\ Evts \subseteq 0 .. IntMax
  /\ HeadLen \in Nat \ {0} /\ DataLen \in Nat /\ AccLen \in Nat
  /\ HeadLen < DataLen /\ HeadLen < AccLen
  /\ MaxSessions \in Nat /\ MaxPuts \in Nat /\ MaxCrashes \in Nat
  /\ UniqueKeys \in BOOLEAN /\ WholeRuns \in BOOLEAN

\* The members of an LCIORandomAccess; a null pointer leads to none.
Access == [nRun : Nat, nEvt : Nat, index : Nat, prev : Nat, next : Nat, first : Nat]
ASSUME NoneAssumption == None \notin Access

VARIABLES
  disk,       \* position -> record: what has reached the file
  size,       \* the length of the file
  mode,       \* of the writer: "closed", "open" or "closing"
  buf,        \* position -> record: written, still in the stdio buffer
  synced,     \* position up to which this writer's output is on the disk
  wpos,       \* FTELL: position of the next record
  map,        \* _runEvtMap
  lastRa,     \* the last element of _list, or None
  fileRec,    \* _fileRecord, or None
  sessions,   \* number of writers so far
  puts,       \* run headers and events of this writer
  crashes     \* number of writers that died

writer == <<map, lastRa, fileRec>>
vars == <<disk, size, mode, buf, synced, wpos, map, lastRa, fileRec,
          sessions, puts, crashes>>

NoRecords == [p \in {} |-> None]
Record(kind, body) == [kind |-> kind, body |-> body, ok |-> TRUE]
Torn(rec) == [kind |-> rec.kind, body |-> rec.body, ok |-> FALSE]
Item(key) == [key |-> key, ver |-> sessions]
Length(rec) == IF rec.kind = "acc" THEN AccLen ELSE DataLen
Larger(a, b) == IF a > b THEN a ELSE b
Smaller(a, b) == IF a < b THEN a ELSE b

(***************************************************************************)
(* The disk d after the bytes from .. cut-1 of the records b are written   *)
(* to it.  A record of d that begins in this range is gone; a record of b  *)
(* whose header is complete but whose data is not does not read back.      *)
(***************************************************************************)
Overlay(d, b, from, cut) ==
  LET kept  == {p \in DOMAIN d : p < from \/ p >= cut}
      whole == {p \in DOMAIN b : p + Length(b[p]) <= cut}
      torn  == {p \in DOMAIN b : p + HeadLen <= cut /\ cut < p + Length(b[p])}
  IN  [p \in kept \cup whole \cup torn |->
         IF p \in whole THEN b[p]
         ELSE IF p \in torn THEN Torn(b[p])
         ELSE d[p]]

-----------------------------------------------------------------------------
(***************************************************************************)
(* Reading: SIO_stream::read at position p gives a record.                 *)
(***************************************************************************)
Readable(d, p) == p \in DOMAIN d /\ d[p].ok
IsKind(d, p, kind) == Readable(d, p) /\ d[p].kind = kind

(***************************************************************************)
(* The positions of the records of some kinds that successive reads from p *)
(* return, and where these end.  Records of other kinds are skipped by the *)
(* length in their header, data unseen.  Reading ends where no record      *)
(* header is found or the data of a wanted record is torn: the callers     *)
(* take both for the end of the file, the bit they test is set in every    *)
(* status of the stream.                                                   *)
(***************************************************************************)
Scan(d, kinds, from) ==
  LET wanted(p) == d[p].kind \in kinds
      next[p \in Nat] ==
        IF p \notin DOMAIN d \/ (wanted(p) /\ ~d[p].ok) THEN {}
        ELSE {p} \cup next[p + Length(d[p])]
  IN  {p \in DOMAIN d : wanted(p) /\ d[p].ok /\ p \in next[from]}

ScanEnd(d, kinds, from) ==
  LET end[p \in Nat] ==
        IF p \notin DOMAIN d \/ (d[p].kind \in kinds /\ ~d[p].ok) THEN p
        ELSE end[p + Length(d[p])]
  IN  end[from]

\* A variant with a bug: run headers are not unpacked.
HeadersOfEvents(d) == Scan(d, {"hdr"}, 0)

Headers(d) == Scan(d, {"run", "hdr"}, 0)

(***************************************************************************)
(* recreateEventMap: the keys of all run and event headers, each with the  *)
(* position it was added with last.  It then seeks the start of the file,  *)
(* which throws when the reads ended in an error and not for want of the   *)
(* bytes of another header.                                                *)
(***************************************************************************)
RecreateThrows(d, n) ==
  LET end == ScanEnd(d, {"run", "hdr"}, 0)
  IN  end \in DOMAIN d \/ end + HeadLen <= n

RecreateEventMap(d) ==
  LET at(k) == {p \in Headers(d) : d[p].body.key = k}
  IN  AddAll(EmptyMap, [k \in {d[p].body.key : p \in Headers(d)} |->
                          CHOOSE p \in at(k) : \A q \in at(k) : q <= p])

(***************************************************************************)
(* readLCIOIndexAt: the entries of the LCIOIndex at p, none if there is no *)
(* such record (the result of the call is ignored).                        *)
(***************************************************************************)
ReadIndexAt(d, p) == IF IsKind(d, p, "idx") THEN Decode(d[p].body) ELSE NoRecords

(***************************************************************************)
(* The while loop of createEventMap: the blocks from the one at p on, in   *)
(* the order of their previous pointers, each adding its index to the map  *)
(* and so replacing what later blocks said of a key.                       *)
(***************************************************************************)
Chain(d, p0) ==
  LET prev[p \in Nat] ==
        IF p = 0 THEN {}
        ELSE IF ~IsKind(d, p, "acc") THEN {p}
        ELSE {p} \cup prev[d[p].body.prev]
  IN  prev[p0]

ChainEntries(d, p0) ==
  LET add[p \in Nat] ==
        IF p = 0 \/ ~IsKind(d, p, "acc") THEN NoRecords
        ELSE LET older == add[d[p].body.prev]
                 own   == ReadIndexAt(d, d[p].body.index)
             IN  [k \in DOMAIN older \cup DOMAIN own |->
                    IF k \in DOMAIN older THEN older[k] ELSE own[k]]
  IN  add[p0]

(***************************************************************************)
(* createEventMap on a file d of n bytes.  "IOException": the seek from    *)
(* the end fails, or recreating the map does.  "broken": a previous        *)
(* pointer leads to no record, also an IOException.  "endless": it leads   *)
(* to another record, and the same pointer is followed again.              *)
(* "undefined": a record that is no LCIORandomAccess is read where the     *)
(* file record is expected (_list.back() of an empty list), or where the   *)
(* file record points to (a null pointer is used).                         *)
(***************************************************************************)
CreateEventMap(d, n) ==
  LET end   == n - AccLen
      first == d[end].body.next
      res(status, m) == [status |-> status, map |-> m]
  IN  IF n < AccLen THEN res("IOException", EmptyMap)
      ELSE IF ~Readable(d, end)
           THEN IF RecreateThrows(d, n) THEN res("IOException", EmptyMap)
                ELSE res("ok", RecreateEventMap(d))
      ELSE IF ~IsKind(d, end, "acc") THEN res("undefined", EmptyMap)
      ELSE IF ~IsKind(d, first, "acc") THEN res("undefined", EmptyMap)
      ELSE IF \E p \in Chain(d, first) : ~Readable(d, p)
           THEN res("broken", EmptyMap)
      ELSE IF \E p \in Chain(d, first) : d[p].kind # "acc"
           THEN res("endless", EmptyMap)
      ELSE res("ok", AddAll(EmptyMap, ChainEntries(d, first)))

(***************************************************************************)
(* readEvent: the event record that is read after the header at p, whose   *)
(* contents are returned as the event of this header; None at the end.     *)
(***************************************************************************)
\* A variant with a bug: the record behind the header is skipped.
PayloadOfNext(d, p) ==
  LET evts == Scan(d, {"evt"}, p + Length(d[p]) + DataLen)
  IN  IF evts = {} THEN None
      ELSE d[CHOOSE q \in evts : \A r \in evts : q <= r].body

Payload(d, p) ==
  LET evts == Scan(d, {"evt"}, p + Length(d[p]))
  IN  IF evts = {} THEN None
      ELSE d[CHOOSE q \in evts : \A r \in evts : q <= r].body

-----------------------------------------------------------------------------
Init ==
  /\ disk = NoRecords /\ size = 0
  /\ mode = "closed"
  /\ buf = NoRecords /\ synced = 0 /\ wpos = 0
  /\ map = EmptyMap /\ lastRa = None /\ fileRec = None
  /\ sessions = 0 /\ puts = 0 /\ crashes = 0

\* A variant with a bug: the stream is not positioned after it is opened.
StartSessionUnsought(pos) ==
  /\ mode = "closed" /\ sessions < MaxSessions
  /\ mode' = "open"
  /\ synced' = 0 /\ wpos' = 0
  /\ sessions' = sessions + 1
  /\ puts' = 0
  /\ UNCHANGED <<buf, crashes>>

StartSession(pos) ==
  /\ mode = "closed" /\ sessions < MaxSessions
  /\ mode' = "open"
  /\ synced' = pos /\ wpos' = pos
  /\ sessions' = sessions + 1
  /\ puts' = 0
  /\ UNCHANGED <<buf, crashes>>

(***************************************************************************)
(* open( WRITE_NEW ): mode "wb" truncates the file.                        *)
(***************************************************************************)
OpenNew ==
  /\ StartSession(0)
  /\ disk' = NoRecords /\ size' = 0
  /\ UNCHANGED writer

(***************************************************************************)
(* open( WRITE_APPEND ) of a file that ends with what is taken for the     *)
(* file record: initAppend reads it and the block it points to, and the    *)
(* stream is positioned on the file record in mode "r+".                   *)
(***************************************************************************)
OpenAppend ==
  LET end   == size - AccLen
      first == disk[end].body.next
  IN  /\ size >= AccLen /\ IsKind(disk, end, "acc")
      /\ StartSession(end)
      /\ fileRec' = disk[end].body
      /\ lastRa' = IF IsKind(disk, first, "acc") THEN disk[first].body ELSE None
      /\ UNCHANGED <<disk, size, map>>

(***************************************************************************)
(* open( WRITE_APPEND ) of a file that does not: initAppend recreates the  *)
(* map, and the stream is opened in mode "ab".  There is no action for the *)
(* outcomes in which open() throws or the process ends in initAppend: they *)
(* leave the file as it is, and the client gives the writer up.            *)
(***************************************************************************)
OpenAppendOld ==
  /\ size >= AccLen /\ ~Readable(disk, size - AccLen)
  /\ ~RecreateThrows(disk, size)
  /\ StartSession(size)
  /\ map' = RecreateEventMap(disk)
  /\ UNCHANGED <<disk, size, lastRa, fileRec>>

(***************************************************************************)
(* What clients do under the rules UniqueKeys and WholeRuns.               *)
(***************************************************************************)
MayWrite(key) ==
  /\ mode = "open" /\ puts < MaxPuts
  /\ UniqueKeys => /\ key \notin Keys(map)
                   /\ \A p \in DOMAIN disk : disk[p].kind \in {"run", "hdr"}
                                            => disk[p].body.key # key
MayClose ==
  LET runsOf(isRun) == {k.RunNum : k \in {x \in Keys(map) : (x.EvtNum < 0) = isRun}}
  IN  WholeRuns => \/ runsOf(TRUE) = {}
                   \/ runsOf(TRUE) = runsOf(FALSE)

WriteRunHeader(r) ==
  /\ MayWrite(RunKey(r))
  /\ buf' = [p \in DOMAIN buf \cup {wpos} |->
               IF p = wpos THEN Record("run", Item(RunKey(r))) ELSE buf[p]]
  /\ wpos' = wpos + DataLen
  /\ map' = Add(map, RunKey(r), wpos)
  /\ puts' = puts + 1
  /\ UNCHANGED <<disk, size, mode, synced, lastRa, fileRec, sessions, crashes>>

(***************************************************************************)
(* writeEvent writes two records; the map gets the position of the first.  *)
(***************************************************************************)
WriteEvent(r, e) ==
  LET key  == EvtKey(r, e)
      epos == wpos + DataLen
  IN  /\ MayWrite(key)
      /\ buf' = [p \in DOMAIN buf \cup {wpos, epos} |->
                   IF p = wpos THEN Record("hdr", Item(key))
                   ELSE IF p = epos THEN Record("evt", Item(key))
                   ELSE buf[p]]
      /\ wpos' = epos + DataLen
      /\ map' = Add(map, key, wpos)
      /\ puts' = puts + 1
      /\ UNCHANGED <<disk, size, mode, synced, lastRa, fileRec, sessions, crashes>>

(***************************************************************************)
(* The bytes written before cut reach the file.  SIOWriter::flush: all.    *)
(***************************************************************************)
Drain(cut) ==
  /\ disk' = Overlay(disk, buf, synced, cut)
  /\ size' = Larger(size, cut)

Flush ==
  /\ mode = "open" /\ buf # NoRecords
  /\ Drain(wpos)
  /\ buf' = NoRecords
  /\ synced' = wpos
  /\ UNCHANGED <<mode, wpos, map, lastRa, fileRec, sessions, puts, crashes>>

(***************************************************************************)
(* createFromEventMap with the locations writeRandomAccessRecords sets,    *)
(* and createFileRecord with its two corrections.  _list is lastRa and the *)
(* new record ra.  Without a file record to start from, _prevLocation is   *)
(* the largest long64, and so apos after the corrections.                  *)
(***************************************************************************)
\* A variant with a bug: the previous block is taken to be where its index is.
NewAccessToIndex(ipos, apos) ==
  [nRun |-> map.nRun, nEvt |-> map.nEvt, index |-> ipos,
   prev |-> IF lastRa = None THEN 0 ELSE lastRa.index, next |-> 0, first |-> apos]

\* A variant with a bug: the previous block is forgotten.
NewAccessUnlinked(ipos, apos) ==
  [nRun |-> map.nRun, nEvt |-> map.nEvt, index |-> ipos,
   prev |-> 0, next |-> 0, first |-> apos]

NewAccess(ipos, apos) ==
  [nRun |-> map.nRun, nEvt |-> map.nEvt, index |-> ipos,
   prev |-> IF lastRa = None THEN 0 ELSE lastRa.first, next |-> 0, first |-> apos]

FileRecord(ra, apos) ==
  LET plus(n, field) == n + ra[field] + (IF lastRa = None THEN 0 ELSE lastRa[field])
      base == IF fileRec = None
              THEN [nRun |-> 0, nEvt |-> 0, index |-> 0, prev |-> apos, next |-> 0, first |-> 0]
              ELSE fileRec
      low  == IF lastRa # None /\ 0 < lastRa.prev THEN Smaller(lastRa.prev, base.prev)
              ELSE base.prev
      high == IF lastRa # None THEN Larger(lastRa.next, base.next) ELSE base.next
  IN  [nRun |-> plus(base.nRun, "nRun"), nEvt |-> plus(base.nEvt, "nEvt"), index |-> 0,
       prev |-> Smaller(low, apos), next |-> Larger(high, apos), first |-> base.first]

(***************************************************************************)
(* close(), first half: writeRandomAccessRecords.                          *)
(***************************************************************************)
WriteRandomAccessRecords ==
  LET apos == wpos + DataLen
      fpos == apos + AccLen
      ra   == NewAccess(wpos, apos)
  IN  /\ mode = "open" /\ MayClose
      /\ mode' = "closing"
      /\ IF IsEmpty(map) THEN UNCHANGED <<buf, wpos>>
         ELSE /\ buf' = [p \in DOMAIN buf \cup {wpos, apos, fpos} |->
                          IF p = wpos THEN Record("idx", Encode(map))
                          ELSE IF p = apos THEN Record("acc", ra)
                          ELSE IF p = fpos THEN Record("acc", FileRecord(ra, apos))
                          ELSE buf[p]]
              /\ wpos' = fpos + AccLen
      /\ UNCHANGED <<disk, size, synced, map, lastRa, fileRec, sessions, puts, crashes>>

\* A variant with a bug: the manager is not cleared.
EndSessionKeepingMap ==
  /\ mode' = "closed"
  /\ buf' = NoRecords /\ synced' = 0 /\ wpos' = 0
  /\ puts' = 0
  /\ UNCHANGED writer

EndSession ==
  /\ mode' = "closed"
  /\ buf' = NoRecords /\ synced' = 0 /\ wpos' = 0
  /\ map' = EmptyMap /\ lastRa' = None /\ fileRec' = None
  /\ puts' = 0

(***************************************************************************)
(* close(), second half: the stream is removed, which closes the file, and *)
(* the manager is cleared.                                                 *)
(***************************************************************************)
CloseStream ==
  /\ mode = "closing"
  /\ Drain(wpos)
  /\ EndSession
  /\ UNCHANGED <<sessions, crashes>>

(***************************************************************************)
(* The process dies: of what it wrote, the bytes before some cut are in    *)
(* the file, and its memory is gone.                                       *)
(***************************************************************************)
Crash ==
  /\ mode # "closed" /\ crashes < MaxCrashes
  /\ \E cut \in synced .. wpos : Drain(cut)
  /\ EndSession
  /\ crashes' = crashes + 1
  /\ UNCHANGED sessions

Next ==
  \/ OpenNew
  \/ OpenAppend
  \/ OpenAppendOld
  \/ \E r \in Runs : WriteRunHeader(r)
  \/ \E r \in Runs, e \in Evts : WriteEvent(r, e)
  \/ Flush
  \/ WriteRandomAccessRecords
  \/ CloseStream
  \/ Crash

Spec == Init /\ [][Next]_vars

-----------------------------------------------------------------------------
(***************************************************************************)
(* What a direct access reader finds in the file, and with which version.  *)
(***************************************************************************)
Direct == CreateEventMap(disk, size)
Versions(entries) == [k \in DOMAIN entries |-> disk[entries[k]].body.ver]
SumOver(S, field) == FoldSet(LAMBDA p, n : n + disk[p].body[field], 0, S)
Blocks == {p \in DOMAIN disk : IsKind(disk, p, "acc") /\ disk[p].body.index # 0}

IsAccess(body) ==
  \A f \in {"nRun", "nEvt", "index", "prev", "next", "first"} : body[f] \in Nat
WellFormed(rec) ==
  /\ rec.ok \in BOOLEAN
  /\ \/ rec.kind \in {"run", "hdr", "evt"} /\ rec.body.key \in MapKeys /\ rec.body.ver \in Nat
     \/ rec.kind = "idx"
     \/ rec.kind = "acc" /\ IsAccess(rec.body)

(***************************************************************************)
(* The types of the variables.                                             *)
(***************************************************************************)
TypeOK ==
  /\ size \in Nat /\ synced \in Nat /\ wpos \in Nat
  /\ mode \in {"closed", "open", "closing"}
  /\ DOMAIN disk \subseteq Nat /\ \A p \in DOMAIN disk : WellFormed(disk[p])
  /\ DOMAIN buf \subseteq Nat /\ \A p \in DOMAIN buf : WellFormed(buf[p])
  /\ Keys(map) \subseteq MapKeys /\ \A k \in Keys(map) : map.pos[k] \in Nat
  /\ map.nRun \in Nat /\ map.nEvt \in Nat
  /\ lastRa = None \/ IsAccess(lastRa)
  /\ fileRec = None \/ IsAccess(fileRec)
  /\ sessions \in Nat /\ puts \in Nat /\ crashes \in Nat

(***************************************************************************)
(* The layout of the file, which the seeks to absolute positions rely on:  *)
(* no two records overlap, and what lies where a writer is going to write  *)
(* is at most the file record it found when it opened the file.            *)
(***************************************************************************)
Disjoint(f) == \A p, q \in DOMAIN f : p < q /\ f[p].ok => p + Length(f[p]) <= q
OnDisk == \A p \in DOMAIN disk :
            /\ p + HeadLen <= size
            /\ disk[p].ok => p + Length(disk[p]) <= size
InBuffer == \A p \in DOMAIN buf :
              buf[p].ok /\ synced <= p /\ p + Length(buf[p]) <= wpos
InTheWay == mode # "closed" => \A p \in DOMAIN disk :
              IF p < synced THEN disk[p].ok => p + Length(disk[p]) <= synced
                            ELSE disk[p].kind = "acc"
Layout == Disjoint(disk) /\ Disjoint(buf) /\ OnDisk /\ InBuffer /\ InTheWay

(***************************************************************************)
(* No step but creating the file anew changes or removes a record that is  *)
(* intact, except LCIORandomAccess records, whatever sessions are appended *)
(* and wherever writers die.                                               *)
(***************************************************************************)
RecordsKept ==
  [][OpenNew \/ \A p \in DOMAIN disk : disk[p].ok /\ disk[p].kind # "acc"
                  => p \in DOMAIN disk' /\ disk'[p] = disk[p]]_vars

(***************************************************************************)
(* The list of blocks is complete: from the file record at the end of a    *)
(* closed file the previous pointers lead through every block that was     *)
(* ever written and to nothing else (LCIORandomAccessMgr.h:25).            *)
(***************************************************************************)
ChainComplete ==
  mode = "closed" /\ size > 0 =>
    /\ IsKind(disk, size - AccLen, "acc") /\ disk[size - AccLen].body.index = 0
    /\ Chain(disk, disk[size - AccLen].body.next) = Blocks

(***************************************************************************)
(* Direct access to a closed file finds the runs and events that reading   *)
(* it from the start finds, at the same positions and in the same number.  *)
(***************************************************************************)
DirectIsSequential ==
  mode = "closed" /\ size > 0 =>
    Direct = [status |-> "ok", map |-> RecreateEventMap(disk)]

(***************************************************************************)
(* readEvent returns the contents that were written with the event: the    *)
(* event record that follows its header belongs to it.  LCReader.h:        *)
(* "Reads the specified event from file."                                  *)
(***************************************************************************)
ReadsOwnPayload ==
  mode = "closed" => \A k \in Keys(Direct.map) :
    LET p == Direct.map.pos[k]
    IN  k.EvtNum >= 0 => Payload(disk, p) \in {None, disk[p].body}

(***************************************************************************)
(* The numbers in the file record are those of all LCIORandomAccess        *)
(* records of the file (LCIORandomAccessMgr.h:109: "Create file record     *)
(* from all LCIORandomAccess records").                                    *)
(***************************************************************************)
FileRecordTotals ==
  mode = "closed" /\ size > 0 =>
    disk[size - AccLen].body.nEvt = SumOver(Blocks, "nEvt")

(***************************************************************************)
(* Direct access never leads astray, whatever crashed: the position of a   *)
(* key in the event map is that of an intact header with this key.         *)
(***************************************************************************)
DirectSound ==
  mode = "closed" => \A k \in Keys(Direct.map) :
    LET p == Direct.map.pos[k]
    IN  Readable(disk, p) /\ disk[p].kind \in {"run", "hdr"} /\ disk[p].body.key = k

(***************************************************************************)
(* Once blocks are found they are found to the end: following the previous *)
(* pointers of a file that crashed writers left never fails or loops.      *)
(***************************************************************************)
ChainEnds == mode = "closed" => Direct.status \notin {"broken", "endless"}

(***************************************************************************)
(* Every event that reading from the start finds is found by direct access *)
(* ("a RunEvent map is created by reading all LCIORandomAccess and         *)
(* LCIOIndex records or - for old files - is recreated",                   *)
(* LCIORandomAccessMgr.h:27).                                              *)
(***************************************************************************)
DirectComplete ==
  mode = "closed" /\ Direct.status = "ok" =>
    \A p \in Headers(disk) : disk[p].body.key \in Keys(Direct.map)

(***************************************************************************)
(* A key that is written again is found at its new position                *)
(* (LCIORandomAccessMgr.h:57: "if the RunEvent already exists the new      *)
(* position will be stored").                                              *)
(***************************************************************************)
NewestFound ==
  mode = "closed" => \A k \in Keys(Direct.map) :
    \A p \in Headers(disk) : disk[p].body.key = k => p <= Direct.map.pos[k]

(***************************************************************************)
(* Appending, flushing, closing and dying keep every run, event header and *)
(* event that could be read before, at its position; only creating the     *)
(* file anew removes any.                                                  *)
(***************************************************************************)
ReadableKept ==
  [][OpenNew \/ LET all == {"run", "hdr", "evt"}
                IN  \A p \in Scan(disk, all, 0) :
                      p \in Scan(disk', all, 0) /\ disk'[p] = disk[p]]_vars

(***************************************************************************)
(* The file as an EventStore.  While a writer is at work, what is stored   *)
(* is what the block it started from leads to or, for an old file, what    *)
(* was recreated in its map.                                               *)
(***************************************************************************)
HeaderItems == {r.body : r \in {x \in {disk[p] : p \in DOMAIN disk} \cup
                                     {buf[p] : p \in DOMAIN buf} :
                               x.kind \in {"run", "hdr"}}}
Written == [k \in {i.key : i \in HeaderItems} |->
              (CHOOSE i \in HeaderItems : i.key = k).ver]

Stored ==
  LET linked == IF lastRa = None THEN NoRecords ELSE ChainEntries(disk, lastRa.first)
      old    == {k \in Keys(map) : map.pos[k] \in DOMAIN disk /\ Written[k] < sessions}
  IN  IF mode = "closed" THEN Versions(Direct.map.pos)
      ELSE [k \in DOMAIN linked \cup old |->
              IF k \in old THEN Written[k] ELSE Versions(linked)[k]]

Store == INSTANCE EventStore WITH
  StoreKeys <- {RunKey(r) : r \in Runs} \cup {EvtKey(r, e) : r \in Runs, e \in Evts},
  open <- mode # "closed", epoch <- sessions, written <- Written, stored <- Stored

(***************************************************************************)
(* A session makes everything it wrote available to direct access when it  *)
(* is closed, keeps what was available before, and never makes a key lead  *)
(* to what was not written under it, also after writers died: this is the  *)
(* module's claim to implement EventStore.                                 *)
(***************************************************************************)
ImplementsStore == Store!StoreSpec

=============================================================================
