----------------------------- MODULE SIOReader -----------------------------
(***************************************************************************)
(* SIOReader: one reader that is opened for a file or a list of files,     *)
(* reads on, skips, reads by key with or without an event map, and drives  *)
(* listeners from readStream.                                              *)
(*                                                                         *)
(* A file is the sequence of its records; a position is an index into it.  *)
(* A record of the kind "toc" at the end stands for the index and access   *)
(* records of a file that was closed, "junk" for bytes in which no record  *)
(* marker is found; a record that is not ok is torn.  What a reader holds  *)
(* (_run, _evt and the collections in it) is named by the file and index   *)
(* of the record it was read from.  LCIORandomAccess says how direct       *)
(* access finds positions in files written in several sessions.            *)
(***************************************************************************)
EXTENDS RunEventMap, SequencesExt

CONSTANTS Files,         \* names of files
          Contents,      \* functions from Files to sequences of records
          Lists,         \* lists of files that clients open
          Asked,         \* keys clients ask for
          Listeners,     \* addresses of listeners; a std::set is in their order
          MaxCalls,      \* bound: calls of the client
          MaxSkip,       \* bound: events skipped by one call
          Batch,         \* number of records given to readStream
          NewReaders,    \* a reader is not opened for a file after others
          None           \* null pointer

ASSUME ReaderAssumption ==
  /\ \A content \in Contents : content \in [Files -> Seq([kind : STRING, key : MapKeys, ok : BOOLEAN])]
  /\ Lists \subseteq Seq(Files) \ {<< >>}
  /\ Asked \subseteq MapKeys /\ Listeners \subseteq Nat
  /\ MaxCalls \in Nat /\ MaxSkip \in Nat /\ Batch \in Nat \ {0}
  /\ NewReaders \in BOOLEAN
  /\ None \notin Nat /\ None \notin {"run", "evt"}

\* Where no record marker is found there is no record to be unpacked.
ASSUME JunkAssumption ==
  \A content \in Contents : \A f \in Files : \A i \in DOMAIN content[f] :
    content[f][i].kind = "junk" => ~content[f][i].ok

VARIABLES
  content,      \* file -> records
  rd,           \* the reader
  res,          \* what the last call that ended returned
  asked,        \* files named by the last open
  task,         \* readStream in progress, or None
  listeners,    \* _runListeners and _evtListeners
  calls         \* number of calls so far

vars == <<content, rd, res, asked, task, listeners, calls>>

-----------------------------------------------------------------------------
(***************************************************************************)
(* The reader: the stream's state and position in a file, _myFilenames and *)
(* _currentFileIndex, _readEventMap and the manager's map, _run, _evt and  *)
(* the record that the collections of _evt were read from.                 *)
(***************************************************************************)
NewReader(direct) ==
  [stream |-> "none", file |-> None, pos |-> 1, names |-> << >>, index |-> 0,
   direct |-> direct, map |-> EmptyMap, run |-> None, evt |-> None, data |-> None]

Outcome(r, status) == [rd |-> r, status |-> status]
Then(o, Call(_)) == IF o.status = "ok" THEN Call(o.rd) ELSE o

Records(r) == content[r.file]
RecordOf(ref) == content[ref[1]][ref[2]]
RunNumber(ref) == RecordOf(ref).key.RunNum
EvtNumber(ref) == RecordOf(ref).key.EvtNum

\* What the record at index i leaves in the reader.
Unpacked(r, i) ==
  LET ref == <<r.file, i>>
  IN  CASE Records(r)[i].kind = "run" -> [r EXCEPT !.pos = i + 1, !.run = ref]
        [] Records(r)[i].kind = "hdr" -> [r EXCEPT !.pos = i + 1, !.evt = ref, !.data = None]
        [] OTHER -> [r EXCEPT !.pos = i + 1, !.data = ref]

(***************************************************************************)
(* SIO_stream::read: the next record that is wanted is unpacked, others    *)
(* are passed over by their length.  For want of records the status says   *)
(* end of file; bytes without a marker and torn data put the stream into   *)
(* the error state, with a status in which the end-of-file bit is set too. *)
(***************************************************************************)
ReadHere(r, wanted) ==
  LET hits == {i \in r.pos .. Len(Records(r)) : Records(r)[i].kind \in wanted \cup {"junk"}}
      i    == CHOOSE j \in hits : \A h \in hits : j <= h
      atEnd == [r EXCEPT !.pos = Len(Records(r)) + 1]
  IN  IF r.stream # "open" THEN Outcome(r, "IOException")
      ELSE IF hits = {} THEN Outcome(atEnd, "EOF")
      ELSE IF ~Records(r)[i].ok THEN Outcome([atEnd EXCEPT !.stream = "error"], "EOF")
      ELSE Outcome(Unpacked(r, i), "ok")

(***************************************************************************)
(* close() and open() of the file at an index of the list: direct access   *)
(* ends with the first file.                                               *)
(***************************************************************************)
Closed(r) == [r EXCEPT !.stream = "none", !.map = EmptyMap, !.direct = FALSE]

\* A variant with a bug: the index has been incremented once too often.
OpenedAtNext(r, i) == [r EXCEPT !.stream = "open", !.index = i + 1, !.file = r.names[i + 1], !.pos = 1]

OpenedAt(r, i) == [r EXCEPT !.stream = "open", !.index = i, !.file = r.names[i + 1], !.pos = 1]

\* A variant with a bug: reading goes on with the first file of the list.
ReadRecordRewinding(r, wanted) ==
  LET o == ReadHere(r, wanted)
  IN  IF o.status = "EOF" /\ r.index + 1 < Len(r.names)
      THEN ReadHere(OpenedAt(Closed(o.rd), 0), wanted) ELSE o

(***************************************************************************)
(* readRecord: at the end of a file that is not the last of the list the   *)
(* next one is opened and read.                                            *)
(***************************************************************************)
ReadRecord(r, wanted) ==
  LET here == ReadHere(r, wanted)
      fromFile[i \in Nat] ==
        LET o == ReadHere(OpenedAt(Closed(here.rd), i), wanted)
        IN  IF o.status = "EOF" /\ i + 1 < Len(r.names) THEN fromFile[i + 1] ELSE o
  IN  IF here.status = "EOF" /\ r.index + 1 < Len(r.names)
      THEN fromFile[r.index + 1] ELSE here

ReadRunRecord(r) == ReadRecord(r, {"run"})
ReadHdrRecord(r) == ReadRecord(r, {"hdr"})
ReadEvtRecord(r) == ReadRecord(r, {"evt"})

(***************************************************************************)
(* Repeated reads, up to the first after which there is enough or which    *)
(* fails; no more than there are records.                                  *)
(***************************************************************************)
ReadUntil(r, Read(_), Enough(_)) ==
  LET most == 1 + Len(Records(r)) + Len(FlattenSeq([i \in DOMAIN r.names |-> content[r.names[i]]]))
      after[i \in Nat] ==
        IF i <= 1 THEN Read(r)
        ELSE LET o == after[i - 1]
             IN  IF o.status # "ok" \/ Enough(o.rd) THEN o ELSE Read(o.rd)
  IN  after[most]

-----------------------------------------------------------------------------
(***************************************************************************)
(* The calls that read.                                                    *)
(***************************************************************************)
NextEventOf(r) == Then(ReadHdrRecord(r), ReadEvtRecord)

SkipEventsOf(r, n) ==
  LET after[i \in Nat] == IF i = 0 THEN Outcome(r, "ok") ELSE Then(after[i - 1], ReadHdrRecord)
  IN  Then(after[n], ReadEvtRecord)

(***************************************************************************)
(* createEventMap, on a file written in one session: the file's own index, *)
(* or all run and event headers; then back to the start.  It throws when   *)
(* the stream is not open, the file is too short for a file record, or the *)
(* headers end in an error; those found before are in the map then.        *)
(***************************************************************************)
CreateEventMap(r) ==
  LET recs  == Records(r)
      toc   == recs # << >> /\ Last(recs).kind = "toc" /\ Last(recs).ok
      heads == {i \in DOMAIN recs : recs[i].kind \in {"run", "hdr"} /\ recs[i].ok}
      at(k) == {i \in heads : recs[i].key = k}
      bad   == \E i \in DOMAIN recs : recs[i].kind \in {"run", "hdr", "junk"} /\ ~recs[i].ok
      full  == [r EXCEPT !.direct = TRUE, !.pos = 1,
                         !.map = AddAll(@, [k \in {recs[i].key : i \in heads} |->
                                              CHOOSE i \in at(k) : \A j \in at(k) : j <= i])]
  IN  IF r.stream # "open" THEN Outcome([r EXCEPT !.direct = TRUE], "IOException")
      ELSE IF recs = << >> \/ (~toc /\ bad)
           THEN Outcome([full EXCEPT !.stream = "error", !.pos = Len(recs) + 1], "IOException")
      ELSE Outcome(full, "ok")

(***************************************************************************)
(* By key with an event map: seek and read on.  The seek does not end the  *)
(* error state.                                                            *)
(***************************************************************************)
ReadAt(r, key, Read(_)) ==
  IF GetPosition(r.map, key) = NPos THEN Outcome(r, "null")
  ELSE Read([r EXCEPT !.pos = GetPosition(r.map, key)])

(***************************************************************************)
(* readEvent without an event map: read on to the run header, unless the   *)
(* last one read has this run, then to a header with the event number.     *)
(***************************************************************************)
FastSkip(r, key) ==
  LET isRun(x) == RunNumber(x.run) = key.RunNum
      isEvt(x) == EvtNumber(x.evt) = key.EvtNum
      toEvt(x) == Then(ReadUntil(x, ReadHdrRecord, isEvt), ReadEvtRecord)
  IN  IF r.run # None /\ RunNumber(r.run) = key.RunNum THEN toEvt(r)
      ELSE Then(ReadUntil(r, ReadRunRecord, isRun), toEvt)

ReadRunHeaderOf(r, key) ==
  IF r.direct THEN ReadAt(r, key, ReadRunRecord) ELSE Outcome(r, "null")

ReadEventOf(r, key) ==
  IF r.direct THEN ReadAt(r, key, NextEventOf) ELSE FastSkip(r, key)

\* getNumberOfEvents, getNumberOfRuns, getEvents and getRuns.
CountOf(r) == IF r.direct THEN Outcome(r, "ok") ELSE CreateEventMap(r)

-----------------------------------------------------------------------------
(***************************************************************************)
(* What calls return.  A run header carries the name of the file it is     *)
(* taken to be from.                                                       *)
(***************************************************************************)
RunItem(r) == [key |-> RecordOf(r.run).key, head |-> r.run, data |-> r.run,
               name |-> r.names[r.index + 1]]
EvtItem(r) == [key |-> RecordOf(r.evt).key, head |-> r.evt, data |-> r.data, name |-> None]
Numbers(r) == [nRun |-> r.map.nRun, nEvt |-> r.map.nEvt]
Result(key, status, item) == [key |-> key, status |-> status, item |-> item]

Ready == task = None /\ rd.stream # "none" /\ calls < MaxCalls

\* The effect of a call with the outcome o; item is what it returns if it succeeds.
Answer(o, key, Item(_)) ==
  /\ rd' = o.rd
  /\ res' = Result(key, o.status, IF o.status = "ok" THEN Item(o.rd) ELSE None)
  /\ calls' = calls + 1
  /\ UNCHANGED <<content, asked, task, listeners>>

NoItem(r) == None

Init ==
  /\ content \in Contents
  /\ \E direct \in BOOLEAN : rd = NewReader(direct)
  /\ res = Result(None, "ok", None)
  /\ asked = << >>
  /\ task = None
  /\ listeners \in [{"run", "evt"} -> SUBSET Listeners]    \* registered before
  /\ calls = 0

\* open, once the names are stored: if direct access was asked for, the map is made.
OpenStream(r) == IF r.direct THEN CreateEventMap(r) ELSE Outcome(r, "ok")

OpenCall(names, o) ==
  /\ task = None /\ rd.stream = "none" /\ calls < MaxCalls
  /\ rd' = o.rd
  /\ res' = Result(None, o.status, None)
  /\ asked' = names
  /\ calls' = calls + 1
  /\ UNCHANGED <<content, task, listeners>>

OpenList(names) == OpenCall(names, OpenStream(OpenedAt([rd EXCEPT !.names = names], 0)))

(***************************************************************************)
(* open of a single file: it is the list only if there is no list yet.     *)
(***************************************************************************)
OpenFile(f) ==
  LET o == OpenStream([rd EXCEPT !.stream = "open", !.file = f, !.pos = 1])
      r == IF o.status = "ok" /\ o.rd.names = << >> THEN [o.rd EXCEPT !.names = <<f>>] ELSE o.rd
  IN  /\ NewReaders => rd.names \in {<< >>, <<f>>}
      /\ OpenCall(<<f>>, Outcome(r, o.status))

ReadNextRunHeader == Ready /\ Answer(ReadRunRecord(rd), None, RunItem)
ReadNextEvent     == Ready /\ Answer(NextEventOf(rd), None, EvtItem)
SkipNEvents(n)    == Ready /\ Answer(SkipEventsOf(rd, n), None, NoItem)
GetNumbers        == Ready /\ Answer(CountOf(rd), None, Numbers)

ReadRunHeader(key) ==
  Ready /\ key.EvtNum = -1 /\ Answer(ReadRunHeaderOf(rd, key), key, RunItem)
ReadEvent(key) ==
  Ready /\ key.EvtNum >= 0 /\ Answer(ReadEventOf(rd, key), key, EvtItem)

Close == Ready /\ Answer(Outcome(Closed(rd), "ok"), None, NoItem)

-----------------------------------------------------------------------------
(***************************************************************************)
(* readStream: "left" records are still to be read, None for all; "to" is  *)
(* the kind of listeners that are being told of a record, "iter" the one   *)
(* whose callback runs, "told" those before it and "meant" those that have *)
(* been registered ever since the record was read.                         *)
(***************************************************************************)
Task(left) == [left |-> left, to |-> None, iter |-> None, told |-> {}, meant |-> {}]

ReadStream(left) ==
  /\ Ready
  /\ task' = Task(left)
  /\ calls' = calls + 1
  /\ UNCHANGED <<content, rd, res, asked, listeners>>

LeastOf(S) == IF S = {} THEN None ELSE CHOOSE l \in S : \A m \in S : l <= m

\* The next record is read, and the first listener for its kind is called.
StreamRead ==
  LET o     == ReadRecord(rd, {"run", "hdr", "evt"})
      kind  == Records(o.rd)[o.rd.pos - 1].kind
      first == LeastOf(listeners[kind])
      less  == IF task.left = None THEN None ELSE task.left - 1
  IN  /\ task # None /\ task.to = None /\ task.left # 0
      /\ rd' = o.rd
      /\ \/ /\ o.status = "ok" /\ kind = "hdr"
            /\ UNCHANGED <<res, task>>
         \/ /\ o.status = "ok" /\ kind # "hdr"
            /\ task' = [left |-> less, to |-> IF first = None THEN None ELSE kind,
                        iter |-> first, told |-> {}, meant |-> listeners[kind]]
            /\ res' = Result(None, "ok", IF kind = "run" THEN RunItem(o.rd) ELSE EvtItem(o.rd))
         \/ /\ o.status # "ok"
            /\ task' = None
            /\ res' = Result(None, IF o.status = "EOF" /\ task.left = None THEN "ok"
                                   ELSE o.status, None)
      /\ UNCHANGED <<content, asked, listeners, calls>>

\* A variant with a bug: the iterator is incremented twice.
CallbackReturnsSkipping ==
  LET skipped == LeastOf({l \in listeners[task.to] : l > task.iter})
      next == IF skipped = None THEN None
              ELSE LeastOf({l \in listeners[task.to] : l > skipped})
  IN  /\ task # None /\ task.to # None
      /\ task' = [task EXCEPT !.iter = next, !.told = @ \cup {task.iter},
                              !.to = IF next = None THEN None ELSE @]
      /\ UNCHANGED <<content, rd, res, asked, listeners, calls>>

\* The callback returns and the iterator goes to the next element of the set.
CallbackReturns ==
  LET next == LeastOf({l \in listeners[task.to] : l > task.iter})
  IN  /\ task # None /\ task.to # None
      /\ task' = [task EXCEPT !.iter = next, !.told = @ \cup {task.iter},
                              !.to = IF next = None THEN None ELSE @]
      /\ UNCHANGED <<content, rd, res, asked, listeners, calls>>

StreamDone ==
  /\ task # None /\ task.to = None /\ task.left = 0
  /\ task' = None
  /\ UNCHANGED <<content, rd, res, asked, listeners, calls>>

\* A listener throws: the exception leaves readStream.
CallbackThrows ==
  /\ task # None /\ task.to # None
  /\ task' = None
  /\ UNCHANGED <<content, rd, res, asked, listeners, calls>>

(***************************************************************************)
(* Listeners come and go between calls and during callbacks.  Erasing a    *)
(* listener that is not registered, or the one the iterator is at, is      *)
(* undefined: clients do neither.                                          *)
(***************************************************************************)
InCallback == task # None /\ task.to # None

RegisterListener(kind, l) ==
  /\ task = None \/ InCallback
  /\ calls < MaxCalls /\ calls' = calls + 1
  /\ listeners' = [listeners EXCEPT ![kind] = @ \cup {l}]
  /\ UNCHANGED <<content, rd, res, asked, task>>

RemoveListener(kind, l) ==
  /\ task = None \/ (InCallback /\ ~(task.to = kind /\ task.iter = l))
  /\ l \in listeners[kind]
  /\ calls < MaxCalls /\ calls' = calls + 1
  /\ listeners' = [listeners EXCEPT ![kind] = @ \ {l}]
  /\ task' = IF InCallback /\ task.to = kind THEN [task EXCEPT !.meant = @ \ {l}] ELSE task
  /\ UNCHANGED <<content, rd, res, asked>>

-----------------------------------------------------------------------------
Next ==
  \/ \E names \in Lists : OpenList(names)
  \/ \E f \in Files : OpenFile(f)
  \/ ReadNextRunHeader \/ ReadNextEvent
  \/ \E n \in 1 .. MaxSkip : SkipNEvents(n)
  \/ GetNumbers
  \/ \E key \in Asked : ReadRunHeader(key) \/ ReadEvent(key)
  \/ Close
  \/ \E left \in {Batch, None} : ReadStream(left)
  \/ StreamRead \/ CallbackReturns \/ StreamDone \/ CallbackThrows
  \/ \E kind \in {"run", "evt"}, l \in Listeners :
       RegisterListener(kind, l) \/ RemoveListener(kind, l)

(***************************************************************************)
(* The steps of readStream are taken by the thread that called it, and     *)
(* callbacks return or throw.                                              *)
(***************************************************************************)
StreamStep == task # None /\ (StreamRead \/ CallbackReturns \/ StreamDone)
Fairness == WF_vars(StreamStep)

Spec == Init /\ [][Next]_vars
FairSpec == Spec /\ Fairness

-----------------------------------------------------------------------------
(***************************************************************************)
(* The refinement: the run headers and intact events of the open files, in *)
(* the order of the list, and how many of them lie before the position.    *)
(***************************************************************************)
Shelf == IF rd.stream = "none" THEN << >>
         ELSE IF rd.names = << >> THEN <<rd.file>> ELSE rd.names

IsItem(recs, i) ==
  /\ recs[i].ok
  /\ \/ recs[i].kind = "run"
     \/ recs[i].kind = "hdr" /\ i < Len(recs) /\ recs[i + 1].kind = "evt" /\ recs[i + 1].ok

ItemAt(recs, f, i) ==
  LET isRun == recs[i].kind = "run"
  IN  [key |-> recs[i].key, head |-> <<f, i>>,
       data |-> <<f, IF isRun THEN i ELSE i + 1>>, name |-> IF isRun THEN f ELSE None]

ItemsOf(recs, f, p) ==
  LET inds == SelectSeq([i \in DOMAIN recs |-> i], LAMBDA i : IsItem(recs, i))
  IN  [j \in DOMAIN inds |-> [what |-> ItemAt(recs, f, inds[j]), part |-> p]]

Shelves == {<< >>} \cup {<<f>> : f \in Files} \cup Lists

\* Tabulated: TLC evaluates this constant once.
ItemsOnShelf ==
  [c \in Contents |-> [names \in Shelves |->
     FlattenSeq([p \in DOMAIN names |-> ItemsOf(c[names[p]], names[p], p)])]]

ShelfItems == ItemsOnShelf[content][Shelf]

PassedItems ==
  LET its == ShelfItems
  IN  Cardinality({i \in DOMAIN its :
                     \/ its[i].part < rd.index + 1
                     \/ its[i].part = rd.index + 1 /\ its[i].what.data[2] < rd.pos})

Undamaged(f) ==
  LET recs == content[f]
  IN  /\ recs # << >>
      /\ \A i \in DOMAIN recs : recs[i].kind \in {"run", "hdr"} => IsItem(recs, i)
      /\ \A i \in DOMAIN recs : recs[i].ok

ShelfParts == {1} \cup UNION {DOMAIN names : names \in Lists}

Cursor == INSTANCE EventCursor WITH
  CursorItem <- [what : [key : MapKeys, head : Files \X Nat, data : Files \X Nat,
                         name : Files \cup {None}],
                 part : ShelfParts],
  CursorKeys <- Asked, Parts <- ShelfParts, MaxSkip <- MaxSkip, Nothing <- None,
  items <- ShelfItems,
  at    <- PassedItems,
  book  <- IF rd.stream = "open" /\ rd.direct
           THEN LET its == ShelfItems IN {i \in DOMAIN its : its[i].part = rd.index + 1}
           ELSE {},
  whole <- \A p \in DOMAIN Shelf : Undamaged(Shelf[p]),
  sound <- rd.stream # "error",
  got   <- res.item

(***************************************************************************)
(* The reader of one file or a list, with or without direct access, damage *)
(* at the ends of files, and any order of calls, is a cursor: it returns   *)
(* what comes next, once, with the contents and the file name that belong  *)
(* to it, over the ends of files, and by key from the file that is open.   *)
(***************************************************************************)
ImplementsCursor == Cursor!CursorSpec

(***************************************************************************)
(* Every part of the reader's state has its type, and what it holds refers *)
(* to intact records of the kinds they must have.                          *)
(***************************************************************************)
TypeOK ==
  LET refers(ref, kind) == ref # None =>
        /\ ref[1] \in Files /\ ref[2] \in DOMAIN content[ref[1]]
        /\ RecordOf(ref).kind = kind /\ RecordOf(ref).ok
  IN  /\ content \in Contents
      /\ rd.stream \in {"none", "open", "error"} /\ rd.direct \in BOOLEAN
      /\ rd.stream # "none" => rd.file \in Files /\ rd.pos \in 1 .. Len(Records(rd)) + 1
      /\ rd.names = << >> \/ rd.index + 1 \in DOMAIN rd.names
      /\ refers(rd.run, "run") /\ refers(rd.evt, "hdr") /\ refers(rd.data, "evt")
      /\ listeners \in [{"run", "evt"} -> SUBSET Listeners]
      /\ task = None \/ (task.iter = None <=> task.to = None)

(***************************************************************************)
(* Whatever listeners are registered and removed by the callbacks of one   *)
(* record, nobody is told of it twice, and everybody who was registered    *)
(* from its reading to the end of its round has been told.                 *)
(***************************************************************************)
ToldOnce ==
  [][InCallback /\ task' # None =>
       /\ task'.iter \notin task'.told
       /\ task'.to = None => task'.meant \subseteq task'.told]_vars

(***************************************************************************)
(* readStream ends, over any list of files and whatever its listeners do.  *)
(***************************************************************************)
StreamEnds == task # None ~> task = None

(***************************************************************************)
(* LCReader.h: readEvent "Reads the specified event from file": an event   *)
(* it returns has the run and event number that were asked for.            *)
(***************************************************************************)
ReadsSpecified == (res.key # None /\ res.item # None) => res.item.key = res.key

(***************************************************************************)
(* LCReader.h: open "Opens a file for reading": what a reader returns is   *)
(* from the files it was opened for last.                                  *)
(***************************************************************************)
OwnFilesOnly ==
  (rd.stream # "none" /\ res.item # None /\ DOMAIN res.item # {"nRun", "nEvt"})
     => \E i \in DOMAIN asked : res.item.head[1] = asked[i]

=============================================================================
