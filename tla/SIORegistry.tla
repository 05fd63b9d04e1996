----------------------------- MODULE SIORegistry -----------------------------
(***************************************************************************)
(* What all readers and writers of a process share: the block manager,     *)
(* which maps the name of a block to the handler that transfers it, the    *)
(* connections of the event record, and the flags that say which records   *)
(* are unpacked.  A reader or writer owns the handlers of the run and the  *)
(* event header; the handlers of collections belong to nobody, stay after  *)
(* the call that made them and are used by whoever comes next.  Calls do   *)
(* not overlap, but a listener may make calls while readStream of another  *)
(* reader goes on.                                                         *)
(***************************************************************************)
EXTENDS Naturals, FiniteSets, Functions

CONSTANTS
  Readers, Writers,
  Names,      \* of collections
  Supported,  \* types that SIOHandlerMgr has a handler for
  Stored,     \* events on files: functions from names to types
  Given,      \* events to write, of the same kind
  Subsets,    \* the sets of names given to setReadCollectionNames
  Nobody,     \* no reader or writer
  MaxCalls    \* bound on the calls

Clients == Readers \cup Writers
Records == {"Event", "Header", "Run", "Access", "Index"}
Own == {"RunHeader", "EventHeader"}
NoEvent == [n \in {} |-> "none"]

ASSUME RegistryAssumption ==
  /\ Nobody \notin Clients /\ Readers \cap Writers = {}
  /\ Names \cap Own = {}
  /\ \A e \in Stored \cup Given : DOMAIN e \subseteq Names
  /\ Subsets \subseteq SUBSET Names /\ MaxCalls \in Nat

VARIABLES
  alive,      \* readers and writers that exist
  blockMap,   \* SIO_blockManager: name -> [owner, type, dest]
  connected,  \* the blocks connected to the event record
  evt,        \* _evt of each reader: the collections in it
  colSubSet,  \* of each reader's event handler
  unpack,     \* the records that are unpacked
  streaming,  \* the reader in readStream, or Nobody
  killed,     \* history: owners of handlers that clear() deleted
  last,       \* history: the last call
  calls

vars == <<alive, blockMap, connected, evt, colSubSet, unpack, streaming, killed, last, calls>>

OwnHandler(c) == [owner |-> c, type |-> "header", dest |-> Nobody]
\* Mutant: the handler belongs to the reader it was made for.
OwnedColHandler(type, dest) == [owner |-> dest, type |-> type, dest |-> dest]
\* dest: the reader whose event the handler fills, if one has set it.
ColHandler(type, dest) == [owner |-> Nobody, type |-> type, dest |-> dest]
IsColHandler(h) == h.owner = Nobody

Call(op, c) == [op |-> op, by |-> c, ok |-> TRUE, names |-> {}, filled |-> {}, stray |-> {}]

Init ==
  /\ alive = {} /\ blockMap = NoEvent /\ connected = {}
  /\ evt = [r \in Readers |-> NoEvent] /\ colSubSet = [r \in Readers |-> {}]
  /\ unpack = Records /\ streaming = Nobody /\ killed = {}
  /\ last = Call("none", Nobody) /\ calls = 0

-----------------------------------------------------------------------------
(* SIO_blockManager and SIO_block *)

\* SIO_blockManager::add: fails without a word if the name is taken.
Add(m, n, h) == IF n \in DOMAIN m THEN m ELSE [x \in DOMAIN m \cup {n} |-> IF x = n THEN h ELSE m[x]]
Without(m, names) == Restrict(m, DOMAIN m \ names)

\* Mutant: looks whether it is this handler that has the name.
DestroyedIfMine(m, n, c) == IF n \in DOMAIN m /\ m[n].owner = c THEN Without(m, {n}) ELSE m
\* SIO_block::~SIO_block takes the name of the deleted handler of c out of the
\* map, whichever block has it.
Destroyed(m, n, c) == Without(m, {n})

\* What clear() deletes.
Cleared(m) == {m[n].owner : n \in DOMAIN m} \ {Nobody}

\* SIOReader::readRecord puts the reader's own handlers into the map.
Reregistered(m, r) ==
  [n \in DOMAIN m \cup Own |-> IF n \in Own THEN OwnHandler(r) ELSE m[n]]

\* Mutant: every record is left as the last scope set none of them.
NoneRestored(flags) == {}
\* SIORecords::Unpack::~Unpack passes the array of the saved flags for a flag.
Restored(flags) == Records

-----------------------------------------------------------------------------
(* The calls. *)

\* Bound: nothing more is looked at after a call that went wrong.
MayCall == calls < MaxCalls /\ last.ok
Count == calls' = calls + 1

\* The constructors: only the first one's handlers get into the map.
New(c) ==
  /\ MayCall /\ c \notin alive
  /\ alive' = alive \cup {c}
  /\ blockMap' = Add(Add(blockMap, "RunHeader", OwnHandler(c)), "EventHeader", OwnHandler(c))
  /\ last' = Call("new", c) /\ Count
  /\ UNCHANGED <<connected, evt, colSubSet, unpack, streaming, killed>>

\* The destructors: the handlers of c, then all that are in the map.
Delete(c) ==
  /\ MayCall /\ c \in alive /\ c # streaming
  /\ LET m == Destroyed(Destroyed(blockMap, "RunHeader", c), "EventHeader", c)
     IN killed' = killed \cup Cleared(m)
  /\ alive' = alive \ {c} /\ blockMap' = NoEvent /\ connected' = {}
  /\ evt' = [r \in Readers |-> IF r = c THEN NoEvent ELSE evt[r]]
  /\ colSubSet' = [r \in Readers |-> IF r = c THEN {} ELSE colSubSet[r]]
  /\ last' = Call("delete", c) /\ Count
  /\ UNCHANGED <<unpack, streaming>>

SetReadCollectionNames(r, names) ==
  /\ MayCall /\ r \in alive
  /\ colSubSet' = [colSubSet EXCEPT ![r] = names]
  /\ last' = Call("subset", r) /\ Count
  /\ UNCHANGED <<alive, blockMap, connected, evt, unpack, streaming, killed>>

\* recreateEventMap, when a file without random access records is opened for
\* direct access or for append: handlers of its own replace those in the map
\* for the call, and leave the names free.
ScanHeaders(c) ==
  /\ MayCall /\ c \in alive /\ c # streaming
  /\ blockMap' = Without(blockMap, Own)
  /\ unpack' = Restored(unpack)
  /\ last' = Call("scan", c) /\ Count
  /\ UNCHANGED <<alive, connected, evt, colSubSet, streaming, killed>>

\* SIOEventHandler::xfer: the collections of the header that get into the event.
EventOf(e, names) == IF names = {} THEN e ELSE Restrict(e, DOMAIN e \cap names)

\* Mutant: a handler that is there is used as it is.
NotRetargeted(h, r) == h
\* ch->setEvent( &_evt ).
Retargeted(h, r) == [h EXCEPT !.dest = r]

\* SIOReader::setUpHandlers, for the collections of event ev.
Keeps(m, ev, n) == n \in DOMAIN m /\ IsColHandler(m[n]) /\ m[n].type = ev[n]
HandlersFor(m, ev, r) ==
  LET gone == {n \in DOMAIN ev : ~Keeps(m, ev, n) /\ ev[n] \notin Supported}
  IN [n \in (DOMAIN m \cup DOMAIN ev) \ gone |->
        IF n \notin DOMAIN ev THEN m[n]
        ELSE IF Keeps(m, ev, n) THEN Retargeted(m[n], r)
        ELSE ColHandler(ev[n], r)]

\* The event record of e, block by block, with the handlers in m.
Unpacks(m, e) == {n \in DOMAIN e : n \in DOMAIN m}
Target(m, n) == m[n].dest
GoesWell(m, events, e) ==
  \A n \in Unpacks(m, e) : Target(m, n) # Nobody /\ n \in DOMAIN events[Target(m, n)]

ReadEventRecords(r, e) ==
  LET ev == EventOf(e, colSubSet[r])
      events == [evt EXCEPT ![r] = ev]
      m == Reregistered(HandlersFor(Reregistered(blockMap, r), ev, r), r)
  IN /\ evt' = events /\ blockMap' = m
     \* handlers that are deleted are disconnected from all records
     /\ connected' = {n \in connected : n \in DOMAIN ev => Keeps(blockMap, ev, n)}
     /\ last' = [Call("read", r) EXCEPT
                   !.ok = GoesWell(m, events, e),
                   !.names = {n \in DOMAIN ev : ev[n] \in Supported},
                   !.filled = {<<Target(m, n), n>> : n \in Unpacks(m, e)},
                   !.stray = Unpacks(m, e) \ DOMAIN ev]

ReadNextEvent(r, e) ==
  /\ MayCall /\ r \in alive /\ r # streaming
  /\ ReadEventRecords(r, e)
  /\ unpack' = Restored(unpack) /\ Count
  /\ UNCHANGED <<alive, colSubSet, streaming, killed>>

\* readStream: from one call of a listener to the next.
StreamFlags == {"Event", "Header", "Run"}
BeginStream(r) ==
  /\ MayCall /\ r \in alive /\ streaming = Nobody
  /\ streaming' = r /\ unpack' = StreamFlags
  /\ last' = Call("stream", r) /\ Count
  /\ UNCHANGED <<alive, blockMap, connected, evt, colSubSet, killed>>

StreamEvent(r, e) ==
  /\ MayCall /\ streaming = r /\ {"Header", "Event"} \subseteq unpack
  /\ ReadEventRecords(r, e) /\ Count
  /\ UNCHANGED <<alive, colSubSet, unpack, streaming, killed>>

EndStream ==
  /\ MayCall /\ streaming # Nobody
  /\ streaming' = Nobody /\ unpack' = Restored(unpack)
  /\ last' = Call("end", streaming) /\ Count
  /\ UNCHANGED <<alive, blockMap, connected, evt, colSubSet, killed>>

\* Mutant: the blocks of the last event stay connected.
StillConnected == connected
\* evtRecord->disconnectAll().
AfterDisconnectAll == {}

\* SIOWriter::writeEvent: a handler that is there is used, whatever its type.
WriteEvent(w, e, transient) ==
  /\ MayCall /\ w \in alive
  /\ LET stored == DOMAIN e \ transient
         has(n) == n \in DOMAIN blockMap /\ IsColHandler(blockMap[n])
         made == {n \in stored : ~has(n) /\ e[n] \in Supported}
         m == [n \in DOMAIN blockMap \cup made |->
                 IF n \in made THEN ColHandler(e[n], Nobody) ELSE blockMap[n]]
     IN /\ blockMap' = m
        /\ connected' = AfterDisconnectAll \cup {n \in stored : has(n) \/ n \in made}
        /\ last' = [Call("write", w) EXCEPT
                      !.ok = \A n \in stored \cap DOMAIN m : m[n].type = e[n],
                      !.names = {n \in stored : e[n] \in Supported}]
  /\ Count
  /\ UNCHANGED <<alive, evt, colSubSet, unpack, streaming, killed>>

Next ==
  \/ \E c \in Clients : New(c) \/ Delete(c) \/ ScanHeaders(c)
  \/ \E r \in Readers, names \in Subsets : SetReadCollectionNames(r, names)
  \/ \E r \in Readers, e \in Stored : ReadNextEvent(r, e) \/ StreamEvent(r, e)
  \/ \E r \in Readers : BeginStream(r)
  \/ EndStream
  \/ \E w \in Writers, e \in Given : \E t \in SUBSET DOMAIN e : WriteEvent(w, e, t)

Spec == Init /\ [][Next]_vars

-----------------------------------------------------------------------------
\* The state is of the right shape.
TypeOK ==
  /\ alive \subseteq Clients /\ DOMAIN blockMap \subseteq Names \cup Own
  /\ \A n \in DOMAIN blockMap : IsColHandler(blockMap[n]) <=> n \in Names
  /\ connected \subseteq DOMAIN blockMap /\ unpack \subseteq Records
  /\ streaming \in alive \cup {Nobody} /\ calls \in 0..MaxCalls

\* Whatever is created and destroyed in whatever order, clear() in a destructor
\* deletes no handler that another reader or writer owns and will delete
\* itself, and no handler in the map belongs to one that is gone.
OwnHandlersSurvive ==
  killed = {} /\ {blockMap[n].owner : n \in DOMAIN blockMap} \subseteq alive \cup {Nobody}

\* An event is read into the reader's own event, all of its collections that
\* have a handler and nothing else, whoever used the handlers before.  The
\* exception is a reader of selected collections when another call has left a
\* handler for one that it did not select.
ReadsIntoOwnEvent ==
  last.op = "read" /\ last.stray = {} =>
    last.ok /\ last.filled = {<<last.by, n>> : n \in last.names}

\* An event record holds the collections of the event that is written, those of
\* no other writer's event, and each is written by the handler of its type.
RecordHoldsItsEvent == last.op = "write" => last.ok /\ connected = last.names

\* While readStream goes on the records it wants are unpacked, whatever the
\* listeners read with other readers.
StreamUnpacks == streaming # Nobody => StreamFlags \subseteq unpack

\* "After an object of this class goes out of scope the original setting is
\* restored. This is needed to have multiple read streams" (LCSIO.h:51).
ScopeRestored == streaming # Nobody => unpack = StreamFlags

\* "all other collection will be ignored" (LCReader.aid:98).
OthersIgnored ==
  last.op = "read" => last.ok /\ \A f \in last.filled : f[1] = last.by /\ f[2] \in last.names

\* "The type changed, so destroy the old handler and get a new one"
\* (SIOReader.cc:348), when an event is written, too.
HandlerOfItsType == last.op = "write" => last.ok
=============================================================================
