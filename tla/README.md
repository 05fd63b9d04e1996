# A TLA+ model of LCIO's files

LCIO is a C++ library (with ports and bindings for Java, Fortran and Python)
that stores simulated and reconstructed particle physics events.  A program
writes run headers and events with an `LCWriter` and reads them back with an
`LCReader`, from the start or by *direct access* to a run and event number.
The files are written with SIO, a small serial I/O library that is part of the
repository.

This directory holds TLA+ modules of the C++ library: the direct access
structure of a file that is written in several sessions by writers that may
die; the reader with its lists of files, its calls by key and its listeners;
the tables that all readers and writers of a process share; how pointers
between objects and the fields of every type get into a record and out of it;
who deletes collections in memory; and the helper classes that keep state of
their own.  The modules are checked with TLC and the theorems are proved with
TLAPS.

C++ sources are named relative to `src/src/cpp`, SIO's to `src/sio`.

## The system

LCIO is sequential: one thread, no locks, no messages.  What makes it hard is
elsewhere: files outlive processes and are continued by later ones, positions
that were computed before are trusted later, one logical write is several
records, a record is many bytes, and most of SIO's state is global.

| component | state | operations | interacts with |
|---|---|---|---|
| `RunEventMap` (`SIO/RunEventMap.cc`) | map run event -> position, two counters | `add`, `getPosition`, `minRunEvent`, `maxRunEvent`, `clear` | filled by writer, index handler, event map creation |
| `SIOIndexHandler` | none of its own | `xfer` in both directions | writes and fills the manager's map |
| `LCIORandomAccessMgr` | the map, `_list` of access records, `_fileRecord` | `add`, `createEventMap`, `recreateEventMap`, `initAppend`, `createFileRecord`, `writeRandomAccessRecords`, `clear` | owned by `SIOWriter` and `SIOReader`; reads and writes the stream |
| `SIOWriter` | stream, manager, handlers | `open` (new, append), `writeRunHeader`, `writeEvent`, `flush`, `close` | stream, global records and blocks |
| `SIO_stream` | file handle and position, mode, state, buffers, pointer tables | `open`, `close`, `read`, `write`, `seek`, `flush`, `reset` | C stdio, records, blocks |
| `SIOReader` | stream, manager, current run and event, list of files, listeners | `open`, `readNextEvent`, `readEvent`, `skipNEvents`, `readStream`, `getNumberOfEvents`, `close` | stream, manager, listeners (callbacks) |
| `LCSIO::records()`, `SIO_blockManager`, `SIO_recordManager`, `SIO_streamManager` | process-wide tables and flags | `add`, `get`, `remove`, `clear`, `Unpack` scopes | shared by all readers and writers |
| pointer relocation (`SIO_functions`) | tables `pointedAt`, `pointerTo` of a stream | `pointed_at`, `pointer_to`, relocation | handlers of the data types |
| `LCSplitWriter` | base name, counter, writer | `open`, `writeEvent`, `writeRunHeader`, `close` | `SIOWriter`, file system |
| `LCEventImpl`, `LCCollectionVec` | collections, ownership, access mode, flags | `addCollection`, `takeCollection`, `removeCollection`, `setAccessMode` | reader, writer |
| `SIOCollectionHandler`, a handler for each type | flag word, version | `read`, `write`, `init` | blocks, pointer relocation |
| `LCRelationNavigator`, `PIDHandler`, `CellIDEncoder`/`Decoder` | maps of relations, numbers of algorithms, bits | additions, lookups, conversion to collections | collections and their parameters, files |
| `MCParticleImpl` | parents, daughters, status bits, end point | `addParent`, `setEndpoint`, `setSimulatorStatus` | `SIOParticleHandler`, `postProcessEvent` |

The hard behaviours, with the line where each bites, are the `hazards` of
`PROJECT.json`.  What makes each component correct:

- the map counts what it holds; no key is lost or counted twice;
- an index record gives back the map it was written from;
- the list of blocks of a file is complete, ends, and leads to headers of the
  keys it names; direct access and sequential reading agree;
- appending and crashing damage nothing that was stored before;
- a reader returns every event once, in order, over all its files, and the
  contents that were written with its header;
- readers and writers of one process do not disturb each other through the
  tables they share;
- the handler of a type reads exactly the fields that it wrote;
- objects read back point to the objects they pointed to, and a record that was
  given up harms at most the next one;
- a collection is deleted exactly once, by its one owner;
- a series of split files is the job, in order, and other files stay as they are;
- relations, cell ids, particle ids and families mean after a file what they
  meant before.

Each of them is stated and checked here, where the code keeps it, and the
constants of the modules say under which conditions it does.

## Modules

| module | models | kind |
|---|---|---|
| `RunEventMap` | `RunEvent`, its ordering and its `long64` form; `RunEventMap` as a value with operators | operators |
| `LCIOIndex` | `SIOIndexHandler::xfer`: `Encode` (write), `Decode` (read) | operators |
| `IndexRoundTrip` | one manager filling its map, writing its index record at close, and reading it back on top of a map | state machine |
| `LCIORandomAccess` | one file, the writers that create it, append to it and die, and what readers make of it | state machine |
| `EventStore` | what such a file promises, without positions, records or pointers | abstract specification |
| `SIOReader` | one reader: lists of files, reading on, skipping, reading by key, counts, `readStream` and its listeners | state machine |
| `EventCursor` | what a reader promises: a cursor over one sequence of run headers and events | abstract specification |
| `SIORegistry` | block manager, event record, unpack flags, with any number of readers and writers | state machine |
| `PointerRelocation` | one stream that packs records and one that unpacks them, with their pointer tables | state machine |
| `ObjectLayout` | the fields that the `write` and the `read` method of each handler transfer | operators |
| `CollectionBlock` | one collection that is written, read, changed and written again | state machine |
| `EventOwnership` | events, collections and elements in memory, and a client and a reader that use them | state machine |
| `LCSplitWriter` | one split writer over a disk | state machine |
| `RelationNavigator`, `CellID`, `PIDHandler`, `MCParticleFamily` | the classes of these names, with the file between a writer and a reader of what they make | state machines |
| `MCIndexRoundTrip`, `MCRandomAccess`, `MCReader`, `MCRegistry`, `MCRelocation`, `MCCollectionBlock`, `MCEventOwnership`, `MCUtilities` | instances for TLC | |
| `OperatorProofs`, `LCIORandomAccessProofs`, `SIOReaderProofs`, `SIORegistryProofs`, `PointerRelocationProofs`, `CollectionBlockProofs`, `EventOwnershipProofs`, `UtilitiesProofs` | theorems | proofs |

`LCIOIndex` extends `RunEventMap`; `IndexRoundTrip` and `LCIORandomAccess`
extend `LCIOIndex`; `LCIORandomAccess` instantiates `EventStore`.  `SIOReader`
extends `RunEventMap` and instantiates `EventCursor`.  `CollectionBlock`
extends `ObjectLayout`.  `MCUtilities` extends `LCSplitWriter` and the four
small classes, which share no state: a behaviour is one of one of them.

### RunEventMap and LCIOIndex

The C++ class is modelled by its value: `pos` is the `std::map`, `nRun` and
`nEvt` are the counters kept beside it.  `Half` is 2^31 in the code; TLC uses
ints of a few bits, the proofs any width.  Narrowing to an int (`ToInt`) and
the packing of a run event into a `long64` are arithmetic, as in the code, so
overflow and sign are part of the model.

`std::map` identifies keys by `operator<`, the model by equality; for keys with
event number -1 or more, the only ones clients of this model use, the two agree
(theorem `LessStrictTotal`).  `AddAll` stands for a loop of `add` calls.  It is
given the final position of each key; lemmas `AddIsAddAll` and `AddAllCounted`
tie it to `Add`.

### LCIORandomAccess

State: `disk` and `size` are the file; `buf`, `synced` and `wpos` are the output
of the writer at work that may still be in the stdio buffer; `map`, `lastRa`
and `fileRec` are the manager's `_runEvtMap`, the last element of `_list`, and
`_fileRecord`; `mode` says where the writer is; `sessions`, `puts` and
`crashes` count.

| action | code |
|---|---|
| `OpenNew` | `SIOWriter::open(WRITE_NEW)` |
| `OpenAppend` | `open(WRITE_APPEND)`, `initAppend` returns true; the stream is positioned on the file record |
| `OpenAppendOld` | `open(WRITE_APPEND)`, `initAppend` returns false after `recreateEventMap` |
| `WriteRunHeader`, `WriteEvent` | the methods; an event is two records |
| `Flush` | `SIOWriter::flush` |
| `WriteRandomAccessRecords` | first half of `close` |
| `CloseStream` | second half of `close`: `SIO_streamManager::remove`, `clear` |
| `Crash` | the process dies; the bytes before an arbitrary cut, not before what was flushed, are on the disk |

Readers have no state that matters here: what one finds is the operator
`CreateEventMap` applied to the file, with the outcomes "ok", "IOException",
"broken" (a previous pointer leads to nothing readable, an IOException too),
"endless" (the loop over previous pointers does not end) and "undefined" (the
code uses an element of an empty list or a null pointer).  A file without a file
record whose headers end in an error, because a run or event header is torn or
because other bytes follow, cannot be opened for direct access or for append:
after recreating the map the code seeks to the start, which throws on a stream
in the error state (`RecreateThrows`).  Bytes left at the end that are fewer
than a record header read as a clean end.

A file is a function from positions to records with a length; a record that
was cut is *torn*: its header reads, its data does not.  `Overlay` is the file
after a range of bytes was written over it.  Abstractions of data:

- all records have the length `DataLen`, except LCIORandomAccess records, whose
  length `AccLen` is fixed in the code too, so `DataLen < AccLen` and
  `DataLen > AccLen` both are instances; `HeadLen` is a record's own header;
- contents are the key and the number of the session that wrote it;
- compression and byte formats are left out; a record of which only the header
  bytes were cut is not there at all;
- a torn record always fails to read, also when the bytes behind the cut are
  those of the file record that was there before;
- `_minRunEvt`, `_maxRunEvt` and `_recordsAreInOrder` are written by the code
  and never used, and are left out;
- writes do not fail while the process lives;
- there is no action for an `open` that throws: it leaves the file as it is.

The constants `UniqueKeys` and `WholeRuns` restrict the *clients* of the
writer: never write one run or event twice, and write each run's header in the
session of its events.  The second keeps the runs away from the
defect of the index record that `IndexHoldsLocations` shows on its own.

### SIOReader

A file is the sequence of its records, a position an index into it.  `rd` is
the reader: stream state and position, `_myFilenames`, `_currentFileIndex`,
`_readEventMap`, the manager's map, and what `_run`, `_evt` and the collections
of `_evt` were read from.  A call is one step from one `rd` to the next; the
operators it is made of follow the code's methods (`ReadRecord` is
`readRecord`, with the reads of further files inside the call, `FastSkip` the
second half of `readEvent`).  `res` is what the last call returned.
`readStream` calls back and is therefore several steps: `StreamRead` reads a
record and enters the first callback, `CallbackReturns` goes on to the next
listener, `CallbackThrows` leaves `readStream`.  Listeners are addresses, in
whose order a `std::set` of pointers is iterated.

Abstractions:

- damage is at the end of a file, as a writer that died leaves it.  Damage in
  the middle, several sessions and stale indexes are the subject of
  `LCIORandomAccess`; here the event map is that of a file of one session;
- a header whose event record is missing is only in the last file of a list;
  otherwise `readNextEvent` combines it with the first event record of the next file,
  the defect `ReadsOwnPayload` shows;
- `Unpack` scopes are the `wanted` argument of a read.  What their nesting does
  when a listener reads from another reader is the subject of `SIORegistry`;
- no call on a reader after `close`, no second `open` without `close`, and no
  removal of a listener that is not registered or is being told: undefined in
  the code;
- `NewReaders` keeps clients from opening a reader for a file after other
  files, which `OwnFilesOnly` is about.

### EventCursor

The open files are one sequence of items (run headers and intact events) with
the number of the file of the list they are in.  `at` is the cursor, `book` the
items direct access lists (those of one file), `whole` says that the files are
undamaged and `sound` that damage has not been met.  The refinement mapping
computes `items` from the contents of the listed files and `at` from file and
position.  The cursor promises little where the code does: a search
without a book returns some event of the number asked for (see
`ReadsSpecified`), and need not find one that is ahead in the run already begun.

### EventStore

The promise in terms a client can use: a session commits everything it wrote
when it is closed and takes nothing away; a session that dies may leave less to
be found; nothing is ever found under a key that was not written under it.  Dying is
allowed to lose entries of `stored` because it does (see `DirectComplete`):
the abstract specification says what does hold.

### SIORegistry

A process has one `SIO_blockManager`, one set of records and one set of flags
that say which records are unpacked.  `blockMap` is the manager's map from
names to handlers; a handler has an owner (the reader or writer whose member it
is, or nobody), a type and `dest`, the reader whose event it fills.
`connected` is the event record, `evt` and `colSubSet` are members of readers
and of their event handlers, `unpack` the flags, `streaming` the reader inside
`readStream`.

| action | code |
|---|---|
| `New`, `Delete` | constructors and destructors of `SIOReader` and `SIOWriter`, with `~SIO_block` and `SIO_blockManager::clear` |
| `SetReadCollectionNames` | the method, up to the set in the event handler |
| `ScanHeaders` | `createEventMap` over a file without index, with handlers of its own on the stack |
| `ReadNextEvent`, `StreamEvent` | `readRecord`, `setUpHandlers` and the unpacking of both records |
| `BeginStream`, `EndStream` | the `Unpack` scope of `readStream`; between them are the calls a listener makes |
| `WriteEvent` | `SIOWriter::writeEvent`: handlers, `disconnectAll`, `connect` |

A call is one step, since calls overlap only in a listener.  Left out of the
events is all but names and types of collections.  After a call that went wrong
(`last.ok` is false) nothing more is looked at.

### PointerRelocation

`packing`, `buf` and the tables `wAt` and `wTo` are the stream that writes, `file`
what it wrote, `reads` the reads of the other stream with its tables `rAt` and `rTo`.
A record is a sequence of items, each an object that can be pointed at
(`pointed_at`) or a pointer (`pointer_to`).  `PackItem` is one such call,
including the buffer that is replaced when it is full; `WriteRecord` is the
relocation at the end of `SIO_record::write`, the `fwrite` and the clearing;
`UnpackItem` and `RelocateRead` the same on the other side.  `AllocationFails`,
`PackingError`, `DiskFails`, `UnpackFails` and `UnpackThrows` are the ways out;
`Failures` says which may be taken.

Every item is one word; what else is in a record is left out, which makes only
the buffer grow at other places.  An address in memory is the pair of read and
item, so that two reads have different addresses.  Match words are numbers from 1; `SIO_ptag` is
above all of them, as 0xffffffff is for records that fit into memory.

### ObjectLayout and CollectionBlock

For each of the 20 types that have a handler of their own the two methods are two operators, read from
the two methods independently: the sequence of fields, their sizes in words,
under the conditions on flag bits, on the object and on the version of the
writing library.  Values are left out: a field is its name.  `CollectionBlock` puts the objects
of a collection into a block as `SIOCollectionHandler::xfer` does and reads them
from the first word to the last; a reader that expects another field than the
next one is at `Misread`, where the code would go on with wrong values.
`LCGenericObject`, whose handler stores the sizes once or per object, and
`Vertex`, whose algorithm is an index into a collection parameter, have their
state modelled (`fixed`, sizes, `alg`).

`MixedSizes` FALSE is the rule of `LCGenericObject.aid`: a collection that is
marked as fixed gets objects of that one size.

### EventOwnership

Collections and elements are addresses that are reused when free.  `held` and
`heldObj` are what the client must delete; everything else is owned through
`evt[e].cols` without `notOwned`, or through a collection that is no subset.
The actions are the methods of `LCEventImpl` and `LCCollectionVec`;
`ReadNextEvent` deletes the reader's event and makes a new one with collections
and elements at any free addresses.  `fault` records a deletion of, or an
access to, something that is not there.

The client follows the documentation: it deletes what it took only after the
event is gone, puts elements of others into subset collections only, sets an
access mode while subsets and what they point to are together, and deletes an
event last whose collections it gave to another.

### The helper classes

`LCSplitWriter`: `base`, `count`, `lastCount` and `filename` are the members,
`out` the writer inside, kept to refusing a file that exists, appending, adding the
random access records in `close`, and being in error after a failed write; its
own behaviour is `LCIORandomAccess`.  The file's size is that on the disk, which
stands for `stat` after a flush.

`RelationNavigator`: the two maps and the file between `createLCCollection` and
the next navigator.  The keys of a map are in any order after a file, since
they are addresses.  Weights are counted in halves.

`CellID`: `BitField64`, `CellIDEncoder`, `CellIDDecoder` with words of
`WordBits` bits for 32.  After a file the same hits are at other addresses.

`PIDHandler`: handlers for one collection, made and destroyed in any order;
`std::sort` leaves equal likelihoods in any order.

`MCParticleFamily`: the lists of parents and daughters, the two status bits
that decide the end point, and the event through `SIOParticleHandler`,
`restoreParentDaughterRelations` and the rest of `postProcessEvent`.  Vertices are
named for their particle; a collection is walked in the order of the particles' numbers.
The branch that restores parents from daughters is for files before v00-09 and
is modelled, but reached only with `Across`.

Each of these classes has constants for what a client may do that breaks the
property: see the disagreements below.

## Runs

| run | configuration | shows |
|---|---|---|
| `index_round_trip` | `MCIndexRoundTrip.cfg` | `CountersMatch`, `RoundTrip` |
| `random_access_clean` | `RandomAccessClean.cfg` | `ChainComplete`, `DirectIsSequential`, `ReadsOwnPayload` without crashes |
| `random_access_crash` | `RandomAccessCrash.cfg` | `TypeOK`, `Layout`, `DirectSound`, `ChainEnds`, `RecordsKept`, `ReadableKept`, `ImplementsStore` with crashes |
| `reader` | `Reader.cfg` | `TypeOK`, `ImplementsCursor` |
| `read_stream` | `ReadStream.cfg` | `ToldOnce`, `StreamEnds` |
| `relocation` | `Relocation.cfg` | `TypeOK`, `RecordSelfContained`, `PointersHome` under all failures |
| `collection_block` | `CollectionBlock.cfg` | `TypeOK`, `ReadsWhatWasWritten`, `RewriteStable` |
| `registry` | `Registry.cfg` | `TypeOK`, `OwnHandlersSurvive`, `ReadsIntoOwnEvent`, `RecordHoldsItsEvent`, `StreamUnpacks` |
| `event_ownership` | `EventOwnership.cfg` | `TypeOK`, `NothingDeletedTwice`, `OneOwner`, `NamesLive`, `ElementsInMode` |
| `utilities` | `Utilities.cfg` | `TypeOK`, `SeriesIsJob`, `SplitsAtLimit`, `OthersUntouched` (split writer), `RelationsKept`, `FieldsSurvive`, `SelfDescribing`, `FamilyKept` |
| `direct_complete` | `DirectComplete.cfg` | violation of `DirectComplete` |
| `own_files_only` | `OwnFilesOnly.cfg` | violation of `OwnFilesOnly` |

The other configurations are not among the runs.  Each shows one of the
disagreements below and ends in a violation: `tlc -config X.cfg M`, with the
module given there.

Bounds:

- `index_round_trip`: four-bit ints, run numbers -8, 1 and 7 (so that run
  differences overflow), event numbers 0 and 7, positions 0, 3, 7, 12 (so that
  offsets do and do not fit).  All maps over these keys and positions in the
  order a writer produces them, read back onto empty and filled maps.
- `random_access_clean`: three sessions (the shortest list with a block that is
  neither first nor last), two runs, up to four records each, data longer than
  the file record.
- `random_access_crash`: three sessions and up to two crashes at every byte of
  what is not flushed, so a crash can hit the second or third writer after an
  append to a file that a crash left; data shorter than the file record, so
  that the first record written over it leaves a remainder of it behind.
- `reader`: three files of up to six records, lists of up to three, one of them
  with a file twice; a run that goes on in the next file, equal event numbers in
  different runs; the last file whole, without index, empty, ending in a torn
  run header, a torn event or other bytes.  Five calls: open, read, close, open,
  read is the shortest history in which state of the first opening could show in
  the second.
- `read_stream`: two listeners, of which any may be registered when the reader is
  created, so that one can come or go before, or behind, the one that is being
  told; four calls, reading two records or all; a file that ends well or in
  a torn record, alone or in front of another.
- `relocation`: records of up to five items in two blocks: pointers before and behind
  their targets, to an object that is in both blocks, to null and to objects
  that are not in the record; a buffer of three words, so that it moves; two
  records and three reads with one failure on each side, so that a record is
  handled after the one after the failure.
- `collection_block`: every type with every combination of its flag bits and the
  subset bit, two objects with empty and filled lists, two writes.
- `registry`: two readers, two writers, eight calls; a collection name that has
  different types in different files, one of an unsupported type, one that only
  writers have.
- `event_ownership`: a reader's event, one of the client, two names, two
  collections, two elements, up to exchange; no bound on the number of steps.
- `utilities`: a split writer of six records of four sizes below, at and above the limit,
  two opens, files of the series that exist already; two by two objects with
  weights -1/2, 1/2 and 1; fields inside, at the end of, across and behind the
  first word; two algorithms, two particles with two ids each; three particles in one or
  two collections with three subset collections, twice through a file.
- `sessions`, `puts`, `crashes`, `calls`, `writes`, `opens`, `given`, `events` and the
  lengths of `file` and `reads` are bounded by `MaxSessions`, `MaxPuts`, `MaxCrashes`,
  `MaxCalls`, `MaxWrites`, `MaxOpens`, `MaxRecords`, `MaxEvents`, `MaxReads` and
  `MaxBad` in the guards.  When these are used up the system stops,
  which is why these configurations do not check deadlock.

Fairness is assumed in `read_stream` only, and only weak fairness of the steps
of `readStream` itself: they are taken by the thread that called it, whose
callbacks return or throw.  Clients are under no obligation.  `StreamEnds` is the
only liveness property: all other calls are single steps, and that the loop over the previous
pointers in `createEventMap` ends is the invariant `ChainEnds`.

### Disagreements found

What a comment, a document or the other half of the code says, and the code does
not do.  The first two are runs; each of the others is shown by a
configuration, or by `Utilities.cfg` with one constant changed.

Files and direct access (`LCIORandomAccess`, `IndexRoundTrip`, `SIOReader`):

1. `DirectComplete` (run): a writer that dies between the two LCIORandomAccess
   records at the end of its block leaves a file whose last record is taken
   for the file record; events are then not found by direct access
   (`LCIORandomAccessMgr.cc:214`).
2. `OwnFilesOnly` (run): a reader opened for a single file after a list goes on with
   the old list when the file ends (`SIOReader.cc:163`).
3. `HoldsLocations` (`IndexHoldsLocations.cfg`, `MCIndexRoundTrip`): the run numbers
   are left out of an index record when the
   first and the last key have the same run.  Run headers sort before events,
   so the two ends do not speak for the rest: with headers of runs 1 and 7 and
   events of run 1 only, the header of run 7 is read back as that of run 1
   and replaces its position (`SIOIndexHandler.cc:117`).
4. `FileRecordTotals` (`FileRecordTotals.cfg`, `MCRandomAccess`): after an append
   the file record counts the previous block twice (`LCIORandomAccessMgr.cc:101`).
5. `NewestFound` (`NewestFound.cfg`, `MCRandomAccess`): a key written in two
   sessions is found at its old position,
   since blocks are read newest first and `add` overwrites
   (`LCIORandomAccessMgr.cc:264`).
6. `ReadsOwnPayload` (`ReadsOwnPayload.cfg`, `MCRandomAccess`): a header whose event
   record was lost in a crash is completed with the next event's record
   (`SIOReader.cc:409`).
7. `ReadsSpecified` (`ReadsSpecified.cfg`, `MCReader`): without an event map
   `readEvent` compares only the event
   number once it has found the run header, and can return an event of a later
   run (`SIOReader.cc:593`).

Shared tables and pointers (`SIORegistry`, `PointerRelocation`):

8. `ScopeRestored` (`ScopeRestored.cfg`, `MCRegistry`): "After an object of this
   class goes out of scope the original setting is restored" (`LCSIO.h:50`); the
   destructor passes the array of the saved flags where one flag is expected, and all records are
   unpacked (`LCSIO.cc:71`).  `StreamUnpacks` is what is left of it.
9. `OthersIgnored` (`OthersIgnored.cfg`, `MCRegistry`): "all other collection will
   be ignored" (`LCReader.aid:98`); a collection that was not selected is unpacked all the same if
   an earlier call left a handler for its name, into an event that
   does not have it, or is gone.
10. `HandlerOfItsType` (`HandlerOfItsType.cfg`, `MCRegistry`): the reader replaces a
    handler when the type of the collection changed (`SIOReader.cc:348`); the
    writer takes the one that is there (`SIOWriter.cc:240`) and packs hits with a
    handler for tracks.
11. `NextRecordUnharmed` (`ClearedUnconditionally.cfg`, `MCRelocation`): the tables
    must be cleared "unconditionally (otherwise tables from a busted record may
    persist into the next record)" (`SIO_stream.cc:1035`); a handler that throws
    (`SIOCollectionHandler.cc:84`) passes that line, and a packing error returns
    in front of its counterpart (`SIO_stream.cc:1241`).

Collections and helpers:

12. `FixedBitIsTrue` (`FixedBit.cfg`, `MCCollectionBlock`): the bit for objects of
    fixed size is set and never cleared (`SIOLCGenericObjectHandler.cc:61`), as
    `SIOEvent.java:414` does; a collection that was read, got an object of another
    size and was written again cannot be read.
13. `OneOwner` (`RemoveDeletes.cfg`, `MCEventOwnership`): `removeCollection`
    "Removes (and deletes) the collection" (`LCEvent.aid:72`); it removes the name
    and the collection is nobody's (`LCEventImpl.cc:163`).
14. `NothingDeletedTwice` with `FlagsLate = TRUE` (`MCEventOwnership`): `setFlag` assigns
    the word with the bits for subset and transient in it.  A client that sets
    the flags of its type on a subset that has elements makes it delete them.
15. `NoStreamUsedAfterClose` (`StreamGone.cfg`, `MCUtilities`): a split writer
    whose next file exists throws, and the write after that uses the stream
    deleted by the close before (`LCSplitWriter.cc:69`).  A second `open` before a file was
    split takes the name of the first and is refused although its own file is not
    there (`getFilename`).
16. `MostLikelyFirst` (`OrderedPIDs.cfg`, `MCUtilities`): "ordered with decreasing
    likelihood" (`PIDHandler.h:86`); `setParticleID` changes the likelihood of an
    object where it is.
17. `SelfDescribing` with `LooksEverywhere = TRUE`: `getParticleID` for what is not
    there adds an object that no algorithm explains, or the wrong one.
18. `FieldsSurvive` with `TopValue = TRUE`: an unsigned field takes 2^width
    (`BitField64.cc:43`), which is stored as 0.  With `KeepsDecoder = TRUE`: a
    decoder kept for the next event takes a hit at the address of the last for
    the same (`CellIDDecoder.h:82`).
19. `FamilyKept` with `Across = TRUE`: daughters are restored collection by
    collection, and only if no particle of the collection has any.  A parent in
    another collection gets too few or too many, and if that collection was
    dropped a null pointer gets the daughter (`SIOParticleHandler.cc:219`).  With
    `StatusLate = TRUE`: `setSimulatorStatus` clears the bit of an end point that was
    set before, and a file loses it.  With `InOrder = FALSE`: "the first
    daughter" (`MCParticle.aid:171`) is another one after a file, since the order
    becomes that of the collection.

## Theorems

All for arbitrary constants that satisfy the modules' assumptions.

- `LessStrictTotal`, `RunHeadersFirst`, `Long64RoundTrip`, `FirstAndLast`,
  `CompactibleRoundTrip`, `WholeRunsCompactible` (`OperatorProofs`): the facts about
  keys, maps and index records that the rest relies on, for any width of int.
  The index record of any compactible map gives it back, and a map with a run
  header for every run it has events of, or with none, is compactible while its
  positions fit an int.
- `SpecCountersMatch`, `SpecRoundTrip` (`UtilitiesProofs`): the inductive
  invariant adds to the two properties that the map has keys of the right type
  and that a record was encoded from `indexed`, a map whose own counters match.
- `SpecTypeOK`, `SpecLayout`, `SpecRecordsKept` (`LCIORandomAccessProofs`).
  `Layout` is inductive together with `TypeOK` and the facts that tie `mode`,
  `buf` and the positions together (`IInv`).  The argument: everything the writer has
  written lies at or behind `synced`; everything on the disk at or behind
  `synced` is an LCIORandomAccess record that was found at the end of the file;
  so a crash or a flush, which replace the bytes between `synced` and some cut,
  remove only such records, and what they add begins where nothing intact
  reaches.  `RecordsKept` follows step by step.
- `SpecReadableKept`, `SpecChainEnds`, `SpecDirectSound` (`LCIORandomAccessProofs`),
  for any sessions and crashes.  What a crash leaves is a part of the file as it would
  have become, so the invariants are stated of two files, `disk` and `Whole`, the
  disk with all output of the writer on it.  `LinkInv`: the pointers of an
  LCIORandomAccess lead to records of its kind at *lower* positions, and at most one
  record lies where the writer is going to write.  That is why writing over the
  last record harms no reference, and why the chain ends.  `SoundInv`: every
  entry of an index leads to a header of its key before the index, and so does
  the map of the writer.  It needs that the index record gives the map back:
  `CompactibleDirectSound` assumes just this of the sessions (`ClosesCompactible`),
  `SpecDirectSound` derives it from what clients do, `WholeRuns`, and from positions
  that fit an int, `[](wpos <= IntMax)`.  Neither can be dropped: an index record
  that leaves out run numbers (disagreement 3) or cuts a far position names other
  headers.
  `NoneAssumption`, that the null pointer is no LCIORandomAccess, is the only
  assumption on a constant the module adds.
- `SpecImplementsStore` (`LCIORandomAccessProofs`): the file and its writers implement
  `EventStore`, for any number of sessions, flushes and crashes at any byte, of clients
  that write no key twice (`UniqueKeys`) and under the two conditions of
  `SpecDirectSound`; `CompactibleImplementsStore` has `ClosesCompactible` in their place.
  Each step maps to a step or a stutter (`NextStore`): opening to `Create` or `Append`, a
  run header or event to `Put`, a flush and the writing of the block to stutters, closing
  the stream to `Commit`, a crash to `Die`.  `Put` and `Commit` are
  exact, so the proof has to know what direct access finds, key by key.
  `StoredIs` reduces it to sets of keys: whatever is stored under a key has the version
  that was written under it, because all entries lead to headers (`SoundInv`)
  and a key has one header (`ItemsInv`).  The keys are then followed through the
  steps: `ChainInv` says that a block names an intact index before it and another block or
  none, so what a chain collects does not change while other records are
  written (`ChainEntriesKept`), and a writer goes on from
  the block that direct access starts from (`AppendResumes`).  `SessionInv` is what is
  known of a session about to end: a writer with an empty map has
  changed nothing, and any other has written its block, with an index that gives its
  map back, as the last bytes of the file (`ClosedFile`).
- `SpecChainComplete`, `SpecReadsOwnPayload`, `SpecDirectIsSequential`
  (`LCIORandomAccessProofs`): the three properties that hold until the first writer
  dies (`crashes = 0 => ...`), for any number of sessions, flushes and appends.  `TidyInv`: records follow each
  other without gaps, an event follows its header, a block names itself and the last block before it,
  and a closed file ends with a file record that names the last block.  The list of
  blocks is then complete, because a block that the chain left out would
  lie between a block and the one it names.  `ListedInv`, for clients that write no key
  twice: the index of a block lists the headers between the block before and it, the map
  of the writer those behind the last block, and behind the last block of a closed
  file there are none.  What the loop of `createEventMap` merges is then the headers
  before the last block (`EntriesExact`), and reading from the start
  passes all headers (`AllHeadersRead`).
- The recursive functions in these proofs (`Scan`, `Chain`, `ChainEntries`) are `CHOOSE`
  expressions to the prover.  `RecursionExists` (`OperatorProofs`) shows once, along a rank in
  the naturals, that a function with such an equation exists; `ScanPath`, `ChainPath`,
  `ChainEntriesPath` apply it, with positions that grow or pointers that lead down as the
  rank.  What follows by induction is proved with a least or greatest counterexample
  (`LeastNatural`, `LastPosition`), since a set of naturals needs no
  operator parameter.

- `SpecTypeOK`, `SpecOwnHandlersSurvive`, `SpecReadsIntoOwnEvent`,
  `SpecRecordHoldsItsEvent`, `SpecStreamUnpacks` (`SIORegistryProofs`), for any
  number of clients and calls.  The inductive invariant `IInv` says that every own
  handler in the map belongs to a client that lives and every handler of a
  collection to nobody (`MapOK`), and that its type is one some event gives this
  name; that what is connected is in the map; and that nothing was killed.
  A destructor removes by name, and so leaves no own handler for `clear` to
  delete: `NothingKilled`.  A read replaces or retargets the handler of every
  collection of its event (`HandlersForOK`), whatever is in the map.
  `SpecRecordHoldsItsEvent` needs the assumption `OneTypePerName`, which is what
  disagreement 10 is about.
- `SpecRecordSelfContained` (`PointerRelocationProofs`).  `IInv` says, while k items
  of a record are packed, what the tables hold: the first offset of each object
  among these items, each pointer that is not null with its offset, and nothing else
  (`Tables`).  Offsets are what is noted, so a move of the buffer does not matter.  There are
  no more targets than items, which keeps match words below `SIO_ptag`
  (`MatchWords`).  Nothing is known of the tables from the moment a record is
  given up until one is written: that one is exempt.
- `SpecTypeOK`, `SpecNothingDeletedTwice`, `SpecOneOwner`, `SpecNamesLive`,
  `SpecElementsInMode` (`EventOwnershipProofs`), for any number of events, collections and
  elements, under `Careful`: flags are set early and what is removed is deleted
  by the client (disagreements 13 and 14 are what happens otherwise).  No
  property is inductive alone: a deletion is harmless only
  because the deleted thing has no second owner.  `IInv` therefore states
  owners by disjointness: everything in memory has an owner (`ColsOwned`,
  `ObjsOwned`), the sets that owners hold do not overlap, an event names a
  collection once and what it names or gave away is there (`NamesOK`).  `Deleting`
  and `LeftOwned` say that deleting a set of collections leaves every other
  element with its owner; `ReadNextEventOK` adds that what a
  reader makes at free addresses belonged to nobody.  `OneOwner` follows, since a set
  of owners is then a singleton or empty.
- `SpecPointersHome`, `RelocationTypeCorrect` (`PointerRelocationProofs`).  The invariant of
  the reading stream says, while k items of a record are unpacked, that the
  tables hold the match word and address of each object and of each pointer
  among them, and of nothing else unless a handler threw in the read before;
  `relocate` then finds for each pointer the one object that has its word.  An
  object that is pointed at is none without address: the module assumes of the
  items that they are objects (`items[i].kind = "at" => items[i].obj # NULL`), as the callers of `SIO_PTAG` pass `this`.
- `SpecOthersUntouched`, `SplitTypeCorrect`, `SpecSeriesIsJob`, `SpecSplitsAtLimit`
  (`UtilitiesProofs`), for any names, sizes, limit and failures of the disk.  The first is an
  action property, proved from what `Put` leaves alone.  The invariant behind
  the others says that the files of a series have the numbers 0 to the current one,
  that all but the last are above the limit and were not before
  their last record, and that what they hold, joined, is what was accepted.  The
  lemmas on `FlattenSeq` and on the sum of a sequence give both for a sequence that is
  longer by one.
- `SpecSelfDescribing` (`UtilitiesProofs`), with one handler of a collection at a time
  that is asked only for what is there (`~LooksEverywhere`, disagreement 17): while
  a handler lives it explains the objects, afterwards the
  parameters do; numbers are unique because a new one is above the highest.

- `ReaderTypeCorrect`, `SpecToldOnce` (`SIOReaderProofs`), for any files, records, lists
  and listeners.  `ReaderInvariant` says of the reader that its position and the
  positions of its event map are in the file it has open, that its place in the list
  is one, and that the run header, event header and event it holds were intact records of
  these kinds.  `readRecord`, `skipNEvents` and the searches of `readEvent` are
  recursive functions over files and reads; `WalkExists`, `WalkEnds`, `IterationExists`
  and `IterationTyped` carry what one read keeps to the whole call.  During a callback
  the invariant adds that the listener being told is registered and that those told
  lie before it: the least listener above it is then neither told twice nor skipped,
  whoever comes and goes.
- `ReadIsWritten`, `UnpacksAll`, `SameBlockAgain`, `BlockTypeCorrect`,
  `SpecReadsWhatWasWritten`, `SpecRewriteStable` (`CollectionBlockProofs`), for any number
  of objects of any shapes.  `ReadIsWritten` compares the two methods of each of the 20
  handlers, in the version the library writes.  A block is the number of objects and their layouts one after
  the other; `UnpacksAll` follows the reader, who takes layout k from the front of what is left
  and then has layout k + 1 before him (`FlattenTails`, `ReadsOne`), to the last word.  The
  invariant is that a collection in memory, whether made or read, obeys the rule of fixed
  sizes (`GoodCol`), and that what was read makes the same block.  The three theorems about the specification assume
  `~MixedSizes`, that clients keep to this rule of `LCGenericObject.aid`: the library does not enforce it, and
  disagreement 12 is what happens otherwise.
- `SpecRelationsKept` (`UtilitiesProofs`), for any objects, weights and calls.  Both maps
  *tell* the relations a client means, one of them turned round (`Tells`): each entry
  has an object at most once, and says exactly its relations.  `createLCCollection` lists
  what a map tells, in whatever order the map is walked, each pair once
  (`ElementsList`), so that `initialize`, which adds up weights, adds none to another
  (`InitializedTells`).
- `SpecFieldsSurvive` (`UtilitiesProofs`), for any encodings, word size, hits and values.  A number
  is cut at a field into what is above, in and below it (`Cut`).  An
  assignment replaces the middle, which every other field finds in its upper or
  lower part; the second word of a cell id may be left out when no field
  reaches into it.  The powers of two are a recursive function, `Pow2`, since the provers know no `^`.  The theorem
  assumes `~TopValue` and `~KeepsDecoder`, what clients must not do (disagreement 18).
- `SpecFamilyKept` (`UtilitiesProofs`), for any particles, collections, order of their
  names, subset and dropped collections.  The invariant (`Families`) relates the two lists: a
  parent is in the collection of its daughter, the daughters of a particle are those
  that name it as a parent, in increasing order, and an end point that is not set is the
  origin.  `restoreParentDaughterRelations` passes collection by collection; after
  each, the particles of the collections passed have their daughters
  and the others have none (`PartlyRestored`), since an increasing list is known
  by what is in it (`SameIncreasing`).  It assumes `~Across`, `~StatusLate` and `InOrder`, what
  clients must keep to (disagreement 19).

Model-checked only:

- `ImplementsCursor`, the refinement of the reader: the mapping computes what the listed
  files hold and the place of the cursor among it from recursive functions, and every
  read must be followed through them;
- `StreamEnds`, a liveness property under fairness, which the prover does not treat.

## Plan

Proofs next: the step simulation behind `ImplementsCursor`.

Modules: event and run parameters (`SIOLCParameters`, `LCParametersImpl`) and
compressed records, with the lengths in the record header and the second
buffer of `SIO_stream`.

## Not modelled

- The Java port, the Fortran and Python interfaces, the ROOT dictionary: second
  implementations or thin layers that pass calls on.
- StdHep and XDR readers: a foreign format, read once from start to end.
- `LCTOOLS`, `Operators` and the examples print; formatting has no
  state and no property here.
- The data classes of `IMPL` and `IOIMPL` other than `MCParticleImpl`: members with
  a getter and a setter.
- Compression, which calls zlib between two buffers; event and run parameters and
  the payload of run headers; verbosity of SIO.
- Files that disappear or change between two calls of a reader, and calls on a
  reader or writer after an `open` or a write that threw.
- `UTIL::IndexMap`: its constructor throws "under development".

Much of the repository is of these kinds: printing, field storage, language
bindings, examples, vendored headers.  The modules cover the parts of the C++
library that keep state from one call to the next.
