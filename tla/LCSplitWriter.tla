---------------------------- MODULE LCSplitWriter ----------------------------
(***************************************************************************)
(* UTIL::LCSplitWriter writes a series of files base.000.slcio,            *)
(* base.001.slcio, ... with one LCWriter: before a record is written the   *)
(* file is closed and the next one opened if its size is above a limit.    *)
(* The writer inside is kept to what shows through here: it refuses to     *)
(* open a file that exists, appends records, puts random access records at *)
(* the end when it closes, and after a failed write is good for nothing.   *)
(***************************************************************************)
EXTENDS Naturals, Sequences, SequencesExt

CONSTANTS
  Bases,       \* base names given to open
  MaxBytes,    \* the limit
  Sizes,       \* of records
  TocSize,     \* of what close writes
  Occupied,    \* sets of file names that are there before
  DiskMayFail, \* may a write fail?
  Insists,     \* does the job go on calling after an exception?
  MaxRecords,  \* bound: records given to the writer
  MaxOpens,    \* bound: calls of open
  MaxFiles     \* bound: numbers a file may get

ASSUME SplitAssumption ==
  /\ MaxBytes \in Nat /\ Sizes \subseteq Nat \ {0} /\ TocSize \in Nat
  /\ DiskMayFail \in BOOLEAN /\ Insists \in BOOLEAN
  /\ MaxRecords \in Nat /\ MaxOpens \in Nat /\ MaxFiles \in Nat

NoCount == MaxFiles + 1        \* 4294967295UL
NoName == <<"", 0>>

VARIABLES
  base, count, lastCount, filename,   \* members of LCSplitWriter
  out,      \* the writer inside: its state and the file it is on
  disk,     \* files: name -> sequence of [id, size]
  given,    \* records given to the writer so far
  opens,
  accepted, \* history: records of this series written without an exception
  threw     \* history: the last call threw

members == <<base, count, lastCount, filename>>
vars == <<members, out, disk, given, opens, accepted, threw>>

Foreign == <<[id |-> 0, size |-> 1]>>
SizeOf(recs) == FoldLeft(LAMBDA n, r : n + r.size, 0, recs)
Put(d, name, recs) == [n \in DOMAIN d \cup {name} |-> IF n = name THEN recs ELSE d[n]]

Init ==
  /\ base = "" /\ count = 0 /\ lastCount = NoCount /\ filename = NoName
  /\ out = [state |-> "new", file |-> NoName]
  /\ \E names \in Occupied : disk = [n \in names |-> Foreign]
  /\ given = 0 /\ opens = 0 /\ accepted = << >> /\ threw = FALSE

MayCall == threw => Insists

\* Mutant: the name is made only once.
FirstName(b, n, last, cached) == IF last = NoCount THEN <<b, n>> ELSE cached
\* Mutant: the number is raised before the name is made.
StartsAtOne(b, n, last, cached) == IF n # last THEN <<b, n + 1>> ELSE cached
\* getFilename: base and number, unless the number is still that of the last call.
GetFilename(b, n, last, cached) == IF n # last THEN <<b, n>> ELSE cached

\* Mutant: LCWriter::open truncates a file that exists.
RefusesNone(d, name) == FALSE
\* LCWriter::open without a mode refuses a file that exists.
Refuses(d, name) == name \in DOMAIN d

Open(b) ==
  /\ MayCall /\ out.state \in {"new", "closed"} /\ opens < MaxOpens
  /\ opens' = opens + 1 /\ base' = b /\ count' = 0 /\ lastCount' = 0
  /\ filename' = GetFilename(b, 0, lastCount, filename)
  /\ IF Refuses(disk, filename')
       THEN threw' = TRUE /\ UNCHANGED <<out, disk, accepted>>
       ELSE /\ out' = [state |-> "open", file |-> filename']
            /\ disk' = Put(disk, filename', << >>)
            /\ accepted' = << >> /\ threw' = FALSE
  /\ UNCHANGED given

FileSize == IF filename \in DOMAIN disk THEN SizeOf(disk[filename]) ELSE 0
\* Mutant: the record that is to be written counts, too.
FullWith(size) == FileSize + size > MaxBytes
Full(size) == FileSize > MaxBytes

\* What SIOWriter::close adds.
Closed(d, name) == Put(d, name, Append(d[name], [id |-> 0, size |-> TocSize]))

Record(size) == [id |-> given + 1, size |-> size]

\* The record is appended to file name, or the disk fails and it is not.
PutRecord(d, name, size) ==
  \/ /\ disk' = Put(d, name, Append(IF name \in DOMAIN d THEN d[name] ELSE << >>, Record(size)))
     /\ out' = [state |-> "open", file |-> name]
     /\ accepted' = Append(accepted, given + 1) /\ threw' = FALSE
  \/ /\ DiskMayFail
     /\ disk' = d /\ out' = [state |-> "error", file |-> name]
     /\ threw' = TRUE /\ UNCHANGED accepted

\* writeRunHeader and writeEvent: the file has room.
WriteHere(size) ==
  /\ out.state = "open" /\ ~Full(size)
  /\ PutRecord(disk, out.file, size)
  /\ UNCHANGED members

\* The file is full: the next one is opened, which fails if it exists.
WriteNext(size) ==
  /\ out.state = "open" /\ Full(size) /\ count < MaxFiles
  /\ count' = count + 1 /\ lastCount' = count + 1
  /\ filename' = GetFilename(base, count + 1, lastCount, filename)
  /\ LET d == Closed(disk, out.file)
     IN IF Refuses(d, filename')
          THEN /\ disk' = d /\ out' = [out EXCEPT !.state = "closed"]
               /\ threw' = TRUE /\ UNCHANGED accepted
          ELSE PutRecord(Put(d, filename', << >>), filename', size)
  /\ UNCHANGED base

\* A stream in error: close and write throw, the full file is not left.
WriteAfterError ==
  /\ out.state = "error" /\ threw' = TRUE
  /\ UNCHANGED <<members, out, disk, accepted>>

\* The stream was deleted by the close before: its memory is used.
WriteAfterClose ==
  /\ out.state = "closed" /\ Insists
  /\ out' = [out EXCEPT !.state = "undefined"] /\ threw' = TRUE
  /\ UNCHANGED <<members, disk, accepted>>

Write ==
  /\ MayCall /\ given < MaxRecords /\ given' = given + 1
  /\ \E size \in Sizes : WriteHere(size) \/ WriteNext(size) \/ WriteAfterError \/ WriteAfterClose
  /\ UNCHANGED opens

Close ==
  /\ MayCall /\ out.state \in {"open", "error"}
  /\ IF out.state = "open"
       THEN /\ disk' = Closed(disk, out.file)
            /\ out' = [out EXCEPT !.state = "closed"] /\ threw' = FALSE
       ELSE threw' = TRUE /\ UNCHANGED <<disk, out>>
  /\ UNCHANGED <<members, given, opens, accepted>>

Next == (\E b \in Bases : Open(b)) \/ Write \/ Close
Spec == Init /\ [][Next]_vars

-----------------------------------------------------------------------------
\* The state is of the right shape.
TypeOK ==
  /\ count \in 0..MaxFiles /\ lastCount \in {NoCount, count} /\ filename[2] = count
  /\ out.state \in {"new", "open", "error", "closed", "undefined"}
  /\ out.state \in {"open", "error", "closed"} => out.file \in DOMAIN disk
  /\ given \in 0..MaxRecords /\ opens \in 0..MaxOpens

InSeries == accepted # << >> /\ out.file[1] = base
Number == out.file[2]
\* The records of a file, without what close put at its end.
Data(name) ==
  LET recs == disk[name]
  IN IF recs # << >> /\ Last(recs).id = 0 THEN Front(recs) ELSE recs
Ids(recs) == [i \in DOMAIN recs |-> recs[i].id]

\* The files of the series, one after the other, hold every record that was
\* accepted, once and in order: a reader of the list of files sees the job.
SeriesIsJob ==
  InSeries => /\ \A k \in 0..Number : <<base, k>> \in DOMAIN disk
              /\ FlattenSeq([k \in 1..Number + 1 |-> Ids(Data(<<base, k - 1>>))]) = accepted

\* A file is left when it is above the limit and not before, and nothing is
\* added to one that is; what is above is the last record and the records for
\* random access.
SplitsAtLimit ==
  InSeries => \A k \in 0..Number :
    LET data == Data(<<base, k>>)
    IN /\ k < Number => SizeOf(data) > MaxBytes
       /\ data # << >> => SizeOf(Front(data)) <= MaxBytes

\* No file that was there before is touched, on any path.
OthersUntouched == [][\A n \in DOMAIN disk : n # out.file => disk'[n] = disk[n]]_vars

\* The calls report failures as exceptions (LCWriter.aid:20), not by using a
\* stream that is gone.
NoStreamUsedAfterClose == out.state # "undefined"
=============================================================================
