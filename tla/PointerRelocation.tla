------------------------- MODULE PointerRelocation --------------------------
(***************************************************************************)
(* How SIO stores pointers between objects.  A stream that writes notes,   *)
(* while it packs a record, where the objects lie in its buffer that can   *)
(* be pointed at and where the pointers lie (tables pointedAt, pointerTo); *)
(* when all blocks are packed, an object and the pointers to it get one    *)
(* match word.  A stream that reads notes the match words with addresses   *)
(* in memory and sets the pointers when the record is unpacked.            *)
(*                                                                         *)
(* One stream writes records, another one reads them.  Of a record only    *)
(* its items are kept: an object that can be pointed at, or a pointer, and *)
(* the block it is in.  A block is unpacked if a handler of its name is    *)
(* registered, else it is skipped.                                         *)
(***************************************************************************)
EXTENDS Naturals, Sequences, FiniteSets, FiniteSetsExt

CONSTANTS
  Contents,     \* the records that are written: sequences of items
  SIO_ptag,     \* the match word of an object that nothing points to
  Failures,     \* what may go wrong, a subset of FailureKinds
  FirstBuffer,  \* words in the buffer of a stream when it is opened
  MaxRecords,   \* bound: records written
  MaxReads,     \* bound: records read
  MaxBad,       \* bound: reads that fail
  Wanted        \* the sets of blocks that handlers are registered for

FailureKinds == {"alloc", "disk", "packing", "status", "throw"}
NULL == 0
Blocks == UNION {{items[i].blk : i \in DOMAIN items} : items \in Contents}

ASSUME RelocationAssumption ==
  /\ \A items \in Contents :
       /\ items \in Seq([blk : Blocks, kind : {"at", "to"}, obj : Nat])
       /\ \A i \in DOMAIN items : items[i].kind = "at" => items[i].obj # NULL
  /\ SIO_ptag \in Nat
  /\ \A items \in Contents : Len(items) < SIO_ptag
  /\ Failures \subseteq FailureKinds
  /\ FirstBuffer \in Nat \ {0}
  /\ MaxRecords \in Nat /\ MaxReads \in Nat /\ MaxBad \in Nat
  /\ Wanted \subseteq SUBSET Blocks

VARIABLES
  \* the stream that writes
  wstate,     \* "open", "error" or "closed"
  packing,    \* the items of the record that is being packed, << >> if none
  bufloc, bufsize, buf,   \* address and capacity of the buffer, words packed
  wAt, wTo,   \* pointedAt: object -> offset; pointerTo: pairs object, offset
  gaveUp,     \* history: a record was given up after the last that was written
  \* the file: match words, the items they were made from, and gaveUp
  file,
  \* the stream that reads
  reads,      \* what was read so far: record, blocks unpacked, state, slots
  rpos,       \* items of the record at work that were dealt with
  rAt, rTo    \* pointedAt: match -> object; pointerTo: pairs match, slot

wvars == <<wstate, packing, bufloc, bufsize, buf, wAt, wTo, gaveUp>>
rvars == <<reads, rpos, rAt, rTo>>
vars == <<wvars, file, rvars>>

Empty == [k \in {} |-> 0]
\* std::map::insert: an entry that is there stays.
Insert(f, k, v) == IF k \in DOMAIN f THEN f ELSE [x \in DOMAIN f \cup {k} |->
                                                    IF x = k THEN v ELSE f[x]]

Init ==
  /\ wstate = "open" /\ packing = << >> /\ bufloc = 0 /\ bufsize = FirstBuffer
  /\ buf = << >> /\ wAt = Empty /\ wTo = {} /\ gaveUp = FALSE /\ file = << >>
  /\ reads = << >> /\ rpos = 0 /\ rAt = Empty /\ rTo = {}

-----------------------------------------------------------------------------
(* Writing. *)

BeginRecord ==
  /\ wstate = "open" /\ packing = << >> /\ Len(file) < MaxRecords
  /\ packing' \in Contents \ {<< >>}
  /\ buf' = << >>
  /\ UNCHANGED <<wstate, bufloc, bufsize, wAt, wTo, gaveUp, file, rvars>>

Item == packing[Len(buf) + 1]
\* Where the next word goes, and what the tables keep of it.
Cursor == bufloc + Len(buf)
\* Mutant: keeps the place in memory, which moves when the buffer grows.
OffsetInMemory == Cursor
Offset == Cursor - bufloc

Fits == Len(buf) < bufsize
\* Mutant: the buffer is not replaced.
GrowNot == UNCHANGED <<bufsize, bufloc>>
\* The buffer that replaces a full one: twice as long, somewhere else.
Grow == bufsize' = 2 * bufsize /\ bufloc' = bufloc + bufsize

PutWord(w) ==
  /\ buf' = Append(buf, w)
  /\ IF Fits THEN UNCHANGED <<bufloc, bufsize>> ELSE Grow

PointedAtWrite ==
  /\ Item.kind = "at"
  /\ wAt' = Insert(wAt, Item.obj, Offset)
  /\ PutWord(SIO_ptag)
  /\ UNCHANGED wTo

PointerToWrite ==
  /\ Item.kind = "to"
  /\ wTo' = IF Item.obj = NULL THEN wTo ELSE wTo \cup {<<Item.obj, Offset>>}
  /\ PutWord(NULL)
  /\ UNCHANGED wAt

PackItem ==
  /\ Len(buf) < Len(packing)
  /\ PointedAtWrite \/ PointerToWrite
  /\ UNCHANGED <<wstate, packing, gaveUp, file, rvars>>

\* No memory for a larger buffer: the stream is in error from then on.
AllocationFails ==
  /\ "alloc" \in Failures /\ Len(buf) < Len(packing) /\ ~Fits
  /\ wstate' = "error" /\ packing' = << >> /\ gaveUp' = TRUE
  /\ UNCHANGED <<bufloc, bufsize, buf, wAt, wTo, file, rvars>>

\* A handler gives up, by its status or by an exception: the record is not
\* written.  Bound: one record between two that are written.
PackingError ==
  /\ "packing" \in Failures /\ packing # << >> /\ ~gaveUp
  /\ packing' = << >> /\ gaveUp' = TRUE
  /\ UNCHANGED <<wstate, bufloc, bufsize, buf, wAt, wTo, file, rvars>>

Targets == {e[1] : e \in wTo}
\* Match words are given in the order of the addresses, to unknown targets too.
Match(o) == Cardinality({p \in Targets : p <= o})
\* The targets whose match word is copied to an offset; the last one stays.
CopiedTo(off) == {o \in Targets \cap DOMAIN wAt : wAt[o] = off \/ <<o, off>> \in wTo}
RelocatedWords ==
  [i \in DOMAIN buf |->
     IF CopiedTo(i - 1) = {} THEN buf[i] ELSE Match(Max(CopiedTo(i - 1)))]

WriteRecord ==
  /\ packing # << >> /\ Len(buf) = Len(packing)
  /\ file' = Append(file, [words |-> RelocatedWords, items |-> packing,
                           stale |-> gaveUp])
  /\ packing' = << >> /\ gaveUp' = FALSE
  /\ wTo' = {} /\ wAt' = Empty
  /\ UNCHANGED <<wstate, bufloc, bufsize, buf, rvars>>

\* The record is packed but does not get to the disk.
DiskFails ==
  /\ "disk" \in Failures /\ packing # << >> /\ Len(buf) = Len(packing)
  /\ wstate' = "error" /\ packing' = << >> /\ gaveUp' = TRUE
  /\ UNCHANGED <<bufloc, bufsize, buf, wAt, wTo, file, rvars>>

Close ==
  /\ wstate # "closed" /\ packing = << >>
  /\ wstate' = "closed" /\ wAt' = Empty /\ wTo' = {}
  /\ UNCHANGED <<packing, bufloc, bufsize, buf, gaveUp, file, rvars>>

-----------------------------------------------------------------------------
(* Reading.  What is read n-th from item i lies at the address <<n, i>>;   *)
(* a pointer that is not set yet holds its match word.                     *)

Addr(n, i) == <<n, i>>
Raw(match) == <<0, match>>
NullPointer == Raw(NULL)

Busy == reads # << >> /\ reads[Len(reads)].state = "busy"
At == Len(reads)
Record == file[reads[At].rec]

BeginRead(r, wanted) ==
  /\ wstate = "closed" /\ ~Busy /\ Len(reads) < MaxReads
  /\ reads' = Append(reads, [rec |-> r, wanted |-> wanted, state |-> "busy",
                             slot |-> [i \in DOMAIN file[r].items |-> NullPointer]])
  /\ rpos' = 0
  /\ UNCHANGED <<wvars, file, rAt, rTo>>

Next1 == Record.items[rpos + 1]
Word1 == Record.words[rpos + 1]
Here == Addr(At, rpos + 1)

SkipBlock ==
  /\ Next1.blk \notin reads[At].wanted
  /\ UNCHANGED <<reads, rAt, rTo>>

PointedAtRead ==
  /\ Next1.blk \in reads[At].wanted /\ Next1.kind = "at"
  /\ rAt' = IF Word1 = SIO_ptag THEN rAt ELSE Insert(rAt, Word1, Here)
  /\ UNCHANGED <<reads, rTo>>

PointerToRead ==
  /\ Next1.blk \in reads[At].wanted /\ Next1.kind = "to"
  /\ rTo' = IF Word1 = NULL THEN rTo ELSE rTo \cup {<<Word1, Here>>}
  /\ reads' = [reads EXCEPT ![At].slot[rpos + 1] = Raw(Word1)]
  /\ UNCHANGED rAt

UnpackItem ==
  /\ Busy /\ rpos < Len(Record.items)
  /\ SkipBlock \/ PointedAtRead \/ PointerToRead
  /\ rpos' = rpos + 1
  /\ UNCHANGED <<wvars, file>>

\* Bound.
MayFail == Cardinality({n \in DOMAIN reads : reads[n].state \in {"failed", "thrown"}}) < MaxBad

\* Mutant: returns before the tables are cleared.
UnpackFailsKeeping ==
  /\ "status" \in Failures /\ MayFail /\ Busy /\ rpos < Len(Record.items)
  /\ Next1.blk \in reads[At].wanted
  /\ reads' = [reads EXCEPT ![At].state = "failed"]
  /\ UNCHANGED <<rTo, rAt, rpos, wvars, file>>
\* A handler returns an error: the tables are cleared, the caller is told.
UnpackFails ==
  /\ "status" \in Failures /\ MayFail /\ Busy /\ rpos < Len(Record.items)
  /\ Next1.blk \in reads[At].wanted
  /\ reads' = [reads EXCEPT ![At].state = "failed"]
  /\ rTo' = {} /\ rAt' = Empty
  /\ UNCHANGED <<rpos, wvars, file>>

\* A handler throws, through SIO_record::read and SIO_stream::read.
UnpackThrows ==
  /\ "throw" \in Failures /\ MayFail /\ Busy /\ rpos < Len(Record.items)
  /\ Next1.blk \in reads[At].wanted
  /\ reads' = [reads EXCEPT ![At].state = "thrown"]
  /\ UNCHANGED <<rpos, rAt, rTo, wvars, file>>

\* What a pointer is set to: the object with its match word, or null.
Found(match) == IF match \in DOMAIN rAt THEN rAt[match] ELSE NullPointer
Relocated(n, i, old) ==
  LET m == {e[1] : e \in {x \in rTo : x[2] = Addr(n, i)}}
  IN IF m = {} THEN old ELSE Found(Max(m))

RelocateRead ==
  /\ Busy /\ rpos = Len(Record.items)
  /\ reads' = [n \in DOMAIN reads |->
                 [reads[n] EXCEPT !.slot = [i \in DOMAIN @ |-> Relocated(n, i, @[i])],
                                  !.state = IF n = At THEN "ok" ELSE @]]
  /\ rTo' = {} /\ rAt' = Empty
  /\ UNCHANGED <<rpos, wvars, file>>

Next ==
  \/ BeginRecord \/ PackItem \/ AllocationFails \/ PackingError
  \/ WriteRecord \/ DiskFails \/ Close
  \/ \E r \in DOMAIN file, wanted \in Wanted : BeginRead(r, wanted)
  \/ UnpackItem \/ UnpackFails \/ UnpackThrows \/ RelocateRead

Spec == Init /\ [][Next]_vars

-----------------------------------------------------------------------------
\* The state is of the right shape.
TypeOK ==
  /\ wstate \in {"open", "error", "closed"}
  /\ packing \in Contents \cup {<< >>} /\ Len(buf) <= bufsize
  /\ buf \in Seq(Nat) /\ bufloc \in Nat /\ bufsize \in Nat
  /\ IsFiniteSet(wTo) /\ wTo \subseteq Nat \X Nat
  /\ \A o \in DOMAIN wAt : wAt[o] \in Nat
  /\ \A n \in DOMAIN file : DOMAIN file[n].words = DOMAIN file[n].items
  /\ \A n \in DOMAIN reads : reads[n].state \in {"busy", "ok", "failed", "thrown"}
                             /\ reads[n].rec \in DOMAIN file
  /\ \A e \in rTo : e[1] \in Nat /\ e[2][1] \in DOMAIN reads

\* Where an object lies in a record: its first place, if it is there twice.
Places(items, o) == {i \in DOMAIN items : items[i].kind = "at" /\ items[i].obj = o}
Pointers(items) == {i \in DOMAIN items : items[i].kind = "to"}

\* A record on the file needs no other: a pointer in it has the match word of
\* its target and of nothing else, or 0 if it is null or its target was not
\* written with it (a transient or dropped collection).  A record that was given
\* up harms the one that is written next, and no other.
RecordSelfContained ==
  \A n \in DOMAIN file : LET rec == file[n] IN ~rec.stale =>
    \A i \in Pointers(rec.items) :
      LET o == rec.items[i].obj
          same == {j \in DOMAIN rec.items : rec.items[j].kind = "at"
                                            /\ rec.words[j] = rec.words[i]}
      IN IF o = NULL \/ Places(rec.items, o) = {}
           THEN rec.words[i] = NULL
           ELSE same = {Min(Places(rec.items, o))}

\* What the pointer at item i should be after read n.
Home(n, i) ==
  LET items == file[reads[n].rec].items
      places == Places(items, items[i].obj)
  IN IF items[i].blk \notin reads[n].wanted \/ places = {} THEN NullPointer
     ELSE IF items[Min(places)].blk \notin reads[n].wanted THEN NullPointer
     ELSE Addr(n, Min(places))

AllHome(n) == \A i \in Pointers(file[reads[n].rec].items) : reads[n].slot[i] = Home(n, i)
UnpackedWell(n) == reads[n].state = "ok" /\ ~file[reads[n].rec].stale

\* A pointer that was read points to the object it pointed to when it was
\* written, in the same event; if that one was not written or not read it is
\* null.  It stays so whatever is read next, after errors too.  Exempt is only
\* the record that is read next after a handler threw.
PointersHome ==
  \A n \in DOMAIN reads :
    UnpackedWell(n) /\ (n > 1 => reads[n - 1].state # "thrown") => AllHome(n)

\* The same after any failed read: the tables "must be [cleared]
\* unconditionally (otherwise tables from a busted record may persist into the
\* next record)" (SIO_stream.cc:1035).
NextRecordUnharmed == \A n \in DOMAIN reads : UnpackedWell(n) => AllHome(n)
=============================================================================
