---------------------------- MODULE EventCursor ----------------------------
(***************************************************************************)
(* What an LCReader promises, without records, positions, event maps or    *)
(* the file that is open: a cursor over one sequence of run headers and    *)
(* events, those of all the files it was opened for in their order.        *)
(*                                                                         *)
(* A call that reads moves the cursor behind what it returns, or to the    *)
(* end when it returns nothing.  A call by key finds what the cursor's     *)
(* book lists.  Nothing is refused unless the files are damaged.           *)
(***************************************************************************)
EXTENDS Integers, Sequences, FiniteSets

CONSTANTS CursorItem,   \* run headers and events with the part they are in
          CursorKeys,   \* their keys
          Parts,        \* numbers of the parts
          MaxSkip,      \* bound: events skipped by one call
          Nothing       \* no run header and no event

VARIABLES items,        \* the run headers and events of the open files
          at,           \* how many of them have been passed
          book,         \* the indices of those that are found by key
          whole,        \* the files are undamaged
          sound,        \* calls are still answered
          got           \* what the last call returned

cursorVars == <<items, at, book, whole, sound, got>>

IsRun(x) == x.what.key.EvtNum < 0
Later(P(_)) == {i \in at + 1 .. Len(items) : P(items[i])}
FirstOf(S) == CHOOSE i \in S : \A j \in S : i <= j
NthOf(S, n) == CHOOSE i \in S : Cardinality({j \in S : j <= i}) = n

(***************************************************************************)
(* The cursor goes to i and x is returned.  The book is closed when its    *)
(* items are passed; damage can only be met at the end.                    *)
(***************************************************************************)
MoveTo(i, x) ==
  /\ sound
  /\ at' = i /\ got' = x
  /\ book' # book => book' = {} /\ \A j \in book : j <= i
  /\ ~sound' => ~whole /\ i = Len(items)
  /\ UNCHANGED <<items, whole>>

ReadFirst(S) == IF S = {} THEN MoveTo(Len(items), Nothing)
                ELSE MoveTo(FirstOf(S), items[FirstOf(S)].what)

NextRun   == ReadFirst(Later(IsRun))
NextEvent == ReadFirst(Later(LAMBDA x : ~IsRun(x)))
NextOfAny == ReadFirst(Later(LAMBDA x : TRUE))

Skip(n) ==
  LET events == Later(LAMBDA x : ~IsRun(x))
  IN  MoveTo(IF Cardinality(events) < n THEN Len(items) ELSE NthOf(events, n),
             Nothing)

(***************************************************************************)
(* By key: what the book lists under k is returned.                        *)
(***************************************************************************)
Find(k) ==
  LET listed == {i \in book : items[i].what.key = k}
  IN  \/ \E i \in listed : MoveTo(i, items[i].what)
      \/ listed = {} /\ MoveTo(at, Nothing)

(***************************************************************************)
(* Without a book an event is looked for ahead of the cursor: some event   *)
(* of the number asked for is returned.  Nothing is returned only if the   *)
(* event does not come after a header of its run.                          *)
(***************************************************************************)
SearchAhead(k) ==
  \/ \E i \in Later(LAMBDA x : x.what.key.EvtNum = k.EvtNum) : MoveTo(i, items[i].what)
  \/ /\ ~\E i, j \in at + 1 .. Len(items) :
           i < j /\ IsRun(items[i]) /\ items[i].what.key.RunNum = k.RunNum
                 /\ items[j].what.key = k
     /\ MoveTo(Len(items), Nothing)

PartOf(its, p) == {i \in 1 .. Len(its) : its[i].part = p}

(***************************************************************************)
(* The numbers of run headers and events of the part the cursor is in.     *)
(* Making the book takes the cursor to the start of this part.             *)
(***************************************************************************)
Count ==
  LET number(S, isRun) == Cardinality({items[i].what.key : i \in {j \in S : IsRun(items[j]) = isRun}})
  IN  /\ sound /\ sound'
      /\ \/ book' = book /\ at' = at /\ book # {}
         \/ \E p \in Parts :
              /\ book' = PartOf(items, p)
              /\ at' <= at /\ at <= at' + Cardinality(book')
              /\ \A i \in 1 .. Len(items) : i <= at' <=> items[i].part < p
      /\ whole => got' = [nRun |-> number(book', TRUE), nEvt |-> number(book', FALSE)]
      /\ UNCHANGED <<items, whole>>

(***************************************************************************)
(* Damage is met, and from then on no run header or event is returned.     *)
(***************************************************************************)
Refuse ==
  /\ ~sound
  /\ \A i \in 1 .. Len(items) : got' # items[i].what
  /\ at' \in 0 .. Len(items)
  /\ UNCHANGED <<items, book, whole, sound>>

MeetDamage ==
  /\ sound /\ ~whole /\ ~sound'
  /\ at' \in 0 .. Len(items) /\ got' = Nothing
  /\ UNCHANGED <<items, whole>>

(***************************************************************************)
(* The cursor gets to the next part, with nothing of it read yet.          *)
(***************************************************************************)
TurnOver ==
  /\ book' = {} /\ \A i \in book : i <= at
  /\ UNCHANGED <<items, at, whole, sound, got>>

Open ==
  /\ items = << >>
  /\ items' \in Seq(CursorItem) /\ (sound' => at' = 0)
  /\ whole' \in BOOLEAN /\ (~whole' \/ sound')
  /\ book' \in {{}, PartOf(items', 1)}
  /\ got' = Nothing

Close ==
  /\ items' = << >> /\ at' = 0 /\ book' = {}
  /\ whole' = TRUE /\ sound' = TRUE /\ got' = Nothing

CursorInit == /\ items = << >> /\ at = 0 /\ book = {}
              /\ whole = TRUE /\ sound = TRUE /\ got = Nothing

CursorNext ==
  \/ Open \/ Close \/ Count \/ Refuse \/ MeetDamage \/ TurnOver
  \/ NextRun \/ NextEvent \/ NextOfAny
  \/ \E n \in 1 .. MaxSkip : Skip(n)
  \/ \E k \in CursorKeys : Find(k) \/ SearchAhead(k)

CursorSpec == CursorInit /\ [][CursorNext]_cursorVars
=============================================================================
