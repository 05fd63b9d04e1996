---------------------------- MODULE EventOwnership ----------------------------
(***************************************************************************)
(* Who deletes what.  An LCEvent deletes its collections, except those     *)
(* that were taken from it; an LCCollectionVec deletes its elements, except *)
(* when its flag word says that it is a subset; the SIO reader deletes the  *)
(* event of the last call when it reads the next.  All of them work with   *)
(* bare pointers: collections and elements are addresses here, and an      *)
(* address that is free again may be that of the next thing made.          *)
(*                                                                         *)
(* The client is a job that keeps to the documentation: LCEvent.aid on     *)
(* takeCollection ("deleting the collection after the Event is deleted")   *)
(* and LCCollectionVec.h on subsets.  Two liberties it may take are        *)
(* constants: setting flags late and relying on removeCollection to delete. *)
(***************************************************************************)
EXTENDS FiniteSets, Functions

CONSTANTS
  ReaderEvents,  \* the event of a reader, there from the first read
  ClientEvents,  \* events the client makes
  Names,         \* of collections
  Addrs,         \* addresses of collections
  Objects,       \* addresses of elements
  FlagsLate,     \* may it set the flag word of a subset that has elements, or
                 \* of a collection that was taken?
  TrustsRemove   \* does the client leave what it removes to the event?

ASSUME OwnershipAssumption == FlagsLate \in BOOLEAN /\ TrustsRemove \in BOOLEAN

Events == ReaderEvents \cup ClientEvents

VARIABLES
  col,    \* collections in memory
  obj,    \* elements in memory: "free", "update" or "readonly"
  evt,    \* events: _colMap, _notOwned and the access mode
  held,   \* collections the client has to delete
  heldObj,\* elements the client has to delete
  fault   \* something was deleted or used that was not there

vars == <<col, obj, evt, held, heldObj, fault>>

Free == [live |-> FALSE, subset |-> FALSE, transient |-> FALSE, ro |-> FALSE, elems |-> {}]
NewCol(subset, elems) == [Free EXCEPT !.live = TRUE, !.subset = subset, !.elems = elems]
NoEvent == [live |-> FALSE, cols |-> << >>, notOwned |-> {}, ro |-> FALSE]
EmptyEvent == [NoEvent EXCEPT !.live = TRUE]

Mode(ro) == IF ro THEN "readonly" ELSE "update"
Named(e) == Range(evt[e].cols)
LiveEvents == {e \in Events : evt[e].live}

-----------------------------------------------------------------------------
(* Deleting.                                                               *)

\* Mutant: the subset bit is not looked at.
ElementsAnyway(a) == col[a].elems
\* ~LCCollectionVec: the elements it deletes.
ElementsDeleted(a) == IF col[a].subset THEN {} ELSE col[a].elems

\* Mutant: ~LCEventImpl deletes all collections.
AllNamed(e) == Named(e)
\* ~LCEventImpl: the collections it deletes.
Owned(e) == Named(e) \ evt[e].notOwned

AllDeleted(as) == UNION {ElementsDeleted(a) : a \in as}

\* Deletes the collections as; the two maps that are left, and whether anything
\* was not there (any more).
ColWithout(as) == [a \in Addrs |-> IF a \in as THEN Free ELSE col[a]]
ObjWithout(as) == [o \in Objects |-> IF o \in AllDeleted(as) THEN "free" ELSE obj[o]]
Twice(as) ==
  \/ \E a \in as : ~col[a].live
  \/ \E o \in AllDeleted(as) :
       obj[o] = "free" \/ Cardinality({a \in as : o \in ElementsDeleted(a)}) > 1

-----------------------------------------------------------------------------
(* Access modes.                                                           *)

\* Mutant: AccessChecked::setReadOnly is not overwritten by LCCollectionVec.
CollectionsOnly(as) == {}
\* The elements that a setReadOnly of the collections reaches, subsets too.
Reached(as) == UNION {col[a].elems : a \in as}

-----------------------------------------------------------------------------
Init ==
  /\ col = [a \in Addrs |-> Free] /\ obj = [o \in Objects |-> "free"]
  /\ evt = [e \in Events |-> NoEvent]
  /\ held = {} /\ heldObj = {} /\ fault = FALSE

(* Collections and their elements in the hands of the client.              *)

MakeCollection(a) ==
  /\ ~col[a].live
  /\ \E subset \in BOOLEAN : col' = [col EXCEPT ![a] = NewCol(subset, {})]
  /\ held' = held \cup {a}
  /\ UNCHANGED <<obj, evt, heldObj, fault>>

MakeObject(o) ==
  /\ obj[o] = "free"
  /\ obj' = [obj EXCEPT ![o] = "update"] /\ heldObj' = heldObj \cup {o}
  /\ UNCHANGED <<col, evt, held, fault>>

\* addElement: 'real' objects into collections, others' into subsets.
AddElement(a, o) ==
  /\ col[a].live /\ ~col[a].ro /\ o \notin col[a].elems
  /\ IF col[a].subset THEN obj[o] # "free" /\ o \notin heldObj ELSE o \in heldObj
  /\ col' = [col EXCEPT ![a].elems = @ \cup {o}]
  /\ heldObj' = IF col[a].subset THEN heldObj ELSE heldObj \ {o}
  /\ UNCHANGED <<obj, evt, held, fault>>

\* removeElementAt does not delete the element.
RemoveElement(a, o) ==
  /\ col[a].live /\ ~col[a].ro /\ o \in col[a].elems
  /\ col' = [col EXCEPT ![a].elems = @ \ {o}]
  /\ heldObj' = IF col[a].subset THEN heldObj ELSE heldObj \cup {o}
  /\ UNCHANGED <<obj, evt, held, fault>>

\* setFlag( flags of the type ): the word is assigned, with the bits for
\* transient and subset, "allowed in 'read only' mode".
SetFlag(a) ==
  /\ col[a].live /\ (FlagsLate \/ (col[a].elems = {} /\ ~col[a].transient))
  /\ col' = [col EXCEPT ![a].subset = FALSE, ![a].transient = FALSE]
  /\ UNCHANGED <<obj, evt, held, heldObj, fault>>

DeleteObject(o) ==
  /\ o \in heldObj
  /\ fault' = (fault \/ obj[o] = "free")
  /\ obj' = [obj EXCEPT ![o] = "free"] /\ heldObj' = heldObj \ {o}
  /\ UNCHANGED <<col, evt, held>>

\* The caller of takeCollection waits until the event is gone.
DeleteHeld(a) ==
  /\ a \in held /\ \A e \in LiveEvents : a \notin Named(e) \cup evt[e].notOwned
  /\ fault' = (fault \/ Twice({a}))
  /\ col' = ColWithout({a}) /\ obj' = ObjWithout({a}) /\ held' = held \ {a}
  /\ UNCHANGED <<evt, heldObj>>

-----------------------------------------------------------------------------
(* Events.                                                                 *)

AddCollection(e, a, name) ==
  /\ evt[e].live /\ a \in held /\ a \notin Named(e) \cup evt[e].notOwned
  /\ name \notin DOMAIN evt[e].cols
  /\ evt' = [evt EXCEPT ![e].cols = [n \in DOMAIN @ \cup {name} |-> IF n = name THEN a ELSE @[n]]]
  /\ held' = held \ {a}
  /\ UNCHANGED <<col, obj, heldObj, fault>>

\* Mutants: not flagged; not recorded.
NotFlagged(c) == c
Flagged(c) == [c EXCEPT !.transient = TRUE]
OnlyFlagged(ev, a) == ev
AfterTake(ev, a) == [ev EXCEPT !.notOwned = @ \cup {a}]

\* takeCollection, once.
TakeCollection(e, name) ==
  /\ evt[e].live /\ name \in DOMAIN evt[e].cols
  /\ LET a == evt[e].cols[name]
     IN /\ a \notin evt[e].notOwned
        /\ col' = [col EXCEPT ![a] = Flagged(@)]
        /\ evt' = [evt EXCEPT ![e] = AfterTake(@, a)]
        /\ held' = held \cup {a}
  /\ UNCHANGED <<obj, heldObj, fault>>

\* removeCollection: the name goes, the collection stays with whoever has the
\* pointer.
RemoveCollection(e, name) ==
  /\ evt[e].live /\ ~evt[e].ro /\ name \in DOMAIN evt[e].cols
  /\ LET a == evt[e].cols[name]
     IN held' = IF TrustsRemove \/ a \in evt[e].notOwned THEN held ELSE held \cup {a}
  /\ evt' = [evt EXCEPT ![e].cols = Restrict(@, DOMAIN @ \ {name})]
  /\ UNCHANGED <<col, obj, heldObj, fault>>

\* setAccessMode.  Subsets are of objects of the same event.
SetAccessMode(e, ro) ==
  /\ evt[e].live
  /\ \A o \in UNION {col[a].elems : a \in Named(e)} : \E a \in Named(e) : o \in ElementsDeleted(a)
  /\ LET os == Reached(Named(e))
     IN /\ fault' = (fault \/ \E o \in os : obj[o] = "free")
        /\ obj' = [o \in Objects |-> IF o \in os THEN Mode(ro) ELSE obj[o]]
  /\ col' = [a \in Addrs |-> IF a \in Named(e) THEN [col[a] EXCEPT !.ro = ro] ELSE col[a]]
  /\ evt' = [evt EXCEPT ![e].ro = ro]
  /\ UNCHANGED <<held, heldObj>>

\* What was taken from an event and given to another goes with the first.
OthersDone(e) == \A d \in LiveEvents \ {e} : (Named(d) \cup evt[d].notOwned) \cap Owned(e) = {}

MakeEvent(e) ==
  /\ e \in ClientEvents /\ ~evt[e].live
  /\ evt' = [evt EXCEPT ![e] = EmptyEvent]
  /\ UNCHANGED <<col, obj, held, heldObj, fault>>

DeleteEvent(e) ==
  /\ evt[e].live /\ OthersDone(e)
  /\ fault' = (fault \/ Twice(Owned(e)))
  /\ col' = ColWithout(Owned(e)) /\ obj' = ObjWithout(Owned(e))
  /\ evt' = [evt EXCEPT ![e] = NoEvent]
  /\ UNCHANGED <<held, heldObj>>

\* SIOEventHandler deletes the event, makes one with the collections of the
\* header, their handlers fill them, and the reader sets the access mode.
\* plain: name -> address, subset: those that are subsets; of: new elements.
ReadNextEvent(e) ==
  /\ e \in ReaderEvents /\ OthersDone(e)
  /\ fault' = (fault \/ Twice(Owned(e)))
  /\ LET col1 == ColWithout(Owned(e))
         obj1 == ObjWithout(Owned(e))
         freeCols == {a \in Addrs : ~col1[a].live}
         freeObjs == {o \in Objects : obj1[o] = "free"}
     IN \E names \in SUBSET Names, os \in SUBSET freeObjs, ro \in BOOLEAN :
        \E subsets \in SUBSET names, cols \in Injection(names, freeCols) :
        \E in \in [os -> names \ subsets] :
          LET Elems(n) == IF n \in subsets THEN os ELSE {o \in os : in[o] = n}
          IN /\ col' = [a \in Addrs |->
                          IF a \in Range(cols)
                            THEN LET n == CHOOSE k \in names : cols[k] = a
                                 IN [NewCol(n \in subsets, Elems(n)) EXCEPT !.ro = ro]
                            ELSE col1[a]]
             /\ obj' = [o \in Objects |-> IF o \in os THEN Mode(ro) ELSE obj1[o]]
             /\ evt' = [evt EXCEPT ![e] = [EmptyEvent EXCEPT !.cols = cols, !.ro = ro]]
  /\ UNCHANGED <<held, heldObj>>

Next ==
  \/ \E a \in Addrs : MakeCollection(a) \/ SetFlag(a) \/ DeleteHeld(a)
  \/ \E o \in Objects : MakeObject(o) \/ DeleteObject(o)
  \/ \E a \in Addrs, o \in Objects : AddElement(a, o) \/ RemoveElement(a, o)
  \/ \E e \in Events, n \in Names : TakeCollection(e, n) \/ RemoveCollection(e, n)
  \/ \E e \in Events, a \in Addrs, n \in Names : AddCollection(e, a, n)
  \/ \E e \in Events : MakeEvent(e) \/ DeleteEvent(e) \/ ReadNextEvent(e)
  \/ \E e \in Events, ro \in BOOLEAN : SetAccessMode(e, ro)

Spec == Init /\ [][Next]_vars

-----------------------------------------------------------------------------
\* The state is of the right shape; what was taken is flagged as transient, so
\* that no file gets a collection another job object looks after.
TypeOK ==
  /\ \A a \in Addrs : IF col[a].live THEN col[a].elems \subseteq Objects ELSE col[a] = Free
  /\ \A o \in Objects : obj[o] \in {"free", "update", "readonly"}
  /\ \A e \in Events : /\ DOMAIN evt[e].cols \subseteq Names
                       /\ ~evt[e].live => evt[e] = NoEvent
                       /\ \A a \in evt[e].notOwned : col[a].transient
  /\ held \subseteq Addrs /\ heldObj \subseteq Objects

\* Nothing is deleted that is not there and no element that is gone is used.
NothingDeletedTwice == ~fault

\* Every collection in memory has one owner, the client or an event, and every
\* element the client or a collection: nothing leaks ("here we need to delete
\* all collections in the event, except collections whose ownership we gave
\* away", LCEventImpl.cc:42) and the client's things stay.
OneOwner ==
  /\ \A a \in Addrs :
       Cardinality({e \in LiveEvents : a \in Owned(e)} \cup (held \cap {a}))
         = (IF col[a].live THEN 1 ELSE 0)
  /\ \A o \in Objects :
       Cardinality({a \in Addrs : o \in ElementsDeleted(a)} \cup (heldObj \cap {o}))
         = (IF obj[o] # "free" THEN 1 ELSE 0)

\* A name in an event stands for a collection that is there: getCollection and
\* the writer, which asks every collection whether it is transient, rely on it.
NamesLive == \A e \in LiveEvents : \A a \in Named(e) : col[a].live

\* A collection and the elements it owns are in the same access mode, whatever
\* subsets point to them.
ElementsInMode ==
  \A a \in Addrs : \A o \in ElementsDeleted(a) : obj[o] = Mode(col[a].ro)
=============================================================================
