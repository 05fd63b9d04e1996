------------------------ MODULE EventOwnershipProofs ------------------------
(***************************************************************************)
(* For any events, collections, names and elements, and a client that sets *)
(* flags when a collection is made and deletes what it removes: everything *)
(* in memory has one owner, so nothing is deleted twice and no name stands *)
(* for something that is gone.                                             *)
(***************************************************************************)
EXTENDS EventOwnership, FiniteSetTheorems, TLAPS

(***************************************************************************)
(* What the client keeps to.                                               *)
(***************************************************************************)
Careful == ~FlagsLate /\ ~TrustsRemove

Collections == [live : BOOLEAN, subset : BOOLEAN, transient : BOOLEAN, ro : BOOLEAN,
                elems : SUBSET Objects]
ColMaps == UNION {[ns -> Addrs] : ns \in SUBSET Names}
EventStates == [live : BOOLEAN, cols : ColMaps, notOwned : SUBSET Addrs, ro : BOOLEAN]

(***************************************************************************)
(* The parts of the inductive invariant.                                   *)
(***************************************************************************)
Shape ==
  /\ col \in [Addrs -> Collections]
  /\ obj \in [Objects -> {"free", "update", "readonly"}]
  /\ evt \in [Events -> EventStates]
  /\ held \in SUBSET Addrs /\ heldObj \in SUBSET Objects
  /\ \A a \in Addrs : ~col[a].live => col[a] = Free
  /\ \A e \in Events : ~evt[e].live => evt[e] = NoEvent

(***************************************************************************)
(* What an event names or does not own any more is there, and named once.  *)
(***************************************************************************)
NamesOK ==
  \A e \in LiveEvents :
    /\ \A a \in Named(e) \cup evt[e].notOwned : col[a].live
    /\ \A a \in evt[e].notOwned : col[a].transient
    /\ \A m, n \in DOMAIN evt[e].cols : evt[e].cols[m] = evt[e].cols[n] => m = n

(***************************************************************************)
(* A collection has an owner, and no other one.                            *)
(***************************************************************************)
ColsOwned ==
  /\ \A a \in Addrs : col[a].live => a \in held \/ \E e \in LiveEvents : a \in Owned(e)
  /\ \A a \in held : col[a].live /\ \A e \in LiveEvents : a \notin Owned(e)
  /\ \A d, e \in LiveEvents : d # e => Owned(d) \cap Owned(e) = {}

(***************************************************************************)
(* So has an element, and it is in the access mode of its collection.      *)
(***************************************************************************)
ObjsOwned ==
  /\ \A o \in Objects : obj[o] # "free" => o \in heldObj \/ \E a \in Addrs : o \in ElementsDeleted(a)
  /\ \A o \in heldObj : obj[o] = "update" /\ \A a \in Addrs : o \notin ElementsDeleted(a)
  /\ \A a \in Addrs : \A o \in ElementsDeleted(a) : obj[o] = Mode(col[a].ro)
  /\ \A a, b \in Addrs : a # b => ElementsDeleted(a) \cap ElementsDeleted(b) = {}

IInv == Shape /\ NamesOK /\ ColsOwned /\ ObjsOwned /\ ~fault

-----------------------------------------------------------------------------
(***************************************************************************)
(* An event that is not there, and one that was just made.                 *)
(***************************************************************************)
LEMMA NoEventShape ==
  /\ NoEvent \in EventStates /\ EmptyEvent \in EventStates
  /\ Free \in Collections
  /\ Range(NoEvent.cols) = {} /\ Range(EmptyEvent.cols) = {}
  /\ DOMAIN NoEvent.cols = {} /\ DOMAIN EmptyEvent.cols = {}
<1>1. << >> \in [{} -> Addrs]
  OBVIOUS
<1>2. << >> \in ColMaps
  BY <1>1 DEF ColMaps
<1>3. Range(<< >>) = {}
  BY DEF Range
<1>4. NoEvent \in EventStates
  BY <1>2 DEF NoEvent, EventStates
<1>5. EmptyEvent \in EventStates /\ EmptyEvent.cols = NoEvent.cols
  BY <1>4 DEF EmptyEvent, EventStates
<1>6. Free \in Collections
  BY DEF Free, Collections
<1>7. DOMAIN << >> = {}
  BY <1>1
<1>8. NoEvent.cols = << >>
  BY DEF NoEvent
<1>9. QED
  BY <1>3, <1>4, <1>5, <1>6, <1>7, <1>8

LEMMA NewColShape ==
  ASSUME NEW subset \in BOOLEAN, NEW elems \in SUBSET Objects
  PROVE  /\ NewCol(subset, elems) \in Collections
         /\ NewCol(subset, elems).live = TRUE
         /\ NewCol(subset, elems).subset = subset
         /\ NewCol(subset, elems).transient = FALSE
         /\ NewCol(subset, elems).ro = FALSE
         /\ NewCol(subset, elems).elems = elems
<1>1. Free \in Collections /\ Free.transient = FALSE /\ Free.ro = FALSE
  BY DEF Free, Collections
<1>2. QED
  BY <1>1 DEF NewCol, Collections

LEMMA ReadOnlyShape ==
  ASSUME NEW c \in Collections, NEW ro \in BOOLEAN
  PROVE  LET d == [c EXCEPT !.ro = ro]
         IN d \in Collections /\ d.live = c.live /\ d.subset = c.subset /\ d.elems = c.elems /\ d.ro = ro
BY DEF Collections

LEMMA ColMapShape ==
  ASSUME NEW ns \in SUBSET Names, NEW f \in [ns -> Addrs]
  PROVE  f \in ColMaps
BY DEF ColMaps

LEMMA InitIInv == Init => IInv
<1> SUFFICES ASSUME Init PROVE IInv
  OBVIOUS
<1>1. Shape
  BY NoEventShape DEF Init, Shape, Free, NoEvent
<1>2. LiveEvents = {} /\ \A a \in Addrs : ElementsDeleted(a) = {} /\ ~col[a].live
  BY DEF Init, LiveEvents, ElementsDeleted, Free, NoEvent
<1>3. QED
  BY <1>1, <1>2 DEF Init, IInv, NamesOK, ColsOwned, ObjsOwned

(***************************************************************************)
(* What an event names and owns are addresses.                             *)
(***************************************************************************)
LEMMA NamedAddrs ==
  ASSUME Shape, NEW e \in Events
  PROVE  Named(e) \subseteq Addrs /\ Owned(e) \subseteq Named(e)
BY DEF Shape, Named, Owned, EventStates, ColMaps, Range

(***************************************************************************)
(* Deleting collections that are there deletes nothing twice, since their  *)
(* elements have no other owner.                                           *)
(***************************************************************************)
LEMMA NotTwice ==
  ASSUME Shape, ObjsOwned, NEW gone \in SUBSET Addrs, \A a \in gone : col[a].live
  PROVE  ~Twice(gone)
<1>1. ASSUME NEW o \in AllDeleted(gone)
      PROVE  obj[o] # "free" /\ ~(Cardinality({a \in gone : o \in ElementsDeleted(a)}) > 1)
  <2>1. PICK a \in gone : o \in ElementsDeleted(a)
    BY <1>1 DEF AllDeleted
  <2>2. obj[o] # "free"
    BY <2>1 DEF ObjsOwned, Mode
  <2> DEFINE s == {b \in gone : o \in ElementsDeleted(b)}
  <2>3. s = {a}
    BY <2>1 DEF ObjsOwned
  <2>4. Cardinality(s) = 1
    BY <2>3, FS_Singleton
  <2>5. ~(Cardinality(s) > 1)
    BY <2>4
  <2>6. QED
    BY <2>2, <2>5
<1>2. QED
  BY <1>1 DEF Twice

(***************************************************************************)
(* What is left after deleting has its owner still.                        *)
(***************************************************************************)
LEMMA AfterDeleting ==
  ASSUME Shape, ObjsOwned, NEW gone \in SUBSET Addrs
  PROVE  /\ ColWithout(gone) \in [Addrs -> Collections]
         /\ ObjWithout(gone) \in [Objects -> {"free", "update", "readonly"}]
         /\ \A a \in Addrs : ColWithout(gone)[a] = IF a \in gone THEN Free ELSE col[a]
         /\ \A o \in Objects : o \in AllDeleted(gone) => ObjWithout(gone)[o] = "free"
         /\ \A a \in Addrs \ gone : ElementsDeleted(a) \cap AllDeleted(gone) = {}
         /\ heldObj \cap AllDeleted(gone) = {}
         /\ \A o \in Objects \ AllDeleted(gone) : ObjWithout(gone)[o] = obj[o]
<1>1. ColWithout(gone) \in [Addrs -> Collections]
  BY NoEventShape DEF Shape, ColWithout
<1>2. ObjWithout(gone) \in [Objects -> {"free", "update", "readonly"}]
  BY DEF Shape, ObjWithout
<1>3. \A o : o \in AllDeleted(gone) <=> \E a \in gone : o \in ElementsDeleted(a)
  BY DEF AllDeleted
<1>4. ASSUME NEW a \in Addrs \ gone PROVE ElementsDeleted(a) \cap AllDeleted(gone) = {}
  <2>1. \A b \in gone : a # b /\ ElementsDeleted(a) \cap ElementsDeleted(b) = {}
    BY DEF ObjsOwned
  <2>2. QED
    BY <1>3, <2>1
<1>5. heldObj \cap AllDeleted(gone) = {}
  BY <1>3 DEF ObjsOwned
<1>6. QED
  BY <1>1, <1>2, <1>4, <1>5 DEF ColWithout, ObjWithout

-----------------------------------------------------------------------------
(***************************************************************************)
(* What depends on the variables an action leaves alone.                   *)
(***************************************************************************)
LEMMA SameEvents ==
  ASSUME evt' = evt
  PROVE  LiveEvents' = LiveEvents /\ \A e : Named(e)' = Named(e) /\ Owned(e)' = Owned(e)
BY DEF LiveEvents, Named, Owned

LEMMA SameElements ==
  ASSUME col' = col
  PROVE  \A a : ElementsDeleted(a)' = ElementsDeleted(a)
BY DEF ElementsDeleted

LEMMA SameCollections ==
  ASSUME Shape, NamesOK, ColsOwned, evt' = evt, held' = held,
         \A b \in Addrs : col'[b].live = col[b].live /\ col'[b].transient = col[b].transient
  PROVE  NamesOK' /\ ColsOwned'
<1>1. \A e \in LiveEvents : e \in Events /\ Named(e) \subseteq Addrs /\ evt[e].notOwned \subseteq Addrs
  BY NamedAddrs DEF Shape, EventStates, LiveEvents
<1>2. NamesOK'
  BY <1>1, SameEvents DEF NamesOK
<1>3. ColsOwned'
  BY <1>1, SameEvents DEF ColsOwned, Shape
<1>4. QED
  BY <1>2, <1>3

-----------------------------------------------------------------------------
(* The actions: collections and elements in the hands of the client. *)

LEMMA MakeCollectionOK ==
  ASSUME IInv, NEW a \in Addrs, MakeCollection(a)
  PROVE  IInv'
<1>1. Shape /\ NamesOK /\ ColsOwned /\ ObjsOwned
  BY DEF IInv
<1>2. ~col[a].live /\ col[a] = Free /\ held' = held \cup {a}
      /\ UNCHANGED <<obj, evt, heldObj, fault>>
  BY <1>1 DEF MakeCollection, Shape
<1>3. PICK subset \in BOOLEAN : col' = [col EXCEPT ![a] = NewCol(subset, {})]
  BY DEF MakeCollection
<1>4. /\ col' \in [Addrs -> Collections] /\ col'[a].live /\ col'[a].elems = {}
      /\ \A b \in Addrs : b # a => col'[b] = col[b]
  BY <1>1, <1>3, NewColShape DEF Shape
<1>5. \A b \in Addrs : ElementsDeleted(b)' = ElementsDeleted(b)
  BY <1>2, <1>4 DEF ElementsDeleted, Free
<1>6. \A e \in LiveEvents : a \notin Named(e) \cup evt[e].notOwned
  BY <1>1, <1>2 DEF NamesOK
<1>7. Shape'
  BY <1>1, <1>2, <1>4 DEF Shape
<1>8. NamesOK'
  BY <1>1, <1>2, <1>4, <1>6, SameEvents, NamedAddrs DEF NamesOK, Shape, EventStates, LiveEvents
<1>9. ColsOwned'
  BY <1>1, <1>2, <1>4, <1>6, SameEvents, NamedAddrs DEF ColsOwned, Shape, LiveEvents
<1>10. ObjsOwned'
  <2>1. ElementsDeleted(a)' = {}
    BY <1>4 DEF ElementsDeleted
  <2>2. QED
    BY <1>1, <1>2, <1>4, <1>5, <2>1 DEF ObjsOwned
<1>11. QED
  BY <1>2, <1>7, <1>8, <1>9, <1>10 DEF IInv

LEMMA MakeObjectOK ==
  ASSUME IInv, NEW o \in Objects, MakeObject(o) \/ DeleteObject(o)
  PROVE  IInv'
<1>1. Shape /\ NamesOK /\ ColsOwned /\ ObjsOwned /\ ~fault
  BY DEF IInv
<1>2. UNCHANGED <<col, evt, held>>
  BY DEF MakeObject, DeleteObject
<1>3. NamesOK' /\ ColsOwned'
  BY <1>1, <1>2, SameEvents DEF NamesOK, ColsOwned
<1>4. CASE MakeObject(o)
  <2>1. Shape' /\ ~fault'
    BY <1>1, <1>4 DEF Shape, MakeObject
  <2>2. \A a \in Addrs : o \notin ElementsDeleted(a)
    BY <1>1, <1>4 DEF ObjsOwned, MakeObject, Mode
  <2>3. ObjsOwned'
    BY <1>1, <1>2, <1>4, <2>2, SameElements DEF ObjsOwned, MakeObject, Shape
  <2>4. QED
    BY <1>3, <2>1, <2>3 DEF IInv
<1>5. CASE DeleteObject(o)
  <2>1. Shape' /\ ~fault'
    BY <1>1, <1>5 DEF Shape, DeleteObject, ObjsOwned
  <2>2. ObjsOwned'
    BY <1>1, <1>2, <1>5, SameElements DEF ObjsOwned, DeleteObject, Shape
  <2>3. QED
    BY <1>3, <2>1, <2>2 DEF IInv
<1>6. QED
  BY <1>4, <1>5

LEMMA ElementsOK ==
  ASSUME IInv, NEW a \in Addrs, NEW o \in Objects, AddElement(a, o) \/ RemoveElement(a, o)
  PROVE  IInv'
<1>1. Shape /\ NamesOK /\ ColsOwned /\ ObjsOwned /\ ~fault
  BY DEF IInv
<1>2. UNCHANGED <<obj, evt, held, fault>> /\ col[a].live /\ ~col[a].ro
  BY DEF AddElement, RemoveElement
<1>3. PICK elems \in SUBSET Objects :
        /\ col' = [col EXCEPT ![a].elems = elems]
        /\ \/ AddElement(a, o) /\ elems = col[a].elems \cup {o}
           \/ RemoveElement(a, o) /\ elems = col[a].elems \ {o}
  BY <1>1 DEF AddElement, RemoveElement, Shape, Collections
<1>4. /\ col' \in [Addrs -> Collections]
      /\ \A b \in Addrs : b # a => col'[b] = col[b]
      /\ col'[a].live = col[a].live /\ col'[a].transient = col[a].transient
      /\ col'[a].subset = col[a].subset /\ col'[a].ro = col[a].ro /\ col'[a].elems = elems
  BY <1>1, <1>3 DEF Shape, Collections
<1>5. heldObj' \in SUBSET Objects
  BY <1>1 DEF AddElement, RemoveElement, Shape
<1>6. Shape'
  BY <1>1, <1>2, <1>4, <1>5 DEF Shape
<1>7. NamesOK' /\ ColsOwned'
  BY <1>1, <1>2, <1>4, SameCollections
<1>8. \A b \in Addrs : b # a => ElementsDeleted(b)' = ElementsDeleted(b)
  BY <1>4 DEF ElementsDeleted
<1>9. ObjsOwned'
  <2>1. CASE col[a].subset
    <3>1. heldObj' = heldObj
      BY <2>1 DEF AddElement, RemoveElement
    <3>2. ElementsDeleted(a)' = {} /\ ElementsDeleted(a) = {}
      BY <1>4, <2>1 DEF ElementsDeleted
    <3>3. QED
      BY <1>1, <1>2, <1>4, <1>8, <3>1, <3>2 DEF ObjsOwned
  <2>2. CASE ~col[a].subset /\ AddElement(a, o)
    <3>1. o \in heldObj /\ heldObj' = heldObj \ {o}
      BY <2>2 DEF AddElement
    <3>2. ElementsDeleted(a)' = ElementsDeleted(a) \cup {o}
      BY <1>3, <1>4, <2>2 DEF ElementsDeleted, AddElement, RemoveElement
    <3>3. QED
      BY <1>1, <1>2, <1>4, <1>8, <3>1, <3>2 DEF ObjsOwned, Mode
  <2>3. CASE ~col[a].subset /\ RemoveElement(a, o)
    <3>1. o \in ElementsDeleted(a) /\ heldObj' = heldObj \cup {o}
      BY <2>3 DEF RemoveElement, ElementsDeleted
    <3>2. ElementsDeleted(a)' = ElementsDeleted(a) \ {o}
      BY <1>3, <1>4, <2>3 DEF ElementsDeleted, AddElement, RemoveElement
    <3>3. QED
      BY <1>1, <1>2, <1>4, <1>8, <3>1, <3>2 DEF ObjsOwned, Mode
  <2>4. QED
    BY <2>1, <2>2, <2>3
<1>10. QED
  BY <1>1, <1>2, <1>6, <1>7, <1>9 DEF IInv

LEMMA SetFlagOK ==
  ASSUME IInv, Careful, NEW a \in Addrs, SetFlag(a)
  PROVE  IInv'
<1>1. Shape /\ NamesOK /\ ColsOwned /\ ObjsOwned /\ ~fault
  BY DEF IInv
<1>2. UNCHANGED <<obj, evt, held, heldObj, fault>>
      /\ col[a].live /\ col[a].elems = {} /\ ~col[a].transient
  BY DEF SetFlag, Careful
<1>3. /\ col' \in [Addrs -> Collections]
      /\ \A b \in Addrs : b # a => col'[b] = col[b]
      /\ col'[a].live = col[a].live /\ col'[a].transient = FALSE
      /\ col'[a].ro = col[a].ro /\ col'[a].elems = {}
  BY <1>1, <1>2 DEF SetFlag, Shape, Collections
<1>4. Shape'
  BY <1>1, <1>2, <1>3 DEF Shape
<1>5. col[a].transient = FALSE
  BY <1>1, <1>2 DEF Shape, Collections
<1>6. NamesOK' /\ ColsOwned'
  BY <1>1, <1>2, <1>3, <1>5, SameCollections
<1>7. \A b \in Addrs : ElementsDeleted(b)' = ElementsDeleted(b)
  BY <1>2, <1>3 DEF ElementsDeleted
<1>8. ObjsOwned'
  BY <1>1, <1>2, <1>3, <1>7 DEF ObjsOwned
<1>9. QED
  BY <1>1, <1>2, <1>4, <1>6, <1>8 DEF IInv

(***************************************************************************)
(* The elements of the collections that are left.                          *)
(***************************************************************************)
Left(gone, a) == IF a \in gone THEN {} ELSE ElementsDeleted(a)

(***************************************************************************)
(* Deleting collections leaves the elements of the others with them.       *)
(***************************************************************************)
LEMMA LeftOwned ==
  ASSUME Shape, ObjsOwned, NEW gone \in SUBSET Addrs
  PROVE  /\ \A o \in Objects : ObjWithout(gone)[o] # "free" =>
              o \in heldObj \/ \E a \in Addrs : o \in Left(gone, a)
         /\ \A o \in heldObj : ObjWithout(gone)[o] = "update" /\ \A a \in Addrs : o \notin Left(gone, a)
         /\ \A a \in Addrs : \A o \in Left(gone, a) :
              o \in Objects /\ ObjWithout(gone)[o] = Mode(ColWithout(gone)[a].ro)
         /\ \A a, b \in Addrs : a # b => Left(gone, a) \cap Left(gone, b) = {}
<1>1. \A o : o \in AllDeleted(gone) <=> \E a \in gone : o \in ElementsDeleted(a)
  BY DEF AllDeleted
<1>2. \A a \in Addrs : ElementsDeleted(a) \subseteq Objects
  BY DEF ElementsDeleted, Shape, Collections
<1>3. \A o \in Objects : o \in AllDeleted(gone) => ObjWithout(gone)[o] = "free"
  BY AfterDeleting
<1>4. \A o \in Objects \ AllDeleted(gone) : ObjWithout(gone)[o] = obj[o]
  BY AfterDeleting
<1>5. /\ \A a \in Addrs \ gone : ElementsDeleted(a) \cap AllDeleted(gone) = {}
      /\ heldObj \cap AllDeleted(gone) = {}
  BY AfterDeleting
<1>6. \A a \in Addrs \ gone : ColWithout(gone)[a] = col[a]
  BY AfterDeleting
<1>7. ASSUME NEW o \in Objects, ObjWithout(gone)[o] # "free"
      PROVE  o \in heldObj \/ \E a \in Addrs : o \in Left(gone, a)
  <2>1. o \notin AllDeleted(gone) /\ obj[o] # "free"
    BY <1>3, <1>4, <1>7
  <2>2. QED
    BY <1>1, <2>1 DEF ObjsOwned, Left
<1>8. ASSUME NEW o \in heldObj
      PROVE  ObjWithout(gone)[o] = "update" /\ \A a \in Addrs : o \notin Left(gone, a)
  <2>1. o \in Objects /\ o \notin AllDeleted(gone)
    BY <1>5 DEF Shape
  <2>2. QED
    BY <1>4, <2>1 DEF ObjsOwned, Left
<1>9. ASSUME NEW a \in Addrs, NEW o \in Left(gone, a)
      PROVE  o \in Objects /\ ObjWithout(gone)[o] = Mode(ColWithout(gone)[a].ro)
  <2>1. a \in Addrs \ gone /\ o \in ElementsDeleted(a)
    BY DEF Left
  <2>2. o \in Objects \ AllDeleted(gone)
    BY <1>2, <1>5, <2>1
  <2>3. QED
    BY <1>4, <1>6, <2>1, <2>2 DEF ObjsOwned
<1>10. ASSUME NEW a \in Addrs, NEW b \in Addrs, a # b
       PROVE  Left(gone, a) \cap Left(gone, b) = {}
  BY <1>10 DEF ObjsOwned, Left
<1>11. QED
  BY <1>7, <1>8, <1>9, <1>10

LEMMA Deleting ==
  ASSUME Shape, ObjsOwned, NEW gone \in SUBSET Addrs,
         col' = ColWithout(gone), obj' = ObjWithout(gone), heldObj' = heldObj
  PROVE  /\ col' \in [Addrs -> Collections] /\ obj' \in [Objects -> {"free", "update", "readonly"}]
         /\ \A a \in gone : col'[a] = Free /\ ~col'[a].live
         /\ \A a \in Addrs \ gone : col'[a] = col[a]
         /\ ObjsOwned'
<1>1. \A a \in Addrs \ gone : col'[a] = col[a]
  BY AfterDeleting
<1>2. col' \in [Addrs -> Collections] /\ obj' \in [Objects -> {"free", "update", "readonly"}]
  BY AfterDeleting
<1>3. ~Free.live /\ Free.elems = {}
  BY DEF Free
<1>4. \A a \in gone : col'[a] = Free /\ ~col'[a].live
  BY <1>3, AfterDeleting
<1>5. \A a \in Addrs : ElementsDeleted(a)' = Left(gone, a)
  BY <1>1, <1>3, <1>4 DEF ElementsDeleted, Left
<1>6. ObjsOwned'
  BY <1>5, LeftOwned DEF ObjsOwned
<1>7. QED
  BY <1>1, <1>2, <1>4, <1>6

LEMMA DeleteHeldOK ==
  ASSUME IInv, NEW a \in Addrs, DeleteHeld(a)
  PROVE  IInv'
<1>1. Shape /\ NamesOK /\ ColsOwned /\ ObjsOwned /\ ~fault
  BY DEF IInv
<1>2. /\ a \in held /\ \A e \in LiveEvents : a \notin Named(e) \cup evt[e].notOwned
      /\ col' = ColWithout({a}) /\ obj' = ObjWithout({a}) /\ held' = held \ {a}
      /\ UNCHANGED <<evt, heldObj>>
  BY DEF DeleteHeld
<1>3. col[a].live
  BY <1>1, <1>2 DEF ColsOwned
<1>3a. ~fault'
  <2>1. fault' = (fault \/ Twice({a}))
    BY DEF DeleteHeld
  <2>2. ~Twice({a})
    BY <1>1, <1>3, NotTwice
  <2>3. QED
    BY <1>1, <2>1, <2>2, Zenon
<1>4. /\ ObjsOwned'
      /\ col' \in [Addrs -> Collections] /\ obj' \in [Objects -> {"free", "update", "readonly"}]
      /\ col'[a] = Free /\ ~col'[a].live /\ \A b \in Addrs : b # a => col'[b] = col[b]
  <2>1. {a} \in SUBSET Addrs /\ \A b \in {a} : col[b].live
    BY <1>3
  <2>2. /\ col' \in [Addrs -> Collections] /\ obj' \in [Objects -> {"free", "update", "readonly"}]
        /\ \A b \in {a} : col'[b] = Free /\ ~col'[b].live
        /\ \A b \in Addrs \ {a} : col'[b] = col[b]
        /\ ObjsOwned'
    BY <1>1, <1>2, <2>1, Deleting
  <2>3. QED
    BY <2>2
<1>5. Shape'
  <2>1. held' \in SUBSET Addrs /\ heldObj' \in SUBSET Objects
    BY <1>1, <1>2 DEF Shape
  <2>2. evt' \in [Events -> EventStates] /\ \A e \in Events : ~evt'[e].live => evt'[e] = NoEvent
    BY <1>1, <1>2 DEF Shape
  <2>3. \A b \in Addrs : ~col'[b].live => col'[b] = Free
    BY <1>1, <1>4 DEF Shape
  <2>4. QED
    BY <1>4, <2>1, <2>2, <2>3 DEF Shape
<1>6. \A e \in LiveEvents : e \in Events /\ Named(e) \subseteq Addrs /\ evt[e].notOwned \subseteq Addrs
  BY <1>1, NamedAddrs DEF Shape, EventStates, LiveEvents
<1>7. \A e \in LiveEvents : \A b \in Named(e) \cup evt[e].notOwned : b \in Addrs /\ col'[b] = col[b]
  BY <1>2, <1>4, <1>6
<1>8. NamesOK'
  BY <1>1, <1>2, <1>7, SameEvents DEF NamesOK
<1>9. ColsOwned'
  <2>1. \A b \in Addrs : col'[b].live => b # a /\ col[b].live
    BY <1>4
  <2>2. \A b \in held' : b \in Addrs /\ b # a /\ col'[b] = col[b]
    BY <1>1, <1>2, <1>4 DEF Shape
  <2>3. LiveEvents' = LiveEvents /\ \A e : Owned(e)' = Owned(e)
    BY <1>2, SameEvents
  <2>4. \A b \in Addrs : col'[b].live => b \in held' \/ \E e \in LiveEvents : b \in Owned(e)
    BY <1>1, <1>2, <2>1 DEF ColsOwned
  <2>5. \A b \in held' : col'[b].live /\ \A e \in LiveEvents : b \notin Owned(e)
    BY <1>1, <1>2, <2>2 DEF ColsOwned
  <2>6. QED
    BY <1>1, <2>3, <2>4, <2>5 DEF ColsOwned
<1>10. QED
  BY <1>4, <1>5, <1>8, <1>9, <1>3a DEF IInv

-----------------------------------------------------------------------------
(* The actions: events. *)

(***************************************************************************)
(* What depends on collections and elements alone.                         *)
(***************************************************************************)
LEMMA SameObjects ==
  ASSUME ObjsOwned, UNCHANGED <<obj, heldObj>>,
         \A a \in Addrs : col'[a].ro = col[a].ro /\ ElementsDeleted(a)' = ElementsDeleted(a)
  PROVE  ObjsOwned'
BY DEF ObjsOwned

LEMMA AddCollectionOK ==
  ASSUME IInv, NEW e \in Events, NEW a \in Addrs, NEW name \in Names, AddCollection(e, a, name)
  PROVE  IInv'
<1>1. Shape /\ NamesOK /\ ColsOwned /\ ObjsOwned /\ ~fault
  BY DEF IInv
<1>2. /\ e \in LiveEvents /\ a \in held /\ a \notin Named(e) \cup evt[e].notOwned
      /\ name \notin DOMAIN evt[e].cols /\ held' = held \ {a}
      /\ UNCHANGED <<col, obj, heldObj, fault>>
  BY DEF AddCollection, LiveEvents
<1> DEFINE cols == [n \in DOMAIN evt[e].cols \cup {name} |-> IF n = name THEN a ELSE evt[e].cols[n]]
<1>3. evt' = [evt EXCEPT ![e].cols = cols]
  BY DEF AddCollection
<1>4. cols \in ColMaps /\ Range(cols) = Named(e) \cup {a}
      /\ \A m, n \in DOMAIN cols : cols[m] = cols[n] => m = n
  <2>1. evt[e].cols \in ColMaps
    BY <1>1 DEF Shape, EventStates
  <2>2. DOMAIN evt[e].cols \subseteq Names /\ \A n \in DOMAIN evt[e].cols : evt[e].cols[n] \in Addrs
    BY <2>1 DEF ColMaps
  <2>3. cols \in ColMaps
    <3>1. cols \in [DOMAIN evt[e].cols \cup {name} -> Addrs]
      BY <2>2
    <3>2. DOMAIN evt[e].cols \cup {name} \in SUBSET Names
      BY <2>2
    <3> HIDE DEF cols
    <3>3. QED
      BY <3>1, <3>2, ColMapShape
  <2>4. \A n \in DOMAIN evt[e].cols : evt[e].cols[n] # a
    BY <1>2 DEF Named, Range
  <2>5. \A m, n \in DOMAIN cols : cols[m] = cols[n] => m = n
    BY <1>1, <1>2, <2>4 DEF NamesOK
  <2>6. Range(cols) = Named(e) \cup {a}
    BY <1>2 DEF Named, Range
  <2>7. QED
    BY <2>3, <2>5, <2>6
<1> HIDE DEF cols
<1>5. /\ evt' \in [Events -> EventStates]
      /\ evt'[e].cols = cols /\ evt'[e].live = evt[e].live /\ evt'[e].notOwned = evt[e].notOwned
      /\ \A d \in Events : d # e => evt'[d] = evt[d]
  BY <1>1, <1>3, <1>4 DEF Shape, EventStates
<1>6. /\ LiveEvents' = LiveEvents
      /\ Named(e)' = Named(e) \cup {a} /\ Owned(e)' = Owned(e) \cup {a}
      /\ \A d \in Events : d # e => Named(d)' = Named(d) /\ Owned(d)' = Owned(d)
  BY <1>2, <1>4, <1>5 DEF LiveEvents, Named, Owned
<1>7. Shape'
  BY <1>1, <1>2, <1>5 DEF Shape, LiveEvents
<1>8. NamesOK'
  BY <1>1, <1>2, <1>4, <1>5, <1>6 DEF NamesOK, ColsOwned, LiveEvents
<1>9. ColsOwned'
  BY <1>1, <1>2, <1>6 DEF ColsOwned, LiveEvents
<1>10. ObjsOwned'
  BY <1>1, <1>2, SameElements, SameObjects
<1>11. QED
  BY <1>1, <1>2, <1>7, <1>8, <1>9, <1>10 DEF IInv

LEMMA TakeCollectionOK ==
  ASSUME IInv, NEW e \in Events, NEW name \in Names, TakeCollection(e, name)
  PROVE  IInv'
<1>1. Shape /\ NamesOK /\ ColsOwned /\ ObjsOwned /\ ~fault
  BY DEF IInv
<1> DEFINE a == evt[e].cols[name]
<1>2. /\ e \in LiveEvents /\ a \in Named(e) /\ a \notin evt[e].notOwned
      /\ col' = [col EXCEPT ![a] = Flagged(@)]
      /\ evt' = [evt EXCEPT ![e] = AfterTake(@, a)]
      /\ held' = held \cup {a} /\ UNCHANGED <<obj, heldObj, fault>>
  BY DEF TakeCollection, LiveEvents, Named, Range
<1>3. a \in Addrs /\ col[a].live /\ a \in Owned(e)
  BY <1>1, <1>2, NamedAddrs DEF NamesOK, Owned
<1> HIDE DEF a
<1>4. /\ col' \in [Addrs -> Collections]
      /\ \A b \in Addrs : b # a => col'[b] = col[b]
      /\ col'[a].live = col[a].live /\ col'[a].transient = TRUE
      /\ col'[a].subset = col[a].subset /\ col'[a].ro = col[a].ro /\ col'[a].elems = col[a].elems
  BY <1>1, <1>2, <1>3 DEF Shape, Collections, Flagged
<1>5. /\ evt' \in [Events -> EventStates]
      /\ evt'[e].cols = evt[e].cols /\ evt'[e].live = evt[e].live
      /\ evt'[e].notOwned = evt[e].notOwned \cup {a}
      /\ \A d \in Events : d # e => evt'[d] = evt[d]
  BY <1>1, <1>2, <1>3 DEF Shape, EventStates, AfterTake
<1>6. /\ LiveEvents' = LiveEvents
      /\ Named(e)' = Named(e) /\ Owned(e)' = Owned(e) \ {a}
      /\ \A d \in Events : d # e => Named(d)' = Named(d) /\ Owned(d)' = Owned(d)
  BY <1>2, <1>5 DEF LiveEvents, Named, Owned
<1>7. \A b \in Addrs : /\ col'[b].live = col[b].live /\ (col[b].transient => col'[b].transient)
                       /\ col'[b].ro = col[b].ro /\ ElementsDeleted(b)' = ElementsDeleted(b)
  BY <1>4 DEF ElementsDeleted
<1>8. \A d \in LiveEvents : d \in Events /\ Named(d) \subseteq Addrs /\ evt[d].notOwned \subseteq Addrs
  BY <1>1, NamedAddrs DEF Shape, EventStates, LiveEvents
<1>9. Shape'
  BY <1>1, <1>2, <1>3, <1>4, <1>5 DEF Shape, LiveEvents
<1>10. NamesOK'
  BY <1>1, <1>2, <1>3, <1>4, <1>5, <1>6, <1>7, <1>8 DEF NamesOK
<1>11. ColsOwned'
  BY <1>1, <1>2, <1>3, <1>6, <1>7, <1>8 DEF ColsOwned, Shape
<1>12. ObjsOwned'
  BY <1>1, <1>2, <1>7, SameObjects
<1>13. QED
  BY <1>1, <1>2, <1>9, <1>10, <1>11, <1>12 DEF IInv

LEMMA RemoveCollectionOK ==
  ASSUME IInv, Careful, NEW e \in Events, NEW name \in Names, RemoveCollection(e, name)
  PROVE  IInv'
<1>1. Shape /\ NamesOK /\ ColsOwned /\ ObjsOwned /\ ~fault
  BY DEF IInv
<1> DEFINE a == evt[e].cols[name]
           cols == Restrict(evt[e].cols, DOMAIN evt[e].cols \ {name})
<1>2. /\ e \in LiveEvents /\ name \in DOMAIN evt[e].cols /\ a \in Named(e)
      /\ held' = (IF a \in evt[e].notOwned THEN held ELSE held \cup {a})
      /\ evt' = [evt EXCEPT ![e].cols = cols]
      /\ UNCHANGED <<col, obj, heldObj, fault>>
  BY DEF RemoveCollection, LiveEvents, Named, Range, Careful
<1>3. a \in Addrs /\ col[a].live
  BY <1>1, <1>2, NamedAddrs DEF NamesOK
<1>4. cols \in ColMaps /\ Range(cols) = Named(e) \ {a}
      /\ \A m, n \in DOMAIN cols : cols[m] = cols[n] => m = n
  <2>1. evt[e].cols \in ColMaps
    BY <1>1 DEF Shape, EventStates
  <2>2. DOMAIN evt[e].cols \subseteq Names /\ \A n \in DOMAIN evt[e].cols : evt[e].cols[n] \in Addrs
    BY <2>1 DEF ColMaps
  <2>3. cols \in [DOMAIN evt[e].cols \ {name} -> Addrs]
        /\ \A n \in DOMAIN evt[e].cols \ {name} : cols[n] = evt[e].cols[n]
    BY <2>2 DEF Restrict
  <2>4. DOMAIN evt[e].cols \ {name} \in SUBSET Names
    BY <2>2
  <2>5. \A m, n \in DOMAIN evt[e].cols : evt[e].cols[m] = evt[e].cols[n] => m = n
    BY <1>1, <1>2 DEF NamesOK
  <2> HIDE DEF cols
  <2>6. cols \in ColMaps
    BY <2>3, <2>4, ColMapShape
  <2>7. Range(cols) = Named(e) \ {a}
    BY <1>2, <2>3, <2>5 DEF Named, Range
  <2>8. QED
    BY <2>3, <2>5, <2>6, <2>7
<1> HIDE DEF cols, a
<1>5. /\ evt' \in [Events -> EventStates]
      /\ evt'[e].cols = cols /\ evt'[e].live = evt[e].live /\ evt'[e].notOwned = evt[e].notOwned
      /\ \A d \in Events : d # e => evt'[d] = evt[d]
  BY <1>1, <1>2, <1>4 DEF Shape, EventStates
<1>6. /\ LiveEvents' = LiveEvents
      /\ Named(e)' = Named(e) \ {a} /\ Owned(e)' = Owned(e) \ {a}
      /\ \A d \in Events : d # e => Named(d)' = Named(d) /\ Owned(d)' = Owned(d)
  BY <1>2, <1>4, <1>5 DEF LiveEvents, Named, Owned
<1>7. a \notin evt[e].notOwned => a \in Owned(e)
  BY <1>2 DEF Owned
<1>8. a \in evt[e].notOwned => a \notin Owned(e)
  BY DEF Owned
<1>9. Shape'
  BY <1>1, <1>2, <1>3, <1>5 DEF Shape, LiveEvents
<1>10. NamesOK'
  BY <1>1, <1>2, <1>4, <1>5, <1>6 DEF NamesOK, LiveEvents
<1>11. ColsOwned'
  <2>1. CASE a \in evt[e].notOwned
    BY <1>1, <1>2, <1>6, <1>8, <2>1 DEF ColsOwned, LiveEvents
  <2>2. CASE a \notin evt[e].notOwned
    BY <1>1, <1>2, <1>3, <1>6, <1>7, <2>2 DEF ColsOwned, LiveEvents
  <2>3. QED
    BY <2>1, <2>2
<1>12. ObjsOwned'
  BY <1>1, <1>2, SameElements, SameObjects
<1>13. QED
  BY <1>1, <1>2, <1>9, <1>10, <1>11, <1>12 DEF IInv

LEMMA SetAccessModeOK ==
  ASSUME IInv, NEW e \in Events, NEW ro \in BOOLEAN, SetAccessMode(e, ro)
  PROVE  IInv'
<1>1. Shape /\ NamesOK /\ ColsOwned /\ ObjsOwned /\ ~fault
  BY DEF IInv
<1> DEFINE reached == Reached(Named(e))
<1>2. /\ e \in LiveEvents
      /\ \A o \in reached : \E a \in Named(e) : o \in ElementsDeleted(a)
      /\ obj' = [o \in Objects |-> IF o \in reached THEN Mode(ro) ELSE obj[o]]
      /\ col' = [a \in Addrs |-> IF a \in Named(e) THEN [col[a] EXCEPT !.ro = ro] ELSE col[a]]
      /\ evt' = [evt EXCEPT ![e].ro = ro]
      /\ UNCHANGED <<held, heldObj>>
  BY DEF SetAccessMode, LiveEvents, Reached
<1>3. Named(e) \subseteq Addrs
  BY <1>1, NamedAddrs
<1>4. \A a \in Named(e) : \A o \in ElementsDeleted(a) : o \in reached
  BY DEF Reached, ElementsDeleted
<1>5. \A o \in reached : obj[o] # "free" /\ o \notin heldObj
  BY <1>1, <1>2, <1>3 DEF ObjsOwned, Mode
<1> HIDE DEF reached
<1>6. ~fault'
  <2>1. fault' = (fault \/ \E o \in reached : obj[o] = "free")
    BY DEF SetAccessMode, reached
  <2>2. ~\E o \in reached : obj[o] = "free"
    BY <1>5
  <2>3. QED
    BY <1>1, <2>1, <2>2, Zenon
<1>7. /\ col' \in [Addrs -> Collections]
      /\ \A a \in Addrs : /\ col'[a].live = col[a].live /\ col'[a].transient = col[a].transient
                           /\ col'[a].subset = col[a].subset /\ col'[a].elems = col[a].elems
      /\ \A a \in Named(e) : col'[a].ro = ro
      /\ \A a \in Addrs \ Named(e) : col'[a] = col[a]
  BY <1>1, <1>2, <1>3 DEF Shape, Collections
<1>8. /\ evt' \in [Events -> EventStates]
      /\ evt'[e].cols = evt[e].cols /\ evt'[e].live = evt[e].live
      /\ evt'[e].notOwned = evt[e].notOwned
      /\ \A d \in Events : d # e => evt'[d] = evt[d]
  BY <1>1, <1>2 DEF Shape, EventStates
<1>9. /\ LiveEvents' = LiveEvents
      /\ \A d \in Events : Named(d)' = Named(d) /\ Owned(d)' = Owned(d)
  BY <1>8 DEF LiveEvents, Named, Owned
<1>10. \A a \in Addrs : ElementsDeleted(a)' = ElementsDeleted(a) /\ ElementsDeleted(a) \subseteq Objects
  BY <1>1, <1>7 DEF ElementsDeleted, Shape, Collections
<1>11. \A d \in LiveEvents : d \in Events /\ Named(d) \subseteq Addrs /\ evt[d].notOwned \subseteq Addrs
  BY <1>1, NamedAddrs DEF Shape, EventStates, LiveEvents
<1>12. Shape'
  <2>1. obj' \in [Objects -> {"free", "update", "readonly"}]
    BY <1>1, <1>2 DEF Shape, Mode
  <2>2. \A a \in Addrs : ~col'[a].live => col'[a] = Free
    BY <1>1, <1>2, <1>7 DEF Shape, NamesOK
  <2>3. \A d \in Events : ~evt'[d].live => evt'[d] = NoEvent
    BY <1>1, <1>2, <1>8 DEF Shape, LiveEvents
  <2>4. QED
    BY <1>1, <1>2, <1>7, <1>8, <2>1, <2>2, <2>3 DEF Shape
<1>13. NamesOK'
  BY <1>1, <1>7, <1>8, <1>9, <1>11 DEF NamesOK
<1>14. ColsOwned'
  BY <1>1, <1>2, <1>7, <1>9, <1>11 DEF ColsOwned, Shape
<1>15. ObjsOwned'
  <2>1. \A o \in Objects : obj'[o] = IF o \in reached THEN Mode(ro) ELSE obj[o]
    BY <1>2
  <2>2. \A o \in Objects : obj'[o] # "free" => obj[o] # "free"
    BY <1>5, <2>1
  <2>3. \A o \in heldObj : o \in Objects /\ obj'[o] = obj[o]
    BY <1>1, <1>5, <2>1 DEF Shape
  <2>4. ASSUME NEW a \in Addrs, NEW o \in ElementsDeleted(a) PROVE obj'[o] = Mode(col'[a].ro)
    <3>1. CASE a \in Named(e)
      BY <1>4, <1>7, <1>10, <2>1, <3>1
    <3>2. CASE a \notin Named(e)
      <4>1. o \notin reached
        BY <1>1, <1>2, <1>3, <3>2 DEF ObjsOwned
      <4>2. QED
        BY <1>1, <1>7, <1>10, <2>1, <3>2, <4>1 DEF ObjsOwned
    <3>3. QED
      BY <3>1, <3>2
  <2>5. QED
    BY <1>1, <1>2, <1>10, <2>2, <2>3, <2>4 DEF ObjsOwned
<1>16. QED
  BY <1>6, <1>12, <1>13, <1>14, <1>15 DEF IInv

(***************************************************************************)
(* Making, replacing or deleting an event.                                 *)
(***************************************************************************)
LEMMA OwnedLive ==
  ASSUME Shape, NamesOK, NEW e \in Events
  PROVE  /\ Owned(e) \in SUBSET Addrs /\ \A a \in Owned(e) : col[a].live
         /\ ~evt[e].live => Named(e) = {} /\ evt[e].notOwned = {}
<1>1. CASE evt[e].live
  BY <1>1, NamedAddrs DEF NamesOK, LiveEvents
<1>2. CASE ~evt[e].live
  <2>1. evt[e] = NoEvent
    BY <1>2 DEF Shape
  <2>2. evt[e].notOwned = {}
    BY <2>1 DEF NoEvent
  <2>3. Named(e) = {}
    BY <2>1, NoEventShape DEF Named
  <2>4. QED
    BY <2>2, <2>3 DEF Owned
<1>3. QED
  BY <1>1, <1>2

LEMMA MakeEventOK ==
  ASSUME IInv, NEW e \in Events, MakeEvent(e)
  PROVE  IInv'
<1>1. Shape /\ NamesOK /\ ColsOwned /\ ObjsOwned /\ ~fault
  BY DEF IInv
<1>2. e \notin LiveEvents /\ UNCHANGED <<col, obj, held, heldObj, fault>>
      /\ evt' = [evt EXCEPT ![e] = EmptyEvent]
  BY DEF MakeEvent, LiveEvents
<1>3. EmptyEvent.live /\ EmptyEvent.notOwned = {}
  BY NoEventShape DEF EmptyEvent, NoEvent
<1>4. /\ evt' \in [Events -> EventStates] /\ evt'[e] = EmptyEvent
      /\ \A d \in Events : d # e => evt'[d] = evt[d]
  BY <1>1, <1>2, NoEventShape DEF Shape
<1>5. LiveEvents' = LiveEvents \cup {e}
  BY <1>3, <1>4 DEF LiveEvents
<1>6. Named(e)' = {} /\ Owned(e)' = {}
  BY <1>4, NoEventShape DEF Named, Owned
<1>7. \A d \in LiveEvents : /\ d \in Events /\ d # e
                            /\ Named(d)' = Named(d) /\ Owned(d)' = Owned(d)
  BY <1>2, <1>4 DEF LiveEvents, Named, Owned
<1>8. Shape'
  BY <1>1, <1>2, <1>3, <1>4 DEF Shape
<1>9. NamesOK'
  <2>1. DOMAIN EmptyEvent.cols = {}
    BY NoEventShape
  <2>2. QED
    BY <1>1, <1>2, <1>3, <1>4, <1>5, <1>6, <1>7, <2>1 DEF NamesOK
<1>10. ColsOwned'
  BY <1>1, <1>2, <1>5, <1>6, <1>7 DEF ColsOwned
<1>11. ObjsOwned'
  BY <1>1, <1>2, SameElements, SameObjects
<1>12. QED
  BY <1>1, <1>2, <1>8, <1>9, <1>10, <1>11 DEF IInv

LEMMA DeleteEventOK ==
  ASSUME IInv, NEW e \in Events, DeleteEvent(e)
  PROVE  IInv'
<1>1. Shape /\ NamesOK /\ ColsOwned /\ ObjsOwned /\ ~fault
  BY DEF IInv
<1>2. /\ e \in LiveEvents /\ OthersDone(e)
      /\ col' = ColWithout(Owned(e)) /\ obj' = ObjWithout(Owned(e))
      /\ evt' = [evt EXCEPT ![e] = NoEvent] /\ UNCHANGED <<held, heldObj>>
  BY DEF DeleteEvent, LiveEvents
<1>3. Owned(e) \in SUBSET Addrs /\ \A a \in Owned(e) : col[a].live
  BY <1>1, OwnedLive
<1>4. /\ col' \in [Addrs -> Collections] /\ obj' \in [Objects -> {"free", "update", "readonly"}]
      /\ \A a \in Owned(e) : col'[a] = Free /\ ~col'[a].live
      /\ \A a \in Addrs \ Owned(e) : col'[a] = col[a]
      /\ ObjsOwned'
  BY <1>1, <1>2, <1>3, Deleting
<1>5. ~fault'
  <2>1. fault' = (fault \/ Twice(Owned(e)))
    BY DEF DeleteEvent
  <2>2. ~Twice(Owned(e))
    BY <1>1, <1>3, NotTwice
  <2>3. QED
    BY <1>1, <2>1, <2>2, Zenon
<1>6. ~NoEvent.live
  BY DEF NoEvent
<1>7. /\ evt' \in [Events -> EventStates] /\ evt'[e] = NoEvent
      /\ \A d \in Events : d # e => evt'[d] = evt[d]
  BY <1>1, <1>2, NoEventShape DEF Shape
<1>8. LiveEvents' = LiveEvents \ {e}
  BY <1>6, <1>7 DEF LiveEvents
<1>9. \A d \in LiveEvents \ {e} :
        /\ d \in Events /\ Named(d)' = Named(d) /\ Owned(d)' = Owned(d) /\ evt'[d] = evt[d]
        /\ \A a \in Named(d) \cup evt[d].notOwned : a \in Addrs \ Owned(e)
  <2>1. ASSUME NEW d \in LiveEvents \ {e}
        PROVE  /\ d \in Events /\ Named(d)' = Named(d) /\ Owned(d)' = Owned(d) /\ evt'[d] = evt[d]
               /\ \A a \in Named(d) \cup evt[d].notOwned : a \in Addrs \ Owned(e)
    <3>1. d \in Events /\ Named(d)' = Named(d) /\ Owned(d)' = Owned(d) /\ evt'[d] = evt[d]
      BY <1>7 DEF LiveEvents, Named, Owned
    <3>2. Named(d) \cup evt[d].notOwned \subseteq Addrs
      BY <1>1, <3>1, NamedAddrs DEF Shape, EventStates
    <3>3. (Named(d) \cup evt[d].notOwned) \cap Owned(e) = {}
      BY <1>2 DEF OthersDone
    <3>4. QED
      BY <3>1, <3>2, <3>3
  <2>2. QED
    BY <2>1
<1>10. Shape'
  <2>1. \A a \in Addrs : ~col'[a].live => col'[a] = Free
    BY <1>1, <1>4 DEF Shape
  <2>2. \A d \in Events : ~evt'[d].live => evt'[d] = NoEvent
    BY <1>1, <1>7 DEF Shape
  <2>3. QED
    BY <1>1, <1>2, <1>4, <1>7, <2>1, <2>2 DEF Shape
<1>11. NamesOK'
  BY <1>1, <1>4, <1>8, <1>9 DEF NamesOK
<1>12. ColsOwned'
  <2>1. \A a \in held : a \in Addrs /\ a \notin Owned(e) /\ col'[a] = col[a]
    BY <1>1, <1>2, <1>4 DEF ColsOwned, Shape
  <2>2. \A a \in Addrs : col'[a].live => a \notin Owned(e) /\ col[a].live
    BY <1>4
  <2>3. \A a \in Addrs : col'[a].live => a \in held \/ \E d \in LiveEvents \ {e} : a \in Owned(d)
    BY <1>1, <2>2 DEF ColsOwned
  <2>4. \A a \in held : col'[a].live /\ \A d \in LiveEvents \ {e} : a \notin Owned(d)
    BY <1>1, <2>1 DEF ColsOwned
  <2>5. QED
    BY <1>1, <1>2, <1>8, <1>9, <2>3, <2>4 DEF ColsOwned
<1>13. QED
  BY <1>4, <1>5, <1>10, <1>11, <1>12 DEF IInv

LEMMA ReadNextEventOK ==
  ASSUME IInv, NEW e \in Events, ReadNextEvent(e)
  PROVE  IInv'
<1>1. Shape /\ NamesOK /\ ColsOwned /\ ObjsOwned /\ ~fault
  BY DEF IInv
<1> DEFINE gone == Owned(e)
           col1 == ColWithout(gone)
           obj1 == ObjWithout(gone)
           freeCols == {a \in Addrs : ~col1[a].live}
           freeObjs == {o \in Objects : obj1[o] = "free"}
<1>2. OthersDone(e) /\ UNCHANGED <<held, heldObj>>
  BY DEF ReadNextEvent
<1>3. gone \in SUBSET Addrs /\ \A a \in gone : col[a].live
  BY <1>1, OwnedLive
<1>4. ~fault'
  <2>1. fault' = (fault \/ Twice(Owned(e)))
    BY DEF ReadNextEvent
  <2>2. ~Twice(Owned(e))
    BY <1>1, <1>3, NotTwice
  <2>3. QED
    BY <1>1, <2>1, <2>2, Zenon
<1>5. PICK names \in SUBSET Names, os \in SUBSET freeObjs, ro \in BOOLEAN :
      \E subsets \in SUBSET names, cols \in Injection(names, freeCols) :
      \E in \in [os -> names \ subsets] :
        /\ col' = [a \in Addrs |->
                     IF a \in Range(cols)
                       THEN LET n == CHOOSE k \in names : cols[k] = a
                            IN [NewCol(n \in subsets, IF n \in subsets THEN os ELSE {o \in os : in[o] = n})
                                  EXCEPT !.ro = ro]
                       ELSE col1[a]]
        /\ obj' = [o \in Objects |-> IF o \in os THEN Mode(ro) ELSE obj1[o]]
        /\ evt' = [evt EXCEPT ![e] = [EmptyEvent EXCEPT !.cols = cols, !.ro = ro]]
  BY DEF ReadNextEvent
<1>5a. PICK subsets \in SUBSET names, cols \in Injection(names, freeCols) :
      \E in \in [os -> names \ subsets] :
        /\ col' = [a \in Addrs |->
                     IF a \in Range(cols)
                       THEN LET n == CHOOSE k \in names : cols[k] = a
                            IN [NewCol(n \in subsets, IF n \in subsets THEN os ELSE {o \in os : in[o] = n})
                                  EXCEPT !.ro = ro]
                       ELSE col1[a]]
        /\ obj' = [o \in Objects |-> IF o \in os THEN Mode(ro) ELSE obj1[o]]
        /\ evt' = [evt EXCEPT ![e] = [EmptyEvent EXCEPT !.cols = cols, !.ro = ro]]
  BY <1>5
<1>6. PICK in \in [os -> names \ subsets] :
        /\ col' = [a \in Addrs |->
                     IF a \in Range(cols)
                       THEN LET n == CHOOSE k \in names : cols[k] = a
                            IN [NewCol(n \in subsets, IF n \in subsets THEN os ELSE {o \in os : in[o] = n})
                                  EXCEPT !.ro = ro]
                       ELSE col1[a]]
        /\ obj' = [o \in Objects |-> IF o \in os THEN Mode(ro) ELSE obj1[o]]
        /\ evt' = [evt EXCEPT ![e] = [EmptyEvent EXCEPT !.cols = cols, !.ro = ro]]
  BY <1>5a
<1>7. /\ cols \in [names -> freeCols] /\ cols \in ColMaps
      /\ \A m, n \in names : cols[m] = cols[n] => m = n
      /\ Range(cols) \in SUBSET freeCols
      /\ \A n \in names : cols[n] \in Range(cols)
      /\ \A a \in Range(cols) : \E n \in names : cols[n] = a
  <2>1. cols \in [names -> freeCols] /\ \A m, n \in names : cols[m] = cols[n] => m = n
    BY DEF Injection, IsInjective
  <2>2. cols \in [names -> Addrs]
    BY <2>1
  <2>3. cols \in ColMaps
    BY <2>2, ColMapShape
  <2>4. QED
    BY <2>1, <2>3 DEF Range
\* What is left and what is new.
<1>8. /\ col1 \in [Addrs -> Collections] /\ obj1 \in [Objects -> {"free", "update", "readonly"}]
      /\ \A a \in Addrs : col1[a] = IF a \in gone THEN Free ELSE col[a]
  BY <1>1, <1>3, AfterDeleting
<1>9. ~Free.live /\ Free.elems = {}
  BY DEF Free
<1>10. /\ \A o \in Objects : obj1[o] # "free" =>
             o \in heldObj \/ \E a \in Addrs : o \in Left(gone, a)
       /\ \A o \in heldObj : obj1[o] = "update" /\ \A a \in Addrs : o \notin Left(gone, a)
       /\ \A a \in Addrs : \A o \in Left(gone, a) : o \in Objects /\ obj1[o] = Mode(col1[a].ro)
       /\ \A a, b \in Addrs : a # b => Left(gone, a) \cap Left(gone, b) = {}
  BY <1>1, <1>3, LeftOwned
<1>11. \A a \in Range(cols) : a \in Addrs /\ ~col1[a].live /\ Left(gone, a) = {}
  <2>1. \A a \in Range(cols) : a \in Addrs /\ ~col1[a].live
    BY <1>7
  <2>2. \A a \in Range(cols) : a \in gone \/ col[a] = Free
    BY <1>1, <1>8, <2>1 DEF Shape
  <2>3. QED
    BY <1>9, <2>1, <2>2 DEF Left, ElementsDeleted
<1> HIDE DEF gone, col1, obj1
<1> DEFINE new(n) == NewCol(n \in subsets, IF n \in subsets THEN os ELSE {o \in os : in[o] = n})
<1>12. \A n \in names : /\ col'[cols[n]] = [new(n) EXCEPT !.ro = ro]
                        /\ new(n) \in Collections /\ new(n).live = TRUE
                        /\ new(n).subset = (n \in subsets)
                        /\ new(n).elems = IF n \in subsets THEN os ELSE {o \in os : in[o] = n}
  <2>1. ASSUME NEW n \in names PROVE col'[cols[n]] = [new(n) EXCEPT !.ro = ro]
    <3>1. (CHOOSE k \in names : cols[k] = cols[n]) = n
      BY <1>7
    <3>2. cols[n] \in Range(cols) /\ cols[n] \in Addrs
      BY <1>7, <1>11
    <3> HIDE DEF new
    <3>3. col'[cols[n]] = [new(CHOOSE k \in names : cols[k] = cols[n]) EXCEPT !.ro = ro]
      BY <1>6, <3>2 DEF new
    <3>4. QED
      BY <3>1, <3>3
  <2>2. ASSUME NEW n \in names
        PROVE  /\ new(n) \in Collections /\ new(n).live = TRUE
               /\ new(n).subset = (n \in subsets)
               /\ new(n).elems = IF n \in subsets THEN os ELSE {o \in os : in[o] = n}
    <3>1. (IF n \in subsets THEN os ELSE {o \in os : in[o] = n}) \in SUBSET Objects
      OBVIOUS
    <3>2. (n \in subsets) \in BOOLEAN
      OBVIOUS
    <3>3. QED
      BY <3>1, <3>2, NewColShape
  <2>3. QED
    BY <2>1, <2>2
<1> HIDE DEF new
<1>13. \A n \in names : /\ col'[cols[n]] \in Collections /\ col'[cols[n]].live /\ col'[cols[n]].ro = ro
                        /\ col'[cols[n]].subset = (n \in subsets)
                        /\ col'[cols[n]].elems = IF n \in subsets THEN os ELSE {o \in os : in[o] = n}
  <2> SUFFICES ASSUME NEW n \in names
               PROVE  /\ col'[cols[n]] \in Collections /\ col'[cols[n]].live /\ col'[cols[n]].ro = ro
                      /\ col'[cols[n]].subset = (n \in subsets)
                      /\ col'[cols[n]].elems = IF n \in subsets THEN os ELSE {o \in os : in[o] = n}
    OBVIOUS
  <2> DEFINE els == IF n \in subsets THEN os ELSE {o \in os : in[o] = n}
  <2>1. new(n).elems = els
    BY <1>12
  <2>2. col'[cols[n]] = [new(n) EXCEPT !.ro = ro] /\ new(n) \in Collections /\ new(n).live = TRUE
        /\ new(n).subset = (n \in subsets)
    BY <1>12
  <2> HIDE DEF els
  <2>3. /\ col'[cols[n]] \in Collections /\ col'[cols[n]].live = TRUE /\ col'[cols[n]].ro = ro
        /\ col'[cols[n]].subset = new(n).subset /\ col'[cols[n]].elems = els
    BY <2>1, <2>2, ReadOnlyShape
  <2>4. QED
    BY <2>2, <2>3 DEF els
<1>14. \A a \in Addrs : a \notin Range(cols) => col'[a] = col1[a]
  BY <1>6
<1>15. /\ \A n \in names : ElementsDeleted(cols[n])' = {o \in os : in[o] = n}
       /\ \A a \in Addrs : a \notin Range(cols) => ElementsDeleted(a)' = Left(gone, a)
  <2>1. ASSUME NEW n \in names PROVE ElementsDeleted(cols[n])' = {o \in os : in[o] = n}
    <3>1. CASE n \in subsets
      <4>1. ElementsDeleted(cols[n])' = {}
        BY <1>13, <3>1 DEF ElementsDeleted
      <4>2. \A o \in os : in[o] # n
        BY <3>1
      <4>3. QED
        BY <4>1, <4>2
    <3>2. CASE n \notin subsets
      BY <1>13, <3>2 DEF ElementsDeleted
    <3>3. QED
      BY <3>1, <3>2
  <2>2. ASSUME NEW a \in Addrs, a \notin Range(cols) PROVE ElementsDeleted(a)' = Left(gone, a)
    BY <1>8, <1>9, <1>14, <2>2 DEF ElementsDeleted, Left
  <2>3. QED
    BY <2>1, <2>2
<1>16. col' \in [Addrs -> Collections] /\ \A a \in Addrs : ~col'[a].live => col'[a] = Free
  <2>1. ASSUME NEW a \in Addrs PROVE col'[a] \in Collections /\ (~col'[a].live => col'[a] = Free)
    <3>1. CASE a \in Range(cols)
      <4>1. PICK n \in names : cols[n] = a
        BY <1>7, <3>1
      <4>2. QED
        BY <1>13, <4>1
    <3>2. CASE a \notin Range(cols)
      <4>1. col'[a] = col1[a] /\ col1[a] \in Collections
        BY <1>8, <1>14, <3>2
      <4>2. ~col1[a].live => col1[a] = Free
        BY <1>1, <1>8 DEF Shape
      <4>3. QED
        BY <4>1, <4>2
    <3>3. QED
      BY <3>1, <3>2
  <2>2. col' = [a \in Addrs |-> col'[a]]
    BY <1>6
  <2>3. QED
    BY <2>1, <2>2
<1>17. /\ \A o \in Objects : obj'[o] = IF o \in os THEN Mode(ro) ELSE obj1[o]
       /\ \A o \in os : o \in Objects /\ obj1[o] = "free"
  BY <1>6 DEF obj1
<1>18. obj' \in [Objects -> {"free", "update", "readonly"}]
  BY <1>6, <1>8 DEF Mode
<1>19. /\ evt' \in [Events -> EventStates]
       /\ evt'[e].cols = cols /\ evt'[e].live /\ evt'[e].notOwned = {}
       /\ \A d \in Events : d # e => evt'[d] = evt[d]
  <2> DEFINE read == [EmptyEvent EXCEPT !.cols = cols, !.ro = ro]
  <2>1. EmptyEvent.live /\ EmptyEvent.notOwned = {}
    BY NoEventShape DEF EmptyEvent, NoEvent
  <2>2. read \in EventStates /\ read.cols = cols /\ read.live /\ read.notOwned = {}
    BY <1>7, <2>1, NoEventShape DEF EventStates
  <2>3. evt' = [evt EXCEPT ![e] = read]
    BY <1>6
  <2> HIDE DEF read
  <2>4. QED
    BY <1>1, <2>2, <2>3 DEF Shape
<1>20. LiveEvents' = LiveEvents \cup {e} /\ Named(e)' = Range(cols) /\ Owned(e)' = Range(cols)
  BY <1>19 DEF LiveEvents, Named, Owned
<1>21. \A d \in LiveEvents \ {e} :
        /\ d \in Events /\ Named(d)' = Named(d) /\ Owned(d)' = Owned(d) /\ evt'[d] = evt[d]
        /\ \A a \in Named(d) \cup evt[d].notOwned : a \in Addrs \ gone
        /\ Owned(d) \subseteq Named(d)
  <2>1. ASSUME NEW d \in LiveEvents \ {e}
        PROVE  /\ d \in Events /\ Named(d)' = Named(d) /\ Owned(d)' = Owned(d) /\ evt'[d] = evt[d]
               /\ \A a \in Named(d) \cup evt[d].notOwned : a \in Addrs \ gone
               /\ Owned(d) \subseteq Named(d)
    <3>1. d \in Events /\ Named(d)' = Named(d) /\ Owned(d)' = Owned(d) /\ evt'[d] = evt[d]
      BY <1>19 DEF LiveEvents, Named, Owned
    <3>2. Named(d) \cup evt[d].notOwned \subseteq Addrs /\ Owned(d) \subseteq Named(d)
      BY <1>1, <3>1, NamedAddrs DEF Shape, EventStates
    <3>3. (Named(d) \cup evt[d].notOwned) \cap gone = {}
      BY <1>2 DEF OthersDone, gone
    <3>4. QED
      BY <3>1, <3>2, <3>3
  <2>2. QED
    BY <2>1
\* A collection of another event, or of the client, stays.
<1>22. \A a \in Addrs : a \notin gone /\ col[a].live => a \notin Range(cols) /\ col'[a] = col[a]
  BY <1>8, <1>11, <1>14
<1>23. \A a \in held : a \in Addrs /\ a \notin gone /\ col[a].live
  <2>1. CASE e \in LiveEvents
    BY <1>1, <2>1 DEF ColsOwned, Shape, gone
  <2>2. CASE ~evt[e].live
    <3>1. gone = {}
      BY <1>1, <2>2, OwnedLive DEF gone, Owned
    <3>2. QED
      BY <1>1, <3>1 DEF ColsOwned, Shape
  <2>3. QED
    BY <2>1, <2>2 DEF LiveEvents
<1>24. Shape'
  <2>1. \A d \in Events : ~evt'[d].live => evt'[d] = NoEvent
    BY <1>1, <1>19 DEF Shape
  <2>2. QED
    BY <1>1, <1>2, <1>16, <1>18, <1>19, <2>1 DEF Shape
<1>25. NamesOK'
  <2>1. ASSUME NEW d \in LiveEvents \ {e}
        PROVE  /\ \A a \in (Named(d) \cup evt[d].notOwned)' : col'[a].live
               /\ \A a \in evt'[d].notOwned : col'[a].transient
               /\ \A m, n \in DOMAIN evt'[d].cols : evt'[d].cols[m] = evt'[d].cols[n] => m = n
    BY <1>1, <1>21, <1>22 DEF NamesOK
  <2>2. /\ \A a \in (Named(e) \cup evt[e].notOwned)' : col'[a].live
        /\ \A a \in evt'[e].notOwned : col'[a].transient
        /\ \A m, n \in DOMAIN evt'[e].cols : evt'[e].cols[m] = evt'[e].cols[n] => m = n
    <3>1. \A a \in Range(cols) : col'[a].live
      BY <1>7, <1>13
    <3>2. DOMAIN evt'[e].cols = names /\ evt'[e].cols = cols
      BY <1>7, <1>19
    <3>3. (Named(e) \cup evt[e].notOwned)' = Range(cols)
      BY <1>19, <1>20
    <3>4. QED
      BY <1>7, <1>19, <3>1, <3>2, <3>3
  <2>3. QED
    BY <1>20, <2>1, <2>2 DEF NamesOK
<1>26. ColsOwned'
  <2>1. ASSUME NEW a \in Addrs, col'[a].live
        PROVE  a \in held \/ \E d \in LiveEvents' : a \in Owned(d)'
    <3>1. CASE a \in Range(cols)
      BY <1>20, <3>1
    <3>2. CASE a \notin Range(cols)
      <4>1. a \notin gone /\ col[a].live
        BY <1>8, <1>9, <1>14, <2>1, <3>2
      <4>2. a \in held \/ \E d \in LiveEvents \ {e} : a \in Owned(d)
        BY <1>1, <4>1 DEF ColsOwned, gone
      <4>3. QED
        BY <1>20, <1>21, <4>2
    <3>3. QED
      BY <3>1, <3>2
  <2>2. ASSUME NEW a \in held
        PROVE  col'[a].live /\ \A d \in LiveEvents' : a \notin Owned(d)'
    <3>1. a \notin Range(cols) /\ col'[a] = col[a] /\ col[a].live
      BY <1>22, <1>23
    <3>2. \A d \in LiveEvents \ {e} : a \notin Owned(d)
      BY <1>1 DEF ColsOwned
    <3>3. QED
      BY <1>20, <1>21, <3>1, <3>2
  <2>3. \A d \in LiveEvents \ {e} : Owned(d) \cap Range(cols) = {}
    BY <1>1, <1>21, <1>22 DEF NamesOK
  <2>4. ASSUME NEW c \in LiveEvents', NEW d \in LiveEvents', c # d
        PROVE  Owned(c)' \cap Owned(d)' = {}
    <3>1. CASE c = e
      BY <1>20, <1>21, <2>3, <2>4, <3>1
    <3>2. CASE d = e
      BY <1>20, <1>21, <2>3, <2>4, <3>2
    <3>3. CASE c # e /\ d # e
      BY <1>1, <1>20, <1>21, <2>4, <3>3 DEF ColsOwned
    <3>4. QED
      BY <3>1, <3>2, <3>3
  <2>5. QED
    BY <1>2, <2>1, <2>2, <2>4 DEF ColsOwned
<1>27. ObjsOwned'
  <2>1. ASSUME NEW o \in os
        PROVE  o \notin heldObj /\ \A a \in Addrs : o \notin Left(gone, a)
    BY <1>10, <1>17 DEF Mode
  <2>2. ASSUME NEW o \in Objects, obj'[o] # "free"
        PROVE  o \in heldObj \/ \E a \in Addrs : o \in ElementsDeleted(a)'
    <3>1. CASE o \in os
      <4>1. in[o] \in names /\ o \in ElementsDeleted(cols[in[o]])'
        BY <1>15, <3>1
      <4>2. cols[in[o]] \in Addrs
        BY <1>7, <4>1
      <4>3. QED
        BY <4>1, <4>2
    <3>2. CASE o \notin os
      <4>1. o \in heldObj \/ \E a \in Addrs : o \in Left(gone, a)
        BY <1>10, <1>17, <2>2, <3>2
      <4>2. \A a \in Addrs : o \in Left(gone, a) => o \in ElementsDeleted(a)'
        BY <1>11, <1>15
      <4>3. QED
        BY <4>1, <4>2
    <3>3. QED
      BY <3>1, <3>2
  <2>3. ASSUME NEW a \in Addrs, NEW o \in ElementsDeleted(a)'
        PROVE  \/ \E n \in names : a = cols[n] /\ o \in os /\ in[o] = n
               \/ a \notin Range(cols) /\ o \in Left(gone, a) /\ o \notin os
    <3>1. CASE a \in Range(cols)
      BY <1>7, <1>15, <3>1
    <3>2. CASE a \notin Range(cols)
      BY <1>15, <2>1, <3>2
    <3>3. QED
      BY <3>1, <3>2
  <2>4. ASSUME NEW o \in heldObj
        PROVE  obj'[o] = "update" /\ \A a \in Addrs : o \notin ElementsDeleted(a)'
    <3>1. o \in Objects /\ o \notin os /\ obj1[o] = "update"
      BY <1>1, <1>10, <2>1 DEF Shape
    <3>2. \A a \in Addrs : o \notin ElementsDeleted(a)'
      BY <1>10, <2>3, <3>1
    <3>3. QED
      BY <1>17, <3>1, <3>2
  <2>5. ASSUME NEW a \in Addrs, NEW o \in ElementsDeleted(a)'
        PROVE  obj'[o] = Mode(col'[a].ro)
    <3>1. CASE \E n \in names : a = cols[n] /\ o \in os /\ in[o] = n
      BY <1>13, <1>17, <3>1
    <3>2. CASE a \notin Range(cols) /\ o \in Left(gone, a) /\ o \notin os
      BY <1>10, <1>14, <1>17, <3>2
    <3>3. QED
      BY <2>3, <2>5, <3>1, <3>2
  <2>6. ASSUME NEW a \in Addrs, NEW b \in Addrs, a # b
        PROVE  ElementsDeleted(a)' \cap ElementsDeleted(b)' = {}
    <3> SUFFICES ASSUME NEW o \in ElementsDeleted(a)', o \in ElementsDeleted(b)' PROVE FALSE
      OBVIOUS
    <3>1. \/ \E n \in names : a = cols[n] /\ o \in os /\ in[o] = n
          \/ a \notin Range(cols) /\ o \in Left(gone, a) /\ o \notin os
      BY <2>3
    <3>2. \/ \E n \in names : b = cols[n] /\ o \in os /\ in[o] = n
          \/ b \notin Range(cols) /\ o \in Left(gone, b) /\ o \notin os
      BY <2>3
    <3>3. QED
      BY <1>10, <2>6, <3>1, <3>2
  <2>7. QED
    BY <1>2, <2>2, <2>4, <2>5, <2>6 DEF ObjsOwned
<1>28. QED
  BY <1>4, <1>24, <1>25, <1>26, <1>27 DEF IInv

-----------------------------------------------------------------------------
LEMMA NextIInv ==
  ASSUME Careful, IInv, [Next]_vars
  PROVE  IInv'
<1>1. CASE \E a \in Addrs : MakeCollection(a) \/ SetFlag(a) \/ DeleteHeld(a)
  BY <1>1, MakeCollectionOK, SetFlagOK, DeleteHeldOK
<1>2. CASE \E o \in Objects : MakeObject(o) \/ DeleteObject(o)
  BY <1>2, MakeObjectOK
<1>3. CASE \E a \in Addrs, o \in Objects : AddElement(a, o) \/ RemoveElement(a, o)
  BY <1>3, ElementsOK
<1>4. CASE \E e \in Events, n \in Names : TakeCollection(e, n) \/ RemoveCollection(e, n)
  BY <1>4, TakeCollectionOK, RemoveCollectionOK
<1>5. CASE \E e \in Events, a \in Addrs, n \in Names : AddCollection(e, a, n)
  BY <1>5, AddCollectionOK
<1>6. CASE \E e \in Events : MakeEvent(e) \/ DeleteEvent(e) \/ ReadNextEvent(e)
  BY <1>6, MakeEventOK, DeleteEventOK, ReadNextEventOK
<1>7. CASE \E e \in Events, ro \in BOOLEAN : SetAccessMode(e, ro)
  BY <1>7, SetAccessModeOK
<1>8. CASE UNCHANGED vars
  <2>1. Shape' /\ ~fault'
    BY <1>8 DEF vars, IInv, Shape
  <2>2. NamesOK' /\ ColsOwned' /\ ObjsOwned'
    BY <1>8, SameEvents, SameElements DEF vars, IInv, NamesOK, ColsOwned, ObjsOwned
  <2>3. QED
    BY <2>1, <2>2 DEF IInv
<1>9. QED
  BY <1>1, <1>2, <1>3, <1>4, <1>5, <1>6, <1>7, <1>8 DEF Next

LEMMA SpecIInv ==
  ASSUME Careful
  PROVE  Spec => []IInv
<1>1. Init => IInv
  BY InitIInv
<1>2. IInv /\ [Next]_vars => IInv'
  BY NextIInv
<1>3. QED
  BY <1>1, <1>2, PTL DEF Spec

(***************************************************************************)
(* Events, collections and elements keep their shape, and a collection     *)
(* that was taken from an event is marked as transient, so that no file    *)
(* gets it (LCEventImpl::takeCollection).                                  *)
(***************************************************************************)
THEOREM SpecTypeOK ==
  ASSUME Careful
  PROVE  Spec => []TypeOK
<1>1. IInv => TypeOK
  <2> SUFFICES ASSUME IInv PROVE TypeOK
    OBVIOUS
  <2>1. Shape /\ NamesOK
    BY DEF IInv
  <2>2. \A a \in Addrs : IF col[a].live THEN col[a].elems \subseteq Objects ELSE col[a] = Free
    BY <2>1 DEF Shape, Collections
  <2>3. ASSUME NEW e \in Events
        PROVE  /\ DOMAIN evt[e].cols \subseteq Names
               /\ ~evt[e].live => evt[e] = NoEvent
               /\ \A a \in evt[e].notOwned : col[a].transient
    <3>1. evt[e].cols \in ColMaps
      BY <2>1 DEF Shape, EventStates
    <3>2. DOMAIN evt[e].cols \subseteq Names
      BY <3>1 DEF ColMaps
    <3>3. ~evt[e].live => evt[e] = NoEvent /\ evt[e].notOwned = {}
      BY <2>1, OwnedLive DEF Shape
    <3>4. evt[e].live => \A a \in evt[e].notOwned : col[a].transient
      BY <2>1 DEF NamesOK, LiveEvents
    <3>5. QED
      BY <3>2, <3>3, <3>4
  <2>4. QED
    BY <2>1, <2>2, <2>3 DEF TypeOK, Shape
<1>2. QED
  BY <1>1, SpecIInv, PTL

(***************************************************************************)
(* Whatever a job, its reader and its events do, nothing is deleted that   *)
(* is not there and no element is used that is gone (~LCEventImpl,         *)
(* ~LCCollectionVec).                                                      *)
(***************************************************************************)
THEOREM SpecNothingDeletedTwice ==
  ASSUME Careful
  PROVE  Spec => []NothingDeletedTwice
<1>1. IInv => NothingDeletedTwice
  BY DEF IInv, NothingDeletedTwice
<1>2. QED
  BY <1>1, SpecIInv, PTL

(***************************************************************************)
(* Every collection in memory and every element has exactly one owner:     *)
(* nothing leaks ("here we need to delete all collections in the event,    *)
(* except collections whose ownership we gave away", LCEventImpl.cc:42).   *)
(***************************************************************************)
THEOREM SpecOneOwner ==
  ASSUME Careful
  PROVE  Spec => []OneOwner
<1>1. IInv => OneOwner
  <2> SUFFICES ASSUME IInv PROVE OneOwner
    OBVIOUS
  <2>1. Shape /\ NamesOK /\ ColsOwned /\ ObjsOwned
    BY DEF IInv
  <2>2. ASSUME NEW a \in Addrs
        PROVE  Cardinality({e \in LiveEvents : a \in Owned(e)} \cup (held \cap {a}))
                 = (IF col[a].live THEN 1 ELSE 0)
    <3> DEFINE owners == {e \in LiveEvents : a \in Owned(e)} \cup (held \cap {a})
    <3>1. CASE a \in held
      <4>1. col[a].live /\ \A e \in LiveEvents : a \notin Owned(e)
        BY <2>1, <3>1 DEF ColsOwned
      <4>2. owners = {a}
        BY <3>1, <4>1
      <4> HIDE DEF owners
      <4>3. Cardinality(owners) = 1
        BY <4>2, FS_Singleton
      <4>4. QED
        BY <4>1, <4>3 DEF owners
    <3>2. CASE a \notin held /\ col[a].live
      <4>1. PICK e \in LiveEvents : a \in Owned(e)
        BY <2>1, <3>2 DEF ColsOwned
      <4>2. \A d \in LiveEvents : a \in Owned(d) => d = e
        BY <2>1, <4>1 DEF ColsOwned
      <4>3. owners = {e}
        BY <3>2, <4>1, <4>2
      <4> HIDE DEF owners
      <4>4. Cardinality(owners) = 1
        BY <4>3, FS_Singleton
      <4>5. QED
        BY <3>2, <4>4 DEF owners
    <3>3. CASE a \notin held /\ ~col[a].live
      <4>1. \A e \in LiveEvents : a \notin Owned(e)
        BY <2>1, <3>3, OwnedLive DEF LiveEvents
      <4>2. owners = {}
        BY <3>3, <4>1
      <4> HIDE DEF owners
      <4>3. Cardinality(owners) = 0
        BY <4>2, FS_EmptySet
      <4>4. QED
        BY <3>3, <4>3 DEF owners
    <3>4. QED
      BY <3>1, <3>2, <3>3
  <2>3. ASSUME NEW o \in Objects
        PROVE  Cardinality({a \in Addrs : o \in ElementsDeleted(a)} \cup (heldObj \cap {o}))
                 = (IF obj[o] # "free" THEN 1 ELSE 0)
    <3> DEFINE owners == {a \in Addrs : o \in ElementsDeleted(a)} \cup (heldObj \cap {o})
    <3>1. CASE o \in heldObj
      <4>1. obj[o] # "free" /\ \A a \in Addrs : o \notin ElementsDeleted(a)
        BY <2>1, <3>1 DEF ObjsOwned
      <4>2. owners = {o}
        BY <3>1, <4>1
      <4> HIDE DEF owners
      <4>3. Cardinality(owners) = 1
        BY <4>2, FS_Singleton
      <4>4. QED
        BY <4>1, <4>3 DEF owners
    <3>2. CASE o \notin heldObj /\ obj[o] # "free"
      <4>1. PICK a \in Addrs : o \in ElementsDeleted(a)
        BY <2>1, <3>2 DEF ObjsOwned
      <4>2. \A b \in Addrs : o \in ElementsDeleted(b) => b = a
        BY <2>1, <4>1 DEF ObjsOwned
      <4>3. owners = {a}
        BY <3>2, <4>1, <4>2
      <4> HIDE DEF owners
      <4>4. Cardinality(owners) = 1
        BY <4>3, FS_Singleton
      <4>5. QED
        BY <3>2, <4>4 DEF owners
    <3>3. CASE o \notin heldObj /\ obj[o] = "free"
      <4>1. \A a \in Addrs : o \notin ElementsDeleted(a)
        BY <2>1, <3>3 DEF ObjsOwned, Mode
      <4>2. owners = {}
        BY <3>3, <4>1
      <4> HIDE DEF owners
      <4>3. Cardinality(owners) = 0
        BY <4>2, FS_EmptySet
      <4>4. QED
        BY <3>3, <4>3 DEF owners
    <3>4. QED
      BY <3>1, <3>2, <3>3
  <2>4. QED
    BY <2>2, <2>3 DEF OneOwner
<1>2. QED
  BY <1>1, SpecIInv, PTL

(***************************************************************************)
(* A name in an event stands for a collection that is there, for           *)
(* getCollection and for the writer.                                       *)
(***************************************************************************)
THEOREM SpecNamesLive ==
  ASSUME Careful
  PROVE  Spec => []NamesLive
<1>1. IInv => NamesLive
  BY DEF IInv, NamesOK, NamesLive
<1>2. QED
  BY <1>1, SpecIInv, PTL

(***************************************************************************)
(* setReadOnly and setAccessMode leave a collection and the elements it    *)
(* owns in the same access mode, whatever subsets point to them.           *)
(***************************************************************************)
THEOREM SpecElementsInMode ==
  ASSUME Careful
  PROVE  Spec => []ElementsInMode
<1>1. IInv => ElementsInMode
  BY DEF IInv, ObjsOwned, ElementsInMode
<1>2. QED
  BY <1>1, SpecIInv, PTL
=============================================================================
