-------------------------- MODULE SIORegistryProofs --------------------------
(***************************************************************************)
(* What readers and writers share serves all of them, for any number of    *)
(* readers, writers, collections and calls: handlers have one owner that   *)
(* deletes them, a reader fills its own event, a record holds the event    *)
(* that is written, and readStream goes on.                                *)
(***************************************************************************)
EXTENDS SIORegistry, TLAPS

(***************************************************************************)
(* What clients keep to: a collection that is written has one type         *)
(* wherever it comes from.  setUpHandlers of the writer relies on it.      *)
(***************************************************************************)
OneTypePerName ==
  \A g \in Given, e \in Stored \cup Given :
    \A n \in DOMAIN g \cap DOMAIN e : g[n] = e[n]

(***************************************************************************)
(* A handler that may be in the map for the collection n: for the type n   *)
(* has in some event.                                                      *)
(***************************************************************************)
MayHandle(n, h) ==
  \E e \in Stored \cup Given, d \in Readers \cup {Nobody} :
    n \in DOMAIN e /\ e[n] \in Supported /\ h = ColHandler(e[n], d)

(***************************************************************************)
(* The map holds headers' handlers of clients that exist, and collections' *)
(* handlers that belong to nobody.                                         *)
(***************************************************************************)
MapOK(m, clients) ==
  /\ DOMAIN m \subseteq Names \cup Own
  /\ \A n \in DOMAIN m \cap Own : \E c \in clients : m[n] = OwnHandler(c)
  /\ \A n \in DOMAIN m \cap Names : MayHandle(n, m[n])

(***************************************************************************)
(* The inductive invariant.                                                *)
(***************************************************************************)
IInv ==
  /\ alive \subseteq Clients
  /\ MapOK(blockMap, alive)
  /\ connected \subseteq DOMAIN blockMap \cap Names
  /\ DOMAIN evt = Readers
  /\ unpack \subseteq Records
  /\ streaming \in alive \cup {Nobody}
  /\ StreamUnpacks
  /\ killed = {}
  /\ calls \in 0 .. MaxCalls

-----------------------------------------------------------------------------
(* The map. *)

(***************************************************************************)
(* Collections' handlers are told from the others by their owner.          *)
(***************************************************************************)
LEMMA HandlersTold ==
  ASSUME NEW m, NEW clients \in SUBSET Clients, MapOK(m, clients), NEW n \in DOMAIN m
  PROVE  /\ n \in Names <=> IsColHandler(m[n])
         /\ n \in Own => m[n].owner \in clients
         /\ m[n].owner \in clients \cup {Nobody}
<1>1. CASE n \in Own
  <2>1. PICK c \in clients : m[n] = OwnHandler(c)
    BY <1>1 DEF MapOK
  <2>2. m[n].owner = c /\ c # Nobody
    BY <2>1, RegistryAssumption DEF OwnHandler, Clients
  <2>3. QED
    BY <1>1, <2>2, RegistryAssumption DEF IsColHandler
<1>2. CASE n \in Names
  <2>1. m[n].owner = Nobody
    BY <1>2 DEF MapOK, MayHandle, ColHandler
  <2>2. QED
    BY <1>2, <2>1, RegistryAssumption DEF IsColHandler
<1>3. QED
  BY <1>1, <1>2 DEF MapOK

(***************************************************************************)
(* A constructor adds the handlers of a client that exists from then on.   *)
(***************************************************************************)
LEMMA AddOK ==
  ASSUME NEW m, NEW clients \in SUBSET Clients, MapOK(m, clients),
         NEW c \in clients, NEW n \in Own
  PROVE  /\ MapOK(Add(m, n, OwnHandler(c)), clients)
         /\ DOMAIN m \subseteq DOMAIN Add(m, n, OwnHandler(c))
<1>1. CASE n \in DOMAIN m
  BY <1>1 DEF Add
<1>2. CASE n \notin DOMAIN m
  <2> DEFINE a == Add(m, n, OwnHandler(c))
  <2>1. a = [x \in DOMAIN m \cup {n} |-> IF x = n THEN OwnHandler(c) ELSE m[x]]
    BY <1>2 DEF Add
  <2>2. DOMAIN a = DOMAIN m \cup {n} /\ a[n] = OwnHandler(c)
        /\ \A x \in DOMAIN m : a[x] = m[x]
    BY <1>2, <2>1
  <2> HIDE DEF a
  <2>3. n \notin Names
    BY RegistryAssumption
  <2>4. \A x \in DOMAIN a \cap Own : \E b \in clients : a[x] = OwnHandler(b)
    BY <2>2 DEF MapOK
  <2>5. \A x \in DOMAIN a \cap Names : MayHandle(x, a[x])
    BY <2>2, <2>3 DEF MapOK
  <2>6. QED
    BY <2>2, <2>4, <2>5 DEF MapOK, a
<1>3. QED
  BY <1>1, <1>2

(***************************************************************************)
(* More clients do no harm to the map.                                     *)
(***************************************************************************)
LEMMA MoreClients ==
  ASSUME NEW m, NEW few, NEW many, few \subseteq many, MapOK(m, few)
  PROVE  MapOK(m, many)
BY DEF MapOK

(***************************************************************************)
(* Before a record is read the reader's handlers are put into the map.     *)
(***************************************************************************)
LEMMA ReregisteredOK ==
  ASSUME NEW m, NEW clients, MapOK(m, clients), NEW r \in clients
  PROVE  /\ MapOK(Reregistered(m, r), clients)
         /\ DOMAIN Reregistered(m, r) = DOMAIN m \cup Own
         /\ \A n \in DOMAIN m \cap Names : Reregistered(m, r)[n] = m[n]
<1> DEFINE a == Reregistered(m, r)
<1>1. DOMAIN a = DOMAIN m \cup Own
  BY DEF Reregistered
<1>2. \A n \in Own : a[n] = OwnHandler(r)
  BY DEF Reregistered
<1>3. \A n \in DOMAIN m \cap Names : a[n] = m[n]
  BY RegistryAssumption DEF Reregistered
<1> HIDE DEF a
<1>4. DOMAIN a \subseteq Names \cup Own
  BY <1>1 DEF MapOK
<1>5. \A n \in DOMAIN a \cap Own : \E c \in clients : a[n] = OwnHandler(c)
  BY <1>2
<1>6. \A n \in DOMAIN a \cap Names : n \in DOMAIN m
  BY <1>1, RegistryAssumption
<1>7. \A n \in DOMAIN a \cap Names : MayHandle(n, a[n])
  BY <1>3, <1>6 DEF MapOK
<1>8. QED
  BY <1>1, <1>3, <1>4, <1>5, <1>7 DEF MapOK, a

(***************************************************************************)
(* setUpHandlers of a reader: afterwards exactly the event's collections   *)
(* of types that have a handler are in the map, all filling the event of   *)
(* this reader; other handlers are as they were.                           *)
(***************************************************************************)
LEMMA HandlersForOK ==
  ASSUME NEW m, NEW clients \in SUBSET Clients, MapOK(m, clients),
         NEW r \in Readers, NEW e \in Stored, NEW ev,
         DOMAIN ev \subseteq DOMAIN e, \A n \in DOMAIN ev : ev[n] = e[n]
  PROVE  LET a == HandlersFor(m, ev, r)
         IN /\ MapOK(a, clients)
            /\ \A n \in DOMAIN ev : n \in DOMAIN a <=> ev[n] \in Supported
            /\ \A n \in DOMAIN ev \cap DOMAIN a : Target(a, n) = r
            /\ \A n \in DOMAIN m : n \notin DOMAIN ev \/ Keeps(m, ev, n) => n \in DOMAIN a
<1> DEFINE a == HandlersFor(m, ev, r)
           gone == {n \in DOMAIN ev : ~Keeps(m, ev, n) /\ ev[n] \notin Supported}
<1>1. DOMAIN ev \subseteq Names
  BY RegistryAssumption
<1>2. DOMAIN a = (DOMAIN m \cup DOMAIN ev) \ gone
  BY DEF HandlersFor
<1>3. \A n \in DOMAIN a : n \notin DOMAIN ev => n \in DOMAIN m /\ a[n] = m[n]
  BY DEF HandlersFor
<1>4. \A n \in DOMAIN a \cap DOMAIN ev : Keeps(m, ev, n) => a[n] = Retargeted(m[n], r)
  BY DEF HandlersFor
<1>5. \A n \in DOMAIN a \cap DOMAIN ev : ~Keeps(m, ev, n) => a[n] = ColHandler(ev[n], r)
  BY DEF HandlersFor
<1>6. \A n \in DOMAIN ev : n \in DOMAIN a <=> Keeps(m, ev, n) \/ ev[n] \in Supported
  BY <1>2
<1>7. \A n \in DOMAIN m : n \notin DOMAIN ev \/ Keeps(m, ev, n) => n \in DOMAIN a
  BY <1>2
<1> HIDE DEF a, gone
<1>8. ASSUME NEW n \in DOMAIN ev, Keeps(m, ev, n)
      PROVE  ev[n] \in Supported /\ Retargeted(m[n], r) = ColHandler(ev[n], r)
  <2>1. n \in DOMAIN m /\ n \in Names /\ m[n].type = ev[n]
    BY <1>1, <1>8 DEF Keeps
  <2>2. PICK f \in Stored \cup Given, d \in Readers \cup {Nobody} :
          f[n] \in Supported /\ m[n] = ColHandler(f[n], d)
    BY <2>1 DEF MapOK, MayHandle
  <2>3. f[n] = ev[n]
    BY <2>1, <2>2 DEF ColHandler
  <2>4. QED
    BY <2>2, <2>3 DEF ColHandler, Retargeted
<1>9. \A n \in DOMAIN a \cap DOMAIN ev : ev[n] \in Supported /\ a[n] = ColHandler(ev[n], r)
  BY <1>4, <1>5, <1>6, <1>8
<1>10. \A n \in DOMAIN a \cap DOMAIN ev : MayHandle(n, a[n])
  BY <1>9 DEF MayHandle
<1>11. \A n \in DOMAIN a \cap Names : MayHandle(n, a[n])
  BY <1>3, <1>10 DEF MapOK
<1>12. \A n \in DOMAIN a \cap Own : \E c \in clients : a[n] = OwnHandler(c)
  BY <1>1, <1>3, RegistryAssumption DEF MapOK
<1>13. DOMAIN a \subseteq Names \cup Own
  BY <1>1, <1>3 DEF MapOK
<1>14. MapOK(a, clients)
  BY <1>11, <1>12, <1>13 DEF MapOK
<1>15. \A n \in DOMAIN ev \cap DOMAIN a : Target(a, n) = r
  BY <1>9 DEF Target, ColHandler
<1>16. \A n \in DOMAIN ev : n \in DOMAIN a <=> ev[n] \in Supported
  BY <1>6, <1>8
<1>17. QED
  BY <1>7, <1>14, <1>15, <1>16 DEF a

-----------------------------------------------------------------------------
(* The calls. *)

(***************************************************************************)
(* One event, read by r: its records fill the event of r and nothing else  *)
(* that r has selected, and leave the map in order.                        *)
(***************************************************************************)
LEMMA ReadKeeps ==
  ASSUME IInv, NEW r \in Readers, r \in alive, NEW e \in Stored, ReadEventRecords(r, e)
  PROVE  /\ MapOK(blockMap', alive)
         /\ connected' \subseteq DOMAIN blockMap' \cap Names
         /\ DOMAIN evt' = Readers
         /\ last'.op = "read"
         /\ ReadsIntoOwnEvent'
<1> DEFINE ev == EventOf(e, colSubSet[r])
           events == [evt EXCEPT ![r] = ev]
           m0 == Reregistered(blockMap, r)
           m1 == HandlersFor(m0, ev, r)
           m == Reregistered(m1, r)
<1>1. DOMAIN ev \subseteq DOMAIN e /\ \A n \in DOMAIN ev : ev[n] = e[n]
  BY DEF EventOf, Restrict
<1>2. DOMAIN e \subseteq Names
  BY RegistryAssumption
<1>3. /\ evt' = events /\ blockMap' = m
      /\ connected' = {n \in connected : n \in DOMAIN ev => Keeps(blockMap, ev, n)}
      /\ last' = [Call("read", r) EXCEPT
                    !.ok = GoesWell(m, events, e),
                    !.names = {n \in DOMAIN ev : ev[n] \in Supported},
                    !.filled = {<<Target(m, n), n>> : n \in Unpacks(m, e)},
                    !.stray = Unpacks(m, e) \ DOMAIN ev]
  BY DEF ReadEventRecords
<1>4. DOMAIN events = Readers /\ events[r] = ev
  BY DEF IInv
<1>5. /\ last'.op = "read" /\ last'.by = r
      /\ last'.ok = GoesWell(m, events, e)
      /\ last'.names = {n \in DOMAIN ev : ev[n] \in Supported}
      /\ last'.filled = {<<Target(m, n), n>> : n \in Unpacks(m, e)}
      /\ last'.stray = Unpacks(m, e) \ DOMAIN ev
  BY <1>3 DEF Call
<1> HIDE DEF ev, events
<1>6. alive \in SUBSET Clients /\ MapOK(blockMap, alive)
  BY DEF IInv
<1>7. /\ MapOK(m0, alive) /\ DOMAIN m0 = DOMAIN blockMap \cup Own
      /\ \A n \in DOMAIN blockMap \cap Names : m0[n] = blockMap[n]
  BY <1>6, ReregisteredOK
<1> HIDE DEF m0
<1>8. /\ MapOK(m1, alive)
      /\ \A n \in DOMAIN ev : n \in DOMAIN m1 <=> ev[n] \in Supported
      /\ \A n \in DOMAIN ev \cap DOMAIN m1 : Target(m1, n) = r
      /\ \A n \in DOMAIN m0 : n \notin DOMAIN ev \/ Keeps(m0, ev, n) => n \in DOMAIN m1
  BY <1>1, <1>6, <1>7, HandlersForOK
<1> HIDE DEF m1
<1>9. /\ MapOK(m, alive) /\ DOMAIN m = DOMAIN m1 \cup Own
      /\ \A n \in DOMAIN m1 \cap Names : m[n] = m1[n]
  BY <1>8, ReregisteredOK
<1> HIDE DEF m
<1>10. connected' \subseteq DOMAIN m \cap Names
  <2> SUFFICES ASSUME NEW n \in connected, n \in DOMAIN ev => Keeps(blockMap, ev, n)
               PROVE  n \in DOMAIN m \cap Names
    BY <1>3
  <2>1. n \in DOMAIN blockMap \cap Names
    BY DEF IInv
  <2>2. n \in DOMAIN ev => Keeps(m0, ev, n)
    BY <1>7, <2>1 DEF Keeps
  <2>3. QED
    BY <1>7, <1>8, <1>9, <2>1, <2>2
<1>11. ASSUME Unpacks(m, e) \subseteq DOMAIN ev
       PROVE  /\ Unpacks(m, e) = last'.names
              /\ \A n \in Unpacks(m, e) : Target(m, n) = r
  <2>1. \A n \in DOMAIN ev : n \in Names /\ n \notin Own
    BY <1>1, <1>2, RegistryAssumption
  <2>2. \A n \in DOMAIN ev : n \in DOMAIN m <=> ev[n] \in Supported
    BY <1>8, <1>9, <2>1
  <2>3. Unpacks(m, e) = last'.names
    BY <1>1, <1>5, <1>11, <2>2 DEF Unpacks
  <2>4. \A n \in DOMAIN ev \cap DOMAIN m : n \in DOMAIN m1 /\ m[n] = m1[n]
    BY <1>9, <2>1
  <2>5. \A n \in Unpacks(m, e) : Target(m, n) = r
    BY <1>8, <1>11, <2>4 DEF Unpacks, Target
  <2>6. QED
    BY <2>3, <2>5
<1>12. ReadsIntoOwnEvent'
  <2> SUFFICES ASSUME last'.stray = {}
               PROVE  last'.ok /\ last'.filled = {<<r, n>> : n \in last'.names}
    BY <1>5 DEF ReadsIntoOwnEvent
  <2>1. Unpacks(m, e) \subseteq DOMAIN ev
    BY <1>5
  <2>2. \A n \in Unpacks(m, e) : Target(m, n) = r /\ n \in DOMAIN events[Target(m, n)]
    BY <1>4, <1>11, <2>1
  <2>3. r # Nobody
    BY RegistryAssumption DEF Clients
  <2>4. GoesWell(m, events, e)
    BY <2>2, <2>3 DEF GoesWell
  <2>5. last'.filled = {<<r, n>> : n \in last'.names}
    BY <1>5, <1>11, <2>1
  <2>6. QED
    BY <1>5, <2>4, <2>5
<1>13. QED
  BY <1>3, <1>4, <1>5, <1>9, <1>10, <1>12

(***************************************************************************)
(* A destructor deletes nobody else's handler: when clear() comes, its own *)
(* or those under its name have left the map.                              *)
(***************************************************************************)
LEMMA NothingKilled ==
  ASSUME NEW m, NEW clients \in SUBSET Clients, MapOK(m, clients), NEW c
  PROVE  Cleared(Destroyed(Destroyed(m, "RunHeader", c), "EventHeader", c)) = {}
<1> DEFINE a == Destroyed(Destroyed(m, "RunHeader", c), "EventHeader", c)
<1>1. DOMAIN a = DOMAIN m \ Own /\ \A n \in DOMAIN a : a[n] = m[n]
  BY DEF Destroyed, Without, Restrict, Own
<1> HIDE DEF a
<1>2. \A n \in DOMAIN a : a[n].owner = Nobody
  BY <1>1, HandlersTold DEF MapOK, IsColHandler
<1>3. QED
  BY <1>2 DEF Cleared, a

(***************************************************************************)
(* writeEvent: the handlers it adds are in order.                          *)
(***************************************************************************)
LEMMA WriteKeeps ==
  ASSUME IInv, NEW w \in Writers, NEW e \in Given, NEW t \in SUBSET DOMAIN e, WriteEvent(w, e, t)
  PROVE  /\ MapOK(blockMap', alive)
         /\ connected' \subseteq DOMAIN blockMap' \cap Names
         /\ OneTypePerName => RecordHoldsItsEvent'
<1> DEFINE stored == DOMAIN e \ t
           has(n) == n \in DOMAIN blockMap /\ IsColHandler(blockMap[n])
           made == {n \in stored : ~has(n) /\ e[n] \in Supported}
           m == [n \in DOMAIN blockMap \cup made |->
                   IF n \in made THEN ColHandler(e[n], Nobody) ELSE blockMap[n]]
<1>1. /\ blockMap' = m
      /\ connected' = {n \in stored : has(n) \/ n \in made}
      /\ last' = [Call("write", w) EXCEPT
                    !.ok = \A n \in stored \cap DOMAIN m : m[n].type = e[n],
                    !.names = {n \in stored : e[n] \in Supported}]
  BY DEF WriteEvent, AfterDisconnectAll
<1>2. /\ last'.ok = (\A n \in stored \cap DOMAIN m : m[n].type = e[n])
      /\ last'.names = {n \in stored : e[n] \in Supported}
  BY <1>1 DEF Call
<1>3. /\ DOMAIN m = DOMAIN blockMap \cup made
      /\ \A n \in made : m[n] = ColHandler(e[n], Nobody)
      /\ \A n \in DOMAIN blockMap \ made : m[n] = blockMap[n]
  OBVIOUS
<1> HIDE DEF m
<1>4. stored \subseteq Names /\ made \subseteq stored
  BY RegistryAssumption
<1>5. alive \in SUBSET Clients /\ MapOK(blockMap, alive)
  BY DEF IInv
<1>6. \A n \in DOMAIN blockMap : IsColHandler(blockMap[n]) <=> n \in Names
  BY <1>5, HandlersTold
<1>7. \A n \in stored : has(n) <=> n \in DOMAIN blockMap
  BY <1>4, <1>6
<1>8. \A n \in made : MayHandle(n, m[n])
  BY <1>3 DEF MayHandle
<1> HIDE DEF made
<1>9. MapOK(m, alive)
  <2>1. \A n \in DOMAIN m \cap Names : MayHandle(n, m[n])
    BY <1>3, <1>5, <1>8 DEF MapOK
  <2>2. \A n \in DOMAIN m \cap Own : \E c \in alive : m[n] = OwnHandler(c)
    BY <1>3, <1>4, <1>5, RegistryAssumption DEF MapOK
  <2>3. QED
    BY <1>3, <1>4, <1>5, <2>1, <2>2 DEF MapOK
<1>10. connected' \subseteq DOMAIN m \cap Names
  BY <1>1, <1>3, <1>4, <1>7
<1>11. ASSUME OneTypePerName PROVE RecordHoldsItsEvent'
  <2>1. ASSUME NEW n \in stored \cap DOMAIN m PROVE m[n].type = e[n] /\ e[n] \in Supported
    <3>1. PICK f \in Stored \cup Given, d \in Readers \cup {Nobody} :
            n \in DOMAIN f /\ f[n] \in Supported /\ m[n] = ColHandler(f[n], d)
      BY <1>4, <1>9 DEF MapOK, MayHandle
    <3>2. f[n] = e[n]
      BY <1>11, <3>1 DEF OneTypePerName
    <3>3. QED
      BY <3>1, <3>2 DEF ColHandler
  <2>2. last'.ok
    BY <1>2, <2>1
  <2>3. \A n \in stored : has(n) \/ n \in made <=> n \in DOMAIN m
    BY <1>3, <1>7
  <2>4. \A n \in stored : e[n] \in Supported => has(n) \/ n \in made
    BY DEF made
  <2>5. connected' = last'.names
    BY <1>1, <1>2, <2>1, <2>3, <2>4
  <2>6. QED
    BY <2>2, <2>5 DEF RecordHoldsItsEvent
<1>12. QED
  BY <1>1, <1>9, <1>10, <1>11

-----------------------------------------------------------------------------
(* The invariant. *)

LEMMA InitIInv == Init => IInv
<1> SUFFICES ASSUME Init PROVE IInv
  OBVIOUS
<1>1. DOMAIN blockMap = {}
  BY DEF Init, NoEvent
<1>2. MapOK(blockMap, alive)
  BY <1>1 DEF MapOK
<1>3. streaming = Nobody /\ MaxCalls \in Nat /\ calls = 0
  BY RegistryAssumption DEF Init
<1>4. QED
  BY <1>1, <1>2, <1>3 DEF Init, IInv, StreamUnpacks

(***************************************************************************)
(* A step keeps the invariant, and a call that reads or writes leaves the  *)
(* event that was promised.                                                *)
(***************************************************************************)
Promise == ReadsIntoOwnEvent /\ (OneTypePerName => RecordHoldsItsEvent)

LEMMA NextIInv == IInv /\ Promise /\ [Next]_vars => IInv' /\ Promise'
<1> SUFFICES ASSUME IInv, Promise, [Next]_vars PROVE IInv' /\ Promise'
  OBVIOUS
<1>1. alive \in SUBSET Clients /\ MapOK(blockMap, alive) /\ MaxCalls \in Nat /\ calls \in Nat
  BY RegistryAssumption DEF IInv
<1>2. ASSUME last'.op \notin {"read", "write"} PROVE Promise'
  BY <1>2 DEF Promise, ReadsIntoOwnEvent, RecordHoldsItsEvent
<1>3. MayCall /\ Count => calls' \in 0 .. MaxCalls
  BY <1>1 DEF MayCall, Count
<1>4. StreamFlags \subseteq Records /\ \A flags : Restored(flags) = Records
  BY DEF StreamFlags, Records, Restored
<1>5. ASSUME NEW c \in Clients, New(c) PROVE IInv' /\ Promise'
  <2>1. alive' \in SUBSET Clients /\ c \in alive' /\ alive \subseteq alive'
    BY <1>1, <1>5 DEF New
  <2>2. MapOK(blockMap, alive')
    BY <1>1, <2>1, MoreClients
  <2> DEFINE a == Add(blockMap, "RunHeader", OwnHandler(c))
  <2>3. MapOK(a, alive') /\ DOMAIN blockMap \subseteq DOMAIN a
    BY <2>1, <2>2, AddOK DEF Own
  <2>4. MapOK(Add(a, "EventHeader", OwnHandler(c)), alive')
        /\ DOMAIN a \subseteq DOMAIN Add(a, "EventHeader", OwnHandler(c))
    <3> HIDE DEF a
    <3>1. QED
      BY <2>1, <2>3, AddOK DEF Own
  <2>5. blockMap' = Add(a, "EventHeader", OwnHandler(c))
    BY <1>5 DEF New
  <2>6. MapOK(blockMap', alive') /\ DOMAIN blockMap \subseteq DOMAIN blockMap'
    BY <2>3, <2>4, <2>5
  <2>7. last'.op = "new" /\ calls' \in 0 .. MaxCalls
    BY <1>3, <1>5 DEF New, Call
  <2>8. UNCHANGED <<connected, evt, unpack, streaming, killed>>
    BY <1>5 DEF New
  <2>9. QED
    BY <1>2, <2>1, <2>6, <2>7, <2>8 DEF IInv, StreamUnpacks
<1>6. ASSUME NEW c \in Clients, Delete(c) PROVE IInv' /\ Promise'
  <2>1. killed' = killed \cup
          Cleared(Destroyed(Destroyed(blockMap, "RunHeader", c), "EventHeader", c))
    BY <1>6 DEF Delete
  <2>2. killed' = {}
    BY <1>1, <2>1, NothingKilled DEF IInv
  <2>3. alive' = alive \ {c} /\ DOMAIN blockMap' = {} /\ connected' = {} /\ DOMAIN evt' = Readers
    BY <1>6 DEF Delete, NoEvent
  <2>4. MapOK(blockMap', alive')
    BY <2>3 DEF MapOK
  <2>5. streaming # c /\ UNCHANGED <<unpack, streaming>>
    BY <1>6 DEF Delete
  <2>6. last'.op = "delete" /\ calls' \in 0 .. MaxCalls
    BY <1>3, <1>6 DEF Delete, Call
  <2>7. QED
    BY <1>2, <2>2, <2>3, <2>4, <2>5, <2>6 DEF IInv, StreamUnpacks
<1>7. ASSUME NEW c \in Clients, ScanHeaders(c) PROVE IInv' /\ Promise'
  <2>1. DOMAIN blockMap' = DOMAIN blockMap \ Own
        /\ \A n \in DOMAIN blockMap' : blockMap'[n] = blockMap[n]
    BY <1>7 DEF ScanHeaders, Without, Restrict
  <2>2. MapOK(blockMap', alive)
    BY <1>1, <2>1 DEF MapOK
  <2>3. connected \subseteq DOMAIN blockMap' \cap Names
    BY <2>1, RegistryAssumption DEF IInv
  <2>4. unpack' = Records /\ UNCHANGED <<alive, connected, evt, streaming, killed>>
    BY <1>4, <1>7 DEF ScanHeaders
  <2>5. last'.op = "scan" /\ calls' \in 0 .. MaxCalls
    BY <1>3, <1>7 DEF ScanHeaders, Call
  <2>6. QED
    BY <1>2, <1>4, <2>2, <2>3, <2>4, <2>5 DEF IInv, StreamUnpacks
<1>8. ASSUME NEW r \in Readers, NEW names \in Subsets, SetReadCollectionNames(r, names)
      PROVE  IInv' /\ Promise'
  <2>1. last'.op = "subset" /\ calls' \in 0 .. MaxCalls
    BY <1>3, <1>8 DEF SetReadCollectionNames, Call
  <2>2. UNCHANGED <<alive, blockMap, connected, evt, unpack, streaming, killed>>
    BY <1>8 DEF SetReadCollectionNames
  <2>3. QED
    BY <1>2, <2>1, <2>2 DEF IInv, StreamUnpacks
<1>9. ASSUME NEW r \in Readers, NEW e \in Stored, ReadNextEvent(r, e) PROVE IInv' /\ Promise'
  <2>1. r \in alive /\ ReadEventRecords(r, e)
    BY <1>9 DEF ReadNextEvent
  <2>2. /\ MapOK(blockMap', alive) /\ connected' \subseteq DOMAIN blockMap' \cap Names
        /\ DOMAIN evt' = Readers /\ last'.op = "read" /\ ReadsIntoOwnEvent'
    BY <2>1, ReadKeeps
  <2>3. Promise'
    BY <2>2 DEF Promise, RecordHoldsItsEvent
  <2>4. unpack' = Records /\ UNCHANGED <<alive, streaming, killed>> /\ calls' \in 0 .. MaxCalls
    BY <1>3, <1>4, <1>9 DEF ReadNextEvent
  <2>5. QED
    BY <1>4, <2>2, <2>3, <2>4 DEF IInv, StreamUnpacks
<1>10. ASSUME NEW r \in Readers, NEW e \in Stored, StreamEvent(r, e) PROVE IInv' /\ Promise'
  <2>1. r \in alive /\ ReadEventRecords(r, e)
    BY <1>10, RegistryAssumption DEF StreamEvent, IInv, Clients
  <2>2. /\ MapOK(blockMap', alive) /\ connected' \subseteq DOMAIN blockMap' \cap Names
        /\ DOMAIN evt' = Readers /\ last'.op = "read" /\ ReadsIntoOwnEvent'
    BY <2>1, ReadKeeps
  <2>3. Promise'
    BY <2>2 DEF Promise, RecordHoldsItsEvent
  <2>4. UNCHANGED <<alive, unpack, streaming, killed>> /\ calls' \in 0 .. MaxCalls
    BY <1>3, <1>10 DEF StreamEvent
  <2>5. QED
    BY <2>2, <2>3, <2>4 DEF IInv, StreamUnpacks
<1>11. ASSUME NEW r \in Readers, BeginStream(r) PROVE IInv' /\ Promise'
  <2>1. last'.op = "stream" /\ calls' \in 0 .. MaxCalls
    BY <1>3, <1>11 DEF BeginStream, Call
  <2>2. /\ r \in alive /\ streaming' = r /\ unpack' = StreamFlags
        /\ UNCHANGED <<alive, blockMap, connected, evt, killed>>
    BY <1>11 DEF BeginStream
  <2>3. QED
    BY <1>2, <1>4, <2>1, <2>2 DEF IInv, StreamUnpacks
<1>12. ASSUME EndStream PROVE IInv' /\ Promise'
  <2>1. last'.op = "end" /\ calls' \in 0 .. MaxCalls
    BY <1>3, <1>12 DEF EndStream, Call
  <2>2. /\ streaming' = Nobody /\ unpack' = Records
        /\ UNCHANGED <<alive, blockMap, connected, evt, killed>>
    BY <1>4, <1>12 DEF EndStream
  <2>3. QED
    BY <1>2, <2>1, <2>2 DEF IInv, StreamUnpacks
<1>13. ASSUME NEW w \in Writers, NEW e \in Given, NEW t \in SUBSET DOMAIN e, WriteEvent(w, e, t)
       PROVE  IInv' /\ Promise'
  <2>1. /\ MapOK(blockMap', alive) /\ connected' \subseteq DOMAIN blockMap' \cap Names
        /\ OneTypePerName => RecordHoldsItsEvent'
    BY <1>13, WriteKeeps
  <2>2. last'.op = "write" /\ calls' \in 0 .. MaxCalls
    BY <1>3, <1>13 DEF WriteEvent, Call
  <2>3. UNCHANGED <<alive, evt, unpack, streaming, killed>>
    BY <1>13 DEF WriteEvent
  <2>4. Promise'
    BY <2>1, <2>2 DEF Promise, ReadsIntoOwnEvent, OneTypePerName
  <2>5. QED
    BY <2>1, <2>2, <2>3, <2>4 DEF IInv, StreamUnpacks
<1>14. ASSUME UNCHANGED vars PROVE IInv' /\ Promise'
  BY <1>14 DEF vars, IInv, StreamUnpacks, Promise, ReadsIntoOwnEvent, RecordHoldsItsEvent, OneTypePerName
<1>15. QED
  BY <1>5, <1>6, <1>7, <1>8, <1>9, <1>10, <1>11, <1>12, <1>13, <1>14 DEF Next

(***************************************************************************)
(* The invariant holds in every state.                                     *)
(***************************************************************************)
LEMMA SpecIInv == Spec => [](IInv /\ Promise)
<1>1. Init => IInv /\ Promise
  <2>1. Init => Promise
    BY DEF Init, Call, Promise, ReadsIntoOwnEvent, RecordHoldsItsEvent
  <2>2. QED
    BY <2>1, InitIInv
<1>2. QED
  BY <1>1, NextIInv, PTL DEF Spec

-----------------------------------------------------------------------------
(***************************************************************************)
(* The state of readers and writers is of the right shape.                 *)
(***************************************************************************)
THEOREM SpecTypeOK == Spec => []TypeOK
<1>1. IInv => TypeOK
  <2> SUFFICES ASSUME IInv PROVE TypeOK
    OBVIOUS
  <2>1. alive \in SUBSET Clients /\ MapOK(blockMap, alive)
    BY DEF IInv
  <2>2. \A n \in DOMAIN blockMap : IsColHandler(blockMap[n]) <=> n \in Names
    BY <2>1, HandlersTold
  <2>3. QED
    BY <2>1, <2>2 DEF IInv, TypeOK, MapOK
<1>2. QED
  BY <1>1, SpecIInv, PTL

(***************************************************************************)
(* Readers and writers may come and go in any order: no destructor deletes *)
(* a handler that another one owns, and none in the map is of one that is  *)
(* gone.                                                                   *)
(***************************************************************************)
THEOREM SpecOwnHandlersSurvive == Spec => []OwnHandlersSurvive
<1>1. IInv => OwnHandlersSurvive
  <2> SUFFICES ASSUME IInv PROVE OwnHandlersSurvive
    OBVIOUS
  <2>1. alive \in SUBSET Clients /\ MapOK(blockMap, alive) /\ killed = {}
    BY DEF IInv
  <2>2. \A n \in DOMAIN blockMap : blockMap[n].owner \in alive \cup {Nobody}
    BY <2>1, HandlersTold
  <2>3. QED
    BY <2>1, <2>2 DEF OwnHandlersSurvive
<1>2. QED
  BY <1>1, SpecIInv, PTL

(***************************************************************************)
(* A reader fills its own event, with all collections that it selected and *)
(* has handlers for, whatever handlers earlier calls left.                 *)
(***************************************************************************)
THEOREM SpecReadsIntoOwnEvent == Spec => []ReadsIntoOwnEvent
<1>1. Promise => ReadsIntoOwnEvent
  BY DEF Promise
<1>2. QED
  BY <1>1, SpecIInv, PTL

(***************************************************************************)
(* If a collection that is written has one type wherever it comes from, an *)
(* event record holds the collections of the event that is written, each   *)
(* written by the handler of its type.                                     *)
(***************************************************************************)
THEOREM SpecRecordHoldsItsEvent ==
  ASSUME OneTypePerName
  PROVE  Spec => []RecordHoldsItsEvent
<1>1. Promise => RecordHoldsItsEvent
  BY DEF Promise
<1>2. QED
  BY <1>1, SpecIInv, PTL

(***************************************************************************)
(* While readStream goes on the records that it needs are unpacked,        *)
(* whatever its listeners do with other readers.                           *)
(***************************************************************************)
THEOREM SpecStreamUnpacks == Spec => []StreamUnpacks
<1>1. IInv => StreamUnpacks
  BY DEF IInv
<1>2. QED
  BY <1>1, SpecIInv, PTL
=============================================================================
