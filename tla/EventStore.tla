----------------------------- MODULE EventStore -----------------------------
(***************************************************************************)
(* What an LCIO file promises to a client that writes it in sessions and   *)
(* reads it by direct access, without positions, records or pointers: a    *)
(* store of run headers and events in which a session commits everything   *)
(* it wrote when it is closed, and takes nothing away.                     *)
(*                                                                         *)
(* What a session wrote is identified by the number of the session.  A     *)
(* writer that dies may leave less to be found, and what earlier crashes   *)
(* hid may turn up again, but nothing is ever found that was not written   *)
(* under that key.                                                         *)
(***************************************************************************)
EXTENDS Naturals

CONSTANT StoreKeys     \* run headers and events

VARIABLES open,        \* a session is under way
          epoch,       \* its number, or that of the last one
          written,     \* key -> session: what the file and its writer hold
          stored       \* key -> session: what direct access finds

storeVars == <<open, epoch, written, stored>>

Nothing == [k \in {} |-> 0]
SubFunctions(f) == {[k \in S |-> f[k]] : S \in SUBSET DOMAIN f}
OfSession(n) == {k \in DOMAIN written : written[k] = n}

StoreInit == ~open /\ epoch = 0 /\ written = Nothing /\ stored = Nothing

Begin == ~open /\ open' /\ epoch' = epoch + 1
End   == open /\ ~open' /\ UNCHANGED epoch

Create == Begin /\ written' = Nothing /\ stored' = Nothing
Append == Begin /\ UNCHANGED <<written, stored>>

Put(k) ==
  /\ open /\ k \notin DOMAIN written
  /\ written' = [x \in DOMAIN written \cup {k} |->
                   IF x = k THEN epoch ELSE written[x]]
  /\ UNCHANGED <<open, epoch, stored>>

Commit ==
  /\ End
  /\ stored' = [k \in DOMAIN stored \cup OfSession(epoch) |->
                  IF k \in OfSession(epoch) THEN epoch ELSE stored[k]]
  /\ UNCHANGED written

Die ==
  /\ End
  /\ written' \in SubFunctions(written)
  /\ stored' \in SubFunctions(written')

StoreNext == Create \/ Append \/ (\E k \in StoreKeys : Put(k)) \/ Commit \/ Die

StoreSpec == StoreInit /\ [][StoreNext]_storeVars
=============================================================================
