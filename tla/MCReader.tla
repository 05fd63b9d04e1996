------------------------------ MODULE MCReader ------------------------------
(***************************************************************************)
(* An instance of SIOReader: three files.  A run goes on in the file after *)
(* the one with its header, runs use the same event numbers, and one file  *)
(* ends in the middle of an event, in a torn run header, in bytes that are *)
(* no record, or is empty.                                                 *)
(***************************************************************************)
EXTENDS SIOReader

CONSTANTS a, b, d

Rec(kind, r, e) == [kind |-> kind, key |-> [RunNum |-> r, EvtNum |-> e], ok |-> TRUE]
Run(r) == <<Rec("run", r, -1)>>
Evt(r, e) == <<Rec("hdr", r, e), Rec("evt", r, e)>>
Toc == <<Rec("toc", 0, 0)>>
TornRec(kind, r, e) == <<[Rec(kind, r, e) EXCEPT !.ok = FALSE]>>

MCFiles == {a, b, d}
MCTails == {Toc, << >>, TornRec("run", 2, -1), TornRec("junk", 0, 0),
            <<Rec("hdr", 2, 0)>> \o TornRec("evt", 2, 0)}
MCContents ==
  {[f \in MCFiles |->
      CASE f = a -> Run(1) \o Evt(1, 0) \o Evt(1, 1) \o Toc
        [] f = b -> Evt(1, 2) \o Run(2) \o Evt(2, 1)
        [] f = d -> head \o tail] : head \in {<< >>, Run(3) \o Evt(3, 1)}, tail \in MCTails}
MCLists == {<<a, b, d>>, <<b, d>>, <<a, a>>}
MCAsked == {RunKey(2), EvtKey(1, 1), EvtKey(2, 1), EvtKey(3, 1)}
MCListeners == {1, 2}

\* For readStream: a file that ends well or in a torn record, alone or in front of another.
StreamContents == {c \in MCContents : Len(c[d]) \in {3, 4} /\ Last(c[d]).kind \in {"evt", "run"}}
StreamLists == {<<d, b>>}
Nobody == {}
=============================================================================
