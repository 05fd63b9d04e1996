---------------------------- MODULE MCRelocation ----------------------------
(***************************************************************************)
(* An instance of PointerRelocation: two objects and null, two blocks;     *)
(* pointers forward and backward, to nothing and to objects that are not   *)
(* stored, an object that is in two blocks, and one that nothing points    *)
(* to.                                                                     *)
(***************************************************************************)
EXTENDS PointerRelocation

At_(b, o) == [blk |-> b, kind |-> "at", obj |-> o]
To_(b, o) == [blk |-> b, kind |-> "to", obj |-> o]

MCContents ==
          {<<At_("A", 1), To_("B", 1)>>,
           <<At_("A", 1), To_("A", 2), To_("A", NULL), At_("B", 2), To_("B", 1)>>,
           <<To_("A", 2), At_("A", 1), To_("B", 1), At_("B", 2), At_("B", 1)>>,
           <<To_("A", 1), To_("A", 2), To_("A", 3), At_("B", 3), At_("B", 1)>>}
MCWanted == {{"A", "B"}, {"B"}}
=============================================================================
