-------------------------------- MODULE MCCascade ---------------------------------
(***************************************************************************)
(* Constants for model checking Cascade: two orders with three items, an   *)
(* unused order and an unused item; bodies with up to two entries, one   *)
(* for each kind of entry and for each way in which an entry may depend on *)
(* the one before.                                                         *)
(***************************************************************************)
EXTENDS Cascade, TLC

CONSTANTS w1, w2, o1, o2, o3

Row(o, q) == [stored |-> TRUE, order |-> o, quantity |-> q]

MCInitialItems ==
    1 :> Row(o1, 1) @@ 2 :> Row(o1, 1) @@ 3 :> Row(o2, 1) @@ 4 :> Unused

Relation(i) == [kind |-> "relate", uid |-> i, quantity |-> NotLoaded]
Insertion(q) == [kind |-> "insert", uid |-> New, quantity |-> q]
Change(i, q) == [kind |-> "update", uid |-> i, quantity |-> q]

Body(entries) == [named |-> TRUE, entries |-> entries]

MCBodies ==
    { [named |-> FALSE, entries |-> <<>>],
      Body(<<>>),
      Body(<<Change(1, 2), Insertion(1)>>),
      Body(<<Relation(1), Change(1, 2)>>),
      Body(<<Relation(3), Change(3, 2)>>),
      Body(<<Insertion(2), Change(3, 2)>>),
      Body(<<Relation(2), Relation(3)>>),
      Body(<<Relation(4)>>) }

Symmetric == Permutations(Workers)
================================================================================
