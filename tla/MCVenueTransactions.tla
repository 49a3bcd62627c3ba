-------------------------- MODULE MCVenueTransactions --------------------------
(* Instances of VenueTransactions for TLC. *)
EXTENDS VenueTransactions, TLC

CONSTANTS o1, o2, first, again, other, cancel, prepare, list1, list2

\* Both orders want one portion of either item; of item 1 there is one.
MCQuantity == [o \in {o1, o2} |-> [i \in 1..2 |-> 1]]
MCSupply == 1 :> 1 @@ 2 :> 2

MCOp == [r \in {first, again, other} |-> "decide"] @@ cancel :> "cancel"
            @@ prepare :> "start-preparing" @@ [r \in {list1, list2} |-> "list"]
MCTarget == [r \in Requests |-> IF r = other THEN o2 ELSE o1]
=============================================================================
