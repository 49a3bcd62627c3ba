------------------------------ MODULE MCKitchen ------------------------------
(* Instances of Kitchen for TLC. *)
EXTENDS Kitchen, TLC

\* Every order takes the only unit of every item.
MCQuantity == [o \in Orders |-> [i \in Items |-> 1]]
MCSupply == [i \in Items |-> 1]

Symmetry == Permutations(Workers) \cup Permutations(Senders)
=============================================================================
