---------------------------- MODULE MCVenueOrders ----------------------------
(* Instances of VenueOrders for TLC. *)
EXTENDS VenueOrders, TLC

CONSTANTS o1, o2, soup, bread

\* Two orders that compete for two of three portions of soup each; bread is
\* not counted.
MCQuantity == (o1 :> (soup :> 2 @@ bread :> 1)) @@ (o2 :> (soup :> 2 @@ bread :> 0))
MCSupply == soup :> 3 @@ bread :> Unlimited

Symmetry == Permutations(Senders)
=============================================================================
