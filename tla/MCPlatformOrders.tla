-------------------------- MODULE MCPlatformOrders --------------------------
(* Instances of PlatformOrders for TLC. *)
EXTENDS PlatformOrders, TLC

\* Orders, workers and event ids are interchangeable.
Symmetry == Permutations(Orders) \cup Permutations(Workers)
                \cup Permutations(EventIds)

\* The steps of Next that a confirmation takes far from every deadline: none
\* passes, and no backoff reaches past one.
FarNext ==
    \/ \E o \in Orders : CreateOrder(o)
    \/ \E j \in Jobs : BackoffElapses(j) \/ \E w \in Workers : ClaimOutbox(w, j)
    \/ \E w \in Workers :
        Dispatch(w) \/ \E retryable \in BOOLEAN : DeliveryFailed(w, retryable, FALSE)

FarSpec == Init /\ [][FarNext]_vars
=============================================================================
