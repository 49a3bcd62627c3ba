------------------------------- MODULE Kitchen -------------------------------
(***************************************************************************)
(* Platform and venue together.  They share no table: the outbox workers   *)
(* of the platform call the venue (venueclient: POST orders, POST cancel)  *)
(* and the callback workers of the venue call the platform                 *)
(* (platformclient: POST events).                                          *)
(*                                                                         *)
(* A request that was sent may be handled at once, later, several times    *)
(* (the caller timed out and asks again, while its first request is still  *)
(* on its way) or never, and its answer may be lost.  An answer that does  *)
(* arrive is the saved decision of the venue, or the 204 of the platform   *)
(* for a recorded event: neither is ever taken back, so the model lets the *)
(* caller read it when it concludes its call.                              *)
(***************************************************************************)
EXTENDS Naturals, Sequences, FiniteSets

CONSTANTS
    Orders, Workers, NoWorker, MaxAttempts, MaxCancels,
    Items, Quantity, Supply, Unlimited, Senders, NoSender

\* What PlatformOrders and VenueOrders assume of these constants.
ASSUME PartsAssumption ==
    /\ NoWorker \notin Workers
    /\ MaxAttempts \in Nat \ {0} /\ MaxCancels \in Nat
    /\ NoSender \notin Senders
    /\ Quantity \in [Orders -> [Items -> Nat]]
    /\ Unlimited \notin Nat /\ Supply \in [Items -> Nat \cup {Unlimited}]

VARIABLES
    orders, history, events, outbox, workers,   \* the platform
    venue, stock, callbacks, senders,           \* the venue
    sent,    \* jobs of the platform whose request may reach the venue
    posted   \* events of the venue whose request may reach the platform

\* The venue gives each event one id, here the key of its row.
V == INSTANCE VenueOrders
P == INSTANCE PlatformOrders WITH EventIds <- V!Callbacks, MaxSequence <- 3

platformVars == <<orders, history, events, outbox, workers>>
venueVars == <<venue, stock, callbacks, senders>>
vars == <<platformVars, venueVars, sent, posted>>

\* The body of the request a callback worker posts.
EventOf(c) == [id |-> c, order |-> c[1], sequence |-> c[2], type |-> callbacks[c].type]

TypeOK ==
    /\ P!TypeOK
    /\ V!TypeOK
    /\ sent \subseteq P!Jobs
    /\ posted \subseteq V!Callbacks

Init == P!Init /\ V!Init /\ sent = {} /\ posted = {}

-----------------------------------------------------------------------------
(* Steps of one side alone *)

\* The customer, the clock, and what the workers do between two calls.
PlatformLocal ==
    /\ \/ \E o \in Orders : P!CreateOrder(o) \/ P!CancelOrder(o) \/ P!DeadlinePasses(o)
       \/ \E j \in P!Jobs : P!LeaseExpires(j) \/ P!BackoffElapses(j)
       \/ \E w \in Workers :
            \/ \E j \in P!Jobs : P!ClaimOutbox(w, j)
            \/ P!ExpireClaimed(w) \/ P!LeaseLost(w) \/ P!Abandon(w)
    /\ UNCHANGED <<venueVars, sent, posted>>

\* The staff of the venue, and its clock.
VenueLocal ==
    /\ \/ \E o \in Orders : V!StartPreparing(o) \/ V!MarkReady(o) \/ V!Complete(o)
       \/ \E c \in V!Callbacks : V!LeaseExpires(c) \/ V!BackoffElapses(c)
       \/ \E s \in Senders : V!RetryCallback(s) \/ V!LoseCallback(s)
    /\ UNCHANGED <<platformVars, sent, posted>>

-----------------------------------------------------------------------------
(* Calls of the platform *)

Dispatch(w) ==
    /\ P!Dispatch(w)
    /\ sent' = sent \cup {workers[w].job}
    /\ UNCHANGED <<venueVars, posted>>

\* The venue handles a request for a decision.
HandleOrder(o) ==
    /\ P!ConfirmJob(o) \in sent
    /\ \E accepting, sameMenu \in BOOLEAN, offered \in SUBSET Items :
            V!DecideOrder(o, accepting, sameMenu, offered)
    /\ UNCHANGED <<platformVars, sent, posted>>

\* The venue handles a request to cancel.
HandleCancel(j) ==
    /\ j \in sent /\ P!IsCancel(j)
    /\ V!CancelOrder(j[1])
    /\ UNCHANGED <<platformVars, sent, posted>>

\* Fault: the reason of the refusal is taken for an acceptance.
DecisionFault(o) == "accepted"

\* The result field of the saved decision.
Decision(o) == IF venue[o].decision = "accepted" THEN "accepted" ELSE "rejected"

\* A worker receives the decision.
ReceiveDecision(w) ==
    LET o == workers[w].job[1]
    IN  /\ workers[w].phase = "calling" /\ ~P!IsCancel(workers[w].job)
        /\ venue[o].status # "absent"
        /\ P!ResolveOutbox(w, Decision(o))
        /\ UNCHANGED <<venueVars, sent, posted>>

\* A worker receives the answer to a cancellation.
ReceiveCancellation(w) ==
    LET o == workers[w].job[1]
    IN  /\ workers[w].phase = "calling" /\ P!IsCancel(workers[w].job)
        /\ venue[o].saved # "none"
        /\ P!ResolveCancellation(w, venue[o].saved)
        /\ UNCHANGED <<venueVars, sent, posted>>

\* The call fails: no answer in time, an error of the venue, or an answer
\* that the client cannot read (which it does not retry).
CallFails(w) ==
    /\ \E retryable, near \in BOOLEAN : P!DeliveryFailed(w, retryable, near)
    /\ UNCHANGED <<venueVars, sent, posted>>

-----------------------------------------------------------------------------
(* Calls of the venue *)

\* A callback worker claims an event and posts it.
Post(s, c) ==
    /\ V!ClaimCallback(s, c)
    /\ posted' = posted \cup {c}
    /\ UNCHANGED <<platformVars, sent>>

\* The platform handles an event that it has not recorded.
HandleEvent(c) ==
    /\ c \in posted
    /\ P!RecordOrderEvent(EventOf(c))
    /\ UNCHANGED <<venueVars, sent, posted>>

\* Fault: any answer of the platform counts as delivered.
DeliveredFault(c) == c \in posted

\* The platform answers 204 to an event that it has recorded, now or before.
Delivered(c) == EventOf(c) \in events

ReceiveDelivered(s) ==
    /\ senders[s] # V!Idle /\ Delivered(senders[s].job)
    /\ V!CompleteCallback(s)
    /\ UNCHANGED <<platformVars, sent, posted>>

-----------------------------------------------------------------------------
Next ==
    \/ PlatformLocal
    \/ VenueLocal
    \/ \E w \in Workers :
        Dispatch(w) \/ ReceiveDecision(w) \/ ReceiveCancellation(w) \/ CallFails(w)
    \/ \E o \in Orders : HandleOrder(o)
    \/ \E j \in P!Jobs : HandleCancel(j)
    \/ \E s \in Senders : ReceiveDelivered(s) \/ \E c \in V!Callbacks : Post(s, c)
    \/ \E c \in V!Callbacks : HandleEvent(c)

Spec == Init /\ [][Next]_vars

-----------------------------------------------------------------------------
(* Safety *)

Working == {"accepted", "preparing", "ready", "completed"}

\* How far the staff has brought an order.
Progress == [accepted |-> 0, preparing |-> 1, ready |-> 2, completed |-> 3]

\* The platform never claims more than the venue did: an order it shows as
\* accepted or further is at the venue at least as far, or was cancelled there
\* while it was accepted here, a rejected one was rejected,
\* a cancelled one was cancelled by the venue or never reached it, and a
\* cancellation shown as rejected lost to the start of the preparation.
PlatformTellsTruth ==
    \A o \in Orders :
        /\ orders[o].status \in Working =>
                \/ /\ venue[o].status \in Working
                   /\ Progress[orders[o].status] <= Progress[venue[o].status]
                \/ orders[o].status = "accepted" /\ venue[o].status = "cancelled"
        /\ orders[o].status = "rejected" => venue[o].status = "rejected"
        /\ orders[o].status = "cancelled" => venue[o].status \in {"cancelled", "absent"}
        /\ orders[o].cancellation = "rejected" =>
                /\ venue[o].saved = "rejected"
                /\ venue[o].status \in {"preparing", "ready", "completed"}

\* "Cancelled before dispatch" holds on the other side as well: a withdrawn
\* order was never sent, so the venue will not cook it.
WithdrawnNeverSent ==
    \A o \in Orders :
        history[o] = <<"pending_confirmation", "cancelled">>
            => P!ConfirmJob(o) \notin sent /\ venue[o].status = "absent"

\* Once every event of an order is delivered the two databases agree about
\* it, but for an order that the platform let expire or still waits for.
AgreeWhenDelivered ==
    \A o \in Orders :
        LET settled == \A n \in 1..3 : callbacks[<<o, n>>].state # "queued"
        IN  settled /\ orders[o].status \in Working => orders[o].status = venue[o].status

\* An event is marked as delivered only when the platform has recorded it, so
\* a lost answer or a lost lease repeats a delivery and never skips one.
NoEventLost ==
    \A c \in V!Callbacks :
        callbacks[c].state = "processed" => EventOf(c) \in events

\* The first undelivered event of an order is never refused for good: the
\* platform has recorded it, or can record it now, or still waits for the
\* decision; only an order that it let expire, although the venue had accepted
\* it, refuses its events for ever (CallbackWorker has no last attempt).
OnlyExpiredRefuses ==
    \A c \in V!Callbacks :
        callbacks[c].state = "queued" /\ V!NextInLine(c) =>
            LET order == orders[c[1]]
            IN  \/ Delivered(c)
                \/ order.status \in {"pending_confirmation", "confirmation_expired"}
                \/ /\ c[2] = order.sequence + 1
                   /\ P!EventTransition(order.status, callbacks[c].type) # "absent"

\* The two state columns of the platform move as module OrderLifecycle
\* promises, whatever the network and the workers do.
Lifecycle == INSTANCE OrderLifecycle WITH
    status <- [o \in Orders |-> orders[o].status],
    cancellation <- [o \in Orders |-> orders[o].cancellation]

ImplementsLifecycle == Lifecycle!Spec

\* The table of docs/decisions/order-state-machine.md (lines 50-56) and the
\* local cancellation of a pending order (lines 58-59): no other change of
\* cancellation_status.  RecordOrderEvent makes one more: the order_cancelled
\* event of a venue confirms a cancellation that had failed.
CancellationTable ==
    [][\A o \in Orders :
        orders'[o].cancellation # orders[o].cancellation =>
            <<orders[o].cancellation, orders'[o].cancellation>> \in
                {<<"none", "requested">>, <<"requested", "confirmed">>,
                 <<"requested", "rejected">>, <<"requested", "failed">>,
                 <<"failed", "requested">>, <<"none", "confirmed">>}]_vars

-----------------------------------------------------------------------------
(* Liveness *)

\* Both sets of workers poll for ever, a call ends, and neither the network
\* nor a crash wins for ever: of the calls made again and again one gets
\* through, and one of its answers arrives while the lease is held.  At most
\* one job and one callback of an order can be claimed at a time, so fairness
\* for each order is fairness for each row.
OnLease(w, o) == \E k \in 0..MaxCancels : P!OnLease(w, <<o, k>>)

PlatformFairness(o) ==
    /\ WF_vars(PlatformLocal /\ \E k \in 0..MaxCancels :
            P!LeaseExpires(<<o, k>>) \/ P!BackoffElapses(<<o, k>>))
    /\ SF_vars(PlatformLocal /\ \E w \in Workers, k \in 0..MaxCancels :
            P!ClaimOutbox(w, <<o, k>>))
    /\ SF_vars(\E w \in Workers : OnLease(w, o) /\ Dispatch(w))
    /\ SF_vars(\E w \in Workers : OnLease(w, o) /\
            (ReceiveDecision(w) \/ ReceiveCancellation(w) \/ CallFails(w)
                \/ (PlatformLocal /\ P!ExpireClaimed(w))))

VenueFairness(o) ==
    /\ WF_vars(VenueLocal /\ \E n \in 1..3 :
            V!LeaseExpires(<<o, n>>) \/ V!BackoffElapses(<<o, n>>))
    /\ SF_vars(\E s \in Senders, n \in 1..3 : Post(s, <<o, n>>))
    /\ WF_vars(\E n \in 1..3 : HandleEvent(<<o, n>>))
    /\ SF_vars(\E s \in Senders :
            senders[s] # V!Idle /\ senders[s].job[1] = o /\ ReceiveDelivered(s))

FairSpec ==
    /\ Spec
    /\ \A o \in Orders : PlatformFairness(o) /\ VenueFairness(o)
    /\ \A w \in Workers : WF_vars(Dispatch(w) \/ (PlatformLocal /\ P!LeaseLost(w)))
    /\ \A s \in Senders : WF_vars(VenueLocal /\ (V!RetryCallback(s) \/ V!LoseCallback(s)))

\* Every event of the venue is delivered at last, in spite of early, repeated
\* and reordered calls; only an order that the platform let expire refuses its
\* events, for ever (CallbackWorker has no last attempt).
EventsDelivered ==
    \A c \in V!Callbacks : callbacks[c].state = "queued"
        ~> callbacks[c].state = "processed"
            \/ orders[c[1]].status = "confirmation_expired"

\* A cancellation at the venue reaches the customer, even when the platform
\* gave up asking for it.
CancellationsReported ==
    \A o \in Orders :
        venue[o].status = "cancelled" ~> orders[o].status = "cancelled"
=============================================================================
