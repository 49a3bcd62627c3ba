--------------------------- MODULE PlatformOrders ---------------------------
(***************************************************************************)
(* The order aggregate of the platform service and the outbox that drives  *)
(* it: internal/platform/repository/{orders,outbox,events}.go and the       *)
(* workers of internal/platform/service/outbox.go.                         *)
(*                                                                         *)
(* Every action is one committed transaction (with the step of the worker  *)
(* that ran it), one step of a worker between transactions, or the passing *)
(* of time.  A call that returns before it writes (an unknown order, an    *)
(* exact repeat, a conflict, a lease that another worker holds) leaves the *)
(* tables as they are and is a stuttering step.                            *)
(*                                                                         *)
(* The venue on the other side of the HTTP calls is not described here: a  *)
(* call may get any decision the client accepts, or fail.  Module Kitchen  *)
(* puts the real venue there.                                              *)
(***************************************************************************)
EXTENDS Naturals, Sequences, FiniteSets

CONSTANTS
    Orders,       \* ids that a checkout may give to an order
    Workers,      \* goroutines started by OutboxWorker.Run
    NoWorker,     \* a lock_token that is NULL
    MaxAttempts,  \* OutboxConfig.MaxAttempts
    MaxCancels,   \* bound: cancellation commands one order may enqueue
    EventIds,     \* ids of the events a venue may report
    MaxSequence   \* bound: sequence numbers a venue may report

ASSUME WorkersAssumption == NoWorker \notin Workers
ASSUME AttemptsAssumption == MaxAttempts \in Nat \ {0}
ASSUME BoundsAssumption == MaxCancels \in Nat /\ MaxSequence \in Nat

VARIABLES
    orders,   \* orders: status, cancellation_status, venue_event_sequence
              \* and whether confirmation_deadline has passed
    history,  \* order_status_history: the statuses of an order, oldest first
    events,   \* partner_order_events
    outbox,   \* outbox: the confirm_order row and the cancel_order rows
    workers   \* what each outbox worker is doing

vars == <<orders, history, events, outbox, workers>>

-----------------------------------------------------------------------------
(* Rows and their types *)

Status == {"absent", "pending_confirmation", "accepted", "rejected",
           "confirmation_expired", "preparing", "ready", "completed",
           "cancelled"}

CancellationStatus == {"none", "requested", "confirmed", "rejected", "failed"}

Decisions == {"accepted", "rejected"}
CancellationDecisions == {"cancelled", "rejected"}

EventTypes == {"order_preparing", "order_ready", "order_completed",
               "order_cancelled"}

Event == [id: EventIds, order: Orders, sequence: 1..MaxSequence,
          type: EventTypes]

Order == [status: Status, cancellation: CancellationStatus,
          sequence: 0..MaxSequence, late: BOOLEAN]

NoOrder == [status |-> "absent", cancellation |-> "none", sequence |-> 0,
            late |-> FALSE]

\* Row <<o, 0>> is the confirm_order job of o, row <<o, k>> its k-th
\* cancel_order job.
Jobs == Orders \X (0..MaxCancels)
ConfirmJob(o) == <<o, 0>>
IsCancel(j) == j[2] > 0

\* A worker holds one claim at a time, so the fresh lock_token of a claim is
\* told apart from every other unresolved claim by the worker that drew it.
\* "leased" is locked_until in the future, "due" is available_at in the past.
\* attempts saturates at MaxAttempts: the code compares it with 0 and with
\* MaxAttempts only.
Row == [state: {"absent", "queued", "processed"}, attempts: 0..MaxAttempts,
        token: Workers \cup {NoWorker}, leased: BOOLEAN, due: BOOLEAN]

NoRow == [state |-> "absent", attempts |-> 0, token |-> NoWorker,
          leased |-> FALSE, due |-> TRUE]
FreshRow == [NoRow EXCEPT !.state = "queued"]

Idle == [phase |-> "idle"]
Claim == [phase: {"claimed", "calling"}, job: Jobs, attempts: 0..MaxAttempts]

TypeOK ==
    /\ orders \in [Orders -> Order]
    /\ history \in [Orders -> Seq(Status)]
    /\ events \subseteq Event
    /\ outbox \in [Jobs -> Row]
    /\ workers \in [Workers -> {Idle} \cup Claim]

Init ==
    /\ orders = [o \in Orders |-> NoOrder]
    /\ history = [o \in Orders |-> <<>>]
    /\ events = {}
    /\ outbox = [j \in Jobs |-> NoRow]
    /\ workers = [w \in Workers |-> Idle]

-----------------------------------------------------------------------------
(* Statements the transactions share *)

\* UPDATE orders SET status, cancellation_status with the history row that
\* every transaction which changes the status inserts.
Enter(o, status, cancellation) ==
    /\ orders' = [orders EXCEPT ![o].status = status,
                                ![o].cancellation = cancellation]
    /\ history' = [history EXCEPT ![o] = Append(@, status)]

\* UPDATE outbox SET processed_at=now(), locked_until=NULL, lock_token=NULL.
Close(j) == outbox' = [outbox EXCEPT ![j].state = "processed",
                                     ![j].token = NoWorker,
                                     ![j].leased = FALSE]

\* WHERE id=$1 AND lock_token=$2 AND processed_at IS NULL: the fence that
\* every write of a worker passes, or the call returns ErrOutboxLeaseLost.
HoldsLease(w) ==
    LET row == outbox[workers[w].job]
    IN  row.state = "queued" /\ row.token = w

\* Fault: any unprocessed row may be withdrawn.
UnprocessedFault(row) == row.state = "queued"

\* Fault: attempts is not looked at.
NotDispatchedFault(row) == row.state = "queued" /\ row.token = NoWorker

\* The confirm_order row that CancelOrder may still withdraw.
NotDispatched(row) ==
    row.state = "queued" /\ row.attempts = 0 /\ row.token = NoWorker

\* Fault: a cancellation is only delivered while the order is accepted.
ClaimableFault(j) ==
    LET row == outbox[j]
        order == orders[j[1]]
    IN  /\ row.state = "queued" /\ row.due /\ ~row.leased
        /\ IF IsCancel(j)
           THEN order.cancellation = "requested" /\ order.status = "accepted"
           ELSE order.status = "pending_confirmation"

\* The WHERE clause of ClaimOutbox.
Claimable(j) ==
    LET row == outbox[j]
        order == orders[j[1]]
    IN  /\ row.state = "queued" /\ row.due /\ ~row.leased
        /\ IF IsCancel(j) THEN order.cancellation = "requested"
                          ELSE order.status = "pending_confirmation"

\* Fault: a misspelt target.
TransitionSpellingFault(status, type) ==
    IF status = "accepted" /\ type = "order_preparing" THEN "prepairing"
    ELSE "absent"

\* Fault: a venue that prepares an expired order brings it back.
TransitionRevivalFault(status, type) ==
    IF status \in {"accepted", "confirmation_expired"} /\ type = "order_preparing"
    THEN "preparing" ELSE "absent"

\* Fault: the event that tells what the answer of the venue told before it is
\* refused.
TransitionForgetfulFault(status, type) ==
    CASE status = "accepted" /\ type = "order_preparing" -> "preparing"
      [] status = "preparing" /\ type = "order_ready" -> "ready"
      [] status = "ready" /\ type = "order_completed" -> "completed"
      [] status \in {"accepted", "preparing"} /\ type = "order_cancelled" -> "cancelled"
      [] OTHER -> "absent"

\* eventTransition: the status an event leads to; an event it refuses has none.
EventTransition(status, type) ==
    CASE status = "accepted" /\ type = "order_preparing" -> "preparing"
      [] status = "preparing" /\ type = "order_ready" -> "ready"
      [] status = "ready" /\ type = "order_completed" -> "completed"
      [] status \in {"accepted", "preparing", "cancelled"}
            /\ type = "order_cancelled" -> "cancelled"
      [] OTHER -> "absent"

\* Fault: a gap is accepted.
NextEventGapFault(e) ==
    /\ \A d \in events : d.id # e.id
    /\ e.sequence > orders[e.order].sequence

\* Fault: the events of the venue are numbered, not those of the order.
NextEventVenueFault(e) ==
    /\ \A d \in events : d.id # e.id
    /\ e.sequence = Cardinality(events) + 1

\* A new event with the next number: neither a repeat, nor a conflict with a
\* recorded id, nor a gap.  The keys of partner_order_events (event_id, and
\* order_id with sequence) would refuse such an insert too; they are not
\* modelled, and EventsGapless says that nothing relies on them.
NextEvent(e) ==
    /\ \A d \in events : d.id # e.id
    /\ e.sequence = orders[e.order].sequence + 1

\* Fault: the flag of the cancellation is left alone.
CancellationAfterFault(type, cancellation) == cancellation

\* COALESCE($4, cancellation_status) of RecordOrderEvent.
CancellationAfter(type, cancellation) ==
    IF type = "order_cancelled" THEN "confirmed" ELSE cancellation

\* Fault: the cancel_order jobs stay in the queue.
CancelsClosedFault(o) == outbox

\* Fault: the jobs of every order are closed.
CancelsClosedAllFault(o) ==
    [j \in Jobs |->
        IF IsCancel(j) /\ outbox[j].state = "queued"
        THEN [outbox[j] EXCEPT !.state = "processed", !.token = NoWorker,
                               !.leased = FALSE]
        ELSE outbox[j]]

\* The cancel_order jobs of an order after its order_cancelled event.
CancelsClosed(o) ==
    [j \in Jobs |->
        IF j[1] = o /\ IsCancel(j) /\ outbox[j].state = "queued"
        THEN [outbox[j] EXCEPT !.state = "processed", !.token = NoWorker,
                               !.leased = FALSE]
        ELSE outbox[j]]

\* Fault: the callback always adds a row.
HistoryAfterFault(o, target) == [history EXCEPT ![o] = Append(@, target)]

\* The history after an event: an event that confirms what was recorded
\* before it adds no row.
HistoryAfter(o, target) ==
    IF target = orders[o].status THEN history
    ELSE [history EXCEPT ![o] = Append(@, target)]

-----------------------------------------------------------------------------
(* Requests of the customer and of the venue *)

\* CreateOrder: the order, its history and its confirm_order job.
CreateOrder(o) ==
    /\ orders[o].status = "absent"
    /\ Enter(o, "pending_confirmation", "none")
    /\ outbox' = [outbox EXCEPT ![ConfirmJob(o)] = FreshRow]
    /\ UNCHANGED <<events, workers>>

\* CancelOrder of an order whose confirmation no worker ever claimed.
CancelBeforeDispatch(o) ==
    /\ orders[o].status = "pending_confirmation"
    /\ orders[o].cancellation \notin {"requested", "rejected"}
    /\ NotDispatched(outbox[ConfirmJob(o)])
    /\ Enter(o, "cancelled", "confirmed")
    /\ Close(ConfirmJob(o))
    /\ UNCHANGED <<events, workers>>

\* CancelOrder of an accepted order: k is the id of the new cancel_order row.
RequestCancellation(o, k) ==
    /\ orders[o].status = "accepted"
    /\ orders[o].cancellation \in {"none", "failed"}
    /\ outbox[<<o, k>>].state = "absent"
    /\ \A i \in 1..(k - 1) : outbox[<<o, i>>].state # "absent"
    /\ orders' = [orders EXCEPT ![o].cancellation = "requested"]
    /\ outbox' = [outbox EXCEPT ![<<o, k>>] = FreshRow]
    /\ UNCHANGED <<history, events, workers>>

CancelOrder(o) ==
    \/ CancelBeforeDispatch(o)
    \/ \E k \in 1..MaxCancels : RequestCancellation(o, k)

\* RecordOrderEvent: a callback of the venue that is not a repeat.
RecordOrderEvent(e) ==
    LET o == e.order
        target == EventTransition(orders[o].status, e.type)
    IN  /\ NextEvent(e)
        /\ target # "absent"
        /\ events' = events \cup {e}
        /\ orders' = [orders EXCEPT
                ![o].status = target,
                ![o].sequence = e.sequence,
                ![o].cancellation = CancellationAfter(e.type, @)]
        /\ outbox' = IF e.type = "order_cancelled" THEN CancelsClosed(o) ELSE outbox
        /\ history' = HistoryAfter(o, target)
        /\ UNCHANGED workers

-----------------------------------------------------------------------------
(* The outbox workers *)

\* ClaimOutbox.
ClaimOutbox(w, j) ==
    /\ workers[w] = Idle
    /\ Claimable(j)
    /\ LET attempts == IF outbox[j].attempts < MaxAttempts
                       THEN outbox[j].attempts + 1 ELSE MaxAttempts
       IN  /\ outbox' = [outbox EXCEPT ![j].leased = TRUE, ![j].token = w,
                                       ![j].attempts = attempts]
           /\ workers' = [workers EXCEPT ![w] =
                [phase |-> "claimed", job |-> j, attempts |-> attempts]]
    /\ UNCHANGED <<orders, history, events>>

\* The check of the deadline in processOne, on the row read by the claim.
Late(w) ==
    LET j == workers[w].job IN ~IsCancel(j) /\ orders[j[1]].late

\* processOne calls the venue.
Dispatch(w) ==
    /\ workers[w].phase = "claimed"
    /\ ~Late(w)
    /\ workers' = [workers EXCEPT ![w].phase = "calling"]
    /\ UNCHANGED <<orders, history, events, outbox>>

\* The transactions below end the job of the worker, which becomes idle.
Finish(w) ==
    /\ workers' = [workers EXCEPT ![w] = Idle]
    /\ UNCHANGED events

\* ResolveOutbox: the venue answered Decide.
ResolveOutbox(w, decision) ==
    LET j == workers[w].job
        o == j[1]
    IN  /\ workers[w].phase = "calling"
        /\ ~IsCancel(j)
        /\ HoldsLease(w)
        /\ Close(j)
        /\ IF orders[o].status = "pending_confirmation"
           THEN Enter(o, decision, orders[o].cancellation)
           ELSE UNCHANGED <<orders, history>>
        /\ Finish(w)

\* ResolveCancellation: the venue answered Cancel.
ResolveCancellation(w, decision) ==
    LET j == workers[w].job
        o == j[1]
    IN  /\ workers[w].phase = "calling"
        /\ IsCancel(j)
        /\ HoldsLease(w)
        /\ Close(j)
        /\ CASE orders[o].cancellation # "requested" ->
                    UNCHANGED <<orders, history>>
             [] orders[o].cancellation = "requested" /\ decision = "cancelled" ->
                    Enter(o, "cancelled", "confirmed")
             [] OTHER ->
                    /\ orders' = [orders EXCEPT ![o].cancellation = "rejected"]
                    /\ UNCHANGED history
        /\ Finish(w)

\* RetryOutbox with terminal = FALSE.
Reschedule(w) ==
    /\ HoldsLease(w)
    /\ outbox' = [outbox EXCEPT ![workers[w].job].due = FALSE,
                                ![workers[w].job].token = NoWorker,
                                ![workers[w].job].leased = FALSE]
    /\ UNCHANGED <<orders, history>>
    /\ Finish(w)

\* RetryOutbox with terminal = TRUE.
GiveUp(w) ==
    LET j == workers[w].job
        o == j[1]
    IN  /\ HoldsLease(w)
        /\ Close(j)
        /\ CASE IsCancel(j) ->
                    /\ orders' = [orders EXCEPT ![o].cancellation =
                                    IF @ = "requested" THEN "failed" ELSE @]
                    /\ UNCHANGED history
             [] ~IsCancel(j) /\ orders[o].status = "pending_confirmation" ->
                    Enter(o, "confirmation_expired", orders[o].cancellation)
             [] OTHER -> UNCHANGED <<orders, history>>
        /\ Finish(w)

\* processOne finds the deadline passed and does not call the venue.
ExpireClaimed(w) ==
    /\ workers[w].phase = "claimed"
    /\ Late(w)
    /\ GiveUp(w)

\* Fault: the attempts are not counted.
TerminalFault(w, retryable, near) ==
    ~retryable \/ (~IsCancel(workers[w].job) /\ (near \/ Late(w)))

\* A failure is retried only if it may be, attempts are left and the backoff
\* ends before the deadline (which may be near).
Terminal(w, retryable, near) ==
    \/ ~retryable
    \/ workers[w].attempts >= MaxAttempts
    \/ ~IsCancel(workers[w].job) /\ (near \/ Late(w))

\* The call failed, or its answer made no sense.
DeliveryFailed(w, retryable, near) ==
    /\ workers[w].phase = "calling"
    /\ IF Terminal(w, retryable, near) THEN GiveUp(w) ELSE Reschedule(w)

\* ErrOutboxLeaseLost: the transaction is rolled back, the result dropped.
LeaseLost(w) ==
    /\ \/ workers[w].phase = "calling"
       \/ (workers[w].phase = "claimed" /\ Late(w))
    /\ ~HoldsLease(w)
    /\ UNCHANGED <<orders, history, outbox>>
    /\ Finish(w)

\* The worker is gone without a trace in the tables: the process crashed and
\* was restarted, or a statement of the claim or of the result failed.
Abandon(w) ==
    /\ workers[w] # Idle
    /\ UNCHANGED <<orders, history, outbox>>
    /\ Finish(w)

-----------------------------------------------------------------------------
(* The clock of the database *)

LeaseExpires(j) ==
    /\ outbox[j].leased
    /\ outbox' = [outbox EXCEPT ![j].leased = FALSE]
    /\ UNCHANGED <<orders, history, events, workers>>

BackoffElapses(j) ==
    /\ ~outbox[j].due
    /\ outbox' = [outbox EXCEPT ![j].due = TRUE]
    /\ UNCHANGED <<orders, history, events, workers>>

DeadlinePasses(o) ==
    /\ orders[o].status # "absent" /\ ~orders[o].late
    /\ orders' = [orders EXCEPT ![o].late = TRUE]
    /\ UNCHANGED <<history, events, outbox, workers>>

-----------------------------------------------------------------------------
\* One answer, failure or other end of the call a worker made.
Conclude(w) ==
    \/ \E d \in Decisions : ResolveOutbox(w, d)
    \/ \E d \in CancellationDecisions : ResolveCancellation(w, d)
    \/ \E retryable, near \in BOOLEAN : DeliveryFailed(w, retryable, near)

Next ==
    \/ \E o \in Orders : CreateOrder(o) \/ CancelOrder(o) \/ DeadlinePasses(o)
    \/ \E e \in Event : RecordOrderEvent(e)
    \/ \E j \in Jobs : LeaseExpires(j) \/ BackoffElapses(j)
    \/ \E w \in Workers :
        \/ \E j \in Jobs : ClaimOutbox(w, j)
        \/ Dispatch(w) \/ ExpireClaimed(w)
        \/ Conclude(w) \/ LeaseLost(w) \/ Abandon(w)

Spec == Init /\ [][Next]_vars

-----------------------------------------------------------------------------
(* Safety *)

QueuedCancels(o) ==
    {k \in 1..MaxCancels : outbox[<<o, k>>].state = "queued"}

\* No order waits without a job that will move it, and no job outlives the
\* wait it serves: an order is pending exactly while its confirm_order row is
\* unprocessed, and a cancellation is requested exactly while one cancel_order
\* row is.  CancelOrder, ResolveOutbox, ResolveCancellation, RetryOutbox and
\* RecordOrderEvent each change both tables, in any order of two workers and a
\* callback.
JobsMatchOrders ==
    \A o \in Orders :
        /\ outbox[ConfirmJob(o)].state = "queued"
                <=> orders[o].status = "pending_confirmation"
        /\ orders[o].cancellation = "requested" <=> QueuedCancels(o) # {}
        /\ \A i, k \in QueuedCancels(o) : i = k

\* The two state columns agree: an order is cancelled exactly when its
\* cancellation is confirmed, whichever of the four writers got there first
\* (CancelOrder, ResolveCancellation and RecordOrderEvent set the one or the
\* other), and a cancellation only runs for an order the venue accepted.
CancelledIffConfirmed ==
    \A o \in Orders :
        /\ orders[o].status = "cancelled" <=> orders[o].cancellation = "confirmed"
        /\ orders[o].cancellation \in {"requested", "rejected", "failed"}
                => orders[o].status \in {"accepted", "preparing", "ready", "completed"}

\* order_status_history tells the truth: its last row is the status the order
\* has, and no status follows itself, although a cancellation is recorded by
\* two writers (ResolveCancellation and the order_cancelled callback).
HistoryMatchesStatus ==
    \A o \in Orders :
        LET h == history[o]
        IN  /\ orders[o].status = IF h = <<>> THEN "absent" ELSE h[Len(h)]
            /\ \A i \in 1..(Len(h) - 1) : h[i] # h[i + 1]

\* partner_order_events of an order are numbered 1..venue_event_sequence
\* without a gap or a repeat, whatever the venue resends or reorders.
EventsGapless ==
    /\ \A o \in Orders :
        {e.sequence : e \in {d \in events : d.order = o}} = 1..orders[o].sequence
    /\ \A d, e \in events :
        d.id = e.id \/ (d.order = e.order /\ d.sequence = e.sequence) => d = e

\* "Cancelled before dispatch" is true: once CancelOrder has withdrawn the
\* confirmation (the only way from pending straight to cancelled), no worker
\* holds that job, nor will call the venue with it.
WithdrawnNeverDispatched ==
    \A o \in Orders :
        history[o] = <<"pending_confirmation", "cancelled">>
            => \A w \in Workers :
                workers[w] # Idle => workers[w].job # ConfirmJob(o)

\* A late answer never changes an order that is rejected, expired or
\* cancelled (docs/decisions/order-state-machine.md: "Поздний HTTP-ответ не
\* меняет terminal-заказ"), nor does a late callback or a repeated request.
FinalOutcomesStick ==
    [][\A o \in Orders :
        orders[o].status \in {"rejected", "confirmation_expired", "cancelled"}
            => orders'[o].status = orders[o].status]_vars

\* A confirmation expires at its deadline
\* (docs/decisions/order-state-machine.md:17) or at the limit of retries
\* (docs/decisions/architecture-tradeoffs.md:51-53).  processOne also gives up
\* on the first error that is not retryable (service/outbox.go:113), and
\* RetryOutbox stores the reason "confirmation deadline exceeded" for it.
ExpiredAtDeadlineOrLimit ==
    \A o \in Orders :
        orders[o].status = "confirmation_expired"
            => orders[o].late \/ outbox[ConfirmJob(o)].attempts = MaxAttempts

-----------------------------------------------------------------------------
(* Liveness *)

\* Workers poll for ever (runOne), time passes, and a call ends (the client
\* has a timeout).  The lease outlasts the timeout (config.go checks it) and
\* neither crashes nor database errors go on for ever, so a job that is claimed
\* again and again is dispatched and concluded at last while its lease is
\* held: strong fairness.
OnLease(w, j) == workers[w] # Idle /\ workers[w].job = j /\ HoldsLease(w)

Fairness ==
    /\ \A j \in Jobs :
        /\ WF_vars(LeaseExpires(j))
        /\ WF_vars(BackoffElapses(j))
        /\ SF_vars(\E w \in Workers : ClaimOutbox(w, j))
        /\ SF_vars(\E w \in Workers : OnLease(w, j) /\ Dispatch(w))
        /\ SF_vars(\E w \in Workers : OnLease(w, j) /\ (Conclude(w) \/ ExpireClaimed(w)))
    /\ \A w \in Workers : WF_vars(Dispatch(w)) /\ WF_vars(LeaseLost(w))

FairSpec == Spec /\ Fairness

\* Every order gets a decision or expires, though workers crash, answers are
\* lost and the deadline itself may never be observed: the attempts run out.
ConfirmationDecided ==
    \A o \in Orders : orders[o].status = "pending_confirmation"
                        ~> orders[o].status # "pending_confirmation"

\* Every requested cancellation is confirmed, rejected or failed at last.
CancellationSettled ==
    \A o \in Orders : orders[o].cancellation = "requested"
                        ~> orders[o].cancellation # "requested"
=============================================================================
