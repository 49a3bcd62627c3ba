------------------------ MODULE PlatformOrdersProofs ------------------------
(***************************************************************************)
(* Proofs about PlatformOrders, for any number of orders, workers,         *)
(* attempts, cancellation commands and events: first that orders and jobs  *)
(* agree (OrdersSound), then what is written down and never changes, the   *)
(* history of an order, the events of the venue and the withdrawal of an   *)
(* order that no venue has seen (RecordsSound).                            *)
(***************************************************************************)
EXTENDS PlatformOrders, TLAPS

USE WorkersAssumption, AttemptsAssumption, BoundsAssumption

-----------------------------------------------------------------------------
(* Type correctness *)

\* What the statements shared by the transactions do to the types.
LEMMA EnterType ==
    ASSUME TypeOK, NEW o \in Orders, NEW s \in Status,
           NEW c \in CancellationStatus, Enter(o, s, c)
    PROVE  /\ orders' \in [Orders -> Order]
           /\ history' \in [Orders -> Seq(Status)]
<1>1. orders[o] \in Order /\ history[o] \in Seq(Status) BY DEF TypeOK
<1>2. [orders[o] EXCEPT !.status = s, !.cancellation = c] \in Order
  BY <1>1 DEF Order
<1>3. orders' = [orders EXCEPT ![o] = [orders[o] EXCEPT !.status = s, !.cancellation = c]]
  BY <1>1 DEF Enter, TypeOK, Order
<1>4. Append(history[o], s) \in Seq(Status) BY <1>1
<1>5. history' = [history EXCEPT ![o] = Append(history[o], s)] BY DEF Enter
<1>6. orders' \in [Orders -> Order]
  <2> DEFINE row == [orders[o] EXCEPT !.status = s, !.cancellation = c]
  <2>1. row \in Order /\ orders' = [orders EXCEPT ![o] = row] BY <1>2, <1>3
  <2> HIDE DEF row
  <2>. QED BY <2>1 DEF TypeOK
<1>. QED BY <1>4, <1>5, <1>6 DEF TypeOK

LEMMA CancellationType ==
    ASSUME TypeOK, NEW o \in Orders, NEW c \in CancellationStatus,
           orders' = [orders EXCEPT ![o].cancellation = c]
    PROVE  orders' \in [Orders -> Order]
<1> DEFINE row == [orders[o] EXCEPT !.cancellation = c]
<1>1. orders[o] \in Order BY DEF TypeOK
<1>2. row \in Order BY <1>1 DEF Order
<1>3. orders' = [orders EXCEPT ![o] = row] OBVIOUS
<1> HIDE DEF row
<1>. QED BY <1>2, <1>3 DEF TypeOK

LEMMA CloseType ==
    ASSUME TypeOK, NEW j \in Jobs, Close(j)
    PROVE  outbox' \in [Jobs -> Row]
<1> DEFINE row == [outbox[j] EXCEPT !.state = "processed", !.token = NoWorker,
                                     !.leased = FALSE]
<1>1. outbox[j] \in Row BY DEF TypeOK
<1>2. row \in Row BY <1>1 DEF Row
<1>3. outbox' = [outbox EXCEPT ![j] = row] BY DEF Close
<1> HIDE DEF row
<1>. QED BY <1>2, <1>3 DEF TypeOK

LEMMA FreshRowType == FreshRow \in Row /\ NoRow \in Row
<1>1. NoRow \in Row BY DEF NoRow, Row
<1>. QED BY <1>1 DEF FreshRow, Row

\* A busy worker holds a claim of a job of some order.
LEMMA BusyType ==
    ASSUME TypeOK, NEW w \in Workers, workers[w] # Idle
    PROVE  /\ workers[w] \in Claim
           /\ workers[w].job \in Jobs
           /\ workers[w].job[1] \in Orders
           /\ workers[w].job[2] \in 0..MaxCancels
           /\ workers[w].job = <<workers[w].job[1], workers[w].job[2]>>
  BY DEF TypeOK, Claim, Jobs

LEMMA PhaseBusy ==
    ASSUME NEW w \in Workers, workers[w].phase \in {"claimed", "calling"}
    PROVE  workers[w] # Idle
  BY DEF Idle

\* The transitions that an event may cause.
LEMMA TransitionType ==
    ASSUME NEW s \in Status, NEW t \in EventTypes
    PROVE  /\ EventTransition(s, t) \in Status
           /\ EventTransition(s, t) # "absent" =>
                /\ s \in {"accepted", "preparing", "ready", "cancelled"}
                /\ t = "order_cancelled" <=> EventTransition(s, t) = "cancelled"
                /\ t # "order_cancelled" =>
                    /\ s \in {"accepted", "preparing", "ready"}
                    /\ EventTransition(s, t) \in {"preparing", "ready", "completed"}
                    /\ EventTransition(s, t) # s
  BY DEF EventTransition, Status, EventTypes

\* What a recorded event does to the orders.
LEMMA EventEffect ==
    ASSUME TypeOK, NEW e \in Event, RecordOrderEvent(e)
    PROVE  LET o == e.order
               target == EventTransition(orders[o].status, e.type)
           IN  /\ o \in Orders /\ orders[o] \in Order /\ target # "absent"
               /\ orders'[o].status = target
               /\ orders'[o].cancellation = CancellationAfter(e.type, orders[o].cancellation)
               /\ \A q \in Orders \ {o} : orders'[q] = orders[q]
<1> DEFINE o == e.order
           target == EventTransition(orders[o].status, e.type)
           c == CancellationAfter(e.type, orders[o].cancellation)
           row == [orders[o] EXCEPT !.status = target, !.sequence = e.sequence,
                                    !.cancellation = c]
<1>1. o \in Orders BY DEF Event
<1>2. orders[o] \in Order BY <1>1 DEF TypeOK
<1>3. orders' = [orders EXCEPT ![o] = row] /\ target # "absent"
  BY <1>1, <1>2 DEF RecordOrderEvent, TypeOK, Order
<1>4. row.status = target /\ row.cancellation = c
  <2> HIDE DEF target, c, o
  <2>. QED BY <1>2 DEF Order
<1> HIDE DEF row
<1>5. orders'[o] = row /\ \A q \in Orders \ {o} : orders'[q] = orders[q]
  BY <1>1, <1>3 DEF TypeOK
<1>. QED BY <1>1, <1>2, <1>3, <1>4, <1>5

LEMMA TypeInit == Init => TypeOK
  BY DEF Init, TypeOK, NoOrder, Order, Status, CancellationStatus, NoRow, Row, Jobs

LEMMA TypeNext == TypeOK /\ [Next]_vars => TypeOK'
<1> SUFFICES ASSUME TypeOK, [Next]_vars PROVE TypeOK'
  OBVIOUS
<1>1. ASSUME NEW o \in Orders, CreateOrder(o) PROVE TypeOK'
  <2>1. Enter(o, "pending_confirmation", "none") BY <1>1 DEF CreateOrder
  <2>2. orders' \in [Orders -> Order] /\ history' \in [Orders -> Seq(Status)]
    BY <2>1, EnterType DEF Status, CancellationStatus
  <2>3. outbox' \in [Jobs -> Row]
    BY <1>1, FreshRowType DEF CreateOrder, TypeOK
  <2>. QED BY <1>1, <2>2, <2>3 DEF CreateOrder, TypeOK
<1>2. ASSUME NEW o \in Orders, CancelBeforeDispatch(o) PROVE TypeOK'
  <2>1. ConfirmJob(o) \in Jobs BY DEF ConfirmJob, Jobs
  <2>2. outbox' \in [Jobs -> Row] BY <1>2, <2>1, CloseType DEF CancelBeforeDispatch
  <2>3. orders' \in [Orders -> Order] /\ history' \in [Orders -> Seq(Status)]
    BY <1>2, EnterType DEF CancelBeforeDispatch, Status, CancellationStatus
  <2>. QED BY <1>2, <2>2, <2>3 DEF CancelBeforeDispatch, TypeOK
<1>3. ASSUME NEW o \in Orders, NEW k \in 1..MaxCancels, RequestCancellation(o, k)
      PROVE  TypeOK'
  <2>1. outbox' \in [Jobs -> Row]
    BY <1>3, FreshRowType DEF RequestCancellation, TypeOK
  <2>2. orders' \in [Orders -> Order]
    BY <1>3, CancellationType DEF RequestCancellation, CancellationStatus
  <2>. QED BY <1>3, <2>1, <2>2 DEF RequestCancellation, TypeOK
<1>4. ASSUME NEW e \in Event, RecordOrderEvent(e) PROVE TypeOK'
  <2> DEFINE o == e.order
             target == EventTransition(orders[o].status, e.type)
  <2>1. o \in Orders /\ e.type \in EventTypes /\ e.sequence \in 1..MaxSequence
    BY DEF Event
  <2>2. orders[o].status \in Status /\ orders[o].cancellation \in CancellationStatus
    BY <2>1 DEF TypeOK, Order
  <2>3. target \in Status BY <2>1, <2>2, TransitionType
  <2>4. CancellationAfter(e.type, orders[o].cancellation) \in CancellationStatus
    BY <2>2 DEF CancellationAfter, CancellationStatus
  <2> DEFINE c == CancellationAfter(e.type, orders[o].cancellation)
             r == [orders[o] EXCEPT !.status = target, !.sequence = e.sequence,
                        !.cancellation = c]
  <2>9. orders[o] \in Order BY <2>1 DEF TypeOK
  <2>10. r \in Order
    <3>1. c \in CancellationStatus BY <2>4
    <3>2. e.sequence \in 0..MaxSequence BY <2>1
    <3> HIDE DEF target, c, o
    <3>. QED BY <2>3, <2>9, <3>1, <3>2 DEF Order
  <2>11. orders' = [orders EXCEPT ![o] = r]
    BY <1>4, <2>1, <2>9 DEF RecordOrderEvent, TypeOK, Order
  <2>5. orders' \in [Orders -> Order] BY <2>10, <2>11 DEF TypeOK
  <2>6. history' \in [Orders -> Seq(Status)]
    <3> DEFINE rows == Append(history[o], target)
    <3>1. history[o] \in Seq(Status) /\ history \in [Orders -> Seq(Status)]
      BY <2>1 DEF TypeOK
    <3>2. rows \in Seq(Status)
      <4> HIDE DEF target, o
      <4>. QED BY <2>3, <3>1
    <3>3. history' \in {history, [history EXCEPT ![o] = rows]}
      BY <1>4 DEF RecordOrderEvent, HistoryAfter
    <3> HIDE DEF rows
    <3>. QED BY <3>1, <3>2, <3>3
  <2>7. CancelsClosed(o) \in [Jobs -> Row]
    <3> SUFFICES ASSUME NEW i \in Jobs PROVE CancelsClosed(o)[i] \in Row
      BY DEF CancelsClosed
    <3> DEFINE closed == [outbox[i] EXCEPT !.state = "processed", !.token = NoWorker,
                                           !.leased = FALSE]
    <3>1. outbox[i] \in Row BY DEF TypeOK
    <3>2. closed \in Row BY <3>1 DEF Row
    <3>3. CancelsClosed(o)[i] \in {closed, outbox[i]} BY DEF CancelsClosed
    <3>. QED BY <3>1, <3>2, <3>3
  <2>8. outbox' \in [Jobs -> Row]
    BY <1>4, <2>7 DEF RecordOrderEvent, TypeOK
  <2>. QED BY <1>4, <2>5, <2>6, <2>8 DEF RecordOrderEvent, TypeOK
<1>5. ASSUME NEW w \in Workers, NEW j \in Jobs, ClaimOutbox(w, j) PROVE TypeOK'
  <2> DEFINE a == IF outbox[j].attempts < MaxAttempts
                  THEN outbox[j].attempts + 1 ELSE MaxAttempts
  <2>1. a \in 0..MaxAttempts BY DEF TypeOK, Row
  <2> DEFINE r == [outbox[j] EXCEPT !.leased = TRUE, !.token = w, !.attempts = a]
  <2>4. outbox[j] \in Row BY DEF TypeOK
  <2>5. r \in Row BY <2>1, <2>4 DEF Row
  <2>6. outbox' = [outbox EXCEPT ![j] = r] BY <1>5, <2>4 DEF ClaimOutbox, TypeOK, Row
  <2>2. outbox' \in [Jobs -> Row] BY <2>5, <2>6 DEF TypeOK
  <2>3. workers' \in [Workers -> {Idle} \cup Claim]
    BY <1>5, <2>1 DEF ClaimOutbox, TypeOK, Claim
  <2>. QED BY <1>5, <2>2, <2>3 DEF ClaimOutbox, TypeOK
<1>6. ASSUME NEW w \in Workers, Dispatch(w) PROVE TypeOK'
  <2>1. workers[w] \in Claim BY <1>6, PhaseBusy, BusyType DEF Dispatch
  <2>2. workers' \in [Workers -> {Idle} \cup Claim]
    BY <1>6, <2>1 DEF Dispatch, TypeOK, Claim
  <2>. QED BY <1>6, <2>2 DEF Dispatch, TypeOK
<1>7. ASSUME NEW w \in Workers, workers[w] # Idle, Finish(w),
             orders' \in [Orders -> Order], history' \in [Orders -> Seq(Status)],
             outbox' \in [Jobs -> Row]
      PROVE  TypeOK'
  BY <1>7 DEF Finish, TypeOK
<1>8. ASSUME NEW w \in Workers, NEW d \in Decisions, ResolveOutbox(w, d) PROVE TypeOK'
  <2>1. workers[w] # Idle BY <1>8, PhaseBusy DEF ResolveOutbox
  <2>2. outbox' \in [Jobs -> Row] BY <1>8, <2>1, BusyType, CloseType DEF ResolveOutbox
  <2>3. orders[workers[w].job[1]].cancellation \in CancellationStatus
    BY <2>1, BusyType DEF TypeOK, Order
  <2>4. orders' \in [Orders -> Order] /\ history' \in [Orders -> Seq(Status)]
    BY <1>8, <2>1, <2>3, BusyType, EnterType
       DEF ResolveOutbox, Decisions, Status, TypeOK
  <2>. QED BY <1>7, <1>8, <2>1, <2>2, <2>4 DEF ResolveOutbox
<1>9. ASSUME NEW w \in Workers, NEW d \in CancellationDecisions,
             ResolveCancellation(w, d)
      PROVE  TypeOK'
  <2>1. workers[w] # Idle BY <1>9, PhaseBusy DEF ResolveCancellation
  <2>2. outbox' \in [Jobs -> Row] BY <1>9, <2>1, BusyType, CloseType DEF ResolveCancellation
  <2> DEFINE o == workers[w].job[1]
  <2>3. o \in Orders BY <2>1, BusyType
  <2>4. CASE Enter(o, "cancelled", "confirmed")
    BY <1>7, <1>9, <2>1, <2>2, <2>3, <2>4, EnterType
       DEF ResolveCancellation, Status, CancellationStatus
  <2>5. CASE UNCHANGED <<orders, history>>
    BY <1>7, <1>9, <2>1, <2>2, <2>5 DEF ResolveCancellation, TypeOK
  <2>6. CASE orders' = [orders EXCEPT ![o].cancellation = "rejected"] /\ UNCHANGED history
    <3>1. orders' \in [Orders -> Order]
      BY <2>3, <2>6, CancellationType DEF CancellationStatus
    <3>. QED BY <1>7, <1>9, <2>1, <2>2, <2>6, <3>1 DEF ResolveCancellation, TypeOK
  <2>. QED BY <1>9, <2>4, <2>5, <2>6 DEF ResolveCancellation
<1>10. ASSUME NEW w \in Workers, workers[w] # Idle, Reschedule(w) PROVE TypeOK'
  <2> DEFINE j == workers[w].job
             r == [outbox[j] EXCEPT !.due = FALSE, !.token = NoWorker, !.leased = FALSE]
  <2>2. j \in Jobs /\ outbox[j] \in Row BY <1>10, BusyType DEF TypeOK
  <2>3. r \in Row BY <2>2 DEF Row
  <2>4. outbox' = [outbox EXCEPT ![j] = r] BY <1>10, <2>2 DEF Reschedule, TypeOK, Row
  <2>1. outbox' \in [Jobs -> Row] BY <2>3, <2>4 DEF TypeOK
  <2>. QED BY <1>7, <1>10, <2>1 DEF Reschedule, TypeOK
<1>11. ASSUME NEW w \in Workers, workers[w] # Idle, GiveUp(w) PROVE TypeOK'
  <2> DEFINE o == workers[w].job[1]
  <2>1. o \in Orders /\ workers[w].job \in Jobs BY <1>11, BusyType
  <2>2. outbox' \in [Jobs -> Row] BY <1>11, <2>1, CloseType DEF GiveUp
  <2>3. orders[o].cancellation \in CancellationStatus BY <2>1 DEF TypeOK, Order
  <2>4. CASE Enter(o, "confirmation_expired", orders[o].cancellation)
    BY <1>7, <1>11, <2>1, <2>2, <2>3, <2>4, EnterType DEF GiveUp, Status
  <2>5. CASE UNCHANGED <<orders, history>>
    BY <1>7, <1>11, <2>2, <2>5 DEF GiveUp, TypeOK
  <2>6. CASE /\ orders' = [orders EXCEPT ![o].cancellation =
                                IF @ = "requested" THEN "failed" ELSE @]
             /\ UNCHANGED history
    <3>1. orders' \in [Orders -> Order]
      <4> DEFINE c == IF orders[o].cancellation = "requested" THEN "failed"
                      ELSE orders[o].cancellation
      <4>1. c \in CancellationStatus BY <2>3 DEF CancellationStatus
      <4>2. orders' = [orders EXCEPT ![o].cancellation = c] BY <2>6
      <4> HIDE DEF c, o
      <4>. QED BY <2>1, <4>1, <4>2, CancellationType
    <3>. QED BY <1>7, <1>11, <2>2, <2>6, <3>1 DEF GiveUp, TypeOK
  <2>. QED BY <1>11, <2>4, <2>5, <2>6 DEF GiveUp
<1>12. ASSUME NEW w \in Workers, ExpireClaimed(w) PROVE TypeOK'
  BY <1>11, <1>12, PhaseBusy DEF ExpireClaimed
<1>13. ASSUME NEW w \in Workers, NEW r \in BOOLEAN, NEW n \in BOOLEAN,
              DeliveryFailed(w, r, n)
       PROVE  TypeOK'
  BY <1>10, <1>11, <1>13, PhaseBusy DEF DeliveryFailed
<1>14. ASSUME NEW w \in Workers, LeaseLost(w) \/ Abandon(w) PROVE TypeOK'
  BY <1>14 DEF LeaseLost, Abandon, Finish, TypeOK
<1>15. ASSUME NEW j \in Jobs, LeaseExpires(j) \/ BackoffElapses(j) PROVE TypeOK'
  <2>2. /\ [outbox[j] EXCEPT !.leased = FALSE] \in Row
        /\ [outbox[j] EXCEPT !.due = TRUE] \in Row
    BY DEF TypeOK, Row
  <2>1. outbox' \in [Jobs -> Row]
    BY <1>15, <2>2 DEF LeaseExpires, BackoffElapses, TypeOK
  <2>. QED BY <1>15, <2>1 DEF LeaseExpires, BackoffElapses, TypeOK
<1>16. ASSUME NEW o \in Orders, DeadlinePasses(o) PROVE TypeOK'
  <2>1. orders' \in [Orders -> Order] BY <1>16 DEF DeadlinePasses, TypeOK, Order
  <2>. QED BY <1>16, <2>1 DEF DeadlinePasses, TypeOK
<1>17. CASE UNCHANGED vars BY <1>17 DEF vars, TypeOK
<1>. QED
  BY <1>1, <1>2, <1>3, <1>4, <1>5, <1>6, <1>8, <1>9, <1>12, <1>13, <1>14, <1>15,
     <1>16, <1>17 DEF Next, Conclude, CancelOrder

\* The tables, the queue and the workers keep their types: in particular no
\* transaction writes a status outside the state machines of the schema.
THEOREM TypeCorrect == Spec => []TypeOK
<1>. QED BY TypeInit, TypeNext, PTL DEF Spec

-----------------------------------------------------------------------------
(* The queue and the two state columns *)

\* JobsMatchOrders and CancelledIffConfirmed, of one order.  Neither is
\* inductive alone: a worker that finds its cancel_order row unprocessed knows
\* from the first that a cancellation is requested, and from the second that
\* the order has not been cancelled by a callback.
OrderSound(o) ==
    /\ outbox[ConfirmJob(o)].state = "queued"
            <=> orders[o].status = "pending_confirmation"
    /\ orders[o].cancellation = "requested" <=> QueuedCancels(o) # {}
    /\ \A i, k \in QueuedCancels(o) : i = k
    /\ orders[o].status = "cancelled" <=> orders[o].cancellation = "confirmed"
    /\ orders[o].cancellation \in {"requested", "rejected", "failed"}
            => orders[o].status \in {"accepted", "preparing", "ready", "completed"}

OrdersSound == TypeOK /\ \A o \in Orders : OrderSound(o)

\* An order whose columns and rows keep their values stays sound.
LEMMA Frame ==
    ASSUME NEW o \in Orders, OrderSound(o),
           orders'[o].status = orders[o].status,
           orders'[o].cancellation = orders[o].cancellation,
           \A k \in 0..MaxCancels : outbox'[<<o, k>>].state = outbox[<<o, k>>].state
    PROVE  OrderSound(o)'
<1>1. QueuedCancels(o)' = QueuedCancels(o) BY DEF QueuedCancels
<1>2. outbox'[<<o, 0>>].state = outbox[<<o, 0>>].state OBVIOUS
<1>. QED BY <1>1, <1>2 DEF OrderSound, ConfirmJob

\* Closing one job leaves every other row alone.
LEMMA CloseEffect ==
    ASSUME TypeOK, NEW o \in Orders, NEW k \in 0..MaxCancels, Close(<<o, k>>)
    PROVE  \A p \in Orders, i \in 0..MaxCancels :
              outbox'[<<p, i>>].state = IF p = o /\ i = k THEN "processed"
                                        ELSE outbox[<<p, i>>].state
  BY DEF TypeOK, Close, Jobs, Row

LEMMA EnterEffect ==
    ASSUME TypeOK, NEW o \in Orders, NEW s, NEW c, Enter(o, s, c)
    PROVE  /\ orders'[o].status = s
           /\ orders'[o].cancellation = c
           /\ \A p \in Orders \ {o} : orders'[p] = orders[p]
  BY DEF TypeOK, Enter, Order

LEMMA CancelsClosedEffect ==
    ASSUME TypeOK, NEW o \in Orders, NEW p \in Orders, NEW i \in 0..MaxCancels
    PROVE  CancelsClosed(o)[<<p, i>>].state =
                IF p = o /\ i > 0 /\ outbox[<<p, i>>].state = "queued"
                THEN "processed" ELSE outbox[<<p, i>>].state
<1>1. <<p, i>> \in Jobs BY DEF Jobs
<1>2. outbox[<<p, i>>] \in Row BY <1>1 DEF TypeOK
<1>. QED BY <1>1, <1>2 DEF CancelsClosed, IsCancel, Row

\* A change of one order that closes its confirm_order row.
LEMMA ConfirmClosed ==
    ASSUME OrdersSound, NEW o \in Orders, Close(<<o, 0>>),
           orders[o].status = "pending_confirmation",
           NEW s \in {"accepted", "rejected", "confirmation_expired", "cancelled"},
           NEW c, c = IF s = "cancelled" THEN "confirmed" ELSE orders[o].cancellation,
           Enter(o, s, c)
    PROVE  \A p \in Orders : OrderSound(p)'
<1> SUFFICES ASSUME NEW p \in Orders PROVE OrderSound(p)' OBVIOUS
<1>1. 0 \in 0..MaxCancels OBVIOUS
<1>2. \A q \in Orders, i \in 0..MaxCancels :
        outbox'[<<q, i>>].state = IF q = o /\ i = 0 THEN "processed"
                                  ELSE outbox[<<q, i>>].state
  BY <1>1, CloseEffect DEF OrdersSound
<1>3. /\ orders'[o].status = s /\ orders'[o].cancellation = c
      /\ \A q \in Orders \ {o} : orders'[q] = orders[q]
  BY EnterEffect DEF OrdersSound
<1>4. CASE p # o BY <1>2, <1>3, <1>4, Frame DEF OrdersSound
<1>5. CASE p = o
  <2>1. QueuedCancels(o)' = QueuedCancels(o) BY <1>2 DEF QueuedCancels
  <2>2. outbox'[ConfirmJob(o)].state = "processed" BY <1>1, <1>2 DEF ConfirmJob
  <2>3. OrderSound(o) BY DEF OrdersSound
  <2>4. QueuedCancels(o) = {} BY <2>3 DEF OrderSound
  <2>5. orders[o].cancellation \in CancellationStatus BY DEF OrdersSound, TypeOK, Order
  <2>6. orders[o].cancellation = "none" BY <2>3, <2>5 DEF OrderSound, CancellationStatus
  <2>. QED BY <1>3, <1>5, <2>1, <2>2, <2>3, <2>4, <2>6 DEF OrderSound
<1>. QED BY <1>4, <1>5

\* A change of one order that closes its queued cancel_order row k.
LEMMA CancelClosed ==
    ASSUME OrdersSound, NEW o \in Orders, NEW k \in 1..MaxCancels,
           outbox[<<o, k>>].state = "queued", Close(<<o, k>>),
           \A q \in Orders \ {o} : orders'[q] = orders[q],
           \/ /\ orders'[o].cancellation = "confirmed"
              /\ orders'[o].status = "cancelled"
           \/ /\ orders'[o].cancellation \in {"rejected", "failed"}
              /\ orders'[o].status = orders[o].status
    PROVE  \A p \in Orders : OrderSound(p)'
<1> SUFFICES ASSUME NEW p \in Orders PROVE OrderSound(p)' OBVIOUS
<1>1. k \in 0..MaxCancels OBVIOUS
<1>2. \A q \in Orders, i \in 0..MaxCancels :
        outbox'[<<q, i>>].state = IF q = o /\ i = k THEN "processed"
                                  ELSE outbox[<<q, i>>].state
  BY <1>1, CloseEffect DEF OrdersSound
<1>3. CASE p # o BY <1>2, <1>3, Frame DEF OrdersSound
<1>4. CASE p = o
  <2>1. OrderSound(o) BY DEF OrdersSound
  <2>2. k \in QueuedCancels(o) BY DEF QueuedCancels
  <2>3. QueuedCancels(o) = {k} /\ orders[o].cancellation = "requested"
    BY <2>1, <2>2 DEF OrderSound
  <2>4. QueuedCancels(o)' = {}
    <3> SUFFICES ASSUME NEW i \in 1..MaxCancels, outbox'[<<o, i>>].state = "queued"
                 PROVE  FALSE
      BY DEF QueuedCancels
    <3>1. i # k /\ outbox[<<o, i>>].state = "queued" BY <1>2
    <3>. QED BY <2>3, <3>1 DEF QueuedCancels
  <2>5. outbox'[ConfirmJob(o)].state = outbox[ConfirmJob(o)].state
    BY <1>2 DEF ConfirmJob
  <2>6. orders[o].status \in {"accepted", "preparing", "ready", "completed"}
    BY <2>1, <2>3 DEF OrderSound
  <2>. QED BY <1>4, <2>1, <2>4, <2>5, <2>6 DEF OrderSound
<1>. QED BY <1>3, <1>4

\* Giving up a job that is still the worker's own.
LEMMA GiveUpSound ==
    ASSUME OrdersSound, NEW w \in Workers, workers[w] # Idle, GiveUp(w)
    PROVE  \A p \in Orders : OrderSound(p)'
<1> DEFINE o == workers[w].job[1]
           k == workers[w].job[2]
<1>1. o \in Orders /\ k \in 0..MaxCancels /\ workers[w].job = <<o, k>>
  BY BusyType DEF OrdersSound
<1>2. outbox[<<o, k>>].state = "queued" /\ Close(<<o, k>>)
  BY <1>1 DEF GiveUp, HoldsLease
<1>3. OrderSound(o) BY <1>1 DEF OrdersSound
<1>4. CASE k = 0
  <2>1. orders[o].status = "pending_confirmation"
    BY <1>2, <1>3, <1>4 DEF OrderSound, ConfirmJob
  <2>2. Enter(o, "confirmation_expired", orders[o].cancellation)
    BY <1>1, <1>4, <2>1 DEF GiveUp, IsCancel
  <2>. QED BY <1>1, <1>2, <1>4, <2>1, <2>2, ConfirmClosed
<1>5. CASE k > 0
  <2>1. k \in 1..MaxCancels BY <1>1, <1>5
  <2>2. orders[o].cancellation = "requested"
    BY <1>2, <1>3, <2>1 DEF OrderSound, QueuedCancels
  <2>3. orders' = [orders EXCEPT ![o].cancellation =
                        IF @ = "requested" THEN "failed" ELSE @]
    BY <1>5 DEF GiveUp, IsCancel
  <2>4. /\ orders'[o].cancellation = "failed"
        /\ orders'[o].status = orders[o].status
        /\ \A q \in Orders \ {o} : orders'[q] = orders[q]
    BY <1>1, <2>2, <2>3 DEF OrdersSound, TypeOK, Order
  <2>. QED BY <1>1, <1>2, <2>1, <2>4, CancelClosed
<1>. QED BY <1>1, <1>4, <1>5

LEMMA SoundNext == OrdersSound /\ [Next]_vars => OrdersSound'
<1> SUFFICES ASSUME OrdersSound, [Next]_vars PROVE \A p \in Orders : OrderSound(p)'
  BY TypeNext DEF OrdersSound
<1>0. TypeOK BY DEF OrdersSound
<1>1. ASSUME NEW o \in Orders, CreateOrder(o) PROVE \A p \in Orders : OrderSound(p)'
  <2> SUFFICES ASSUME NEW p \in Orders PROVE OrderSound(p)' OBVIOUS
  <2>1. /\ orders'[o].status = "pending_confirmation"
        /\ orders'[o].cancellation = "none"
        /\ \A q \in Orders \ {o} : orders'[q] = orders[q]
    BY <1>0, <1>1, EnterEffect DEF CreateOrder
  <2>2. \A q \in Orders, i \in 0..MaxCancels :
            outbox'[<<q, i>>].state = IF q = o /\ i = 0 THEN "queued"
                                      ELSE outbox[<<q, i>>].state
    BY <1>0, <1>1 DEF CreateOrder, TypeOK, Jobs, ConfirmJob, FreshRow, NoRow, Row
  <2>3. CASE p # o BY <2>1, <2>2, <2>3, Frame DEF OrdersSound
  <2>4. CASE p = o
    <3>1. QueuedCancels(o)' = QueuedCancels(o) BY <2>2 DEF QueuedCancels
    <3>2. outbox'[ConfirmJob(o)].state = "queued" BY <2>2 DEF ConfirmJob
    <3>3. OrderSound(o) /\ orders[o].status = "absent" BY <1>1 DEF OrdersSound, CreateOrder
    <3>4. QueuedCancels(o) = {} BY <3>3 DEF OrderSound
    <3>. QED BY <2>1, <2>4, <3>1, <3>2, <3>4 DEF OrderSound
  <2>. QED BY <2>3, <2>4
<1>2. ASSUME NEW o \in Orders, CancelBeforeDispatch(o)
      PROVE  \A p \in Orders : OrderSound(p)'
  BY <1>2, ConfirmClosed DEF CancelBeforeDispatch, ConfirmJob
<1>3. ASSUME NEW o \in Orders, NEW k \in 1..MaxCancels, RequestCancellation(o, k)
      PROVE  \A p \in Orders : OrderSound(p)'
  <2> SUFFICES ASSUME NEW p \in Orders PROVE OrderSound(p)' OBVIOUS
  <2>1. /\ orders'[o].status = "accepted" /\ orders[o].status = "accepted"
        /\ orders'[o].cancellation = "requested"
        /\ \A q \in Orders \ {o} : orders'[q] = orders[q]
    BY <1>0, <1>3 DEF RequestCancellation, TypeOK, Order
  <2>2. \A q \in Orders, i \in 0..MaxCancels :
            outbox'[<<q, i>>].state = IF q = o /\ i = k THEN "queued"
                                      ELSE outbox[<<q, i>>].state
    BY <1>0, <1>3 DEF RequestCancellation, TypeOK, Jobs, FreshRow, NoRow, Row
  <2>3. CASE p # o BY <2>1, <2>2, <2>3, Frame DEF OrdersSound
  <2>4. CASE p = o
    <3>1. OrderSound(o) BY DEF OrdersSound
    <3>2. QueuedCancels(o) = {} BY <1>3, <3>1 DEF OrderSound, RequestCancellation
    <3>3. QueuedCancels(o)' = {k} BY <2>2, <3>2 DEF QueuedCancels
    <3>4. outbox'[ConfirmJob(o)].state = outbox[ConfirmJob(o)].state
      BY <2>2 DEF ConfirmJob
    <3>. QED BY <2>1, <2>4, <3>1, <3>3, <3>4 DEF OrderSound
  <2>. QED BY <2>3, <2>4
<1>4. ASSUME NEW e \in Event, RecordOrderEvent(e) PROVE \A p \in Orders : OrderSound(p)'
  <2> SUFFICES ASSUME NEW p \in Orders PROVE OrderSound(p)' OBVIOUS
  <2> DEFINE o == e.order
             target == EventTransition(orders[o].status, e.type)
  <2>1. o \in Orders /\ e.type \in EventTypes /\ orders[o].status \in Status
    BY <1>0, <1>4, EventEffect DEF Event, Order
  <2>2. /\ orders[o].status \in {"accepted", "preparing", "ready", "cancelled"}
        /\ e.type = "order_cancelled" => target = "cancelled"
        /\ e.type # "order_cancelled" =>
            /\ orders[o].status \in {"accepted", "preparing", "ready"}
            /\ target \in {"preparing", "ready", "completed"}
    <3>1. target # "absent" BY <1>0, <1>4, EventEffect
    <3>. QED BY <2>1, <3>1, TransitionType
  <2>3. /\ orders'[o].status = target
        /\ orders'[o].cancellation = CancellationAfter(e.type, orders[o].cancellation)
        /\ \A q \in Orders \ {o} : orders'[q] = orders[q]
    BY <1>0, <1>4, EventEffect
  <2>4. \A q \in Orders, i \in 0..MaxCancels : q # o \/ i = 0 =>
            outbox'[<<q, i>>].state = outbox[<<q, i>>].state
    <3> SUFFICES ASSUME NEW q \in Orders, NEW i \in 0..MaxCancels, q # o \/ i = 0
                 PROVE  outbox'[<<q, i>>].state = outbox[<<q, i>>].state
      OBVIOUS
    <3>1. CancelsClosed(o)[<<q, i>>].state = outbox[<<q, i>>].state
      BY <1>0, <2>1, CancelsClosedEffect
    <3>. QED BY <1>4, <3>1 DEF RecordOrderEvent
  <2>5. CASE p # o BY <2>3, <2>4, <2>5, Frame DEF OrdersSound
  <2>6. CASE p = o /\ e.type = "order_cancelled"
    <3>1. orders'[o].cancellation = "confirmed" /\ orders'[o].status = "cancelled"
      BY <2>2, <2>3, <2>6 DEF CancellationAfter
    <3>2. outbox' = CancelsClosed(o) BY <1>4, <2>6 DEF RecordOrderEvent
    <3>3. ASSUME NEW i \in 1..MaxCancels PROVE outbox'[<<o, i>>].state # "queued"
      <4>1. i \in 0..MaxCancels /\ i > 0 OBVIOUS
      <4>2. CancelsClosed(o)[<<o, i>>].state # "queued"
        BY <1>0, <2>1, <4>1, CancelsClosedEffect
      <4>. QED BY <3>2, <4>2
    <3>4. QueuedCancels(o)' = {} BY <3>3 DEF QueuedCancels
    <3>5. outbox'[ConfirmJob(o)].state = outbox[ConfirmJob(o)].state
      BY <2>1, <2>4 DEF ConfirmJob
    <3>6. OrderSound(o) BY <2>1 DEF OrdersSound
    <3>. QED BY <2>2, <2>6, <3>1, <3>4, <3>5, <3>6 DEF OrderSound
  <2>7. CASE p = o /\ e.type # "order_cancelled"
    <3>1. outbox' = outbox BY <1>4, <2>7 DEF RecordOrderEvent
    <3>2. QueuedCancels(o)' = QueuedCancels(o) BY <3>1 DEF QueuedCancels
    <3>3. orders'[o].cancellation = orders[o].cancellation
      BY <2>3, <2>7 DEF CancellationAfter
    <3>4. OrderSound(o) BY <2>1 DEF OrdersSound
    <3>. QED BY <2>2, <2>3, <2>7, <3>1, <3>2, <3>3, <3>4 DEF OrderSound, ConfirmJob
  <2>. QED BY <2>5, <2>6, <2>7
<1>5. ASSUME NEW j \in Jobs, UNCHANGED orders,
             \A i \in Jobs : outbox'[i].state = outbox[i].state
      PROVE  \A p \in Orders : OrderSound(p)'
  BY <1>5, Frame DEF OrdersSound, Jobs
<1>6. ASSUME NEW w \in Workers, NEW j \in Jobs, ClaimOutbox(w, j)
      PROVE  \A p \in Orders : OrderSound(p)'
  <2>1. \A i \in Jobs : outbox'[i].state = outbox[i].state
    BY <1>0, <1>6 DEF ClaimOutbox, TypeOK, Row
  <2>. QED BY <1>5, <1>6, <2>1 DEF ClaimOutbox
<1>7. ASSUME NEW j \in Jobs, LeaseExpires(j) \/ BackoffElapses(j)
      PROVE  \A p \in Orders : OrderSound(p)'
  <2>1. \A i \in Jobs : outbox'[i].state = outbox[i].state
    BY <1>0, <1>7 DEF LeaseExpires, BackoffElapses, TypeOK, Row
  <2>. QED BY <1>5, <1>7, <2>1 DEF LeaseExpires, BackoffElapses
<1>8. ASSUME NEW w \in Workers, NEW d \in Decisions, ResolveOutbox(w, d)
      PROVE  \A p \in Orders : OrderSound(p)'
  <2> DEFINE o == workers[w].job[1]
             k == workers[w].job[2]
  <2>1. workers[w] # Idle BY <1>8, PhaseBusy DEF ResolveOutbox
  <2>2. o \in Orders /\ k = 0 /\ workers[w].job = <<o, 0>>
    BY <1>0, <1>8, <2>1, BusyType DEF ResolveOutbox, IsCancel
  <2>3. outbox[ConfirmJob(o)].state = "queued" /\ Close(<<o, 0>>)
    BY <1>8, <2>2 DEF ResolveOutbox, HoldsLease, ConfirmJob
  <2>4. OrderSound(o) BY <2>2 DEF OrdersSound
  <2>5. orders[o].status = "pending_confirmation" BY <2>3, <2>4 DEF OrderSound
  <2>6. Enter(o, d, orders[o].cancellation) BY <1>8, <2>5 DEF ResolveOutbox
  <2>. QED BY <2>2, <2>3, <2>5, <2>6, ConfirmClosed DEF Decisions
<1>9. ASSUME NEW w \in Workers, NEW d \in CancellationDecisions,
             ResolveCancellation(w, d)
      PROVE  \A p \in Orders : OrderSound(p)'
  <2> DEFINE o == workers[w].job[1]
             k == workers[w].job[2]
  <2>1. workers[w] # Idle BY <1>9, PhaseBusy DEF ResolveCancellation
  <2>2. o \in Orders /\ k \in 1..MaxCancels /\ workers[w].job = <<o, k>>
    <3>1. o \in Orders /\ k \in 0..MaxCancels /\ workers[w].job = <<o, k>>
      BY <1>0, <2>1, BusyType
    <3>2. IsCancel(workers[w].job) BY <1>9 DEF ResolveCancellation
    <3>. QED BY <3>1, <3>2 DEF IsCancel
  <2>3. outbox[<<o, k>>].state = "queued" /\ Close(<<o, k>>)
    BY <1>9, <2>2 DEF ResolveCancellation, HoldsLease
  <2>4. orders[o].cancellation = "requested"
    <3>1. OrderSound(o) BY <2>2 DEF OrdersSound
    <3>. QED BY <2>2, <2>3, <3>1 DEF OrderSound, QueuedCancels
  <2>5. CASE Enter(o, "cancelled", "confirmed")
    <3>1. /\ orders'[o].cancellation = "confirmed" /\ orders'[o].status = "cancelled"
          /\ \A q \in Orders \ {o} : orders'[q] = orders[q]
      BY <1>0, <2>2, <2>5, EnterEffect
    <3>. QED BY <2>2, <2>3, <3>1, CancelClosed
  <2>6. CASE orders' = [orders EXCEPT ![o].cancellation = "rejected"]
    <3>1. /\ orders'[o].cancellation = "rejected"
          /\ orders'[o].status = orders[o].status
          /\ \A q \in Orders \ {o} : orders'[q] = orders[q]
      BY <1>0, <2>2, <2>6 DEF TypeOK, Order
    <3>. QED BY <2>2, <2>3, <3>1, CancelClosed
  <2>. QED BY <1>9, <2>4, <2>5, <2>6 DEF ResolveCancellation
<1>10. ASSUME NEW w \in Workers, workers[w] # Idle, Reschedule(w)
       PROVE  \A p \in Orders : OrderSound(p)'
  <2>1. workers[w].job \in Jobs BY <1>0, <1>10, BusyType
  <2>3. outbox \in [Jobs -> Row] BY <1>0 DEF TypeOK
  <2>2. \A i \in Jobs : outbox'[i].state = outbox[i].state
    BY <1>10, <2>1, <2>3 DEF Reschedule, Row
  <2>. QED BY <1>5, <1>10, <2>1, <2>2 DEF Reschedule
<1>11. ASSUME NEW w \in Workers, ExpireClaimed(w) PROVE \A p \in Orders : OrderSound(p)'
  BY <1>11, GiveUpSound, PhaseBusy DEF ExpireClaimed
<1>12. ASSUME NEW w \in Workers, NEW r \in BOOLEAN, NEW n \in BOOLEAN,
              DeliveryFailed(w, r, n)
       PROVE  \A p \in Orders : OrderSound(p)'
  BY <1>10, <1>12, GiveUpSound, PhaseBusy DEF DeliveryFailed
<1>13. ASSUME UNCHANGED <<orders, outbox>> PROVE \A p \in Orders : OrderSound(p)'
  BY <1>13, Frame DEF OrdersSound
<1>14. ASSUME NEW o \in Orders, DeadlinePasses(o) PROVE \A p \in Orders : OrderSound(p)'
  <2>1. \A p \in Orders : /\ orders'[p].status = orders[p].status
                          /\ orders'[p].cancellation = orders[p].cancellation
    BY <1>0, <1>14 DEF DeadlinePasses, TypeOK, Order
  <2>. QED BY <1>14, <2>1, Frame DEF DeadlinePasses, OrdersSound
<1>15. ASSUME NEW w \in Workers, Dispatch(w) \/ LeaseLost(w) \/ Abandon(w)
       PROVE  \A p \in Orders : OrderSound(p)'
  BY <1>13, <1>15 DEF Dispatch, LeaseLost, Abandon
<1>16. CASE UNCHANGED vars BY <1>13, <1>16 DEF vars
<1>. QED
  BY <1>1, <1>2, <1>3, <1>4, <1>6, <1>7, <1>8, <1>9, <1>11, <1>12, <1>14, <1>15,
     <1>16 DEF Next, Conclude, CancelOrder

LEMMA SoundInit == Init => OrdersSound
<1> SUFFICES ASSUME Init, NEW o \in Orders PROVE OrderSound(o)
  BY TypeInit DEF OrdersSound
<1>1. QueuedCancels(o) = {} BY DEF Init, QueuedCancels, Jobs, NoRow
<1>2. outbox[ConfirmJob(o)].state = "absent" BY DEF Init, ConfirmJob, Jobs, NoRow
<1>3. orders[o].status = "absent" /\ orders[o].cancellation = "none" BY DEF Init, NoOrder
<1>. QED BY <1>1, <1>2, <1>3 DEF OrderSound

LEMMA Soundness == Spec => []OrdersSound
<1>. QED BY SoundInit, SoundNext, PTL DEF Spec

\* An order is pending exactly while its confirm_order row is unprocessed and
\* a cancellation requested exactly while one cancel_order row is.
THEOREM QueueServesOrders == Spec => []JobsMatchOrders
<1>1. OrdersSound => JobsMatchOrders BY DEF OrdersSound, OrderSound, JobsMatchOrders
<1>. QED BY <1>1, Soundness, PTL

\* An order is cancelled exactly when its cancellation is confirmed, and only
\* an order that the venue accepted has a cancellation under way.
THEOREM ColumnsAgree == Spec => []CancelledIffConfirmed
<1>1. OrdersSound => CancelledIffConfirmed
  BY DEF OrdersSound, OrderSound, CancelledIffConfirmed
<1>. QED BY <1>1, Soundness, PTL
-----------------------------------------------------------------------------
(* Final outcomes *)

Final == {"rejected", "confirmation_expired", "cancelled"}

\* Nobody moves an order that is final: an answer moves a pending order or one
\* with a cancellation under way, and OrderSound tells that a final order is
\* neither.
LEMMA FinalStep ==
    ASSUME OrdersSound, [Next]_vars, NEW o \in Orders, orders[o].status \in Final
    PROVE  orders'[o].status = orders[o].status
<1> DEFINE Stays == orders'[o].status = orders[o].status
<1>0. TypeOK /\ OrderSound(o) BY DEF OrdersSound
<1>1. orders[o].status # "pending_confirmation" /\ orders[o].cancellation # "requested"
  BY <1>0 DEF OrderSound, Final
<1>2. ASSUME NEW p \in Orders, NEW s, NEW c, Enter(p, s, c), p # o PROVE Stays
  BY <1>0, <1>2, EnterEffect
<1>3. ASSUME NEW p \in Orders, CreateOrder(p) PROVE Stays
  BY <1>2, <1>3 DEF CreateOrder, Final
<1>4. ASSUME NEW p \in Orders, CancelOrder(p) PROVE Stays
  <2>1. CASE CancelBeforeDispatch(p)
    BY <1>1, <1>2, <2>1 DEF CancelBeforeDispatch
  <2>2. ASSUME NEW k \in 1..MaxCancels, RequestCancellation(p, k) PROVE Stays
    BY <1>0, <2>2 DEF RequestCancellation, TypeOK, Order
  <2>. QED BY <1>4, <2>1, <2>2 DEF CancelOrder
<1>5. ASSUME NEW p \in Orders, DeadlinePasses(p) PROVE Stays
  BY <1>0, <1>5 DEF DeadlinePasses, TypeOK, Order
<1>6. ASSUME NEW e \in Event, RecordOrderEvent(e) PROVE Stays
  <2> DEFINE target == EventTransition(orders[e.order].status, e.type)
  <2>1. e.order \in Orders /\ e.type \in EventTypes BY DEF Event
  <2>2. /\ orders'[e.order].status = target
        /\ \A q \in Orders \ {e.order} : orders'[q] = orders[q]
    BY <1>0, <1>6, EventEffect
  <2>3. CASE e.order # o BY <2>2, <2>3
  <2>4. CASE e.order = o
    <3>1. orders[o].status \in Status /\ target # "absent"
      BY <1>0, <1>6 DEF RecordOrderEvent, TypeOK, Order
    <3>2. orders[o].status = "cancelled" /\ target = "cancelled"
      BY <2>1, <2>4, <3>1, TransitionType DEF Final
    <3>. QED BY <2>2, <2>4, <3>2
  <2>. QED BY <2>3, <2>4
<1>7. ASSUME NEW w \in Workers, NEW d \in Decisions, ResolveOutbox(w, d) PROVE Stays
  <2>1. workers[w].job[1] \in Orders
    BY <1>0, <1>7, PhaseBusy, BusyType DEF ResolveOutbox
  <2>. QED BY <1>1, <1>2, <1>7, <2>1 DEF ResolveOutbox
<1>8. ASSUME NEW w \in Workers, NEW d \in CancellationDecisions,
             ResolveCancellation(w, d)
      PROVE  Stays
  <2> DEFINE p == workers[w].job[1]
  <2>1. p \in Orders BY <1>0, <1>8, PhaseBusy, BusyType DEF ResolveCancellation
  <2>2. CASE p = o BY <1>1, <1>8, <2>2 DEF ResolveCancellation
  <2>3. CASE p # o /\ Enter(p, "cancelled", "confirmed") BY <1>2, <2>1, <2>3
  <2>4. CASE orders' = [orders EXCEPT ![p].cancellation = "rejected"]
    BY <1>0, <2>1, <2>4 DEF TypeOK, Order
  <2>. QED BY <1>8, <2>2, <2>3, <2>4 DEF ResolveCancellation
<1>9. ASSUME NEW w \in Workers, workers[w] # Idle, GiveUp(w) PROVE Stays
  <2> DEFINE p == workers[w].job[1]
  <2>1. p \in Orders BY <1>0, <1>9, BusyType
  <2>2. CASE orders' = [orders EXCEPT ![p].cancellation =
                            IF @ = "requested" THEN "failed" ELSE @]
    BY <1>0, <2>1, <2>2 DEF TypeOK, Order
  <2>3. CASE /\ orders[p].status = "pending_confirmation"
             /\ Enter(p, "confirmation_expired", orders[p].cancellation)
    BY <1>1, <1>2, <2>1, <2>3
  <2>. QED BY <1>9, <2>2, <2>3 DEF GiveUp
<1>10. ASSUME NEW w \in Workers, ExpireClaimed(w) PROVE Stays
  BY <1>9, <1>10, PhaseBusy DEF ExpireClaimed
<1>11. ASSUME NEW w \in Workers, NEW r \in BOOLEAN, NEW n \in BOOLEAN,
              DeliveryFailed(w, r, n)
       PROVE  Stays
  BY <1>9, <1>11, PhaseBusy DEF DeliveryFailed, Reschedule
<1>12. ASSUME UNCHANGED orders PROVE Stays BY <1>12
<1>13. ASSUME NEW w \in Workers, Dispatch(w) \/ LeaseLost(w) \/ Abandon(w) PROVE Stays
  BY <1>12, <1>13 DEF Dispatch, LeaseLost, Abandon
<1>14. ASSUME NEW w \in Workers, NEW j \in Jobs, ClaimOutbox(w, j) PROVE Stays
  BY <1>12, <1>14 DEF ClaimOutbox
<1>15. ASSUME NEW j \in Jobs, LeaseExpires(j) \/ BackoffElapses(j) PROVE Stays
  BY <1>12, <1>15 DEF LeaseExpires, BackoffElapses
<1>16. CASE UNCHANGED vars BY <1>12, <1>16 DEF vars
<1>. QED
  BY <1>3, <1>4, <1>5, <1>6, <1>7, <1>8, <1>10, <1>11, <1>13, <1>14, <1>15,
     <1>16 DEF Next, Conclude

\* A late answer, a late callback or a repeated request of the customer never
\* changes an order that is rejected, expired or cancelled.
THEOREM FinalForGood == Spec => FinalOutcomesStick
<1> DEFINE Stick == \A o \in Orders :
                orders[o].status \in {"rejected", "confirmation_expired", "cancelled"}
                    => orders'[o].status = orders[o].status
<1>1. OrdersSound /\ [Next]_vars => [Stick]_vars BY FinalStep DEF Final
<1>2. [][Stick]_vars => FinalOutcomesStick BY DEF FinalOutcomesStick
<1>. QED BY <1>1, <1>2, Soundness, PTL DEF Spec

-----------------------------------------------------------------------------
(* The history of an order *)

Working == {"accepted", "preparing", "ready", "completed"}

\* The changes of status that the transactions make.
Moves ==
    {<<"absent", "pending_confirmation">>,
     <<"pending_confirmation", "accepted">>,
     <<"pending_confirmation", "rejected">>,
     <<"pending_confirmation", "confirmation_expired">>,
     <<"pending_confirmation", "cancelled">>,
     <<"accepted", "preparing">>, <<"preparing", "ready">>,
     <<"ready", "completed">>}
    \cup (Working \X {"cancelled"})

\* What a step may do to the status and the history of one order: nothing, or
\* one move with its row.
StatusStep(o) ==
    \/ /\ history'[o] = history[o]
       /\ orders'[o].status = orders[o].status
    \/ /\ history'[o] = Append(history[o], orders'[o].status)
       /\ <<orders[o].status, orders'[o].status>> \in Moves
       /\ orders[o].status = "pending_confirmation" /\ orders'[o].status = "cancelled"
            => NotDispatched(outbox[ConfirmJob(o)])

LEMMA MovesChange ==
    ASSUME NEW s, NEW t, <<s, t>> \in Moves
    PROVE  s # t /\ t # "absent" /\ s \in Status /\ t \in Status
  BY DEF Moves, Working, Status

\* Enter is one move of one order.
LEMMA EnterStep ==
    ASSUME TypeOK, NEW p \in Orders, NEW s \in Status, NEW c, Enter(p, s, c),
           <<orders[p].status, s>> \in Moves,
           orders[p].status = "pending_confirmation" /\ s = "cancelled"
                => NotDispatched(outbox[ConfirmJob(p)])
    PROVE  \A o \in Orders : StatusStep(o)
<1> SUFFICES ASSUME NEW o \in Orders PROVE StatusStep(o) OBVIOUS
<1>1. /\ history'[p] = Append(history[p], s)
      /\ \A q \in Orders \ {p} : history'[q] = history[q]
  BY DEF Enter, TypeOK
<1>2. orders'[p].status = s /\ \A q \in Orders \ {p} : orders'[q] = orders[q]
  BY EnterEffect
<1>3. CASE o = p BY <1>1, <1>2, <1>3 DEF StatusStep
<1>4. CASE o # p BY <1>1, <1>2, <1>4 DEF StatusStep
<1>. QED BY <1>3, <1>4

\* A step that touches neither statuses nor history.
LEMMA StayStep ==
    ASSUME UNCHANGED history, \A o \in Orders : orders'[o].status = orders[o].status
    PROVE  \A o \in Orders : StatusStep(o)
  BY DEF StatusStep

LEMMA EventMoves ==
    ASSUME NEW s \in Status, NEW t \in EventTypes, EventTransition(s, t) # "absent",
           EventTransition(s, t) # s
    PROVE  /\ <<s, EventTransition(s, t)>> \in Moves
           /\ s # "pending_confirmation"
  BY DEF EventTransition, Status, EventTypes, Moves, Working

LEMMA GiveUpStep ==
    ASSUME OrdersSound, NEW w \in Workers, workers[w] # Idle, GiveUp(w)
    PROVE  \A o \in Orders : StatusStep(o)
<1> DEFINE p == workers[w].job[1]
<1>0. TypeOK /\ p \in Orders BY BusyType DEF OrdersSound
<1>1. CASE IsCancel(workers[w].job)
  <2>1. /\ UNCHANGED history
        /\ orders' = [orders EXCEPT ![p].cancellation =
                        IF @ = "requested" THEN "failed" ELSE @]
    BY <1>1 DEF GiveUp
  <2>2. \A o \in Orders : orders'[o].status = orders[o].status
    BY <1>0, <2>1 DEF TypeOK, Order
  <2>. QED BY <2>1, <2>2, StayStep
<1>2. CASE /\ orders[p].status = "pending_confirmation"
           /\ Enter(p, "confirmation_expired", orders[p].cancellation)
  BY <1>0, <1>2, EnterStep DEF Moves, Status
<1>3. CASE UNCHANGED <<orders, history>> BY <1>3, StayStep
<1>. QED BY <1>1, <1>2, <1>3 DEF GiveUp

LEMMA StatusSteps ==
    ASSUME OrdersSound, [Next]_vars PROVE \A o \in Orders : StatusStep(o)
<1> DEFINE Steps == \A o \in Orders : StatusStep(o)
<1>0. TypeOK BY DEF OrdersSound
<1>1. ASSUME NEW p \in Orders, CreateOrder(p) PROVE Steps
  BY <1>0, <1>1, EnterStep DEF CreateOrder, Moves, Status
<1>2. ASSUME NEW p \in Orders, CancelBeforeDispatch(p) PROVE Steps
  BY <1>0, <1>2, EnterStep DEF CancelBeforeDispatch, Moves, Status
<1>3. ASSUME NEW p \in Orders, NEW k \in 1..MaxCancels, RequestCancellation(p, k)
      PROVE  Steps
  <2>1. \A o \in Orders : orders'[o].status = orders[o].status
    BY <1>0, <1>3 DEF RequestCancellation, TypeOK, Order
  <2>. QED BY <1>3, <2>1, StayStep DEF RequestCancellation
<1>4. ASSUME NEW p \in Orders, DeadlinePasses(p) PROVE Steps
  <2>1. \A o \in Orders : orders'[o].status = orders[o].status
    BY <1>0, <1>4 DEF DeadlinePasses, TypeOK, Order
  <2>. QED BY <1>4, <2>1, StayStep DEF DeadlinePasses
<1>5. ASSUME NEW e \in Event, RecordOrderEvent(e) PROVE Steps
  <2> SUFFICES ASSUME NEW o \in Orders PROVE StatusStep(o) OBVIOUS
  <2> DEFINE p == e.order
             target == EventTransition(orders[p].status, e.type)
  <2>1. p \in Orders /\ e.type \in EventTypes /\ orders[p].status \in Status
    BY <1>0 DEF Event, TypeOK, Order
  <2>2. /\ orders'[p].status = target
        /\ \A q \in Orders \ {p} : orders'[q] = orders[q]
    BY <1>0, <1>5, EventEffect
  <2>3. history' = HistoryAfter(p, target) /\ target # "absent"
    BY <1>5 DEF RecordOrderEvent
  <2>4. CASE target = orders[p].status
    BY <2>2, <2>3, <2>4 DEF HistoryAfter, StatusStep
  <2>5. CASE target # orders[p].status
    <3>1. <<orders[p].status, target>> \in Moves
          /\ orders[p].status # "pending_confirmation"
      BY <2>1, <2>3, <2>5, EventMoves
    <3>2. /\ history'[p] = Append(history[p], target)
          /\ \A q \in Orders \ {p} : history'[q] = history[q]
      BY <1>0, <2>1, <2>3, <2>5 DEF HistoryAfter, TypeOK
    <3> HIDE DEF p, target
    <3>3. CASE o = p BY <2>2, <3>1, <3>2, <3>3 DEF StatusStep
    <3>4. CASE o # p BY <2>2, <3>2, <3>4 DEF StatusStep
    <3>. QED BY <3>3, <3>4
  <2>. QED BY <2>4, <2>5
<1>6. ASSUME NEW w \in Workers, NEW d \in Decisions, ResolveOutbox(w, d) PROVE Steps
  <2> DEFINE p == workers[w].job[1]
  <2>1. p \in Orders BY <1>0, <1>6, PhaseBusy, BusyType DEF ResolveOutbox
  <2>2. CASE orders[p].status = "pending_confirmation"
    <3>1. Enter(p, d, orders[p].cancellation) BY <1>6, <2>2 DEF ResolveOutbox
    <3>2. <<orders[p].status, d>> \in Moves /\ d \in Status /\ d # "cancelled"
      BY <2>2 DEF Decisions, Moves, Status
    <3>. QED BY <1>0, <2>1, <3>1, <3>2, EnterStep
  <2>3. CASE orders[p].status # "pending_confirmation"
    BY <1>6, <2>3, StayStep DEF ResolveOutbox
  <2>. QED BY <2>2, <2>3
<1>7. ASSUME NEW w \in Workers, NEW d \in CancellationDecisions,
             ResolveCancellation(w, d)
      PROVE  Steps
  <2> DEFINE p == workers[w].job[1]
  <2>1. p \in Orders BY <1>0, <1>7, PhaseBusy, BusyType DEF ResolveCancellation
  <2>2. OrderSound(p) BY <2>1 DEF OrdersSound
  <2>3. CASE UNCHANGED <<orders, history>> BY <2>3, StayStep
  <2>4. CASE orders[p].cancellation = "requested" /\ Enter(p, "cancelled", "confirmed")
    <3>1. orders[p].status \in Working BY <2>2, <2>4 DEF OrderSound, Working
    <3>2. <<orders[p].status, "cancelled">> \in Moves
          /\ orders[p].status # "pending_confirmation"
      BY <3>1 DEF Moves, Working
    <3>. QED BY <1>0, <2>1, <2>4, <3>2, EnterStep DEF Status
  <2>5. CASE orders' = [orders EXCEPT ![p].cancellation = "rejected"] /\ UNCHANGED history
    <3>1. \A o \in Orders : orders'[o].status = orders[o].status
      BY <1>0, <2>1, <2>5 DEF TypeOK, Order
    <3>. QED BY <2>5, <3>1, StayStep
  <2>. QED BY <1>7, <2>3, <2>4, <2>5 DEF ResolveCancellation
<1>8. ASSUME NEW w \in Workers, ExpireClaimed(w) PROVE Steps
  BY <1>8, GiveUpStep, PhaseBusy DEF ExpireClaimed
<1>9. ASSUME NEW w \in Workers, NEW r \in BOOLEAN, NEW n \in BOOLEAN,
             DeliveryFailed(w, r, n)
      PROVE  Steps
  <2>1. CASE GiveUp(w) BY <1>9, <2>1, GiveUpStep, PhaseBusy DEF DeliveryFailed
  <2>2. CASE Reschedule(w) BY <2>2, StayStep DEF Reschedule
  <2>. QED BY <1>9, <2>1, <2>2 DEF DeliveryFailed
<1>10. ASSUME NEW w \in Workers, Dispatch(w) \/ LeaseLost(w) \/ Abandon(w) PROVE Steps
  BY <1>10, StayStep DEF Dispatch, LeaseLost, Abandon
<1>11. ASSUME NEW w \in Workers, NEW j \in Jobs, ClaimOutbox(w, j) PROVE Steps
  BY <1>11, StayStep DEF ClaimOutbox
<1>12. ASSUME NEW j \in Jobs, LeaseExpires(j) \/ BackoffElapses(j) PROVE Steps
  BY <1>12, StayStep DEF LeaseExpires, BackoffElapses
<1>13. CASE UNCHANGED vars BY <1>13, StayStep DEF vars
<1>. QED
  BY <1>1, <1>2, <1>3, <1>4, <1>5, <1>6, <1>7, <1>8, <1>9, <1>10, <1>11, <1>12,
     <1>13 DEF Next, Conclude, CancelOrder

\* HistoryMatchesStatus of one order.
HistorySound(o) ==
    /\ orders[o].status = IF history[o] = <<>> THEN "absent"
                          ELSE history[o][Len(history[o])]
    /\ \A i \in 1..(Len(history[o]) - 1) : history[o][i] # history[o][i + 1]

LEMMA HistoryStep ==
    ASSUME OrdersSound, NEW o \in Orders, HistorySound(o), StatusStep(o)
    PROVE  HistorySound(o)'
<1> DEFINE h == history[o]
           t == orders'[o].status
<1>1. h \in Seq(Status) BY DEF OrdersSound, TypeOK
<1>2. CASE history'[o] = h /\ t = orders[o].status BY <1>2 DEF HistorySound
<1>3. CASE history'[o] = Append(h, t) /\ <<orders[o].status, t>> \in Moves
  <2>1. t \in Status /\ t # orders[o].status BY <1>3, MovesChange
  <2> HIDE DEF h, t
  <2>2. /\ Len(Append(h, t)) = Len(h) + 1 /\ Append(h, t)[Len(h) + 1] = t
        /\ \A i \in 1..Len(h) : Append(h, t)[i] = h[i]
        /\ Append(h, t) # <<>> /\ Len(h) \in Nat
    BY <1>1, <2>1
  <2>3. h # <<>> => h[Len(h)] # t BY <2>1 DEF HistorySound, h
  <2>4. ASSUME NEW i \in 1..Len(h) PROVE Append(h, t)[i] # Append(h, t)[i + 1]
    <3>1. CASE i = Len(h) BY <1>1, <2>2, <2>3, <3>1
    <3>2. CASE i # Len(h)
      <4>1. i \in 1..(Len(h) - 1) /\ i \in 1..Len(h) /\ i + 1 \in 1..Len(h)
        BY <2>2, <3>2
      <4>2. h[i] # h[i + 1] BY <4>1 DEF HistorySound, h
      <4>. QED BY <2>2, <4>1, <4>2
    <3>. QED BY <3>1, <3>2
  <2>. QED BY <1>3, <2>2, <2>4 DEF HistorySound, t
<1>. QED BY <1>2, <1>3 DEF StatusStep

\* The last row of order_status_history is the status of the order and no
\* status follows itself, although the answer to a cancellation and the
\* order_cancelled callback both report it.
THEOREM HistoryTrue == Spec => []HistoryMatchesStatus
<1> DEFINE Inv == \A o \in Orders : HistorySound(o)
<1>1. Init => Inv BY DEF Init, NoOrder, HistorySound
<1>2. OrdersSound /\ Inv /\ [Next]_vars => Inv' BY StatusSteps, HistoryStep
<1>3. Inv => HistoryMatchesStatus BY DEF HistorySound, HistoryMatchesStatus
<1>. QED BY <1>1, <1>2, <1>3, Soundness, PTL DEF Spec

-----------------------------------------------------------------------------
(* The events of the venue *)

\* Only a callback touches the events and the sequence numbers.
LEMMA SequenceSteps ==
    ASSUME TypeOK, [Next]_vars, ~\E e \in Event : RecordOrderEvent(e)
    PROVE  /\ UNCHANGED events
           /\ \A o \in Orders : orders'[o].sequence = orders[o].sequence
<1> DEFINE Keeps == \A o \in Orders : orders'[o].sequence = orders[o].sequence
           Same == UNCHANGED events /\ Keeps
<1>1. ASSUME NEW p \in Orders, NEW s, NEW c, Enter(p, s, c) PROVE Keeps
  BY <1>1 DEF Enter, TypeOK, Order
<1>2. ASSUME NEW p \in Orders,
             CreateOrder(p) \/ CancelOrder(p) \/ DeadlinePasses(p)
      PROVE  Same
  <2>1. CASE CreateOrder(p) BY <1>1, <2>1 DEF CreateOrder
  <2>2. CASE CancelBeforeDispatch(p) BY <1>1, <2>2 DEF CancelBeforeDispatch
  <2>3. ASSUME NEW k \in 1..MaxCancels, RequestCancellation(p, k) PROVE Same
    BY <2>3 DEF RequestCancellation, TypeOK, Order
  <2>4. CASE DeadlinePasses(p) BY <2>4 DEF DeadlinePasses, TypeOK, Order
  <2>. QED BY <1>2, <2>1, <2>2, <2>3, <2>4 DEF CancelOrder
<1>3. ASSUME NEW w \in Workers, workers[w] # Idle, GiveUp(w) PROVE Same
  <2> DEFINE p == workers[w].job[1]
  <2>0. p \in Orders BY <1>3, BusyType
  <2>1. CASE orders' = [orders EXCEPT ![p].cancellation =
                            IF @ = "requested" THEN "failed" ELSE @]
    BY <1>3, <2>0, <2>1 DEF GiveUp, Finish, TypeOK, Order
  <2>2. CASE Enter(p, "confirmation_expired", orders[p].cancellation)
    BY <1>1, <1>3, <2>0, <2>2 DEF GiveUp, Finish
  <2>3. CASE UNCHANGED <<orders, history>> BY <1>3, <2>3 DEF GiveUp, Finish
  <2>. QED BY <1>3, <2>1, <2>2, <2>3 DEF GiveUp
<1>4. ASSUME NEW w \in Workers, NEW d \in Decisions, ResolveOutbox(w, d) PROVE Same
  <2> DEFINE p == workers[w].job[1]
  <2>0. p \in Orders BY <1>4, PhaseBusy, BusyType DEF ResolveOutbox
  <2>. QED BY <1>1, <1>4, <2>0 DEF ResolveOutbox, Finish
<1>5. ASSUME NEW w \in Workers, NEW d \in CancellationDecisions,
             ResolveCancellation(w, d)
      PROVE  Same
  <2> DEFINE p == workers[w].job[1]
  <2>0. p \in Orders BY <1>5, PhaseBusy, BusyType DEF ResolveCancellation
  <2>1. CASE orders' = [orders EXCEPT ![p].cancellation = "rejected"]
    BY <1>5, <2>0, <2>1 DEF ResolveCancellation, Finish, TypeOK, Order
  <2>2. CASE Enter(p, "cancelled", "confirmed")
    BY <1>1, <1>5, <2>0, <2>2 DEF ResolveCancellation, Finish
  <2>3. CASE UNCHANGED <<orders, history>>
    BY <1>5, <2>3 DEF ResolveCancellation, Finish
  <2>. QED BY <1>5, <2>1, <2>2, <2>3 DEF ResolveCancellation
<1>6. ASSUME NEW w \in Workers, NEW r \in BOOLEAN, NEW n \in BOOLEAN,
             DeliveryFailed(w, r, n)
      PROVE  Same
  BY <1>3, <1>6, PhaseBusy DEF DeliveryFailed, Reschedule, Finish
<1>7. ASSUME NEW w \in Workers, ExpireClaimed(w) PROVE Same
  BY <1>3, <1>7, PhaseBusy DEF ExpireClaimed
<1>8. ASSUME NEW w \in Workers, Dispatch(w) \/ LeaseLost(w) \/ Abandon(w) PROVE Same
  BY <1>8 DEF Dispatch, LeaseLost, Abandon, Finish
<1>9. ASSUME NEW w \in Workers, NEW j \in Jobs, ClaimOutbox(w, j) PROVE Same
  BY <1>9 DEF ClaimOutbox
<1>10. ASSUME NEW j \in Jobs, LeaseExpires(j) \/ BackoffElapses(j) PROVE Same
  BY <1>10 DEF LeaseExpires, BackoffElapses
<1>11. CASE UNCHANGED vars BY <1>11 DEF vars
<1>. QED
  BY <1>2, <1>4, <1>5, <1>6, <1>7, <1>8, <1>9, <1>10, <1>11 DEF Next, Conclude

\* The numbers of the events recorded for an order.
Numbers(o) == {e.sequence : e \in {d \in events : d.order = o}}

LEMMA NumbersStep ==
    ASSUME TypeOK, EventsGapless, NEW e \in Event, RecordOrderEvent(e)
    PROVE  EventsGapless'
<1> DEFINE o == e.order
<1>1. o \in Orders /\ e.sequence \in 1..MaxSequence BY DEF Event
<1>2. /\ events' = events \cup {e}
      /\ e.sequence = orders[o].sequence + 1
      /\ \A d \in events : d.id # e.id
  BY DEF RecordOrderEvent, NextEvent
<1>3. /\ orders'[o].sequence = e.sequence
      /\ \A p \in Orders \ {o} : orders'[p] = orders[p]
  BY <1>1 DEF RecordOrderEvent, TypeOK, Order
<1>4. \A p \in Orders : Numbers(p) = 1..orders[p].sequence /\ orders[p].sequence \in Nat
  BY DEF EventsGapless, Numbers, TypeOK, Order
<1>5. ASSUME NEW p \in Orders PROVE Numbers(p)' = 1..orders'[p].sequence
  <2>1. CASE p # o
    <3>1. Numbers(p)' = Numbers(p) BY <1>2, <2>1 DEF Numbers
    <3>. QED BY <1>3, <1>4, <2>1, <3>1
  <2>2. CASE p = o
    <3>1. Numbers(p)' = Numbers(p) \cup {e.sequence} BY <1>2, <2>2 DEF Numbers
    <3>2. Numbers(p) = 1..orders[o].sequence /\ orders[o].sequence \in Nat
      BY <1>1, <1>4, <2>2
    <3>. QED BY <1>2, <1>3, <2>2, <3>1, <3>2
  <2>. QED BY <2>1, <2>2
<1>6. ASSUME NEW d \in events PROVE ~(d.order = o /\ d.sequence = e.sequence)
  <2>1. d.order = o => d.sequence \in Numbers(o) BY DEF Numbers
  <2>2. e.sequence \notin 1..orders[o].sequence BY <1>1, <1>2, <1>4
  <2>. QED BY <1>1, <1>4, <2>1, <2>2
<1>7. ASSUME NEW c \in events', NEW d \in events',
             c.id = d.id \/ (c.order = d.order /\ c.sequence = d.sequence)
      PROVE  c = d
  BY <1>2, <1>6, <1>7 DEF EventsGapless
<1>. QED BY <1>5, <1>7 DEF EventsGapless, Numbers

LEMMA NumbersInit == Init => EventsGapless
  BY DEF Init, EventsGapless, NoOrder

LEMMA NumbersNext == TypeOK /\ EventsGapless /\ [Next]_vars => EventsGapless'
<1> SUFFICES ASSUME TypeOK, EventsGapless, [Next]_vars PROVE EventsGapless'
  OBVIOUS
<1>1. ASSUME NEW e \in Event, RecordOrderEvent(e) PROVE EventsGapless'
  BY <1>1, NumbersStep
<1>2. CASE ~\E e \in Event : RecordOrderEvent(e)
  BY <1>2, SequenceSteps DEF EventsGapless
<1>. QED BY <1>1, <1>2

\* The events recorded for an order are numbered from 1 without a gap or a
\* repeat, whatever RecordOrderEvent is sent.
THEOREM EventsNumbered == Spec => []EventsGapless
<1>. QED BY NumbersInit, NumbersNext, TypeCorrect, PTL DEF Spec

-----------------------------------------------------------------------------
(* Orders withdrawn before dispatch *)

Withdrawn == <<"pending_confirmation", "cancelled">>

\* A busy worker holds a row that was claimed at least once.
ClaimSound(w) ==
    workers[w] # Idle => /\ outbox[workers[w].job].state # "absent"
                         /\ outbox[workers[w].job].attempts > 0

\* A withdrawn order has a confirm_order row that was never claimed, and an
\* order that does not exist has none.
WithdrawalSound(o) ==
    /\ history[o] = Withdrawn => outbox[ConfirmJob(o)].attempts = 0
    /\ orders[o].status = "absent" => outbox[ConfirmJob(o)].state = "absent"

RecordsSound ==
    /\ OrdersSound
    /\ \A o \in Orders : HistorySound(o) /\ WithdrawalSound(o)
    /\ \A w \in Workers : ClaimSound(w)

\* What a step may do to one row of the outbox: a row appears, is claimed, or
\* keeps its attempts.
RowStep(j) ==
    \/ /\ outbox'[j].attempts = outbox[j].attempts
       /\ outbox'[j].state = "absent" <=> outbox[j].state = "absent"
    \/ /\ CreateOrder(j[1]) /\ ~IsCancel(j) /\ outbox'[j] = FreshRow
    \/ /\ IsCancel(j) /\ outbox[j].state = "absent" /\ outbox'[j] = FreshRow
    \/ /\ Claimable(j) /\ outbox'[j].state = outbox[j].state
       /\ outbox'[j].attempts > 0

LEMMA CloseRowStep ==
    ASSUME TypeOK, NEW i \in Jobs, outbox[i].state # "absent", Close(i)
    PROVE  \A j \in Jobs : RowStep(j)
  BY DEF TypeOK, Close, Row, RowStep

LEMMA CancelsClosedRowStep ==
    ASSUME TypeOK, NEW o \in Orders, outbox' = CancelsClosed(o)
    PROVE  \A j \in Jobs : RowStep(j)
<1> SUFFICES ASSUME NEW j \in Jobs
             PROVE  /\ outbox'[j].attempts = outbox[j].attempts
                    /\ outbox'[j].state = "absent" <=> outbox[j].state = "absent"
  BY DEF RowStep
<1>. QED BY DEF TypeOK, CancelsClosed, Row

LEMMA SameRowStep == UNCHANGED outbox => \A j \in Jobs : RowStep(j)
  BY DEF RowStep

LEMMA ClaimRowStep ==
    ASSUME TypeOK, NEW w \in Workers, NEW i \in Jobs, ClaimOutbox(w, i)
    PROVE  /\ \A j \in Jobs : RowStep(j)
           /\ outbox[i].state = "queued" /\ outbox'[i].state = "queued"
           /\ outbox'[i].attempts > 0
           /\ workers'[w] # Idle => workers'[w].job = i
           /\ \A v \in Workers \ {w} : workers'[v] = workers[v]
<1> DEFINE a == IF outbox[i].attempts < MaxAttempts
                THEN outbox[i].attempts + 1 ELSE MaxAttempts
           r == [outbox[i] EXCEPT !.leased = TRUE, !.token = w, !.attempts = a]
<1>1. outbox[i] \in Row BY DEF TypeOK
<1>2. a > 0 BY <1>1 DEF Row
<1>3. outbox' = [outbox EXCEPT ![i] = r] BY <1>1 DEF ClaimOutbox, TypeOK, Row
<1>4. r.attempts = a /\ r.state = outbox[i].state BY <1>1 DEF Row
<1>5. outbox'[i] = r /\ \A j \in Jobs \ {i} : outbox'[j] = outbox[j]
  BY <1>3 DEF TypeOK
<1>6. Claimable(i) /\ outbox[i].state = "queued" BY DEF ClaimOutbox, Claimable
<1>7. /\ workers'[w] # Idle => workers'[w].job = i
      /\ \A v \in Workers \ {w} : workers'[v] = workers[v]
  BY DEF ClaimOutbox, TypeOK
<1> HIDE DEF a, r
<1>8. ASSUME NEW j \in Jobs PROVE RowStep(j)
  BY <1>2, <1>4, <1>5, <1>6 DEF RowStep
<1>. QED BY <1>2, <1>4, <1>5, <1>6, <1>7, <1>8

\* What a step may do to one worker: it keeps its job, becomes idle, or claims
\* a row that is there.
WorkerStep(w) ==
    \/ workers'[w] = Idle
    \/ workers[w] # Idle /\ workers'[w].job = workers[w].job
    \/ /\ workers'[w].job \in Jobs
       /\ outbox'[workers'[w].job].state # "absent"
       /\ outbox'[workers'[w].job].attempts > 0

LEMMA SameWorkers == UNCHANGED workers => \A w \in Workers : WorkerStep(w)
  BY DEF WorkerStep

LEMMA FinishWorkers ==
    ASSUME TypeOK, NEW v \in Workers, Finish(v)
    PROVE  \A w \in Workers : WorkerStep(w)
  BY DEF TypeOK, Finish, WorkerStep

LEMMA RowSteps ==
    ASSUME OrdersSound, [Next]_vars
    PROVE  /\ \A j \in Jobs : RowStep(j)
           /\ \A w \in Workers : WorkerStep(w)
<1> DEFINE Steps == /\ \A j \in Jobs : RowStep(j)
                    /\ \A w \in Workers : WorkerStep(w)
<1>0. TypeOK BY DEF OrdersSound
<1>1. ASSUME NEW o \in Orders, CreateOrder(o) PROVE Steps
  <2>1. UNCHANGED workers /\ outbox' = [outbox EXCEPT ![ConfirmJob(o)] = FreshRow]
    BY <1>1 DEF CreateOrder
  <2>2. ConfirmJob(o) \in Jobs /\ ConfirmJob(o)[1] = o /\ ~IsCancel(ConfirmJob(o))
    BY DEF ConfirmJob, Jobs, IsCancel
  <2>3. ASSUME NEW j \in Jobs PROVE RowStep(j)
    <3>1. CASE j = ConfirmJob(o)
      <4>1. outbox'[j] = FreshRow BY <1>0, <2>1, <3>1 DEF TypeOK
      <4>. QED BY <1>1, <2>2, <3>1, <4>1 DEF RowStep
    <3>2. CASE j # ConfirmJob(o)
      <4>1. outbox'[j] = outbox[j] BY <1>0, <2>1, <3>2 DEF TypeOK
      <4>. QED BY <4>1 DEF RowStep
    <3>. QED BY <3>1, <3>2
  <2>. QED BY <2>1, <2>3, SameWorkers
<1>2. ASSUME NEW o \in Orders, CancelBeforeDispatch(o) PROVE Steps
  <2>1. ConfirmJob(o) \in Jobs BY DEF ConfirmJob, Jobs
  <2>2. outbox[ConfirmJob(o)].state # "absent"
    BY <1>2 DEF CancelBeforeDispatch, NotDispatched
  <2>. QED BY <1>0, <1>2, <2>1, <2>2, CloseRowStep, SameWorkers
           DEF CancelBeforeDispatch
<1>3. ASSUME NEW o \in Orders, NEW k \in 1..MaxCancels, RequestCancellation(o, k)
      PROVE  Steps
  <2>1. /\ UNCHANGED workers /\ outbox' = [outbox EXCEPT ![<<o, k>>] = FreshRow]
        /\ outbox[<<o, k>>].state = "absent"
    BY <1>3 DEF RequestCancellation
  <2>2. ASSUME NEW j \in Jobs PROVE RowStep(j)
    <3>1. CASE j = <<o, k>>
      <4>1. outbox'[j] = FreshRow BY <1>0, <2>1, <3>1 DEF TypeOK
      <4>. QED BY <2>1, <3>1, <4>1 DEF RowStep, IsCancel
    <3>2. CASE j # <<o, k>>
      <4>1. outbox'[j] = outbox[j] BY <1>0, <2>1, <3>2 DEF TypeOK
      <4>. QED BY <4>1 DEF RowStep
    <3>. QED BY <3>1, <3>2
  <2>. QED BY <2>1, <2>2, SameWorkers
<1>4. ASSUME NEW o \in Orders, DeadlinePasses(o) PROVE Steps
  BY <1>4, SameRowStep, SameWorkers DEF DeadlinePasses
<1>5. ASSUME NEW e \in Event, RecordOrderEvent(e) PROVE Steps
  <2>1. e.order \in Orders BY DEF Event
  <2>2. UNCHANGED workers /\ (UNCHANGED outbox \/ outbox' = CancelsClosed(e.order))
    BY <1>5 DEF RecordOrderEvent
  <2>. QED BY <1>0, <2>1, <2>2, CancelsClosedRowStep, SameRowStep, SameWorkers
<1>6. ASSUME NEW w \in Workers, NEW j \in Jobs, ClaimOutbox(w, j) PROVE Steps
  <2>1. workers'[w].job = j
    BY <1>0, <1>6 DEF ClaimOutbox, TypeOK
  <2>2. /\ \A i \in Jobs : RowStep(i)
        /\ outbox'[j].state = "queued" /\ outbox'[j].attempts > 0
        /\ \A v \in Workers \ {w} : workers'[v] = workers[v]
    BY <1>0, <1>6, ClaimRowStep
  <2>3. ASSUME NEW v \in Workers PROVE WorkerStep(v)
    <3>1. CASE v = w BY <2>1, <2>2, <3>1 DEF WorkerStep
    <3>2. CASE v # w BY <2>2, <3>2 DEF WorkerStep
    <3>. QED BY <3>1, <3>2
  <2>. QED BY <2>2, <2>3
<1>7. ASSUME NEW w \in Workers, Dispatch(w) PROVE Steps
  <2>1. workers[w] \in Claim BY <1>0, <1>7, PhaseBusy, BusyType DEF Dispatch
  <2>2. \A v \in Workers : workers[v] = Idle => workers'[v] = Idle
    BY <1>0, <1>7, PhaseBusy DEF Dispatch, TypeOK
  <2>3. \A v \in Workers : workers[v] # Idle => workers'[v].job = workers[v].job
    BY <1>0, <1>7, <2>1 DEF Dispatch, TypeOK, Claim
  <2>. QED BY <1>7, <2>2, <2>3, SameRowStep DEF Dispatch, WorkerStep
<1>8. ASSUME NEW w \in Workers, workers[w] # Idle, Finish(w), HoldsLease(w),
             Close(workers[w].job)
      PROVE  Steps
  <2>1. workers[w].job \in Jobs /\ outbox[workers[w].job].state # "absent"
    BY <1>0, <1>8, BusyType DEF HoldsLease
  <2>. QED BY <1>0, <1>8, <2>1, CloseRowStep, FinishWorkers
<1>9. ASSUME NEW w \in Workers, NEW d \in Decisions, ResolveOutbox(w, d) PROVE Steps
  BY <1>8, <1>9, PhaseBusy DEF ResolveOutbox
<1>10. ASSUME NEW w \in Workers, NEW d \in CancellationDecisions,
              ResolveCancellation(w, d)
       PROVE  Steps
  BY <1>8, <1>10, PhaseBusy DEF ResolveCancellation
<1>11. ASSUME NEW w \in Workers, workers[w] # Idle, Reschedule(w) PROVE Steps
  <2>1. workers[w].job \in Jobs BY <1>0, <1>11, BusyType
  <2>2. ASSUME NEW j \in Jobs
        PROVE  outbox'[j].attempts = outbox[j].attempts
                    /\ outbox'[j].state = outbox[j].state
    <3> DEFINE i == workers[w].job
               row == [outbox[i] EXCEPT !.due = FALSE, !.token = NoWorker,
                                        !.leased = FALSE]
    <3>1. outbox \in [Jobs -> Row] /\ outbox[i] \in Row BY <1>0, <2>1 DEF TypeOK
    <3>2. outbox' = [outbox EXCEPT ![i] = row] BY <1>11 DEF Reschedule
    <3>3. row.attempts = outbox[i].attempts /\ row.state = outbox[i].state
      BY <3>1 DEF Row
    <3> HIDE DEF row, i
    <3>. QED BY <3>1, <3>2, <3>3
  <2>. QED BY <1>0, <1>11, <2>2, FinishWorkers DEF Reschedule, RowStep
<1>12. ASSUME NEW w \in Workers, workers[w] # Idle, GiveUp(w) PROVE Steps
  BY <1>8, <1>12 DEF GiveUp
<1>13. ASSUME NEW w \in Workers, ExpireClaimed(w) PROVE Steps
  BY <1>12, <1>13, PhaseBusy DEF ExpireClaimed
<1>14. ASSUME NEW w \in Workers, NEW r \in BOOLEAN, NEW n \in BOOLEAN,
              DeliveryFailed(w, r, n)
       PROVE  Steps
  BY <1>11, <1>12, <1>14, PhaseBusy DEF DeliveryFailed
<1>15. ASSUME NEW w \in Workers, LeaseLost(w) \/ Abandon(w) PROVE Steps
  BY <1>0, <1>15, SameRowStep, FinishWorkers DEF LeaseLost, Abandon
<1>16. ASSUME NEW i \in Jobs, LeaseExpires(i) \/ BackoffElapses(i) PROVE Steps
  <2>1. ASSUME NEW j \in Jobs
        PROVE  outbox'[j].attempts = outbox[j].attempts
                    /\ outbox'[j].state = outbox[j].state
    <3>1. CASE LeaseExpires(i) BY <1>0, <3>1 DEF LeaseExpires, TypeOK, Row
    <3>2. CASE BackoffElapses(i) BY <1>0, <3>2 DEF BackoffElapses, TypeOK, Row
    <3>. QED BY <1>16, <3>1, <3>2
  <2>. QED BY <1>16, <2>1, SameWorkers DEF LeaseExpires, BackoffElapses, RowStep
<1>17. CASE UNCHANGED vars BY <1>17, SameRowStep, SameWorkers DEF vars
<1>. QED
  BY <1>1, <1>2, <1>3, <1>4, <1>5, <1>6, <1>7, <1>9, <1>10, <1>13, <1>14, <1>15,
     <1>16, <1>17 DEF Next, Conclude, CancelOrder

LEMMA LastOfTwo ==
    ASSUME NEW S, NEW h \in Seq(S), NEW t \in S, NEW a, NEW b
    PROVE  Append(h, t) = <<a, b>> => h # <<>> /\ h[Len(h)] = a /\ t = b
<1> DEFINE g == Append(h, t)
<1>1. /\ Len(g) = Len(h) + 1 /\ Len(h) \in Nat /\ g[Len(h) + 1] = t
      /\ \A i \in 1..Len(h) : g[i] = h[i]
      /\ h = <<>> => Len(h) = 0
  OBVIOUS
<1> HIDE DEF g
<1>2. g = <<a, b>> => Len(g) = 2 /\ g[1] = a /\ g[2] = b
  OBVIOUS
<1> DEFINE n == Len(h)
           m == Len(g)
<1>3. m = n + 1 /\ n \in Nat BY <1>1
<1> HIDE DEF n, m
<1>4. m = 2 => n = 1 BY <1>3
<1> USE DEF n, m
<1>5. n = 1 => h # <<>> /\ h[n] = g[1] /\ t = g[2] BY <1>1
<1>. QED BY <1>2, <1>4, <1>5 DEF g

LEMMA RecordsInit == Init => RecordsSound
  BY SoundInit DEF Init, NoOrder, RecordsSound, HistorySound, WithdrawalSound,
     Withdrawn, ClaimSound, ConfirmJob, Jobs, NoRow

LEMMA RecordsNext == RecordsSound /\ [Next]_vars => RecordsSound'
<1> SUFFICES ASSUME RecordsSound, [Next]_vars PROVE RecordsSound'
  OBVIOUS
<1>0. OrdersSound /\ OrdersSound' /\ TypeOK /\ TypeOK'
  BY SoundNext DEF RecordsSound, OrdersSound
<1>1. /\ \A o \in Orders : StatusStep(o)
      /\ \A j \in Jobs : RowStep(j)
      /\ \A w \in Workers : WorkerStep(w)
  BY <1>0, StatusSteps, RowSteps
<1>2. \A o \in Orders : HistorySound(o)'
  BY <1>0, <1>1, HistoryStep DEF RecordsSound
<1>3. ASSUME NEW o \in Orders PROVE WithdrawalSound(o)'
  <2> DEFINE j == ConfirmJob(o)
  <2>0. j \in Jobs /\ j[1] = o /\ ~IsCancel(j) BY DEF ConfirmJob, Jobs, IsCancel
  <2>1. /\ StatusStep(o) /\ RowStep(j) /\ HistorySound(o) /\ WithdrawalSound(o)
        /\ history[o] \in Seq(Status)
    BY <1>0, <1>1, <2>0 DEF RecordsSound, TypeOK
  <2>2. ASSUME orders'[o].status = "absent" PROVE outbox'[j].state = "absent"
    <3>1. orders[o].status = "absent" BY <2>1, <2>2, MovesChange DEF StatusStep
    <3>2. ~CreateOrder(o) BY <1>0, <2>2, EnterEffect DEF CreateOrder
    <3>3. outbox[j].state = "absent" /\ ~Claimable(j)
      BY <2>0, <2>1, <3>1 DEF WithdrawalSound, Claimable
    <3>. QED BY <2>0, <2>1, <3>2, <3>3 DEF RowStep
  <2>3. ASSUME history'[o] = Withdrawn PROVE outbox'[j].attempts = 0
    <3>1. CASE history[o] = Withdrawn /\ orders'[o].status = orders[o].status
      <4>1. orders[o].status = "cancelled" /\ outbox[j].attempts = 0
        BY <2>1, <3>1 DEF HistorySound, WithdrawalSound, Withdrawn
      <4>2. ~CreateOrder(o) /\ ~Claimable(j)
        BY <2>0, <4>1 DEF CreateOrder, Claimable
      <4>. QED BY <2>0, <2>1, <4>1, <4>2 DEF RowStep
    <3>2. CASE /\ history'[o] = Append(history[o], orders'[o].status)
               /\ <<orders[o].status, orders'[o].status>> \in Moves
      <4>1. orders'[o].status = "cancelled"
            /\ history[o] # <<>> /\ history[o][Len(history[o])] = "pending_confirmation"
        <5>1. orders'[o].status \in Status BY <3>2, MovesChange
        <5>2. Append(history[o], orders'[o].status)
                = <<"pending_confirmation", "cancelled">>
          BY <2>3, <3>2 DEF Withdrawn
        <5>. QED BY <2>1, <5>1, <5>2, LastOfTwo
      <4>2. orders[o].status = "pending_confirmation" BY <2>1, <4>1 DEF HistorySound
      <4>3. NotDispatched(outbox[j])
        BY <2>1, <3>2, <4>1, <4>2 DEF StatusStep
      <4>4. ~CreateOrder(o) BY <4>2 DEF CreateOrder
      <4>5. outbox[j].attempts = 0 /\ outbox[j].state = "queued"
        BY <4>3 DEF NotDispatched
      <4>6. outbox'[j].state # "queued"
        <5>1. OrderSound(o)' BY <1>0 DEF OrdersSound
        <5>. QED BY <4>1, <5>1 DEF OrderSound
      <4>. QED BY <2>0, <2>1, <4>4, <4>5, <4>6 DEF RowStep
    <3>. QED BY <2>1, <2>3, <3>1, <3>2 DEF StatusStep
  <2>. QED BY <2>2, <2>3 DEF WithdrawalSound
<1>4. ASSUME NEW w \in Workers PROVE ClaimSound(w)'
  <2> SUFFICES ASSUME workers'[w] # Idle
               PROVE  /\ outbox'[workers'[w].job].state # "absent"
                      /\ outbox'[workers'[w].job].attempts > 0
    BY DEF ClaimSound
  <2>1. CASE workers[w] # Idle /\ workers'[w].job = workers[w].job
    <3> DEFINE j == workers[w].job
    <3>1. j \in Jobs /\ j[1] \in Orders /\ j = <<j[1], j[2]>> /\ j[2] \in 0..MaxCancels
      BY <1>0, <2>1, BusyType
    <3>2. outbox[j].state # "absent" /\ outbox[j].attempts > 0
      BY <2>1 DEF RecordsSound, ClaimSound
    <3>3. RowStep(j) BY <1>1, <3>1
    <3>4. CreateOrder(j[1]) => IsCancel(j)
      <4> SUFFICES ASSUME CreateOrder(j[1]), ~IsCancel(j) PROVE FALSE OBVIOUS
      <4>1. j = ConfirmJob(j[1]) BY <3>1 DEF IsCancel, ConfirmJob
      <4>2. orders[j[1]].status = "absent" BY DEF CreateOrder
      <4>3. outbox[j].state = "absent"
        BY <3>1, <4>1, <4>2 DEF RecordsSound, WithdrawalSound
      <4>. QED BY <3>2, <4>3
    <3> HIDE DEF j
    <3>5. outbox'[j].state # "absent" /\ outbox'[j].attempts > 0
      BY <3>2, <3>3, <3>4 DEF RowStep
    <3>. QED BY <2>1, <3>5 DEF j
  <2>2. CASE /\ outbox'[workers'[w].job].state # "absent"
             /\ outbox'[workers'[w].job].attempts > 0
    BY <2>2
  <2>. QED BY <1>1, <2>1, <2>2 DEF WorkerStep
<1>. QED BY <1>0, <1>2, <1>3, <1>4 DEF RecordsSound

\* Once CancelOrder has withdrawn the confirmation of an order, no worker of
\* the outbox holds that job: "cancelled before dispatch" is true.
THEOREM WithdrawnForGood == Spec => []WithdrawnNeverDispatched
<1>1. RecordsSound => WithdrawnNeverDispatched
  <2> SUFFICES ASSUME RecordsSound, NEW o \in Orders, history[o] = Withdrawn,
                      NEW w \in Workers, workers[w] # Idle,
                      workers[w].job = ConfirmJob(o)
               PROVE  FALSE
    BY DEF WithdrawnNeverDispatched, Withdrawn
  <2>1. outbox[ConfirmJob(o)].attempts = 0 /\ outbox[ConfirmJob(o)].attempts > 0
    BY DEF RecordsSound, WithdrawalSound, ClaimSound
  <2>. QED BY <2>1
<1>. QED BY <1>1, RecordsInit, RecordsNext, PTL DEF Spec
=============================================================================
