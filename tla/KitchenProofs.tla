---------------------------- MODULE KitchenProofs ----------------------------
(***************************************************************************)
(* Proofs about Kitchen, for any orders, workers, attempts, cancellations, *)
(* items and supplies.  What PlatformOrders and VenueOrders guarantee on   *)
(* their own is taken from their proofs: every step of Kitchen is a step   *)
(* of each of them or leaves it alone.                                     *)
(***************************************************************************)
EXTENDS Kitchen, TLAPS

\* The two parts once more, with the theorems about them.
PP == INSTANCE PlatformOrdersProofs WITH EventIds <- V!Callbacks, MaxSequence <- 3
VP == INSTANCE VenueOrdersProofs

-----------------------------------------------------------------------------
(* The parts *)

\* PP and P, and VP and V, instantiate the same definitions.
LEMMA PlatformSame ==
    /\ P!Init => PP!Init
    /\ P!TypeOK <=> PP!TypeOK
    /\ P!Next <=> PP!Next
    /\ UNCHANGED P!vars <=> UNCHANGED PP!vars
  BY DEF P!vars, P!Status, P!CancellationStatus, P!Decisions,
     P!CancellationDecisions, P!EventTypes, P!Event, P!Order, P!NoOrder,
     P!Jobs, P!ConfirmJob, P!IsCancel, P!Row, P!NoRow, P!FreshRow, P!Idle,
     P!Claim, P!TypeOK, P!Init, P!Enter, P!Close, P!HoldsLease,
     P!NotDispatched, P!Claimable, P!EventTransition, P!NextEvent,
     P!CancellationAfter, P!CancelsClosed, P!HistoryAfter, P!CreateOrder,
     P!CancelBeforeDispatch, P!RequestCancellation, P!CancelOrder,
     P!RecordOrderEvent, P!ClaimOutbox, P!Late, P!Dispatch, P!Finish,
     P!ResolveOutbox, P!ResolveCancellation, P!Reschedule, P!GiveUp,
     P!ExpireClaimed, P!Terminal, P!DeliveryFailed, P!LeaseLost, P!Abandon,
     P!LeaseExpires, P!BackoffElapses, P!DeadlinePasses, P!Conclude, P!Next,
     PP!vars, PP!Status, PP!CancellationStatus, PP!Decisions,
     PP!CancellationDecisions, PP!EventTypes, PP!Event, PP!Order, PP!NoOrder,
     PP!Jobs, PP!ConfirmJob, PP!IsCancel, PP!Row, PP!NoRow, PP!FreshRow,
     PP!Idle, PP!Claim, PP!TypeOK, PP!Init, PP!Enter, PP!Close, PP!HoldsLease,
     PP!NotDispatched, PP!Claimable, PP!EventTransition, PP!NextEvent,
     PP!CancellationAfter, PP!CancelsClosed, PP!HistoryAfter, PP!CreateOrder,
     PP!CancelBeforeDispatch, PP!RequestCancellation, PP!CancelOrder,
     PP!RecordOrderEvent, PP!ClaimOutbox, PP!Late, PP!Dispatch, PP!Finish,
     PP!ResolveOutbox, PP!ResolveCancellation, PP!Reschedule, PP!GiveUp,
     PP!ExpireClaimed, PP!Terminal, PP!DeliveryFailed, PP!LeaseLost,
     PP!Abandon, PP!LeaseExpires, PP!BackoffElapses, PP!DeadlinePasses,
     PP!Conclude, PP!Next

LEMMA VenueSame ==
    /\ V!Init => VP!Init
    /\ V!TypeOK <=> VP!TypeOK
    /\ V!Next <=> VP!Next
    /\ UNCHANGED V!vars <=> UNCHANGED VP!vars
  BY DEF V!vars, V!Reasons, V!VenueOrder, V!NoVenueOrder, V!EventTypes,
     V!Callbacks, V!Callback, V!NoCallback, V!Idle, V!Sending, V!TypeOK,
     V!Init, V!Lacking, V!Judge, V!Reserved, V!DecideOrder, V!Released,
     V!Enqueue, V!Transition, V!StartPreparing, V!MarkReady, V!Complete,
     V!Undecided, V!Cancellable, V!CancelAccepted, V!RefuseCancellation,
     V!CancelOrder, V!NextInLine, V!ClaimCallback, V!HoldsLease, V!Finish,
     V!CompleteCallback, V!RetryCallback, V!LoseCallback, V!LeaseExpires,
     V!BackoffElapses, V!Next, VP!vars, VP!Reasons, VP!VenueOrder,
     VP!NoVenueOrder, VP!EventTypes, VP!Callbacks, VP!Callback, VP!NoCallback,
     VP!Idle, VP!Sending, VP!TypeOK, VP!Init, VP!Lacking, VP!Judge,
     VP!Reserved, VP!DecideOrder, VP!Released, VP!Enqueue, VP!Transition,
     VP!StartPreparing, VP!MarkReady, VP!Complete, VP!Undecided,
     VP!Cancellable, VP!CancelAccepted, VP!RefuseCancellation, VP!CancelOrder,
     VP!NextInLine, VP!ClaimCallback, VP!HoldsLease, VP!Finish,
     VP!CompleteCallback, VP!RetryCallback, VP!LoseCallback, VP!LeaseExpires,
     VP!BackoffElapses, VP!Next

LEMMA Assumptions ==
    /\ PP!WorkersAssumption /\ PP!AttemptsAssumption /\ PP!BoundsAssumption
    /\ VP!SendersAssumption /\ VP!QuantityAssumption /\ VP!SupplyAssumption
  BY PartsAssumption DEF PP!WorkersAssumption, PP!AttemptsAssumption, PP!BoundsAssumption,
     VP!SendersAssumption, VP!QuantityAssumption, VP!SupplyAssumption

\* A posted event is a row of venue_outbox.
PostedSound ==
    posted \subseteq V!Callbacks /\ \A c \in posted : callbacks[c].state # "absent"

PartsSound ==
    /\ PP!RecordsSound /\ PP!EventsGapless
    /\ VP!VenueSound /\ \A o \in Orders : VP!AnswersSound(o)
    /\ sent \subseteq P!Jobs
    /\ PostedSound

LEMMA PartsTypes == PartsSound => P!TypeOK /\ V!TypeOK
  BY PlatformSame, VenueSame DEF PartsSound, PP!RecordsSound, PP!OrdersSound, VP!VenueSound

LEMMA CallbacksSame == V!Callbacks = VP!Callbacks
  BY DEF V!Callbacks, VP!Callbacks

\* What a row of venue_outbox says about its order.
LEMMA RowTells ==
    ASSUME PartsSound, NEW c \in V!Callbacks, callbacks[c].state # "absent"
    PROVE  /\ c[1] \in Orders /\ c[2] \in 1..3 /\ c = <<c[1], c[2]>>
           /\ LET type == callbacks[c].type
                  status == venue[c[1]].status
              IN  \/ c[2] = 1 /\ type = "order_preparing"
                              /\ status \in {"preparing", "ready", "completed"}
                  \/ c[2] = 1 /\ type = "order_cancelled" /\ status = "cancelled"
                  \/ c[2] = 2 /\ type = "order_ready" /\ status \in {"ready", "completed"}
                  \/ c[2] = 3 /\ type = "order_completed" /\ status = "completed"
<1> DEFINE o == c[1]
           n == c[2]
<1>1. o \in Orders /\ n \in 1..3 /\ c = <<o, n>> BY DEF V!Callbacks
<1>2. VP!VenueSound BY DEF PartsSound
<1> HIDE DEF o, n
<1>3. callbacks[<<o, n>>].state # "absent" BY <1>1
<1>4. LET type == callbacks[<<o, n>>].type
          status == venue[o].status
      IN  \/ n = 1 /\ type = "order_preparing"
                   /\ status \in {"preparing", "ready", "completed"}
          \/ n = 1 /\ type = "order_cancelled" /\ status = "cancelled"
          \/ n = 2 /\ type = "order_ready" /\ status \in {"ready", "completed"}
          \/ n = 3 /\ type = "order_completed" /\ status = "completed"
  BY <1>1, <1>2, <1>3, Assumptions, VP!EventTells
<1>. QED BY <1>1, <1>4 DEF o, n

\* The body of a posted request is an event.
LEMMA EventOfType ==
    ASSUME PartsSound, NEW c \in V!Callbacks, callbacks[c].state # "absent"
    PROVE  EventOf(c) \in P!Event
  BY RowTells DEF EventOf, P!Event, P!EventTypes

LEMMA DecisionType == \A o \in Orders : Decision(o) \in P!Decisions
  BY DEF Decision, P!Decisions

\* Every step of Kitchen is a step of the platform or leaves it alone.
LEMMA PlatformNext == PartsSound /\ [Next]_vars => [P!Next]_(P!vars)
<1> SUFFICES ASSUME PartsSound, [Next]_vars PROVE [P!Next]_(P!vars) OBVIOUS
<1>0. P!TypeOK /\ V!TypeOK BY PartsTypes
<1>1. CASE PlatformLocal BY <1>1 DEF PlatformLocal, P!Next
<1>2. ASSUME NEW w \in Workers, Dispatch(w) PROVE P!Next
  BY <1>2 DEF Dispatch, P!Next
<1>3. ASSUME NEW w \in Workers, workers[w].phase = "calling"
      PROVE  workers[w].job[1] \in Orders
  BY <1>0, <1>3 DEF P!TypeOK, P!Idle, P!Claim, P!Jobs
<1>4. ASSUME NEW w \in Workers, ReceiveDecision(w) PROVE P!Next
  <2>1. Decision(workers[w].job[1]) \in P!Decisions
    BY <1>3, <1>4, DecisionType DEF ReceiveDecision
  <2>. QED BY <1>4, <2>1 DEF ReceiveDecision, P!Next, P!Conclude
<1>5. ASSUME NEW w \in Workers, ReceiveCancellation(w) PROVE P!Next
  <2>1. venue[workers[w].job[1]].saved \in P!CancellationDecisions
    BY <1>0, <1>3, <1>5 DEF ReceiveCancellation, V!TypeOK, V!VenueOrder, P!CancellationDecisions
  <2>. QED BY <1>5, <2>1 DEF ReceiveCancellation, P!Next, P!Conclude
<1>6. ASSUME NEW w \in Workers, CallFails(w) PROVE P!Next
  BY <1>6 DEF CallFails, P!Next, P!Conclude
<1>7. ASSUME NEW c \in V!Callbacks, HandleEvent(c) PROVE P!Next
  <2>1. EventOf(c) \in P!Event
    BY <1>7, EventOfType DEF HandleEvent, PartsSound, PostedSound
  <2>. QED BY <1>7, <2>1 DEF HandleEvent, P!Next
<1>8. ASSUME UNCHANGED platformVars PROVE UNCHANGED P!vars
  BY <1>8 DEF platformVars, P!vars
<1>9. CASE \/ VenueLocal \/ UNCHANGED vars
           \/ \E o \in Orders : HandleOrder(o)
           \/ \E j \in P!Jobs : HandleCancel(j)
           \/ \E s \in Senders : ReceiveDelivered(s) \/ \E c \in V!Callbacks : Post(s, c)
  BY <1>8, <1>9 DEF VenueLocal, vars, HandleOrder, HandleCancel, ReceiveDelivered, Post
<1>. QED BY <1>1, <1>2, <1>4, <1>5, <1>6, <1>7, <1>9 DEF Next

\* Every step of Kitchen is a step of the venue or leaves it alone.
LEMMA VenueNext == PartsSound /\ [Next]_vars => [V!Next]_(V!vars)
<1> SUFFICES ASSUME PartsSound, [Next]_vars PROVE [V!Next]_(V!vars) OBVIOUS
<1>0. P!TypeOK /\ V!TypeOK BY PartsTypes
<1>1. CASE VenueLocal BY <1>1 DEF VenueLocal, V!Next
<1>2. ASSUME NEW o \in Orders, HandleOrder(o) PROVE V!Next
  BY <1>2 DEF HandleOrder, V!Next
<1>3. ASSUME NEW j \in P!Jobs, HandleCancel(j) PROVE V!Next
  <2>1. j[1] \in Orders BY DEF P!Jobs
  <2>. QED BY <1>3, <2>1 DEF HandleCancel, V!Next
<1>4. ASSUME NEW s \in Senders, NEW c \in V!Callbacks, Post(s, c) PROVE V!Next
  BY <1>4 DEF Post, V!Next
<1>5. ASSUME NEW s \in Senders, ReceiveDelivered(s) PROVE V!Next
  BY <1>5 DEF ReceiveDelivered, V!Next
<1>6. ASSUME UNCHANGED venueVars PROVE UNCHANGED V!vars
  BY <1>6 DEF venueVars, V!vars
<1>7. CASE \/ PlatformLocal \/ UNCHANGED vars
           \/ \E w \in Workers :
                Dispatch(w) \/ ReceiveDecision(w) \/ ReceiveCancellation(w) \/ CallFails(w)
           \/ \E c \in V!Callbacks : HandleEvent(c)
  BY <1>6, <1>7 DEF PlatformLocal, vars, Dispatch, ReceiveDecision, ReceiveCancellation,
                    CallFails, HandleEvent
<1>. QED BY <1>1, <1>2, <1>3, <1>4, <1>5, <1>7 DEF Next

LEMMA PartsInit == Init => PartsSound
<1> SUFFICES ASSUME Init PROVE PartsSound OBVIOUS
<1>1. PP!Init /\ VP!Init /\ sent = {} /\ posted = {}
  BY PlatformSame, VenueSame DEF Init
<1>2. PP!RecordsSound /\ PP!EventsGapless
  BY <1>1, Assumptions, PP!RecordsInit, PP!NumbersInit
<1>3. VP!VenueSound /\ \A o \in Orders : VP!AnswersSound(o)
  BY <1>1, Assumptions, VP!VenueInit, VP!AnswersInit
<1>. QED BY <1>1, <1>2, <1>3 DEF PartsSound, PostedSound

\* Rows of venue_outbox only change in the ways of the venue.
LEMMA RowsStay ==
    ASSUME PartsSound, [Next]_vars, NEW c \in V!Callbacks, callbacks[c].state # "absent"
    PROVE  /\ callbacks'[c].state # "absent"
           /\ EventOf(c)' = EventOf(c)
           /\ callbacks[c].state = "processed" => callbacks'[c].state = "processed"
<1>1. VP!VenueSound /\ [VP!Next]_(VP!vars) /\ c \in VP!Callbacks
  BY VenueNext, VenueSame, CallbacksSame DEF PartsSound
<1>2. VP!EventStays(c) BY <1>1, Assumptions, VP!EventsStay
<1>. QED BY <1>2 DEF VP!EventStays, EventOf

LEMMA PartsNext == PartsSound /\ [Next]_vars => PartsSound'
<1> SUFFICES ASSUME PartsSound, [Next]_vars PROVE PartsSound' OBVIOUS
<1>1. [PP!Next]_(PP!vars) BY PlatformNext, PlatformSame
<1>2. [VP!Next]_(VP!vars) BY VenueNext, VenueSame
<1>3. PP!TypeOK /\ PP!RecordsSound /\ PP!EventsGapless
  BY DEF PartsSound, PP!RecordsSound, PP!OrdersSound
<1>4. PP!RecordsSound' BY <1>1, <1>3, Assumptions, PP!RecordsNext
<1>5. PP!EventsGapless' BY <1>1, <1>3, Assumptions, PP!NumbersNext
<1>6. VP!VenueSound' BY <1>2, Assumptions, VP!VenueNext DEF PartsSound
<1>7. \A o \in Orders : VP!AnswersSound(o)'
  BY <1>2, Assumptions, VP!AnswersNext DEF PartsSound
<1>8. sent' \subseteq P!Jobs
  <2>1. ASSUME NEW w \in Workers, Dispatch(w) PROVE workers[w].job \in P!Jobs
    BY <2>1, PartsTypes DEF Dispatch, P!Dispatch, P!TypeOK, P!Idle, P!Claim
  <2>2. sent' = sent \/ \E w \in Workers : Dispatch(w) /\ sent' = sent \cup {workers[w].job}
    BY DEF Next, vars, PlatformLocal, VenueLocal, Dispatch, HandleOrder, HandleCancel,
           ReceiveDecision, ReceiveCancellation, CallFails, Post, HandleEvent, ReceiveDelivered
  <2>. QED BY <2>1, <2>2 DEF PartsSound
<1>9. PostedSound'
  <2>1. \/ posted' = posted
        \/ \E s \in Senders, c \in V!Callbacks : Post(s, c)
    BY DEF Next, vars, PlatformLocal, VenueLocal, Dispatch, HandleOrder, HandleCancel,
           ReceiveDecision, ReceiveCancellation, CallFails, HandleEvent, ReceiveDelivered
  <2>2. \A c \in V!Callbacks :
            callbacks[c].state # "absent" => callbacks'[c].state # "absent"
    BY RowsStay
  <2>3. ASSUME NEW s \in Senders, NEW c \in V!Callbacks, Post(s, c)
        PROVE  posted' = posted \cup {c} /\ callbacks[c].state # "absent"
    BY <2>3 DEF Post, V!ClaimCallback
  <2>. QED BY <2>1, <2>2, <2>3 DEF PartsSound, PostedSound
<1>. QED BY <1>4, <1>5, <1>6, <1>7, <1>8, <1>9 DEF PartsSound

LEMMA PartsHold == Spec => []PartsSound
<1>. QED BY PartsInit, PartsNext, PTL DEF Spec

\* Between them the calls of Kitchen ask each side for nothing that its own
\* module does not allow: the two services, put together, still behave as
\* PlatformOrders and VenueOrders describe them one by one, so everything
\* proved of those two holds here as well.
THEOREM PartsBehave == Spec => P!Spec /\ V!Spec
<1>1. Init => P!Init /\ V!Init BY DEF Init
<1>. QED BY <1>1, PlatformNext, VenueNext, PartsHold, PTL DEF Spec, P!Spec, V!Spec

\* What each service guarantees on its own holds of the two together, over a
\* network that delays, repeats and loses calls.  The platform: orders and jobs
\* agree, as do status and cancellation_status, the history is true, events are
\* numbered without a gap, a withdrawn order is never dispatched and a final
\* outcome stays.
THEOREM PlatformKeepsPromises ==
    Spec => /\ []P!JobsMatchOrders /\ []P!CancelledIffConfirmed
            /\ []P!HistoryMatchesStatus /\ []P!EventsGapless
            /\ []P!WithdrawnNeverDispatched /\ P!FinalOutcomesStick
<1>1. P!Init => PP!Init BY PlatformSame
<1>2. [P!Next]_(P!vars) => [PP!Next]_(PP!vars) BY PlatformSame
<1>3. Spec => PP!Spec BY <1>1, <1>2, PartsBehave, PTL DEF P!Spec, PP!Spec
<1>4. PP!Spec => []PP!JobsMatchOrders BY Assumptions, PP!QueueServesOrders
<1>5. PP!Spec => []PP!CancelledIffConfirmed BY Assumptions, PP!ColumnsAgree
<1>6. PP!Spec => []PP!HistoryMatchesStatus BY Assumptions, PP!HistoryTrue
<1>7. PP!Spec => []PP!EventsGapless BY Assumptions, PP!EventsNumbered
<1>8. PP!Spec => []PP!WithdrawnNeverDispatched BY Assumptions, PP!WithdrawnForGood
<1>9. PP!Spec => PP!FinalOutcomesStick BY Assumptions, PP!FinalForGood
<1>10. PP!JobsMatchOrders => P!JobsMatchOrders
  BY DEF PP!JobsMatchOrders, P!JobsMatchOrders, PP!ConfirmJob, P!ConfirmJob,
         PP!QueuedCancels, P!QueuedCancels
<1>11. PP!CancelledIffConfirmed => P!CancelledIffConfirmed
  BY DEF PP!CancelledIffConfirmed, P!CancelledIffConfirmed
<1>12. PP!HistoryMatchesStatus => P!HistoryMatchesStatus
  BY DEF PP!HistoryMatchesStatus, P!HistoryMatchesStatus
<1>13. PP!EventsGapless => P!EventsGapless BY DEF PP!EventsGapless, P!EventsGapless
<1>14. PP!WithdrawnNeverDispatched => P!WithdrawnNeverDispatched
  BY DEF PP!WithdrawnNeverDispatched, P!WithdrawnNeverDispatched, PP!ConfirmJob,
         P!ConfirmJob, PP!Idle, P!Idle
<1>15. PP!FinalOutcomesStick => P!FinalOutcomesStick
  BY PTL DEF PP!FinalOutcomesStick, P!FinalOutcomesStick, PP!vars, P!vars
<1>. QED
  BY <1>3, <1>4, <1>5, <1>6, <1>7, <1>8, <1>9, <1>10, <1>11, <1>12, <1>13, <1>14, <1>15,
     PTL

\* The venue: stock is conserved, its events tell the status and are delivered
\* in order, and its decisions are final.
THEOREM VenueKeepsPromises ==
    Spec => /\ []V!StockConserved /\ []V!LogTellsStatus /\ []V!DeliveredInOrder
            /\ V!DecisionsStable
<1>1. V!Init => VP!Init BY VenueSame
<1>2. [V!Next]_(V!vars) => [VP!Next]_(VP!vars) BY VenueSame
<1>3. Spec => VP!Spec BY <1>1, <1>2, PartsBehave, PTL DEF V!Spec, VP!Spec
<1>4. VP!Spec => []VP!StockConserved BY Assumptions, VP!StockAddsUp
<1>5. VP!Spec => []VP!LogTellsStatus BY Assumptions, VP!EventsTellStatus
<1>6. VP!Spec => []VP!DeliveredInOrder BY Assumptions, VP!EventsInOrder
<1>7. VP!Spec => VP!DecisionsStable BY Assumptions, VP!DecisionsForGood
<1>8. VP!StockConserved => V!StockConserved
  BY DEF VP!StockConserved, V!StockConserved, VP!Reserving, V!Reserving,
         VP!MapThenSumSet, V!MapThenSumSet, VP!MapThenFoldSet, V!MapThenFoldSet
<1>9. VP!LogTellsStatus => V!LogTellsStatus BY DEF VP!LogTellsStatus, V!LogTellsStatus
<1>10. VP!DeliveredInOrder => V!DeliveredInOrder
  BY CallbacksSame DEF VP!DeliveredInOrder, V!DeliveredInOrder
<1>11. VP!DecisionsStable => V!DecisionsStable
  BY PTL DEF VP!DecisionsStable, V!DecisionsStable, VP!vars, V!vars
<1>. QED BY <1>3, <1>4, <1>5, <1>6, <1>7, <1>8, <1>9, <1>10, <1>11, PTL

\* The tables and workers of both services and the requests between them keep
\* their types.
THEOREM TypeCorrect == Spec => []TypeOK
<1>1. PartsSound => TypeOK BY PartsTypes DEF PartsSound, PostedSound, TypeOK
<1>. QED BY <1>1, PartsHold, PTL

-----------------------------------------------------------------------------
(* What a step does to the orders of the platform *)

Same(o) ==
    /\ orders'[o].status = orders[o].status
    /\ orders'[o].cancellation = orders[o].cancellation
    /\ orders'[o].sequence = orders[o].sequence

\* One order gets another status or cancellation_status.
Moves(o, status, cancellation) ==
    /\ orders'[o].status = status
    /\ orders'[o].cancellation = cancellation
    /\ orders'[o].sequence = orders[o].sequence
    /\ \A p \in Orders \ {o} : Same(p)

\* The moves of an order that are not reported by an event of the venue, with
\* what the row of the venue says when it is asked for.
Create(o) == orders[o].status = "absent" /\ Moves(o, "pending_confirmation", "none")

Withdraw(o) ==
    /\ orders[o].status = "pending_confirmation"
    /\ orders[o].cancellation \notin {"requested", "rejected"}
    /\ outbox[P!ConfirmJob(o)].attempts = 0 /\ outbox'[P!ConfirmJob(o)].attempts = 0
    /\ Moves(o, "cancelled", "confirmed")

Decide(o) ==
    /\ orders[o].status = "pending_confirmation"
    /\ venue[o].status # "absent"
    /\ Moves(o, Decision(o), orders[o].cancellation)

Expire(o) ==
    /\ orders[o].status = "pending_confirmation"
    /\ Moves(o, "confirmation_expired", orders[o].cancellation)

Ask(o) ==
    /\ orders[o].status = "accepted"
    /\ orders[o].cancellation \in {"none", "failed"}
    /\ Moves(o, "accepted", "requested")

Answer(o) ==
    /\ orders[o].cancellation = "requested"
    /\ \/ venue[o].saved = "cancelled" /\ Moves(o, "cancelled", "confirmed")
       \/ venue[o].saved = "rejected" /\ Moves(o, orders[o].status, "rejected")
       \/ Moves(o, orders[o].status, "failed")

\* The event of row c is recorded.
Report(c) ==
    LET o == c[1]
        type == callbacks[c].type
    IN  /\ P!EventTransition(orders[o].status, type) # "absent"
        /\ c[2] = orders[o].sequence + 1
        /\ orders'[o].status = P!EventTransition(orders[o].status, type)
        /\ orders'[o].cancellation = P!CancellationAfter(type, orders[o].cancellation)
        /\ orders'[o].sequence = c[2]
        /\ \A p \in Orders \ {o} : Same(p)
        /\ events' = events \cup {EventOf(c)}

LocalMove(o) == Create(o) \/ Withdraw(o) \/ Decide(o) \/ Expire(o) \/ Ask(o) \/ Answer(o)

PlatformStep ==
    \/ UNCHANGED events /\ \A o \in Orders : Same(o)
    \/ UNCHANGED events /\ \E o \in Orders : LocalMove(o)
    \/ \E c \in posted : Report(c)

LEMMA EnterMoves ==
    ASSUME P!TypeOK, NEW o \in Orders, NEW s, NEW c, P!Enter(o, s, c)
    PROVE  Moves(o, s, c)
  BY DEF P!TypeOK, P!Order, P!Enter, Moves, Same

\* UPDATE orders SET cancellation_status alone.
LEMMA FlagMoves ==
    ASSUME P!TypeOK, NEW o \in Orders, NEW c,
           orders' = [orders EXCEPT ![o].cancellation = c]
    PROVE  Moves(o, orders[o].status, c)
  BY DEF P!TypeOK, P!Order, Moves, Same

LEMMA SameSteps == UNCHANGED <<orders, events>> => PlatformStep
  BY DEF PlatformStep, Same

LEMMA GiveUpStep ==
    ASSUME PartsSound, NEW w \in Workers, workers[w].phase \in {"claimed", "calling"},
           P!GiveUp(w)
    PROVE  PlatformStep
<1> DEFINE o == workers[w].job[1]
<1>0. P!TypeOK /\ UNCHANGED events BY PartsTypes DEF P!GiveUp, P!Finish
<1>1. o \in Orders BY <1>0 DEF P!TypeOK, P!Idle, P!Claim, P!Jobs
<1>2. CASE orders' = [orders EXCEPT ![o].cancellation =
                        IF orders[o].cancellation = "requested" THEN "failed"
                        ELSE orders[o].cancellation]
  <2>1. CASE orders[o].cancellation = "requested"
    <3>1. Moves(o, orders[o].status, "failed") BY <1>0, <1>1, <1>2, <2>1, FlagMoves
    <3>. QED BY <1>0, <1>1, <2>1, <3>1 DEF PlatformStep, LocalMove, Answer
  <2>2. CASE orders[o].cancellation # "requested"
    <3>1. UNCHANGED orders BY <1>0, <1>1, <1>2, <2>2 DEF P!TypeOK, P!Order
    <3>. QED BY <1>0, <3>1, SameSteps
  <2>. QED BY <2>1, <2>2
<1>3. CASE /\ orders[o].status = "pending_confirmation"
           /\ P!Enter(o, "confirmation_expired", orders[o].cancellation)
  <2>1. Moves(o, "confirmation_expired", orders[o].cancellation)
    BY <1>0, <1>1, <1>3, EnterMoves
  <2>. QED BY <1>0, <1>1, <1>3, <2>1 DEF PlatformStep, LocalMove, Expire
<1>4. CASE UNCHANGED orders BY <1>0, <1>4, SameSteps
<1>. QED BY <1>0, <1>1, <1>2, <1>3, <1>4 DEF P!GiveUp, P!TypeOK, P!Order

LEMMA LocalSteps ==
    ASSUME PartsSound, PlatformLocal PROVE PlatformStep
<1>0. P!TypeOK BY PartsTypes
<1>1. ASSUME NEW o \in Orders, P!CreateOrder(o) PROVE PlatformStep
  <2>1. Moves(o, "pending_confirmation", "none")
    BY <1>0, <1>1, EnterMoves DEF P!CreateOrder
  <2>. QED BY <1>1, <2>1 DEF P!CreateOrder, PlatformStep, LocalMove, Create
<1>2. ASSUME NEW o \in Orders, P!CancelBeforeDispatch(o) PROVE PlatformStep
  <2> DEFINE j == P!ConfirmJob(o)
  <2>1. Moves(o, "cancelled", "confirmed")
    BY <1>0, <1>2, EnterMoves DEF P!CancelBeforeDispatch
  <2>2. j \in P!Jobs /\ outbox[j] \in P!Row
    <3>1. j \in P!Jobs BY PartsAssumption DEF P!ConfirmJob, P!Jobs
    <3>. QED BY <1>0, <3>1 DEF P!TypeOK
  <2>3. outbox[j].attempts = 0 /\ outbox'[j].attempts = 0
    BY <1>0, <1>2, <2>2
       DEF P!CancelBeforeDispatch, P!NotDispatched, P!Close, P!TypeOK, P!Row
  <2>. QED BY <1>2, <2>1, <2>3 DEF P!CancelBeforeDispatch, PlatformStep, LocalMove, Withdraw
<1>3. ASSUME NEW o \in Orders, NEW k \in 1..MaxCancels, P!RequestCancellation(o, k)
      PROVE  PlatformStep
  <2>1. Moves(o, orders[o].status, "requested")
    BY <1>0, <1>3, FlagMoves DEF P!RequestCancellation
  <2>. QED BY <1>3, <2>1 DEF P!RequestCancellation, PlatformStep, LocalMove, Ask
<1>4. ASSUME NEW o \in Orders, P!DeadlinePasses(o) PROVE PlatformStep
  BY <1>0, <1>4 DEF P!DeadlinePasses, P!TypeOK, P!Order, PlatformStep, Same
<1>5. ASSUME NEW j \in P!Jobs, P!LeaseExpires(j) \/ P!BackoffElapses(j) PROVE PlatformStep
  BY <1>5, SameSteps DEF P!LeaseExpires, P!BackoffElapses
<1>6. ASSUME NEW w \in Workers, NEW j \in P!Jobs, P!ClaimOutbox(w, j) PROVE PlatformStep
  BY <1>6, SameSteps DEF P!ClaimOutbox
<1>7. ASSUME NEW w \in Workers, P!ExpireClaimed(w) PROVE PlatformStep
  BY <1>7, GiveUpStep DEF P!ExpireClaimed
<1>8. ASSUME NEW w \in Workers, P!LeaseLost(w) \/ P!Abandon(w) PROVE PlatformStep
  BY <1>8, SameSteps DEF P!LeaseLost, P!Abandon, P!Finish
<1>. QED BY <1>1, <1>2, <1>3, <1>4, <1>5, <1>6, <1>7, <1>8 DEF PlatformLocal, P!CancelOrder

LEMMA PlatformSteps ==
    ASSUME PartsSound, [Next]_vars PROVE PlatformStep
<1>0. P!TypeOK BY PartsTypes
<1>1. ASSUME NEW w \in Workers, workers[w].phase = "calling"
      PROVE  workers[w].job[1] \in Orders
  BY <1>0, <1>1 DEF P!TypeOK, P!Idle, P!Claim, P!Jobs
<1>2. ASSUME NEW w \in Workers, ReceiveDecision(w) PROVE PlatformStep
  <2> DEFINE o == workers[w].job[1]
  <2>1. /\ o \in Orders /\ venue[o].status # "absent" /\ UNCHANGED events
        /\ \/ UNCHANGED orders
           \/ /\ orders[o].status = "pending_confirmation"
              /\ P!Enter(o, Decision(o), orders[o].cancellation)
    BY <1>1, <1>2 DEF ReceiveDecision, P!ResolveOutbox, P!Finish
  <2> HIDE DEF o
  <2>2. CASE UNCHANGED orders BY <2>1, <2>2, SameSteps
  <2>3. CASE P!Enter(o, Decision(o), orders[o].cancellation)
             /\ orders[o].status = "pending_confirmation"
    <3>1. Moves(o, Decision(o), orders[o].cancellation)
      BY <1>0, <2>1, <2>3, EnterMoves
    <3>. QED BY <2>1, <2>3, <3>1 DEF PlatformStep, LocalMove, Decide
  <2>. QED BY <2>1, <2>2, <2>3
<1>3. ASSUME NEW w \in Workers, ReceiveCancellation(w) PROVE PlatformStep
  <2> DEFINE o == workers[w].job[1]
  <2>0. o \in Orders BY <1>1, <1>3 DEF ReceiveCancellation
  <2>1. UNCHANGED events /\ venue[o].saved \in {"cancelled", "rejected"}
    <3>1. venue[o] \in V!VenueOrder BY <2>0, PartsTypes DEF V!TypeOK
    <3>. QED BY <1>3, <3>1 DEF ReceiveCancellation, P!ResolveCancellation, P!Finish, V!VenueOrder
  <2>2. \/ UNCHANGED orders
        \/ /\ orders[o].cancellation = "requested" /\ venue[o].saved = "cancelled"
           /\ P!Enter(o, "cancelled", "confirmed")
        \/ /\ orders[o].cancellation = "requested" /\ venue[o].saved # "cancelled"
           /\ orders' = [orders EXCEPT ![o].cancellation = "rejected"]
    BY <1>3 DEF ReceiveCancellation, P!ResolveCancellation
  <2> HIDE DEF o
  <2>3. CASE UNCHANGED orders BY <2>1, <2>3, SameSteps
  <2>4. CASE /\ orders[o].cancellation = "requested" /\ venue[o].saved = "cancelled"
             /\ P!Enter(o, "cancelled", "confirmed")
    <3>1. Moves(o, "cancelled", "confirmed") BY <1>0, <2>0, <2>4, EnterMoves
    <3>. QED BY <2>0, <2>1, <2>4, <3>1 DEF PlatformStep, LocalMove, Answer
  <2>5. CASE /\ orders[o].cancellation = "requested" /\ venue[o].saved # "cancelled"
             /\ orders' = [orders EXCEPT ![o].cancellation = "rejected"]
    <3>1. Moves(o, orders[o].status, "rejected") BY <1>0, <2>0, <2>5, FlagMoves
    <3>. QED BY <2>0, <2>1, <2>5, <3>1 DEF PlatformStep, LocalMove, Answer
  <2>. QED BY <2>2, <2>3, <2>4, <2>5
<1>4. ASSUME NEW w \in Workers, CallFails(w) PROVE PlatformStep
  <2>1. PICK retryable \in BOOLEAN, near \in BOOLEAN : P!DeliveryFailed(w, retryable, near)
    BY <1>4 DEF CallFails
  <2>2. workers[w].phase = "calling" /\ (P!GiveUp(w) \/ P!Reschedule(w))
    BY <2>1 DEF P!DeliveryFailed
  <2>3. CASE P!Reschedule(w) BY <2>3, SameSteps DEF P!Reschedule, P!Finish
  <2>4. CASE P!GiveUp(w) BY <2>2, <2>4, GiveUpStep
  <2>. QED BY <2>2, <2>3, <2>4
<1>5. ASSUME NEW c \in V!Callbacks, HandleEvent(c) PROVE PlatformStep
  <2> DEFINE o == c[1]
             target == P!EventTransition(orders[o].status, callbacks[c].type)
             flag == P!CancellationAfter(callbacks[c].type, orders[o].cancellation)
             new == [orders[o] EXCEPT !.status = target, !.sequence = c[2],
                                      !.cancellation = flag]
  <2>0. o \in Orders /\ orders[o] \in P!Order BY <1>0 DEF V!Callbacks, P!TypeOK
  <2>1. /\ c \in posted /\ c[2] = orders[o].sequence + 1 /\ target # "absent"
        /\ events' = events \cup {EventOf(c)}
    BY <1>5 DEF HandleEvent, P!RecordOrderEvent, EventOf, P!NextEvent
  <2>2. orders' = [orders EXCEPT ![o] = new]
    BY <1>0, <1>5, <2>0 DEF HandleEvent, P!RecordOrderEvent, EventOf, P!Order, P!TypeOK
  <2>3. new.status = target /\ new.cancellation = flag /\ new.sequence = c[2]
    BY <2>0 DEF P!Order
  <2>4. orders'[o] = new /\ \A p \in Orders \ {o} : orders'[p] = orders[p]
    BY <1>0, <2>0, <2>2 DEF P!TypeOK
  <2> HIDE DEF new
  <2>5. Report(c) BY <2>1, <2>3, <2>4 DEF Report, Same
  <2>. QED BY <2>1, <2>5 DEF PlatformStep
<1>6. CASE UNCHANGED <<orders, events>> BY <1>6, SameSteps
<1>7. CASE \/ VenueLocal \/ UNCHANGED vars
           \/ \E w \in Workers : Dispatch(w)
           \/ \E o \in Orders : HandleOrder(o)
           \/ \E j \in P!Jobs : HandleCancel(j)
           \/ \E s \in Senders : ReceiveDelivered(s) \/ \E c \in V!Callbacks : Post(s, c)
  BY <1>6, <1>7 DEF VenueLocal, platformVars, vars, Dispatch, P!Dispatch, HandleOrder,
                    HandleCancel, ReceiveDelivered, Post
<1>. QED BY <1>2, <1>3, <1>4, <1>5, <1>7, LocalSteps DEF Next

-----------------------------------------------------------------------------
(* The inductive invariant *)

\* A request that was sent left an attempt behind.
SentSound == \A j \in sent : outbox[j].state # "absent" /\ outbox[j].attempts > 0

\* The venue knows and cancels only what the platform asked it to.
CallsSound(o) ==
    /\ venue[o].status # "absent" => P!ConfirmJob(o) \in sent
    /\ venue[o].saved # "none" => \E k \in 1..MaxCancels : <<o, k>> \in sent
    /\ \A k \in 1..MaxCancels :
        outbox[<<o, k>>].state # "absent" => orders[o].cancellation # "none"

\* What the platform shows is what the venue decided; the attempts tell an
\* order that was withdrawn from one that the venue cancelled.
TruthSound(o) ==
    /\ orders[o].status \in Working => venue[o].decision = "accepted"
    /\ orders[o].status = "rejected" => venue[o].status = "rejected"
    /\ orders[o].status = "cancelled"
            => venue[o].status = "cancelled" \/ outbox[P!ConfirmJob(o)].attempts = 0
    /\ orders[o].cancellation = "rejected" => venue[o].saved = "rejected"

\* The status of an order at work tells how many events it has recorded.
SequenceSound(o) ==
    LET status == orders[o].status
        sequence == orders[o].sequence
    IN  /\ status \in {"absent", "pending_confirmation", "accepted"} => sequence = 0
        /\ status = "preparing" => sequence = 1
        /\ status = "ready" => sequence = 2
        /\ status = "completed" => sequence = 3

\* The platform records what the venue reported, and a reported cancellation
\* is the last word.
EventSound(e) ==
    /\ e.id \in posted /\ e = EventOf(e.id)
    /\ e.type = "order_cancelled" => orders[e.order].status = "cancelled"

KitchenSound ==
    /\ PartsSound /\ SentSound
    /\ \A o \in Orders : CallsSound(o) /\ TruthSound(o) /\ SequenceSound(o)
    /\ \A e \in events : EventSound(e)
    /\ NoEventLost

\* What the proofs about the parts say of one order and its rows.
LEMMA Columns ==
    ASSUME PartsSound, NEW o \in Orders
    PROVE  /\ orders[o] \in P!Order /\ venue[o] \in V!VenueOrder
           /\ orders[o].status = "cancelled" <=> orders[o].cancellation = "confirmed"
           /\ orders[o].cancellation \in {"requested", "rejected", "failed"}
                => orders[o].status \in Working
           /\ orders[o].status = "absent" => outbox[P!ConfirmJob(o)].state = "absent"
           /\ history[o] = <<"pending_confirmation", "cancelled">>
                => outbox[P!ConfirmJob(o)].attempts = 0
  BY PartsTypes DEF PartsSound, PP!RecordsSound, PP!OrdersSound, PP!OrderSound,
     PP!WithdrawalSound, PP!Withdrawn, PP!ConfirmJob, P!ConfirmJob, P!TypeOK, V!TypeOK,
     Working

\* The answers of the venue agree with the status it gives to the order.
LEMMA Answers ==
    ASSUME PartsSound, NEW o \in Orders
    PROVE  /\ venue[o].decision = "accepted" <=> venue[o].status \notin {"absent", "rejected"}
           /\ venue[o].saved = "cancelled" <=> venue[o].status = "cancelled"
           /\ venue[o].saved = "rejected"
                => venue[o].status \in {"rejected", "preparing", "ready", "completed"}
  BY DEF PartsSound, VP!AnswersSound

\* A row of the outbox that was claimed stays claimed.
LEMMA AttemptsStay ==
    ASSUME PartsSound, [Next]_vars, NEW j \in P!Jobs,
           outbox[j].state # "absent", outbox[j].attempts > 0
    PROVE  outbox'[j].state # "absent" /\ outbox'[j].attempts > 0
<1>1. PP!RowStep(j)
  <2>1. PP!OrdersSound /\ [PP!Next]_(PP!vars) /\ P!Jobs = PP!Jobs
    BY PlatformNext, PlatformSame DEF PartsSound, PP!RecordsSound, P!Jobs, PP!Jobs
  <2>. QED BY <2>1, Assumptions, PP!RowSteps
<1>2. PP!CreateOrder(j[1]) => PP!IsCancel(j)
  <2> SUFFICES ASSUME PP!CreateOrder(j[1]), ~PP!IsCancel(j) PROVE FALSE OBVIOUS
  <2>1. j[1] \in Orders /\ j = P!ConfirmJob(j[1])
    BY PartsAssumption DEF P!Jobs, PP!IsCancel, P!ConfirmJob
  <2>2. orders[j[1]].status = "absent" BY DEF PP!CreateOrder
  <2>. QED BY <2>1, <2>2, Columns
<1>. QED BY <1>1, <1>2 DEF PP!RowStep

\* A row that was never claimed is only claimed while its order waits.
LEMMA WithdrawnStays ==
    ASSUME PartsSound, [Next]_vars, NEW o \in Orders, orders[o].status = "cancelled",
           outbox[P!ConfirmJob(o)].attempts = 0
    PROVE  outbox'[P!ConfirmJob(o)].attempts = 0
<1> DEFINE j == P!ConfirmJob(o)
<1>1. j \in P!Jobs /\ j[1] = o /\ ~PP!IsCancel(j)
  BY PartsAssumption DEF P!ConfirmJob, P!Jobs, PP!IsCancel
<1>2. PP!RowStep(j)
  <2>1. PP!OrdersSound /\ [PP!Next]_(PP!vars) /\ P!Jobs = PP!Jobs
    BY PlatformNext, PlatformSame DEF PartsSound, PP!RecordsSound, P!Jobs, PP!Jobs
  <2>. QED BY <1>1, <2>1, Assumptions, PP!RowSteps
<1>3. ~PP!CreateOrder(o) /\ ~PP!Claimable(j)
  BY <1>1 DEF PP!CreateOrder, PP!Claimable
<1> HIDE DEF j
<1>. QED BY <1>1, <1>2, <1>3 DEF PP!RowStep, j

LEMMA SentNext == PartsSound /\ SentSound /\ [Next]_vars => SentSound'
<1> SUFFICES ASSUME PartsSound, SentSound, [Next]_vars, NEW j \in sent'
             PROVE  outbox'[j].state # "absent" /\ outbox'[j].attempts > 0
  BY DEF SentSound
<1>1. CASE j \in sent
  BY <1>1, AttemptsStay DEF SentSound, PartsSound
<1>2. ASSUME NEW w \in Workers, Dispatch(w), j = workers[w].job
      PROVE  outbox'[j].state # "absent" /\ outbox'[j].attempts > 0
  <2>1. workers[w] # PP!Idle /\ UNCHANGED outbox
    BY <1>2 DEF Dispatch, P!Dispatch, PP!Idle
  <2>2. PP!ClaimSound(w) BY DEF PartsSound, PP!RecordsSound
  <2>. QED BY <1>2, <2>1, <2>2 DEF PP!ClaimSound
<1>3. sent' = sent \/ \E w \in Workers : Dispatch(w) /\ sent' = sent \cup {workers[w].job}
  BY DEF Next, vars, PlatformLocal, VenueLocal, Dispatch, HandleOrder, HandleCancel,
         ReceiveDecision, ReceiveCancellation, CallFails, Post, HandleEvent, ReceiveDelivered
<1>. QED BY <1>1, <1>2, <1>3

\* A step changes the tables of one side only.
LEMMA OneSide == [Next]_vars => UNCHANGED platformVars \/ UNCHANGED venueVars
  BY DEF Next, vars, PlatformLocal, VenueLocal, Dispatch, HandleOrder, HandleCancel,
         ReceiveDecision, ReceiveCancellation, CallFails, Post, HandleEvent, ReceiveDelivered

LEMMA SentGrows == [Next]_vars => sent \subseteq sent'
  BY DEF Next, vars, PlatformLocal, VenueLocal, Dispatch, HandleOrder, HandleCancel,
         ReceiveDecision, ReceiveCancellation, CallFails, Post, HandleEvent, ReceiveDelivered

LEMMA PostedGrows == [Next]_vars => posted \subseteq posted'
  BY DEF Next, vars, PlatformLocal, VenueLocal, Dispatch, HandleOrder, HandleCancel,
         ReceiveDecision, ReceiveCancellation, CallFails, Post, HandleEvent, ReceiveDelivered

LEMMA VenueMoves ==
    ASSUME PartsSound, [Next]_vars, NEW o \in Orders
    PROVE  VP!OrderMove(o)
<1>1. VP!VenueSound /\ [VP!Next]_(VP!vars) BY VenueNext, VenueSame DEF PartsSound
<1>. QED BY <1>1, Assumptions, VP!OrderMoves

LEMMA CancelEffect ==
    ASSUME V!TypeOK, NEW o \in Orders, V!CancelOrder(o)
    PROVE  /\ venue[o].status # "absent" /\ venue'[o].status # "absent"
           /\ \A p \in Orders \ {o} : venue'[p] = venue[p]
<1>1. CASE V!CancelAccepted(o)
  BY <1>1 DEF V!CancelAccepted, V!Undecided, V!TypeOK, V!VenueOrder
<1>2. CASE V!RefuseCancellation(o)
  BY <1>2 DEF V!RefuseCancellation, V!Undecided, V!TypeOK, V!VenueOrder
<1>. QED BY <1>1, <1>2 DEF V!CancelOrder

\* An order comes to the venue, and a cancellation is judged there, only by a
\* request that was sent.
LEMMA VenueAsked ==
    ASSUME PartsSound, [Next]_vars, NEW o \in Orders
    PROVE  /\ venue[o].status = "absent" /\ venue'[o].status # "absent"
                => P!ConfirmJob(o) \in sent
           /\ venue[o].saved = "none" /\ venue'[o].saved # "none"
                => \E k \in 1..MaxCancels : <<o, k>> \in sent
<1> DEFINE Asked ==
        /\ venue[o].status = "absent" /\ venue'[o].status # "absent"
                => P!ConfirmJob(o) \in sent
        /\ venue[o].saved = "none" /\ venue'[o].saved # "none"
                => \E k \in 1..MaxCancels : <<o, k>> \in sent
<1>0. V!TypeOK BY PartsTypes
<1>1. ASSUME UNCHANGED venue PROVE Asked BY <1>1
<1>2. ASSUME NEW p \in Orders, NEW expected, NEW target, NEW type, expected # "absent",
             V!Transition(p, expected, target, type)
      PROVE  Asked
  BY <1>0, <1>2 DEF V!Transition, V!TypeOK, V!VenueOrder
<1>3. CASE VenueLocal
  BY <1>1, <1>2, <1>3 DEF VenueLocal, V!StartPreparing, V!MarkReady, V!Complete,
     V!LeaseExpires, V!BackoffElapses, V!RetryCallback, V!LoseCallback, V!Finish
<1>4. ASSUME NEW p \in Orders, HandleOrder(p) PROVE Asked
  BY <1>0, <1>4 DEF HandleOrder, V!DecideOrder, V!TypeOK, V!VenueOrder
<1>5. ASSUME NEW j \in P!Jobs, HandleCancel(j) PROVE Asked
  <2>1. /\ j = <<j[1], j[2]>> /\ j[1] \in Orders /\ j[2] \in 1..MaxCancels
        /\ j \in sent /\ V!CancelOrder(j[1])
    BY <1>5, PartsAssumption DEF HandleCancel, P!IsCancel, P!Jobs
  <2>2. /\ venue[j[1]].status # "absent"
        /\ \A p \in Orders \ {j[1]} : venue'[p] = venue[p]
    BY <1>0, <2>1, CancelEffect
  <2>. QED BY <2>1, <2>2
<1>6. CASE \/ PlatformLocal \/ UNCHANGED vars
           \/ \E w \in Workers :
                Dispatch(w) \/ ReceiveDecision(w) \/ ReceiveCancellation(w) \/ CallFails(w)
           \/ \E c \in V!Callbacks : HandleEvent(c)
           \/ \E s \in Senders : ReceiveDelivered(s) \/ \E c \in V!Callbacks : Post(s, c)
  BY <1>1, <1>6 DEF PlatformLocal, vars, venueVars, Dispatch, ReceiveDecision,
     ReceiveCancellation, CallFails, HandleEvent, ReceiveDelivered, Post,
     V!CompleteCallback, V!Finish, V!ClaimCallback
<1>. QED BY <1>3, <1>4, <1>5, <1>6 DEF Next

\* Once a cancellation was asked for, cancellation_status says so for ever.
LEMMA FlagStays ==
    ASSUME PartsSound, [Next]_vars, NEW o \in Orders, orders[o].cancellation # "none"
    PROVE  orders'[o].cancellation # "none"
<1>1. orders[o].status # "absent" BY Columns DEF P!Order, P!CancellationStatus, Working
<1>. QED BY <1>1, PlatformSteps
         DEF PlatformStep, LocalMove, Create, Withdraw, Decide, Expire, Ask, Answer, Moves,
             Same, Report, P!CancellationAfter

LEMMA CallsNext ==
    ASSUME PartsSound, PartsSound', SentSound, [Next]_vars, NEW o \in Orders, CallsSound(o)
    PROVE  CallsSound(o)'
<1>1. venue'[o].status # "absent" => P!ConfirmJob(o) \in sent'
  BY VenueAsked, SentGrows DEF CallsSound
<1>2. venue'[o].saved # "none" => \E k \in 1..MaxCancels : <<o, k>> \in sent'
  BY VenueAsked, SentGrows DEF CallsSound
<1>3. ASSUME NEW k \in 1..MaxCancels, outbox'[<<o, k>>].state # "absent"
      PROVE  orders'[o].cancellation # "none"
  <2> DEFINE j == <<o, k>>
  <2>1. j \in PP!Jobs /\ j \in P!Jobs /\ PP!IsCancel(j)
    BY PartsAssumption DEF P!Jobs, PP!Jobs, PP!IsCancel
  <2>2. PP!RowStep(j)
    <3>1. PP!OrdersSound /\ [PP!Next]_(PP!vars)
      BY PlatformNext, PlatformSame DEF PartsSound, PP!RecordsSound
    <3>. QED BY <2>1, <3>1, Assumptions, PP!RowSteps
  <2>3. CASE outbox[j].state # "absent" BY <2>3, FlagStays DEF CallsSound
  <2>4. CASE outbox[j].state = "absent"
    <3>1. outbox'[j].state = "queued"
      BY <1>3, <2>1, <2>2, <2>4
         DEF PP!RowStep, PP!Claimable, PP!FreshRow, PP!NoRow
    <3>2. k \in PP!QueuedCancels(o)' BY <3>1 DEF PP!QueuedCancels
    <3>3. PP!OrderSound(o)' BY DEF PartsSound, PP!RecordsSound, PP!OrdersSound
    <3>. QED BY <3>2, <3>3 DEF PP!OrderSound
  <2>. QED BY <2>3, <2>4
<1>. QED BY <1>1, <1>2, <1>3 DEF CallsSound

\* The number of recorded events and the status go together.
LEMMA SequenceNext ==
    ASSUME PartsSound, [Next]_vars, NEW o \in Orders, SequenceSound(o)
    PROVE  SequenceSound(o)'
<1>1. CASE Same(o) BY <1>1 DEF Same, SequenceSound
<1>2. CASE LocalMove(o)
  BY <1>2, Columns DEF LocalMove, Create, Withdraw, Decide, Expire, Ask, Answer, Moves,
     SequenceSound, Decision
<1>3. ASSUME NEW c \in posted, Report(c), c[1] = o PROVE SequenceSound(o)'
  <2> DEFINE type == callbacks[c].type
             status == orders[o].status
             target == P!EventTransition(status, type)
  <2>1. /\ orders'[o].status = target /\ orders'[o].sequence = orders[o].sequence + 1
        /\ target # "absent"
    BY <1>3 DEF Report
  <2>2. \/ target = "cancelled"
        \/ status = "accepted" /\ target = "preparing"
        \/ status = "preparing" /\ target = "ready"
        \/ status = "ready" /\ target = "completed"
    BY <2>1 DEF P!EventTransition
  <2> HIDE DEF target, status
  <2>3. CASE target = "cancelled" BY <2>1, <2>3 DEF SequenceSound
  <2>4. CASE status = "accepted" /\ target = "preparing"
    BY <2>1, <2>4 DEF SequenceSound, status
  <2>5. CASE status = "preparing" /\ target = "ready"
    BY <2>1, <2>5 DEF SequenceSound, status
  <2>6. CASE status = "ready" /\ target = "completed"
    BY <2>1, <2>6 DEF SequenceSound, status
  <2>. QED BY <2>2, <2>3, <2>4, <2>5, <2>6
<1>4. \/ Same(o) \/ LocalMove(o)
      \/ \E c \in posted : Report(c) /\ c[1] = o
  BY PlatformSteps DEF PlatformStep, LocalMove, Create, Withdraw, Decide, Expire, Ask,
     Answer, Moves, Report
<1>. QED BY <1>1, <1>2, <1>3, <1>4

LEMMA TruthNext ==
    ASSUME PartsSound, [Next]_vars, NEW o \in Orders, TruthSound(o)
    PROVE  TruthSound(o)'
<1>0. TruthSound(o) /\ (orders[o].status = "cancelled" => orders[o].cancellation # "rejected")
  BY Columns
<1>1. CASE UNCHANGED platformVars
  <2>1. UNCHANGED <<orders, outbox>> BY <1>1 DEF platformVars
  <2>2. VP!OrderMove(o) BY VenueMoves
  <2>. QED BY <2>1, <2>2, Answers DEF VP!OrderMove, TruthSound, P!ConfirmJob
<1>2. CASE UNCHANGED venueVars
  <2>0. UNCHANGED venue BY <1>2 DEF venueVars
  <2>1. CASE Same(o)
    <3>1. orders[o].status = "cancelled" /\ outbox[P!ConfirmJob(o)].attempts = 0
            => outbox'[P!ConfirmJob(o)].attempts = 0
      BY WithdrawnStays
    <3>. QED BY <2>0, <2>1, <3>1 DEF Same, TruthSound, P!ConfirmJob
  <2>2. CASE Create(o) BY <2>2 DEF Create, Moves, TruthSound, Working
  <2>3. CASE Withdraw(o)
    BY <2>3 DEF Withdraw, Moves, TruthSound, Working, P!ConfirmJob
  <2>4. CASE Decide(o)
    <3>1. orders[o].cancellation # "rejected" BY <2>4, Columns DEF Decide, Working
    <3>. QED BY <2>0, <2>4, <3>1, Answers DEF Decide, Decision, Moves, TruthSound, Working
  <2>5. CASE Expire(o)
    <3>1. orders[o].cancellation # "rejected" BY <2>5, Columns DEF Expire, Working
    <3>. QED BY <2>5, <3>1 DEF Expire, Moves, TruthSound, Working
  <2>6. CASE Ask(o) BY <2>0, <2>6 DEF Ask, Moves, TruthSound, Working
  <2>7. CASE Answer(o)
    <3>1. orders[o].status \in Working BY <2>7, Columns DEF Answer
    <3>. QED BY <2>0, <2>7, <3>1, Answers DEF Answer, Moves, TruthSound, Working
  <2>8. ASSUME NEW c \in posted, Report(c), c[1] = o PROVE TruthSound(o)'
    <3> DEFINE type == callbacks[c].type
               status == orders[o].status
               target == P!EventTransition(status, type)
    <3>1. type = "order_cancelled" => venue[o].status = "cancelled"
      BY <2>8, RowTells DEF PartsSound, PostedSound
    <3>2. /\ orders'[o].status = target /\ target # "absent"
          /\ orders'[o].cancellation \in {"confirmed", orders[o].cancellation}
      BY <2>8 DEF Report, P!CancellationAfter
    <3>3. \/ target = "cancelled" /\ type = "order_cancelled"
          \/ target \in Working /\ status \in Working
      BY <3>2 DEF P!EventTransition, Working
    <3> HIDE DEF target, type
    <3>. QED BY <2>0, <3>1, <3>2, <3>3 DEF TruthSound, Working
  <2>9. \/ Same(o) \/ LocalMove(o)
        \/ \E c \in posted : Report(c) /\ c[1] = o
    BY PlatformSteps DEF PlatformStep, LocalMove, Create, Withdraw, Decide, Expire, Ask,
       Answer, Moves, Report
  <2>. QED BY <2>1, <2>2, <2>3, <2>4, <2>5, <2>6, <2>7, <2>8, <2>9 DEF LocalMove
<1>. QED BY <1>1, <1>2, OneSide

LEMMA CancelledStays ==
    ASSUME PartsSound, [Next]_vars, NEW o \in Orders, orders[o].status = "cancelled"
    PROVE  orders'[o].status = "cancelled"
<1>1. orders[o].cancellation = "confirmed" BY Columns
<1>2. \A type : P!EventTransition("cancelled", type) \in {"cancelled", "absent"}
  BY DEF P!EventTransition
<1>. QED BY <1>1, <1>2, PlatformSteps
         DEF PlatformStep, LocalMove, Create, Withdraw, Decide, Expire, Ask, Answer, Moves,
             Same, Report

LEMMA EventsNext ==
    ASSUME PartsSound, [Next]_vars, \A e \in events : EventSound(e)
    PROVE  /\ events \subseteq events'
           /\ \A e \in events' : EventSound(e)'
<1>1. ASSUME NEW c \in posted
      PROVE  c \in posted' /\ c \in V!Callbacks /\ EventOf(c)' = EventOf(c)
  BY PostedGrows, RowsStay DEF PartsSound, PostedSound
<1>2. ASSUME NEW e \in events PROVE EventSound(e)'
  <2>1. e.id \in posted /\ e = EventOf(e.id) BY DEF EventSound
  <2>2. e.order \in Orders
    <3>1. \A c \in V!Callbacks : EventOf(c).order \in Orders BY DEF EventOf, V!Callbacks
    <3>. QED BY <1>1, <2>1, <3>1
  <2>3. e.id \in posted' /\ e = EventOf(e.id)' BY <1>1, <2>1
  <2>4. e.type = "order_cancelled" => orders'[e.order].status = "cancelled"
    BY <2>2, CancelledStays DEF EventSound
  <2>. QED BY <2>3, <2>4 DEF EventSound
<1>3. ASSUME NEW c \in posted, Report(c), NEW e, e = EventOf(c) PROVE EventSound(e)'
  <2>1. e.id = c /\ e.order = c[1] /\ e.type = callbacks[c].type BY <1>3 DEF EventOf
  <2>2. e.type = "order_cancelled" => orders'[e.order].status = "cancelled"
    BY <1>3, <2>1 DEF Report, P!EventTransition
  <2>3. e.id \in posted' /\ e = EventOf(e.id)' BY <1>1, <1>3, <2>1
  <2>. QED BY <2>2, <2>3 DEF EventSound
<1>4. \/ events' = events
      \/ \E c \in posted : Report(c) /\ events' = events \cup {EventOf(c)}
  BY PlatformSteps DEF PlatformStep, Report
<1>. QED BY <1>2, <1>3, <1>4

\* CompleteCallback runs only after the platform has answered 204.
LEMMA ProcessedDelivered ==
    ASSUME PartsSound, [Next]_vars, NEW c \in V!Callbacks,
           callbacks[c].state # "processed", callbacks'[c].state = "processed"
    PROVE  Delivered(c) /\ callbacks[c].state = "queued"
<1>0. V!TypeOK BY PartsTypes
<1>1. ASSUME NEW o \in Orders, NEW type, V!Enqueue(o, type) PROVE FALSE
  BY <1>0, <1>1 DEF V!Enqueue, V!NoCallback, V!TypeOK
<1>2. callbacks'[c] # callbacks[c] OBVIOUS
<1>3. ~VenueLocal
  <2>1. ASSUME NEW o \in Orders, V!StartPreparing(o) \/ V!MarkReady(o) \/ V!Complete(o)
        PROVE  FALSE
    BY <1>1, <2>1 DEF V!StartPreparing, V!MarkReady, V!Complete, V!Transition
  <2>2. ASSUME NEW d \in V!Callbacks, V!LeaseExpires(d) \/ V!BackoffElapses(d) PROVE FALSE
    <3>1. CASE V!LeaseExpires(d) BY <1>0, <3>1 DEF V!LeaseExpires, V!TypeOK, V!Callback
    <3>2. CASE V!BackoffElapses(d) BY <1>0, <3>2 DEF V!BackoffElapses, V!TypeOK, V!Callback
    <3>. QED BY <2>2, <3>1, <3>2
  <2>3. ASSUME NEW s \in Senders, V!RetryCallback(s) PROVE FALSE
    <3>1. senders[s].job \in V!Callbacks
      BY <1>0, <2>3 DEF V!RetryCallback, V!Finish, V!TypeOK, V!Sending
    <3>. QED BY <1>0, <2>3, <3>1 DEF V!RetryCallback, V!TypeOK, V!Callback
  <2>4. ASSUME NEW s \in Senders, V!LoseCallback(s) PROVE FALSE
    BY <1>2, <2>4 DEF V!LoseCallback
  <2>. QED BY <2>1, <2>2, <2>3, <2>4 DEF VenueLocal
<1>4. ASSUME NEW o \in Orders, HandleOrder(o) PROVE FALSE
  BY <1>2, <1>4 DEF HandleOrder, V!DecideOrder
<1>5. ASSUME NEW j \in P!Jobs, HandleCancel(j) PROVE FALSE
  <2>1. j[1] \in Orders BY DEF P!Jobs
  <2>. QED BY <1>1, <1>2, <1>5, <2>1
           DEF HandleCancel, V!CancelOrder, V!CancelAccepted, V!RefuseCancellation
<1>6. ASSUME NEW s \in Senders, NEW d \in V!Callbacks, Post(s, d) PROVE FALSE
  BY <1>0, <1>6 DEF Post, V!ClaimCallback, V!TypeOK, V!Callback
<1>7. ASSUME NEW s \in Senders, ReceiveDelivered(s)
      PROVE  Delivered(c) /\ callbacks[c].state = "queued"
  <2> DEFINE d == senders[s].job
  <2>1. /\ Delivered(d) /\ callbacks[d].state = "queued"
        /\ \E row : callbacks' = [callbacks EXCEPT ![d] = row]
    BY <1>7 DEF ReceiveDelivered, V!CompleteCallback, V!HoldsLease
  <2>2. c = d BY <1>0, <1>2, <2>1 DEF V!TypeOK
  <2>. QED BY <2>1, <2>2
<1>8. CASE \/ PlatformLocal \/ UNCHANGED vars
           \/ \E w \in Workers :
                Dispatch(w) \/ ReceiveDecision(w) \/ ReceiveCancellation(w) \/ CallFails(w)
           \/ \E d \in V!Callbacks : HandleEvent(d)
  BY <1>2, <1>8 DEF PlatformLocal, vars, venueVars, Dispatch, ReceiveDecision,
     ReceiveCancellation, CallFails, HandleEvent
<1>. QED BY <1>3, <1>4, <1>5, <1>6, <1>7, <1>8 DEF Next

LEMMA LostNext ==
    ASSUME PartsSound, [Next]_vars, NoEventLost, events \subseteq events'
    PROVE  NoEventLost'
<1> SUFFICES ASSUME NEW c \in V!Callbacks, callbacks'[c].state = "processed"
             PROVE  EventOf(c)' \in events'
  BY DEF NoEventLost, V!Callbacks
<1>1. EventOf(c) \in events /\ callbacks[c].state \in {"queued", "processed"}
  BY ProcessedDelivered DEF NoEventLost, Delivered
<1>2. EventOf(c)' = EventOf(c) BY <1>1, RowsStay
<1>. QED BY <1>1, <1>2

-----------------------------------------------------------------------------
(* The theorems *)

LEMMA KitchenInit == Init => KitchenSound
<1> SUFFICES ASSUME Init PROVE KitchenSound OBVIOUS
<1>1. P!Init /\ V!Init /\ sent = {} BY DEF Init
<1>2. \A o \in Orders : CallsSound(o) /\ TruthSound(o) /\ SequenceSound(o)
  <2> SUFFICES ASSUME NEW o \in Orders
               PROVE  CallsSound(o) /\ TruthSound(o) /\ SequenceSound(o)
    OBVIOUS
  <2>1. orders[o] = P!NoOrder /\ venue[o] = V!NoVenueOrder
    BY <1>1 DEF P!Init, V!Init
  <2>2. \A k \in 1..MaxCancels : outbox[<<o, k>>].state = "absent"
    <3>1. \A k \in 1..MaxCancels : <<o, k>> \in P!Jobs
      BY PartsAssumption DEF P!Jobs
    <3>. QED BY <1>1, <3>1 DEF P!Init, P!NoRow
  <2>. QED BY <2>1, <2>2 DEF P!NoOrder, V!NoVenueOrder, CallsSound, TruthSound,
                             SequenceSound, Working
<1>3. NoEventLost /\ events = {}
  BY <1>1 DEF V!Init, V!NoCallback, P!Init, NoEventLost
<1>. QED BY <1>1, <1>2, <1>3, PartsInit DEF KitchenSound, SentSound

LEMMA KitchenNext == KitchenSound /\ [Next]_vars => KitchenSound'
<1> SUFFICES ASSUME KitchenSound, [Next]_vars PROVE KitchenSound' OBVIOUS
<1>1. PartsSound' /\ SentSound' BY PartsNext, SentNext DEF KitchenSound
<1>2. \A o \in Orders : CallsSound(o)' /\ TruthSound(o)' /\ SequenceSound(o)'
  BY <1>1, CallsNext, TruthNext, SequenceNext DEF KitchenSound
<1>3. events \subseteq events' /\ \A e \in events' : EventSound(e)'
  BY EventsNext DEF KitchenSound
<1>4. NoEventLost' BY <1>3, LostNext DEF KitchenSound
<1>. QED BY <1>1, <1>2, <1>3, <1>4 DEF KitchenSound

LEMMA KitchenHolds == Spec => []KitchenSound
<1>. QED BY KitchenInit, KitchenNext, PTL DEF Spec

\* An event that a callback worker marked as delivered was recorded by the
\* platform: lost answers and lost leases repeat deliveries and skip none.
THEOREM DeliveredIsRecorded == Spec => []NoEventLost
<1>1. KitchenSound => NoEventLost BY DEF KitchenSound
<1>. QED BY <1>1, KitchenHolds, PTL

\* An order that CancelOrder withdrew before dispatch was never sent, however
\* late the requests of the outbox workers arrive.
THEOREM WithdrawnUnseen == Spec => []WithdrawnNeverSent
<1>1. KitchenSound => WithdrawnNeverSent
  <2> SUFFICES ASSUME KitchenSound, NEW o \in Orders,
                      history[o] = <<"pending_confirmation", "cancelled">>
               PROVE  P!ConfirmJob(o) \notin sent /\ venue[o].status = "absent"
    BY DEF WithdrawnNeverSent
  <2>1. outbox[P!ConfirmJob(o)].attempts = 0 BY Columns DEF KitchenSound
  <2>2. P!ConfirmJob(o) \notin sent BY <2>1 DEF KitchenSound, SentSound
  <2>. QED BY <2>2 DEF KitchenSound, CallsSound
<1>. QED BY <1>1, KitchenHolds, PTL

-----------------------------------------------------------------------------
(* The events between the two *)

\* The events the platform has recorded are the first rows of the order.
LEMMA RecordedRows ==
    ASSUME KitchenSound, NEW o \in Orders, NEW n \in 1..3
    PROVE  /\ EventOf(<<o, n>>) \in events <=> n <= orders[o].sequence
           /\ n <= orders[o].sequence => callbacks[<<o, n>>].state # "absent"
<1> DEFINE c == <<o, n>>
           numbers == {e.sequence : e \in {d \in events : d.order = o}}
<1>1. numbers = 1..orders[o].sequence /\ orders[o].sequence \in Nat
  <2>1. orders[o].sequence \in Nat BY Columns DEF KitchenSound, P!Order
  <2>. QED BY <2>1 DEF KitchenSound, PartsSound, PP!EventsGapless
<1>2. EventOf(c).order = o /\ EventOf(c).sequence = n BY DEF EventOf
<1>3. ASSUME NEW e \in events, e.order = o, e.sequence = n
      PROVE  e = EventOf(c) /\ c \in posted
  <2>1. e.id \in posted /\ e = EventOf(e.id) BY DEF KitchenSound, EventSound
  <2>2. \A d \in V!Callbacks :
            d = <<d[1], d[2]>> /\ EventOf(d).order = d[1] /\ EventOf(d).sequence = d[2]
    BY DEF V!Callbacks, EventOf
  <2>3. e.id \in V!Callbacks BY <2>1 DEF KitchenSound, PartsSound, PostedSound
  <2>4. e.id = <<e.order, e.sequence>> BY <2>1, <2>2, <2>3
  <2>. QED BY <1>3, <2>1, <2>4
<1> HIDE DEF c
<1>4. EventOf(c) \in events => n \in numbers BY <1>2
<1>5. n \in numbers => EventOf(c) \in events /\ c \in posted BY <1>3
<1>6. n \in numbers <=> n <= orders[o].sequence BY <1>1
<1>7. c \in posted => callbacks[c].state # "absent"
  BY DEF KitchenSound, PartsSound, PostedSound
<1>. QED BY <1>4, <1>5, <1>6, <1>7 DEF c

\* The rows of an order in venue_outbox.
LEMMA RowsOfStatus ==
    ASSUME PartsSound, NEW o \in Orders
    PROVE  LET status == venue[o].status
           IN  /\ status \in {"preparing", "ready", "completed", "cancelled"}
                    => callbacks[<<o, 1>>].state # "absent"
               /\ status \in {"ready", "completed"} => callbacks[<<o, 2>>].state # "absent"
               /\ status = "completed" => callbacks[<<o, 3>>].state # "absent"
               /\ status = "cancelled" => callbacks[<<o, 1>>].type = "order_cancelled"
<1>1. VP!OrderSound(o) BY DEF PartsSound, VP!VenueSound
<1>. QED BY <1>1 DEF VP!OrderSound

\* What the platform has recorded of an order (partner_order_events) is at any
\* time a prefix of what the venue reported (venue_outbox), word for word, and
\* it contains what the venue takes for delivered.
RecordedPrefix ==
    \A o \in Orders : \E n \in 0..3 :
        /\ {e \in events : e.order = o} = {EventOf(<<o, i>>) : i \in 1..n}
        /\ \A i \in 1..3 :
            /\ i <= n => callbacks[<<o, i>>].state # "absent"
            /\ callbacks[<<o, i>>].state = "processed" => i <= n

\* RecordOrderEvent and the callback workers keep the two tables in step
\* through any delays, repetitions and losses of the calls between them.
THEOREM RecordedIsPrefix == Spec => []RecordedPrefix
<1>1. KitchenSound => RecordedPrefix
  <2> SUFFICES ASSUME KitchenSound, NEW o \in Orders
               PROVE  \E n \in 0..3 :
                        /\ {e \in events : e.order = o} = {EventOf(<<o, i>>) : i \in 1..n}
                        /\ \A i \in 1..3 :
                            /\ i <= n => callbacks[<<o, i>>].state # "absent"
                            /\ callbacks[<<o, i>>].state = "processed" => i <= n
    BY DEF RecordedPrefix
  <2> DEFINE n == orders[o].sequence
  <2>1. n \in 0..3 BY Columns DEF KitchenSound, P!Order
  <2>2. ASSUME NEW e \in events, e.order = o
        PROVE  \E i \in 1..n : e = EventOf(<<o, i>>)
    <3>1. e.id \in posted /\ e = EventOf(e.id) BY DEF KitchenSound, EventSound
    <3>2. e.id \in V!Callbacks BY <3>1 DEF KitchenSound, PartsSound, PostedSound
    <3>3. PICK p \in Orders, i \in 1..3 : e.id = <<p, i>> BY <3>2 DEF V!Callbacks
    <3>4. EventOf(<<p, i>>).order = p BY DEF EventOf
    <3>5. p = o /\ e = EventOf(<<o, i>>) BY <2>2, <3>1, <3>3, <3>4
    <3>6. i <= n BY <3>5, RecordedRows
    <3>. QED BY <2>1, <3>5, <3>6
  <2>3. ASSUME NEW i \in 1..n PROVE EventOf(<<o, i>>) \in events /\ EventOf(<<o, i>>).order = o
    <3>1. i \in 1..3 /\ i <= n BY <2>1
    <3>2. EventOf(<<o, i>>).order = o BY DEF EventOf
    <3>. QED BY <3>1, <3>2, RecordedRows
  <2>4. ASSUME NEW i \in 1..3
        PROVE  /\ i <= n => callbacks[<<o, i>>].state # "absent"
               /\ callbacks[<<o, i>>].state = "processed" => i <= n
    <3>1. <<o, i>> \in V!Callbacks BY DEF V!Callbacks
    <3>2. callbacks[<<o, i>>].state = "processed" => EventOf(<<o, i>>) \in events
      BY <3>1 DEF KitchenSound, NoEventLost
    <3>. QED BY <3>2, RecordedRows
  <2>5. {e \in events : e.order = o} = {EventOf(<<o, i>>) : i \in 1..n}
    <3> HIDE DEF n
    <3>. QED BY <2>2, <2>3
  <2> HIDE DEF n
  <2>. QED BY <2>1, <2>4, <2>5
<1>. QED BY <1>1, KitchenHolds, PTL

\* The status that a recorded event gave to an order is one that the venue has
\* reached.
LEMMA NeverAhead ==
    ASSUME KitchenSound, NEW o \in Orders, orders[o].status \in Working
    PROVE  \/ /\ venue[o].status \in Working
              /\ Progress[orders[o].status] <= Progress[venue[o].status]
           \/ orders[o].status = "accepted" /\ venue[o].status = "cancelled"
<1> DEFINE status == venue[o].status
           sequence == orders[o].sequence
<1>0. PartsSound /\ TruthSound(o) /\ SequenceSound(o) BY DEF KitchenSound
<1>1. status \in {"accepted", "preparing", "ready", "completed", "cancelled"}
  <2>1. status \in {"absent", "accepted", "rejected", "preparing", "ready",
                    "completed", "cancelled"}
    BY <1>0, Columns DEF V!VenueOrder
  <2>. QED BY <1>0, <2>1, Answers DEF TruthSound
<1>2. /\ Progress["accepted"] = 0 /\ Progress["preparing"] = 1
      /\ Progress["ready"] = 2 /\ Progress["completed"] = 3
  BY DEF Progress
<1>3. CASE orders[o].status = "accepted"
  BY <1>1, <1>2, <1>3 DEF Working
<1>4. ASSUME NEW n \in 1..3, n = sequence
      PROVE  /\ EventOf(<<o, n>>) \in events
             /\ \/ n = 1 /\ callbacks[<<o, n>>].type = "order_cancelled"
                           /\ status = "cancelled"
                \/ n = 1 /\ status \in {"preparing", "ready", "completed"}
                \/ n = 2 /\ status \in {"ready", "completed"}
                \/ n = 3 /\ status = "completed"
  <2> DEFINE c == <<o, n>>
  <2>1. n <= sequence BY <1>4
  <2>2. EventOf(c) \in events /\ callbacks[c].state # "absent" BY <2>1, RecordedRows
  <2>3. c \in V!Callbacks /\ c[1] = o /\ c[2] = n BY DEF V!Callbacks
  <2> HIDE DEF c
  <2>4. \/ n = 1 /\ status \in {"preparing", "ready", "completed"}
        \/ n = 1 /\ callbacks[c].type = "order_cancelled" /\ status = "cancelled"
        \/ n = 2 /\ status \in {"ready", "completed"}
        \/ n = 3 /\ status = "completed"
    BY <1>0, <2>2, <2>3, RowTells
  <2>. QED BY <2>2, <2>4 DEF c
<1>5. CASE orders[o].status = "preparing"
  <2>1. sequence = 1 BY <1>0, <1>5 DEF SequenceSound
  <2>2. EventOf(<<o, 1>>) \in events BY <1>4, <2>1
  <2>3. EventOf(<<o, 1>>).type = callbacks[<<o, 1>>].type /\ EventOf(<<o, 1>>).order = o
    BY DEF EventOf
  <2>4. callbacks[<<o, 1>>].type # "order_cancelled"
    BY <1>5, <2>2, <2>3 DEF KitchenSound, EventSound
  <2>5. status \in {"preparing", "ready", "completed"} BY <1>4, <2>1, <2>4
  <2>. QED BY <1>2, <1>5, <2>5 DEF Working
<1>6. CASE orders[o].status = "ready"
  <2>1. sequence = 2 BY <1>0, <1>6 DEF SequenceSound
  <2>2. status \in {"ready", "completed"} BY <1>4, <2>1
  <2>. QED BY <1>2, <1>6, <2>2 DEF Working
<1>7. CASE orders[o].status = "completed"
  <2>1. sequence = 3 BY <1>0, <1>7 DEF SequenceSound
  <2>2. status = "completed" BY <1>4, <2>1
  <2>. QED BY <1>2, <1>7, <2>2 DEF Working
<1>. QED BY <1>3, <1>5, <1>6, <1>7 DEF Working

\* The platform never claims more than the venue did, nor shows an order ahead
\* of its kitchen: ResolveOutbox, ResolveCancellation and RecordOrderEvent
\* write what the venue decided, in whatever order its answers and its
\* callbacks arrive.
THEOREM TruthTold == Spec => []PlatformTellsTruth
<1>1. KitchenSound => PlatformTellsTruth
  <2> SUFFICES ASSUME KitchenSound, NEW o \in Orders
               PROVE  /\ orders[o].status \in Working =>
                            \/ /\ venue[o].status \in Working
                               /\ Progress[orders[o].status] <= Progress[venue[o].status]
                            \/ orders[o].status = "accepted" /\ venue[o].status = "cancelled"
                      /\ orders[o].status = "rejected" => venue[o].status = "rejected"
                      /\ orders[o].status = "cancelled"
                            => venue[o].status \in {"cancelled", "absent"}
                      /\ orders[o].cancellation = "rejected" =>
                            /\ venue[o].saved = "rejected"
                            /\ venue[o].status \in {"preparing", "ready", "completed"}
    BY DEF PlatformTellsTruth
  <2>1. TruthSound(o) /\ CallsSound(o) /\ PartsSound /\ SentSound BY DEF KitchenSound
  <2>2. outbox[P!ConfirmJob(o)].attempts = 0 => venue[o].status = "absent"
    BY <2>1 DEF CallsSound, SentSound
  <2>3. /\ orders[o].status = "rejected" => venue[o].status = "rejected"
        /\ orders[o].status = "cancelled" => venue[o].status \in {"cancelled", "absent"}
        /\ orders[o].cancellation = "rejected" =>
              /\ venue[o].saved = "rejected"
              /\ venue[o].status \in {"preparing", "ready", "completed"}
    BY <2>1, <2>2, Columns, Answers DEF TruthSound
  <2>. QED BY <2>3, NeverAhead
<1>. QED BY <1>1, KitchenHolds, PTL

\* Once every event of an order is delivered, the two services agree about it.
THEOREM DatabasesAgree == Spec => []AgreeWhenDelivered
<1>1. KitchenSound => AgreeWhenDelivered
  <2> SUFFICES ASSUME KitchenSound, NEW o \in Orders,
                      \A n \in 1..3 : callbacks[<<o, n>>].state # "queued",
                      orders[o].status \in Working
               PROVE  orders[o].status = venue[o].status
    BY DEF AgreeWhenDelivered
  <2> DEFINE status == venue[o].status
             sequence == orders[o].sequence
             row(n) == callbacks[<<o, n>>]
  <2>0. PartsSound /\ TruthSound(o) /\ SequenceSound(o) BY DEF KitchenSound
  <2>1. sequence \in 0..3 BY <2>0, Columns DEF P!Order
  <2>2. ASSUME NEW n \in 1..3
        PROVE  row(n).state # "absent" <=> n <= sequence
    <3>1. <<o, n>> \in V!Callbacks BY DEF V!Callbacks
    <3>2. row(n).state \in {"absent", "queued", "processed"}
      BY <2>0, <3>1, PartsTypes DEF V!TypeOK, V!Callback
    <3>3. row(n).state = "processed" => EventOf(<<o, n>>) \in events
      BY <3>1 DEF KitchenSound, NoEventLost
    <3>. QED BY <3>2, <3>3, RecordedRows
  <2>3. status \in {"accepted", "preparing", "ready", "completed", "cancelled"}
    <3>1. status \in {"absent", "accepted", "rejected", "preparing", "ready",
                      "completed", "cancelled"}
      BY <2>0, Columns DEF V!VenueOrder
    <3>. QED BY <2>0, <3>1, Answers DEF TruthSound
  <2>4. status # "cancelled"
    <3> SUFFICES ASSUME status = "cancelled" PROVE FALSE OBVIOUS
    <3>1. row(1).state # "absent" /\ row(1).type = "order_cancelled"
      BY <2>0, RowsOfStatus
    <3>2. EventOf(<<o, 1>>) \in events BY <2>2, <3>1, RecordedRows
    <3>3. EventOf(<<o, 1>>).type = "order_cancelled" /\ EventOf(<<o, 1>>).order = o
      BY <3>1 DEF EventOf
    <3>4. orders[o].status = "cancelled" BY <3>2, <3>3 DEF KitchenSound, EventSound
    <3>. QED BY <3>4 DEF Working
  <2>5. \A n \in 1..3 : row(n).state # "absent" =>
            \/ n = 1 /\ status \in {"preparing", "ready", "completed"}
            \/ n = 2 /\ status \in {"ready", "completed"}
            \/ n = 3 /\ status = "completed"
    <3> SUFFICES ASSUME NEW n \in 1..3, row(n).state # "absent"
                 PROVE  \/ n = 1 /\ status \in {"preparing", "ready", "completed"}
                        \/ n = 2 /\ status \in {"ready", "completed"}
                        \/ n = 3 /\ status = "completed"
      OBVIOUS
    <3> DEFINE c == <<o, n>>
    <3>1. c \in V!Callbacks /\ c[1] = o /\ c[2] = n /\ callbacks[c].state # "absent"
      BY DEF V!Callbacks
    <3> HIDE DEF c
    <3>. QED BY <2>0, <2>4, <3>1, RowTells
  <2>6. /\ status \in {"preparing", "ready", "completed"} => row(1).state # "absent"
        /\ status \in {"ready", "completed"} => row(2).state # "absent"
        /\ status = "completed" => row(3).state # "absent"
    BY <2>0, RowsOfStatus
  <2> HIDE DEF row
  <2>7. /\ status = "accepted" => sequence = 0
        /\ status = "preparing" => sequence = 1
        /\ status = "ready" => sequence = 2
        /\ status = "completed" => sequence = 3
    BY <2>1, <2>2, <2>5, <2>6
  <2>. QED BY <2>0, <2>3, <2>4, <2>7 DEF SequenceSound, Working
<1>. QED BY <1>1, KitchenHolds, PTL

\* RecordOrderEvent never refuses for good the first event that a callback
\* worker has yet to deliver, but for an order that the platform let expire.
THEOREM EventsAccepted == Spec => []OnlyExpiredRefuses
<1>1. KitchenSound => OnlyExpiredRefuses
  <2> SUFFICES ASSUME KitchenSound, NEW c \in V!Callbacks,
                      callbacks[c].state = "queued", V!NextInLine(c), ~Delivered(c),
                      orders[c[1]].status
                          \notin {"pending_confirmation", "confirmation_expired"}
               PROVE  /\ c[2] = orders[c[1]].sequence + 1
                      /\ P!EventTransition(orders[c[1]].status, callbacks[c].type) # "absent"
    BY DEF OnlyExpiredRefuses
  <2> DEFINE o == c[1]
             n == c[2]
             sequence == orders[o].sequence
             shown == orders[o].status
  <2>0. /\ PartsSound /\ o \in Orders /\ n \in 1..3 /\ c = <<o, n>>
        /\ TruthSound(o) /\ SequenceSound(o) /\ CallsSound(o) /\ SentSound
    BY DEF KitchenSound, V!Callbacks
  <2>1. sequence \in 0..3 /\ shown \in P!Status
    BY <2>0, Columns DEF P!Order
  <2>2. ~(n <= sequence)
    <3>1. EventOf(<<o, n>>) \notin events BY <2>0 DEF Delivered
    <3>. QED BY <2>0, <3>1, RecordedRows
  <2>3. ASSUME NEW m \in 1..(n - 1) PROVE m <= sequence
    <3>1. m \in 1..3 /\ <<o, m>> \in V!Callbacks BY <2>0 DEF V!Callbacks
    <3>2. callbacks[<<o, m>>].state # "queued" BY DEF V!NextInLine
    <3>3. callbacks[<<o, m>>].state # "absent"
      <4>1. VP!OrderSound(o) /\ venue[o].next \in 1..4
        BY <2>0, Columns DEF PartsSound, VP!VenueSound, V!VenueOrder
      <4>2. callbacks[<<o, n>>].state # "absent" BY <2>0
      <4>3. n < venue[o].next BY <2>0, <4>1, <4>2 DEF VP!OrderSound
      <4>. QED BY <2>0, <3>1, <4>1, <4>3 DEF VP!OrderSound
    <3>4. callbacks[<<o, m>>].state = "processed"
      BY <2>0, <3>1, <3>2, <3>3, PartsTypes DEF V!TypeOK, V!Callback
    <3>5. EventOf(<<o, m>>) \in events BY <3>1, <3>4 DEF KitchenSound, NoEventLost
    <3>. QED BY <2>0, <3>1, <3>5, RecordedRows
  <2>4. n = sequence + 1
    <3>1. n = 1 \/ (n - 1) \in 1..(n - 1) BY <2>0
    <3>2. n = 1 \/ n - 1 <= sequence BY <2>3, <3>1
    <3>. QED BY <2>0, <2>1, <2>2, <3>2
  <2>5. LET type == callbacks[c].type
            status == venue[o].status
        IN  \/ n = 1 /\ type = "order_preparing"
                     /\ status \in {"preparing", "ready", "completed"}
            \/ n = 1 /\ type = "order_cancelled" /\ status = "cancelled"
            \/ n = 2 /\ type = "order_ready" /\ status \in {"ready", "completed"}
            \/ n = 3 /\ type = "order_completed" /\ status = "completed"
    BY <2>0, RowTells
  <2>6. shown # "absent" /\ shown # "rejected"
    <3>1. P!ConfirmJob(o) \in sent BY <2>0, <2>5 DEF CallsSound
    <3>2. outbox[P!ConfirmJob(o)].state # "absent" BY <2>0, <3>1 DEF SentSound
    <3>3. shown # "absent" BY <2>0, <3>2, Columns
    <3>. QED BY <2>0, <2>5, <3>3 DEF TruthSound
  <2>7. shown = "cancelled" => venue[o].status = "cancelled"
    <3>1. P!ConfirmJob(o) \in sent BY <2>0, <2>5 DEF CallsSound
    <3>2. outbox[P!ConfirmJob(o)].attempts # 0 BY <2>0, <3>1 DEF SentSound
    <3>. QED BY <2>0, <3>2 DEF TruthSound
  <2>8. shown \in {"accepted", "preparing", "ready", "completed", "cancelled"}
    BY <2>1, <2>6 DEF P!Status
  <2> HIDE DEF o, n, sequence, shown
  <2>9. /\ shown = "accepted" => sequence = 0
        /\ shown = "preparing" => sequence = 1
        /\ shown = "ready" => sequence = 2
        /\ shown = "completed" => sequence = 3
    BY <2>0 DEF SequenceSound, shown, sequence
  <2>10. P!EventTransition(shown, callbacks[c].type) # "absent"
    BY <2>4, <2>5, <2>7, <2>8, <2>9 DEF P!EventTransition
  <2>. QED BY <2>4, <2>10 DEF o, n, sequence, shown
<1>. QED BY <1>1, KitchenHolds, PTL

-----------------------------------------------------------------------------
(* The lifecycle *)

\* One order moves as module OrderLifecycle lets it.
LEMMA LifecycleMove ==
    ASSUME NEW o \in Orders, NEW from, NEW to, NEW asked, NEW answered,
           orders[o].status \in from, orders[o].cancellation \in asked,
           orders'[o].status = to, orders'[o].cancellation = answered,
           \A p \in Orders \ {o} : Same(p)
    PROVE  Lifecycle!Move(o, from, to, asked, answered)
  BY DEF Lifecycle!Move, Same

\* The main line leaves the cancellation alone.
LEMMA LifecycleAdvance ==
    ASSUME NEW o \in Orders,
           <<orders[o].status, orders'[o].status>> \in Lifecycle!MainLine,
           orders'[o].cancellation = orders[o].cancellation,
           \A p \in Orders \ {o} : Same(p)
    PROVE  Lifecycle!Advance(o)
<1> DEFINE from == orders[o].status
           to == orders'[o].status
           flag == [p \in Orders |-> orders[p].cancellation][o]
<1>1. flag = orders[o].cancellation OBVIOUS
<1>2. Lifecycle!Move(o, {from}, to, {flag}, flag)
  BY <1>1 DEF Lifecycle!Move, Same
<1>3. PICK step \in Lifecycle!MainLine : step[1] = from /\ step[2] = to OBVIOUS
<1>4. Lifecycle!Move(o, {step[1]}, step[2], {flag}, flag) BY <1>2, <1>3
<1>. QED BY <1>4 DEF Lifecycle!Advance, Lifecycle!Move, flag

LEMMA LifecycleSame ==
    ASSUME \A o \in Orders : Same(o) PROVE UNCHANGED Lifecycle!vars
  BY DEF Same, Lifecycle!vars

\* The venue cancels only an order that waits at the platform, and only when
\* the platform had asked for it.
LEMMA CancelledWaits ==
    ASSUME KitchenSound, NEW o \in Orders, venue[o].status = "cancelled",
           orders[o].status \in Working
    PROVE  /\ orders[o].status = "accepted" /\ orders[o].sequence = 0
           /\ orders[o].cancellation \in {"requested", "failed"}
<1>0. PartsSound /\ SequenceSound(o) /\ CallsSound(o) /\ TruthSound(o) /\ SentSound
  BY DEF KitchenSound
<1>1. ~(1 <= orders[o].sequence)
  <2> SUFFICES ASSUME 1 <= orders[o].sequence PROVE FALSE OBVIOUS
  <2>1. EventOf(<<o, 1>>) \in events
    <3>1. 1 \in 1..3 OBVIOUS
    <3>. QED BY <3>1, RecordedRows
  <2>2. EventOf(<<o, 1>>).type = "order_cancelled" /\ EventOf(<<o, 1>>).order = o
    BY <1>0, RowsOfStatus DEF EventOf
  <2>3. orders[o].status = "cancelled" BY <2>1, <2>2 DEF KitchenSound, EventSound
  <2>. QED BY <2>3 DEF Working
<1>2. orders[o].sequence = 0 BY <1>0, <1>1, Columns DEF P!Order
<1>3. orders[o].status = "accepted" BY <1>0, <1>2 DEF SequenceSound, Working
<1>4. venue[o].saved = "cancelled" BY <1>0, Answers
<1>5. PICK k \in 1..MaxCancels : <<o, k>> \in sent BY <1>0, <1>4 DEF CallsSound
<1>6. orders[o].cancellation # "none"
  BY <1>0, <1>5 DEF CallsSound, SentSound
<1>7. orders[o].cancellation \notin {"rejected", "confirmed"}
  BY <1>0, <1>3, <1>4, Columns DEF TruthSound
<1>8. orders[o].cancellation \in {"none", "requested", "confirmed", "rejected", "failed"}
  BY <1>0, Columns DEF P!Order, P!CancellationStatus
<1>. QED BY <1>2, <1>3, <1>6, <1>7, <1>8

\* The venue agrees, by its answer or by its event.
LEMMA LifecycleAgree ==
    ASSUME KitchenSound, NEW o \in Orders, venue[o].status = "cancelled",
           orders[o].status \in Working,
           orders'[o].status = "cancelled", orders'[o].cancellation = "confirmed",
           \A p \in Orders \ {o} : Same(p)
    PROVE  Lifecycle!Agree(o)
  BY CancelledWaits, LifecycleMove DEF Lifecycle!Agree

LEMMA ReportImplements ==
    ASSUME KitchenSound, NEW c \in posted, Report(c)
    PROVE  Lifecycle!Advance(c[1]) \/ Lifecycle!Agree(c[1]) \/ UNCHANGED Lifecycle!vars
<1> DEFINE o == c[1]
           type == callbacks[c].type
           status == orders[o].status
           flag == orders[o].cancellation
           target == P!EventTransition(status, type)
<1>0. /\ PartsSound /\ o \in Orders
      /\ type = "order_cancelled" => venue[o].status = "cancelled"
  BY RowTells DEF KitchenSound, PartsSound, PostedSound
<1>1. /\ target # "absent" /\ orders'[o].status = target
      /\ orders'[o].cancellation = P!CancellationAfter(type, flag)
      /\ \A p \in Orders \ {o} : Same(p)
  BY DEF Report
<1>2. \/ type # "order_cancelled" /\ <<status, target>> \in
            {<<"accepted", "preparing">>, <<"preparing", "ready">>, <<"ready", "completed">>}
      \/ /\ type = "order_cancelled" /\ target = "cancelled"
         /\ status \in {"accepted", "preparing", "cancelled"}
  BY <1>1 DEF P!EventTransition
<1>3. CASE type # "order_cancelled"
  <2>1. orders'[o].cancellation = flag BY <1>1, <1>3 DEF P!CancellationAfter
  <2>2. <<orders[o].status, orders'[o].status>> \in Lifecycle!MainLine
    BY <1>1, <1>2, <1>3 DEF Lifecycle!MainLine
  <2> HIDE DEF type, status, flag, target
  <2>3. Lifecycle!Advance(o) BY <1>0, <1>1, <2>1, <2>2, LifecycleAdvance DEF flag
  <2>. QED BY <2>3
<1>4. CASE type = "order_cancelled" /\ status = "cancelled"
  <2>1. orders'[o].status = "cancelled" /\ orders'[o].cancellation = "confirmed"
    BY <1>1, <1>2, <1>4 DEF P!CancellationAfter
  <2>2. flag = "confirmed" BY <1>0, <1>4, Columns
  <2>3. UNCHANGED Lifecycle!vars BY <1>1, <1>4, <2>1, <2>2 DEF Lifecycle!vars, Same
  <2>. QED BY <2>3
<1>5. CASE type = "order_cancelled" /\ status \in {"accepted", "preparing"}
  <2>1. orders'[o].status = "cancelled" /\ orders'[o].cancellation = "confirmed"
    BY <1>1, <1>2, <1>5 DEF P!CancellationAfter
  <2>2. orders[o].status \in Working /\ venue[o].status = "cancelled"
    BY <1>0, <1>5 DEF Working
  <2>3. Lifecycle!Agree(o) BY <1>0, <1>1, <2>1, <2>2, LifecycleAgree
  <2>. QED BY <2>3
<1>. QED BY <1>2, <1>3, <1>4, <1>5

LEMMA LocalImplements ==
    ASSUME KitchenSound, NEW o \in Orders, LocalMove(o)
    PROVE  Lifecycle!Next
<1>0. PartsSound /\ orders[o] \in P!Order
      /\ (orders[o].cancellation = "requested" => orders[o].status \in Working)
  BY Columns DEF KitchenSound
<1>1. CASE Create(o)
  <2>1. orders[o].cancellation = "none"
    BY <1>0, <1>1, Columns DEF Create, P!Order, P!CancellationStatus, Working
  <2>. QED BY <1>1, <2>1, LifecycleAdvance
         DEF Create, Moves, Lifecycle!MainLine, Lifecycle!Next
<1>2. CASE Withdraw(o)
  <2>1. orders[o].cancellation = "none"
    BY <1>0, <1>2, Columns DEF Withdraw, P!Order, P!CancellationStatus, Working
  <2>2. Lifecycle!Withdraw(o)
    BY <1>2, <2>1, LifecycleMove DEF Withdraw, Moves, Lifecycle!Withdraw
  <2>. QED BY <2>2 DEF Lifecycle!Next
<1>3. CASE Decide(o)
  <2>1. Decision(o) \in {"accepted", "rejected"} BY DEF Decision
  <2>2. Lifecycle!Advance(o) BY <1>3, <2>1, LifecycleAdvance
    DEF Decide, Moves, Lifecycle!MainLine
  <2>. QED BY <2>2 DEF Lifecycle!Next
<1>4. CASE Expire(o)
  BY <1>4, LifecycleAdvance DEF Expire, Moves, Lifecycle!MainLine, Lifecycle!Next
<1>5. CASE Ask(o)
  <2>1. Lifecycle!Ask(o) BY <1>5, LifecycleMove DEF Ask, Moves, Lifecycle!Ask
  <2>. QED BY <2>1 DEF Lifecycle!Next
<1>6. CASE Answer(o)
  <2>1. orders[o].cancellation = "requested" /\ orders[o].status \in Working
    BY <1>0, <1>6 DEF Answer
  <2>2. CASE venue[o].saved = "cancelled" /\ Moves(o, "cancelled", "confirmed")
    <3>1. venue[o].status = "cancelled" BY <1>0, <2>2, Answers
    <3>2. Lifecycle!Agree(o) BY <2>1, <2>2, <3>1, LifecycleAgree DEF Moves
    <3>. QED BY <3>2 DEF Lifecycle!Next
  <2>3. CASE Moves(o, orders[o].status, "rejected")
    <3> DEFINE s == orders[o].status
    <3>1. Lifecycle!Move(o, {s}, s, {"requested"}, "rejected")
      BY <2>1, <2>3, LifecycleMove DEF Moves
    <3>2. s \in Lifecycle!Working BY <2>1 DEF Working, Lifecycle!Working
    <3>. QED BY <3>1, <3>2 DEF Lifecycle!Next, Lifecycle!Refuse
  <2>4. CASE Moves(o, orders[o].status, "failed")
    <3> DEFINE s == orders[o].status
    <3>1. Lifecycle!Move(o, {s}, s, {"requested"}, "failed")
      BY <2>1, <2>4, LifecycleMove DEF Moves
    <3>2. s \in Lifecycle!Working BY <2>1 DEF Working, Lifecycle!Working
    <3>. QED BY <3>1, <3>2 DEF Lifecycle!Next, Lifecycle!Fail
  <2>. QED BY <1>6, <2>2, <2>3, <2>4 DEF Answer
<1>. QED BY <1>1, <1>2, <1>3, <1>4, <1>5, <1>6 DEF LocalMove

\* Every step of the two services moves the status and cancellation_status of
\* at most one order, and as OrderLifecycle promises.
LEMMA StepImplements ==
    KitchenSound /\ [Next]_vars => [Lifecycle!Next]_(Lifecycle!vars)
<1> SUFFICES ASSUME KitchenSound, [Next]_vars
             PROVE  [Lifecycle!Next]_(Lifecycle!vars)
  OBVIOUS
<1>1. PlatformStep BY PlatformSteps DEF KitchenSound
<1>2. ASSUME NEW c \in posted, Report(c) PROVE [Lifecycle!Next]_(Lifecycle!vars)
  <2>1. c[1] \in Orders BY DEF KitchenSound, PartsSound, PostedSound, V!Callbacks
  <2>. QED BY <1>2, <2>1, ReportImplements DEF Lifecycle!Next
<1>. QED BY <1>1, <1>2, LocalImplements, LifecycleSame DEF PlatformStep

\* The two state columns of the platform move as module OrderLifecycle
\* promises, whatever the network, the workers and the venue do.
THEOREM LifecycleKept == Spec => ImplementsLifecycle
<1>1. Init => Lifecycle!Init
  BY DEF Init, P!Init, P!NoOrder, Lifecycle!Init
<1>. QED BY <1>1, StepImplements, KitchenHolds, PTL
         DEF Spec, ImplementsLifecycle, Lifecycle!Spec

=============================================================================
