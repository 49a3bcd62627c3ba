----------------------------- MODULE VenueOrders -----------------------------
(***************************************************************************)
(* The venue service: its orders and stock                                 *)
(* (internal/venue/repository/orders.go), and the outbox of callbacks to   *)
(* the platform with its workers (internal/venue/repository/callbacks.go,  *)
(* internal/venue/service/callbacks.go).                                   *)
(*                                                                         *)
(* venue_settings, the menu versions, the prices and the availability      *)
(* flags are edited by operators, never by this code: a decision reads any *)
(* value of them.  The platform is on the other side of the callbacks:     *)
(* here a delivery may succeed or fail; module Kitchen puts it there.      *)
(* Calls that return before a write are stuttering steps.                  *)
(***************************************************************************)
EXTENDS Naturals, FiniteSets, FiniteSetsExt

CONSTANTS
    Orders,      \* platform_order_id values
    Items,       \* external ids of the menu items
    Quantity,    \* Quantity[o][i]: units of item i in the command of order o
    Supply,      \* Supply[i]: stock_quantity at the start, or Unlimited
    Unlimited,   \* a stock_quantity that is NULL
    Senders,     \* goroutines started by CallbackWorker.Run
    NoSender     \* a lock_token that is NULL

ASSUME SendersAssumption == NoSender \notin Senders
ASSUME QuantityAssumption == Quantity \in [Orders -> [Items -> Nat]]
ASSUME SupplyAssumption ==
    Unlimited \notin Nat /\ Supply \in [Items -> Nat \cup {Unlimited}]

VARIABLES
    venue,      \* venue_orders: decision, status, saved cancellation decision
                \* and next_event_sequence
    stock,      \* venue_menu_items.stock_quantity
    callbacks,  \* venue_outbox: row <<o, n>> is event number n of order o
    senders     \* what each callback worker is doing

vars == <<venue, stock, callbacks, senders>>

-----------------------------------------------------------------------------
(* Rows and their types *)

Reasons == {"venue_closed", "menu_changed", "items_unavailable"}

VenueOrder ==
    [decision: {"none", "accepted"} \cup Reasons,
     status: {"absent", "accepted", "rejected", "preparing", "ready",
              "completed", "cancelled"},
     saved: {"none", "cancelled", "rejected"},
     next: 1..4]

NoVenueOrder == [decision |-> "none", status |-> "absent", saved |-> "none",
                 next |-> 1]

EventTypes == {"order_preparing", "order_ready", "order_completed",
               "order_cancelled"}

\* An order reports at most three events: preparing, ready, completed.
Callbacks == Orders \X (1..3)

\* "token", "leased" and "due" stand for lock_token, locked_until in the
\* future and available_at in the past, as in PlatformOrders.
Callback == [state: {"absent", "queued", "processed"},
             type: EventTypes \cup {"none"},
             token: Senders \cup {NoSender}, leased: BOOLEAN, due: BOOLEAN]

NoCallback == [state |-> "absent", type |-> "none", token |-> NoSender,
               leased |-> FALSE, due |-> TRUE]

Idle == [phase |-> "idle"]
Sending == [phase: {"sending"}, job: Callbacks]

TypeOK ==
    /\ venue \in [Orders -> VenueOrder]
    /\ stock \in [Items -> Nat \cup {Unlimited}]
    /\ callbacks \in [Callbacks -> Callback]
    /\ senders \in [Senders -> {Idle} \cup Sending]

Init ==
    /\ venue = [o \in Orders |-> NoVenueOrder]
    /\ stock = Supply
    /\ callbacks = [c \in Callbacks |-> NoCallback]
    /\ senders = [s \in Senders |-> Idle]

-----------------------------------------------------------------------------
(* The decision about an order *)

\* Fault: an item that is short by one unit is promised.
LackingFault(o, offered) ==
    {i \in Items : Quantity[o][i] > 0 /\
        (i \notin offered \/ (stock[i] # Unlimited /\ stock[i] + 1 < Quantity[o][i]))}

\* The items of the command that are missing, switched off or short of stock.
Lacking(o, offered) ==
    {i \in Items : Quantity[o][i] > 0 /\
        (i \notin offered \/ (stock[i] # Unlimited /\ stock[i] < Quantity[o][i]))}

\* The answer to a command that has no decision yet: accepting is
\* is_accepting_orders, sameMenu that the version and the prices the command
\* expects are the current ones, offered the items that are available.
Judge(o, accepting, sameMenu, offered) ==
    CASE ~accepting -> "venue_closed"
      [] accepting /\ ~sameMenu -> "menu_changed"
      [] accepting /\ sameMenu /\ Lacking(o, offered) # {} -> "items_unavailable"
      [] OTHER -> "accepted"

\* Fault: the stock is not touched.
ReservedFault(o) == stock

\* The stock less the units of an order.
Reserved(o) ==
    [i \in Items |-> IF stock[i] = Unlimited THEN Unlimited
                     ELSE stock[i] - Quantity[o][i]]

\* DecideOrder.  A command that was decided before (findDecision) is answered
\* with the saved decision and changes nothing.
DecideOrder(o, accepting, sameMenu, offered) ==
    LET answer == Judge(o, accepting, sameMenu, offered)
    IN  /\ venue[o].status = "absent"
        /\ venue' = [venue EXCEPT
                ![o].decision = answer,
                ![o].status = IF answer = "accepted" THEN "accepted" ELSE "rejected"]
        /\ stock' = IF answer = "accepted" THEN Reserved(o) ELSE stock
        /\ UNCHANGED <<callbacks, senders>>

-----------------------------------------------------------------------------
(* Work on an order *)

\* The stock with the units of an order put back.
Released(o) ==
    [i \in Items |-> IF stock[i] = Unlimited THEN Unlimited
                     ELSE stock[i] + Quantity[o][i]]

\* Fault: a cancellation is not reported.
EnqueueFault(o, type) ==
    callbacks' = IF type = "order_cancelled" THEN callbacks
                 ELSE [callbacks EXCEPT ![<<o, venue[o].next>>] =
                        [NoCallback EXCEPT !.state = "queued", !.type = type]]

\* INSERT INTO venue_outbox with the next sequence number of the order.
Enqueue(o, type) ==
    callbacks' = [callbacks EXCEPT ![<<o, venue[o].next>>] =
                    [NoCallback EXCEPT !.state = "queued", !.type = type]]

\* transitionOrder: a repeat of the target or another status changes nothing.
Transition(o, expected, target, type) ==
    /\ venue[o].status = expected
    /\ venue' = [venue EXCEPT ![o].status = target, ![o].next = @ + 1]
    /\ Enqueue(o, type)
    /\ UNCHANGED <<stock, senders>>

StartPreparing(o) == Transition(o, "accepted", "preparing", "order_preparing")
MarkReady(o) == Transition(o, "preparing", "ready", "order_ready")
Complete(o) == Transition(o, "ready", "completed", "order_completed")

\* Fault: the saved decision is not looked up.
UndecidedFault(o) == venue[o].status # "absent"

\* A cancellation that has no saved decision.
Undecided(o) == venue[o].status # "absent" /\ venue[o].saved = "none"

\* Fault: an order that is being prepared may still be cancelled.
CancellableFault(o) == venue[o].status \in {"accepted", "preparing"}

\* The status an order must have to be cancelled.
Cancellable(o) == venue[o].status = "accepted"

\* CancelOrder of an order that is still accepted.
CancelAccepted(o) ==
    /\ Undecided(o)
    /\ Cancellable(o)
    /\ stock' = Released(o)
    /\ venue' = [venue EXCEPT ![o].status = "cancelled", ![o].next = @ + 1,
                             ![o].saved = "cancelled"]
    /\ Enqueue(o, "order_cancelled")
    /\ UNCHANGED senders

\* CancelOrder of an order in any other status.
RefuseCancellation(o) ==
    /\ Undecided(o)
    /\ ~Cancellable(o)
    /\ venue' = [venue EXCEPT ![o].saved = "rejected"]
    /\ UNCHANGED <<stock, callbacks, senders>>

CancelOrder(o) == CancelAccepted(o) \/ RefuseCancellation(o)

-----------------------------------------------------------------------------
(* The callback workers *)

\* Fault: a later event may overtake an earlier one.
NextInLineFault(c) == TRUE

\* NOT EXISTS an earlier unprocessed event of the same order.
NextInLine(c) == \A n \in 1..(c[2] - 1) : callbacks[<<c[1], n>>].state # "queued"

\* ClaimCallback.
ClaimCallback(s, c) ==
    /\ senders[s] = Idle
    /\ callbacks[c].state = "queued" /\ callbacks[c].due /\ ~callbacks[c].leased
    /\ NextInLine(c)
    /\ callbacks' = [callbacks EXCEPT ![c].leased = TRUE, ![c].token = s]
    /\ senders' = [senders EXCEPT ![s] = [phase |-> "sending", job |-> c]]
    /\ UNCHANGED <<venue, stock>>

HoldsLease(s) ==
    LET row == callbacks[senders[s].job]
    IN  row.state = "queued" /\ row.token = s

\* The end of the job of a worker.
Finish(s) ==
    /\ senders[s] # Idle
    /\ senders' = [senders EXCEPT ![s] = Idle]
    /\ UNCHANGED <<venue, stock>>

\* CompleteCallback after the platform answered 204.
CompleteCallback(s) ==
    /\ Finish(s)
    /\ HoldsLease(s)
    /\ callbacks' = [callbacks EXCEPT ![senders[s].job].state = "processed",
                                      ![senders[s].job].token = NoSender,
                                      ![senders[s].job].leased = FALSE]

\* RetryCallback after any other answer or none: there is no last attempt.
RetryCallback(s) ==
    /\ Finish(s)
    /\ HoldsLease(s)
    /\ callbacks' = [callbacks EXCEPT ![senders[s].job].due = FALSE,
                                      ![senders[s].job].token = NoSender,
                                      ![senders[s].job].leased = FALSE]

\* ErrCallbackLeaseLost, a failed statement, or a crash and restart: the
\* result of the delivery leaves no trace in the tables.
LoseCallback(s) == Finish(s) /\ UNCHANGED callbacks

LeaseExpires(c) ==
    /\ callbacks[c].leased
    /\ callbacks' = [callbacks EXCEPT ![c].leased = FALSE]
    /\ UNCHANGED <<venue, stock, senders>>

BackoffElapses(c) ==
    /\ ~callbacks[c].due
    /\ callbacks' = [callbacks EXCEPT ![c].due = TRUE]
    /\ UNCHANGED <<venue, stock, senders>>

-----------------------------------------------------------------------------
Next ==
    \/ \E o \in Orders :
        \/ \E accepting, sameMenu \in BOOLEAN, offered \in SUBSET Items :
            DecideOrder(o, accepting, sameMenu, offered)
        \/ StartPreparing(o) \/ MarkReady(o) \/ Complete(o) \/ CancelOrder(o)
    \/ \E s \in Senders :
        \/ \E c \in Callbacks : ClaimCallback(s, c)
        \/ CompleteCallback(s) \/ RetryCallback(s) \/ LoseCallback(s)
    \/ \E c \in Callbacks : LeaseExpires(c) \/ BackoffElapses(c)

Spec == Init /\ [][Next]_vars

-----------------------------------------------------------------------------
(* Safety *)

Reserving == {"accepted", "preparing", "ready", "completed"}

\* Stock is neither lost nor invented: what is on the shelf and what the
\* accepted orders hold add up to the supply, so no unit is promised twice and
\* a cancellation puts its units back once, however often and in whatever
\* order the commands arrive (docs/decisions/order-state-machine.md:
\* "Подтверждённая пользовательская отмена освобождает stock один раз").
StockConserved ==
    \A i \in Items : Supply[i] # Unlimited =>
        LET held(o) == Quantity[o][i]
            holders == {o \in Orders : venue[o].status \in Reserving}
        IN  stock[i] + MapThenSumSet(held, holders) = Supply[i]

\* The events an order has reported tell its whole story, in order, and the
\* saved answer to a cancellation is what happened: the platform, which sees
\* nothing else, can replay them from "accepted" to the status of the venue.
LogTellsStatus ==
    \A o \in Orders :
        LET log == [n \in 1..(venue[o].next - 1) |-> callbacks[<<o, n>>].type]
            stages == <<"order_preparing", "order_ready", "order_completed">>
        IN  CASE venue[o].status = "preparing" -> log = <<stages[1]>>
              [] venue[o].status = "ready" -> log = <<stages[1], stages[2]>>
              [] venue[o].status = "completed" -> log = stages
              [] venue[o].status = "cancelled" ->
                    log = <<"order_cancelled">> /\ venue[o].saved = "cancelled"
              [] OTHER -> log = <<>>

\* An event is marked as delivered only after every earlier event of its order
\* was, although workers overlap, leases expire and deliveries are repeated.
DeliveredInOrder ==
    \A c \in Callbacks : callbacks[c].state = "processed" =>
        \A n \in 1..(c[2] - 1) : callbacks[<<c[1], n>>].state = "processed"

\* A decision is final: a repeated command gets the first answer, whatever
\* happened to the menu, the stock or the order since
\* (docs/decisions/order-state-machine.md: "Повтор команды возвращает исходный
\* результат").
DecisionsStable ==
    [][\A o \in Orders :
        /\ venue[o].decision # "none" => venue'[o].decision = venue[o].decision
        /\ venue[o].saved # "none" => venue'[o].saved = venue[o].saved]_vars
=============================================================================
