-------------------------- MODULE VenueOrdersProofs --------------------------
(***************************************************************************)
(* Proofs about VenueOrders, for any orders (also infinitely many), items, *)
(* quantities, supplies and any number of callback workers: orders and     *)
(* their events (VenueSound), then the stock (StockSound).                 *)
(***************************************************************************)
EXTENDS VenueOrders, FiniteSetTheorems, TLAPS

USE SendersAssumption, QuantityAssumption, SupplyAssumption

-----------------------------------------------------------------------------
(* The inductive invariant *)

\* What the row of an order in venue_orders says about its events in
\* venue_outbox.  TypeOK is not inductive without the first group: the next
\* sequence number stays in its range because the status tells how far it is.
OrderSound(o) ==
    LET status == venue[o].status
        next == venue[o].next
    IN  /\ status \in {"absent", "accepted", "rejected"} => next = 1
        /\ status \in {"preparing", "cancelled"} => next = 2
        /\ status = "ready" => next = 3
        /\ status = "completed" => next = 4
        /\ status \in {"preparing", "ready", "completed"}
                => callbacks[<<o, 1>>].type = "order_preparing"
        /\ status \in {"ready", "completed"}
                => callbacks[<<o, 2>>].type = "order_ready"
        /\ status = "completed" => callbacks[<<o, 3>>].type = "order_completed"
        /\ status = "cancelled" => /\ callbacks[<<o, 1>>].type = "order_cancelled"
                                   /\ venue[o].saved = "cancelled"
        /\ status = "absent" <=> venue[o].decision = "none"
        /\ status = "absent" => venue[o].saved = "none"
        /\ \A n \in 1..3 : callbacks[<<o, n>>].state = "absent" <=> n >= next

\* An event that a worker holds, or that was delivered, has no undelivered
\* event before it: the claim looked for one, and no event is ever put in
\* front of another.
RowSound(c) ==
    /\ callbacks[c].state = "absent" => callbacks[c].token = NoSender
    /\ callbacks[c].token # NoSender \/ callbacks[c].state = "processed"
            => \A n \in 1..(c[2] - 1) : callbacks[<<c[1], n>>].state = "processed"

VenueSound ==
    /\ TypeOK
    /\ \A o \in Orders : OrderSound(o)
    /\ \A c \in Callbacks : RowSound(c)

-----------------------------------------------------------------------------
(* What the statements do *)

LEMMA NoCallbackType == NoCallback \in Callback
  BY DEF NoCallback, Callback

LEMMA CallbackPair ==
    ASSUME NEW c \in Callbacks
    PROVE  c[1] \in Orders /\ c[2] \in 1..3 /\ c = <<c[1], c[2]>>
<1>1. PICK o \in Orders, n \in 1..3 : c = <<o, n>> BY DEF Callbacks
<1>. QED BY <1>1

\* Enqueue fills the row after the last one of the order.
LEMMA EnqueueEffect ==
    ASSUME TypeOK, NEW o \in Orders, venue[o].next \in 1..3,
           NEW type \in EventTypes, Enqueue(o, type)
    PROVE  /\ callbacks' \in [Callbacks -> Callback]
           /\ callbacks'[<<o, venue[o].next>>].state = "queued"
           /\ callbacks'[<<o, venue[o].next>>].type = type
           /\ callbacks'[<<o, venue[o].next>>].token = NoSender
           /\ \A c \in Callbacks \ {<<o, venue[o].next>>} : callbacks'[c] = callbacks[c]
<1> DEFINE row == [NoCallback EXCEPT !.state = "queued", !.type = type]
           key == <<o, venue[o].next>>
<1>1. /\ row \in Callback /\ row.state = "queued" /\ row.type = type
      /\ row.token = NoSender
  BY NoCallbackType DEF NoCallback, Callback
<1>2. key \in Callbacks BY DEF Callbacks
<1>3. callbacks' = [callbacks EXCEPT ![key] = row] BY DEF Enqueue
<1> HIDE DEF row, key
<1>4. /\ callbacks' \in [Callbacks -> Callback] /\ callbacks'[key] = row
      /\ \A c \in Callbacks \ {key} : callbacks'[c] = callbacks[c]
  BY <1>1, <1>2, <1>3 DEF TypeOK
<1>. QED BY <1>1, <1>4 DEF key

\* An order whose row and events keep what they say stays sound.
LEMMA OrderFrame ==
    ASSUME NEW o \in Orders, OrderSound(o), venue'[o] = venue[o],
           \A n \in 1..3 : /\ callbacks'[<<o, n>>].type = callbacks[<<o, n>>].type
                           /\ callbacks'[<<o, n>>].state = "absent"
                                <=> callbacks[<<o, n>>].state = "absent"
    PROVE  OrderSound(o)'
<1>1. /\ callbacks'[<<o, 1>>].type = callbacks[<<o, 1>>].type
      /\ callbacks'[<<o, 2>>].type = callbacks[<<o, 2>>].type
      /\ callbacks'[<<o, 3>>].type = callbacks[<<o, 3>>].type
  OBVIOUS
<1>. QED BY <1>1 DEF OrderSound

\* The workers alone decide nothing.
LEMMA SoundFrame ==
    ASSUME VenueSound, UNCHANGED <<venue, stock, callbacks>>,
           senders' \in [Senders -> {Idle} \cup Sending]
    PROVE  VenueSound'
<1>1. TypeOK' BY DEF VenueSound, TypeOK
<1>2. \A o \in Orders : OrderSound(o)' BY OrderFrame DEF VenueSound
<1>3. \A c \in Callbacks : RowSound(c)' BY DEF VenueSound, RowSound
<1>. QED BY <1>1, <1>2, <1>3 DEF VenueSound

\* A new event at the end of the line leaves every row sound.
LEMMA RowsAfterEnqueue ==
    ASSUME VenueSound, NEW o \in Orders, venue[o].next \in 1..3,
           callbacks'[<<o, venue[o].next>>].state = "queued",
           callbacks'[<<o, venue[o].next>>].token = NoSender,
           \A c \in Callbacks \ {<<o, venue[o].next>>} : callbacks'[c] = callbacks[c]
    PROVE  \A c \in Callbacks : RowSound(c)'
<1> DEFINE key == <<o, venue[o].next>>
<1> SUFFICES ASSUME NEW c \in Callbacks PROVE RowSound(c)' OBVIOUS
<1>1. CASE c = key BY <1>1 DEF RowSound
<1>2. CASE c # key
  <2>1. callbacks'[c] = callbacks[c] /\ RowSound(c) BY <1>2 DEF VenueSound
  <2>2. ASSUME callbacks[c].token # NoSender \/ callbacks[c].state = "processed",
               NEW n \in 1..(c[2] - 1)
        PROVE  callbacks'[<<c[1], n>>].state = "processed"
    <3>1. <<c[1], n>> \in Callbacks /\ n \in 1..3 /\ c[1] \in Orders
      BY CallbackPair DEF Callbacks
    <3>2. callbacks[<<c[1], n>>].state = "processed" BY <2>1, <2>2 DEF RowSound
    <3>3. callbacks[key].state = "absent"
      <4>1. \A k \in 1..3 : callbacks[<<o, k>>].state = "absent" <=> k >= venue[o].next
        BY DEF VenueSound, OrderSound
      <4>2. venue[o].next >= venue[o].next OBVIOUS
      <4>. QED BY <4>1, <4>2
    <3>4. <<c[1], n>> # key BY <3>2, <3>3
    <3>. QED BY <3>1, <3>2, <3>4
  <2>. QED BY <2>1, <2>2 DEF RowSound
<1>. QED BY <1>1, <1>2

-----------------------------------------------------------------------------
(* The actions *)

LEMMA ReservedType ==
    ASSUME TypeOK, NEW o \in Orders, NEW offered, Lacking(o, offered) = {}
    PROVE  Reserved(o) \in [Items -> Nat \cup {Unlimited}]
<1> SUFFICES ASSUME NEW i \in Items, stock[i] # Unlimited
             PROVE  stock[i] - Quantity[o][i] \in Nat
  BY DEF Reserved
<1>1. stock[i] \in Nat /\ Quantity[o][i] \in Nat BY DEF TypeOK
<1>2. i \notin Lacking(o, offered) OBVIOUS
<1>3. Quantity[o][i] > 0 => ~(stock[i] < Quantity[o][i]) BY <1>2 DEF Lacking
<1>. QED BY <1>1, <1>3

LEMMA ReleasedType ==
    ASSUME TypeOK, NEW o \in Orders
    PROVE  Released(o) \in [Items -> Nat \cup {Unlimited}]
<1> SUFFICES ASSUME NEW i \in Items, stock[i] # Unlimited
             PROVE  stock[i] + Quantity[o][i] \in Nat
  BY DEF Released
<1>1. stock[i] \in Nat /\ Quantity[o][i] \in Nat BY DEF TypeOK
<1>. QED BY <1>1

\* The first answer to a command.
LEMMA JudgeAnswers ==
    ASSUME NEW o \in Orders, NEW a \in BOOLEAN, NEW m \in BOOLEAN, NEW offered
    PROVE  /\ Judge(o, a, m, offered) \in {"accepted"} \cup Reasons
           /\ Judge(o, a, m, offered) = "accepted" => a /\ m /\ Lacking(o, offered) = {}
<1>1. CASE ~a BY <1>1 DEF Judge, Reasons
<1>2. CASE a /\ ~m BY <1>2 DEF Judge, Reasons
<1>3. CASE a /\ m /\ Lacking(o, offered) # {} BY <1>3 DEF Judge, Reasons
<1>4. CASE a /\ m /\ Lacking(o, offered) = {} BY <1>4 DEF Judge, Reasons
<1>. QED BY <1>1, <1>2, <1>3, <1>4

LEMMA DecideSound ==
    ASSUME VenueSound, NEW o \in Orders, NEW a \in BOOLEAN, NEW m \in BOOLEAN,
           NEW offered \in SUBSET Items, DecideOrder(o, a, m, offered)
    PROVE  VenueSound'
<1> DEFINE answer == Judge(o, a, m, offered)
           row == [venue[o] EXCEPT !.decision = answer,
                    !.status = IF answer = "accepted" THEN "accepted" ELSE "rejected"]
<1>0. TypeOK /\ venue[o] \in VenueOrder BY DEF VenueSound, TypeOK
<1>1. /\ answer \in {"accepted"} \cup Reasons
      /\ answer = "accepted" => Lacking(o, offered) = {}
  BY JudgeAnswers
<1>2. venue' = [venue EXCEPT ![o] = row]
  BY DEF DecideOrder
<1>3. /\ venue[o].status = "absent"
      /\ stock' = IF answer = "accepted" THEN Reserved(o) ELSE stock
      /\ UNCHANGED <<callbacks, senders>>
  BY DEF DecideOrder
<1> HIDE DEF answer
<1>4. /\ row \in VenueOrder /\ row.decision = answer /\ row.next = venue[o].next
      /\ row.saved = venue[o].saved /\ row.status \in {"accepted", "rejected"}
  BY <1>0, <1>1 DEF VenueOrder
<1> HIDE DEF row
<1>5. venue'[o] = row /\ \A p \in Orders \ {o} : venue'[p] = venue[p]
  BY <1>0, <1>2 DEF TypeOK
<1>6. TypeOK'
  <2>1. stock' \in [Items -> Nat \cup {Unlimited}]
    BY <1>0, <1>1, <1>3, ReservedType DEF TypeOK
  <2>. QED BY <1>0, <1>2, <1>3, <1>4, <2>1 DEF TypeOK
<1>7. ASSUME NEW p \in Orders PROVE OrderSound(p)'
  <2>1. CASE p # o BY <1>3, <1>5, <2>1, OrderFrame DEF VenueSound
  <2>2. CASE p = o
    <3>1. OrderSound(o) BY DEF VenueSound
    <3>2. answer # "none" BY <1>1 DEF Reasons
    <3>. QED BY <1>3, <1>4, <1>5, <2>2, <3>1, <3>2 DEF OrderSound
  <2>. QED BY <2>1, <2>2
<1>8. \A c \in Callbacks : RowSound(c)' BY <1>3 DEF VenueSound, RowSound
<1>. QED BY <1>6, <1>7, <1>8 DEF VenueSound

\* A transaction that changes the status of an order and reports it.
LEMMA ReportSound ==
    ASSUME VenueSound, NEW o \in Orders, NEW target, NEW saved, NEW type \in EventTypes,
           Enqueue(o, type),
           venue' = [venue EXCEPT ![o] = [venue[o] EXCEPT
                        !.status = target, !.next = venue[o].next + 1, !.saved = saved]],
           saved \in {"none", "cancelled", "rejected"},
           stock' \in [Items -> Nat \cup {Unlimited}], UNCHANGED senders,
           \/ /\ venue[o].status = "accepted" /\ target = "preparing"
              /\ type = "order_preparing"
           \/ /\ venue[o].status = "preparing" /\ target = "ready"
              /\ type = "order_ready"
           \/ /\ venue[o].status = "ready" /\ target = "completed"
              /\ type = "order_completed"
           \/ /\ venue[o].status = "accepted" /\ target = "cancelled"
              /\ type = "order_cancelled" /\ saved = "cancelled"
    PROVE  VenueSound'
<1> DEFINE row == [venue[o] EXCEPT !.status = target, !.next = venue[o].next + 1,
                                   !.saved = saved]
           next == venue[o].next
<1>0. TypeOK /\ venue[o] \in VenueOrder /\ OrderSound(o) BY DEF VenueSound, TypeOK
<1>1. /\ venue[o].status = "accepted" => next = 1
      /\ venue[o].status = "preparing" => next = 2
      /\ venue[o].status = "ready" => next = 3
      /\ next \in 1..3 /\ next + 1 \in 1..4
  BY <1>0 DEF OrderSound
<1>2. /\ row \in VenueOrder /\ row.decision = venue[o].decision
      /\ row.status = target /\ row.next = next + 1 /\ row.saved = saved
  <2> HIDE DEF next
  <2>1. target \in {"preparing", "ready", "completed", "cancelled"} OBVIOUS
  <2>. QED BY <1>0, <1>1, <2>1 DEF VenueOrder, next
<1> HIDE DEF row
<1>3. venue' = [venue EXCEPT ![o] = row] BY DEF row
<1>4. venue'[o] = row /\ \A p \in Orders \ {o} : venue'[p] = venue[p]
  BY <1>0, <1>3 DEF TypeOK
<1>5. /\ callbacks' \in [Callbacks -> Callback]
      /\ callbacks'[<<o, next>>].state = "queued"
      /\ callbacks'[<<o, next>>].type = type
      /\ callbacks'[<<o, next>>].token = NoSender
      /\ \A c \in Callbacks \ {<<o, next>>} : callbacks'[c] = callbacks[c]
  BY <1>0, <1>1, EnqueueEffect
<1>6. TypeOK' BY <1>0, <1>2, <1>3, <1>5 DEF TypeOK
<1>7. ASSUME NEW p \in Orders PROVE OrderSound(p)'
  <2>1. CASE p # o
    <3>1. \A n \in 1..3 : callbacks'[<<p, n>>] = callbacks[<<p, n>>]
      BY <1>5, <2>1 DEF Callbacks
    <3>. QED BY <1>4, <2>1, <3>1, OrderFrame DEF VenueSound
  <2>2. CASE p = o
    <3>1. \A n \in 1..3 : n # next => callbacks'[<<o, n>>] = callbacks[<<o, n>>]
      BY <1>5 DEF Callbacks
    <3>2. \A n \in 1..3 : callbacks'[<<o, n>>].state = "absent" <=> n >= next + 1
      <4> SUFFICES ASSUME NEW n \in 1..3
                   PROVE  callbacks'[<<o, n>>].state = "absent" <=> n >= next + 1
        OBVIOUS
      <4>1. CASE n = next BY <1>1, <1>5, <4>1
      <4>2. CASE n # next
        <5>1. callbacks[<<o, n>>].state = "absent" <=> n >= next
          BY <1>0 DEF OrderSound
        <5>2. callbacks'[<<o, n>>] = callbacks[<<o, n>>] BY <3>1, <4>2
        <5>3. n \in Int /\ next \in Int BY <1>1
        <5> HIDE DEF next
        <5>4. n >= next <=> n >= next + 1 BY <4>2, <5>3
        <5>. QED BY <5>1, <5>2, <5>4
      <4>. QED BY <4>1, <4>2
    <3>3. /\ next # 1 => callbacks'[<<o, 1>>].type = callbacks[<<o, 1>>].type
          /\ next # 2 => callbacks'[<<o, 2>>].type = callbacks[<<o, 2>>].type
      BY <3>1
    <3>4. venue[o].decision # "none" BY <1>0 DEF OrderSound
    <3>. QED BY <1>0, <1>1, <1>2, <1>4, <1>5, <2>2, <3>2, <3>3, <3>4 DEF OrderSound
  <2>. QED BY <2>1, <2>2
<1>8. \A c \in Callbacks : RowSound(c)' BY <1>1, <1>5, RowsAfterEnqueue
<1>. QED BY <1>6, <1>7, <1>8 DEF VenueSound

LEMMA CancelSound ==
    ASSUME VenueSound, NEW o \in Orders, CancelOrder(o) PROVE VenueSound'
<1>0. TypeOK /\ venue[o] \in VenueOrder /\ OrderSound(o) BY DEF VenueSound, TypeOK
<1>1. CASE CancelAccepted(o)
  <2>1. stock' \in [Items -> Nat \cup {Unlimited}]
    BY <1>0, <1>1, ReleasedType DEF CancelAccepted
  <2>2. venue' = [venue EXCEPT ![o] = [venue[o] EXCEPT !.status = "cancelled",
                        !.next = venue[o].next + 1, !.saved = "cancelled"]]
    BY <1>0, <1>1 DEF CancelAccepted, VenueOrder
  <2>3. /\ venue[o].status = "accepted" /\ Enqueue(o, "order_cancelled")
        /\ UNCHANGED senders /\ "order_cancelled" \in EventTypes
    BY <1>1 DEF CancelAccepted, Cancellable, EventTypes
  <2>. QED BY <2>1, <2>2, <2>3, ReportSound
<1>2. CASE RefuseCancellation(o)
  <2> DEFINE row == [venue[o] EXCEPT !.saved = "rejected"]
  <2>1. /\ venue[o].status # "absent" /\ venue[o].saved = "none"
        /\ UNCHANGED <<stock, callbacks, senders>>
    BY <1>2 DEF RefuseCancellation, Undecided
  <2>2. /\ row \in VenueOrder /\ row.status = venue[o].status
        /\ row.decision = venue[o].decision /\ row.next = venue[o].next
        /\ row.saved = "rejected"
    BY <1>0 DEF VenueOrder
  <2>3. venue' = [venue EXCEPT ![o] = row]
    BY <1>0, <1>2 DEF RefuseCancellation, VenueOrder, TypeOK
  <2> HIDE DEF row
  <2>4. venue'[o] = row /\ \A p \in Orders \ {o} : venue'[p] = venue[p]
    BY <1>0, <2>3 DEF TypeOK
  <2>5. TypeOK' BY <1>0, <2>1, <2>2, <2>3 DEF TypeOK
  <2>6. ASSUME NEW p \in Orders PROVE OrderSound(p)'
    <3>1. CASE p # o BY <2>1, <2>4, <3>1, OrderFrame DEF VenueSound
    <3>2. CASE p = o BY <1>0, <2>1, <2>2, <2>4, <3>2 DEF OrderSound
    <3>. QED BY <3>1, <3>2
  <2>7. \A c \in Callbacks : RowSound(c)' BY <2>1 DEF VenueSound, RowSound
  <2>. QED BY <2>5, <2>6, <2>7 DEF VenueSound
<1>. QED BY <1>1, <1>2 DEF CancelOrder

LEMMA TransitionReports ==
    ASSUME VenueSound, NEW o \in Orders, NEW expected, NEW target,
           NEW type \in EventTypes, Transition(o, expected, target, type),
           \/ /\ expected = "accepted" /\ target = "preparing"
              /\ type = "order_preparing"
           \/ /\ expected = "preparing" /\ target = "ready"
              /\ type = "order_ready"
           \/ /\ expected = "ready" /\ target = "completed"
              /\ type = "order_completed"
    PROVE  VenueSound'
<1>0. TypeOK /\ venue[o] \in VenueOrder BY DEF VenueSound, TypeOK
<1>1. venue' = [venue EXCEPT ![o] = [venue[o] EXCEPT !.status = target,
                    !.next = venue[o].next + 1, !.saved = venue[o].saved]]
  BY <1>0 DEF Transition, VenueOrder, TypeOK
<1>2. /\ venue[o].status = expected /\ Enqueue(o, type) /\ UNCHANGED <<stock, senders>>
      /\ venue[o].saved \in {"none", "cancelled", "rejected"}
  BY <1>0 DEF Transition, VenueOrder
<1>3. stock' \in [Items -> Nat \cup {Unlimited}] BY <1>0, <1>2 DEF TypeOK
<1>. QED BY <1>1, <1>2, <1>3, ReportSound

LEMMA TransitionSound ==
    ASSUME VenueSound, NEW o \in Orders,
           StartPreparing(o) \/ MarkReady(o) \/ Complete(o)
    PROVE  VenueSound'
<1>1. CASE StartPreparing(o)
  BY <1>1, TransitionReports DEF StartPreparing, EventTypes
<1>2. CASE MarkReady(o) BY <1>2, TransitionReports DEF MarkReady, EventTypes
<1>3. CASE Complete(o) BY <1>3, TransitionReports DEF Complete, EventTypes
<1>. QED BY <1>1, <1>2, <1>3

-----------------------------------------------------------------------------
(* The workers *)

\* A step of a worker or of the clock that changes at most one row, keeps its
\* event and its type, and does not go back on a delivery.
LEMMA WorkerSound ==
    ASSUME VenueSound, NEW c \in Callbacks, NEW row \in Callback,
           UNCHANGED <<venue, stock>>, senders' \in [Senders -> {Idle} \cup Sending],
           callbacks' = [callbacks EXCEPT ![c] = row],
           row.type = callbacks[c].type,
           row.state = callbacks[c].state
                \/ (callbacks[c].state = "queued" /\ row.state = "processed"),
           \/ /\ row.state = callbacks[c].state
              /\ row.token \in {callbacks[c].token, NoSender}
           \/ \A n \in 1..(c[2] - 1) : callbacks[<<c[1], n>>].state = "processed",
           row.state = "absent" => row.token = NoSender
    PROVE  VenueSound'
<1>0. TypeOK BY DEF VenueSound
<1>1. TypeOK' BY <1>0 DEF TypeOK
<1>2. callbacks'[c] = row /\ \A d \in Callbacks \ {c} : callbacks'[d] = callbacks[d]
  BY <1>0 DEF TypeOK
<1>3. \A o \in Orders : OrderSound(o)'
  <2> SUFFICES ASSUME NEW o \in Orders PROVE OrderSound(o)' OBVIOUS
  <2>1. ASSUME NEW n \in 1..3
        PROVE  /\ callbacks'[<<o, n>>].type = callbacks[<<o, n>>].type
               /\ callbacks'[<<o, n>>].state = "absent"
                        <=> callbacks[<<o, n>>].state = "absent"
    <3>1. <<o, n>> \in Callbacks BY DEF Callbacks
    <3>2. CASE <<o, n>> = c BY <1>2, <3>2
    <3>3. CASE <<o, n>> # c BY <1>2, <3>1, <3>3
    <3>. QED BY <3>2, <3>3
  <2>. QED BY <2>1, OrderFrame DEF VenueSound
<1>4. \A d \in Callbacks :
        callbacks[d].state = "processed" => callbacks'[d].state = "processed"
  BY <1>2
<1>5. ASSUME NEW d \in Callbacks PROVE RowSound(d)'
  <2>1. RowSound(d) BY DEF VenueSound
  <2>2. callbacks'[d].state = "absent" => callbacks'[d].token = NoSender
    BY <1>2, <2>1 DEF RowSound
  <2>3. ASSUME callbacks'[d].token # NoSender \/ callbacks'[d].state = "processed"
        PROVE  \A n \in 1..(d[2] - 1) : callbacks[<<d[1], n>>].state = "processed"
    <3>1. CASE d # c BY <1>2, <2>1, <2>3, <3>1 DEF RowSound
    <3>2. CASE d = c
      <4>1. CASE row.state = callbacks[c].state /\ row.token \in {callbacks[c].token, NoSender}
        BY <1>2, <2>1, <2>3, <3>2, <4>1 DEF RowSound
      <4>. QED BY <3>2, <4>1
    <3>. QED BY <3>1, <3>2
  <2>4. ASSUME NEW n \in 1..(d[2] - 1) PROVE <<d[1], n>> \in Callbacks
    <3>1. d[1] \in Orders /\ d[2] \in 1..3 BY CallbackPair
    <3>2. n \in 1..3 BY <3>1
    <3>. QED BY <3>1, <3>2 DEF Callbacks
  <2>. QED BY <1>4, <2>2, <2>3, <2>4 DEF RowSound
<1>. QED BY <1>1, <1>3, <1>5 DEF VenueSound

LEMMA ClaimSound ==
    ASSUME VenueSound, NEW s \in Senders, NEW c \in Callbacks, ClaimCallback(s, c)
    PROVE  VenueSound'
<1> DEFINE row == [callbacks[c] EXCEPT !.leased = TRUE, !.token = s]
<1>0. TypeOK /\ callbacks[c] \in Callback BY DEF VenueSound, TypeOK
<1>1. row \in Callback /\ row.type = callbacks[c].type /\ row.state = callbacks[c].state
  BY <1>0 DEF Callback
<1>2. callbacks' = [callbacks EXCEPT ![c] = row]
  BY <1>0 DEF ClaimCallback, TypeOK, Callback
<1>3. senders' \in [Senders -> {Idle} \cup Sending]
  BY <1>0 DEF ClaimCallback, TypeOK, Sending
<1>4. UNCHANGED <<venue, stock>> /\ callbacks[c].state = "queued" BY DEF ClaimCallback
<1>5. ASSUME NEW n \in 1..(c[2] - 1) PROVE callbacks[<<c[1], n>>].state = "processed"
  <2>1. /\ c[1] \in Orders /\ c[2] \in 1..3 /\ n \in 1..3 /\ n < c[2]
        /\ <<c[1], n>> \in Callbacks /\ c = <<c[1], c[2]>>
    <3>1. c[1] \in Orders /\ c[2] \in 1..3 /\ c = <<c[1], c[2]>> BY CallbackPair
    <3>2. n \in 1..3 /\ n < c[2] BY <3>1
    <3>3. <<c[1], n>> \in Callbacks BY <3>1, <3>2 DEF Callbacks
    <3>. QED BY <3>1, <3>2, <3>3
  <2>2. OrderSound(c[1]) /\ venue[c[1]].next \in 1..4
    BY <1>0, <2>1 DEF VenueSound, TypeOK, VenueOrder
  <2>3. callbacks[<<c[1], n>>].state # "absent"
    <3>1. \A k \in 1..3 : callbacks[<<c[1], k>>].state = "absent"
                            <=> k >= venue[c[1]].next
      BY <2>2 DEF OrderSound
    <3>2. callbacks[<<c[1], c[2]>>].state # "absent" BY <1>4, <2>1
    <3>. QED BY <2>1, <2>2, <3>1, <3>2
  <2>4. callbacks[<<c[1], n>>].state # "queued" BY DEF ClaimCallback, NextInLine
  <2>. QED BY <1>0, <2>1, <2>3, <2>4 DEF TypeOK, Callback
<1> HIDE DEF row
<1>. QED BY <1>1, <1>2, <1>3, <1>4, <1>5, WorkerSound

LEMMA FinishType ==
    ASSUME TypeOK, NEW s \in Senders, Finish(s)
    PROVE  /\ senders' \in [Senders -> {Idle} \cup Sending]
           /\ UNCHANGED <<venue, stock>>
           /\ senders[s].job \in Callbacks
  BY DEF TypeOK, Finish, Sending

LEMMA OutcomeSound ==
    ASSUME VenueSound, NEW s \in Senders,
           CompleteCallback(s) \/ RetryCallback(s) \/ LoseCallback(s)
    PROVE  VenueSound'
<1>0. TypeOK BY DEF VenueSound
<1>1. /\ senders' \in [Senders -> {Idle} \cup Sending] /\ UNCHANGED <<venue, stock>>
      /\ senders[s].job \in Callbacks
  BY <1>0, FinishType DEF CompleteCallback, RetryCallback, LoseCallback
<1> DEFINE c == senders[s].job
<1>2. callbacks[c] \in Callback /\ RowSound(c) BY <1>0, <1>1 DEF TypeOK, VenueSound
<1>3. CASE CompleteCallback(s)
  <2> DEFINE row == [callbacks[c] EXCEPT !.state = "processed", !.token = NoSender,
                                         !.leased = FALSE]
  <2>1. /\ row \in Callback /\ row.type = callbacks[c].type
        /\ row.state = "processed"
    BY <1>2 DEF Callback
  <2>2. callbacks' = [callbacks EXCEPT ![c] = row]
    BY <1>0, <1>1, <1>2, <1>3 DEF CompleteCallback, TypeOK, Callback
  <2>3. callbacks[c].state = "queued" /\ callbacks[c].token = s
    BY <1>3 DEF CompleteCallback, HoldsLease
  <2>4. \A n \in 1..(c[2] - 1) : callbacks[<<c[1], n>>].state = "processed"
    BY <1>2, <2>3 DEF RowSound
  <2> HIDE DEF row, c
  <2>5. c \in Callbacks BY <1>1 DEF c
  <2>. QED BY <1>1, <2>1, <2>2, <2>3, <2>4, <2>5, WorkerSound
<1>4. CASE RetryCallback(s)
  <2> DEFINE row == [callbacks[c] EXCEPT !.due = FALSE, !.token = NoSender,
                                         !.leased = FALSE]
  <2>1. /\ row \in Callback /\ row.type = callbacks[c].type
        /\ row.state = callbacks[c].state /\ row.token = NoSender
    BY <1>2 DEF Callback
  <2>2. callbacks' = [callbacks EXCEPT ![c] = row]
    BY <1>0, <1>1, <1>2, <1>4 DEF RetryCallback, TypeOK, Callback
  <2> HIDE DEF row, c
  <2>5. c \in Callbacks BY <1>1 DEF c
  <2>. QED BY <1>1, <2>1, <2>2, <2>5, WorkerSound
<1>5. CASE LoseCallback(s)
  <2>1. UNCHANGED <<venue, stock, callbacks>> BY <1>1, <1>5 DEF LoseCallback
  <2>2. senders' \in [Senders -> {Idle} \cup Sending] BY <1>1 DEF TypeOK
  <2>. QED BY <2>1, <2>2, SoundFrame
<1>. QED BY <1>3, <1>4, <1>5

LEMMA ClockSound ==
    ASSUME VenueSound, NEW c \in Callbacks, LeaseExpires(c) \/ BackoffElapses(c)
    PROVE  VenueSound'
<1>0. TypeOK /\ callbacks[c] \in Callback /\ RowSound(c)
  BY DEF VenueSound, TypeOK
<1> DEFINE expired == [callbacks[c] EXCEPT !.leased = FALSE]
           due == [callbacks[c] EXCEPT !.due = TRUE]
<1>1. \A row \in {expired, due} :
        /\ row \in Callback /\ row.type = callbacks[c].type
        /\ row.state = callbacks[c].state /\ row.token = callbacks[c].token
  BY <1>0 DEF Callback
<1>2. PICK row \in {expired, due} : callbacks' = [callbacks EXCEPT ![c] = row]
  BY <1>0 DEF LeaseExpires, BackoffElapses, TypeOK, Callback
<1>3. UNCHANGED <<venue, stock, senders>> BY DEF LeaseExpires, BackoffElapses
<1>4. senders' \in [Senders -> {Idle} \cup Sending] BY <1>0, <1>3 DEF TypeOK
<1> HIDE DEF expired, due
<1>5. row.state = "absent" => row.token = NoSender BY <1>0, <1>1 DEF RowSound
<1>6. /\ row \in Callback /\ row.type = callbacks[c].type
      /\ row.state = callbacks[c].state /\ row.token = callbacks[c].token
  BY <1>1
<1>. QED BY <1>2, <1>3, <1>4, <1>5, <1>6, WorkerSound

-----------------------------------------------------------------------------
(* The theorems *)

LEMMA VenueInit == Init => VenueSound
<1> SUFFICES ASSUME Init PROVE VenueSound OBVIOUS
<1>1. TypeOK
  BY NoCallbackType DEF Init, TypeOK, NoVenueOrder, VenueOrder
<1>2. \A c \in Callbacks : callbacks[c] = NoCallback BY DEF Init
<1>3. ASSUME NEW o \in Orders PROVE OrderSound(o)
  <2>1. venue[o] = NoVenueOrder BY DEF Init
  <2>2. \A n \in 1..3 : callbacks[<<o, n>>].state = "absent"
    BY <1>2 DEF Callbacks, NoCallback
  <2>. QED BY <2>1, <2>2 DEF OrderSound, NoVenueOrder
<1>4. \A c \in Callbacks : RowSound(c) BY <1>2 DEF RowSound, NoCallback
<1>. QED BY <1>1, <1>3, <1>4 DEF VenueSound

LEMMA VenueNext == VenueSound /\ [Next]_vars => VenueSound'
<1> SUFFICES ASSUME VenueSound, [Next]_vars PROVE VenueSound' OBVIOUS
<1>1. CASE UNCHANGED vars
  BY <1>1, SoundFrame DEF vars, VenueSound, TypeOK
<1>. QED
  BY <1>1, DecideSound, TransitionSound, CancelSound, ClaimSound, OutcomeSound,
     ClockSound DEF Next

LEMMA Soundness == Spec => []VenueSound
<1>. QED BY VenueInit, VenueNext, PTL DEF Spec

\* The tables of the venue keep their types: no stock_quantity ever drops below
\* zero, and no order reports a fourth event.
THEOREM TypeCorrect == Spec => []TypeOK
<1>1. VenueSound => TypeOK BY DEF VenueSound
<1>. QED BY <1>1, Soundness, PTL

\* The events in venue_outbox tell the whole story of every order.
THEOREM EventsTellStatus == Spec => []LogTellsStatus
<1>1. VenueSound => LogTellsStatus
  <2> SUFFICES ASSUME VenueSound, NEW o \in Orders
               PROVE  LET log == [n \in 1..(venue[o].next - 1) |-> callbacks[<<o, n>>].type]
                          stages == <<"order_preparing", "order_ready", "order_completed">>
                      IN  CASE venue[o].status = "preparing" -> log = <<stages[1]>>
                            [] venue[o].status = "ready" -> log = <<stages[1], stages[2]>>
                            [] venue[o].status = "completed" -> log = stages
                            [] venue[o].status = "cancelled" ->
                                  log = <<"order_cancelled">> /\ venue[o].saved = "cancelled"
                            [] OTHER -> log = <<>>
    BY DEF LogTellsStatus
  <2> DEFINE status == venue[o].status
             log == [n \in 1..(venue[o].next - 1) |-> callbacks[<<o, n>>].type]
  <2>0. OrderSound(o) /\ venue[o] \in VenueOrder BY DEF VenueSound, TypeOK
  <2>1. CASE status = "preparing"
    <3>1. log = <<"order_preparing">> BY <2>0, <2>1 DEF OrderSound
    <3>. QED BY <2>1, <3>1
  <2>2. CASE status = "ready"
    <3> DEFINE stages == <<"order_preparing", "order_ready">>
    <3>1. /\ venue[o].next = 3
          /\ callbacks[<<o, 1>>].type = stages[1]
          /\ callbacks[<<o, 2>>].type = stages[2]
      BY <2>0, <2>2 DEF OrderSound
    <3>2. log = [n \in 1..2 |-> callbacks[<<o, n>>].type] BY <3>1
    <3>3. \A n \in 1..2 : n = 1 \/ n = 2 OBVIOUS
    <3>4. stages = [n \in 1..2 |-> stages[n]] OBVIOUS
    <3> HIDE DEF stages
    <3>5. \A n \in 1..2 : callbacks[<<o, n>>].type = stages[n] BY <3>1, <3>3
    <3>6. log = stages BY <3>2, <3>4, <3>5
    <3>. QED BY <2>2, <3>6 DEF stages
  <2>3. CASE status = "completed"
    <3> DEFINE stages == <<"order_preparing", "order_ready", "order_completed">>
    <3>1. /\ venue[o].next = 4
          /\ callbacks[<<o, 1>>].type = stages[1]
          /\ callbacks[<<o, 2>>].type = stages[2]
          /\ callbacks[<<o, 3>>].type = stages[3]
      BY <2>0, <2>3 DEF OrderSound
    <3>2. log = [n \in 1..3 |-> callbacks[<<o, n>>].type] BY <3>1
    <3>3. \A n \in 1..3 : n = 1 \/ n = 2 \/ n = 3 OBVIOUS
    <3>4. stages = [n \in 1..3 |-> stages[n]] OBVIOUS
    <3> HIDE DEF stages
    <3>5. \A n \in 1..3 : callbacks[<<o, n>>].type = stages[n] BY <3>1, <3>3
    <3>6. log = stages BY <3>2, <3>4, <3>5
    <3>. QED BY <2>3, <3>6 DEF stages
  <2>4. CASE status = "cancelled"
    <3>1. log = <<"order_cancelled">> /\ venue[o].saved = "cancelled"
      BY <2>0, <2>4 DEF OrderSound
    <3>. QED BY <2>4, <3>1
  <2>5. CASE status \in {"absent", "accepted", "rejected"}
    <3>1. log = <<>> BY <2>0, <2>5 DEF OrderSound
    <3>. QED BY <2>5, <3>1
  <2>. QED BY <2>0, <2>1, <2>2, <2>3, <2>4, <2>5 DEF VenueOrder
<1>. QED BY <1>1, Soundness, PTL

\* An event is marked as delivered only after every earlier event of its order,
\* although workers overlap and leases expire.
THEOREM EventsInOrder == Spec => []DeliveredInOrder
<1>1. VenueSound => DeliveredInOrder BY DEF VenueSound, RowSound, DeliveredInOrder
<1>. QED BY <1>1, Soundness, PTL

\* Nobody takes back a decision about an order or about its cancellation.
LEMMA DecisionStep ==
    ASSUME VenueSound, [Next]_vars, NEW o \in Orders
    PROVE  /\ venue[o].decision # "none" => venue'[o].decision = venue[o].decision
           /\ venue[o].saved # "none" => venue'[o].saved = venue[o].saved
<1> DEFINE Stays == /\ venue[o].decision # "none" => venue'[o].decision = venue[o].decision
                    /\ venue[o].saved # "none" => venue'[o].saved = venue[o].saved
<1>0. TypeOK /\ OrderSound(o) BY DEF VenueSound
<1>1. ASSUME NEW p \in Orders, NEW a \in BOOLEAN, NEW m \in BOOLEAN,
             NEW offered \in SUBSET Items, DecideOrder(p, a, m, offered)
      PROVE  Stays
  <2>1. CASE p = o
    <3>1. venue[o].status = "absent" BY <1>1, <2>1 DEF DecideOrder
    <3>2. venue[o].decision = "none" /\ venue[o].saved = "none" BY <1>0, <3>1 DEF OrderSound
    <3>. QED BY <3>2
  <2>2. CASE p # o BY <1>0, <1>1, <2>2 DEF DecideOrder, TypeOK
  <2>. QED BY <2>1, <2>2
<1>2. ASSUME NEW p \in Orders, StartPreparing(p) \/ MarkReady(p) \/ Complete(p)
      PROVE  Stays
  BY <1>0, <1>2 DEF StartPreparing, MarkReady, Complete, Transition, TypeOK, VenueOrder
<1>3. ASSUME NEW p \in Orders, CancelOrder(p) PROVE Stays
  <2>1. CASE p # o
    BY <1>0, <1>3, <2>1 DEF CancelOrder, CancelAccepted, RefuseCancellation, TypeOK
  <2>2. CASE p = o
    BY <1>0, <1>3, <2>2 DEF CancelOrder, CancelAccepted, RefuseCancellation, Undecided,
                            TypeOK, VenueOrder
  <2>. QED BY <2>1, <2>2
<1>4. ASSUME UNCHANGED venue PROVE Stays BY <1>4
<1>5. ASSUME NEW s \in Senders, NEW c \in Callbacks, ClaimCallback(s, c) PROVE Stays
  BY <1>4, <1>5 DEF ClaimCallback
<1>6. ASSUME NEW s \in Senders, CompleteCallback(s) \/ RetryCallback(s) \/ LoseCallback(s)
      PROVE  Stays
  BY <1>4, <1>6 DEF CompleteCallback, RetryCallback, LoseCallback, Finish
<1>7. ASSUME NEW c \in Callbacks, LeaseExpires(c) \/ BackoffElapses(c) PROVE Stays
  BY <1>4, <1>7 DEF LeaseExpires, BackoffElapses
<1>8. CASE UNCHANGED vars BY <1>4, <1>8 DEF vars
<1>. QED BY <1>1, <1>2, <1>3, <1>5, <1>6, <1>7, <1>8 DEF Next

\* A repeated command gets the first answer: DecideOrder and CancelOrder never
\* change a saved decision.
THEOREM DecisionsForGood == Spec => DecisionsStable
<1> DEFINE Stay == \A o \in Orders :
                /\ venue[o].decision # "none" => venue'[o].decision = venue[o].decision
                /\ venue[o].saved # "none" => venue'[o].saved = venue[o].saved
<1>1. VenueSound /\ [Next]_vars => [Stay]_vars BY DecisionStep
<1>2. [][Stay]_vars => DecisionsStable BY DEF DecisionsStable
<1>. QED BY <1>1, <1>2, Soundness, PTL DEF Spec

-----------------------------------------------------------------------------
(* What a step may do to one order and to one event *)

\* The decision, the work and the answer to a cancellation, one at a time.
OrderMove(o) ==
    LET old == venue[o]
        new == venue'[o]
    IN  \/ new = old
        \/ /\ old.status = "absent" /\ new.saved = old.saved
           /\ \/ new.decision = "accepted" /\ new.status = "accepted"
              \/ new.decision \in Reasons /\ new.status = "rejected"
        \/ /\ <<old.status, new.status>> \in
                {<<"accepted", "preparing">>, <<"preparing", "ready">>,
                 <<"ready", "completed">>}
           /\ new.decision = old.decision /\ new.saved = old.saved
        \/ /\ old.status = "accepted" /\ new.status = "cancelled"
           /\ old.saved = "none" /\ new.saved = "cancelled"
           /\ new.decision = old.decision
        \/ /\ old.status \notin {"absent", "accepted"} /\ new.status = old.status
           /\ old.saved = "none" /\ new.saved = "rejected"
           /\ new.decision = old.decision

LEMMA OrderMoves ==
    ASSUME VenueSound, [Next]_vars, NEW o \in Orders
    PROVE  OrderMove(o)
<1>0. TypeOK BY DEF VenueSound
<1>1. ASSUME NEW p \in Orders, NEW a \in BOOLEAN, NEW m \in BOOLEAN,
             NEW offered \in SUBSET Items, DecideOrder(p, a, m, offered)
      PROVE  OrderMove(o)
  <2>1. CASE p = o
    <3>1. Judge(o, a, m, offered) \in {"accepted"} \cup Reasons BY JudgeAnswers
    <3>. QED BY <1>0, <1>1, <2>1, <3>1 DEF DecideOrder, OrderMove, TypeOK, VenueOrder, Reasons
  <2>2. CASE p # o BY <1>0, <1>1, <2>2 DEF DecideOrder, OrderMove, TypeOK
  <2>. QED BY <2>1, <2>2
<1>2. ASSUME NEW p \in Orders, StartPreparing(p) \/ MarkReady(p) \/ Complete(p)
      PROVE  OrderMove(o)
  <2>1. CASE p = o
    BY <1>0, <1>2, <2>1 DEF StartPreparing, MarkReady, Complete, Transition, OrderMove,
                            TypeOK, VenueOrder
  <2>2. CASE p # o
    BY <1>0, <1>2, <2>2 DEF StartPreparing, MarkReady, Complete, Transition, OrderMove,
                            TypeOK
  <2>. QED BY <2>1, <2>2
<1>3. ASSUME NEW p \in Orders, CancelOrder(p) PROVE OrderMove(o)
  <2>1. CASE p = o
    BY <1>0, <1>3, <2>1 DEF CancelOrder, CancelAccepted, RefuseCancellation, Undecided,
                            Cancellable, OrderMove, TypeOK, VenueOrder
  <2>2. CASE p # o
    BY <1>0, <1>3, <2>2 DEF CancelOrder, CancelAccepted, RefuseCancellation, OrderMove,
                            TypeOK
  <2>. QED BY <2>1, <2>2
<1>4. ASSUME UNCHANGED venue PROVE OrderMove(o) BY <1>4 DEF OrderMove
<1>5. ASSUME NEW s \in Senders, NEW c \in Callbacks, ClaimCallback(s, c) PROVE OrderMove(o)
  BY <1>4, <1>5 DEF ClaimCallback
<1>6. ASSUME NEW s \in Senders, CompleteCallback(s) \/ RetryCallback(s) \/ LoseCallback(s)
      PROVE  OrderMove(o)
  BY <1>4, <1>6 DEF CompleteCallback, RetryCallback, LoseCallback, Finish
<1>7. ASSUME NEW c \in Callbacks, LeaseExpires(c) \/ BackoffElapses(c) PROVE OrderMove(o)
  BY <1>4, <1>7 DEF LeaseExpires, BackoffElapses
<1>8. CASE UNCHANGED vars BY <1>4, <1>8 DEF vars
<1>. QED BY <1>1, <1>2, <1>3, <1>5, <1>6, <1>7, <1>8 DEF Next

\* The decision, the status and the saved answer of an order agree.
AnswersSound(o) ==
    /\ venue[o].decision = "accepted" <=> venue[o].status \notin {"absent", "rejected"}
    /\ venue[o].saved = "cancelled" <=> venue[o].status = "cancelled"
    /\ venue[o].saved = "rejected"
            => venue[o].status \in {"rejected", "preparing", "ready", "completed"}

LEMMA AnswersInit == Init => \A o \in Orders : AnswersSound(o)
  BY DEF Init, NoVenueOrder, AnswersSound

LEMMA AnswersNext ==
    ASSUME VenueSound, [Next]_vars, NEW o \in Orders, AnswersSound(o)
    PROVE  AnswersSound(o)'
<1>1. OrderMove(o) BY OrderMoves
<1>2. /\ venue[o] \in VenueOrder
      /\ venue[o].status = "absent" => venue[o].saved = "none"
  BY DEF VenueSound, TypeOK, OrderSound
<1>. QED BY <1>1, <1>2 DEF OrderMove, AnswersSound, VenueOrder, Reasons

\* An event that was reported keeps its type, and one that was delivered stays
\* delivered.
EventStays(c) ==
    callbacks[c].state # "absent" =>
        /\ callbacks'[c].state # "absent" /\ callbacks'[c].type = callbacks[c].type
        /\ callbacks[c].state = "processed" => callbacks'[c].state = "processed"

\* An order that is not finished has a free row for its next event.
LEMMA RoomForEvent ==
    ASSUME VenueSound, NEW o \in Orders,
           venue[o].status \in {"accepted", "preparing", "ready"}
    PROVE  /\ venue[o].next \in 1..3
           /\ callbacks[<<o, venue[o].next>>].state = "absent"
<1>1. OrderSound(o) BY DEF VenueSound
<1> DEFINE next == venue[o].next
<1>2. next = 1 \/ next = 2 \/ next = 3 BY <1>1 DEF OrderSound
<1>3. \A n \in 1..3 : callbacks[<<o, n>>].state = "absent" <=> n >= next
  BY <1>1 DEF OrderSound
<1> HIDE DEF next
<1>4. next \in 1..3 BY <1>2
<1>5. callbacks[<<o, next>>].state = "absent" BY <1>3, <1>4
<1>. QED BY <1>4, <1>5 DEF next

\* A new event goes into a row that was absent.
LEMMA EnqueueStays ==
    ASSUME VenueSound, NEW o \in Orders, NEW type \in EventTypes,
           venue[o].status \in {"accepted", "preparing", "ready"},
           Enqueue(o, type), NEW c \in Callbacks
    PROVE  EventStays(c)
<1> DEFINE new == <<o, venue[o].next>>
<1>1. callbacks[new].state = "absent" /\ venue[o].next \in 1..3 BY RoomForEvent
<1>2. c # new => callbacks'[c] = callbacks[c] BY <1>1, EnqueueEffect DEF VenueSound
<1> HIDE DEF new
<1>. QED BY <1>1, <1>2 DEF EventStays

\* A row is rewritten with its event, and never forgotten.
LEMMA RowStays ==
    ASSUME TypeOK, NEW c \in Callbacks, NEW d \in Callbacks, NEW row,
           callbacks' = [callbacks EXCEPT ![d] = row],
           row.type = callbacks[d].type, row.state # "absent",
           row.state = callbacks[d].state \/ row.state = "processed"
    PROVE  EventStays(c)
<1>1. callbacks'[d] = row /\ (c # d => callbacks'[c] = callbacks[c]) BY DEF TypeOK
<1>. QED BY <1>1 DEF EventStays

LEMMA EventsStay ==
    ASSUME VenueSound, [Next]_vars, NEW c \in Callbacks
    PROVE  EventStays(c)
<1>0. TypeOK BY DEF VenueSound
<1>1. ASSUME NEW o \in Orders, NEW expected, NEW target, NEW type \in EventTypes,
             Transition(o, expected, target, type),
             expected \in {"accepted", "preparing", "ready"}
      PROVE  EventStays(c)
  BY <1>1, EnqueueStays DEF Transition
<1>2. ASSUME NEW o \in Orders, StartPreparing(o) \/ MarkReady(o) \/ Complete(o)
      PROVE  EventStays(c)
  BY <1>1, <1>2 DEF StartPreparing, MarkReady, Complete, EventTypes
<1>3. ASSUME UNCHANGED callbacks PROVE EventStays(c) BY <1>3 DEF EventStays
<1>4. ASSUME NEW o \in Orders, CancelOrder(o) PROVE EventStays(c)
  <2>1. CASE CancelAccepted(o)
    BY <2>1, EnqueueStays DEF CancelAccepted, Cancellable, EventTypes
  <2>2. CASE RefuseCancellation(o) BY <1>3, <2>2 DEF RefuseCancellation
  <2>. QED BY <1>4, <2>1, <2>2 DEF CancelOrder
<1>5. ASSUME NEW o \in Orders, NEW a \in BOOLEAN, NEW m \in BOOLEAN,
             NEW offered \in SUBSET Items, DecideOrder(o, a, m, offered)
      PROVE  EventStays(c)
  BY <1>3, <1>5 DEF DecideOrder
<1>6. ASSUME NEW s \in Senders, NEW d \in Callbacks, ClaimCallback(s, d)
      PROVE  EventStays(c)
  BY <1>0, <1>6 DEF ClaimCallback, TypeOK, Callback, EventStays
<1>7. ASSUME NEW s \in Senders, CompleteCallback(s) \/ RetryCallback(s) \/ LoseCallback(s)
      PROVE  EventStays(c)
  <2>1. senders[s].job \in Callbacks
    BY <1>0, <1>7, FinishType DEF CompleteCallback, RetryCallback, LoseCallback
  <2> DEFINE d == senders[s].job
             done == [callbacks[d] EXCEPT !.state = "processed", !.token = NoSender,
                                          !.leased = FALSE]
             freed == [callbacks[d] EXCEPT !.due = FALSE, !.token = NoSender,
                                           !.leased = FALSE]
  <2>5. callbacks[d] \in Callback BY <1>0, <2>1 DEF TypeOK
  <2>6. /\ done.type = callbacks[d].type /\ done.state = "processed"
        /\ freed.type = callbacks[d].type /\ freed.state = callbacks[d].state
    BY <2>5 DEF Callback
  <2>7. CompleteCallback(s) => callbacks' = [callbacks EXCEPT ![d] = done]
    BY DEF CompleteCallback
  <2>8. RetryCallback(s) => /\ callbacks' = [callbacks EXCEPT ![d] = freed]
                            /\ callbacks[d].state = "queued"
    BY DEF RetryCallback, HoldsLease
  <2> HIDE DEF d, done, freed
  <2>9. d \in Callbacks BY <2>1 DEF d
  <2>2. CASE CompleteCallback(s) BY <1>0, <2>2, <2>6, <2>7, <2>9, RowStays
  <2>3. CASE RetryCallback(s) BY <1>0, <2>3, <2>6, <2>8, <2>9, RowStays
  <2>4. CASE LoseCallback(s) BY <1>3, <2>4 DEF LoseCallback
  <2>. QED BY <1>7, <2>2, <2>3, <2>4
<1>8. ASSUME NEW d \in Callbacks, LeaseExpires(d) \/ BackoffElapses(d)
      PROVE  EventStays(c)
  <2>1. CASE LeaseExpires(d) BY <1>0, <2>1 DEF LeaseExpires, TypeOK, Callback, EventStays
  <2>2. CASE BackoffElapses(d) BY <1>0, <2>2 DEF BackoffElapses, TypeOK, Callback, EventStays
  <2>. QED BY <1>8, <2>1, <2>2
<1>9. CASE UNCHANGED vars BY <1>3, <1>9 DEF vars
<1>. QED BY <1>2, <1>4, <1>5, <1>6, <1>7, <1>8, <1>9 DEF Next

\* What a reported event says about its order.
LEMMA EventTells ==
    ASSUME VenueSound, NEW o \in Orders, NEW n \in 1..3,
           callbacks[<<o, n>>].state # "absent"
    PROVE  LET type == callbacks[<<o, n>>].type
               status == venue[o].status
           IN  \/ n = 1 /\ type = "order_preparing"
                        /\ status \in {"preparing", "ready", "completed"}
               \/ n = 1 /\ type = "order_cancelled" /\ status = "cancelled"
               \/ n = 2 /\ type = "order_ready" /\ status \in {"ready", "completed"}
               \/ n = 3 /\ type = "order_completed" /\ status = "completed"
<1>1. OrderSound(o) /\ venue[o] \in VenueOrder BY DEF VenueSound, TypeOK
<1>2. n < venue[o].next BY <1>1 DEF OrderSound, VenueOrder
<1>3. venue[o].status \in {"absent", "accepted", "rejected", "preparing", "ready",
                           "completed", "cancelled"}
  BY <1>1 DEF VenueOrder
<1>. QED BY <1>1, <1>2, <1>3 DEF OrderSound

-----------------------------------------------------------------------------
(* The sum of the units that a set of orders holds of an item *)

Units(i, S) == MapThenSumSet(LAMBDA o : Quantity[o][i], S)

\* The order whose units MapThenSumSet adds last, and its addition.
Last(S) == CHOOSE o \in S : TRUE
AddUnits(i, o, sum) == Quantity[o][i] + sum

Sum == INSTANCE SetFolds WITH Base <- 0, Pick <- Last, Step <- AddUnits

LEMMA SameFinite == \A S : IsFiniteSet(S) <=> Sum!IsFiniteSet(S)
  BY DEF IsFiniteSet, Sum!IsFiniteSet

\* One turn of the recursion of MapThenSumSet.
LEMMA UnitsTurn ==
    ASSUME NEW i, NEW S, IsFiniteSet(S)
    PROVE  /\ S = {} => Units(i, S) = 0
           /\ S # {} => /\ Last(S) \in S
                        /\ Units(i, S) = Quantity[Last(S)][i] + Units(i, S \ {Last(S)})
<1>1. \A T : Units(i, T) = Sum!Fold(i, T)
  BY DEF Units, Sum!Fold, Sum!Folds, MapThenSumSet, MapThenFoldSet, Last, AddUnits
<1>2. S # {} => Last(S) \in S BY DEF Last
<1>3. Sum!Picks(S) BY DEF Sum!Picks, Last
<1>4. /\ S = {} => Sum!Fold(i, S) = 0
      /\ S # {} => Sum!Fold(i, S) = AddUnits(i, Last(S), Sum!Fold(i, S \ {Last(S)}))
  BY <1>3, SameFinite, Sum!FoldTurn
<1>. QED BY <1>1, <1>2, <1>4 DEF AddUnits

LEMMA UnitsType ==
    ASSUME NEW i \in Items, NEW S \in SUBSET Orders, IsFiniteSet(S)
    PROVE  Units(i, S) \in Nat
<1> DEFINE F == {T \in SUBSET S : Units(i, T) \notin Nat}
<1> SUFFICES ASSUME F # {} PROVE FALSE OBVIOUS
<1>1. PICK T \in F : \A U \in SUBSET T : U # T => U \notin F
  <2>1. F \in SUBSET (SUBSET S) OBVIOUS
  <2> HIDE DEF F
  <2>. QED BY <2>1, SameFinite, Sum!Smallest
<1>2. IsFiniteSet(T) BY FS_Subset
<1>3. T # {}
  <2>1. Units(i, T) \notin Nat BY <1>1
  <2>2. T = {} => Units(i, T) = 0 BY <1>2, UnitsTurn
  <2>. QED BY <2>1, <2>2
<1>4. Last(T) \in T /\ Quantity[Last(T)][i] \in Nat BY <1>2, <1>3, UnitsTurn
<1>5. Units(i, T \ {Last(T)}) \in Nat BY <1>1, <1>4
<1>6. Units(i, T) = Quantity[Last(T)][i] + Units(i, T \ {Last(T)})
  BY <1>2, <1>3, UnitsTurn
<1>. QED BY <1>1, <1>4, <1>5, <1>6

\* The sum does not depend on the order of its terms: any of them may come last.
LEMMA UnitsRemove ==
    ASSUME NEW i \in Items, NEW S \in SUBSET Orders, IsFiniteSet(S), NEW o \in S
    PROVE  Units(i, S) = Quantity[o][i] + Units(i, S \ {o})
<1> DEFINE Ok(T, p) == Units(i, T) = Quantity[p][i] + Units(i, T \ {p})
           F == {T \in SUBSET S : \E p \in T : ~Ok(T, p)}
<1> SUFFICES ASSUME F # {} PROVE FALSE OBVIOUS
<1>1. PICK T \in F : \A U \in SUBSET T : U # T => U \notin F
  <2>1. F \in SUBSET (SUBSET S) OBVIOUS
  <2> HIDE DEF F
  <2>. QED BY <2>1, SameFinite, Sum!Smallest
<1>2. PICK p \in T : ~Ok(T, p) BY <1>1
<1> DEFINE last == Last(T)
           both == T \ {last, p}
<1>3. IsFiniteSet(T) /\ last \in T
  <2>1. IsFiniteSet(T) BY FS_Subset
  <2>. QED BY <1>2, <2>1, UnitsTurn
<1>4. Ok(T, last) BY <1>3, UnitsTurn
<1>5. p # last BY <1>2, <1>4
<1> HIDE DEF last
<1>6. Ok(T \ {last}, p) /\ Ok(T \ {p}, last) BY <1>1, <1>3, <1>5
<1>7. (T \ {last}) \ {p} = both /\ (T \ {p}) \ {last} = both OBVIOUS
<1>8. Quantity[p][i] \in Nat /\ Quantity[last][i] \in Nat /\ Units(i, both) \in Nat
  <2>1. both \in SUBSET Orders /\ IsFiniteSet(both) BY FS_Subset
  <2>. QED BY <1>3, <2>1, UnitsType
<1>9. Units(i, T) = Quantity[last][i] + (Quantity[p][i] + Units(i, both))
  BY <1>4, <1>6, <1>7
<1>10. Quantity[p][i] + Units(i, T \ {p})
            = Quantity[p][i] + (Quantity[last][i] + Units(i, both))
  BY <1>6, <1>7
<1> HIDE DEF both
<1>11. Ok(T, p) BY <1>8, <1>9, <1>10
<1>. QED BY <1>2, <1>11

\* An order that joins the holders, or leaves them, changes the sum by its units.
LEMMA UnitsAdd ==
    ASSUME NEW i \in Items, NEW S \in SUBSET Orders, IsFiniteSet(S),
           NEW o \in Orders, o \notin S
    PROVE  Units(i, S \cup {o}) = Quantity[o][i] + Units(i, S)
<1> DEFINE T == S \cup {o}
<1>1. IsFiniteSet(T) /\ T \in SUBSET Orders /\ o \in T /\ T \ {o} = S
  BY FS_AddElement
<1> HIDE DEF T
<1>2. Units(i, T) = Quantity[o][i] + Units(i, T \ {o}) BY <1>1, UnitsRemove
<1>. QED BY <1>1, <1>2 DEF T

-----------------------------------------------------------------------------
(* The inductive invariant *)

Holders == {o \in Orders : venue[o].status \in Reserving}

\* StockConserved speaks of a sum that is one only for finitely many holders.
StockSound ==
    /\ VenueSound
    /\ IsFiniteSet(Holders)
    /\ \A i \in Items :
        Supply[i] # Unlimited <=> stock[i] # Unlimited
    /\ \A i \in Items :
        Supply[i] # Unlimited => stock[i] + Units(i, Holders) = Supply[i]

LEMMA StockTypes ==
    ASSUME StockSound, NEW i \in Items, Supply[i] # Unlimited
    PROVE  /\ stock[i] \in Nat /\ Supply[i] \in Nat /\ stock[i] # Unlimited
           /\ Units(i, Holders) \in Nat
<1>1. Holders \in SUBSET Orders /\ IsFiniteSet(Holders) BY DEF Holders, StockSound
<1>2. Units(i, Holders) \in Nat BY <1>1, UnitsType
<1>. QED BY <1>2 DEF StockSound, VenueSound, TypeOK

\* A step that leaves the shelf and the set of holders alone.
LEMMA StockFrame ==
    ASSUME StockSound, VenueSound', stock' = stock, Holders' = Holders
    PROVE  StockSound'
<1>1. \A i \in Items : Units(i, Holders') = Units(i, Holders) OBVIOUS
<1>. QED BY <1>1 DEF StockSound

\* An accepted order takes its units from the shelf.
LEMMA AcceptKeepsStock ==
    ASSUME StockSound, VenueSound', NEW o \in Orders,
           o \notin Holders, Holders' = Holders \cup {o}, stock' = Reserved(o),
           \A i \in Items : stock[i] # Unlimited => stock[i] >= Quantity[o][i]
    PROVE  StockSound'
<1>1. IsFiniteSet(Holders) /\ Holders \in SUBSET Orders BY DEF StockSound, Holders
<1>2. IsFiniteSet(Holders)' BY <1>1, FS_AddElement
<1>3. ASSUME NEW i \in Items
      PROVE  /\ Supply[i] # Unlimited <=> stock'[i] # Unlimited
             /\ Supply[i] # Unlimited => stock'[i] + Units(i, Holders') = Supply[i]
  <2>1. Units(i, Holders') = Quantity[o][i] + Units(i, Holders) BY <1>1, UnitsAdd
  <2>2. CASE Supply[i] = Unlimited BY <2>2 DEF Reserved, StockSound
  <2>3. CASE Supply[i] # Unlimited
    <3>1. /\ stock[i] \in Nat /\ Supply[i] \in Nat /\ Units(i, Holders) \in Nat
          /\ stock[i] # Unlimited /\ Quantity[o][i] \in Nat
          /\ stock[i] + Units(i, Holders) = Supply[i]
          /\ stock[i] >= Quantity[o][i]
      BY <2>3, StockTypes DEF StockSound
    <3>2. stock'[i] = stock[i] - Quantity[o][i] BY <3>1 DEF Reserved
    <3>3. stock'[i] \in Nat /\ stock'[i] + Units(i, Holders') = Supply[i]
      BY <2>1, <3>1, <3>2
    <3>. QED BY <2>3, <3>3
  <2>. QED BY <2>2, <2>3
<1>. QED BY <1>2, <1>3 DEF StockSound

\* A cancelled order puts its units back.
LEMMA CancelKeepsStock ==
    ASSUME StockSound, VenueSound', NEW o \in Holders,
           Holders' = Holders \ {o}, stock' = Released(o)
    PROVE  StockSound'
<1>1. IsFiniteSet(Holders) /\ Holders \in SUBSET Orders BY DEF StockSound, Holders
<1>2. IsFiniteSet(Holders)' BY <1>1, FS_RemoveElement
<1>3. ASSUME NEW i \in Items
      PROVE  /\ Supply[i] # Unlimited <=> stock'[i] # Unlimited
             /\ Supply[i] # Unlimited => stock'[i] + Units(i, Holders') = Supply[i]
  <2>1. Units(i, Holders) = Quantity[o][i] + Units(i, Holders') BY <1>1, UnitsRemove
  <2>2. CASE Supply[i] = Unlimited BY <2>2 DEF Released, StockSound
  <2>3. CASE Supply[i] # Unlimited
    <3>0. Units(i, Holders') \in Nat BY <1>1, <1>2, UnitsType
    <3>1. /\ stock[i] \in Nat /\ Supply[i] \in Nat
          /\ stock[i] # Unlimited /\ Quantity[o][i] \in Nat
          /\ stock[i] + Units(i, Holders) = Supply[i]
      BY <1>1, <2>3, StockTypes DEF StockSound
    <3>2. stock'[i] = stock[i] + Quantity[o][i] BY <3>1 DEF Released
    <3>3. stock'[i] \in Nat /\ stock'[i] + Units(i, Holders') = Supply[i]
      BY <2>1, <3>0, <3>1, <3>2
    <3>. QED BY <2>3, <3>3
  <2>. QED BY <2>2, <2>3
<1>. QED BY <1>2, <1>3 DEF StockSound

-----------------------------------------------------------------------------
(* The actions *)

\* Only the decision and the cancellation of an order change the holders.
LEMMA DecideStock ==
    ASSUME StockSound, VenueSound', NEW o \in Orders, NEW a \in BOOLEAN, NEW m \in BOOLEAN,
           NEW offered \in SUBSET Items, DecideOrder(o, a, m, offered)
    PROVE  StockSound'
<1> DEFINE answer == Judge(o, a, m, offered)
<1>0. TypeOK BY DEF StockSound, VenueSound
<1>1. /\ venue[o].status = "absent"
      /\ venue'[o].status = IF answer = "accepted" THEN "accepted" ELSE "rejected"
      /\ \A p \in Orders \ {o} : venue'[p] = venue[p]
      /\ stock' = IF answer = "accepted" THEN Reserved(o) ELSE stock
  BY <1>0 DEF DecideOrder, TypeOK, VenueOrder
<1>2. answer = "accepted" => Lacking(o, offered) = {} BY JudgeAnswers
<1> HIDE DEF answer
<1>3. CASE answer = "accepted"
  <2>1. o \notin Holders /\ Holders' = Holders \cup {o}
    BY <1>1, <1>3 DEF Holders, Reserving
  <2>2. ASSUME NEW i \in Items, stock[i] # Unlimited PROVE stock[i] >= Quantity[o][i]
    <3>1. i \notin Lacking(o, offered) BY <1>2, <1>3
    <3>2. stock[i] \in Nat /\ Quantity[o][i] \in Nat BY <1>0, <2>2 DEF TypeOK
    <3>. QED BY <2>2, <3>1, <3>2 DEF Lacking
  <2>. QED BY <1>1, <1>3, <2>1, <2>2, AcceptKeepsStock
<1>4. CASE answer # "accepted"
  <2>1. Holders' = Holders BY <1>1, <1>4 DEF Holders, Reserving
  <2>. QED BY <1>1, <1>4, <2>1, StockFrame
<1>. QED BY <1>3, <1>4

LEMMA ProgressStock ==
    ASSUME StockSound, VenueSound', NEW o \in Orders,
           StartPreparing(o) \/ MarkReady(o) \/ Complete(o)
    PROVE  StockSound'
<1>0. TypeOK BY DEF StockSound, VenueSound
<1>1. /\ venue[o].status \in Reserving /\ venue'[o].status \in Reserving
      /\ \A p \in Orders \ {o} : venue'[p] = venue[p]
      /\ stock' = stock
  BY <1>0 DEF StartPreparing, MarkReady, Complete, Transition, Reserving, TypeOK, VenueOrder
<1>2. Holders' = Holders BY <1>1 DEF Holders
<1>. QED BY <1>1, <1>2, StockFrame

LEMMA CancelStock ==
    ASSUME StockSound, VenueSound', NEW o \in Orders, CancelOrder(o)
    PROVE  StockSound'
<1>0. TypeOK BY DEF StockSound, VenueSound
<1>1. CASE CancelAccepted(o)
  <2>1. /\ venue[o].status = "accepted" /\ venue'[o].status = "cancelled"
        /\ \A p \in Orders \ {o} : venue'[p] = venue[p]
        /\ stock' = Released(o)
    BY <1>0, <1>1 DEF CancelAccepted, Cancellable, TypeOK, VenueOrder
  <2>2. o \in Holders /\ Holders' = Holders \ {o} BY <2>1 DEF Holders, Reserving
  <2>. QED BY <2>1, <2>2, CancelKeepsStock
<1>2. CASE RefuseCancellation(o)
  <2>1. /\ \A p \in Orders : venue'[p].status = venue[p].status
        /\ stock' = stock
    BY <1>0, <1>2 DEF RefuseCancellation, TypeOK, VenueOrder
  <2>2. Holders' = Holders BY <2>1 DEF Holders
  <2>. QED BY <2>1, <2>2, StockFrame
<1>. QED BY <1>1, <1>2 DEF CancelOrder

-----------------------------------------------------------------------------
(* The theorem *)

LEMMA StockInit == Init => StockSound
<1> SUFFICES ASSUME Init PROVE StockSound OBVIOUS
<1>1. VenueSound BY VenueInit
<1>2. Holders = {} BY DEF Init, Holders, NoVenueOrder, Reserving
<1>3. IsFiniteSet(Holders) BY <1>2, FS_EmptySet
<1>4. \A i \in Items : Units(i, Holders) = 0 BY <1>2, <1>3, UnitsTurn
<1>. QED BY <1>1, <1>3, <1>4 DEF StockSound, Init

LEMMA StockNext == StockSound /\ [Next]_vars => StockSound'
<1> SUFFICES ASSUME StockSound, [Next]_vars PROVE StockSound' OBVIOUS
<1>0. VenueSound' BY VenueNext DEF StockSound
<1>1. ASSUME UNCHANGED <<venue, stock>> PROVE StockSound'
  BY <1>0, <1>1, StockFrame DEF Holders
<1>2. ASSUME NEW s \in Senders, NEW c \in Callbacks, ClaimCallback(s, c)
      PROVE  StockSound'
  BY <1>1, <1>2 DEF ClaimCallback
<1>3. ASSUME NEW s \in Senders, CompleteCallback(s) \/ RetryCallback(s) \/ LoseCallback(s)
      PROVE  StockSound'
  BY <1>1, <1>3 DEF CompleteCallback, RetryCallback, LoseCallback, Finish
<1>4. ASSUME NEW c \in Callbacks, LeaseExpires(c) \/ BackoffElapses(c)
      PROVE  StockSound'
  BY <1>1, <1>4 DEF LeaseExpires, BackoffElapses
<1>5. CASE UNCHANGED vars BY <1>1, <1>5 DEF vars
<1>. QED
  BY <1>0, <1>2, <1>3, <1>4, <1>5, DecideStock, ProgressStock, CancelStock DEF Next

\* What DecideOrder takes from stock_quantity and CancelOrder puts back always
\* adds up: no unit is promised twice, none is lost and none comes back twice.
THEOREM StockAddsUp == Spec => []StockConserved
<1>1. StockSound => StockConserved
  <2> SUFFICES ASSUME StockSound, NEW i \in Items, Supply[i] # Unlimited
               PROVE  LET held(o) == Quantity[o][i]
                          holders == {o \in Orders : venue[o].status \in Reserving}
                      IN  stock[i] + MapThenSumSet(held, holders) = Supply[i]
    BY DEF StockConserved
  <2>1. stock[i] + Units(i, Holders) = Supply[i] BY DEF StockSound
  <2>. QED BY <2>1 DEF Units, Holders
<1>. QED BY <1>1, StockInit, StockNext, PTL DEF Spec
=============================================================================
