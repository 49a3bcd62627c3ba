--------------------------- MODULE CheckoutAdmission ---------------------------
(***************************************************************************)
(* What stands in front of CreateOrder in one process of the platform       *)
(* (internal/platform/transport/http/handler.go): the fixed window of       *)
(* allow and the slots for checkouts that run at the same time.             *)
(*                                                                         *)
(* createOrder reads the clock before it waits for the mutex of allow, so   *)
(* requests may pass the mutex in another order than that of their times.   *)
(* time.Time carries a monotonic reading, which Sub uses: the clock never   *)
(* goes back.  A request is used again once its answer is written.          *)
(***************************************************************************)
EXTENDS Integers, FiniteSets

CONSTANTS
    Requests,
    CheckoutRateLimit, CheckoutConcurrency,  \* as configured
    Second,                                  \* time.Second in ticks of the clock
    MaxTime                                  \* bound: the clock stops there

\* What the theorems assume of the constants.
ClockConfigured == Second \in Nat \ {0} /\ MaxTime \in Nat
Configured == ClockConfigured /\ CheckoutRateLimit \in Int /\ CheckoutConcurrency \in Int

VARIABLES
    clock,
    limiter,   \* fixedWindowLimiter
    slots,     \* len(checkoutSlots)
    calls,     \* the goroutines of createOrder
    admitted,  \* history: how many calls of allow returned true
    windows    \* history: how many windows were opened

vars == <<clock, limiter, slots, calls, admitted, windows>>

\* NewHandler replaces what is not positive.
limit == IF CheckoutRateLimit < 1 THEN 100 ELSE CheckoutRateLimit
concurrency == IF CheckoutConcurrency < 1 THEN 32 ELSE CheckoutConcurrency

Limiter == [zero: BOOLEAN, window: Nat, count: 0..limit]
Call == [phase: {"idle", "timed", "allowed", "running"}, now: Nat]
Idle == [phase |-> "idle", now |-> 0]

TypeOK ==
    /\ clock \in Nat
    /\ limiter \in Limiter
    /\ slots \in 0..concurrency
    /\ calls \in [Requests -> Call]
    /\ admitted \in Nat
    /\ windows \in Nat

Init ==
    /\ clock = 0
    /\ limiter = [zero |-> TRUE, window |-> 0, count |-> 0]
    /\ slots = 0
    /\ calls = [r \in Requests |-> Idle]
    /\ admitted = 0
    /\ windows = 0

Tick ==
    /\ clock < MaxTime
    /\ clock' = clock + 1
    /\ UNCHANGED <<limiter, slots, calls, admitted, windows>>

\* time.Now(), the argument of allow.
Arrive(r) ==
    /\ calls[r].phase = "idle"
    /\ calls' = [calls EXCEPT ![r] = [phase |-> "timed", now |-> clock]]
    /\ UNCHANGED <<clock, limiter, slots, admitted, windows>>

\* The window of the limiter is over for a request that came at this time.
Over(now) == limiter.zero \/ now - limiter.window >= Second

\* The window, opened anew if it is over.
Window(now) ==
    IF Over(now) THEN [zero |-> FALSE, window |-> now, count |-> 0] ELSE limiter

Opened(now) == IF Over(now) THEN windows + 1 ELSE windows

\* allow, under its mutex.
Allow(r) ==
    LET now == calls[r].now
        window == Window(now)
    IN  /\ calls[r].phase = "timed"
        /\ windows' = Opened(now)
        /\ \/ /\ window.count < limit
              /\ limiter' = [window EXCEPT !.count = @ + 1]
              /\ calls' = [calls EXCEPT ![r].phase = "allowed"]
              /\ admitted' = admitted + 1
           \/ /\ window.count >= limit
              /\ limiter' = window
              /\ calls' = [calls EXCEPT ![r] = Idle]
              /\ UNCHANGED admitted
        /\ UNCHANGED <<clock, slots>>

\* A slot, or 429 if none is free: the request has used up its place in the window.
TakeSlot(r) ==
    /\ calls[r].phase = "allowed"
    /\ \/ /\ slots < concurrency
          /\ slots' = slots + 1
          /\ calls' = [calls EXCEPT ![r].phase = "running"]
       \/ /\ slots = concurrency
          /\ calls' = [calls EXCEPT ![r] = Idle]
          /\ UNCHANGED slots
    /\ UNCHANGED <<clock, limiter, admitted, windows>>

\* createOrder returns, whatever the answer: the deferred receive.
Return(r) ==
    /\ calls[r].phase = "running"
    /\ slots' = slots - 1
    /\ calls' = [calls EXCEPT ![r] = Idle]
    /\ UNCHANGED <<clock, limiter, admitted, windows>>

Next == Tick \/ \E r \in Requests : Arrive(r) \/ Allow(r) \/ TakeSlot(r) \/ Return(r)

Spec == Init /\ [][Next]_vars

-----------------------------------------------------------------------------
\* Over any time the limiter lets through no more than a full window for every
\* second that began, in whatever order late requests pass its mutex
\* (fixedWindowLimiter.allow; around a boundary two windows may be used at once).
RateKept ==
    \E n \in Nat : admitted <= limit * n /\ n * Second <= clock + Second

Running == {r \in Requests : calls[r].phase = "running"}

\* A slot is taken exactly while a checkout runs: none is lost on a refusal or
\* an error, and no more run at once than are configured (createOrder).
SlotsExact ==
    /\ IsFiniteSet(Running) /\ Cardinality(Running) = slots
    /\ slots <= concurrency
=============================================================================
