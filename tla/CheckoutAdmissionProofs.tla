------------------------ MODULE CheckoutAdmissionProofs ------------------------
(***************************************************************************)
(* Proofs about CheckoutAdmission, for any number of requests, any          *)
(* configured limits and any length of a second.                            *)
(***************************************************************************)
EXTENDS CheckoutAdmission, FiniteSetTheorems, TLAPS

\* A count per step grows by that count with each step.
LEMMA OneMore == \A a, b \in Int : a * (b + 1) = a * b + a
  BY SMT

LEMMA LimitsPositive ==
    ASSUME Configured
    PROVE  limit \in Nat \ {0} /\ concurrency \in Nat \ {0}
  BY DEF Configured, limit, concurrency

\* The inductive strengthening of RateKept: windows are at least a second
\* apart, and all but the last may be full.
WindowsApart ==
    /\ limiter.window <= clock
    /\ \A r \in Requests : calls[r].now <= clock
    /\ limiter.zero => windows = 0 /\ admitted = 0
    /\ ~limiter.zero =>
        /\ windows * Second <= limiter.window + Second
        /\ admitted + limit <= limit * windows + limiter.count

AdmissionSound == TypeOK /\ WindowsApart /\ SlotsExact

-----------------------------------------------------------------------------
LEMMA InitSound == ASSUME Configured, Init PROVE AdmissionSound
<1>. USE LimitsPositive
<1>1. TypeOK BY DEF Init, TypeOK, Limiter, Call, Idle
<1>2. WindowsApart BY DEF Init, WindowsApart, Idle
<1>3. Running = {} BY DEF Init, Running, Idle
<1>4. SlotsExact BY <1>3, FS_EmptySet DEF Init, SlotsExact
<1>. QED BY <1>1, <1>2, <1>4 DEF AdmissionSound

\* A call that neither starts nor stops running leaves the slots alone.
LEMMA NotRunning ==
    ASSUME SlotsExact, UNCHANGED slots, NEW r \in Requests, NEW c \in Call,
           calls \in [Requests -> Call], calls[r].phase # "running",
           c.phase # "running", calls' = [calls EXCEPT ![r] = c]
    PROVE  SlotsExact'
<1>1. Running' = Running BY DEF Running
<1>. QED BY <1>1 DEF SlotsExact

LEMMA TickSound == ASSUME Configured, AdmissionSound, Tick PROVE AdmissionSound'
<1>1. TypeOK' BY DEF AdmissionSound, TypeOK, Tick
<1>2. WindowsApart'
  BY DEF AdmissionSound, TypeOK, WindowsApart, Tick, Limiter, Call, Configured
<1>3. SlotsExact' BY DEF AdmissionSound, SlotsExact, Running, Tick
<1>. QED BY <1>1, <1>2, <1>3 DEF AdmissionSound

LEMMA ArriveSound ==
    ASSUME Configured, AdmissionSound, NEW r \in Requests, Arrive(r)
    PROVE  AdmissionSound'
<1>. DEFINE c == [phase |-> "timed", now |-> clock]
<1>1. c \in Call /\ calls' = [calls EXCEPT ![r] = c]
  BY DEF AdmissionSound, TypeOK, Arrive, Call
<1>2. TypeOK' BY <1>1 DEF AdmissionSound, TypeOK, Arrive
<1>3. WindowsApart'
  BY <1>1 DEF AdmissionSound, TypeOK, WindowsApart, Arrive
<1>4. SlotsExact'
  BY <1>1, NotRunning DEF AdmissionSound, TypeOK, Arrive
<1>. QED BY <1>2, <1>3, <1>4 DEF AdmissionSound

\* The window that a request finds or opens: a new one starts a second or more
\* after the last.
LEMMA WindowFacts ==
    ASSUME Configured, AdmissionSound, NEW r \in Requests
    PROVE  LET window == Window(calls[r].now)
               opened == Opened(calls[r].now)
           IN  /\ opened \in Nat
               /\ window \in Limiter
               /\ ~window.zero
               /\ window.window <= clock
               /\ opened * Second <= window.window + Second
               /\ admitted + limit <= limit * opened + window.count
<1>. DEFINE now == calls[r].now
            window == Window(now)
            opened == Opened(now)
<1>1. /\ limit \in Nat \ {0} /\ Second \in Nat \ {0} /\ windows \in Nat /\ admitted \in Nat
      /\ now \in Nat /\ now <= clock /\ clock \in Nat
      /\ limiter \in Limiter /\ limiter.window \in Nat /\ limiter.count \in 0..limit
  BY LimitsPositive DEF AdmissionSound, TypeOK, WindowsApart, Configured, ClockConfigured, Limiter, Call
<1>2. CASE ~Over(now)
  <2>1. window = limiter /\ opened = windows /\ ~limiter.zero BY <1>1, <1>2 DEF Window, Opened, Over
  <2>. QED BY <1>1, <2>1 DEF AdmissionSound, WindowsApart
<1>3. CASE Over(now)
  <2>1. /\ window = [zero |-> FALSE, window |-> now, count |-> 0]
        /\ opened = windows + 1
    BY <1>3 DEF Window, Opened
  <2>2. /\ window \in Limiter /\ window.zero = FALSE
        /\ window.window = now /\ window.count = 0
    BY <1>1, <2>1 DEF Limiter
  <2>3. /\ Second * opened = Second * windows + Second
        /\ limit * opened = limit * windows + limit
    BY <1>1, <2>1, OneMore
  <2>4. opened * Second = Second * opened /\ windows * Second = Second * windows
    BY <1>1, <2>1
  <2>5. opened * Second <= now + Second
    <3>1. CASE limiter.zero
      <4>1. windows = 0 BY <3>1 DEF AdmissionSound, WindowsApart
      <4>2. opened * Second = Second BY <1>1, <2>1, <4>1
      <4>. QED BY <1>1, <4>2
    <3>2. CASE ~limiter.zero
      <4>1. windows * Second <= limiter.window + Second
        BY <3>2 DEF AdmissionSound, WindowsApart
      <4>2. now - limiter.window >= Second BY <1>3, <3>2 DEF Over
      <4>3. windows * Second \in Int /\ opened * Second \in Int BY <1>1, <2>1
      <4>. QED BY <1>1, <2>3, <2>4, <4>1, <4>2, <4>3
    <3>. QED BY <3>1, <3>2
  <2>6. admitted <= limit * windows
    <3>1. CASE limiter.zero
      <4>1. windows = 0 /\ admitted = 0 BY <3>1 DEF AdmissionSound, WindowsApart
      <4>. QED BY <1>1, <4>1
    <3>2. CASE ~limiter.zero
      <4>1. admitted + limit <= limit * windows + limiter.count
        BY <3>2 DEF AdmissionSound, WindowsApart
      <4>2. limit * windows \in Int BY <1>1
      <4>. QED BY <1>1, <4>1, <4>2
    <3>. QED BY <3>1, <3>2
  <2>7. limit * windows \in Int BY <1>1
  <2>. QED BY <1>1, <2>1, <2>2, <2>3, <2>5, <2>6, <2>7
<1>. QED BY <1>2, <1>3

LEMMA AllowSound ==
    ASSUME Configured, AdmissionSound, NEW r \in Requests, Allow(r)
    PROVE  AdmissionSound'
<1>. DEFINE window == Window(calls[r].now)
            c == IF window.count < limit
                 THEN [phase |-> "allowed", now |-> calls[r].now] ELSE Idle
<1>1. /\ windows' \in Nat /\ window \in Limiter /\ ~window.zero
      /\ window.window <= clock
      /\ windows' * Second <= window.window + Second
      /\ admitted + limit <= limit * windows' + window.count
  BY WindowFacts DEF Allow
<1>2. /\ limit \in Nat \ {0} /\ window.count \in 0..limit /\ window.window \in Nat
      /\ limit * windows' \in Int /\ admitted \in Nat
  BY <1>1, LimitsPositive DEF Limiter, AdmissionSound, TypeOK
<1>3. /\ calls[r] \in Call /\ calls[r].phase = "timed" /\ calls[r].now <= clock
      /\ calls \in [Requests -> Call] /\ clock \in Nat /\ slots \in 0..concurrency
  BY DEF AdmissionSound, TypeOK, WindowsApart, Allow
<1>4. c \in Call /\ c.phase # "running" /\ c.now <= clock
  BY <1>3 DEF Call, Idle
<1>5. /\ calls' = [calls EXCEPT ![r] = c]
      /\ UNCHANGED <<clock, slots>>
  BY <1>2, <1>3 DEF Allow, Call
<1>6. /\ limiter' \in Limiter /\ ~limiter'.zero /\ limiter'.window = window.window
      /\ admitted' \in Nat
      /\ admitted' + limit <= limit * windows' + limiter'.count
  <2>1. CASE window.count < limit
    <3>1. limiter' = [window EXCEPT !.count = window.count + 1] /\ admitted' = admitted + 1
      BY <1>2, <2>1 DEF Allow
    <3>2. limiter' \in Limiter /\ ~limiter'.zero /\ limiter'.window = window.window
          /\ limiter'.count = window.count + 1
      BY <1>1, <1>2, <2>1, <3>1 DEF Limiter
    <3>. QED BY <1>1, <1>2, <3>1, <3>2
  <2>2. CASE window.count >= limit
    <3>1. limiter' = window /\ admitted' = admitted BY <1>2, <2>2 DEF Allow
    <3>. QED BY <1>1, <1>2, <3>1
  <2>. QED BY <1>2, <2>1, <2>2
<1>7. TypeOK' BY <1>1, <1>3, <1>4, <1>5, <1>6 DEF TypeOK
<1>8. \A q \in Requests : calls'[q].now <= clock'
  BY <1>3, <1>4, <1>5 DEF AdmissionSound, WindowsApart
<1>9. WindowsApart' BY <1>1, <1>5, <1>6, <1>8 DEF WindowsApart
<1>10. SlotsExact' BY <1>3, <1>4, <1>5, NotRunning DEF AdmissionSound
<1>. QED BY <1>7, <1>9, <1>10 DEF AdmissionSound

LEMMA TakeSlotSound ==
    ASSUME Configured, AdmissionSound, NEW r \in Requests, TakeSlot(r)
    PROVE  AdmissionSound'
<1>. DEFINE c == IF slots < concurrency
                 THEN [phase |-> "running", now |-> calls[r].now] ELSE Idle
<1>1. /\ concurrency \in Nat /\ slots \in 0..concurrency
      /\ calls \in [Requests -> Call] /\ calls[r] \in Call
      /\ calls[r].phase = "allowed" /\ calls[r].now <= clock /\ clock \in Nat
  BY LimitsPositive DEF AdmissionSound, TypeOK, WindowsApart, TakeSlot
<1>2. c \in Call /\ c.now <= clock BY <1>1 DEF Call, Idle
<1>3. calls' = [calls EXCEPT ![r] = c] BY <1>1 DEF TakeSlot, Call
<1>4. TypeOK' BY <1>1, <1>2, <1>3 DEF AdmissionSound, TypeOK, TakeSlot
<1>5. WindowsApart'
  BY <1>1, <1>2, <1>3 DEF AdmissionSound, WindowsApart, TakeSlot
<1>6. SlotsExact'
  <2>1. CASE slots < concurrency
    <3>1. slots' = slots + 1 /\ c.phase = "running" BY <1>1, <2>1 DEF TakeSlot
    <3>2. Running' = Running \cup {r} /\ r \notin Running BY <1>1, <1>3, <3>1 DEF Running
    <3>. QED BY <1>1, <2>1, <3>1, <3>2, FS_AddElement DEF AdmissionSound, SlotsExact
  <2>2. CASE ~(slots < concurrency)
    <3>1. UNCHANGED slots /\ c.phase # "running" BY <1>1, <2>2 DEF TakeSlot, Idle
    <3>. QED BY <1>1, <1>2, <1>3, <3>1, NotRunning DEF AdmissionSound
  <2>. QED BY <2>1, <2>2
<1>. QED BY <1>4, <1>5, <1>6 DEF AdmissionSound

LEMMA ReturnSound ==
    ASSUME Configured, AdmissionSound, NEW r \in Requests, Return(r)
    PROVE  AdmissionSound'
<1>1. /\ concurrency \in Nat /\ slots \in 0..concurrency
      /\ calls \in [Requests -> Call] /\ calls[r].phase = "running" /\ clock \in Nat
  BY LimitsPositive DEF AdmissionSound, TypeOK, Return
<1>2. Idle \in Call /\ Idle.now = 0 /\ Idle.phase # "running" BY DEF Idle, Call
<1>3. Running' = Running \ {r} /\ r \in Running BY <1>1, <1>2 DEF Running, Return
<1>4. IsFiniteSet(Running) /\ Cardinality(Running) = slots
  BY DEF AdmissionSound, SlotsExact
<1>5. IsFiniteSet(Running') /\ Cardinality(Running') = slots - 1
  BY <1>3, <1>4, FS_RemoveElement
<1>6. slots' = slots - 1 /\ slots' \in 0..concurrency
  <2>1. Running # {} BY <1>3
  <2>2. slots # 0 BY <1>4, <2>1, FS_EmptySet
  <2>. QED BY <1>1, <2>2 DEF Return
<1>7. TypeOK' BY <1>1, <1>2, <1>6 DEF AdmissionSound, TypeOK, Return
<1>8. WindowsApart' BY <1>1, <1>2 DEF AdmissionSound, TypeOK, WindowsApart, Return
<1>9. SlotsExact' BY <1>1, <1>5, <1>6 DEF SlotsExact
<1>. QED BY <1>7, <1>8, <1>9 DEF AdmissionSound

-----------------------------------------------------------------------------
LEMMA StepSound ==
    ASSUME Configured, AdmissionSound, [Next]_vars PROVE AdmissionSound'
<1>1. CASE Tick BY <1>1, TickSound
<1>2. ASSUME NEW r \in Requests, Arrive(r) PROVE AdmissionSound' BY <1>2, ArriveSound
<1>3. ASSUME NEW r \in Requests, Allow(r) PROVE AdmissionSound' BY <1>3, AllowSound
<1>4. ASSUME NEW r \in Requests, TakeSlot(r) PROVE AdmissionSound' BY <1>4, TakeSlotSound
<1>5. ASSUME NEW r \in Requests, Return(r) PROVE AdmissionSound' BY <1>5, ReturnSound
<1>6. CASE UNCHANGED vars
  <2>. USE <1>6 DEF vars
  <2>1. TypeOK' BY DEF AdmissionSound, TypeOK
  <2>2. WindowsApart' BY DEF AdmissionSound, WindowsApart
  <2>3. SlotsExact' BY DEF AdmissionSound, SlotsExact, Running
  <2>. QED BY <2>1, <2>2, <2>3 DEF AdmissionSound
<1>. QED BY <1>1, <1>2, <1>3, <1>4, <1>5, <1>6 DEF Next

LEMMA AlwaysSound == ASSUME Configured PROVE Spec => []AdmissionSound
<1>1. Init => AdmissionSound BY InitSound
<1>2. AdmissionSound /\ [Next]_vars => AdmissionSound' BY StepSound
<1>. QED BY <1>1, <1>2, PTL DEF Spec

\* No more than a full window is let through for every second that began, for
\* any limit, any number of concurrent requests and any order in which they
\* pass the mutex of fixedWindowLimiter.allow with the time they read before.
THEOREM RateNeverExceeded == ASSUME Configured PROVE Spec => []RateKept
<1>1. ASSUME AdmissionSound PROVE RateKept
  <2>1. /\ limit \in Nat \ {0} /\ Second \in Nat \ {0} /\ windows \in Nat
        /\ admitted \in Nat /\ clock \in Nat
        /\ limiter.window \in Nat /\ limiter.count \in 0..limit
    BY <1>1, LimitsPositive DEF AdmissionSound, TypeOK, Limiter, Configured, ClockConfigured
  <2>2. limit * windows \in Int /\ windows * Second \in Int BY <2>1
  <2>3. admitted <= limit * windows /\ windows * Second <= clock + Second
    <3>1. CASE limiter.zero
      <4>1. windows = 0 /\ admitted = 0 BY <1>1, <3>1 DEF AdmissionSound, WindowsApart
      <4>. QED BY <2>1, <4>1
    <3>2. CASE ~limiter.zero
      <4>1. /\ windows * Second <= limiter.window + Second /\ limiter.window <= clock
            /\ admitted + limit <= limit * windows + limiter.count
        BY <1>1, <3>2 DEF AdmissionSound, WindowsApart
      <4>. QED BY <2>1, <2>2, <4>1
    <3>. QED BY <3>1, <3>2
  <2>. QED BY <2>1, <2>3 DEF RateKept
<1>. QED BY <1>1, AlwaysSound, PTL

\* The semaphore of createOrder counts exactly the checkouts that run, and
\* never more than are configured, whichever way a request ends.
THEOREM SlotsNeverLost == ASSUME Configured PROVE Spec => []SlotsExact
<1>1. AdmissionSound => SlotsExact BY DEF AdmissionSound
<1>. QED BY <1>1, AlwaysSound, PTL
=============================================================================
