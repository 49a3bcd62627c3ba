--------------------------- MODULE OrderLifecycle ---------------------------
(***************************************************************************)
(* What the platform promises about an order to those who only see its     *)
(* status and its cancellation_status: the two coupled state machines of   *)
(* docs/decisions/order-state-machine.md, as the code runs them.  There    *)
(* are no jobs, workers, messages or venue here; module Kitchen is shown   *)
(* to implement it.                                                        *)
(***************************************************************************)
CONSTANT Orders

VARIABLES status, cancellation

vars == <<status, cancellation>>

Init ==
    /\ status = [o \in Orders |-> "absent"]
    /\ cancellation = [o \in Orders |-> "none"]

\* One order moves from one pair of states to another.
Move(o, from, to, asked, answered) ==
    /\ status[o] \in from /\ cancellation[o] \in asked
    /\ status' = [status EXCEPT ![o] = to]
    /\ cancellation' = [cancellation EXCEPT ![o] = answered]

\* The main line: it goes on whatever becomes of a cancellation, and a
\* cancellation does not take part in it.
MainLine == {<<"absent", "pending_confirmation">>,
             <<"pending_confirmation", "accepted">>,
             <<"pending_confirmation", "rejected">>,
             <<"pending_confirmation", "confirmation_expired">>,
             <<"accepted", "preparing">>,
             <<"preparing", "ready">>,
             <<"ready", "completed">>}

Advance(o) == \E step \in MainLine :
    Move(o, {step[1]}, step[2], {cancellation[o]}, cancellation[o])

\* The customer withdraws an order that no venue has seen.
Withdraw(o) == Move(o, {"pending_confirmation"}, "cancelled", {"none"}, "confirmed")

Working == {"accepted", "preparing", "ready", "completed"}

\* The customer asks to cancel, and may ask again after a failure.
Ask(o) == Move(o, {"accepted"}, "accepted", {"none", "failed"}, "requested")

\* The venue agrees.  Its word may come after the platform gave up asking.
Agree(o) == Move(o, {"accepted"}, "cancelled", {"requested", "failed"}, "confirmed")

\* The venue refuses, or no answer is had.  By then the order may have moved.
Refuse(o) == \E s \in Working : Move(o, {s}, s, {"requested"}, "rejected")
Fail(o) == \E s \in Working : Move(o, {s}, s, {"requested"}, "failed")

Next == \E o \in Orders :
    Advance(o) \/ Withdraw(o) \/ Ask(o) \/ Agree(o) \/ Refuse(o) \/ Fail(o)

Spec == Init /\ [][Next]_vars
=============================================================================
