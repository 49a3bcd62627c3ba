--------------------------- MODULE VenueTransactions ---------------------------
(***************************************************************************)
(* The repository of the venue (internal/venue/repository/orders.go) over   *)
(* Postgres (internal/shared/postgres/postgres.go), statement by statement: *)
(* the connections of the pool, the locks a transaction collects, its       *)
(* commit, and the ends it may come to instead: a deadlock, a statement     *)
(* timeout, a caller that left.                                             *)
(*                                                                         *)
(* A request runs once; a repeated call is another request.  All            *)
(* transactions are READ COMMITTED: a statement reads what is committed, a  *)
(* row lock is granted on the newest version of the row.  Module            *)
(* VenueOrders has the same operations as single steps: it is what the      *)
(* committed tables implement.                                              *)
(***************************************************************************)
EXTENDS Naturals, FiniteSets, FiniteSetsExt

CONSTANTS
    Orders, Quantity, Supply, Unlimited,   \* as in VenueOrders
    Items,     \* the menu items, numbered in the order of external_id
    Requests,  \* calls of the integration and the management API
    Op,        \* Op[r]: the operation that request r calls
    Target,    \* Target[r]: the order it names
    MaxConns   \* MaxConns of the pool

\* Orders have UUIDs, of which there are finitely many; the rest is that of
\* VenueOrders.
ASSUME TablesAssumption ==
    /\ IsFiniteSet(Orders)
    /\ Quantity \in [Orders -> [Items -> Nat]]
    /\ Unlimited \notin Nat /\ Supply \in [Items -> Nat \cup {Unlimited}]
ASSUME ItemsAssumption == Items \subseteq Nat /\ IsFiniteSet(Items)
ASSUME RequestsAssumption ==
    /\ IsFiniteSet(Requests)
    /\ Op \in [Requests -> {"decide", "cancel", "start-preparing", "list"}]
    /\ Target \in [Requests -> Orders]
ASSUME MaxConnsAssumption == MaxConns \in Nat \ {0}

VARIABLES
    venue, stock, callbacks,  \* the committed tables, as in VenueOrders
    open,                     \* venue_settings.is_accepting_orders
    requests                  \* what each request is doing in the database

tables == <<venue, stock, callbacks>>
vars == <<venue, stock, callbacks, open, requests>>

\* The venue of single steps, without its callback workers.
V == INSTANCE VenueOrders WITH senders <- <<>>, Senders <- {}, NoSender <- 0

-----------------------------------------------------------------------------
(* Requests and their locks *)

Key(o) == <<"key", o>>        \* pg_advisory_xact_lock of platform_order_id
Row(o) == <<"order", o>>      \* FOR UPDATE of the row in venue_orders
Stock(i) == <<"item", i>>     \* a row of venue_menu_items, read FOR UPDATE or updated
Settings == <<"settings", 0>> \* FOR SHARE of the row in venue_settings

RowLocks == {Key(o) : o \in Orders} \cup {Row(o) : o \in Orders} \cup {Stock(i) : i \in Items}

\* The phase is the statement a request is about to run: "queued" waits for a
\* connection to begin with, "rows" and "loading" are those of ListOrders.
Phases == {"queued", "key", "settings", "row", "items", "judge", "commit",
           "rows", "loading", "ended"}

Decisions == {"accepted"} \cup V!Reasons
\* What DecideOrder and CancelOrder answer; "none" is an error or the answer of
\* another operation, "conflict" a violation of the UNIQUE constraint.
Answers == {"none", "conflict", "not_found", "cancelled", "rejected"} \cup Decisions

\* "wants" is the lock the current statement waits for, "seen" the order as the
\* transaction read it under its lock, "left" the orders a list still has to load.
Request ==
    [phase: Phases, conns: 0..2,
     locks: SUBSET (RowLocks \cup {Settings}), wants: SUBSET RowLocks,
     seen: V!VenueOrder, answer: Answers, left: 0..Cardinality(Orders)]

NewRequest == [phase |-> "queued", conns |-> 0, locks |-> {}, wants |-> {},
               seen |-> V!NoVenueOrder, answer |-> "none", left |-> 0]

TypeOK ==
    /\ V!TypeOK
    /\ open \in BOOLEAN
    /\ requests \in [Requests -> Request]

Init ==
    /\ V!Init
    /\ open = TRUE
    /\ requests = [r \in Requests |-> NewRequest]

Order(r) == Target[r]
In(r, phase) == requests[r].phase = phase
Ended(r) == In(r, "ended")

\* Fault: the items of a command are read without FOR UPDATE.
OrderedFault(r) ==
    {i \in Items : Quantity[Order(r)][i] > 0 /\ Op[r] = "cancel" /\ stock[i] # Unlimited}

\* The items a request has to lock: DecideOrder reads every item of the
\* command, CancelOrder updates those whose stock is counted.
Ordered(r) ==
    {i \in Items : Quantity[Order(r)][i] > 0 /\
        (Op[r] = "decide" \/ stock[i] # Unlimited)}

Available == SumFunction([r \in Requests |-> requests[r].conns]) < MaxConns

Holds(q, lock) == lock \in requests[q].locks
Granted(r) == \A lock \in requests[r].wants, q \in Requests \ {r} : ~Holds(q, lock)

WaitsFor(r, q) == r # q /\ \E lock \in requests[r].wants : Holds(q, lock)

Waiting == {r \in Requests : requests[r].wants # {}}

\* Requests each of which waits for another of them.
Cycle(stuck) ==
    /\ stuck # {}
    /\ \A r \in stuck : \E q \in stuck : WaitsFor(r, q)

-----------------------------------------------------------------------------
(* Ends of a request *)

Become(r, fields) == requests' = [requests EXCEPT ![r] = fields]

\* The transaction is over: its locks and its connection are free.
Gone(answer) == [NewRequest EXCEPT !.phase = "ended", !.answer = answer]

\* A transaction that wrote nothing answers.
Answer(r, answer) == Become(r, Gone(answer)) /\ UNCHANGED <<tables, open>>

\* Fault: the transaction is not rolled back.
FailFault(r) ==
    /\ Become(r, [requests[r] EXCEPT !.phase = "ended", !.answer = "none",
                                          !.wants = {}])
    /\ UNCHANGED <<tables, open>>

\* The deferred rollback after an error, and rows.Close of a list.
Fail(r) == Answer(r, "none")

\* Postgres finds a cycle (deadlock_timeout), or statement_timeout ends one of
\* its members.
AbortVictim(r) ==
    /\ \E stuck \in SUBSET Waiting : r \in stuck /\ Cycle(stuck)
    /\ Fail(r)

\* The caller leaves and its context is cancelled, a lock or statement takes
\* too long, the connection breaks or the process stops.  A caller that leaves
\* before it has a connection is one that never called.
Interrupt(r) == requests[r].phase \notin {"queued", "ended"} /\ Fail(r)

-----------------------------------------------------------------------------
(* Collecting locks *)

\* Fault: the advisory lock of DecideOrder is left out.
FirstLockKeyFault(r) == IF Op[r] = "decide" THEN {} ELSE {Row(Order(r))}

\* Fault: the rows of orders are read without FOR UPDATE.
FirstLockRowFault(r) == IF Op[r] = "decide" THEN {Key(Order(r))} ELSE {}

\* What the first statement of a transaction locks.
FirstLock(r) == IF Op[r] = "decide" THEN {Key(Order(r))} ELSE {Row(Order(r))}

\* withinTransaction, or the query of ListOrders: the request has a connection.
Begin(r) ==
    /\ In(r, "queued") /\ Available
    /\ Become(r, IF Op[r] = "list"
                 THEN [NewRequest EXCEPT !.phase = "rows", !.conns = 1,
                        !.left = Cardinality({o \in Orders : venue[o].status # "absent"})]
                 ELSE [NewRequest EXCEPT !.conns = 1, !.wants = FirstLock(r),
                        !.phase = IF Op[r] = "decide" THEN "key" ELSE "row"])
    /\ UNCHANGED <<tables, open>>

\* Fault: DecideOrder locks the items without ORDER BY.
ItemsInReachFault(r, left) == left

\* The items a statement may lock next: SELECT ... ORDER BY external_id FOR
\* UPDATE takes them in order, UPDATE ... FROM in the order of the join.
ItemsInReach(r, left) == IF Op[r] = "decide" THEN {Min(left)} ELSE left

\* A transaction goes on to its next item, or past the last one.
Collect(r, request) ==
    LET left == {i \in Ordered(r) : Stock(i) \notin request.locks}
        past == IF Op[r] = "decide" THEN "judge" ELSE "commit"
    IN  /\ IF left = {}
           THEN Become(r, [request EXCEPT !.phase = past, !.wants = {}])
           ELSE \E i \in ItemsInReach(r, left) :
                    Become(r, [request EXCEPT !.phase = "items", !.wants = {Stock(i)}])
        /\ UNCHANGED <<tables, open>>

LockItem(r) ==
    /\ In(r, "items") /\ Granted(r)
    /\ Collect(r, [requests[r] EXCEPT !.locks = @ \cup requests[r].wants])

-----------------------------------------------------------------------------
(* DecideOrder *)

\* The lock of the order's key, and findDecision.
LockKey(r) ==
    /\ In(r, "key") /\ Granted(r)
    /\ IF venue[Order(r)].status # "absent"
       THEN Answer(r, venue[Order(r)].decision)
       ELSE /\ Become(r, [requests[r] EXCEPT !.phase = "settings", !.wants = {},
                                             !.locks = @ \cup requests[r].wants])
            /\ UNCHANGED <<tables, open>>

\* Fault: the settings are read without FOR SHARE.
SettingsLockFault == {}

SettingsLock == {Settings}

\* The settings under a lock that an edit of them waits for, and the version of
\* the menu.
ReadSettings(r) ==
    LET request == [requests[r] EXCEPT !.locks = @ \cup SettingsLock]
    IN  /\ In(r, "settings")
        /\ \/ \E answer \in {"venue_closed", "menu_changed"} :
                /\ open <=> answer # "venue_closed"
                /\ Become(r, [request EXCEPT !.phase = "commit", !.answer = answer])
                /\ UNCHANGED <<tables, open>>
           \/ open /\ Collect(r, request)

\* The comparison of the locked items with the command.
Judge(r) ==
    /\ In(r, "judge")
    /\ \E samePrices \in BOOLEAN, offered \in SUBSET Items :
        Become(r, [requests[r] EXCEPT !.phase = "commit",
                    !.answer = V!Judge(Order(r), TRUE, samePrices, offered)])
    /\ UNCHANGED <<tables, open>>

\* UPDATE of the stock, INSERT of the order and COMMIT.  A second row of one
\* platform_order_id fails on the UNIQUE constraint.
CommitDecision(r) ==
    LET o == Order(r)
        answer == requests[r].answer
    IN  /\ In(r, "commit") /\ Op[r] = "decide"
        /\ IF venue[o].status # "absent"
           THEN Answer(r, "conflict")
           ELSE /\ venue' = [venue EXCEPT ![o].decision = answer,
                        ![o].status = IF answer = "accepted" THEN "accepted" ELSE "rejected"]
                /\ stock' = IF answer = "accepted" THEN V!Reserved(o) ELSE stock
                /\ Become(r, Gone(answer))
                /\ UNCHANGED <<callbacks, open>>

-----------------------------------------------------------------------------
(* CancelOrder and transitionOrder *)

\* SELECT ... FOR UPDATE finds no row: an order that is still being decided
\* is invisible.
MissingRow(r) ==
    /\ In(r, "row") /\ venue[Order(r)].status = "absent"
    /\ Answer(r, IF Op[r] = "cancel" THEN "not_found" ELSE "none")

\* CancelOrder reads the order: a saved decision is the answer, an order in
\* work is refused, an accepted one gives its stock back.
CancelRow(r) ==
    LET row == venue[Order(r)]
        request == [requests[r] EXCEPT !.seen = row, !.locks = @ \cup requests[r].wants]
    IN  /\ In(r, "row") /\ Op[r] = "cancel" /\ Granted(r)
        /\ row.status # "absent"
        /\ \/ row.saved # "none" /\ Answer(r, row.saved)
           \/ /\ row.saved = "none" /\ row.status # "accepted"
              /\ Become(r, [request EXCEPT !.phase = "commit", !.wants = {}])
              /\ UNCHANGED <<tables, open>>
           \/ row.saved = "none" /\ row.status = "accepted" /\ Collect(r, request)

\* transitionOrder, here of StartPreparing: a repeat is answered with the order,
\* another status with a conflict.
TransitionRow(r) ==
    LET row == venue[Order(r)]
    IN  /\ In(r, "row") /\ Op[r] = "start-preparing" /\ Granted(r)
        /\ \/ row.status \notin {"absent", "accepted"} /\ Answer(r, "none")
           \/ /\ row.status = "accepted"
              /\ Become(r, [requests[r] EXCEPT !.phase = "commit", !.seen = row,
                    !.wants = {}, !.locks = @ \cup requests[r].wants])
              /\ UNCHANGED <<tables, open>>

\* INSERT INTO venue_outbox with the sequence that was read under the lock.
Report(r, type) ==
    callbacks' = [callbacks EXCEPT ![<<Order(r), requests[r].seen.next>>] =
                    [V!NoCallback EXCEPT !.state = "queued", !.type = type]]

CommitCancellation(r) ==
    LET o == Order(r)
    IN  /\ In(r, "commit") /\ Op[r] = "cancel"
        /\ IF requests[r].seen.status = "accepted"
           THEN /\ stock' = V!Released(o)
                /\ venue' = [venue EXCEPT ![o].status = "cancelled",
                                         ![o].next = @ + 1, ![o].saved = "cancelled"]
                /\ Report(r, "order_cancelled")
                /\ Become(r, Gone("cancelled"))
           ELSE /\ venue' = [venue EXCEPT ![o].saved = "rejected"]
                /\ Become(r, Gone("rejected"))
                /\ UNCHANGED <<stock, callbacks>>
        /\ UNCHANGED open

CommitTransition(r) ==
    /\ In(r, "commit") /\ Op[r] = "start-preparing"
    /\ venue' = [venue EXCEPT ![Order(r)].status = "preparing",
                             ![Order(r)].next = @ + 1]
    /\ Report(r, "order_preparing")
    /\ Become(r, Gone("none"))
    /\ UNCHANGED <<stock, open>>

-----------------------------------------------------------------------------
(* ListOrders *)

\* loadManagedItems asks the pool for a second connection while the rows of
\* the orders are open on the first.
LoadItems(r) ==
    /\ In(r, "rows") /\ requests[r].left > 0 /\ Available
    /\ Become(r, [requests[r] EXCEPT !.phase = "loading", !.conns = 2])
    /\ UNCHANGED <<tables, open>>

ItemsLoaded(r) ==
    /\ In(r, "loading")
    /\ Become(r, [requests[r] EXCEPT !.phase = "rows", !.conns = 1, !.left = @ - 1])
    /\ UNCHANGED <<tables, open>>

ListDone(r) == In(r, "rows") /\ requests[r].left = 0 /\ Answer(r, "none")

-----------------------------------------------------------------------------
\* An operator opens or closes the venue; the UPDATE waits for FOR SHARE.
EditSettings ==
    /\ \A q \in Requests : ~Holds(q, Settings)
    /\ open' = ~open
    /\ UNCHANGED <<tables, requests>>

Step(r) ==
    \/ Begin(r) \/ LockItem(r)
    \/ LockKey(r) \/ ReadSettings(r) \/ Judge(r) \/ CommitDecision(r)
    \/ MissingRow(r) \/ CancelRow(r) \/ CommitCancellation(r)
    \/ TransitionRow(r) \/ CommitTransition(r)
    \/ LoadItems(r) \/ ItemsLoaded(r) \/ ListDone(r)

Next ==
    \/ \E r \in Requests : Step(r) \/ AbortVictim(r) \/ Interrupt(r)
    \/ EditSettings

Spec == Init /\ [][Next]_vars

\* A statement that can run does, a connection that is free is handed out, and
\* Postgres looks for cycles.  Callers and operators are not fair.
Fairness == \A r \in Requests : WF_vars(Step(r)) /\ WF_vars(AbortVictim(r))

FairSpec == Spec /\ Fairness

-----------------------------------------------------------------------------
(* Properties *)

\* What is committed is what the venue of single steps does: the locks make
\* every transaction atomic, whatever else runs, aborts or is cut off.
ImplementsVenueOrders == V!Spec

\* A decision for a closed venue is not accepted: FOR SHARE holds an edit of
\* the settings back until the decision is committed.
AcceptedWhileOpen ==
    [][\A o \in Orders :
        venue[o].decision = "none" /\ venue'[o].decision = "accepted" => open]_vars

\* Every answer is the stored one, and repeated commands that run side by side
\* never meet on the UNIQUE constraint (docs/decisions/architecture-tradeoffs.md:
\* the advisory lock serialises equal requests, "Уникальные ограничения остаются
\* последней защитой").
AnswersAgree ==
    \A r \in Requests :
        LET answer == requests[r].answer
        IN  /\ answer # "conflict"
            /\ Ended(r) /\ answer # "none" =>
                /\ Op[r] = "decide" => answer = venue[Order(r)].decision
                /\ Op[r] = "cancel" /\ answer # "not_found" =>
                        answer = venue[Order(r)].saved

\* Items are locked "в стабильном порядке" (architecture-tradeoffs.md), so no
\* cycle of waiting transactions is made of decisions and transitions alone: a
\* cancellation, whose UPDATE has no order, is part of each.
DecisionsNeverDeadlock ==
    \A stuck \in SUBSET Waiting :
        Cycle(stuck) => \E r \in stuck : Op[r] = "cancel"

\* Lists hold the whole pool, each waiting for a second connection.
ListsHoldPool ==
    /\ ~Available
    /\ \A r \in Requests : requests[r].conns > 0 => In(r, "rows")

\* A request has what its next statement waits for: a connection or its locks.
CanRun(r) ==
    /\ ~Ended(r) /\ Granted(r)
    /\ In(r, "queued") \/ (In(r, "rows") /\ requests[r].left > 0) => Available

\* When no request can run, requests wait for each other in a cycle, which
\* Postgres breaks, or lists hold the pool: no lock or connection stays with a
\* request that is over (withinTransaction), and none is waited for that
\* nobody will give back.
OnlyKnownStalls ==
    (\A r \in Requests : ~CanRun(r)) =>
        \/ \A r \in Requests : Ended(r)
        \/ \E stuck \in SUBSET Waiting : Cycle(stuck)
        \/ ListsHoldPool

\* Every request comes to an end, through deadlocks and rollbacks, unless lists
\* come to hold the whole pool: nothing but a caller that leaves ends that.
RequestsEnd ==
    \A r \in Requests : <>[](Ended(r) \/ ListsHoldPool)
=============================================================================
