# Formal model of avito-kitchen

Two Go services take and cook food orders. The **platform** (`cmd/avito-kitchen`,
`internal/platform`) shows menus, takes orders and lets customers cancel them; the
**venue** (`cmd/venue`, `internal/venue`) owns the stock, decides about every order
and prepares it. Each has a Postgres database of its own. They talk over HTTP only,
and each keeps what it must tell the other in an outbox table that a pool of workers
empties.

This directory models the logic of the two services in TLA+, checks it with TLC and
proves part of it with TLAPS. Source paths below are relative to `src/`.

## 1. Inventory

| Component | State | Operations | Hard part | What makes it correct |
|---|---|---|---|---|
| Platform orders (`platform/repository/orders.go`) | `orders`, `order_items`, `order_status_history` | `CreateOrder`, `CancelOrder` | a cancellation races the worker that sends the order | an order withdrawn before dispatch was never sent; `status` and `cancellation_status` agree |
| Confirmation outbox (`platform/repository/outbox.go`, `platform/service/outbox.go`) | `outbox` with lease, token, attempts | `ClaimOutbox`, `ResolveOutbox`, `ResolveCancellation`, `RetryOutbox`; workers | lost leases, late answers, crashes, retries against the deadline | a job lives as long as the wait it serves; every wait ends; final orders stay final |
| Venue events (`platform/repository/events.go`) | `partner_order_events` | `RecordOrderEvent` | callbacks repeated, early, out of order, or telling what an HTTP answer already told | gapless numbering, one history row per change |
| Venue orders (`venue/repository/orders.go`) | `venue_orders`, `stock_quantity` | `DecideOrder`, `StartPreparing`, `MarkReady`, `Complete`, `CancelOrder` | repeated commands; a cancellation races the kitchen | stock conserved, decisions final, events tell the story |
| Venue callbacks (`venue/repository/callbacks.go`, `venue/service/callbacks.go`) | `venue_outbox` | `ClaimCallback`, `CompleteCallback`, `RetryCallback` | several workers, lost 204s | in order, at least once, none skipped |
| HTTP calls (`venueclient`, `platformclient`, handlers) | requests on their way | decide, cancel, event | late, repeated and lost requests, lost answers | both databases agree in the end |
| Platform menu and checkout (`platform/repository/{partner,catalog,orders}.go`) | `venues`, `menu_categories`, `menu_items` | `ReplaceMenu`, `UpdateAvailability`, `GetMenu`, `CreateOrder` | several statements that race a publication; idempotency keys; `int64` amounts | prices belong to the version; no torn reads; one order per key |
| Menu publication (`venue/service/menu.go`, `venue/repository/menu.go`, `venue/app/app.go`) | phase of the process, stock, edition | `Publish`, start, stop | restarts, late requests, availability that depends on the stock | a serving venue has its menu on the platform |
| Transactions and connections of the venue (`shared/postgres/postgres.go` under `venue/repository/orders.go`) | locks of the running transactions, connections of the pool | `withinTransaction`, every statement, rollback | lock order, commits side by side, a pool that lists exhaust | what is committed is what single steps would do; calls end |
| Checkout admission (`platform/transport/http/handler.go`) | `fixedWindowLimiter`, `checkoutSlots` | `allow`, the slots around `createOrder` | time read before the mutex, slots of refused requests | the rate is kept, no slot is lost |
| Catalogue pages, order tokens, partner authentication, middleware, configuration and deployment | none | reads, filters, parsing | | not modelled, see section 7 |

The flow: `CreateOrder` writes an order and a `confirm_order` job in one transaction.
A worker claims the job (a lease with a fresh token), calls the venue outside any
transaction and stores the answer under the token. `CancelOrder` either withdraws a job
no worker ever claimed or queues a `cancel_order` job, which goes the same way.
The venue reserves stock and stores its decision in one transaction, and every later
transition puts an event into `venue_outbox`; its workers post the events, in order per order, to the
platform, which records them once.

`PROJECT.json` lists the hazards of this design, each at its line, with the
properties that would catch it going wrong.

## 2. Modules

| Module | Models | Correspondence |
|---|---|---|
| `PlatformOrders` | orders, confirmation outbox, its workers and the venue events, with *any* venue on the other side | an action is a committed transaction with the worker step around it, a worker step between transactions, or the clock of the database. `leased` is `locked_until > now()`, `due` is `available_at <= now()`, `late` is a deadline that has passed |
| `VenueOrders` | decisions, stock, kitchen and callback outbox, with *any* platform on the other side | a decision reads any value of the settings and menu that operators edit; `stock` is exact |
| `VenueTransactions` | the operations of `VenueOrders`, and `ListOrders`, one statement at a time | a request holds locks (`advisory`, `FOR UPDATE`, `FOR SHARE`, updated rows) and connections; its phase is the statement it runs next. Nothing is written before the commit except rows under its own locks, so the writes are those of the commit step |
| `Kitchen` | `PlatformOrders` and `VenueOrders`, by INSTANCE, joined by the HTTP calls | `sent` and `posted` hold requests that may reach the other side now, later, repeatedly or never; an answer is read from the saved decision or the recorded event, which are never taken back |
| `OrderLifecycle` | the abstract promise: the coupled state machines of `status` and `cancellation_status` | `Kitchen` implements it under the mapping that keeps the two columns |
| `Catalog` | menu replacement, menu reads, checkout, statement by statement between the locks they take | `FOR SHARE`, `FOR UPDATE` and the advisory lock are guards; a `REPEATABLE READ` read is a snapshot taken by the first statement; a cart is compared without regard to the order of its lines, as `checkoutHash` sorts them |
| `MenuSync` | the start of the venue process, with `Catalog` by INSTANCE | `requests` outlive the process that sent them |
| `CheckoutAdmission` | the limiter and the slots in front of `CreateOrder` | reading the clock, `allow` under its mutex, the slot and the return are steps of their own |
| `PlatformOrdersProofs`, `VenueOrdersProofs` | theorems about the two services, each on its own | |
| `VenueTransactionsProofs`, `KitchenProofs` | theorems about `VenueTransactions` and `Kitchen`, with their refinements | take the theorems about the parts by INSTANCE |
| `CatalogProofs`, `MenuSyncProofs`, `CheckoutAdmissionProofs` | theorems about these three modules | |
| `SetFolds` | what the folds of the community modules compute | used by `VenueOrdersProofs`, `VenueTransactionsProofs` and `CatalogProofs` |
| `MCPlatformOrders`, `MCVenueOrders`, `MCVenueTransactions`, `MCKitchen`, `MCCatalog`, `MCMenuSync` | instances for TLC | |

Calls that return before they write (an unknown order, an exact repeat, a conflict, a
lost lease) are stuttering steps. A crash of a process or a failed statement of a worker is
`Abandon` or `LoseCallback`: the tables keep what was committed, the worker
starts again. A commit whose answer was lost is the commit followed by such a
step. Operators named `...Fault` are plausible bugs of the operator
that follows them; no specification uses them: a copy of the model with the fault in place
violates the property that the fault is listed with in `PROJECT.json`.

## 3. Runs

| Run | Instance | Shows |
|---|---|---|
| `platform_orders` | 1 order, 2 workers, 2 attempts, 2 cancellations, 3 event ids | tables, history, events and workers stay consistent in every interleaving (9 087 states up to symmetry) |
| `platform_pair` | 2 orders, 2 workers, 1 cancellation each | no statement for one order touches the rows of another (394 530) |
| `platform_liveness` | as the first with 1 event, no symmetry, fair | every confirmation and every cancellation is settled |
| `venue_orders` | 2 orders that want 2 of 3 portions each, an uncounted item, 2 callback workers | stock conserved, decisions final, events complete and in order (8 334) |
| `venue_transactions` | 2 orders for one last portion: 3 decisions (one repeated), a cancellation, a transition and 2 lists on 2 connections, fair | the locks make transactions atomic (refinement of `VenueOrders`); deadlocks and lost callers leave nothing behind; nothing stands still but a cycle of locks or a pool full of lists, and every call ends unless lists hold the pool (190 180) |
| `kitchen` | 1 order, 2 platform workers, 2 cancellations, 1 callback worker | the two databases agree over an unreliable network and the platform never runs ahead of the venue; the platform implements `OrderLifecycle` (285 569) |
| `kitchen_liveness` | 1 order, one worker on each side, fair | events and cancellations of the venue arrive |
| `catalog` | 5 checkouts under 2 keys, 4 snapshots (two with one version), 1 reader, amounts up to 7 | prices, amounts, idempotency, versions, whole reads (372 883) |
| `menu_sync` | 2 items, 3 editions, 4 starts | a serving venue is published, whatever arrives late (16 491) |
| `platform_deadline`, `kitchen_table`, `menu_conflict` | small | the findings of section 6 |

**The bounds.** One order is enough for what concerns one order, since every statement is
keyed by the order; `platform_pair` checks that assumption where
statements could go astray. Two workers are enough for a lease to be lost to another
worker. `MaxAttempts = 2` has a first, a repeated and a last attempt. Two
cancellations allow a failed one to be repeated (`MaxCancels`). `MaxSequence` is 3 because an order reports at
most `preparing`, `ready` and `completed`; that the venue does not report more is
`LogTellsStatus`. In `catalog` one request repeats another with its lines in another order, one reuses its key with another body, one has
lines that fit and a sum that does not, one is below the minimum;
every snapshot changes another aspect (price, stock, a new item, a dropped item).
In `venue_transactions` every request runs once (a repeat is another request). Two connections
let two transactions run side by side, which is what a lock order needs to go wrong, and are
few enough for two lists to hold them all; the third decision and the second item make cycles of
decisions possible, if the code allowed them.
Three editions and four starts let a request outlive two later processes.
The runs stop when everything is delivered or the bounds are
reached, so deadlock is not checked.

**Fairness.** Only liveness runs assume it. The workers poll in an endless loop and the HTTP clients
have timeouts, so claims, calls and conclusions go on. Leases and backoffs run out (weak
fairness). `config.go` (82-85) refuses a lease that does not outlast the call, so a worker that is not
interrupted concludes under its own lease; a crash or a slow database may take this
chance away, but not for ever: strong fairness for claim, dispatch and conclusion under the
lease. In `Kitchen` strong fairness of a conclusion says that *some* end of the call happens, a
failure included, so the platform may still never hear a decision; on the venue's
side a callback is repeated without limit, and one 204 gets through at last.
In `VenueTransactions` a statement that can run does and a connection that is free is handed to
whoever asks; weak fairness for each request is enough, since every one of them runs
once and the pool is a queue. Postgres looks for deadlocks (or `statement_timeout` ends one of the waiting
statements). Callers that leave are not fair: a request that
nobody gives up must come to its end by itself.
The staff of the venue and the customers are not fair: they may never act.

## 4. Properties worth knowing

* `JobsMatchOrders`: an order is pending exactly while its `confirm_order` row is
  unprocessed, and a cancellation is requested exactly while one `cancel_order` row is.
* `CancelledIffConfirmed`, `HistoryMatchesStatus`, `EventsGapless`: the columns, the history and the events agree,
  although the answer to a cancellation and the `order_cancelled` callback both report it.
* `WithdrawnNeverDispatched`, `WithdrawnNeverSent`: "cancelled before dispatch" is true on both sides.
* `StockConserved`, `LogTellsStatus`, `DeliveredInOrder`, `DecisionsStable`: the promises of the venue.
* `ImplementsVenueOrders`: the refinement that justifies the single steps of `VenueOrders` and `Kitchen`.
  A dropped `FOR UPDATE` breaks it: two transactions act on one status.
* `DecisionsNeverDeadlock`, `RequestsEnd`: the documented order of locks keeps decisions from waiting
  for each other; the cancellation, whose `UPDATE ... FROM` has no order, may deadlock with a decision, and then one of
  the two ends with an error and nothing written, which the outbox of the platform repeats.
* `OnlyKnownStalls`: when no request can run, requests wait for each other in a cycle, which Postgres breaks, or lists
  hold the pool. A transaction that is not rolled back breaks it.
* `AcceptedWhileOpen`, `AnswersAgree`: no order is accepted after the venue closed; repeated commands agree.
* `OnlyExpiredRefuses`: the event at the head of an order's queue is never refused for good, unless the
  platform let the order expire. The documents name this limit; the property says there is no other.
* `PlatformTellsTruth`, `AgreeWhenDelivered`, `NoEventLost`: the platform never claims more than
  the venue did, never shows an order further than the staff has brought it, and agrees with the venue once the
  events are through. `accepted` may be shown of an order that the venue has just cancelled. Orders that the
  platform let expire are excluded, as the documents say they must be reconciled by hand.
* `ImplementsLifecycle`: a refinement. It also shows that a late "cancelled" answer, which
  `ResolveCancellation` would apply in any status, only ever meets an accepted or a cancelled order.
* `MenuReadWhole`, `OrderPricedByVersion`, `AmountExact`, `RetriesAgree`, `VersionsGrow`, `ServingIsPublished`.
* `ConfirmationDecided`, `CancellationSettled`, `EventsDelivered`, `CancellationsReported`, `RequestsEnd`: liveness.

## 5. Proofs

TLAPS proves what follows for every value of the constants, the runs show it on small
instances. Each theorem about a property comes from an inductive invariant: it holds initially, every
step keeps it (one step of the proof per action), and it implies the property. The stronger
invariants were model-checked before they were proved.

### The platform: `PlatformOrdersProofs`

For any orders, workers, attempts, cancellations and events (assumptions: `NoWorker` is not a
worker, `MaxAttempts` is positive, the bounds are natural numbers).

* `TypeCorrect` (`TypeOK`), `QueueServesOrders` (`JobsMatchOrders`), `ColumnsAgree`
  (`CancelledIffConfirmed`), `FinalForGood` (`FinalOutcomesStick`).

  The invariant is `OrdersSound`: `TypeOK` and, for every order,
  `OrderSound`, the two state invariants together. Neither is inductive alone. A worker that
  finds its `cancel_order` row unprocessed knows from `JobsMatchOrders` that a cancellation is
  requested, and from `CancelledIffConfirmed` that the order was accepted and is not
  cancelled, so its write keeps both; an `order_cancelled` event closes the rows, which keeps the first,
  because the second says nothing else can make the order cancelled.
  The lease is not needed here, only the fence `processed_at IS NULL`: with it a job is
  resolved once. `ConfirmClosed` and `CancelClosed` are the two ways in which
  an order and its job change together, `Frame` says that the rest keeps an order
  sound. A final order has neither a queued confirmation nor a requested
  cancellation, so no answer moves it, and no event leads out of a final status but
  `order_cancelled` from `cancelled` to itself.
* `HistoryTrue` (`HistoryMatchesStatus`), `WithdrawnForGood` (`WithdrawnNeverDispatched`), `EventsNumbered`
  (`EventsGapless`).

  The invariant is `RecordsSound`: `OrdersSound`, the history of each order, and two facts about
  attempts. A job held by a worker was attempted (`ClaimSound`), and an order whose history says "withdrawn" has a
  confirmation that never was (`WithdrawalSound`). An order that the venue cancelled has another history
  with the same ending, so it is the attempts that tell them apart.

### The venue: `VenueOrdersProofs`

For any orders, items and callback workers (assumptions: `NoSender` is not a worker, quantities and
supplies are natural numbers, `Unlimited` is not a number).

* `TypeCorrect` (`TypeOK`), `EventsTellStatus` (`LogTellsStatus`), `EventsInOrder` (`DeliveredInOrder`),
  `DecisionsForGood` (`DecisionsStable`).

  The invariant is `VenueSound`. `OrderSound` ties `next`, the number of the next event, to the status, and
  says which rows of `venue_outbox` exist and what type they have: hence no fourth event. `RowSound` says that a row which is
  claimed or delivered comes after delivered rows only, which is what `ClaimCallback` looks for and nothing later
  can undo, since no row goes back from `processed`.
* `StockAddsUp` (`StockConserved`).

  The invariant is `StockSound`: for each counted item the stock and what the orders hold of it add up to the
  supply, and only finitely many orders hold something, which is needed as the set of orders may be infinite.
  A reservation that `Judge` accepts does not exceed the stock, a cancellation gives back what the order held.

### The venue, statement by statement: `VenueTransactionsProofs`

For any requests, operations and targets, any items (finitely many, as they are numbered in the order of `external_id`), any
size of the pool. `TablesAssumption` has the orders finite as well: `platform_order_id` is a UUID, and a list counts
the rows that it still has to load.

* `TransactionsAtomic` (`ImplementsVenueOrders`): the refinement. `VenueOrders` is the specification, and a commit is its
  only step: `CommitDecision` is `DecideOrder`, with a witness for the settings and the offered items,
  `CommitCancellation` is `CancelOrder`, `CommitTransition` is `StartPreparing`. Every other step leaves the tables
  alone. Through it `VenueKeepsPromises` states `StockConserved`, `LogTellsStatus` and `DecisionsStable` of the transactions.
* `TypeCorrect` (`TypeOK`), `AnswersStored` (`AnswersAgree`), `AcceptedOnlyOpen` (`AcceptedWhileOpen`),
  `OnlyCancellationsDeadlock` (`DecisionsNeverDeadlock`), `StallsKnown` (`OnlyKnownStalls`).

  The invariant is `TransactionsSound`. Two requests share no lock but `FOR SHARE` of the settings (`Exclusive`), and of
  each request it says
  - `LocksSound`: which locks its phase has and waits for; a decision in phase `items` holds exactly the items before the one it waits for;
  - `DecideSound`: under the advisory lock its order is still undecided, under the lock of the settings the venue
    is still open if it was, and the answer it is about to commit is the one that `Judge` gives *now*;
  - `CommandSound`: under the lock of the row the order is as it was read (`seen`), and a cancellation about to give
    stock back has locked every counted item of the order;
  - `AnswerSound`: what an ended request answered is stored.

  The heart is `CommitSound` with `SoundStays`: a commit changes one order and some items, all locked by the one who commits,
  so nothing that another request knows is touched. Two requests for one order hold the same lock, or one of them knows
  the row to be absent and the other knows it to be there: that is how the advisory lock of `DecideOrder` and the row
  lock of the other commands, different locks of one order, keep out of each other's way.

  In a cycle without cancellations nobody waits for a row, which only a transition could hold, and that one waits for nothing
  then. Hence every member is a decision, each waits for one that waits for an item (`WaitingDecides`), and that item is
  greater than the one the first waits for. So the set of items that are waited for would have no greatest one,
  which a finite set has (`SmallestPart`).

  For `StallsKnown` the invariant has one part more, `ConnsSound`: the phase of a request says how many connections it
  has, none while it is queued or over. When nobody can run, whoever holds a lock that another request waits for is in the middle of
  a transaction and waits for a lock as well (`HolderWaits`), so the requests that wait for locks, if there are any, form
  a cycle. If there are none, those that are not over wait for a connection, and only lists do so with one in their hands.
* `PoolNeverExceeded`: the connections of all requests never add up to more than `MaxConns`, although a list takes its second
  one in another statement than the first. A step changes one term of the sum, by one at most and only when a connection
  is free (`Fits`); that the sum follows its term (`InUseGrows`) is shown with `SetFolds`.

### Both services together: `KitchenProofs`

For any orders, workers, items and supplies (`PartsAssumption`: the assumptions of the two parts).

* `PartsBehave`: `Spec => P!Spec /\ V!Spec`. Each step of `Kitchen` is a step of `PlatformOrders` or leaves it alone, and the same
  for `VenueOrders`. The answers and events that these modules take from *any* partner are, in `Kitchen`,
  those the other service really gives, so their invariants hold here (`PartsSound`). `PlatformKeepsPromises` and
  `VenueKeepsPromises` list what follows: everything that is proved of either service with any partner
  holds of the two together.
* `TypeCorrect` (`TypeOK`), `WithdrawnUnseen` (`WithdrawnNeverSent`), `TruthTold` (`PlatformTellsTruth`),
  `DeliveredIsRecorded` (`NoEventLost`), `DatabasesAgree` (`AgreeWhenDelivered`), `EventsAccepted`
  (`OnlyExpiredRefuses`).

  The invariant is `KitchenSound`: both parts are sound, and
  - `SentSound`: a request that was sent left an attempt in its row, so an order that was withdrawn before an
    attempt was not sent;
  - `CallsSound`: the venue knows an order only if its confirmation was sent and has decided a cancellation only if one was;
  - `TruthSound`: what the platform shows was decided by the venue. `decision` and `saved` never change once they are set
    (`AnswersSound` of `VenueOrdersProofs`), so a late answer is a true one;
  - `SequenceSound`: the status of an order at work is the number of its recorded events;
  - `EventSound`: a recorded event is the row of `venue_outbox` that it came from.

  With the gapless numbers of the platform and the numbers of the venue, the recorded events of an order
  are a prefix of what the venue reported (`RecordedIsPrefix`), so the status they led to is one the venue has reached
  (`NeverAhead`, a part of `TruthTold`). `DatabasesAgree` is the case in which the prefix is everything; in
  `EventsAccepted` the first event that is missing is the next one the platform expects, in the status that it expects.
* `LifecycleKept` (`ImplementsLifecycle`): the refinement of `OrderLifecycle`. The initial states correspond, and
  each step is a step of the abstract machine or leaves both columns alone. A local step of the platform
  (`LocalImplements`) is one by its guards; a callback or a late answer (`ReportImplements`) is one because of `KitchenSound`:
  `order_cancelled` can only have come from a venue that cancelled while it had not begun to cook, and then the
  platform still shows `accepted`, with a cancellation that was asked for.

### Menu and checkout: `CatalogProofs`

For any snapshots, requests, carts, items and readers. The assumptions are those of the code:
`CartAssumption` is `validateCheckout` (`platform/service/orders.go`: a cart is not empty and names no item twice, a
quantity and a menu version are at least 1), prices lie in `0..MaxAmount`, the `int64` range that `MaxAmount` stands for,
versions are positive.

* `TypeCorrect` (`TypeOK`), `NobodyReadsHalfAMenu` (`MenuReadWhole`), `PricesOfTheVersion`
  (`OrderPricedByVersion`), `AmountsExact` (`AmountExact`), `OneOrderPerKey` (`RetriesAgree`), `VersionsOnlyGrow` (`VersionsGrow`).

  The invariant is `CatalogSound`: types; the rows of the menu are those of the published snapshot; and for each
  checkout what it knows between its statements (`CheckoutSound`). While it runs, no other checkout with its key
  does, and there is no order with that key (the advisory lock); from `locked` on the venue row has the
  version of the request (the `FOR SHARE` lock that `ReplaceMenu` waits for); once priced, the prices are those of
  that version. `AmountsExact` needs that every prefix of the exact sum is at most the whole: a step of
  the checked arithmetic that would overflow refuses the checkout, and one that does not is exact.

### Menu publication: `MenuSyncProofs`

For any items, versions, starts of the venue and late requests.

* `TypeCorrect` (`TypeOK`), `ServedIsPublished` (`ServingIsPublished`).

  The invariant is `SyncSound`. `PublisherSound`: a process that was answered `200` has its menu on the platform.
  `RequestSound`: a `PUT` on its way carries a menu that is no newer than that of the running process, and one that this
  process sent carries its menu and finds it still waiting. So `ReplaceMenu` refuses, or finds unchanged, whatever an
  earlier process left behind. A late `PATCH` opens the venue and leaves the menu alone.
* `UsesCatalog` (`Spec => C!Spec`) and `PublishedForGood` (`VersionsGrow`): to the platform, the publications of this venue are those
  that `Catalog` takes from any partner, so no restart makes the menu go back or change under its version.

### Checkout admission: `CheckoutAdmissionProofs`

For any requests, configured limits and length of a second (assumption: the length is positive).

* `RateNeverExceeded`: there is an `n` with no more than `limit * n` requests let through and `n - 1` seconds passed;
* `SlotsNeverLost`: the slots in use are exactly the checkouts that run, and at most `concurrency`.

  The invariant `AdmissionSound` says that windows are opened at least a second apart, although a
  late request may pass the mutex with a time before the current window (`Sub` is then negative and the
  request counts in that window), and that all windows but the last may be full. Both numbers are
  histories of the model. `CheckoutAdmission` has no run of its own: the theorems cover every instance.

### Folds: `SetFolds`

The stock of an item, the amount of an order and the connections in use are sums, written with `MapThenSumSet` and `FoldLeft`. These are recursive functions
chosen by `CHOOSE`, and what they compute follows only if a function with their equation exists. The induction
theorems of the library take an operator as a parameter, which the provers cannot instantiate, so
`SetFolds` argues by a smallest counterexample instead: among the subsets for which no such
function exists there is one without a smaller one, and from its part without the picked element the function for it can
be put together.

### Model-checked only

Liveness (`ConfirmationDecided`, `CancellationSettled`, `EventsDelivered`, `CancellationsReported`, `RequestsEnd`):
fairness and ENABLED are out of the prover's reach. Every invariant, action property and refinement that a passing run
checks is stated by a theorem as well. The findings of section 6 are counterexamples, which TLC shows.

## 6. Where documents and code disagree

* `platform_deadline`: an error that is not retryable makes an order `confirmation_expired` on its first attempt, with its
  deadline ahead and attempts left, and `RetryOutbox` stores the reason "confirmation deadline exceeded". The documents
  know two ways to expire: the deadline (`order-state-machine.md:17`, `customer-journey.md:70`) and the limit of
  retries (`architecture-tradeoffs.md:51-53`, `venue-journey.md:96-97`). `ExpiredAtDeadlineOrLimit` allows both. A worker also
  gives up when the backoff would end after the deadline, which counts as the deadline: the run takes `FarSpec` of
  `MCPlatformOrders`, steps of `Next` without a deadline in reach, so that the counterexample can only be the third way.
* `kitchen_table`: `cancellation_status` may go from `failed` to `confirmed`, which the documented table lacks: the venue
  cancelled, its answers were lost, the callback arrived.
* `menu_conflict`: the published availability depends on the stock, the version does not. A
  venue that restarts after selling an item out publishes another menu under the same
  version, gets `409 MENU_VERSION_CONFLICT` and does not start.

A hazard without a document that denies it: `ListOrders` of the venue asks for the items of each order on a second connection
while the first is still open (`venue/repository/orders.go`, 179-187). As many lists at once as the
pool has connections (`DB_MAX_CONNS`, 10 unless configured) hold all of them and wait for one more, without a
timeout, until a caller goes away; every other request and the callback workers wait with them.
`RequestsEnd` therefore excepts this state, `ListsHoldPool`, by name, and shows that nothing else stops a request.

## 7. Not modelled

* Catalogue pages and cursors: one read of rows after the last id, without state.
* Order tokens and partner authentication: HMACs and comparisons, without state.
* Decoding, logging and metrics.
* Opening the pool, its retries, and the readiness query.
* Graceful shutdown: a worker that is told to stop finishes its job (`context.WithoutCancel`), and one that is not given
  the time ends as in a crash (`Abandon`, `LoseCallback`, `Stop`).
* The statements of the platform's order transactions: each of them locks the row of the order first and
  that of the job after it, and a claim locks one row with `SKIP LOCKED`, so no two wait for each other and
  they are single steps of `PlatformOrders`.
* `MarkReady` and `Complete` in `VenueTransactions`: they are `transitionOrder` with other statuses, like `StartPreparing`.
* Several venues and currencies in `Catalog`: every statement is keyed by the venue, and with one currency the comparison
  of an item's currency with the venue's (`platform/repository/orders.go:76-79`) always succeeds.
* The limit of 100 rows in `ListOrders` (`VenueTransactions` has two orders).
* Keys that repeat a check made under the lock of the row, as those of `partner_order_events` on `event_id` and on the order with
  the sequence: they would turn a missing check into an error; `EventsGapless` says that nothing relies on them.

## 8. Plan

Done, in this order: `PlatformOrders`, its proofs, `VenueOrders`, `OrderLifecycle`, `Kitchen`, `Catalog`, `MenuSync`,
`VenueTransactions`, `CheckoutAdmission` and its proofs; then the proofs about records, venue orders, stock, `Catalog`,
`Kitchen` with its refinement, `MenuSync` and `VenueTransactions` with its refinement; last the promises of the
parts restated for `Kitchen`, the stalls of `VenueTransactions` and its pool.

What is left: the liveness properties have no proof and stay with TLC, and `CheckoutAdmission` has no
run, since its theorems hold for every instance.
