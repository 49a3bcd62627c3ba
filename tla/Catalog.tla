------------------------------- MODULE Catalog -------------------------------
(***************************************************************************)
(* The platform's copy of the menu and the transactions that meet on it:   *)
(* ReplaceMenu and UpdateAvailability of the partner API                   *)
(* (internal/platform/repository/partner.go), GetMenu                      *)
(* (internal/platform/repository/catalog.go) and the checkout, CreateOrder *)
(* (internal/platform/repository/orders.go).                               *)
(*                                                                         *)
(* Every step is a statement that takes a lock or a snapshot, with the     *)
(* statements after it that cannot be disturbed, up to the next one.       *)
(* ReplaceMenu works under FOR UPDATE on the row of the venue and nobody   *)
(* sees its rows before the commit: it is one step, that waits for every   *)
(* checkout with FOR SHARE on that row.  There is one venue and one        *)
(* currency.  What becomes of an order after checkout is the subject of    *)
(* PlatformOrders.                                                         *)
(***************************************************************************)
EXTENDS Naturals, Sequences, FiniteSets, SequencesExt

CONSTANTS
    Items,      \* external ids of menu items
    Absent,     \* the item is not in a snapshot
    Snapshots,  \* menus the venue may publish
    NoMenu,     \* menu_snapshot_hash before the first publication
    Requests,   \* checkout requests; an order has the id of its request
    Key,        \* Key[r]: customer_ref with the Idempotency-Key
    Version,    \* Version[r]: the menu_version of the request
    Cart,       \* Cart[r]: a sequence of [item, quantity]
    Minimum,    \* minimum_order_amount
    MaxAmount,  \* math.MaxInt64
    Readers     \* requests that read the menu

ASSUME AmountAssumption == MaxAmount \in Nat /\ Minimum \in 0..MaxAmount
ASSUME SnapshotAssumption ==
    \A s \in Snapshots :
        /\ s.version \in Nat \ {0}
        /\ \A i \in Items : s.offers[i] # Absent =>
                s.offers[i].price \in 0..MaxAmount /\ s.offers[i].available \in BOOLEAN
\* A request names at least one item and none twice, and a version from 1 on
\* (validateCheckout).
ASSUME CartAssumption ==
    /\ Version \in [Requests -> Nat \ {0}]
    /\ Cart \in [Requests -> Seq([item: Items, quantity: 1..MaxAmount])]
    /\ \A r \in Requests :
        /\ Cart[r] # <<>>
        /\ \A n \in 1..Len(Cart[r]) :
            \A k \in 1..(n - 1) : Cart[r][k].item # Cart[r][n].item

VARIABLES
    venue,      \* venues: menu_version (0 is NULL), menu_snapshot_hash and
                \* is_accepting_orders
    menu,       \* menu_items
    orders,     \* orders with their order_items
    checkouts,  \* the CreateOrder transactions
    readers     \* the GetMenu transactions

vars == <<venue, menu, orders, checkouts, readers>>

-----------------------------------------------------------------------------
(* Rows and their types *)

Row == [active: BOOLEAN, available: BOOLEAN, price: 0..MaxAmount]
NoRow == [active |-> FALSE, available |-> FALSE, price |-> 0]

NoOrder == [amount |-> 0, prices |-> <<>>]

\* What a checkout is told: the order of a request, or why there is none.
Refusals == {"key_reused", "closed", "menu_changed", "unavailable", "overflow",
             "below_minimum", "internal"}

\* The id of an order is none of these words.
ASSUME RequestAssumption == Requests \cap (Refusals \cup {"none"}) = {}

New == [phase |-> "new", prices |-> <<>>, result |-> "none"]
NotReading == [phase |-> "idle", venue |-> <<>>, menu |-> <<>>]

TypeOK ==
    /\ venue \in [version: Nat, snapshot: Snapshots \cup {NoMenu}, open: BOOLEAN]
    /\ menu \in [Items -> Row]
    /\ \A r \in Requests :
        /\ orders[r].amount \in 0..MaxAmount
        /\ DOMAIN orders[r].prices \subseteq Items
        /\ checkouts[r].phase \in {"new", "keyed", "locked", "priced", "done"}
        /\ checkouts[r].phase = "done"
                <=> checkouts[r].result \in Refusals \cup Requests
    /\ \A q \in Readers : readers[q].phase \in {"idle", "reading", "done"}

Init ==
    /\ venue = [version |-> 0, snapshot |-> NoMenu, open |-> FALSE]
    /\ menu = [i \in Items |-> NoRow]
    /\ orders = [r \in Requests |-> NoOrder]
    /\ checkouts = [r \in Requests |-> New]
    /\ readers = [q \in Readers |-> NotReading]

-----------------------------------------------------------------------------
(* The partner API *)

\* Fault: a checkout does not lock the row of the venue.
SharedFault == FALSE

\* A checkout that read the row of the venue FOR SHARE has not ended.
Shared == \E r \in Requests : checkouts[r].phase \in {"locked", "priced"}

\* Fault: the items that the snapshot lacks stay active.
RowsOfFault(s) ==
    [i \in Items |->
        IF s.offers[i] = Absent THEN menu[i]
        ELSE [active |-> TRUE, available |-> s.offers[i].available,
              price |-> s.offers[i].price]]

\* menu_items after a snapshot: an item it lacks keeps its row, switched off.
RowsOf(s) ==
    [i \in Items |->
        IF s.offers[i] = Absent
        THEN [menu[i] EXCEPT !.active = FALSE, !.available = FALSE]
        ELSE [active |-> TRUE, available |-> s.offers[i].available,
              price |-> s.offers[i].price]]

\* The answer to a snapshot.
Verdict(s) ==
    CASE s.version < venue.version -> "stale"
      [] s.version = venue.version /\ s = venue.snapshot -> "repeated"
      [] s.version = venue.version /\ s # venue.snapshot -> "conflict"
      [] OTHER -> "replaced"

\* Fault: only older versions are refused.
NewerFault(s) == Verdict(s) \in {"replaced", "conflict"}

\* The snapshot is applied; any other answer changes nothing.
Newer(s) == Verdict(s) = "replaced"

ReplaceMenu(s) ==
    /\ ~Shared
    /\ Newer(s)
    /\ venue' = [venue EXCEPT !.version = s.version, !.snapshot = s]
    /\ menu' = RowsOf(s)
    /\ UNCHANGED <<orders, checkouts, readers>>

UpdateAvailability(open) ==
    /\ ~Shared
    /\ venue' = [venue EXCEPT !.open = open]
    /\ UNCHANGED <<menu, orders, checkouts, readers>>

-----------------------------------------------------------------------------
(* Reading the menu: a REPEATABLE READ transaction of several statements *)

\* The first statement, which fixes the snapshot of all of them.
StartReading(q) ==
    /\ readers[q].phase # "reading"
    /\ readers' = [readers EXCEPT ![q] =
            [phase |-> "reading", venue |-> venue, menu |-> menu]]
    /\ UNCHANGED <<venue, menu, orders, checkouts>>

\* Fault: READ COMMITTED, where every statement has a snapshot of its own.
RowsReadFault(q) == menu

\* The rows the last statement finds.
RowsRead(q) == readers[q].menu

FinishReading(q) ==
    /\ readers[q].phase = "reading"
    /\ readers' = [readers EXCEPT ![q].phase = "done", ![q].menu = RowsRead(q)]
    /\ UNCHANGED <<venue, menu, orders, checkouts>>

-----------------------------------------------------------------------------
(* Checkout *)

\* The end of a CreateOrder: its locks are released.
Conclude(r, result) ==
    checkouts' = [checkouts EXCEPT ![r] = [New EXCEPT !.phase = "done", !.result = result]]

\* Fault: no advisory lock.
KeyFreeFault(r) == TRUE

\* pg_advisory_xact_lock on the key: no other checkout with it is running.
KeyFree(r) ==
    \A q \in Requests :
        q # r /\ Key[q] = Key[r] => checkouts[q].phase \in {"new", "done"}

\* The orders with the key of a request.
Existing(r) == {q \in Requests : Key[q] = Key[r] /\ orders[q] # NoOrder}

\* The requests have the same checkoutHash: the lines are sorted before they
\* are hashed.
SameBody(q, r) == ToSet(Cart[q]) = ToSet(Cart[r]) /\ Version[q] = Version[r]

\* The lock, and findIdempotentOrder under it.
LockKey(r) ==
    /\ checkouts[r].phase = "new"
    /\ KeyFree(r)
    /\ IF Existing(r) = {}
       THEN checkouts' = [checkouts EXCEPT ![r].phase = "keyed"]
       ELSE \E q \in Existing(r) :
                Conclude(r, IF SameBody(q, r) THEN q ELSE "key_reused")
    /\ UNCHANGED <<venue, menu, orders, readers>>

\* SELECT ... FROM venues FOR SHARE.
LockVenue(r) ==
    /\ checkouts[r].phase = "keyed"
    /\ CASE ~venue.open -> Conclude(r, "closed")
         [] venue.open /\ venue.version # Version[r] -> Conclude(r, "menu_changed")
         [] OTHER -> checkouts' = [checkouts EXCEPT ![r].phase = "locked"]
    /\ UNCHANGED <<venue, menu, orders, readers>>

Requested(r) == {Cart[r][n].item : n \in 1..Len(Cart[r])}

\* SELECT ... FROM menu_items FOR SHARE.
LoadItems(r) ==
    LET found == {i \in Requested(r) : menu[i].active /\ menu[i].available}
    IN  /\ checkouts[r].phase = "locked"
        /\ IF found = Requested(r)
           THEN checkouts' = [checkouts EXCEPT
                    ![r].phase = "priced",
                    ![r].prices = [i \in found |-> menu[i].price]]
           ELSE Conclude(r, "unavailable")
        /\ UNCHANGED <<venue, menu, orders, readers>>

Overflow == MaxAmount + 1

\* Fault: only the lines are checked and the sum is kept in a wider type.
PlusLineWideFault(total, price, quantity) ==
    IF total = Overflow \/ (price > 0 /\ quantity > MaxAmount \div price)
    THEN Overflow
    ELSE total + price * quantity

\* Fault: only the lines are checked, not their sum, which wraps.
PlusLineFault(total, price, quantity) ==
    IF total = Overflow \/ (price > 0 /\ quantity > MaxAmount \div price)
    THEN Overflow
    ELSE (total + price * quantity) % (MaxAmount + 1)

\* One turn of the loop over the items: the checks come before the product
\* and the sum, which otherwise wrap.
PlusLine(total, price, quantity) ==
    IF \/ total = Overflow
       \/ price > 0 /\ quantity > MaxAmount \div price
       \/ total > MaxAmount - price * quantity
    THEN Overflow
    ELSE total + price * quantity

ItemsAmount(r, prices) ==
    FoldLeft(LAMBDA total, line : PlusLine(total, prices[line.item], line.quantity),
             0, Cart[r])

\* The amount, the INSERTs and the commit.  A second order with the key would
\* break UNIQUE (customer_ref, idempotency_key): an internal error.
InsertOrder(r) ==
    LET amount == ItemsAmount(r, checkouts[r].prices)
    IN  /\ checkouts[r].phase = "priced"
        /\ CASE amount = Overflow -> Conclude(r, "overflow") /\ UNCHANGED orders
             [] amount < Minimum -> Conclude(r, "below_minimum") /\ UNCHANGED orders
             [] amount \in Minimum..MaxAmount /\ Existing(r) # {} ->
                    Conclude(r, "internal") /\ UNCHANGED orders
             [] OTHER ->
                    /\ orders' = [orders EXCEPT ![r] =
                            [amount |-> amount, prices |-> checkouts[r].prices]]
                    /\ Conclude(r, r)
        /\ UNCHANGED <<venue, menu, readers>>

\* The transaction is rolled back (a crash, a timeout of the database) and the
\* customer may send the request again.
Abort(r) ==
    /\ checkouts[r].phase \in {"keyed", "locked", "priced"}
    /\ checkouts' = [checkouts EXCEPT ![r] = New]
    /\ UNCHANGED <<venue, menu, orders, readers>>

-----------------------------------------------------------------------------
Next ==
    \/ \E s \in Snapshots : ReplaceMenu(s)
    \/ \E open \in BOOLEAN : UpdateAvailability(open)
    \/ \E q \in Readers : StartReading(q) \/ FinishReading(q)
    \/ \E r \in Requests :
        LockKey(r) \/ LockVenue(r) \/ LoadItems(r) \/ InsertOrder(r) \/ Abort(r)

Spec == Init /\ [][Next]_vars

-----------------------------------------------------------------------------
(* Safety *)

\* The rows shown for a version are those of the snapshot with that version.
Shows(version, rows) ==
    version # 0 =>
        \E s \in Snapshots :
            /\ s.version = version
            /\ \A i \in Items :
                /\ rows[i].active <=> s.offers[i] # Absent
                /\ rows[i].active => /\ rows[i].price = s.offers[i].price
                                     /\ rows[i].available = s.offers[i].available

\* A customer who reads the menu never sees rows of one publication under the
\* version of another, though the rows are read by several statements and
\* items come and go between publications (GetMenu, ReplaceMenu).
MenuReadWhole ==
    /\ Shows(venue.version, menu)
    /\ \A q \in Readers :
        readers[q].phase = "done" => Shows(readers[q].venue.version, readers[q].menu)

\* The prices of an order are those of the menu version it was made for, which
\* the venue compares with its own, although the menu may be replaced while
\* the checkout reads the version and the items in two statements.
OrderPricedByVersion ==
    \A r \in Requests : orders[r] # NoOrder =>
        \E s \in Snapshots :
            /\ s.version = Version[r]
            /\ \A i \in Requested(r) :
                /\ s.offers[i] # Absent
                /\ s.offers[i].available
                /\ s.offers[i].price = orders[r].prices[i]

\* The amount of an order is the exact sum of its lines: it never wrapped
\* (docs/decisions/order-state-machine.md, line 86: "без переполнения int64").
AmountExact ==
    \A r \in Requests : orders[r] # NoOrder =>
        orders[r].amount =
            FoldLeft(LAMBDA sum, line : sum + orders[r].prices[line.item] * line.quantity,
                     0, Cart[r])

\* Requests with one key that both get an order get the same one and had the
\* same body, a repeat of an order is not taken for another request, and none
\* fails only because another with its key runs at the same time (CreateOrder
\* under the advisory lock).
RetriesAgree ==
    \A q, r \in Requests : Key[q] = Key[r] =>
        /\ checkouts[r].result # "internal"
        /\ orders[q] # NoOrder /\ SameBody(q, r) => checkouts[r].result # "key_reused"
        /\ {checkouts[q].result, checkouts[r].result} \subseteq Requests =>
                checkouts[q].result = checkouts[r].result /\ SameBody(q, r)

\* A published version is for good: the number never goes back, and while it
\* stays the menu under it stays too, however late or often a PUT arrives.
VersionsGrow ==
    [][/\ venue'.version >= venue.version
       /\ venue'.version = venue.version => menu' = menu]_vars
=============================================================================
