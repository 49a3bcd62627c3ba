----------------------------- MODULE CatalogProofs -----------------------------
(***************************************************************************)
(* Proofs about Catalog, for any items, snapshots, requests, carts and     *)
(* readers, any minimum and any largest amount.                            *)
(***************************************************************************)
EXTENDS Catalog, FiniteSetTheorems, TLAPS

-----------------------------------------------------------------------------
(* The amount of an order *)

\* The turns of the two folds over the lines of a cart: that of the code, and
\* the exact sum.  a holds the cart and the prices, n is the line.
CheckedTurn(a, n, total) ==
    PlusLine(total, a.prices[a.cart[n].item], a.cart[n].quantity)
ExactTurn(a, n, sum) == sum + a.prices[a.cart[n].item] * a.cart[n].quantity

Checked == INSTANCE SetFolds WITH Base <- 0, Pick <- Max, Step <- CheckedTurn
Exact == INSTANCE SetFolds WITH Base <- 0, Pick <- Max, Step <- ExactTurn

ExactAmount(r, prices) ==
    FoldLeft(LAMBDA sum, line : sum + prices[line.item] * line.quantity, 0, Cart[r])

LEMMA SameFinite ==
    \A S : /\ IsFiniteSet(S) <=> Checked!IsFiniteSet(S)
           /\ IsFiniteSet(S) <=> Exact!IsFiniteSet(S)
  BY DEF IsFiniteSet, Checked!IsFiniteSet, Exact!IsFiniteSet

\* A non-empty finite set of numbers has a largest one: among the sets of the
\* numbers above one of them, the smallest is empty.
LEMMA MaxIn ==
    ASSUME NEW S \in SUBSET Nat, IsFiniteSet(S), S # {}
    PROVE  Max(S) \in S /\ \A k \in S : Max(S) >= k
<1> DEFINE Above(n) == {k \in S : k > n}
           F == {Above(n) : n \in S}
<1>1. PICK T \in F : \A U \in SUBSET T : U # T => U \notin F
  <2>1. F \in SUBSET (SUBSET S)
    <3>1. \A n \in S : Above(n) \subseteq S OBVIOUS
    <3> HIDE DEF Above
    <3>. QED BY <3>1
  <2>2. F # {} OBVIOUS
  <2> HIDE DEF F
  <2>. QED BY <2>1, <2>2, SameFinite, Checked!Smallest
<1>2. PICK n \in S : T = Above(n) BY <1>1
<1>3. Above(n) = {}
  <2> SUFFICES ASSUME NEW k \in Above(n) PROVE FALSE OBVIOUS
  <2>1. k \in S /\ k > n /\ k \in Nat /\ n \in Nat OBVIOUS
  <2>2. \A m \in S : m > k => m > n
    <3> SUFFICES ASSUME NEW m \in S, m > k PROVE m > n OBVIOUS
    <3>1. m \in Nat OBVIOUS
    <3>. QED BY <2>1, <3>1
  <2>2a. Above(k) \subseteq Above(n) BY <2>2
  <2>3. k \in Above(n) /\ k \notin Above(k) BY <2>1
  <2>4. Above(k) \in F BY <2>1
  <2> HIDE DEF Above, F
  <2>. QED BY <1>1, <1>2, <2>2a, <2>3, <2>4
<1>4. \A k \in S : n >= k BY <1>3
<1>. QED BY <1>4 DEF Max

LEMMA MaxInterval ==
    ASSUME NEW n \in Nat, n # 0
    PROVE  Max(1..n) = n /\ (1..n) \ {n} = 1..(n - 1)
<1>1. 1..n \in SUBSET Nat /\ IsFiniteSet(1..n) /\ n \in 1..n BY FS_Interval
<1>2. Max(1..n) \in 1..n /\ Max(1..n) >= n BY <1>1, MaxIn
<1>. QED BY <1>2

\* The two folds, turn by turn.
LEMMA FoldTurns ==
    ASSUME NEW a, NEW n \in Nat
    PROVE  /\ n = 0 => Checked!Fold(a, 1..n) = 0 /\ Exact!Fold(a, 1..n) = 0
           /\ n # 0 =>
                /\ Checked!Fold(a, 1..n) = CheckedTurn(a, n, Checked!Fold(a, 1..(n - 1)))
                /\ Exact!Fold(a, 1..n) = ExactTurn(a, n, Exact!Fold(a, 1..(n - 1)))
<1>1. IsFiniteSet(1..n) BY FS_Interval
<1>2. ASSUME NEW T \in SUBSET (1..n), T # {} PROVE Max(T) \in T
  <2>1. T \in SUBSET Nat OBVIOUS
  <2>2. IsFiniteSet(T) BY <1>1, FS_Subset
  <2>. QED BY <1>2, <2>1, <2>2, MaxIn
<1>3. Checked!Picks(1..n) /\ Exact!Picks(1..n) BY <1>2 DEF Checked!Picks, Exact!Picks
<1> DEFINE S == 1..n
<1>4. /\ S = {} => Checked!Fold(a, S) = 0 /\ Exact!Fold(a, S) = 0
      /\ S # {} =>
            /\ Checked!Fold(a, S) = CheckedTurn(a, Max(S), Checked!Fold(a, S \ {Max(S)}))
            /\ Exact!Fold(a, S) = ExactTurn(a, Max(S), Exact!Fold(a, S \ {Max(S)}))
  <2> HIDE DEF S
  <2>. QED BY <1>1, <1>3, SameFinite, Checked!FoldTurn, Exact!FoldTurn DEF S
<1>5. CASE n = 0 BY <1>4, <1>5
<1>6. CASE n # 0
  <2>1. S # {} BY <1>6
  <2>. QED BY <1>4, <1>6, <2>1, MaxInterval
<1>. QED BY <1>5, <1>6

Amounts == 0..MaxAmount

\* A turn of the loop either reports an overflow, which stays, or is exact.
LEMMA PlusLineExact ==
    ASSUME NEW total \in Amounts \cup {Overflow}, NEW price \in Amounts,
           NEW quantity \in 1..MaxAmount
    PROVE  /\ PlusLine(total, price, quantity) \in Amounts \cup {Overflow}
           /\ PlusLine(total, price, quantity) # Overflow =>
                /\ total # Overflow
                /\ PlusLine(total, price, quantity) = total + price * quantity
<1> DEFINE product == price * quantity
<1>1. product \in Nat BY AmountAssumption DEF Amounts
<1> DEFINE sum == PlusLine(total, price, quantity)
<1>2. \/ sum = Overflow
      \/ total # Overflow /\ ~(total > MaxAmount - product) /\ sum = total + product
  BY DEF PlusLine
<1> HIDE DEF product, sum
<1>3. total # Overflow /\ ~(total > MaxAmount - product) => total + product \in Amounts
  BY <1>1, AmountAssumption DEF Overflow, Amounts
<1>. QED BY <1>2, <1>3 DEF sum, product

LEMMA LineIn ==
    ASSUME NEW S, NEW seq \in Seq(S), NEW n \in 1..Len(seq) PROVE seq[n] \in S
  OBVIOUS

\* The loop over the items of a cart, at their prices: unless it overflows its
\* result is the exact sum.
LEMMA ItemsAmountExact ==
    ASSUME NEW r \in Requests, NEW prices \in [Requested(r) -> Amounts]
    PROVE  /\ ItemsAmount(r, prices) \in Amounts \cup {Overflow}
           /\ ItemsAmount(r, prices) # Overflow =>
                ItemsAmount(r, prices) = ExactAmount(r, prices)
<1> DEFINE a == [cart |-> Cart[r], prices |-> prices]
           checked(n) == Checked!Fold(a, 1..n)
           exact(n) == Exact!Fold(a, 1..n)
           len == Len(Cart[r])
           Good(n) == /\ checked(n) \in Amounts \cup {Overflow}
                      /\ checked(n) # Overflow => checked(n) = exact(n)
<1>1. Cart[r] \in Seq([item: Items, quantity: 1..MaxAmount]) BY CartAssumption
<1>2. /\ len \in Nat /\ DOMAIN Cart[r] = 1..len
      /\ \A n \in 1..len : Cart[r][n].quantity \in 1..MaxAmount
  <2>1. len \in Nat /\ DOMAIN Cart[r] = 1..len BY <1>1
  <2>2. ASSUME NEW n \in 1..len PROVE Cart[r][n] \in [item: Items, quantity: 1..MaxAmount]
    BY <1>1, <2>1, LineIn
  <2>. QED BY <2>1, <2>2
<1>3. \A n \in 1..len : prices[Cart[r][n].item] \in Amounts BY DEF Requested
<1>4. Good(0)
  BY AmountAssumption, FoldTurns DEF Amounts
<1>5. ASSUME NEW n \in 1..len, Good(n - 1) PROVE Good(n)
  <2> DEFINE total == checked(n - 1)
             price == prices[Cart[r][n].item]
             quantity == Cart[r][n].quantity
  <2>1. n \in Nat /\ n # 0 BY <1>2
  <2>2. /\ checked(n) = PlusLine(total, price, quantity)
        /\ exact(n) = exact(n - 1) + price * quantity
    BY <2>1, FoldTurns DEF CheckedTurn, ExactTurn
  <2>3. /\ total \in Amounts \cup {Overflow} /\ price \in Amounts
        /\ quantity \in 1..MaxAmount /\ (total # Overflow => total = exact(n - 1))
    BY <1>2, <1>3, <1>5
  <2> HIDE DEF total, price, quantity, checked, exact
  <2>4. LET sum == PlusLine(total, price, quantity)
        IN  /\ sum \in Amounts \cup {Overflow}
            /\ sum # Overflow => total # Overflow /\ sum = total + price * quantity
    BY <2>3, PlusLineExact
  <2>. QED BY <2>2, <2>3, <2>4
<1> HIDE DEF Good
<1>6. Good(len)
  <2> DEFINE D == {n \in 0..len : \A k \in 0..n : Good(k)}
  <2>1. D \in SUBSET Nat /\ IsFiniteSet(D)
    <3>1. IsFiniteSet(0..len) BY <1>2, FS_Interval
    <3>. QED BY <1>2, <3>1, FS_Subset
  <2>2. 0 \in D BY <1>2, <1>4
  <2> DEFINE m == Max(D)
  <2>3. m \in D /\ \A k \in D : m >= k
    <3> HIDE DEF D
    <3>. QED BY <2>1, <2>2, MaxIn
  <2> HIDE DEF m
  <2>4. CASE m = len BY <2>3, <2>4
  <2>5. CASE m # len
    <3>1. m \in 0..len /\ Good(m) /\ m + 1 \in 1..len /\ (m + 1) - 1 = m
      BY <1>2, <2>3, <2>5
    <3>2. Good(m + 1) BY <1>5, <3>1
    <3>3. m + 1 \in D
      <4>1. \A k \in 0..(m + 1) : k = m + 1 \/ k \in 0..m BY <3>1
      <4>. QED BY <2>3, <3>1, <3>2, <4>1
    <3>. QED BY <2>3, <3>1, <3>3
  <2>. QED BY <2>4, <2>5
<1>7. ItemsAmount(r, prices) = checked(len)
  BY <1>2 DEF ItemsAmount, FoldLeft, MapThenFoldSet, Checked!Fold, Checked!Folds, CheckedTurn
<1>8. ExactAmount(r, prices) = exact(len)
  BY <1>2 DEF ExactAmount, FoldLeft, MapThenFoldSet, Exact!Fold, Exact!Folds, ExactTurn
<1>. QED BY <1>6, <1>7, <1>8 DEF Good

-----------------------------------------------------------------------------
(* The inductive invariant *)

Prices == UNION {[T -> Amounts] : T \in SUBSET Items}
VenueRow == [version: Nat, snapshot: Snapshots \cup {NoMenu}, open: BOOLEAN]
Running == {"keyed", "locked", "priced"}
Checkout == [phase: {"new", "done"} \cup Running, prices: Prices,
             result: Refusals \cup Requests \cup {"none"}]
Reader == [phase: {"idle"}, venue: {<<>>}, menu: {<<>>}]
            \cup [phase: {"reading", "done"}, venue: VenueRow, menu: [Items -> Row]]

Types ==
    /\ venue \in VenueRow
    /\ menu \in [Items -> Row]
    /\ orders \in [Requests -> [amount: Amounts, prices: Prices]]
    /\ checkouts \in [Requests -> Checkout]
    /\ readers \in [Readers -> Reader]

\* The first part is what a reader or a checkout finds; a reader keeps the
\* snapshot of its first statement.
MenuShown ==
    /\ Shows(venue.version, menu)
    /\ \A q \in Readers : readers[q].phase # "idle" =>
        Shows(readers[q].venue.version, readers[q].menu)

\* The prices are those of the menu version of the request.
PricedByVersion(r, prices) ==
    /\ prices \in [Requested(r) -> Amounts]
    /\ \E s \in Snapshots :
        /\ s.version = Version[r]
        /\ \A i \in Requested(r) : /\ s.offers[i] # Absent
                                   /\ s.offers[i].available
                                   /\ s.offers[i].price = prices[i]

\* A checkout under the advisory lock is alone with its key and no order has
\* it; FOR SHARE keeps the version of the venue that it compared; and what it
\* was told speaks of an order that exists.
CheckoutSound(r) ==
    LET checkout == checkouts[r]
    IN  /\ checkout.phase = "done" <=> checkout.result # "none"
        /\ checkout.result # "internal"
        /\ checkout.phase \in Running =>
            \A q \in Requests : Key[q] = Key[r] =>
                orders[q] = NoOrder /\ (q # r => checkouts[q].phase \notin Running)
        /\ checkout.phase \in {"locked", "priced"} => venue.version = Version[r]
        /\ checkout.phase = "priced" => PricedByVersion(r, checkout.prices)
        /\ checkout.result \in Requests =>
            /\ Key[checkout.result] = Key[r] /\ orders[checkout.result] # NoOrder
            /\ SameBody(checkout.result, r)
        /\ checkout.result = "key_reused" => \E q \in Requests :
                Key[q] = Key[r] /\ orders[q] # NoOrder /\ ~SameBody(q, r)

\* An order has the prices of its version, their exact sum, and its key alone.
OrderSound(r) ==
    orders[r] # NoOrder =>
        /\ PricedByVersion(r, orders[r].prices)
        /\ orders[r].amount = ExactAmount(r, orders[r].prices)
        /\ \A q \in Requests : Key[q] = Key[r] /\ orders[q] # NoOrder => q = r

CatalogSound ==
    /\ Types
    /\ MenuShown
    /\ \A r \in Requests : CheckoutSound(r) /\ OrderSound(r)

-----------------------------------------------------------------------------
(* Types *)

LEMMA NoPrices == <<>> \in Prices
<1>1. <<>> \in [{} -> Amounts] OBVIOUS
<1>. QED BY <1>1 DEF Prices

LEMMA NewType == New \in Checkout /\ New.phase = "new" /\ New.result = "none"
  BY NoPrices DEF New, Checkout

LEMMA RequestedItems ==
    ASSUME NEW r \in Requests PROVE Requested(r) \subseteq Items /\ Requested(r) # {}
<1> DEFINE Lines == [item: Items, quantity: 1..MaxAmount]
<1>1. Cart[r] \in Seq(Lines) /\ Cart[r] # <<>> BY CartAssumption
<1>2. \A line \in Lines : line.item \in Items OBVIOUS
<1> HIDE DEF Lines
<1>3. Len(Cart[r]) \in Nat /\ Len(Cart[r]) # 0 BY <1>1
<1>4. 1 \in 1..Len(Cart[r]) BY <1>3
<1>5. \A n \in 1..Len(Cart[r]) : Cart[r][n].item \in Items BY <1>1, <1>2, LineIn
<1>. QED BY <1>4, <1>5 DEF Requested

\* An order with the prices of its items is an order.
LEMMA PricesKept ==
    ASSUME NEW r \in Requests, NEW prices, PricedByVersion(r, prices)
    PROVE  prices \in Prices /\ prices # <<>>
<1>1. prices \in [Requested(r) -> Amounts] BY DEF PricedByVersion
<1>2. DOMAIN prices # {} /\ DOMAIN <<>> = {} BY <1>1, RequestedItems
<1>. QED BY <1>1, <1>2, RequestedItems DEF Prices

LEMMA RowsOfType ==
    ASSUME Types, NEW s \in Snapshots
    PROVE  /\ RowsOf(s) \in [Items -> Row]
           /\ Shows(s.version, RowsOf(s))
<1>1. ASSUME NEW i \in Items
      PROVE  /\ RowsOf(s)[i] \in Row
             /\ RowsOf(s)[i].active <=> s.offers[i] # Absent
             /\ RowsOf(s)[i].active => /\ RowsOf(s)[i].price = s.offers[i].price
                                       /\ RowsOf(s)[i].available = s.offers[i].available
  <2>1. menu[i] \in Row BY DEF Types
  <2>2. s.offers[i] # Absent =>
            s.offers[i].price \in 0..MaxAmount /\ s.offers[i].available \in BOOLEAN
    BY SnapshotAssumption
  <2>3. CASE s.offers[i] = Absent
    <3>1. RowsOf(s)[i] = [menu[i] EXCEPT !.active = FALSE, !.available = FALSE]
      BY <2>3 DEF RowsOf
    <3>. QED BY <2>1, <2>3, <3>1 DEF Row
  <2>4. CASE s.offers[i] # Absent
    <3>1. RowsOf(s)[i] = [active |-> TRUE, available |-> s.offers[i].available,
                          price |-> s.offers[i].price]
      BY <2>4 DEF RowsOf
    <3>. QED BY <2>2, <2>4, <3>1 DEF Row
  <2>. QED BY <2>3, <2>4
<1>2. RowsOf(s) = [i \in Items |-> RowsOf(s)[i]] BY DEF RowsOf
<1>. QED BY <1>1, <1>2 DEF Shows

-----------------------------------------------------------------------------
(* The partner API and the readers *)

LEMMA ReplaceSound ==
    ASSUME CatalogSound, NEW s \in Snapshots, ReplaceMenu(s)
    PROVE  CatalogSound' /\ venue'.version > venue.version
<1>0. Types /\ MenuShown /\ venue \in VenueRow BY DEF CatalogSound, Types
<1>1. /\ venue' = [venue EXCEPT !.version = s.version, !.snapshot = s]
      /\ menu' = RowsOf(s) /\ UNCHANGED <<orders, checkouts, readers>> /\ ~Shared
  BY DEF ReplaceMenu
<1>2. s.version \in Nat \ {0} BY SnapshotAssumption
<1>3. venue'.version = s.version /\ venue' \in VenueRow
  BY <1>0, <1>1, <1>2 DEF VenueRow
<1>4. s.version > venue.version
  <2>1. Verdict(s) = "replaced" BY DEF ReplaceMenu, Newer
  <2>2. ~(s.version < venue.version) /\ s.version # venue.version
    <3>1. CASE s.version < venue.version BY <2>1, <3>1 DEF Verdict
    <3>2. CASE s.version = venue.version
      <4>1. ~(s.version < venue.version) BY <1>2, <3>2
      <4>2. CASE s = venue.snapshot BY <2>1, <3>2, <4>1, <4>2 DEF Verdict
      <4>3. CASE s # venue.snapshot BY <2>1, <3>2, <4>1, <4>3 DEF Verdict
      <4>. QED BY <4>2, <4>3
    <3>. QED BY <3>1, <3>2
  <2>3. venue.version \in Nat BY <1>0 DEF VenueRow
  <2>. QED BY <1>2, <2>2, <2>3
<1>5. Types' /\ MenuShown'
  BY <1>0, <1>1, <1>3, RowsOfType DEF Types, MenuShown
<1>6. ASSUME NEW r \in Requests PROVE CheckoutSound(r)' /\ OrderSound(r)'
  <2>1. checkouts[r].phase \notin {"locked", "priced"} BY <1>1 DEF Shared
  <2>. QED BY <1>1, <2>1 DEF CatalogSound, CheckoutSound, OrderSound
<1>. QED BY <1>3, <1>4, <1>5, <1>6 DEF CatalogSound

\* A step that keeps the versions, the orders and the checkouts.
LEMMA CheckoutFrame ==
    ASSUME CatalogSound, Types', MenuShown', venue'.version = venue.version,
           UNCHANGED <<orders, checkouts>>
    PROVE  CatalogSound'
<1>1. ASSUME NEW r \in Requests PROVE CheckoutSound(r)' /\ OrderSound(r)'
  BY DEF CatalogSound, CheckoutSound, OrderSound
<1>. QED BY <1>1 DEF CatalogSound

LEMMA AvailabilitySound ==
    ASSUME CatalogSound, NEW open \in BOOLEAN, UpdateAvailability(open)
    PROVE  CatalogSound'
<1>0. Types /\ MenuShown /\ venue \in VenueRow BY DEF CatalogSound, Types
<1>1. venue' = [venue EXCEPT !.open = open] /\ UNCHANGED <<menu, orders, checkouts, readers>>
  BY DEF UpdateAvailability
<1>2. venue' \in VenueRow /\ venue'.version = venue.version
  BY <1>0, <1>1 DEF VenueRow
<1>3. Types' /\ MenuShown' BY <1>0, <1>1, <1>2 DEF Types, MenuShown
<1>. QED BY <1>1, <1>2, <1>3, CheckoutFrame

LEMMA ReaderSound ==
    ASSUME CatalogSound, NEW q \in Readers, StartReading(q) \/ FinishReading(q)
    PROVE  CatalogSound'
<1>0. Types /\ MenuShown /\ readers[q] \in Reader BY DEF CatalogSound, Types
<1>1. UNCHANGED <<venue, menu, orders, checkouts>> BY DEF StartReading, FinishReading
<1>2. PICK reader \in Reader :
        /\ readers' = [readers EXCEPT ![q] = reader]
        /\ Shows(reader.venue.version, reader.menu)
  <2>1. CASE StartReading(q)
    <3> DEFINE reader == [phase |-> "reading", venue |-> venue, menu |-> menu]
    <3>1. reader \in Reader BY <1>0 DEF Reader, Types
    <3>2. readers' = [readers EXCEPT ![q] = reader] BY <2>1 DEF StartReading
    <3>. QED BY <1>0, <3>1, <3>2 DEF MenuShown
  <2>2. CASE FinishReading(q)
    <3> DEFINE reader == [readers[q] EXCEPT !.phase = "done", !.menu = readers[q].menu]
    <3>1. readers[q].phase = "reading" BY <2>2 DEF FinishReading
    <3>2. reader \in Reader /\ reader.venue = readers[q].venue
          /\ reader.menu = readers[q].menu
      BY <1>0, <3>1 DEF Reader
    <3>3. readers' = [readers EXCEPT ![q] = reader]
      BY <1>0, <2>2 DEF FinishReading, RowsRead, Types
    <3>4. Shows(readers[q].venue.version, readers[q].menu) BY <1>0, <3>1 DEF MenuShown
    <3> HIDE DEF reader
    <3>. QED BY <3>2, <3>3, <3>4
  <2>. QED BY <2>1, <2>2
<1>3. Types' BY <1>0, <1>1, <1>2 DEF Types
<1>4. MenuShown'
  <2>1. \A p \in Readers : readers'[p] = IF p = q THEN reader ELSE readers[p]
    BY <1>0, <1>2 DEF Types
  <2>. QED BY <1>0, <1>1, <1>2, <2>1 DEF MenuShown
<1>. QED BY <1>1, <1>3, <1>4, CheckoutFrame

-----------------------------------------------------------------------------
(* Checkout *)

\* A step of one checkout that touches nothing else.  To be running it must
\* have been running before, or find no other checkout with its key.
LEMMA CheckoutStep ==
    ASSUME CatalogSound, NEW r \in Requests, NEW checkout \in Checkout,
           UNCHANGED <<venue, menu, orders, readers>>,
           checkouts' = [checkouts EXCEPT ![r] = checkout],
           CheckoutSound(r)'
    PROVE  CatalogSound'
<1>0. Types /\ MenuShown BY DEF CatalogSound
<1>1. Types' /\ MenuShown' BY <1>0 DEF Types, MenuShown
<1>2. checkouts'[r] = checkout /\ \A q \in Requests \ {r} : checkouts'[q] = checkouts[q]
  BY <1>0 DEF Types
<1>3. ASSUME NEW q \in Requests PROVE CheckoutSound(q)'
  <2>1. CASE q = r BY <2>1
  <2>2. CASE q # r
    <3>1. CheckoutSound(q) /\ checkouts'[q] = checkouts[q] BY <1>2, <2>2 DEF CatalogSound
    <3>2. ASSUME NEW p \in Requests, Key[p] = Key[q], p # q,
                 checkouts[q].phase \in Running
          PROVE  checkouts'[p].phase \notin Running
      <4>1. CASE p = r
        <5>1. checkouts'[r].phase \in Running => checkouts'[q].phase \notin Running
          BY <2>2, <3>2, <4>1 DEF CheckoutSound
        <5>. QED BY <3>1, <3>2, <4>1, <5>1
      <4>2. CASE p # r BY <1>2, <3>1, <3>2, <4>2 DEF CheckoutSound
      <4>. QED BY <4>1, <4>2
    <3>. QED BY <3>1, <3>2 DEF CheckoutSound
  <2>. QED BY <2>1, <2>2
<1>4. \A q \in Requests : OrderSound(q)' BY DEF CatalogSound, OrderSound
<1>. QED BY <1>1, <1>3, <1>4 DEF CatalogSound

\* A checkout that ends, with an order or a refusal that its result tells truly.
LEMMA ConcludeSound ==
    ASSUME CatalogSound, NEW r \in Requests, NEW result \in Refusals \cup Requests,
           UNCHANGED <<venue, menu, orders, readers>>, Conclude(r, result),
           result # "internal",
           result \in Requests =>
                Key[result] = Key[r] /\ orders[result] # NoOrder /\ SameBody(result, r),
           result = "key_reused" => \E q \in Requests :
                Key[q] = Key[r] /\ orders[q] # NoOrder /\ ~SameBody(q, r)
    PROVE  CatalogSound'
<1> DEFINE checkout == [New EXCEPT !.phase = "done", !.result = result]
<1>1. checkout \in Checkout /\ checkout.phase = "done" /\ checkout.result = result
  BY NewType DEF New, Checkout
<1>2. checkouts' = [checkouts EXCEPT ![r] = checkout] BY DEF Conclude
<1> HIDE DEF checkout
<1>3. checkouts'[r] = checkout BY <1>2 DEF CatalogSound, Types
<1>4. result # "none" BY RequestAssumption DEF Refusals
<1>5. CheckoutSound(r)'
  BY <1>1, <1>3, <1>4 DEF CheckoutSound, Running
<1>. QED BY <1>1, <1>2, <1>5, CheckoutStep

LEMMA LockKeySound ==
    ASSUME CatalogSound, NEW r \in Requests, LockKey(r)
    PROVE  CatalogSound'
<1>0. Types /\ checkouts[r] \in Checkout BY DEF CatalogSound, Types
<1>1. UNCHANGED <<venue, menu, orders, readers>> /\ checkouts[r].phase = "new"
      /\ KeyFree(r)
  BY DEF LockKey
<1>2. CASE Existing(r) = {}
  <2> DEFINE checkout == [checkouts[r] EXCEPT !.phase = "keyed"]
  <2>1. checkout \in Checkout /\ checkout.phase = "keyed"
        /\ checkout.result = checkouts[r].result
    BY <1>0 DEF Checkout, Running
  <2>2. checkouts' = [checkouts EXCEPT ![r] = checkout]
    BY <1>0, <1>2 DEF LockKey, Types
  <2> HIDE DEF checkout
  <2>3. checkouts'[r] = checkout /\ \A q \in Requests \ {r} : checkouts'[q] = checkouts[q]
    BY <1>0, <2>2 DEF Types
  <2>4. ASSUME NEW q \in Requests, Key[q] = Key[r]
        PROVE  orders[q] = NoOrder /\ (q # r => checkouts'[q].phase \notin Running)
    BY <1>1, <1>2, <2>3, <2>4 DEF Existing, KeyFree, Running
  <2>5. CheckoutSound(r) BY DEF CatalogSound
  <2>6. checkout.result = "none" BY <1>1, <2>1, <2>5 DEF CheckoutSound
  <2>7. CheckoutSound(r)'
    BY <1>1, <2>1, <2>3, <2>4, <2>6, RequestAssumption DEF CheckoutSound
  <2>. QED BY <1>1, <2>1, <2>2, <2>7, CheckoutStep
<1>3. CASE Existing(r) # {}
  <2>1. PICK q \in Existing(r) : Conclude(r, IF SameBody(q, r) THEN q ELSE "key_reused")
    BY <1>3 DEF LockKey
  <2>2. q \in Requests /\ Key[q] = Key[r] /\ orders[q] # NoOrder BY DEF Existing
  <2>3. CASE SameBody(q, r)
    <3>1. Conclude(r, q) BY <2>1, <2>3
    <3>2. q \notin Refusals BY <2>2, RequestAssumption
    <3>3. q # "internal" /\ q # "key_reused" BY <3>2 DEF Refusals
    <3>. QED BY <1>1, <2>2, <2>3, <3>1, <3>3, ConcludeSound
  <2>4. CASE ~SameBody(q, r)
    <3>1. Conclude(r, "key_reused") /\ "key_reused" \in Refusals BY <2>1, <2>4 DEF Refusals
    <3>2. "key_reused" \notin Requests BY <3>1, RequestAssumption
    <3>. QED BY <1>1, <2>2, <2>4, <3>1, <3>2, ConcludeSound
  <2>. QED BY <2>3, <2>4
<1>. QED BY <1>2, <1>3

\* A refusal that says nothing of other requests.
LEMMA RefuseSound ==
    ASSUME CatalogSound, NEW r \in Requests,
           UNCHANGED <<venue, menu, orders, readers>>,
           NEW refusal \in {"closed", "menu_changed", "unavailable", "overflow",
                            "below_minimum"},
           Conclude(r, refusal)
    PROVE  CatalogSound'
<1>1. refusal \in Refusals /\ refusal # "internal" /\ refusal # "key_reused"
  BY DEF Refusals
<1>2. refusal \notin Requests BY <1>1, RequestAssumption
<1>. QED BY <1>1, <1>2, ConcludeSound

\* A running checkout that goes on keeps its key for itself.
LEMMA GoOnSound ==
    ASSUME CatalogSound, NEW r \in Requests, NEW checkout \in Checkout,
           UNCHANGED <<venue, menu, orders, readers>>,
           checkouts' = [checkouts EXCEPT ![r] = checkout],
           checkouts[r].phase \in Running, checkout.phase \in Running,
           checkout.result = checkouts[r].result,
           checkout.phase \in {"locked", "priced"} => venue.version = Version[r],
           checkout.phase = "priced" => PricedByVersion(r, checkout.prices)
    PROVE  CatalogSound'
<1>0. Types /\ CheckoutSound(r) BY DEF CatalogSound
<1>1. checkouts'[r] = checkout /\ \A q \in Requests \ {r} : checkouts'[q] = checkouts[q]
  BY <1>0 DEF Types
<1>2. checkout.result = "none" BY <1>0 DEF CheckoutSound, Running
<1>3. ASSUME NEW q \in Requests, Key[q] = Key[r]
      PROVE  orders[q] = NoOrder /\ (q # r => checkouts'[q].phase \notin Running)
  BY <1>0, <1>1, <1>3 DEF CheckoutSound
<1>4. CheckoutSound(r)'
  BY <1>1, <1>2, <1>3, RequestAssumption DEF CheckoutSound, Running
<1>. QED BY <1>4, CheckoutStep

LEMMA LockVenueSound ==
    ASSUME CatalogSound, NEW r \in Requests, LockVenue(r)
    PROVE  CatalogSound'
<1>0. Types /\ checkouts[r] \in Checkout BY DEF CatalogSound, Types
<1>1. /\ UNCHANGED <<venue, menu, orders, readers>> /\ checkouts[r].phase = "keyed"
      /\ venue.open \in BOOLEAN
  BY <1>0 DEF LockVenue, Types, VenueRow
<1>2. CASE ~venue.open
  <2>1. Conclude(r, "closed") BY <1>2 DEF LockVenue
  <2>. QED BY <1>1, <2>1, RefuseSound
<1>3. CASE venue.open /\ venue.version # Version[r]
  <2>1. Conclude(r, "menu_changed") BY <1>3 DEF LockVenue
  <2>. QED BY <1>1, <2>1, RefuseSound
<1>4. CASE venue.open /\ venue.version = Version[r]
  <2> DEFINE checkout == [checkouts[r] EXCEPT !.phase = "locked"]
  <2>1. checkout \in Checkout /\ checkout.phase = "locked"
        /\ checkout.result = checkouts[r].result
    BY <1>0 DEF Checkout, Running
  <2>2. checkouts' = [checkouts EXCEPT ![r].phase = "locked"] BY <1>4 DEF LockVenue
  <2>3. checkouts' = [checkouts EXCEPT ![r] = checkout] BY <1>0, <2>2 DEF Types
  <2> HIDE DEF checkout
  <2>. QED BY <1>1, <1>4, <2>1, <2>3, GoOnSound DEF Running
<1>. QED BY <1>1, <1>2, <1>3, <1>4

LEMMA LoadItemsSound ==
    ASSUME CatalogSound, NEW r \in Requests, LoadItems(r)
    PROVE  CatalogSound'
<1> DEFINE found == {i \in Requested(r) : menu[i].active /\ menu[i].available}
           prices == [i \in found |-> menu[i].price]
<1>0. /\ Types /\ checkouts[r] \in Checkout /\ CheckoutSound(r)
      /\ Shows(venue.version, menu)
  BY DEF CatalogSound, Types, MenuShown
<1>1. UNCHANGED <<venue, menu, orders, readers>> /\ checkouts[r].phase = "locked"
  BY DEF LoadItems
<1>2. CASE found # Requested(r)
  <2>1. Conclude(r, "unavailable") BY <1>2 DEF LoadItems
  <2>. QED BY <1>1, <2>1, RefuseSound
<1>3. CASE found = Requested(r)
  <2> DEFINE checkout == [checkouts[r] EXCEPT !.phase = "priced", !.prices = prices]
  <2>1. venue.version = Version[r] /\ venue.version # 0
    BY <1>0, <1>1, CartAssumption DEF CheckoutSound
  <2>2. PricedByVersion(r, prices)
    <3>1. PICK s \in Snapshots :
            /\ s.version = venue.version
            /\ \A i \in Items :
                /\ menu[i].active <=> s.offers[i] # Absent
                /\ menu[i].active => /\ menu[i].price = s.offers[i].price
                                     /\ menu[i].available = s.offers[i].available
      BY <1>0, <2>1 DEF Shows
    <3>2. ASSUME NEW i \in Requested(r)
          PROVE  /\ prices[i] = menu[i].price /\ prices[i] \in Amounts
                 /\ menu[i].active /\ menu[i].available /\ i \in Items
      BY <1>0, <1>3, <3>2, RequestedItems DEF Types, Row, Amounts
    <3>3. prices \in [Requested(r) -> Amounts] BY <1>3, <3>2
    <3> HIDE DEF prices, found
    <3>. QED BY <2>1, <3>1, <3>2, <3>3 DEF PricedByVersion
  <2>3. checkouts' = [checkouts EXCEPT ![r] = checkout]
    BY <1>0, <1>3 DEF LoadItems, Types, Checkout
  <2> HIDE DEF prices
  <2>4. prices \in Prices BY <2>2, PricesKept
  <2>5. checkout \in Checkout /\ checkout.phase = "priced"
        /\ checkout.result = checkouts[r].result /\ checkout.prices = prices
    BY <1>0, <2>4 DEF Checkout, Running
  <2> HIDE DEF checkout
  <2>. QED BY <1>1, <2>1, <2>2, <2>3, <2>5, GoOnSound DEF Running
<1>. QED BY <1>2, <1>3

LEMMA AbortSound ==
    ASSUME CatalogSound, NEW r \in Requests, Abort(r)
    PROVE  CatalogSound'
<1>1. UNCHANGED <<venue, menu, orders, readers>>
      /\ checkouts' = [checkouts EXCEPT ![r] = New]
  BY DEF Abort
<1>2. checkouts'[r] = New BY <1>1 DEF CatalogSound, Types
<1>3. CheckoutSound(r)'
  BY <1>2, NewType, RequestAssumption DEF CheckoutSound, Running
<1>. QED BY <1>1, <1>3, NewType, CheckoutStep

\* The order that a checkout inserts.
LEMMA PlaceSound ==
    ASSUME CatalogSound, NEW r \in Requests, checkouts[r].phase = "priced",
           NEW amount \in Amounts,
           amount = ExactAmount(r, checkouts[r].prices),
           orders' = [orders EXCEPT ![r] =
                        [amount |-> amount, prices |-> checkouts[r].prices]],
           Conclude(r, r), UNCHANGED <<venue, menu, readers>>
    PROVE  CatalogSound'
<1> DEFINE order == [amount |-> amount, prices |-> checkouts[r].prices]
           checkout == [New EXCEPT !.phase = "done", !.result = r]
<1>0. Types /\ MenuShown /\ CheckoutSound(r) BY DEF CatalogSound
<1>1. PricedByVersion(r, order.prices) /\ order.prices = checkouts[r].prices
  BY <1>0 DEF CheckoutSound
<1>2. /\ order \in [amount: Amounts, prices: Prices] /\ order # NoOrder
      /\ order.amount = ExactAmount(r, order.prices)
  <2>1. order.prices \in Prices /\ order.prices # <<>> BY <1>1, PricesKept
  <2>. QED BY <2>1 DEF NoOrder
<1>3. checkout \in Checkout /\ checkout.phase = "done" /\ checkout.result = r
  BY NewType DEF New, Checkout
<1>4. checkouts' = [checkouts EXCEPT ![r] = checkout] BY DEF Conclude
<1>5. orders' = [orders EXCEPT ![r] = order] OBVIOUS
<1> HIDE DEF order, checkout
<1>6. /\ checkouts'[r] = checkout /\ orders'[r] = order
      /\ \A q \in Requests \ {r} : checkouts'[q] = checkouts[q] /\ orders'[q] = orders[q]
  BY <1>0, <1>4, <1>5 DEF Types
<1>7. Types' /\ MenuShown' BY <1>0, <1>2, <1>3, <1>4, <1>5 DEF Types, MenuShown
<1>8. ASSUME NEW q \in Requests, Key[q] = Key[r], q # r
      PROVE  checkouts[q].phase \notin Running /\ orders[q] = NoOrder
  BY <1>0, <1>8 DEF CheckoutSound, Running
<1>9. \A q \in Requests : orders[q] # NoOrder => orders'[q] = orders[q] /\ q # r
  BY <1>0, <1>6 DEF CheckoutSound, Running
<1>10. ASSUME NEW q \in Requests PROVE CheckoutSound(q)'
  <2>1. CASE q = r
    <3>1. r # "none" /\ r # "internal" /\ r # "key_reused"
      BY RequestAssumption DEF Refusals
    <3>. QED BY <1>2, <1>3, <1>6, <2>1, <3>1 DEF CheckoutSound, Running, SameBody
  <2>2. CASE q # r
    <3>1. CheckoutSound(q) /\ checkouts'[q] = checkouts[q] BY <1>6, <2>2 DEF CatalogSound
    <3>2. ASSUME checkouts[q].phase \in Running, NEW p \in Requests, Key[p] = Key[q]
          PROVE  orders'[p] = NoOrder /\ (p # q => checkouts'[p].phase \notin Running)
      <4>1. p # r BY <1>8, <2>2, <3>2
      <4>. QED BY <1>6, <3>1, <3>2, <4>1 DEF CheckoutSound
    <3>3. checkouts[q].result \in Requests =>
            /\ Key[checkouts[q].result] = Key[q]
            /\ orders'[checkouts[q].result] # NoOrder
            /\ SameBody(checkouts[q].result, q)
      BY <1>9, <3>1 DEF CheckoutSound
    <3>4. checkouts[q].result = "key_reused" => \E p \in Requests :
            Key[p] = Key[q] /\ orders'[p] # NoOrder /\ ~SameBody(p, q)
      BY <1>9, <3>1 DEF CheckoutSound
    <3>. QED BY <3>1, <3>2, <3>3, <3>4 DEF CheckoutSound
  <2>. QED BY <2>1, <2>2
<1>11. ASSUME NEW q \in Requests PROVE OrderSound(q)'
  <2>1. CASE q = r BY <1>1, <1>2, <1>6, <1>8, <2>1 DEF OrderSound
  <2>2. CASE q # r
    <3>1. OrderSound(q) /\ orders'[q] = orders[q] BY <1>6, <2>2 DEF CatalogSound
    <3>2. ASSUME orders[q] # NoOrder, NEW p \in Requests, Key[p] = Key[q],
                 orders'[p] # NoOrder
          PROVE  p = q
      <4>1. p # r BY <1>8, <2>2, <3>2
      <4>. QED BY <1>6, <3>1, <3>2, <4>1 DEF OrderSound
    <3>. QED BY <3>1, <3>2 DEF OrderSound
  <2>. QED BY <2>1, <2>2
<1>. QED BY <1>7, <1>10, <1>11 DEF CatalogSound

LEMMA InsertSound ==
    ASSUME CatalogSound, NEW r \in Requests, InsertOrder(r)
    PROVE  CatalogSound'
<1> DEFINE amount == ItemsAmount(r, checkouts[r].prices)
<1>0. CheckoutSound(r) /\ checkouts[r].phase = "priced"
      /\ UNCHANGED <<venue, menu, readers>>
  BY DEF CatalogSound, InsertOrder
<1>1. checkouts[r].prices \in [Requested(r) -> Amounts]
  BY <1>0 DEF CheckoutSound, PricedByVersion
<1>2. /\ amount \in Amounts \cup {Overflow}
      /\ amount # Overflow => amount = ExactAmount(r, checkouts[r].prices)
  BY <1>1, ItemsAmountExact
<1>3. Existing(r) = {} BY <1>0 DEF CheckoutSound, Existing, Running
<1>4. \/ Conclude(r, "overflow") /\ UNCHANGED orders
      \/ Conclude(r, "below_minimum") /\ UNCHANGED orders
      \/ /\ amount # Overflow
         /\ orders' = [orders EXCEPT ![r] =
                        [amount |-> amount, prices |-> checkouts[r].prices]]
         /\ Conclude(r, r)
  <2> DEFINE Small == amount < Minimum
             Taken == amount \in Minimum..MaxAmount /\ Existing(r) # {}
             Placed == /\ orders' = [orders EXCEPT ![r] =
                            [amount |-> amount, prices |-> checkouts[r].prices]]
                       /\ Conclude(r, r)
  <2>1. (CASE amount = Overflow -> Conclude(r, "overflow") /\ UNCHANGED orders
          [] Small -> Conclude(r, "below_minimum") /\ UNCHANGED orders
          [] Taken -> Conclude(r, "internal") /\ UNCHANGED orders
          [] OTHER -> Placed)
    BY DEF InsertOrder
  <2>2. ~Taken /\ ~(amount = Overflow /\ Small)
    BY <1>3, AmountAssumption DEF Overflow
  <2> HIDE DEF amount, Small, Taken
  <2>3. CASE amount = Overflow BY <2>1, <2>2, <2>3
  <2>4. CASE amount # Overflow /\ Small BY <2>1, <2>2, <2>4
  <2>5. CASE amount # Overflow /\ ~Small BY <2>1, <2>2, <2>5
  <2>. QED BY <2>3, <2>4, <2>5
<1> HIDE DEF amount
<1>5. amount # Overflow => amount \in Amounts BY <1>2
<1>. QED BY <1>0, <1>2, <1>4, <1>5, RefuseSound, PlaceSound

-----------------------------------------------------------------------------
(* The theorems *)

LEMMA CatalogInit == Init => CatalogSound
<1> SUFFICES ASSUME Init PROVE CatalogSound OBVIOUS
<1>1. Types
  BY NewType, NoPrices, AmountAssumption
  DEF Init, Types, VenueRow, NoRow, Row, NoOrder, Amounts, NotReading, Reader
<1>2. MenuShown BY DEF Init, MenuShown, Shows, NotReading
<1>3. ASSUME NEW r \in Requests PROVE CheckoutSound(r) /\ OrderSound(r)
  <2>1. checkouts[r] = New /\ orders[r] = NoOrder BY DEF Init
  <2>. QED BY <2>1, NewType, RequestAssumption DEF CheckoutSound, OrderSound, Running
<1>. QED BY <1>1, <1>2, <1>3 DEF CatalogSound

LEMMA CatalogNext ==
    ASSUME CatalogSound, [Next]_vars
    PROVE  CatalogSound'
<1>1. CASE UNCHANGED vars
  BY <1>1 DEF vars, CatalogSound, Types, MenuShown, CheckoutSound, OrderSound
<1>2. CASE \E s \in Snapshots : ReplaceMenu(s) BY <1>2, ReplaceSound
<1>3. CASE \E open \in BOOLEAN : UpdateAvailability(open) BY <1>3, AvailabilitySound
<1>4. CASE \E q \in Readers : StartReading(q) \/ FinishReading(q) BY <1>4, ReaderSound
<1>5. ASSUME NEW r \in Requests,
             LockKey(r) \/ LockVenue(r) \/ LoadItems(r) \/ InsertOrder(r) \/ Abort(r)
      PROVE  CatalogSound'
  BY <1>5, LockKeySound, LockVenueSound, LoadItemsSound, InsertSound, AbortSound
<1>. QED BY <1>1, <1>2, <1>3, <1>4, <1>5 DEF Next

LEMMA Soundness == Spec => []CatalogSound
<1>1. CatalogSound /\ [Next]_vars => CatalogSound' BY CatalogNext
<1>. QED BY <1>1, CatalogInit, PTL DEF Spec

\* The tables of the platform's menu, and what CreateOrder and GetMenu keep in
\* their transactions, have their types: no amount leaves the range of int64.
THEOREM TypeCorrect == Spec => []TypeOK
<1>1. CatalogSound => TypeOK
  <2> SUFFICES ASSUME CatalogSound PROVE TypeOK OBVIOUS
  <2>1. Types BY DEF CatalogSound
  <2>2. ASSUME NEW r \in Requests
        PROVE  /\ orders[r].amount \in 0..MaxAmount
               /\ DOMAIN orders[r].prices \subseteq Items
               /\ checkouts[r].phase \in {"new", "keyed", "locked", "priced", "done"}
               /\ checkouts[r].phase = "done"
                        <=> checkouts[r].result \in Refusals \cup Requests
    <3>1. orders[r].amount \in 0..MaxAmount /\ orders[r].prices \in Prices
      BY <2>1 DEF Types, Amounts
    <3>2. DOMAIN orders[r].prices \subseteq Items BY <3>1 DEF Prices
    <3>3. checkouts[r] \in Checkout /\ CheckoutSound(r) BY <2>1 DEF Types, CatalogSound
    <3>4. "none" \notin Refusals \cup Requests BY RequestAssumption DEF Refusals
    <3>. QED BY <3>1, <3>2, <3>3, <3>4 DEF Checkout, Running, CheckoutSound
  <2>3. \A q \in Readers : readers[q].phase \in {"idle", "reading", "done"}
    BY <2>1 DEF Types, Reader
  <2>. QED BY <2>1, <2>2, <2>3 DEF TypeOK, Types, VenueRow
<1>. QED BY <1>1, Soundness, PTL

\* GetMenu never shows rows of one publication under the version of another.
THEOREM NobodyReadsHalfAMenu == Spec => []MenuReadWhole
<1>1. CatalogSound => MenuReadWhole BY DEF CatalogSound, MenuShown, MenuReadWhole
<1>. QED BY <1>1, Soundness, PTL

\* CreateOrder takes the prices of the version the request names, whatever
\* ReplaceMenu does between its two SELECT ... FOR SHARE.
THEOREM PricesOfTheVersion == Spec => []OrderPricedByVersion
<1>1. CatalogSound => OrderPricedByVersion
  BY DEF CatalogSound, OrderSound, PricedByVersion, OrderPricedByVersion
<1>. QED BY <1>1, Soundness, PTL

\* The amount that CreateOrder computes is the exact sum of the lines, for carts
\* of any length.
THEOREM AmountsExact == Spec => []AmountExact
<1>1. CatalogSound => AmountExact
  BY DEF CatalogSound, OrderSound, AmountExact, ExactAmount
<1>. QED BY <1>1, Soundness, PTL

\* All that the advisory lock of CreateOrder promises: one order for a key, and
\* a repeated request gets it.
THEOREM OneOrderPerKey == Spec => []RetriesAgree
<1>1. CatalogSound => RetriesAgree
  <2> SUFFICES ASSUME CatalogSound, NEW q \in Requests, NEW r \in Requests,
                      Key[q] = Key[r]
               PROVE  /\ checkouts[r].result # "internal"
                      /\ orders[q] # NoOrder /\ SameBody(q, r)
                            => checkouts[r].result # "key_reused"
                      /\ {checkouts[q].result, checkouts[r].result} \subseteq Requests =>
                            checkouts[q].result = checkouts[r].result /\ SameBody(q, r)
    BY DEF RetriesAgree
  <2>0. CheckoutSound(q) /\ CheckoutSound(r)
        /\ \A p \in Requests : OrderSound(p)
    BY DEF CatalogSound
  <2>1. checkouts[r].result # "internal" BY <2>0 DEF CheckoutSound
  <2>2. ASSUME orders[q] # NoOrder, SameBody(q, r), checkouts[r].result = "key_reused"
        PROVE  FALSE
    <3>1. PICK p \in Requests : Key[p] = Key[r] /\ orders[p] # NoOrder /\ ~SameBody(p, r)
      BY <2>0, <2>2 DEF CheckoutSound
    <3>2. p = q BY <2>0, <2>2, <3>1 DEF OrderSound
    <3>. QED BY <2>2, <3>1, <3>2
  <2>3. ASSUME checkouts[q].result \in Requests, checkouts[r].result \in Requests
        PROVE  checkouts[q].result = checkouts[r].result /\ SameBody(q, r)
    <3> DEFINE a == checkouts[q].result
               b == checkouts[r].result
    <3>1. /\ Key[a] = Key[q] /\ orders[a] # NoOrder /\ SameBody(a, q)
          /\ Key[b] = Key[r] /\ orders[b] # NoOrder /\ SameBody(b, r)
      BY <2>0, <2>3 DEF CheckoutSound
    <3> HIDE DEF a, b
    <3>2. a = b BY <2>0, <2>3, <3>1 DEF OrderSound, a, b
    <3>3. SameBody(q, r) BY <3>1, <3>2 DEF SameBody
    <3>. QED BY <3>2, <3>3 DEF a, b
  <2>. QED BY <2>1, <2>2, <2>3
<1>. QED BY <1>1, Soundness, PTL

\* ReplaceMenu never goes back to an older version, and what stands under a
\* version stays.
THEOREM VersionsOnlyGrow == Spec => VersionsGrow
<1> DEFINE Grows == /\ venue'.version >= venue.version
                    /\ venue'.version = venue.version => menu' = menu
<1>1. CatalogSound /\ [Next]_vars => [Grows]_vars
  <2> SUFFICES ASSUME CatalogSound, Next PROVE Grows OBVIOUS
  <2>0. venue.version \in Nat BY DEF CatalogSound, Types, VenueRow
  <2>1. ASSUME NEW s \in Snapshots, ReplaceMenu(s) PROVE Grows
    <3>1. venue'.version > venue.version BY <2>1, ReplaceSound
    <3>2. venue'.version \in Nat
      BY <2>1, ReplaceSound DEF CatalogSound, Types, VenueRow
    <3>. QED BY <2>0, <3>1, <3>2
  <2>2. ASSUME venue'.version = venue.version, menu' = menu PROVE Grows BY <2>0, <2>2
  <2>3. ASSUME NEW open \in BOOLEAN, UpdateAvailability(open) PROVE Grows
    BY <2>2, <2>3 DEF UpdateAvailability, CatalogSound, Types, VenueRow
  <2>4. ASSUME NEW q \in Readers, StartReading(q) \/ FinishReading(q) PROVE Grows
    BY <2>2, <2>4 DEF StartReading, FinishReading
  <2>5. ASSUME NEW r \in Requests,
               LockKey(r) \/ LockVenue(r) \/ LoadItems(r) \/ InsertOrder(r) \/ Abort(r)
        PROVE  Grows
    BY <2>2, <2>5 DEF LockKey, LockVenue, LoadItems, InsertOrder, Abort
  <2>. QED BY <2>1, <2>3, <2>4, <2>5 DEF Next
<1>2. [][Grows]_vars => VersionsGrow BY DEF VersionsGrow
<1>. QED BY <1>1, <1>2, Soundness, PTL DEF Spec
=============================================================================
