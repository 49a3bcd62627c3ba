------------------------ MODULE VenueTransactionsProofs ------------------------
(***************************************************************************)
(* Proofs about VenueTransactions, for any orders, items, requests and     *)
(* size of the pool: the transactions of the venue are atomic, decisions   *)
(* do not deadlock, and answers are the stored ones.                       *)
(***************************************************************************)
EXTENDS VenueTransactions, FiniteSetTheorems, WellFoundedInduction, TLAPS

\* The tables once more, with the theorems about the venue of single steps.
VP == INSTANCE VenueOrdersProofs WITH senders <- <<>>, Senders <- {}, NoSender <- 0

-----------------------------------------------------------------------------
(* The tables *)

\* VP and V instantiate the same definitions.
LEMMA VenueSame ==
    /\ V!Init => VP!Init
    /\ V!TypeOK <=> VP!TypeOK
    /\ V!Next <=> VP!Next
    /\ UNCHANGED V!vars <=> UNCHANGED VP!vars
  BY DEF V!vars, V!Reasons, V!VenueOrder, V!NoVenueOrder, V!EventTypes,
     V!Callbacks, V!Callback, V!NoCallback, V!Idle, V!Sending, V!TypeOK,
     V!Init, V!Lacking, V!Judge, V!Reserved, V!DecideOrder, V!Released,
     V!Enqueue, V!Transition, V!StartPreparing, V!MarkReady, V!Complete,
     V!Undecided, V!Cancellable, V!CancelAccepted, V!RefuseCancellation,
     V!CancelOrder, V!NextInLine, V!ClaimCallback, V!HoldsLease, V!Finish,
     V!CompleteCallback, V!RetryCallback, V!LoseCallback, V!LeaseExpires,
     V!BackoffElapses, V!Next, VP!vars, VP!Reasons, VP!VenueOrder,
     VP!NoVenueOrder, VP!EventTypes, VP!Callbacks, VP!Callback, VP!NoCallback,
     VP!Idle, VP!Sending, VP!TypeOK, VP!Init, VP!Lacking, VP!Judge,
     VP!Reserved, VP!DecideOrder, VP!Released, VP!Enqueue, VP!Transition,
     VP!StartPreparing, VP!MarkReady, VP!Complete, VP!Undecided,
     VP!Cancellable, VP!CancelAccepted, VP!RefuseCancellation, VP!CancelOrder,
     VP!NextInLine, VP!ClaimCallback, VP!HoldsLease, VP!Finish,
     VP!CompleteCallback, VP!RetryCallback, VP!LoseCallback, VP!LeaseExpires,
     VP!BackoffElapses, VP!Next

LEMMA Assumptions == VP!SendersAssumption /\ VP!QuantityAssumption /\ VP!SupplyAssumption
  BY TablesAssumption DEF VP!SendersAssumption, VP!QuantityAssumption, VP!SupplyAssumption

-----------------------------------------------------------------------------
(* The inductive invariant *)

PhasesOf(op) ==
    {"queued", "ended"} \cup
    CASE op = "decide" -> {"key", "settings", "items", "judge", "commit"}
      [] op = "cancel" -> {"row", "items", "commit"}
      [] op = "start-preparing" -> {"row", "commit"}
      [] op = "list" -> {"rows", "loading"}

LocksOf(r) ==
    CASE Op[r] = "decide" -> {Key(Order(r)), Settings} \cup {Stock(i) : i \in Items}
      [] Op[r] = "cancel" -> {Row(Order(r))} \cup {Stock(i) : i \in Items}
      [] Op[r] = "start-preparing" -> {Row(Order(r))}
      [] Op[r] = "list" -> {}

\* A request holds the locks that its phase needs and waits for one at most;
\* DecideOrder takes the items in order.
LocksSound(r, q) ==
    /\ q.phase \in PhasesOf(Op[r])
    /\ q.locks \subseteq LocksOf(r)
    /\ q.phase \notin {"key", "row", "items"} => q.wants = {}
    /\ q.phase \in {"queued", "key", "row", "ended"} => q.locks = {}
    /\ q.phase = "key" => q.wants = {Key(Order(r))}
    /\ q.phase = "row" => q.wants = {Row(Order(r))}
    /\ q.phase = "settings" => q.locks = {Key(Order(r))}
    /\ q.phase = "items" => \E i \in Ordered(r) :
        /\ q.wants = {Stock(i)} /\ Stock(i) \notin q.locks
        /\ Op[r] = "decide" => \A k \in Items :
                Stock(k) \in q.locks <=> k \in Ordered(r) /\ k < i

HoldsItems(r, q) == \A i \in Ordered(r) : Stock(i) \in q.locks

\* What DecideOrder knows between its statements.
DecideSound(r, q) ==
    Op[r] = "decide" =>
        LET o == Order(r)
        IN  /\ q.phase \in {"settings", "items", "judge", "commit"} =>
                venue[o].status = "absent" /\ Key(o) \in q.locks
            /\ q.phase \in {"items", "judge"} => open /\ Settings \in q.locks
            /\ q.phase = "judge" => HoldsItems(r, q)
            /\ q.phase = "commit" =>
                /\ Settings \in q.locks
                /\ \/ q.answer = "venue_closed"
                   \/ q.answer = "menu_changed" /\ open
                   \/ /\ open /\ HoldsItems(r, q)
                      /\ \E offered \in SUBSET Items :
                            q.answer = V!Judge(o, TRUE, TRUE, offered)

\* What the commands that find a row know of it.
CommandSound(r, q) ==
    Op[r] \in {"cancel", "start-preparing"} /\ q.phase \in {"items", "commit"} =>
        LET row == venue[Order(r)]
        IN  /\ Row(Order(r)) \in q.locks /\ q.seen = row /\ row.status # "absent"
            /\ Op[r] = "cancel" => row.saved = "none"
            /\ Op[r] = "start-preparing" \/ q.phase = "items" => row.status = "accepted"
            /\ Op[r] = "cancel" /\ q.phase = "commit" /\ row.status = "accepted"
                    => HoldsItems(r, q)

\* What a request answers is stored.
AnswerSound(r, q) ==
    /\ q.phase \notin {"commit", "ended"} => q.answer = "none"
    /\ q.phase = "commit" /\ Op[r] # "decide" => q.answer = "none"
    /\ q.phase = "ended" /\ q.answer # "none" =>
        \/ Op[r] = "decide" /\ q.answer = venue[Order(r)].decision
        \/ Op[r] = "cancel" /\ q.answer \in {"not_found", venue[Order(r)].saved}
    /\ q.phase = "loading" => q.left > 0

RequestSound(r, q) ==
    q \in Request /\ LocksSound(r, q) /\ DecideSound(r, q) /\ CommandSound(r, q)
        /\ AnswerSound(r, q)

\* Two requests share no lock but FOR SHARE of the settings.
Exclusive(locks, r) ==
    \A p \in Requests \ {r} : locks \cap requests[p].locks \subseteq {Settings}

TransactionsSound ==
    /\ VP!VenueSound
    /\ open \in BOOLEAN
    /\ requests \in [Requests -> Request]
    /\ \A r \in Requests :
        RequestSound(r, requests[r]) /\ Exclusive(requests[r].locks, r)

-----------------------------------------------------------------------------
(* Locks and records *)

LEMMA LockNames ==
    /\ \A x, y : /\ Key(x) = Key(y) => x = y
                 /\ Row(x) = Row(y) => x = y
                 /\ Stock(x) = Stock(y) => x = y
                 /\ Key(x) # Row(y) /\ Key(x) # Stock(y) /\ Row(x) # Stock(y)
    /\ \A x : Key(x) # Settings /\ Row(x) # Settings /\ Stock(x) # Settings
  BY DEF Key, Row, Stock, Settings

LEMMA RequestTypes ==
    /\ \A r \in Requests :
        /\ Order(r) \in Orders
        /\ Op[r] \in {"decide", "cancel", "start-preparing", "list"}
        /\ Ordered(r) \subseteq Items
    /\ Cardinality(Orders) \in Nat
<1>1. Cardinality(Orders) \in Nat BY TablesAssumption, FS_CardinalityType
<1>. QED BY <1>1, RequestsAssumption DEF Order, Ordered

LEMMA NewRequestType == NewRequest \in Request
<1>1. V!NoVenueOrder \in V!VenueOrder BY DEF V!NoVenueOrder, V!VenueOrder
<1>2. 0 \in 0..Cardinality(Orders) BY RequestTypes
<1>. QED BY <1>1, <1>2 DEF NewRequest, Request, Phases, Answers

LEMMA GoneType ==
    ASSUME NEW answer \in Answers
    PROVE  /\ Gone(answer) \in Request
           /\ Gone(answer).phase = "ended" /\ Gone(answer).answer = answer
           /\ Gone(answer).locks = {} /\ Gone(answer).wants = {}
<1>1. NewRequest \in Request BY NewRequestType
<1>. QED BY <1>1 DEF Gone, NewRequest, Request, Phases

LEMMA TablesTypes == TransactionsSound => V!TypeOK
  BY VenueSame DEF TransactionsSound, VP!VenueSound

LEMMA VenueRows ==
    ASSUME TransactionsSound, NEW o \in Orders
    PROVE  /\ venue[o] \in V!VenueOrder
           /\ venue[o].status = "absent" <=> venue[o].decision = "none"
           /\ venue[o].status = "accepted" => venue[o].next = 1
<1>1. VP!OrderSound(o) BY DEF TransactionsSound, VP!VenueSound
<1>. QED BY <1>1, TablesTypes DEF VP!OrderSound, V!TypeOK

LEMMA GrantedExclusive ==
    ASSUME TransactionsSound, NEW r \in Requests, Granted(r)
    PROVE  Exclusive(requests[r].locks \cup requests[r].wants, r)
  BY DEF TransactionsSound, Granted, Holds, Exclusive

-----------------------------------------------------------------------------
(* What a step leaves as it was *)

LEMMA OrderedStays ==
    ASSUME \A i \in Items : stock'[i] = Unlimited <=> stock[i] = Unlimited
    PROVE  \A r : Ordered(r)' = Ordered(r)
  BY DEF Ordered, Order

LEMMA JudgeStays ==
    ASSUME NEW o, \A i \in Items : Quantity[o][i] > 0 => stock'[i] = stock[i],
           NEW offered
    PROVE  V!Judge(o, TRUE, TRUE, offered)' = V!Judge(o, TRUE, TRUE, offered)
<1>1. V!Lacking(o, offered)' = V!Lacking(o, offered) BY DEF V!Lacking
<1>. QED BY <1>1 DEF V!Judge

\* What is known of a request stays true when the order it has locked stays,
\* its answer stays stored, and the stock it compared stays.
LEMMA SoundStays ==
    ASSUME NEW r \in Requests, NEW q, RequestSound(r, q),
           \A i \in Items : stock'[i] = Unlimited <=> stock[i] = Unlimited,
           Settings \in q.locks => open' = open,
           q.phase \in {"settings", "items", "judge", "commit"} =>
                venue'[Order(r)] = venue[Order(r)],
           q.phase = "ended" /\ q.answer # "none" =>
                /\ q.answer = venue[Order(r)].decision =>
                        venue'[Order(r)].decision = venue[Order(r)].decision
                /\ q.answer = venue[Order(r)].saved =>
                        venue'[Order(r)].saved = venue[Order(r)].saved,
           Op[r] = "decide" /\ HoldsItems(r, q) =>
                \A i \in Ordered(r) : stock'[i] = stock[i]
    PROVE  RequestSound(r, q)'
<1>0. Ordered(r)' = Ordered(r) BY OrderedStays
<1>1. HoldsItems(r, q)' <=> HoldsItems(r, q) BY <1>0 DEF HoldsItems
<1>2. LocksSound(r, q)'
  BY <1>0 DEF RequestSound, LocksSound, Order, LocksOf
<1>3. DecideSound(r, q)'
  <2> SUFFICES ASSUME Op[r] = "decide" PROVE DecideSound(r, q)' BY DEF DecideSound
  <2> DEFINE o == Order(r)
  <2>1. Order(r)' = o BY DEF Order
  <2>2. DecideSound(r, q) BY DEF RequestSound
  <2>3. \A i \in Items : Quantity[o][i] > 0 => i \in Ordered(r) BY DEF Ordered
  <2>4. /\ q.phase \in {"settings", "items", "judge", "commit"} =>
                venue'[o].status = "absent" /\ Key(o) \in q.locks
        /\ q.phase \in {"items", "judge"} => open' /\ Settings \in q.locks
        /\ q.phase = "judge" => HoldsItems(r, q)'
        /\ q.phase = "commit" => Settings \in q.locks
    <3>1. /\ q.phase \in {"settings", "items", "judge", "commit"} =>
                venue[o].status = "absent" /\ Key(o) \in q.locks
          /\ q.phase \in {"items", "judge"} => open /\ Settings \in q.locks
          /\ q.phase = "judge" => HoldsItems(r, q)
          /\ q.phase = "commit" => Settings \in q.locks
      BY <2>2 DEF DecideSound
    <3>2. ASSUME q.phase \in {"items", "judge"} PROVE open' /\ Settings \in q.locks
      <4>1. open /\ Settings \in q.locks BY <3>1, <3>2
      <4>2. open' = open BY <4>1
      <4>. QED BY <4>1, <4>2
    <3>. QED BY <1>1, <3>1, <3>2
  <2>5. ASSUME q.phase = "commit"
        PROVE  \/ q.answer = "venue_closed"
               \/ q.answer = "menu_changed" /\ open'
               \/ /\ open' /\ HoldsItems(r, q)'
                  /\ \E offered \in SUBSET Items :
                        q.answer = V!Judge(o, TRUE, TRUE, offered)'
    <3>0. open' = open BY <2>4, <2>5
    <3>1. CASE q.answer = "venue_closed" BY <3>1
    <3>2. CASE q.answer = "menu_changed" /\ open BY <3>0, <3>2
    <3>3. CASE /\ open /\ HoldsItems(r, q)
               /\ \E offered \in SUBSET Items : q.answer = V!Judge(o, TRUE, TRUE, offered)
      <4>1. \A offered \in SUBSET Items :
                V!Judge(o, TRUE, TRUE, offered)' = V!Judge(o, TRUE, TRUE, offered)
        BY <2>3, <3>3, JudgeStays
      <4>. QED BY <1>1, <3>0, <3>3, <4>1
    <3>. QED BY <2>2, <2>5, <3>1, <3>2, <3>3 DEF DecideSound
  <2> HIDE DEF o
  <2>. QED BY <2>1, <2>4, <2>5 DEF DecideSound
<1>4. CommandSound(r, q)' BY <1>1 DEF RequestSound, CommandSound, Order
<1>5. AnswerSound(r, q)' BY DEF RequestSound, AnswerSound, Order
<1>. QED BY <1>2, <1>3, <1>4, <1>5 DEF RequestSound, Request, RowLocks, V!VenueOrder

\* A step of one request that changes no table.
LEMMA QuietSound ==
    ASSUME TransactionsSound, NEW r \in Requests, NEW q, Become(r, q),
           UNCHANGED <<tables, open>>, RequestSound(r, q), Exclusive(q.locks, r)
    PROVE  TransactionsSound'
<1>1. /\ requests' = [requests EXCEPT ![r] = q] /\ UNCHANGED <<venue, stock, callbacks, open>>
  BY DEF Become, tables
<1>2. requests'[r] = q /\ \A p \in Requests \ {r} : requests'[p] = requests[p]
  BY <1>1 DEF TransactionsSound
<1>3. VP!VenueSound' /\ open' \in BOOLEAN
  <2>1. UNCHANGED VP!vars BY <1>1 DEF VP!vars
  <2>. QED BY <1>1, <2>1, Assumptions, VP!VenueNext DEF TransactionsSound
<1>4. requests' \in [Requests -> Request] BY <1>1 DEF TransactionsSound, RequestSound
<1>5. ASSUME NEW p \in Requests, NEW x, RequestSound(p, x) PROVE RequestSound(p, x)'
  BY <1>1, <1>5, SoundStays
<1>6. ASSUME NEW p \in Requests PROVE RequestSound(p, requests[p])'
  <2>1. RequestSound(p, requests'[p]) BY <1>2 DEF TransactionsSound
  <2>2. PICK x : x = requests'[p] OBVIOUS
  <2>3. RequestSound(p, x)' BY <1>5, <2>1, <2>2
  <2>. QED BY <2>2, <2>3
<1>7. ASSUME NEW p \in Requests PROVE Exclusive(requests[p].locks, p)'
  BY <1>2 DEF TransactionsSound, Exclusive
<1>. QED BY <1>3, <1>4, <1>6, <1>7 DEF TransactionsSound

-----------------------------------------------------------------------------
(* Steps that change no table *)

LEMMA GoneSound ==
    ASSUME NEW r \in Requests, NEW answer \in Answers,
           answer # "none" =>
                \/ Op[r] = "decide" /\ answer = venue[Order(r)].decision
                \/ Op[r] = "cancel" /\ answer \in {"not_found", venue[Order(r)].saved}
    PROVE  RequestSound(r, Gone(answer)) /\ Exclusive(Gone(answer).locks, r)
<1> DEFINE q == Gone(answer)
<1>1. /\ q \in Request /\ q.phase = "ended" /\ q.answer = answer
      /\ q.locks = {} /\ q.wants = {}
  BY GoneType
<1> HIDE DEF q
<1>2. LocksSound(r, q) BY <1>1 DEF LocksSound, PhasesOf
<1>3. DecideSound(r, q) BY <1>1 DEF DecideSound
<1>4. CommandSound(r, q) BY <1>1 DEF CommandSound
<1>5. AnswerSound(r, q) BY <1>1 DEF AnswerSound
<1>6. Exclusive(q.locks, r) BY <1>1 DEF Exclusive
<1>. QED BY <1>1, <1>2, <1>3, <1>4, <1>5, <1>6 DEF RequestSound, q

\* A transaction that wrote nothing answers, or is rolled back.
LEMMA EndSound ==
    ASSUME TransactionsSound, NEW r \in Requests, NEW answer \in Answers,
           answer # "none" =>
                \/ Op[r] = "decide" /\ answer = venue[Order(r)].decision
                \/ Op[r] = "cancel" /\ answer \in {"not_found", venue[Order(r)].saved},
           Answer(r, answer)
    PROVE  TransactionsSound'
  BY GoneSound, QuietSound DEF Answer

LEMMA FailSound ==
    ASSUME TransactionsSound, NEW r \in Requests, AbortVictim(r) \/ Interrupt(r)
    PROVE  TransactionsSound'
  BY EndSound DEF AbortVictim, Interrupt, Fail, Answers

LEMMA BeginSound ==
    ASSUME TransactionsSound, NEW r \in Requests, Begin(r)
    PROVE  TransactionsSound'
<1> DEFINE q == IF Op[r] = "list"
                 THEN [NewRequest EXCEPT !.phase = "rows", !.conns = 1,
                        !.left = Cardinality({o \in Orders : venue[o].status # "absent"})]
                 ELSE [NewRequest EXCEPT !.conns = 1, !.wants = FirstLock(r),
                        !.phase = IF Op[r] = "decide" THEN "key" ELSE "row"]
<1>1. Become(r, q) /\ UNCHANGED <<tables, open>> BY DEF Begin
<1>2. NewRequest \in Request /\ NewRequest.locks = {} /\ NewRequest.wants = {}
      /\ NewRequest.answer = "none"
  BY NewRequestType DEF NewRequest
<1>3. q \in Request
  <2>1. Cardinality({o \in Orders : venue[o].status # "absent"}) \in 0..Cardinality(Orders)
    <3> DEFINE S == {o \in Orders : venue[o].status # "absent"}
    <3>1. S \subseteq Orders OBVIOUS
    <3>2. IsFiniteSet(S) /\ Cardinality(S) <= Cardinality(Orders)
      BY <3>1, TablesAssumption, FS_Subset
    <3>3. Cardinality(S) \in Nat BY <3>2, FS_CardinalityType
    <3>. QED BY <3>2, <3>3, RequestTypes
  <2>2. FirstLock(r) \subseteq RowLocks BY RequestTypes DEF FirstLock, RowLocks
  <2>3. FirstLock(r) \in SUBSET RowLocks /\ {} \in SUBSET RowLocks BY <2>2
  <2>4. CASE Op[r] = "list"
    <3>1. q = [NewRequest EXCEPT !.phase = "rows", !.conns = 1,
                !.left = Cardinality({o \in Orders : venue[o].status # "absent"})]
      BY <2>4
    <3>2. q = [phase |-> "rows", conns |-> 1, locks |-> {}, wants |-> {},
               seen |-> V!NoVenueOrder, answer |-> "none",
               left |-> Cardinality({o \in Orders : venue[o].status # "absent"})]
      BY <3>1 DEF NewRequest
    <3>3. V!NoVenueOrder \in V!VenueOrder BY DEF V!NoVenueOrder, V!VenueOrder
    <3> HIDE DEF q
    <3>. QED BY <2>1, <3>2, <3>3 DEF Request, Phases, Answers
  <2>5. CASE Op[r] # "list"
    <3> DEFINE phase == IF Op[r] = "decide" THEN "key" ELSE "row"
    <3>1. q = [NewRequest EXCEPT !.conns = 1, !.wants = FirstLock(r), !.phase = phase]
      BY <2>5
    <3>2. phase \in Phases BY DEF Phases
    <3> HIDE DEF phase
    <3>3. q = [phase |-> phase, conns |-> 1, locks |-> {}, wants |-> FirstLock(r),
               seen |-> V!NoVenueOrder, answer |-> "none", left |-> 0]
      BY <3>1 DEF NewRequest
    <3>4. V!NoVenueOrder \in V!VenueOrder /\ 0 \in 0..Cardinality(Orders)
      BY RequestTypes DEF V!NoVenueOrder, V!VenueOrder
    <3> HIDE DEF q
    <3>. QED BY <2>3, <3>2, <3>3, <3>4 DEF Request, Answers
  <2>. QED BY <2>4, <2>5
<1>4. /\ q.locks = {} /\ q.answer = "none"
      /\ Op[r] = "list" => q.phase = "rows" /\ q.wants = {}
      /\ Op[r] = "decide" => q.phase = "key" /\ q.wants = {Key(Order(r))}
      /\ Op[r] \in {"cancel", "start-preparing"}
            => q.phase = "row" /\ q.wants = {Row(Order(r))}
  BY <1>2 DEF FirstLock, Request
<1> HIDE DEF q
<1>5. LocksSound(r, q) BY <1>4, RequestTypes DEF LocksSound, PhasesOf
<1>6. DecideSound(r, q) /\ CommandSound(r, q) /\ AnswerSound(r, q)
  BY <1>4, RequestTypes DEF DecideSound, CommandSound, AnswerSound
<1>7. Exclusive(q.locks, r) BY <1>4 DEF Exclusive
<1>. QED BY <1>1, <1>3, <1>5, <1>6, <1>7, QuietSound DEF RequestSound

\* Items are finitely many, so a set of them has one whose part is smallest:
\* the least item, or the largest.
LEMMA SmallestPart ==
    ASSUME NEW S \in SUBSET Items, S # {}, NEW part \in [S -> SUBSET Items]
    PROVE  \E i \in S : \A j \in S : part[j] \subseteq part[i] => part[j] = part[i]
<1>1. FiniteSubsetsOf(Items) = SUBSET Items BY ItemsAssumption, FS_FiniteSubsetsOfFinite
<1>2. IsWellFoundedOn(StrictSubsetOrdering(Items), SUBSET Items)
  BY <1>1, ItemsAssumption, FS_StrictSubsetOrderingWellFounded
<1> DEFINE parts == {part[i] : i \in S}
<1>3. parts \subseteq SUBSET Items /\ parts # {} OBVIOUS
<1> HIDE DEF parts
<1>4. PICK T \in parts : \A U \in parts : <<U, T>> \notin StrictSubsetOrdering(Items)
  BY <1>2, <1>3, WFMin
<1>5. PICK i \in S : T = part[i] BY <1>4 DEF parts
<1>6. ASSUME NEW j \in S, part[j] \subseteq part[i], part[j] # part[i] PROVE FALSE
  <2>1. part[j] \in parts BY DEF parts
  <2>2. <<part[j], T>> \in StrictSubsetOrdering(Items)
    BY <1>3, <1>5, <1>6, <2>1 DEF StrictSubsetOrdering
  <2>. QED BY <1>4, <2>1, <2>2
<1>. QED BY <1>6

LEMMA LeastItem ==
    ASSUME NEW S \in SUBSET Items, S # {}
    PROVE  Min(S) \in S /\ \A k \in S : Min(S) <= k
<1> DEFINE part == [i \in S |-> {k \in S : k <= i}]
<1>1. S \subseteq Nat BY ItemsAssumption
<1>2. part \in [S -> SUBSET Items] OBVIOUS
<1>3. PICK x \in S : \A j \in S : part[j] \subseteq part[x] => part[j] = part[x]
  <2> HIDE DEF part
  <2>. QED BY <1>2, SmallestPart
<1>4. ASSUME NEW y \in S PROVE x <= y
  <2> SUFFICES ASSUME y < x PROVE FALSE BY <1>1
  <2>0. ASSUME NEW k \in S, k <= y PROVE k <= x BY <1>1, <2>0
  <2>1. part[y] \subseteq part[x] BY <2>0
  <2>2. x \in part[x] /\ x \notin part[y] BY <1>1
  <2>. QED BY <1>3, <2>1, <2>2
<1>. QED BY <1>4 DEF Min

\* A transaction that is ready for its items: those it has are the first of
\* them when it decides.
Collecting(r, q) ==
    /\ q \in Request /\ q.locks \subseteq LocksOf(r) /\ q.answer = "none"
    /\ \/ /\ Op[r] = "decide" /\ venue[Order(r)].status = "absent"
          /\ open /\ {Key(Order(r)), Settings} \subseteq q.locks
          /\ \A k \in Items : Stock(k) \in q.locks => k \in Ordered(r)
          /\ \A k, l \in Ordered(r) : k < l /\ Stock(l) \in q.locks => Stock(k) \in q.locks
       \/ /\ Op[r] = "cancel" /\ q.seen = venue[Order(r)]
          /\ q.seen.status = "accepted" /\ q.seen.saved = "none"
          /\ Row(Order(r)) \in q.locks

LEMMA CollectSound ==
    ASSUME TransactionsSound, NEW r \in Requests, NEW request, Collect(r, request),
           Collecting(r, request), Exclusive(request.locks, r)
    PROVE  TransactionsSound'
<1> DEFINE left == {i \in Ordered(r) : Stock(i) \notin request.locks}
           past == IF Op[r] = "decide" THEN "judge" ELSE "commit"
<1>0. request \in Request /\ Ordered(r) \subseteq Items /\ Order(r) \in Orders
  BY RequestTypes DEF Collecting
<1>1. CASE left = {}
  <2>1. PICK q : q = [request EXCEPT !.phase = past, !.wants = {}] OBVIOUS
  <2>2. Become(r, q) /\ UNCHANGED <<tables, open>> BY <1>1, <2>1 DEF Collect
  <2>3. /\ q \in Request /\ q.phase = past /\ q.wants = {} /\ q.locks = request.locks
        /\ q.answer = request.answer /\ q.seen = request.seen
    BY <1>0, <2>1 DEF Request, Phases
  <2>4. HoldsItems(r, q) BY <1>1, <2>3 DEF HoldsItems
  <2>5. LocksSound(r, q) BY <2>3 DEF Collecting, LocksSound, PhasesOf
  <2>6. DecideSound(r, q) BY <2>3, <2>4 DEF Collecting, DecideSound
  <2>7. CommandSound(r, q) BY <2>3, <2>4 DEF Collecting, CommandSound
  <2>8. AnswerSound(r, q) BY <2>3 DEF Collecting, AnswerSound
  <2>. QED BY <2>2, <2>3, <2>5, <2>6, <2>7, <2>8, QuietSound DEF RequestSound
<1>2. CASE left # {}
  <2>1. PICK i \in ItemsInReach(r, left) :
            Become(r, [request EXCEPT !.phase = "items", !.wants = {Stock(i)}])
    BY <1>2 DEF Collect
  <2>2. i \in left /\ (Op[r] = "decide" => \A k \in left : i <= k)
    BY <1>0, <1>2, <2>1, LeastItem DEF ItemsInReach
  <2>3. PICK q : q = [request EXCEPT !.phase = "items", !.wants = {Stock(i)}] OBVIOUS
  <2>4. Become(r, q) /\ UNCHANGED <<tables, open>> BY <2>1, <2>3 DEF Collect
  <2>5. Stock(i) \in RowLocks BY <1>0, <2>2 DEF RowLocks
  <2>6. /\ q \in Request /\ q.phase = "items" /\ q.wants = {Stock(i)}
        /\ q.locks = request.locks
        /\ q.answer = request.answer /\ q.seen = request.seen
    BY <1>0, <2>3, <2>5 DEF Request, Phases
  <2>7. ASSUME Op[r] = "decide", NEW k \in Items
        PROVE  Stock(k) \in q.locks <=> k \in Ordered(r) /\ k < i
    <3>1. k \in Nat /\ i \in Nat BY <1>0, <2>2, ItemsAssumption
    <3>2. CASE Stock(k) \in q.locks
      <4>1. k \in Ordered(r) BY <2>6, <2>7, <3>2 DEF Collecting
      <4>2. ~(i < k) BY <2>2, <2>6, <2>7, <3>2, <4>1 DEF Collecting
      <4>3. k # i BY <2>2, <2>6, <3>2
      <4>. QED BY <3>1, <3>2, <4>1, <4>2, <4>3
    <3>3. CASE Stock(k) \notin q.locks
      <4>1. k \in Ordered(r) => i <= k BY <2>2, <2>6, <2>7, <3>3
      <4>. QED BY <3>1, <3>3, <4>1
    <3>. QED BY <3>2, <3>3
  <2>8. LocksSound(r, q) BY <2>2, <2>6, <2>7 DEF Collecting, LocksSound, PhasesOf
  <2>9. DecideSound(r, q) BY <2>6 DEF Collecting, DecideSound
  <2>10. CommandSound(r, q) BY <2>6 DEF Collecting, CommandSound
  <2>11. AnswerSound(r, q) BY <2>6 DEF Collecting, AnswerSound
  <2>. QED BY <2>4, <2>6, <2>8, <2>9, <2>10, <2>11, QuietSound DEF RequestSound
<1>. QED BY <1>1, <1>2

LEMMA LockItemSound ==
    ASSUME TransactionsSound, NEW r \in Requests, LockItem(r)
    PROVE  TransactionsSound'
<1> DEFINE old == requests[r]
<1>0. /\ old \in Request /\ LocksSound(r, old) /\ DecideSound(r, old)
      /\ CommandSound(r, old) /\ AnswerSound(r, old)
      /\ old.phase = "items" /\ Granted(r) /\ Ordered(r) \subseteq Items
  BY RequestTypes DEF TransactionsSound, RequestSound, LockItem, In
<1>1. PICK i \in Ordered(r) :
        /\ old.wants = {Stock(i)}
        /\ Op[r] = "decide" =>
            \A k \in Items : Stock(k) \in old.locks <=> k \in Ordered(r) /\ k < i
  BY <1>0 DEF LocksSound
<1>2. PICK q : q = [old EXCEPT !.locks = old.locks \cup old.wants] OBVIOUS
<1>3. Collect(r, q) BY <1>2 DEF LockItem
<1>4. /\ q \in Request /\ q.locks = old.locks \cup {Stock(i)}
      /\ q.answer = old.answer /\ q.seen = old.seen
  BY <1>0, <1>1, <1>2 DEF Request
<1>5. Exclusive(q.locks, r) BY <1>0, <1>1, <1>4, GrantedExclusive
<1>6. Op[r] \in {"decide", "cancel"} BY <1>0, RequestTypes DEF LocksSound, PhasesOf
<1> HIDE DEF old
<1>7. q.locks \subseteq LocksOf(r)
  BY <1>0, <1>1, <1>4, <1>6 DEF LocksSound, LocksOf
<1>8. Collecting(r, q)
  <2>1. CASE Op[r] = "decide"
    <3>1. ASSUME NEW k \in Items
          PROVE  Stock(k) \in q.locks <=> k \in Ordered(r) /\ (k < i \/ k = i)
      BY <1>1, <1>4, <2>1, LockNames
    <3>2. ASSUME NEW k \in Ordered(r), NEW l \in Ordered(r), k < l, l < i \/ l = i
          PROVE  k < i
      <4>1. k \in Nat /\ l \in Nat /\ i \in Nat BY <1>0, ItemsAssumption
      <4>. QED BY <3>2, <4>1
    <3>3. \A k, l \in Ordered(r) : k < l /\ Stock(l) \in q.locks => Stock(k) \in q.locks
      BY <1>0, <3>1, <3>2
    <3>. QED BY <1>0, <1>4, <1>7, <2>1, <3>1, <3>3
             DEF Collecting, DecideSound, AnswerSound
  <2>2. CASE Op[r] = "cancel"
    BY <1>0, <1>4, <1>7, <2>2 DEF Collecting, CommandSound, AnswerSound
  <2>. QED BY <1>6, <2>1, <2>2
<1>. QED BY <1>3, <1>5, <1>8, CollectSound

LEMMA LockKeySound ==
    ASSUME TransactionsSound, NEW r \in Requests, LockKey(r)
    PROVE  TransactionsSound'
<1> DEFINE old == requests[r]
           o == Order(r)
<1>0. /\ old \in Request /\ LocksSound(r, old) /\ AnswerSound(r, old)
      /\ old.phase = "key" /\ Granted(r) /\ o \in Orders
      /\ Op[r] = "decide" /\ old.wants = {Key(o)} /\ old.locks = {} /\ old.answer = "none"
  BY RequestTypes
     DEF TransactionsSound, RequestSound, LockKey, In, LocksSound, PhasesOf, AnswerSound
<1>1. CASE venue[o].status # "absent"
  <2>1. venue[o].decision \in Answers
    BY <1>0, VenueRows DEF V!VenueOrder, Answers, Decisions
  <2>2. Answer(r, venue[o].decision) BY <1>1 DEF LockKey
  <2>. QED BY <1>0, <2>1, <2>2, EndSound
<1>2. CASE venue[o].status = "absent"
  <2>1. PICK q : q = [old EXCEPT !.phase = "settings", !.wants = {},
                                !.locks = old.locks \cup old.wants]
    OBVIOUS
  <2>2. Become(r, q) /\ UNCHANGED <<tables, open>> BY <1>2, <2>1 DEF LockKey
  <2>3. Key(o) \in RowLocks BY <1>0 DEF RowLocks
  <2>4. /\ q \in Request /\ q.phase = "settings" /\ q.wants = {} /\ q.locks = {Key(o)}
        /\ q.answer = "none"
    BY <1>0, <2>1, <2>3 DEF Request, Phases
  <2>5. Exclusive(q.locks, r) BY <1>0, <2>4, GrantedExclusive
  <2> HIDE DEF old
  <2>6. LocksSound(r, q) BY <1>0, <2>4 DEF LocksSound, PhasesOf, LocksOf
  <2>7. DecideSound(r, q) BY <1>0, <1>2, <2>4 DEF DecideSound
  <2>8. CommandSound(r, q) /\ AnswerSound(r, q)
    BY <1>0, <2>4 DEF CommandSound, AnswerSound
  <2>. QED BY <2>2, <2>4, <2>5, <2>6, <2>7, <2>8, QuietSound DEF RequestSound
<1>. QED BY <1>1, <1>2

LEMMA ReadSettingsSound ==
    ASSUME TransactionsSound, NEW r \in Requests, ReadSettings(r)
    PROVE  TransactionsSound'
<1> DEFINE old == requests[r]
           o == Order(r)
<1>0. /\ old \in Request /\ old.phase = "settings" /\ Op[r] = "decide"
      /\ old.locks = {Key(o)} /\ old.answer = "none" /\ venue[o].status = "absent"
      /\ old.wants = {} /\ Exclusive(old.locks, r) /\ open \in BOOLEAN
  BY RequestTypes
     DEF TransactionsSound, RequestSound, ReadSettings, In, LocksSound, PhasesOf,
         DecideSound, AnswerSound
<1>1. PICK request : request = [old EXCEPT !.locks = old.locks \cup {Settings}] OBVIOUS
<1>2. /\ request \in Request /\ request.locks = {Key(o), Settings}
      /\ request.answer = "none" /\ request.wants = {}
  <2>1. old.locks \cup {Settings} \in SUBSET (RowLocks \cup {Settings})
    BY <1>0 DEF Request
  <2>. QED BY <1>0, <1>1, <2>1 DEF Request
<1>3. Exclusive(request.locks, r) /\ request.locks \subseteq LocksOf(r)
  BY <1>0, <1>2 DEF Exclusive, LocksOf
<1>4. \/ open /\ Collect(r, request)
      \/ \E answer \in {"venue_closed", "menu_changed"} :
            /\ open <=> answer # "venue_closed"
            /\ Become(r, [request EXCEPT !.phase = "commit", !.answer = answer])
            /\ UNCHANGED <<tables, open>>
  BY <1>1 DEF ReadSettings, SettingsLock
<1> HIDE DEF old
<1>5. CASE open /\ Collect(r, request)
  <2>1. Collecting(r, request)
    BY <1>0, <1>2, <1>3, <1>5, LockNames DEF Collecting
  <2>. QED BY <1>3, <1>5, <2>1, CollectSound
<1>6. ASSUME NEW answer \in {"venue_closed", "menu_changed"},
             open <=> answer # "venue_closed",
             Become(r, [request EXCEPT !.phase = "commit", !.answer = answer]),
             UNCHANGED <<tables, open>>
      PROVE  TransactionsSound'
  <2>1. PICK q : q = [request EXCEPT !.phase = "commit", !.answer = answer] OBVIOUS
  <2>2. /\ q \in Request /\ q.phase = "commit" /\ q.wants = {} /\ q.answer = answer
        /\ q.locks = request.locks
    BY <1>2, <2>1 DEF Request, Phases, Answers, Decisions, V!Reasons
  <2>3. LocksSound(r, q) BY <1>0, <1>3, <2>2 DEF LocksSound, PhasesOf
  <2>4. DecideSound(r, q) BY <1>0, <1>2, <1>6, <2>2 DEF DecideSound
  <2>5. CommandSound(r, q) /\ AnswerSound(r, q)
    BY <1>0, <2>2 DEF CommandSound, AnswerSound
  <2>. QED BY <1>3, <1>6, <2>1, <2>2, <2>3, <2>4, <2>5, QuietSound DEF RequestSound
<1>. QED BY <1>4, <1>5, <1>6

LEMMA JudgeSound ==
    ASSUME TransactionsSound, NEW r \in Requests, Judge(r)
    PROVE  TransactionsSound'
<1> DEFINE old == requests[r]
           o == Order(r)
<1>0. /\ old \in Request /\ old.phase = "judge" /\ Op[r] = "decide"
      /\ LocksSound(r, old) /\ DecideSound(r, old) /\ Exclusive(old.locks, r)
  BY RequestTypes DEF TransactionsSound, RequestSound, Judge, In, LocksSound, PhasesOf
<1>1. PICK samePrices \in BOOLEAN, offered \in SUBSET Items :
        Become(r, [old EXCEPT !.phase = "commit",
                     !.answer = V!Judge(o, TRUE, samePrices, offered)])
  BY DEF Judge
<1>2. PICK answer : answer = V!Judge(o, TRUE, samePrices, offered) OBVIOUS
<1>3. /\ answer \in Decisions
      /\ answer = "menu_changed" \/ answer = V!Judge(o, TRUE, TRUE, offered)
  BY <1>2 DEF V!Judge, Decisions, V!Reasons
<1>4. PICK q : q = [old EXCEPT !.phase = "commit", !.answer = answer] OBVIOUS
<1>5. Become(r, q) /\ UNCHANGED <<tables, open>> BY <1>1, <1>2, <1>4 DEF Judge
<1>6. /\ q \in Request /\ q.phase = "commit" /\ q.answer = answer
      /\ q.locks = old.locks /\ q.wants = old.wants
  BY <1>0, <1>3, <1>4 DEF Request, Phases, Answers
<1>7. HoldsItems(r, q) BY <1>0, <1>6 DEF HoldsItems, DecideSound
<1> HIDE DEF old
<1>8. LocksSound(r, q) BY <1>0, <1>6 DEF LocksSound, PhasesOf
<1>9. DecideSound(r, q) BY <1>0, <1>3, <1>6, <1>7 DEF DecideSound
<1>10. CommandSound(r, q) /\ AnswerSound(r, q)
  BY <1>0, <1>6 DEF CommandSound, AnswerSound
<1>11. Exclusive(q.locks, r) BY <1>0, <1>6
<1>. QED BY <1>5, <1>6, <1>8, <1>9, <1>10, <1>11, QuietSound DEF RequestSound

\* MissingRow, CancelRow and TransitionRow.
LEMMA RowSound ==
    ASSUME TransactionsSound, NEW r \in Requests,
           MissingRow(r) \/ CancelRow(r) \/ TransitionRow(r)
    PROVE  TransactionsSound'
<1> DEFINE old == requests[r]
           o == Order(r)
           row == venue[o]
<1>0. /\ old \in Request /\ old.phase = "row" /\ Op[r] \in {"cancel", "start-preparing"}
      /\ old.wants = {Row(o)} /\ old.locks = {} /\ old.answer = "none"
      /\ o \in Orders /\ row \in V!VenueOrder
  BY RequestTypes, VenueRows
     DEF TransactionsSound, RequestSound, MissingRow, CancelRow, TransitionRow, In,
         LocksSound, PhasesOf, AnswerSound
<1>1. CASE MissingRow(r)
  <2>1. CASE Op[r] = "cancel"
    BY <1>1, <2>1, EndSound DEF MissingRow, Answers
  <2>2. CASE Op[r] # "cancel"
    BY <1>1, <2>2, EndSound DEF MissingRow, Answers
  <2>. QED BY <2>1, <2>2
<1>2. Row(o) \in RowLocks BY <1>0 DEF RowLocks
<1>3. PICK request : request = [old EXCEPT !.seen = row, !.locks = old.locks \cup old.wants]
  OBVIOUS
<1>4. /\ request \in Request /\ request.locks = {Row(o)} /\ request.seen = row
      /\ request.answer = "none" /\ request.locks \subseteq LocksOf(r)
  BY <1>0, <1>2, <1>3 DEF Request, LocksOf
<1>5. PICK q : q = [request EXCEPT !.phase = "commit", !.wants = {}] OBVIOUS
<1>6. /\ q \in Request /\ q.locks = {Row(o)} /\ q.seen = row /\ q.answer = "none"
      /\ q.phase = "commit" /\ q.wants = {}
  BY <1>4, <1>5 DEF Request, Phases
<1>7. q = [old EXCEPT !.phase = "commit", !.seen = row, !.wants = {},
                     !.locks = old.locks \cup old.wants]
  BY <1>0, <1>3, <1>5 DEF Request
<1>8. ASSUME Become(r, q), UNCHANGED <<tables, open>>, Granted(r), row.status # "absent",
             \/ Op[r] = "cancel" /\ row.saved = "none" /\ row.status # "accepted"
             \/ Op[r] = "start-preparing" /\ row.status = "accepted"
      PROVE  TransactionsSound'
  <2>1. Exclusive(q.locks, r) BY <1>0, <1>6, <1>8, GrantedExclusive
  <2> HIDE DEF old
  <2>2. LocksSound(r, q) BY <1>0, <1>6 DEF LocksSound, PhasesOf, LocksOf
  <2>3. DecideSound(r, q) /\ AnswerSound(r, q) BY <1>0, <1>6 DEF DecideSound, AnswerSound
  <2>4. CommandSound(r, q) BY <1>0, <1>6, <1>8 DEF CommandSound
  <2>. QED BY <1>6, <1>8, <2>1, <2>2, <2>3, <2>4, QuietSound DEF RequestSound
<1>9. CASE CancelRow(r)
  <2>1. /\ Op[r] = "cancel" /\ Granted(r) /\ row.status # "absent"
        /\ \/ row.saved # "none" /\ Answer(r, row.saved)
           \/ /\ row.saved = "none" /\ row.status # "accepted"
              /\ Become(r, q) /\ UNCHANGED <<tables, open>>
           \/ row.saved = "none" /\ row.status = "accepted" /\ Collect(r, request)
    BY <1>3, <1>5, <1>9 DEF CancelRow
  <2>2. CASE row.saved # "none" /\ Answer(r, row.saved)
    <3>1. row.saved \in Answers BY <1>0 DEF V!VenueOrder, Answers
    <3>. QED BY <2>1, <2>2, <3>1, EndSound
  <2>3. CASE row.saved = "none" /\ row.status = "accepted" /\ Collect(r, request)
    <3>1. Exclusive(request.locks, r) BY <1>0, <1>4, <2>1, GrantedExclusive
    <3>2. Collecting(r, request) BY <1>4, <2>1, <2>3 DEF Collecting
    <3>. QED BY <2>3, <3>1, <3>2, CollectSound
  <2>. QED BY <1>8, <2>1, <2>2, <2>3
<1>10. CASE TransitionRow(r)
  <2>1. /\ Op[r] = "start-preparing" /\ Granted(r)
        /\ \/ Answer(r, "none")
           \/ row.status = "accepted" /\ Become(r, q) /\ UNCHANGED <<tables, open>>
    BY <1>7, <1>10 DEF TransitionRow
  <2>2. CASE Answer(r, "none") BY <2>2, EndSound DEF Answers
  <2>. QED BY <1>8, <2>1, <2>2
<1>. QED BY <1>1, <1>9, <1>10

LEMMA ListSound ==
    ASSUME TransactionsSound, NEW r \in Requests,
           LoadItems(r) \/ ItemsLoaded(r) \/ ListDone(r)
    PROVE  TransactionsSound'
<1> DEFINE old == requests[r]
<1>0. /\ old \in Request /\ old.phase \in {"rows", "loading"} /\ Op[r] = "list"
      /\ old.wants = {} /\ old.locks \subseteq LocksOf(r) /\ old.answer = "none"
      /\ old.phase = "loading" => old.left > 0
  BY RequestTypes
     DEF TransactionsSound, RequestSound, LoadItems, ItemsLoaded, ListDone, In,
         LocksSound, PhasesOf, AnswerSound
<1>1. CASE ListDone(r) BY <1>1, EndSound DEF ListDone, Answers
<1>2. ASSUME NEW q \in Request, q.phase \in {"rows", "loading"}, q.locks = old.locks,
             q.wants = {}, q.answer = "none", q.phase = "loading" => q.left > 0,
             Become(r, q), UNCHANGED <<tables, open>>
      PROVE  TransactionsSound'
  <2>1. LocksSound(r, q) BY <1>0, <1>2 DEF LocksSound, PhasesOf
  <2>2. DecideSound(r, q) /\ CommandSound(r, q) /\ AnswerSound(r, q)
    BY <1>0, <1>2 DEF DecideSound, CommandSound, AnswerSound
  <2>3. Exclusive(q.locks, r) BY <1>2 DEF TransactionsSound
  <2>. QED BY <1>2, <2>1, <2>2, <2>3, QuietSound DEF RequestSound
<1>3. CASE LoadItems(r)
  <2>1. PICK q : q = [old EXCEPT !.phase = "loading", !.conns = 2] OBVIOUS
  <2>2. /\ q \in Request /\ q.phase = "loading" /\ q.locks = old.locks /\ q.wants = {}
        /\ q.answer = "none" /\ q.left = old.left
    <3>1. "loading" \in Phases /\ 2 \in 0..2 BY DEF Phases
    <3> HIDE DEF old
    <3>2. q \in Request BY <1>0, <2>1, <3>1 DEF Request
    <3>. QED BY <1>0, <2>1, <3>2 DEF Request
  <2>3. Become(r, q) /\ UNCHANGED <<tables, open>> /\ old.left > 0
    BY <1>3, <2>1 DEF LoadItems
  <2>. QED BY <1>2, <2>2, <2>3
<1>4. CASE ItemsLoaded(r)
  <2>1. PICK q : q = [old EXCEPT !.phase = "rows", !.conns = 1, !.left = old.left - 1] OBVIOUS
  <2>2. old.left - 1 \in 0..Cardinality(Orders)
    BY <1>0, <1>4, RequestTypes DEF ItemsLoaded, In, Request
  <2>3. /\ q \in Request /\ q.phase = "rows" /\ q.locks = old.locks /\ q.wants = {}
        /\ q.answer = "none"
    <3>1. "rows" \in Phases /\ 1 \in 0..2 BY DEF Phases
    <3> DEFINE less == old.left - 1
    <3>2. q = [old EXCEPT !.phase = "rows", !.conns = 1, !.left = less] /\ less \in 0..Cardinality(Orders)
      BY <2>1, <2>2
    <3> HIDE DEF old, less
    <3>3. q \in Request BY <1>0, <3>1, <3>2 DEF Request
    <3>. QED BY <1>0, <3>2, <3>3 DEF Request
  <2>4. Become(r, q) /\ UNCHANGED <<tables, open>> BY <1>4, <2>1 DEF ItemsLoaded
  <2>. QED BY <1>2, <2>3, <2>4
<1>. QED BY <1>1, <1>3, <1>4

\* An edit of the settings waits for whoever read them.
LEMMA EditSound == ASSUME TransactionsSound, EditSettings PROVE TransactionsSound'
<1>1. /\ \A r \in Requests : Settings \notin requests[r].locks
      /\ open' = ~open /\ UNCHANGED <<venue, stock, callbacks, requests>>
  BY DEF EditSettings, Holds, tables
<1>2. VP!VenueSound'
  <2>1. UNCHANGED VP!vars BY <1>1 DEF VP!vars
  <2>. QED BY <2>1, Assumptions, VP!VenueNext DEF TransactionsSound
<1>3. ASSUME NEW r \in Requests, NEW q, q = requests[r] PROVE RequestSound(r, q)'
  <2>1. RequestSound(r, q) /\ Settings \notin q.locks
    BY <1>1, <1>3 DEF TransactionsSound
  <2>. QED BY <1>1, <2>1, SoundStays
<1>4. ASSUME NEW r \in Requests PROVE RequestSound(r, requests[r])'
  <2>1. PICK q : q = requests[r] OBVIOUS
  <2>2. RequestSound(r, q)' /\ requests'[r] = q BY <1>1, <1>3, <2>1
  <2>. QED BY <2>2
<1>. QED BY <1>1, <1>2, <1>4 DEF TransactionsSound, Exclusive

-----------------------------------------------------------------------------
(* Commits *)

\* A commit of one request touches an order that no other request has locked,
\* and the stock of items that it has locked itself.
LEMMA CommitSound ==
    ASSUME TransactionsSound, NEW r \in Requests, NEW answer \in Answers,
           In(r, "commit"), Become(r, Gone(answer)), open' = open,
           VP!VenueSound', NEW row, venue' = [venue EXCEPT ![Order(r)] = row],
           \A i \in Items : stock'[i] = Unlimited <=> stock[i] = Unlimited,
           \A i \in Items : stock'[i] # stock[i] => Stock(i) \in requests[r].locks,
           LET old == venue[Order(r)]
           IN  /\ old.decision # "none" => row.decision = old.decision
               /\ old.saved # "none" => row.saved = old.saved,
           \/ Op[r] = "decide" /\ answer = row.decision
           \/ Op[r] = "cancel" /\ answer = row.saved
           \/ answer = "none"
    PROVE  TransactionsSound'
<1> DEFINE o == Order(r)
           mine == requests[r]
<1>0. /\ o \in Orders /\ venue \in [Orders -> V!VenueOrder]
      /\ requests \in [Requests -> Request] /\ open \in BOOLEAN
      /\ RequestSound(r, mine) /\ mine.phase = "commit"
  BY RequestTypes, TablesTypes DEF TransactionsSound, V!TypeOK, In
<1>1. /\ venue'[o] = row
      /\ \A p \in Orders \ {o} : venue'[p] = venue[p]
  BY <1>0
<1>2. PICK end : end = Gone(answer) OBVIOUS
<1>3. /\ end \in Request /\ end.phase = "ended" /\ end.answer = answer
      /\ end.locks = {} /\ end.wants = {}
  BY <1>2, GoneType
<1>4. /\ requests'[r] = end /\ \A p \in Requests \ {r} : requests'[p] = requests[p]
      /\ requests' \in [Requests -> Request]
  BY <1>0, <1>2, <1>3 DEF Become
<1>5. \/ /\ Op[r] = "decide" /\ venue[o].status = "absent" /\ Key(o) \in mine.locks
      \/ /\ Op[r] \in {"cancel", "start-preparing"}
         /\ venue[o].status # "absent" /\ Row(o) \in mine.locks
  BY <1>0, RequestTypes DEF RequestSound, LocksSound, PhasesOf, DecideSound, CommandSound
<1>6. ASSUME NEW p \in Requests \ {r}, NEW q, q = requests[p]
      PROVE  RequestSound(p, q)'
  <2>0. /\ RequestSound(p, q) /\ Order(p) \in Orders
        /\ Op[p] \in {"decide", "cancel", "start-preparing", "list"}
        /\ \A lock : lock \in q.locks /\ lock \in mine.locks => lock = Settings
    BY <1>6, RequestTypes DEF TransactionsSound, Exclusive
  <2> HIDE DEF o, mine
  <2>1. ASSUME q.phase \in {"settings", "items", "judge", "commit"}
        PROVE  venue'[Order(p)] = venue[Order(p)]
    <3>1. CASE Order(p) = o
      <4>1. \/ Op[p] = "decide" /\ venue[o].status = "absent" /\ Key(o) \in q.locks
            \/ /\ Op[p] \in {"cancel", "start-preparing"}
               /\ venue[o].status # "absent" /\ Row(o) \in q.locks
        BY <2>0, <2>1, <3>1
           DEF RequestSound, LocksSound, PhasesOf, DecideSound, CommandSound
      <4>. QED BY <1>5, <2>0, <4>1, LockNames
    <3>. QED BY <1>1, <2>0, <3>1
  <2>2. ASSUME q.phase = "ended", q.answer # "none"
        PROVE  /\ q.answer = venue[Order(p)].decision =>
                    venue'[Order(p)].decision = venue[Order(p)].decision
               /\ q.answer = venue[Order(p)].saved =>
                    venue'[Order(p)].saved = venue[Order(p)].saved
    <3>1. CASE Order(p) = o BY <1>1, <2>2, <3>1 DEF o
    <3>. QED BY <1>1, <2>0, <3>1
  <2>3. ASSUME HoldsItems(p, q), NEW i \in Ordered(p) PROVE stock'[i] = stock[i]
    <3>1. i \in Items /\ Stock(i) \in q.locks BY <2>3, RequestTypes DEF HoldsItems
    <3>. QED BY <2>0, <3>1, LockNames DEF mine
  <2>. QED BY <2>0, <2>1, <2>2, <2>3, SoundStays
<1>7. RequestSound(r, end)'
  <2>1. LocksSound(r, end)' BY <1>3 DEF LocksSound, PhasesOf
  <2>2. DecideSound(r, end)' BY <1>3 DEF DecideSound
  <2>3. CommandSound(r, end)' BY <1>3 DEF CommandSound
  <2>4. AnswerSound(r, end)'
    <3>1. Order(r)' = o BY DEF Order
    <3>. QED BY <1>1, <1>3, <3>1 DEF AnswerSound
  <2>5. (end \in Request)' BY <1>3 DEF Request, RowLocks, V!VenueOrder
  <2>. QED BY <2>1, <2>2, <2>3, <2>4, <2>5 DEF RequestSound
<1>8. ASSUME NEW p \in Requests PROVE RequestSound(p, requests[p])'
  <2>1. CASE p = r
    <3>1. requests'[p] = end BY <1>4, <2>1
    <3>. QED BY <1>7, <2>1, <3>1
  <2>2. CASE p # r
    <3>1. PICK q : q = requests[p] OBVIOUS
    <3>2. RequestSound(p, q)' /\ requests'[p] = q BY <1>4, <1>6, <2>2, <3>1
    <3>. QED BY <3>2
  <2>. QED BY <2>1, <2>2
<1>9. ASSUME NEW p \in Requests PROVE Exclusive(requests[p].locks, p)'
  BY <1>3, <1>4 DEF TransactionsSound, Exclusive
<1>. QED BY <1>0, <1>4, <1>8, <1>9 DEF TransactionsSound

\* A request that commits a command read the row that is there.
LEMMA CommitKnows ==
    ASSUME TransactionsSound, NEW r \in Requests, In(r, "commit")
    PROVE  /\ requests[r] \in Request /\ Order(r) \in Orders
           /\ LocksSound(r, requests[r]) /\ DecideSound(r, requests[r])
           /\ CommandSound(r, requests[r]) /\ requests[r].phase = "commit"
           /\ V!TypeOK /\ venue[Order(r)] \in V!VenueOrder
  BY RequestTypes, TablesTypes, VenueRows DEF TransactionsSound, RequestSound, In

\* What has been decided is still so when it is committed: DecideOrder in one step.
LEMMA CommitDecisionStep ==
    ASSUME TransactionsSound, NEW r \in Requests, CommitDecision(r)
    PROVE  /\ \E accepting, sameMenu \in BOOLEAN, offered \in SUBSET Items :
                V!DecideOrder(Order(r), accepting, sameMenu, offered)
           /\ V!Next /\ TransactionsSound'
           /\ requests[r].answer = "accepted" => open
<1> DEFINE old == requests[r]
           o == Order(r)
           answer == old.answer
           row == [venue[o] EXCEPT !.decision = answer,
                    !.status = IF answer = "accepted" THEN "accepted" ELSE "rejected"]
<1>0. /\ old \in Request /\ o \in Orders /\ Op[r] = "decide" /\ In(r, "commit")
      /\ DecideSound(r, old) /\ old.phase = "commit" /\ venue[o] \in V!VenueOrder
      /\ V!TypeOK /\ stock \in [Items -> Nat \cup {Unlimited}]
  BY CommitKnows DEF CommitDecision, V!TypeOK
<1>1. /\ venue[o].status = "absent"
      /\ \/ answer = "venue_closed"
         \/ answer = "menu_changed" /\ open
         \/ /\ open /\ HoldsItems(r, old)
            /\ \E offered \in SUBSET Items : answer = V!Judge(o, TRUE, TRUE, offered)
  BY <1>0 DEF DecideSound
<1>2. /\ venue' = [venue EXCEPT ![o].decision = answer,
                     ![o].status = IF answer = "accepted" THEN "accepted" ELSE "rejected"]
      /\ stock' = IF answer = "accepted" THEN V!Reserved(o) ELSE stock
      /\ Become(r, Gone(answer)) /\ callbacks' = callbacks /\ open' = open
  BY <1>1 DEF CommitDecision
<1>3. \E accepting, sameMenu \in BOOLEAN, offered \in SUBSET Items :
        /\ answer = V!Judge(o, accepting, sameMenu, offered)
        /\ answer = "accepted" => open /\ HoldsItems(r, old) /\ V!Lacking(o, offered) = {}
  <2>1. CASE answer = "venue_closed"
    <3>1. answer = V!Judge(o, FALSE, TRUE, {}) /\ answer # "accepted" BY <2>1 DEF V!Judge
    <3> HIDE DEF answer
    <3>. WITNESS FALSE \in BOOLEAN, TRUE \in BOOLEAN, {} \in SUBSET Items
    <3>. QED BY <3>1
  <2>2. CASE answer = "menu_changed"
    <3>1. answer = V!Judge(o, TRUE, FALSE, {}) /\ answer # "accepted" BY <2>2 DEF V!Judge
    <3> HIDE DEF answer
    <3>. WITNESS TRUE \in BOOLEAN, FALSE \in BOOLEAN, {} \in SUBSET Items
    <3>. QED BY <3>1
  <2>3. CASE /\ open /\ HoldsItems(r, old)
             /\ \E offered \in SUBSET Items : answer = V!Judge(o, TRUE, TRUE, offered)
    <3>1. PICK offered \in SUBSET Items : answer = V!Judge(o, TRUE, TRUE, offered)
      BY <2>3
    <3>2. answer = "accepted" => V!Lacking(o, offered) = {} BY <3>1 DEF V!Judge
    <3>. QED BY <2>3, <3>1, <3>2
  <2>. QED BY <1>1, <2>1, <2>2, <2>3
<1>4. PICK accepting \in BOOLEAN, sameMenu \in BOOLEAN, offered \in SUBSET Items :
        /\ answer = V!Judge(o, accepting, sameMenu, offered)
        /\ answer = "accepted" => open /\ HoldsItems(r, old) /\ V!Lacking(o, offered) = {}
  BY <1>3
<1>5. V!DecideOrder(o, accepting, sameMenu, offered)
  BY <1>1, <1>2, <1>4 DEF V!DecideOrder
<1>6. V!Next BY <1>0, <1>5 DEF V!Next
<1>7. VP!VenueSound' BY <1>6, Assumptions, VenueSame, VP!VenueNext DEF TransactionsSound
<1>8. venue' = [venue EXCEPT ![o] = row] BY <1>2
<1>9. /\ \A i \in Items : stock'[i] = Unlimited <=> stock[i] = Unlimited
      /\ \A i \in Items : stock'[i] # stock[i] => Stock(i) \in old.locks
  <2>1. CASE answer # "accepted" BY <1>2, <2>1
  <2>2. CASE answer = "accepted"
    <3>1. SUFFICES ASSUME NEW i \in Items, stock[i] # Unlimited
                   PROVE  /\ stock'[i] # Unlimited
                          /\ stock'[i] # stock[i] => Stock(i) \in old.locks
      BY <1>2, <2>2 DEF V!Reserved
    <3>2. stock[i] \in Nat /\ Quantity[o][i] \in Nat /\ stock'[i] = stock[i] - Quantity[o][i]
      BY <1>0, <1>2, <2>2, <3>1, TablesAssumption DEF V!Reserved
    <3>3. Quantity[o][i] > 0 => ~(stock[i] < Quantity[o][i])
      BY <1>4, <2>2, <3>1 DEF V!Lacking
    <3>4. stock'[i] \in Nat BY <3>2, <3>3
    <3>5. stock'[i] # stock[i] => i \in Ordered(r) BY <1>0, <3>2 DEF Ordered
    <3>. QED BY <1>4, <2>2, <3>4, <3>5, TablesAssumption DEF HoldsItems
  <2>. QED BY <2>1, <2>2
<1>10. venue[o].decision = "none" /\ row.decision = answer /\ row.saved = venue[o].saved
  BY <1>0, <1>1, VenueRows DEF V!VenueOrder
<1>11. answer \in Answers BY <1>0 DEF Request
<1>12. TransactionsSound'
  <2> HIDE DEF old, row
  <2>. QED BY <1>0, <1>2, <1>7, <1>8, <1>9, <1>10, <1>11, CommitSound DEF old
<1>. QED BY <1>4, <1>5, <1>6, <1>12

LEMMA CommitCancellationStep ==
    ASSUME TransactionsSound, NEW r \in Requests, CommitCancellation(r)
    PROVE  V!CancelOrder(Order(r)) /\ V!Next /\ TransactionsSound'
<1> DEFINE old == requests[r]
           o == Order(r)
           work == old.seen.status = "accepted"
           row == IF work
                  THEN [venue[o] EXCEPT !.status = "cancelled", !.next = venue[o].next + 1,
                                        !.saved = "cancelled"]
                  ELSE [venue[o] EXCEPT !.saved = "rejected"]
           answer == IF work THEN "cancelled" ELSE "rejected"
<1>0. /\ old \in Request /\ o \in Orders /\ Op[r] = "cancel" /\ In(r, "commit")
      /\ CommandSound(r, old) /\ old.phase = "commit" /\ venue[o] \in V!VenueOrder
      /\ V!TypeOK /\ stock \in [Items -> Nat \cup {Unlimited}]
  BY CommitKnows DEF CommitCancellation, V!TypeOK
<1>1. /\ old.seen = venue[o] /\ venue[o].status # "absent" /\ venue[o].saved = "none"
      /\ work => HoldsItems(r, old)
  BY <1>0 DEF CommandSound
<1>2. V!CancelOrder(o)
  <2>1. CASE work
    <3>1. V!CancelAccepted(o)
      BY <1>1, <2>1 DEF CommitCancellation, Report, V!CancelAccepted, V!Undecided,
                        V!Cancellable, V!Enqueue
    <3>. QED BY <3>1 DEF V!CancelOrder
  <2>2. CASE ~work
    <3>1. V!RefuseCancellation(o)
      BY <1>1, <2>2 DEF CommitCancellation, V!RefuseCancellation, V!Undecided,
                        V!Cancellable
    <3>. QED BY <3>1 DEF V!CancelOrder
  <2>. QED BY <2>1, <2>2
<1>3. V!Next BY <1>0, <1>2 DEF V!Next
<1>4. VP!VenueSound' BY <1>3, Assumptions, VenueSame, VP!VenueNext DEF TransactionsSound
<1>5. venue' = [venue EXCEPT ![o] = row] /\ row.decision = venue[o].decision
      /\ row.saved = answer /\ answer \in Answers
  <2>1. CASE work BY <1>0, <2>1 DEF CommitCancellation, V!VenueOrder, Answers
  <2>2. CASE ~work BY <1>0, <2>2 DEF CommitCancellation, V!VenueOrder, Answers
  <2>. QED BY <2>1, <2>2
<1>6. Become(r, Gone(answer)) /\ open' = open
      /\ stock' = IF work THEN V!Released(o) ELSE stock
  BY DEF CommitCancellation
<1>7. /\ \A i \in Items : stock'[i] = Unlimited <=> stock[i] = Unlimited
      /\ \A i \in Items : stock'[i] # stock[i] => Stock(i) \in old.locks
  <2>1. CASE ~work BY <1>6, <2>1
  <2>2. CASE work
    <3>1. SUFFICES ASSUME NEW i \in Items, stock[i] # Unlimited
                   PROVE  /\ stock'[i] # Unlimited
                          /\ stock'[i] # stock[i] => Stock(i) \in old.locks
      BY <1>6, <2>2 DEF V!Released
    <3>2. stock[i] \in Nat /\ Quantity[o][i] \in Nat /\ stock'[i] = stock[i] + Quantity[o][i]
      BY <1>0, <1>6, <2>2, <3>1, TablesAssumption DEF V!Released
    <3>3. stock'[i] \in Nat BY <3>2
    <3>4. stock'[i] # stock[i] => i \in Ordered(r) BY <3>1, <3>2 DEF Ordered
    <3>. QED BY <1>1, <2>2, <3>3, <3>4, TablesAssumption DEF HoldsItems
  <2>. QED BY <2>1, <2>2
<1>8. TransactionsSound'
  <2> HIDE DEF old, row, answer
  <2>. QED BY <1>0, <1>1, <1>4, <1>5, <1>6, <1>7, CommitSound DEF old
<1>. QED BY <1>2, <1>3, <1>8

LEMMA CommitTransitionStep ==
    ASSUME TransactionsSound, NEW r \in Requests, CommitTransition(r)
    PROVE  V!StartPreparing(Order(r)) /\ V!Next /\ TransactionsSound'
<1> DEFINE old == requests[r]
           o == Order(r)
           row == [venue[o] EXCEPT !.status = "preparing", !.next = venue[o].next + 1]
<1>0. /\ o \in Orders /\ Op[r] = "start-preparing" /\ In(r, "commit")
      /\ CommandSound(r, old) /\ old.phase = "commit" /\ venue[o] \in V!VenueOrder
  BY CommitKnows DEF CommitTransition
<1>1. old.seen = venue[o] /\ venue[o].status = "accepted" BY <1>0 DEF CommandSound
<1>2. V!StartPreparing(o)
  BY <1>1 DEF CommitTransition, Report, V!StartPreparing, V!Transition, V!Enqueue
<1>3. V!Next BY <1>0, <1>2 DEF V!Next
<1>4. VP!VenueSound' BY <1>3, Assumptions, VenueSame, VP!VenueNext DEF TransactionsSound
<1>5. venue' = [venue EXCEPT ![o] = row] /\ row.decision = venue[o].decision
      /\ row.saved = venue[o].saved
  BY <1>0 DEF CommitTransition, V!VenueOrder
<1>6. Become(r, Gone("none")) /\ open' = open /\ stock' = stock /\ "none" \in Answers
  BY DEF CommitTransition, Answers
<1>7. TransactionsSound'
  <2> HIDE DEF row
  <2>. QED BY <1>0, <1>4, <1>5, <1>6, CommitSound
<1>. QED BY <1>2, <1>3, <1>7

-----------------------------------------------------------------------------
(* The theorems *)

LEMMA TransactionsInit == Init => TransactionsSound
<1> SUFFICES ASSUME Init PROVE TransactionsSound OBVIOUS
<1>1. VP!VenueSound
  BY Assumptions, VenueSame, VP!VenueInit DEF Init
<1>2. requests \in [Requests -> Request] /\ open \in BOOLEAN
  BY NewRequestType DEF Init
<1>3. ASSUME NEW r \in Requests
      PROVE  RequestSound(r, requests[r]) /\ Exclusive(requests[r].locks, r)
  <2>1. PICK q : q = requests[r] OBVIOUS
  <2>2. /\ q \in Request /\ q.phase = "queued" /\ q.locks = {} /\ q.wants = {}
        /\ q.answer = "none"
    BY <1>2, <2>1 DEF Init, NewRequest
  <2>3. LocksSound(r, q) BY <2>2 DEF LocksSound, PhasesOf
  <2>4. DecideSound(r, q) /\ CommandSound(r, q) /\ AnswerSound(r, q)
    BY <2>2 DEF DecideSound, CommandSound, AnswerSound
  <2>5. Exclusive(q.locks, r) BY <2>2 DEF Exclusive
  <2>. QED BY <2>1, <2>2, <2>3, <2>4, <2>5 DEF RequestSound
<1>. QED BY <1>1, <1>2, <1>3 DEF TransactionsSound

\* The steps but for the commits leave the tables alone.
QuietStep ==
    \/ EditSettings
    \/ \E r \in Requests :
        \/ Begin(r) \/ LockItem(r) \/ LockKey(r) \/ ReadSettings(r) \/ Judge(r)
        \/ MissingRow(r) \/ CancelRow(r) \/ TransitionRow(r)
        \/ LoadItems(r) \/ ItemsLoaded(r) \/ ListDone(r)
        \/ AbortVictim(r) \/ Interrupt(r)

Commit(r) == CommitDecision(r) \/ CommitCancellation(r) \/ CommitTransition(r)

LEMMA NextSplit == Next => QuietStep \/ \E r \in Requests : Commit(r)
  BY DEF Next, Step, QuietStep, Commit

LEMMA QuietTables == ASSUME QuietStep PROVE UNCHANGED tables
<1>1. CASE EditSettings BY <1>1 DEF EditSettings
<1>2. ASSUME NEW r \in Requests,
             Begin(r) \/ LockItem(r) \/ LockKey(r) \/ ReadSettings(r) \/ Judge(r)
                \/ LoadItems(r) \/ ItemsLoaded(r)
      PROVE  UNCHANGED tables
  BY <1>2 DEF Begin, LockItem, LockKey, ReadSettings, Judge, LoadItems, ItemsLoaded,
              Collect, Answer
<1>3. ASSUME NEW r \in Requests,
             MissingRow(r) \/ CancelRow(r) \/ TransitionRow(r) \/ ListDone(r)
                \/ AbortVictim(r) \/ Interrupt(r)
      PROVE  UNCHANGED tables
  BY <1>3 DEF MissingRow, CancelRow, TransitionRow, ListDone, AbortVictim, Interrupt,
              Fail, Collect, Answer
<1>. QED BY <1>1, <1>2, <1>3 DEF QuietStep

LEMMA TransactionsNext == TransactionsSound /\ [Next]_vars => TransactionsSound'
<1> SUFFICES ASSUME TransactionsSound, [Next]_vars PROVE TransactionsSound' OBVIOUS
<1>1. CASE UNCHANGED vars
  <2>1. UNCHANGED <<venue, stock, callbacks, open, requests>> BY <1>1 DEF vars
  <2>2. VP!VenueSound'
    <3>1. UNCHANGED VP!vars BY <2>1 DEF VP!vars
    <3>. QED BY <3>1, Assumptions, VP!VenueNext DEF TransactionsSound
  <2>3. ASSUME NEW r \in Requests, NEW q, q = requests[r] PROVE RequestSound(r, q)'
    BY <2>1, <2>3, SoundStays DEF TransactionsSound
  <2>4. ASSUME NEW r \in Requests PROVE RequestSound(r, requests[r])'
    <3>1. PICK q : q = requests[r] OBVIOUS
    <3>2. RequestSound(r, q)' /\ requests'[r] = q BY <2>1, <2>3, <3>1
    <3>. QED BY <3>2
  <2>. QED BY <2>1, <2>2, <2>4 DEF TransactionsSound, Exclusive
<1>2. CASE QuietStep
  BY <1>2, EditSound, BeginSound, LockItemSound, LockKeySound, ReadSettingsSound,
     JudgeSound, RowSound, ListSound, FailSound DEF QuietStep
<1>3. ASSUME NEW r \in Requests, Commit(r) PROVE TransactionsSound'
  BY <1>3, CommitDecisionStep, CommitCancellationStep, CommitTransitionStep DEF Commit
<1>. QED BY <1>1, <1>2, <1>3, NextSplit

LEMMA Soundness == Spec => []TransactionsSound
<1>. QED BY TransactionsInit, TransactionsNext, PTL DEF Spec

\* Every request is in a phase of its operation with the locks that it may
\* hold, and the tables keep their types.
THEOREM TypeCorrect == Spec => []TypeOK
<1>1. TransactionsSound => TypeOK BY TablesTypes DEF TransactionsSound, TypeOK
<1>. QED BY <1>1, Soundness, PTL

\* What DecideOrder and CancelOrder answer is what the tables keep, and the
\* UNIQUE constraint of platform_order_id never refuses a decision.
THEOREM AnswersStored == Spec => []AnswersAgree
<1>1. TransactionsSound => AnswersAgree
  <2> SUFFICES ASSUME TransactionsSound, NEW r \in Requests
               PROVE  LET answer == requests[r].answer
                      IN  /\ answer # "conflict"
                          /\ Ended(r) /\ answer # "none" =>
                              /\ Op[r] = "decide" => answer = venue[Order(r)].decision
                              /\ Op[r] = "cancel" /\ answer # "not_found" =>
                                    answer = venue[Order(r)].saved
    BY DEF AnswersAgree
  <2>1. /\ AnswerSound(r, requests[r]) /\ DecideSound(r, requests[r])
        /\ venue[Order(r)] \in V!VenueOrder
    BY RequestTypes, VenueRows DEF TransactionsSound, RequestSound
  <2>2. requests[r].answer # "conflict"
    <3>1. CASE requests[r].phase = "commit" /\ Op[r] = "decide"
      BY <2>1, <3>1 DEF DecideSound, V!Judge
    <3>2. CASE ~(requests[r].phase = "commit" /\ Op[r] = "decide")
      BY <2>1, <3>2 DEF AnswerSound, V!VenueOrder, V!Reasons
    <3>. QED BY <3>1, <3>2
  <2>. QED BY <2>1, <2>2 DEF AnswerSound, Ended, In
<1>. QED BY <1>1, Soundness, PTL

\* A commit of DecideOrder accepts an order only while the settings, which it
\* has locked FOR SHARE, still say that the venue is open.
THEOREM AcceptedOnlyOpen == Spec => AcceptedWhileOpen
<1>1. TransactionsSound /\ [Next]_vars =>
        [\A o \in Orders :
            venue[o].decision = "none" /\ venue'[o].decision = "accepted" => open]_vars
  <2> SUFFICES ASSUME TransactionsSound, Next, NEW o \in Orders,
                      venue[o].decision = "none", venue'[o].decision = "accepted"
               PROVE  open
    OBVIOUS
  <2>1. PICK r \in Requests : Commit(r)
    BY NextSplit, QuietTables DEF tables
  <2>2. CASE CommitDecision(r)
    <3>1. /\ requests[r].answer = "accepted" => open
          /\ DecideSound(r, requests[r]) /\ requests[r].phase = "commit"
          /\ Op[r] = "decide" /\ V!TypeOK /\ Order(r) \in Orders
      BY <2>2, CommitDecisionStep, CommitKnows DEF CommitDecision
    <3>2. venue[Order(r)].status = "absent" BY <3>1 DEF DecideSound
    <3>3. venue' = [venue EXCEPT ![Order(r)].decision = requests[r].answer,
                     ![Order(r)].status = IF requests[r].answer = "accepted"
                                          THEN "accepted" ELSE "rejected"]
      BY <2>2, <3>2 DEF CommitDecision
    <3>. QED BY <3>1, <3>3 DEF V!TypeOK, V!VenueOrder
  <2>3. CASE CommitCancellation(r) \/ CommitTransition(r)
    <3>1. V!TypeOK /\ Order(r) \in Orders
      BY <2>3, CommitKnows DEF CommitCancellation, CommitTransition
    <3>. QED BY <2>3, <3>1 DEF CommitCancellation, CommitTransition, V!TypeOK, V!VenueOrder
  <2>. QED BY <2>1, <2>2, <2>3 DEF Commit
<1>. QED BY <1>1, Soundness, PTL DEF Spec, AcceptedWhileOpen

\* However the statements of concurrent requests interleave, and whatever ends
\* some of them early, the committed tables are those of the single steps of
\* VenueOrders.
THEOREM TransactionsAtomic == Spec => ImplementsVenueOrders
<1>1. Init => V!Init BY DEF Init
<1>2. TransactionsSound /\ [Next]_vars => [V!Next]_(V!vars)
  <2> SUFFICES ASSUME TransactionsSound, [Next]_vars PROVE [V!Next]_(V!vars) OBVIOUS
  <2>1. CASE UNCHANGED vars BY <2>1 DEF vars, V!vars
  <2>2. CASE QuietStep BY <2>2, QuietTables DEF tables, V!vars
  <2>3. ASSUME NEW r \in Requests, Commit(r) PROVE V!Next
    BY <2>3, CommitDecisionStep, CommitCancellationStep, CommitTransitionStep DEF Commit
  <2>. QED BY <2>1, <2>2, <2>3, NextSplit
<1>. QED BY <1>1, <1>2, Soundness, PTL DEF Spec, ImplementsVenueOrders, V!Spec

\* A decision that waits for an item waits for one that only a decision further
\* along the order of the items may hold.
LEMMA WaitingDecides ==
    ASSUME TransactionsSound, NEW stuck \in SUBSET Waiting, Cycle(stuck),
           \A r \in stuck : Op[r] # "cancel", NEW r \in stuck
    PROVE  \E q \in stuck, j \in Items :
              /\ requests[q].phase = "items" /\ requests[q].wants = {Stock(j)}
              /\ \A i \in Items : requests[r].wants = {Stock(i)} => i < j
<1> DEFINE Decides(q) ==
        /\ Op[q] = "decide" /\ requests[q].phase \in {"key", "items"}
        /\ requests[q].phase = "key" => requests[q].locks = {}
<1>0. ASSUME NEW q \in stuck
      PROVE  /\ q \in Requests /\ RequestSound(q, requests[q])
             /\ requests[q].wants # {}
             /\ Op[q] \in {"decide", "start-preparing"}
             /\ Op[q] = "start-preparing" =>
                    requests[q].locks = {} /\ requests[q].wants = {Row(Order(q))}
             /\ Op[q] = "decide" => Decides(q)
  <2>1. q \in Requests /\ RequestSound(q, requests[q]) /\ requests[q].wants # {}
    BY DEF Waiting, TransactionsSound
  <2>. QED BY <2>1, RequestTypes DEF RequestSound, LocksSound, PhasesOf
<1> HIDE DEF Decides
<1>1. ASSUME NEW p \in stuck
      PROVE  \E q \in stuck, lock \in requests[p].wants :
                lock \in requests[q].locks /\ Decides(q)
  <2>1. PICK q \in stuck, lock \in requests[p].wants : lock \in requests[q].locks
    BY DEF Cycle, WaitsFor, Holds
  <2>. QED BY <1>0, <2>1
<1>2. PICK q \in stuck, lock \in requests[r].wants :
            lock \in requests[q].locks /\ Decides(q)
  BY <1>1
<1>3. requests[q].phase = "items" /\ Op[q] = "decide" /\ LocksSound(q, requests[q])
  BY <1>0, <1>2 DEF Decides, RequestSound
<1>4. PICK j \in Ordered(q) :
        /\ requests[q].wants = {Stock(j)}
        /\ \A k \in Items : Stock(k) \in requests[q].locks <=> k \in Ordered(q) /\ k < j
  BY <1>3 DEF LocksSound
<1>5. j \in Items BY <1>0, RequestTypes
<1>6. ASSUME NEW i \in Items, requests[r].wants = {Stock(i)} PROVE i < j
  BY <1>2, <1>4, <1>6
<1>. QED BY <1>3, <1>4, <1>5, <1>6

\* No cycle of waiting transactions is made of decisions and transitions alone:
\* DecideOrder locks the items in the order of external_id.
THEOREM OnlyCancellationsDeadlock == Spec => []DecisionsNeverDeadlock
<1>1. TransactionsSound => DecisionsNeverDeadlock
  <2> SUFFICES ASSUME TransactionsSound, NEW stuck \in SUBSET Waiting, Cycle(stuck),
                      \A r \in stuck : Op[r] # "cancel"
               PROVE  FALSE
    BY DEF DecisionsNeverDeadlock
  <2>0. ASSUME NEW r \in stuck
        PROVE  \E q \in stuck, j \in Items :
                  /\ requests[q].wants = {Stock(j)}
                  /\ \A i \in Items : requests[r].wants = {Stock(i)} => i < j
    <3>1. \E q \in stuck, j \in Items :
              /\ requests[q].phase = "items" /\ requests[q].wants = {Stock(j)}
              /\ \A i \in Items : requests[r].wants = {Stock(i)} => i < j
      BY WaitingDecides
    <3>. QED BY <3>1
  <2> DEFINE S == {i \in Items : \E r \in stuck : requests[r].wants = {Stock(i)}}
             part == [i \in S |-> {k \in S : i <= k}]
  <2>1. PICK first \in stuck : TRUE BY DEF Cycle
  <2>2. S # {} BY <2>0, <2>1
  <2>3. ASSUME NEW i \in S PROVE \E j \in S : i < j
    <3>1. PICK r \in stuck : requests[r].wants = {Stock(i)} OBVIOUS
    <3>2. PICK q \in stuck, j \in Items : requests[q].wants = {Stock(j)} /\ i < j
      BY <2>0, <3>1
    <3>. QED BY <3>2
  <2>4. S \in SUBSET Items /\ S \subseteq Nat BY ItemsAssumption
  <2>5. part \in [S -> SUBSET Items] BY <2>4
  <2>6. PICK x \in S : \A j \in S : part[j] \subseteq part[x] => part[j] = part[x]
    <3> HIDE DEF part, S
    <3>. QED BY <2>2, <2>4, <2>5, SmallestPart
  <2>7. PICK j \in S : x < j BY <2>3
  <2> HIDE DEF S
  <2>8. ASSUME NEW k \in S, j <= k PROVE x <= k BY <2>4, <2>7, <2>8
  <2>9. part[j] \subseteq part[x] BY <2>8
  <2>10. x \in part[x] /\ x \notin part[j] BY <2>4, <2>7
  <2>. QED BY <2>6, <2>9, <2>10
<1>. QED BY <1>1, Soundness, PTL

-----------------------------------------------------------------------------
(* Connections *)

\* The statement a request is about to run says how many connections it has.
ConnsOf(phase) == CASE phase \in {"queued", "ended"} -> 0
                    [] phase = "loading" -> 2
                    [] OTHER -> 1

ConnSound(q) == q.conns = ConnsOf(q.phase)

ConnsSound == \A r \in Requests : ConnSound(requests[r])

\* A request takes one connection at a time, when the pool has one.
Fits(r, q) ==
    /\ ConnSound(q)
    /\ q.conns <= requests[r].conns \/ (q.conns = requests[r].conns + 1 /\ Available)

LEMMA CollectConns ==
    ASSUME NEW r \in Requests, requests[r].conns = 1,
           NEW request \in Request, request.conns = 1, Collect(r, request)
    PROVE  \E q : Become(r, q) /\ Fits(r, q)
<1>1. ASSUME NEW phase \in {"judge", "commit", "items"}, NEW wants
      PROVE  Fits(r, [request EXCEPT !.phase = phase, !.wants = wants])
  BY DEF Request, Fits, ConnSound, ConnsOf
<1>2. \E phase \in {"judge", "commit", "items"} : \E wants :
            Become(r, [request EXCEPT !.phase = phase, !.wants = wants])
  BY DEF Collect
<1>. QED BY <1>1, <1>2

LEMMA StepConns ==
    ASSUME TransactionsSound, ConnsSound, NEW r \in Requests,
           Step(r) \/ AbortVictim(r) \/ Interrupt(r)
    PROVE  \E q : Become(r, q) /\ Fits(r, q)
<1>0. /\ requests[r] \in Request /\ requests[r].conns \in Nat
      /\ In(r, "queued") => requests[r].conns = 0
      /\ In(r, "loading") => requests[r].conns = 2
      /\ requests[r].phase \notin {"queued", "ended", "loading"} => requests[r].conns = 1
  BY DEF TransactionsSound, ConnsSound, ConnSound, ConnsOf, In, Request
<1>1. ASSUME NEW answer PROVE Fits(r, Gone(answer))
  BY <1>0 DEF Gone, NewRequest, Fits, ConnSound, ConnsOf
<1>2. ASSUME NEW answer, Answer(r, answer) \/ Become(r, Gone(answer))
      PROVE  \E q : Become(r, q) /\ Fits(r, q)
  BY <1>1, <1>2 DEF Answer
\* A request with one connection that goes on.
<1>3. ASSUME NEW q, Become(r, q), q.phase \notin {"queued", "ended", "loading"},
             q.conns = 1,
             \/ requests[r].conns = 1
             \/ requests[r].conns = 2
             \/ In(r, "queued") /\ Available
      PROVE  \E x : Become(r, x) /\ Fits(r, x)
  BY <1>0, <1>3 DEF Fits, ConnSound, ConnsOf
<1>4. CASE Begin(r)
  <2>1. PICK q : /\ Become(r, q)
                 /\ \/ q = [NewRequest EXCEPT !.phase = "rows", !.conns = 1,
                              !.left = Cardinality({o \in Orders : venue[o].status # "absent"})]
                    \/ q = [NewRequest EXCEPT !.conns = 1, !.wants = FirstLock(r),
                              !.phase = IF Op[r] = "decide" THEN "key" ELSE "row"]
    BY <1>4 DEF Begin
  <2>2. q.phase \in {"rows", "key", "row"} /\ q.conns = 1 BY <2>1 DEF NewRequest
  <2>3. In(r, "queued") /\ Available BY <1>4 DEF Begin
  <2>. QED BY <1>3, <2>1, <2>2, <2>3
<1>5. CASE LockItem(r)
  <2>1. PICK request : /\ request = [requests[r] EXCEPT !.locks = @ \cup requests[r].wants]
                       /\ Collect(r, request)
    BY <1>5 DEF LockItem
  <2>2. requests[r].conns = 1 BY <1>0, <1>5 DEF LockItem, In
  <2>3. request \in Request /\ request.conns = 1 BY <1>0, <2>1, <2>2 DEF Request
  <2>. QED BY <2>1, <2>2, <2>3, CollectConns
<1>6. CASE LockKey(r)
  <2>0. requests[r].conns = 1 BY <1>0, <1>6 DEF LockKey, In
  <2>1. CASE venue[Order(r)].status # "absent" BY <1>2, <1>6, <2>1 DEF LockKey
  <2>2. CASE venue[Order(r)].status = "absent"
    <3>1. PICK q : /\ q = [requests[r] EXCEPT !.phase = "settings", !.wants = {},
                                !.locks = @ \cup requests[r].wants]
                   /\ Become(r, q)
      BY <1>6, <2>2 DEF LockKey
    <3>2. q.phase = "settings" /\ q.conns = 1 BY <1>0, <2>0, <3>1 DEF Request
    <3>. QED BY <1>3, <2>0, <3>1, <3>2
  <2>. QED BY <2>1, <2>2
<1>7. CASE ReadSettings(r)
  <2>0. requests[r].conns = 1 BY <1>0, <1>7 DEF ReadSettings, In
  <2>1. PICK request : request = [requests[r] EXCEPT !.locks = @ \cup SettingsLock]
    OBVIOUS
  <2>2. request \in Request /\ request.conns = 1
    BY <1>0, <2>0, <2>1 DEF Request, SettingsLock
  <2>3. CASE Collect(r, request) BY <2>0, <2>2, <2>3, CollectConns
  <2>4. ASSUME NEW answer, Become(r, [request EXCEPT !.phase = "commit", !.answer = answer])
        PROVE  \E q : Become(r, q) /\ Fits(r, q)
    <3>1. PICK q : q = [request EXCEPT !.phase = "commit", !.answer = answer] OBVIOUS
    <3>2. q.phase = "commit" /\ q.conns = 1 BY <2>2, <3>1 DEF Request
    <3>. QED BY <1>3, <2>0, <2>4, <3>1, <3>2
  <2>. QED BY <1>7, <2>1, <2>3, <2>4 DEF ReadSettings
<1>8. CASE Judge(r)
  <2>0. requests[r].conns = 1 BY <1>0, <1>8 DEF Judge, In
  <2>1. PICK answer, q : /\ q = [requests[r] EXCEPT !.phase = "commit", !.answer = answer]
                         /\ Become(r, q)
    BY <1>8 DEF Judge
  <2>2. q.phase = "commit" /\ q.conns = 1 BY <1>0, <2>0, <2>1 DEF Request
  <2>. QED BY <1>3, <2>0, <2>1, <2>2
<1>9. CASE CommitDecision(r) \/ CommitCancellation(r) \/ CommitTransition(r)
  BY <1>2, <1>9 DEF CommitDecision, CommitCancellation, CommitTransition
<1>10. CASE MissingRow(r) \/ ListDone(r) \/ AbortVictim(r) \/ Interrupt(r)
  BY <1>2, <1>10 DEF MissingRow, ListDone, AbortVictim, Interrupt, Fail
<1>11. CASE CancelRow(r)
  <2>0. requests[r].conns = 1 BY <1>0, <1>11 DEF CancelRow, In
  <2>1. PICK request : request = [requests[r] EXCEPT !.seen = venue[Order(r)],
                                      !.locks = @ \cup requests[r].wants]
    OBVIOUS
  <2>2. request \in Request /\ request.conns = 1
    BY <1>0, <2>0, <2>1, RequestTypes, VenueRows DEF Request
  <2>3. PICK q : q = [request EXCEPT !.phase = "commit", !.wants = {}] OBVIOUS
  <2>4. q.phase = "commit" /\ q.conns = 1 BY <2>2, <2>3 DEF Request
  <2>5. Answer(r, venue[Order(r)].saved) \/ Become(r, q) \/ Collect(r, request)
    BY <1>11, <2>1, <2>3 DEF CancelRow
  <2>6. CASE Become(r, q) BY <1>3, <2>0, <2>4, <2>6
  <2>. QED BY <1>2, <2>0, <2>2, <2>5, <2>6, CollectConns
<1>12. CASE TransitionRow(r)
  <2>0. requests[r].conns = 1 BY <1>0, <1>12 DEF TransitionRow, In
  <2>1. CASE Answer(r, "none") BY <1>2, <2>1
  <2>2. CASE Become(r, [requests[r] EXCEPT !.phase = "commit", !.seen = venue[Order(r)],
                            !.wants = {}, !.locks = @ \cup requests[r].wants])
    <3>1. PICK q : q = [requests[r] EXCEPT !.phase = "commit", !.seen = venue[Order(r)],
                            !.wants = {}, !.locks = @ \cup requests[r].wants]
      OBVIOUS
    <3>2. q.phase = "commit" /\ q.conns = 1 BY <1>0, <2>0, <3>1 DEF Request
    <3>. QED BY <1>3, <2>0, <2>2, <3>1, <3>2
  <2>. QED BY <1>12, <2>1, <2>2 DEF TransitionRow
<1>13. CASE LoadItems(r)
  <2>1. requests[r].conns = 1 /\ Available BY <1>0, <1>13 DEF LoadItems, In
  <2>2. PICK q : q = [requests[r] EXCEPT !.phase = "loading", !.conns = 2] OBVIOUS
  <2>3. q.phase = "loading" /\ q.conns = 2 BY <1>0, <2>2 DEF Request
  <2>4. Fits(r, q) BY <2>1, <2>3 DEF Fits, ConnSound, ConnsOf
  <2>. QED BY <1>13, <2>2, <2>4 DEF LoadItems
<1>14. CASE ItemsLoaded(r)
  <2>1. PICK q : /\ q = [requests[r] EXCEPT !.phase = "rows", !.conns = 1, !.left = @ - 1]
                 /\ Become(r, q)
    BY <1>14 DEF ItemsLoaded
  <2>2. q.phase = "rows" /\ q.conns = 1 BY <1>0, <2>1 DEF Request
  <2>3. requests[r].conns = 2 BY <1>0, <1>14 DEF ItemsLoaded
  <2>. QED BY <1>3, <2>1, <2>2, <2>3
<1>. QED BY <1>4, <1>5, <1>6, <1>7, <1>8, <1>9, <1>10, <1>11, <1>12, <1>13, <1>14 DEF Step

LEMMA ConnsNext == TransactionsSound /\ ConnsSound /\ [Next]_vars => ConnsSound'
<1> SUFFICES ASSUME TransactionsSound, ConnsSound, [Next]_vars PROVE ConnsSound' OBVIOUS
<1>1. CASE UNCHANGED requests BY <1>1 DEF ConnsSound, ConnSound
<1>2. ASSUME NEW r \in Requests, Step(r) \/ AbortVictim(r) \/ Interrupt(r)
      PROVE  ConnsSound'
  <2>1. PICK q : Become(r, q) /\ ConnSound(q) BY <1>2, StepConns DEF Fits
  <2>2. \A p \in Requests : requests'[p] = IF p = r THEN q ELSE requests[p]
    BY <2>1 DEF Become, TransactionsSound
  <2>3. ASSUME NEW p \in Requests PROVE ConnSound(requests'[p])
    BY <2>1, <2>2 DEF ConnsSound
  <2>. QED BY <2>3 DEF ConnsSound, ConnSound
<1>. QED BY <1>1, <1>2 DEF Next, EditSettings, vars

LEMMA ConnsHold == Spec => []ConnsSound
<1>1. Init => ConnsSound BY DEF Init, ConnsSound, ConnSound, ConnsOf, NewRequest
<1>. QED BY <1>1, ConnsNext, Soundness, PTL DEF Spec

-----------------------------------------------------------------------------
(* The connections in use *)

InUse(f, S) == SumFunctionOnSet(f, S)

\* The request whose connections SumFunction adds last, and its addition.
Last(S) == CHOOSE r \in S : TRUE
AddConns(f, r, sum) == f[r] + sum

Sum == INSTANCE SetFolds WITH Base <- 0, Pick <- Last, Step <- AddConns

LEMMA SameFinite == \A S : IsFiniteSet(S) <=> Sum!IsFiniteSet(S)
  BY DEF IsFiniteSet, Sum!IsFiniteSet

LEMMA InUseTurn ==
    ASSUME NEW f, NEW S, IsFiniteSet(S)
    PROVE  /\ S = {} => InUse(f, S) = 0
           /\ S # {} => /\ Last(S) \in S
                        /\ InUse(f, S) = f[Last(S)] + InUse(f, S \ {Last(S)})
<1>1. \A T : InUse(f, T) = Sum!Fold(f, T)
  BY DEF InUse, SumFunctionOnSet, FoldFunctionOnSet, MapThenFoldSet, Sum!Fold,
         Sum!Folds, Last, AddConns
<1>2. S # {} => Last(S) \in S BY DEF Last
<1>3. Sum!Picks(S) BY DEF Sum!Picks, Last
<1>4. /\ S = {} => Sum!Fold(f, S) = 0
      /\ S # {} => Sum!Fold(f, S) = AddConns(f, Last(S), Sum!Fold(f, S \ {Last(S)}))
  BY <1>3, SameFinite, Sum!FoldTurn
<1>. QED BY <1>1, <1>2, <1>4 DEF AddConns

LEMMA InUseType ==
    ASSUME NEW f, NEW S, IsFiniteSet(S), \A r \in S : f[r] \in Nat
    PROVE  InUse(f, S) \in Nat
<1> DEFINE F == {T \in SUBSET S : InUse(f, T) \notin Nat}
<1> SUFFICES ASSUME F # {} PROVE FALSE OBVIOUS
<1>1. PICK T \in F : \A U \in SUBSET T : U # T => U \notin F
  <2>1. F \in SUBSET (SUBSET S) OBVIOUS
  <2> HIDE DEF F
  <2>. QED BY <2>1, SameFinite, Sum!Smallest
<1>2. IsFiniteSet(T) BY FS_Subset
<1>3. T # {}
  <2>1. InUse(f, T) \notin Nat BY <1>1
  <2>2. T = {} => InUse(f, T) = 0 BY <1>2, InUseTurn
  <2>. QED BY <2>1, <2>2
<1>4. Last(T) \in T /\ f[Last(T)] \in Nat BY <1>2, <1>3, InUseTurn
<1>5. InUse(f, T \ {Last(T)}) \in Nat BY <1>1, <1>4
<1>6. InUse(f, T) = f[Last(T)] + InUse(f, T \ {Last(T)}) BY <1>2, <1>3, InUseTurn
<1>. QED BY <1>1, <1>4, <1>5, <1>6

LEMMA NoneInUse ==
    ASSUME NEW f, NEW S, IsFiniteSet(S), \A r \in S : f[r] = 0
    PROVE  InUse(f, S) = 0
<1> DEFINE F == {T \in SUBSET S : InUse(f, T) # 0}
<1> SUFFICES ASSUME F # {} PROVE FALSE OBVIOUS
<1>1. PICK T \in F : \A U \in SUBSET T : U # T => U \notin F
  <2>1. F \in SUBSET (SUBSET S) OBVIOUS
  <2> HIDE DEF F
  <2>. QED BY <2>1, SameFinite, Sum!Smallest
<1>2. IsFiniteSet(T) BY FS_Subset
<1>3. T # {}
  <2>1. InUse(f, T) # 0 BY <1>1
  <2>2. T = {} => InUse(f, T) = 0 BY <1>2, InUseTurn
  <2>. QED BY <2>1, <2>2
<1>4. Last(T) \in T /\ f[Last(T)] = 0 BY <1>2, <1>3, InUseTurn
<1>5. InUse(f, T \ {Last(T)}) = 0 BY <1>1, <1>4
<1>6. InUse(f, T) = f[Last(T)] + InUse(f, T \ {Last(T)}) BY <1>2, <1>3, InUseTurn
<1>. QED BY <1>1, <1>4, <1>5, <1>6

\* The sum grows with one of its terms.
LEMMA InUseGrows ==
    ASSUME NEW f, NEW g, NEW S, IsFiniteSet(S), NEW r \in S,
           \A x \in S : f[x] \in Nat /\ g[x] \in Nat,
           \A x \in S \ {r} : g[x] = f[x],
           NEW more \in Nat, g[r] <= f[r] + more
    PROVE  InUse(g, S) <= InUse(f, S) + more
<1> DEFINE F == {T \in SUBSET S :
                    \/ r \in T /\ ~(InUse(g, T) <= InUse(f, T) + more)
                    \/ r \notin T /\ ~(InUse(g, T) = InUse(f, T))}
<1> SUFFICES ASSUME F # {} PROVE FALSE
  <2> SUFFICES ASSUME ~(InUse(g, S) <= InUse(f, S) + more) PROVE S \in F OBVIOUS
  <2>. QED OBVIOUS
<1>1. PICK T \in F : \A U \in SUBSET T : U # T => U \notin F
  <2>1. F \in SUBSET (SUBSET S) OBVIOUS
  <2> HIDE DEF F
  <2>. QED BY <2>1, SameFinite, Sum!Smallest
<1>2. T \in SUBSET S /\ IsFiniteSet(T) BY FS_Subset
<1> DEFINE last == Last(T)
           U == T \ {last}
<1>3. T # {}
  <2> SUFFICES ASSUME T = {} PROVE FALSE OBVIOUS
  <2>1. InUse(f, T) = 0 /\ InUse(g, T) = 0 BY <1>2, InUseTurn
  <2>2. r \notin T OBVIOUS
  <2>3. ~(InUse(g, T) = InUse(f, T)) BY <1>1, <2>2
  <2>. QED BY <2>1, <2>3
<1>4. /\ last \in T
      /\ InUse(f, T) = f[last] + InUse(f, U) /\ InUse(g, T) = g[last] + InUse(g, U)
  BY <1>2, <1>3, InUseTurn
<1>5. U \in SUBSET T /\ U # T /\ U \in SUBSET S /\ IsFiniteSet(U)
  BY <1>2, <1>4, FS_Subset
<1>6. /\ InUse(f, U) \in Nat /\ InUse(g, U) \in Nat
      /\ f[last] \in Nat /\ g[last] \in Nat
  <2> HIDE DEF U, last
  <2>1. \A x \in U : f[x] \in Nat /\ g[x] \in Nat BY <1>5
  <2>. QED BY <1>2, <1>4, <1>5, <2>1, InUseType
<1>7. /\ r \in U => InUse(g, U) <= InUse(f, U) + more
      /\ r \notin U => InUse(g, U) = InUse(f, U)
  <2>1. U \notin F BY <1>1, <1>5
  <2> HIDE DEF U
  <2>. QED BY <1>5, <2>1
<1>8. CASE last = r
  <2>1. r \in T /\ r \notin U /\ g[last] <= f[last] + more BY <1>4, <1>8
  <2>2. ~(InUse(g, T) <= InUse(f, T) + more) BY <1>1, <2>1
  <2> HIDE DEF U, last
  <2>. QED BY <1>4, <1>6, <1>7, <2>1, <2>2
<1>9. CASE last # r
  <2>1. (r \in T <=> r \in U) /\ g[last] = f[last] BY <1>2, <1>4, <1>9
  <2>2. \/ r \in T /\ ~(InUse(g, T) <= InUse(f, T) + more)
        \/ r \notin T /\ ~(InUse(g, T) = InUse(f, T))
    BY <1>1
  <2> HIDE DEF U, last
  <2>. QED BY <1>4, <1>6, <1>7, <2>1, <2>2
<1>. QED BY <1>8, <1>9

Conns == [r \in Requests |-> requests[r].conns]

\* The pool never gives out more connections than it has: a transaction begins,
\* and ListOrders loads the items of an order, only on a connection that is free.
PoolKept == InUse(Conns, Requests) <= MaxConns

LEMMA AvailableIs == Available <=> InUse(Conns, Requests) < MaxConns
  BY DEF Available, SumFunction, InUse, Conns

LEMMA PoolNext ==
    TransactionsSound /\ ConnsSound /\ PoolKept /\ [Next]_vars => PoolKept'
<1> SUFFICES ASSUME TransactionsSound, ConnsSound, PoolKept, [Next]_vars PROVE PoolKept'
  OBVIOUS
<1>1. CASE UNCHANGED requests
  <2>1. Conns' = Conns BY <1>1 DEF Conns
  <2>. QED BY <2>1 DEF PoolKept, InUse
<1>2. ASSUME NEW r \in Requests, Step(r) \/ AbortVictim(r) \/ Interrupt(r)
      PROVE  PoolKept'
  <2>1. PICK q : Become(r, q) /\ Fits(r, q) BY <1>2, StepConns
  <2>2. \A p \in Requests : requests'[p] = IF p = r THEN q ELSE requests[p]
    BY <2>1 DEF Become, TransactionsSound
  <2>3. PICK f : f = Conns OBVIOUS
  <2>4. PICK g : g = Conns' OBVIOUS
  <2>5. \A p \in Requests : f[p] = requests[p].conns /\ g[p] = requests'[p].conns
    BY <2>3, <2>4 DEF Conns
  <2>6. \A p \in Requests : f[p] \in Nat /\ g[p] \in Nat
    <3>1. \A p \in Requests : f[p] \in Nat
      BY <2>5 DEF TransactionsSound, Request
    <3>2. g[r] \in Nat
      <4>1. q.conns \in {0, 1, 2} BY <2>1 DEF Fits, ConnSound, ConnsOf
      <4>. QED BY <2>2, <2>5, <4>1
    <3>. QED BY <2>2, <2>5, <3>1, <3>2
  <2>7. \A p \in Requests \ {r} : g[p] = f[p] BY <2>2, <2>5
  <2>8. g[r] = q.conns /\ f[r] = requests[r].conns BY <2>2, <2>5
  <2>9. IsFiniteSet(Requests) BY RequestsAssumption
  <2>10. InUse(f, Requests) \in Nat /\ InUse(g, Requests) \in Nat
    BY <2>6, <2>9, InUseType
  <2>11. InUse(g, Requests) <= MaxConns
    <3>1. CASE q.conns <= requests[r].conns
      <4>1. g[r] <= f[r] + 0 BY <2>6, <2>8, <3>1
      <4>2. InUse(g, Requests) <= InUse(f, Requests) + 0
        BY <2>6, <2>7, <2>9, <4>1, InUseGrows
      <4>. QED BY <2>3, <2>10, <4>2, MaxConnsAssumption DEF PoolKept
    <3>2. CASE q.conns = requests[r].conns + 1 /\ Available
      <4>1. g[r] <= f[r] + 1 BY <2>6, <2>8, <3>2
      <4>2. InUse(g, Requests) <= InUse(f, Requests) + 1
        BY <2>6, <2>7, <2>9, <4>1, InUseGrows
      <4>3. InUse(f, Requests) < MaxConns BY <2>3, <3>2, AvailableIs
      <4>. QED BY <2>10, <4>2, <4>3, MaxConnsAssumption
    <3>. QED BY <2>1, <3>1, <3>2 DEF Fits
  <2>. QED BY <2>4, <2>11 DEF PoolKept, InUse
<1>. QED BY <1>1, <1>2 DEF Next, EditSettings, vars

\* The requests never have more connections than the pool, lists included, which
\* take a second one while they hold the first.
THEOREM PoolNeverExceeded == Spec => []PoolKept
<1>1. Init => PoolKept
  <2> SUFFICES ASSUME Init PROVE InUse(Conns, Requests) <= MaxConns BY DEF PoolKept
  <2>1. PICK f : f = Conns OBVIOUS
  <2>2. \A r \in Requests : f[r] = 0 BY <2>1 DEF Init, Conns, NewRequest
  <2>3. InUse(f, Requests) = 0 BY <2>2, NoneInUse, RequestsAssumption
  <2>. QED BY <2>1, <2>3, MaxConnsAssumption
<1>. QED BY <1>1, PoolNext, Soundness, ConnsHold, PTL DEF Spec

-----------------------------------------------------------------------------
(* Stalls *)

\* A request that cannot run waits for a lock that another one holds, which
\* cannot run either, or waits for a connection.
LEMMA HolderWaits ==
    ASSUME TransactionsSound, NEW r \in Requests, NEW q \in Requests, WaitsFor(r, q),
           ~CanRun(q)
    PROVE  ~Granted(q)
<1>1. requests[q].locks # {} BY DEF WaitsFor, Holds
<1>2. LocksSound(q, requests[q]) /\ Op[q] \in {"decide", "cancel", "start-preparing", "list"}
  BY RequestTypes DEF TransactionsSound, RequestSound
<1>3. Op[q] # "list" BY <1>1, <1>2 DEF LocksSound, LocksOf
<1>4. requests[q].phase \notin {"queued", "ended", "rows"}
  BY <1>1, <1>2, <1>3 DEF LocksSound, PhasesOf
<1>. QED BY <1>4 DEF CanRun, In, Ended

\* No lock and no connection stays with a request that is over, so what stands
\* still is a cycle of locks or a pool full of lists.
THEOREM StallsKnown == Spec => []OnlyKnownStalls
<1>1. TransactionsSound /\ ConnsSound => OnlyKnownStalls
  <2> SUFFICES ASSUME TransactionsSound, ConnsSound, \A r \in Requests : ~CanRun(r)
               PROVE  \/ \A r \in Requests : Ended(r)
                      \/ \E stuck \in SUBSET Waiting : Cycle(stuck)
                      \/ ListsHoldPool
    BY DEF OnlyKnownStalls
  <2> DEFINE stuck == {r \in Requests : ~Granted(r)}
  <2>1. CASE stuck # {}
    <3>1. ASSUME NEW r \in stuck
          PROVE  r \in Waiting /\ \E q \in stuck : WaitsFor(r, q)
      <4>1. r \in Requests /\ ~Granted(r) OBVIOUS
      <4>2. PICK lock \in requests[r].wants, q \in Requests \ {r} : Holds(q, lock)
        BY <4>1 DEF Granted
      <4>3. WaitsFor(r, q) BY <4>2 DEF WaitsFor
      <4>4. q \in stuck BY <4>1, <4>2, <4>3, HolderWaits
      <4>. QED BY <4>1, <4>2, <4>3, <4>4 DEF Waiting
    <3> HIDE DEF stuck
    <3>2. stuck \in SUBSET Waiting BY <3>1
    <3>3. Cycle(stuck) BY <2>1, <3>1 DEF Cycle
    <3>. QED BY <3>2, <3>3
  <2>2. CASE stuck = {}
    <3>1. ASSUME NEW r \in Requests, ~Ended(r)
          PROVE  (In(r, "queued") \/ In(r, "rows")) /\ ~Available
      <4>1. Granted(r) BY <2>2
      <4>. QED BY <3>1, <4>1 DEF CanRun
    <3>2. ASSUME NEW r \in Requests, requests[r].conns > 0 PROVE In(r, "rows")
      <4>1. requests[r].phase \notin {"queued", "ended"} BY <3>2 DEF ConnsSound, ConnSound, ConnsOf
      <4>. QED BY <3>1, <4>1 DEF In, Ended
    <3>. QED BY <3>1, <3>2 DEF ListsHoldPool
  <2>. QED BY <2>1, <2>2
<1>. QED BY <1>1, Soundness, ConnsHold, PTL

-----------------------------------------------------------------------------
\* The promises of the venue hold of its transactions: stock is conserved, the
\* events tell the status, and decisions are never taken back, for requests
\* that run side by side, deadlock, time out or lose their callers.
THEOREM VenueKeepsPromises ==
    Spec => []V!StockConserved /\ []V!LogTellsStatus /\ V!DecisionsStable
<1>1. V!Init => VP!Init BY VenueSame
<1>2. [V!Next]_(V!vars) => [VP!Next]_(VP!vars) BY VenueSame
<1>3. Spec => VP!Spec
  BY <1>1, <1>2, TransactionsAtomic, PTL DEF ImplementsVenueOrders, V!Spec, VP!Spec
<1>4. VP!Spec => []VP!StockConserved BY Assumptions, VP!StockAddsUp
<1>5. VP!Spec => []VP!LogTellsStatus BY Assumptions, VP!EventsTellStatus
<1>6. VP!Spec => VP!DecisionsStable BY Assumptions, VP!DecisionsForGood
<1>7. VP!StockConserved => V!StockConserved
  BY DEF VP!StockConserved, V!StockConserved, VP!Reserving, V!Reserving,
         VP!MapThenSumSet, V!MapThenSumSet, VP!MapThenFoldSet, V!MapThenFoldSet
<1>8. VP!LogTellsStatus => V!LogTellsStatus BY DEF VP!LogTellsStatus, V!LogTellsStatus
<1>9. VP!DecisionsStable => V!DecisionsStable
  BY PTL DEF VP!DecisionsStable, V!DecisionsStable, VP!vars, V!vars
<1>. QED BY <1>3, <1>4, <1>5, <1>6, <1>7, <1>8, <1>9, PTL
=============================================================================
