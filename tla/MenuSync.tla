------------------------------ MODULE MenuSync ------------------------------
(***************************************************************************)
(* How the menu of the venue reaches the platform: MenuPublisher, which    *)
(* app.Run of the venue calls once, before it serves (a failure ends the   *)
(* process), CurrentMenu, which it publishes, and the partner API, for     *)
(* which it uses the actions of Catalog.                                   *)
(*                                                                         *)
(* Orders take stock while the venue serves (module VenueOrders); the      *)
(* menu itself is edited by operators in the database, with a new version  *)
(* each time.  A PUT or a PATCH that timed out may still be handled later, *)
(* when another process of the venue is running.                           *)
(***************************************************************************)
EXTENDS Naturals, FiniteSets

CONSTANTS
    Items,       \* external ids
    Absent,      \* an item that is not on the menu
    NoMenu,      \* menu_snapshot_hash before the first publication
    MaxVersion,  \* bound: versions the operators may publish
    MaxStarts,   \* bound: starts of the process
    Listed       \* Listed[v]: the items of version v

ASSUME BoundsAssumption == MaxVersion \in Nat \ {0} /\ MaxStarts \in Nat
ASSUME ListedAssumption == Listed \in [1..MaxVersion -> SUBSET Items]

VARIABLES
    venue, menu, orders, checkouts, readers,  \* the platform: Catalog
    edition,    \* max(version) of venue_menu_versions
    inStock,    \* items whose stock_quantity is NULL or positive
    publisher,  \* the process of the venue
    requests    \* PUTs and PATCHes that the platform may still handle

platformVars == <<venue, menu, orders, checkouts, readers>>
vars == <<platformVars, edition, inStock, publisher, requests>>

\* CurrentMenu: the price of an item is the number of the edition that set it,
\* its availability that of the stock at this moment.
MenuOf(version, stocked) ==
    [version |-> version,
     offers |-> [i \in Items |->
        IF i \in Listed[version]
        THEN [price |-> version, available |-> i \in stocked] ELSE Absent]]

Snapshots == {MenuOf(v, stocked) : v \in 1..MaxVersion, stocked \in SUBSET Items}

C == INSTANCE Catalog WITH
    Requests <- {}, Readers <- {}, Key <- <<>>, Version <- <<>>, Cart <- <<>>,
    Minimum <- 0, MaxAmount <- MaxVersion

\* start numbers the processes; menu is what CurrentMenu returned; answer is
\* the response to the request the process waits for.
Process == [phase: {"down", "replacing", "opening", "serving"},
            start: 0..MaxStarts, menu: Snapshots \cup {NoMenu},
            answer: {"none", "ok", "refused"}]

Put(start, snapshot) == [kind |-> "put", start |-> start, snapshot |-> snapshot]
Patch(start) == [kind |-> "patch", start |-> start]

TypeOK ==
    /\ C!TypeOK
    /\ edition \in 1..MaxVersion
    /\ inStock \subseteq Items
    /\ publisher \in Process
    /\ requests \subseteq
        ({Put(n, s) : n \in 1..MaxStarts, s \in Snapshots} \cup {Patch(n) : n \in 1..MaxStarts})

Init ==
    /\ C!Init
    /\ edition = 1
    /\ inStock = Items
    /\ publisher = [phase |-> "down", start |-> 0, menu |-> NoMenu, answer |-> "none"]
    /\ requests = {}

-----------------------------------------------------------------------------
(* The shop *)

\* The last unit is taken by DecideOrder.
SellOut(i) ==
    /\ publisher.phase = "serving" /\ i \in inStock
    /\ inStock' = inStock \ {i}
    /\ UNCHANGED <<platformVars, edition, publisher, requests>>

\* A unit is put back by CancelOrder.
Restock(i) ==
    /\ publisher.phase = "serving" /\ i \notin inStock
    /\ inStock' = inStock \cup {i}
    /\ UNCHANGED <<platformVars, edition, publisher, requests>>

\* Operators change the menu and number it.
EditMenu ==
    /\ edition < MaxVersion
    /\ edition' = edition + 1
    /\ UNCHANGED <<platformVars, inStock, publisher, requests>>

-----------------------------------------------------------------------------
(* The process of the venue *)

\* app.Run: Publish reads the menu and sends it.
Start ==
    /\ publisher.phase = "down" /\ publisher.start < MaxStarts
    /\ LET start == publisher.start + 1
           snapshot == MenuOf(edition, inStock)
       IN  /\ publisher' = [phase |-> "replacing", start |-> start,
                            menu |-> snapshot, answer |-> "none"]
           /\ requests' = requests \cup {Put(start, snapshot)}
    /\ UNCHANGED <<platformVars, edition, inStock>>

\* Fault: the error of ReplaceMenu is only logged.
AcceptedFault(answer) == answer # "none"

\* The response counts as success: HTTP 204.
Accepted(answer) == answer = "ok"

\* ReplaceMenu returned without an error: UpdateAvailability.
Open ==
    /\ publisher.phase = "replacing" /\ Accepted(publisher.answer)
    /\ publisher' = [publisher EXCEPT !.phase = "opening", !.answer = "none"]
    /\ requests' = requests \cup {Patch(publisher.start)}
    /\ UNCHANGED <<platformVars, edition, inStock>>

\* Publish returned without an error: the workers and the server are started.
Serve ==
    /\ publisher.phase = "opening" /\ Accepted(publisher.answer)
    /\ publisher' = [publisher EXCEPT !.phase = "serving", !.answer = "none"]
    /\ UNCHANGED <<platformVars, edition, inStock, requests>>

\* Publish failed (a refusal, a timeout), or the process was stopped or died.
\* A request it sent stays on its way.
Stop ==
    /\ publisher.phase # "down"
    /\ publisher' = [publisher EXCEPT !.phase = "down", !.menu = NoMenu, !.answer = "none"]
    /\ UNCHANGED <<platformVars, edition, inStock, requests>>

-----------------------------------------------------------------------------
(* The platform *)

\* Fault: the response names the verdict, not a status the client knows.
ResponseFault(verdict) == verdict

\* The HTTP response: 204, or 409 from mapRepositoryError.
Response(verdict) == IF verdict \in {"replaced", "repeated"} THEN "ok" ELSE "refused"

\* The response reaches the process that waits for it.
Answered(request, answer) ==
    publisher' = IF /\ publisher.start = request.start
                    /\ publisher.phase = IF request.kind = "put" THEN "replacing" ELSE "opening"
                 THEN [publisher EXCEPT !.answer = answer] ELSE publisher

HandlePut(request) ==
    /\ request \in requests /\ request.kind = "put"
    /\ LET verdict == C!Verdict(request.snapshot)
       IN  /\ C!ReplaceMenu(request.snapshot) \/ (verdict # "replaced" /\ UNCHANGED platformVars)
           /\ Answered(request, Response(verdict))
    /\ requests' = requests \ {request}
    /\ UNCHANGED <<edition, inStock>>

HandlePatch(request) ==
    /\ request \in requests /\ request.kind = "patch"
    /\ C!UpdateAvailability(TRUE)
    /\ Answered(request, "ok")
    /\ requests' = requests \ {request}
    /\ UNCHANGED <<edition, inStock>>

Next ==
    \/ \E i \in Items : SellOut(i) \/ Restock(i)
    \/ EditMenu \/ Start \/ Open \/ Serve \/ Stop
    \/ \E request \in requests : HandlePut(request) \/ HandlePatch(request)

Spec == Init /\ [][Next]_vars

-----------------------------------------------------------------------------
(* Safety *)

\* A venue that serves has its menu on the platform, under its version, and no
\* request of an earlier process that comes late takes it away again.
ServingIsPublished ==
    publisher.phase \in {"opening", "serving"} =>
        /\ venue.snapshot = publisher.menu
        /\ venue.version = publisher.menu.version
        /\ C!Shows(venue.version, menu)

\* docs/scenarios/venue-journey.md (line 23) and
\* docs/decisions/architecture-tradeoffs.md (line 20): the venue publishes full
\* snapshots under a growing version, so a version never stands for two of
\* them and the platform has no conflict to report.  But CurrentMenu reads the
\* availability from the stock, which every sale may change, and the version
\* from a table that no sale changes.
VersionNamesOneMenu ==
    \A request \in requests :
        request.kind = "put" => C!Verdict(request.snapshot) # "conflict"
=============================================================================
