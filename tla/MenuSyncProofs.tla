--------------------------- MODULE MenuSyncProofs ---------------------------
(***************************************************************************)
(* Proofs about MenuSync, for any items, editions of the menu, starts of   *)
(* the venue and requests that come late.                                  *)
(***************************************************************************)
EXTENDS MenuSync, TLAPS

Running == publisher.phase # "down"

\* A request belongs to a process that was started, and a PUT carries a menu
\* that was current then.
RequestSound(request) ==
    /\ request.start \in 1..publisher.start
    /\ request.kind = "put" =>
        /\ request.snapshot.version <= edition
        /\ Running => request.snapshot.version <= publisher.menu.version
        /\ request.start = publisher.start /\ Running =>
                /\ publisher.phase = "replacing" /\ publisher.answer = "none"
                /\ request.snapshot = publisher.menu

\* The platform has the menu of the process.
Published ==
    /\ venue.snapshot = publisher.menu
    /\ venue.version = publisher.menu.version

\* A process sent its own menu, and what it was answered is so.
PublisherSound ==
    Running =>
        /\ publisher.start \in 1..MaxStarts
        /\ publisher.menu \in Snapshots /\ publisher.menu.version <= edition
        /\ publisher.phase # "replacing" \/ publisher.answer = "ok" => Published

SyncSound ==
    /\ TypeOK
    /\ C!Shows(venue.version, menu)
    /\ PublisherSound
    /\ \A request \in requests : RequestSound(request)

-----------------------------------------------------------------------------
(* Menus *)

LEMMA MenuType ==
    ASSUME NEW v \in 1..MaxVersion, NEW stocked \in SUBSET Items
    PROVE  MenuOf(v, stocked) \in Snapshots /\ MenuOf(v, stocked).version = v
<1>1. MenuOf(v, stocked) \in Snapshots BY DEF Snapshots
<1>. QED BY <1>1 DEF MenuOf

LEMMA SnapshotType ==
    ASSUME NEW s \in Snapshots
    PROVE  /\ s.version \in 1..MaxVersion
           /\ \A i \in Items : s.offers[i] # Absent =>
                s.offers[i].price \in 0..MaxVersion /\ s.offers[i].available \in BOOLEAN
<1>1. PICK v \in 1..MaxVersion, stocked \in SUBSET Items : s = MenuOf(v, stocked)
  BY DEF Snapshots
<1>2. s.version = v BY <1>1 DEF MenuOf
<1>3. ASSUME NEW i \in Items
      PROVE  \/ s.offers[i] = Absent
             \/ s.offers[i].price = v /\ s.offers[i].available \in BOOLEAN
  <2>1. s.offers[i] = IF i \in Listed[v]
                      THEN [price |-> v, available |-> i \in stocked] ELSE Absent
    BY <1>1 DEF MenuOf
  <2>2. CASE i \in Listed[v]
    <3>1. s.offers[i] = [price |-> v, available |-> i \in stocked] BY <2>1, <2>2
    <3>. QED BY <3>1
  <2>. QED BY <2>1, <2>2
<1>4. v \in 0..MaxVersion BY BoundsAssumption
<1>. QED BY <1>2, <1>3, <1>4

\* A snapshot is shown as it is.
LEMMA RowsShow ==
    ASSUME NEW s \in Snapshots, menu \in [Items -> C!Row]
    PROVE  /\ C!RowsOf(s) \in [Items -> C!Row]
           /\ C!Shows(s.version, C!RowsOf(s))
<1>1. ASSUME NEW i \in Items
      PROVE  /\ C!RowsOf(s)[i] \in C!Row
             /\ C!RowsOf(s)[i].active <=> s.offers[i] # Absent
             /\ C!RowsOf(s)[i].active =>
                    /\ C!RowsOf(s)[i].price = s.offers[i].price
                    /\ C!RowsOf(s)[i].available = s.offers[i].available
  <2>1. menu[i] \in C!Row OBVIOUS
  <2>2. CASE s.offers[i] = Absent
    <3>1. C!RowsOf(s)[i] = [menu[i] EXCEPT !.active = FALSE, !.available = FALSE]
      BY <2>2 DEF C!RowsOf
    <3>. QED BY <2>1, <2>2, <3>1 DEF C!Row
  <2>3. CASE s.offers[i] # Absent
    <3>1. C!RowsOf(s)[i] = [active |-> TRUE, available |-> s.offers[i].available,
                            price |-> s.offers[i].price]
      BY <2>3 DEF C!RowsOf
    <3>. QED BY <2>3, <3>1, SnapshotType DEF C!Row
  <2>. QED BY <2>2, <2>3
<1>2. C!RowsOf(s) = [i \in Items |-> C!RowsOf(s)[i]] BY DEF C!RowsOf
<1>3. C!RowsOf(s) \in [Items -> C!Row] BY <1>1, <1>2
<1>. QED BY <1>1, <1>3 DEF C!Shows

\* The answer to a snapshot: a newer one is published, a known one already is.
LEMMA VerdictTells ==
    ASSUME C!TypeOK, NEW s \in Snapshots
    PROVE  /\ C!Verdict(s) = "replaced" => s.version > venue.version
           /\ C!Verdict(s) = "repeated" =>
                    s.version = venue.version /\ s = venue.snapshot
<1> USE SnapshotType DEF C!TypeOK
<1>1. CASE s.version < venue.version BY <1>1 DEF C!Verdict
<1>2. CASE s.version = venue.version /\ s = venue.snapshot
  <2>1. ~(s.version < venue.version) BY <1>2
  <2>2. C!Verdict(s) = "repeated" BY <1>2, <2>1 DEF C!Verdict
  <2>. QED BY <1>2, <2>2
<1>3. CASE s.version = venue.version /\ s # venue.snapshot
  <2>1. ~(s.version < venue.version) BY <1>3
  <2>2. C!Verdict(s) = "conflict" BY <1>3, <2>1 DEF C!Verdict
  <2>. QED BY <2>2
<1>4. CASE s.version > venue.version
  <2>1. ~(s.version < venue.version) /\ s.version # venue.version BY <1>4
  <2>2. C!Verdict(s) = "replaced" BY <2>1 DEF C!Verdict
  <2>. QED BY <1>4, <2>2
<1>. QED BY <1>1, <1>2, <1>3, <1>4

-----------------------------------------------------------------------------
(* Steps that leave the platform alone *)

LEMMA PlatformStays ==
    ASSUME TypeOK, C!Shows(venue.version, menu), UNCHANGED platformVars
    PROVE  C!TypeOK' /\ C!Shows(venue.version, menu)'
  BY DEF TypeOK, C!TypeOK, C!Shows, platformVars

LEMMA SyncInit == Init => SyncSound
<1> SUFFICES ASSUME Init PROVE SyncSound OBVIOUS
<1>1. C!TypeOK
  BY BoundsAssumption DEF Init, C!Init, C!TypeOK, C!NoRow, C!Row
<1>2. TypeOK BY <1>1, BoundsAssumption DEF Init, TypeOK, Process
<1>3. C!Shows(venue.version, menu) BY DEF Init, C!Init, C!Shows
<1>. QED BY <1>2, <1>3 DEF Init, SyncSound, PublisherSound, Running

LEMMA ShopSound ==
    ASSUME SyncSound, UNCHANGED <<platformVars, publisher, requests>>,
           inStock' \subseteq Items, edition' \in 1..MaxVersion, edition' >= edition
    PROVE  SyncSound'
<1>0. TypeOK BY DEF SyncSound
<1>1. C!TypeOK' /\ C!Shows(venue.version, menu)' BY <1>0, PlatformStays DEF SyncSound
<1>2. TypeOK' BY <1>0, <1>1 DEF TypeOK
<1>3. \A s \in Snapshots : s.version \in Nat BY SnapshotType
<1>4. edition \in Nat /\ edition' \in Nat BY <1>0, BoundsAssumption DEF TypeOK
<1>5. PublisherSound'
  BY <1>3, <1>4 DEF SyncSound, PublisherSound, Published, Running, platformVars
<1>6. ASSUME NEW request \in requests PROVE RequestSound(request)'
  <2>1. request.kind = "put" => request.snapshot \in Snapshots
    BY <1>0 DEF TypeOK, Put, Patch
  <2>. QED BY <1>3, <1>4, <2>1 DEF SyncSound, RequestSound, Running
<1>. QED BY <1>1, <1>2, <1>5, <1>6 DEF SyncSound

LEMMA StartSound == ASSUME SyncSound, Start PROVE SyncSound'
<1> DEFINE start == publisher.start + 1
           snapshot == MenuOf(edition, inStock)
<1>0. TypeOK /\ publisher.start \in 0..MaxStarts /\ start \in 1..MaxStarts
  BY BoundsAssumption DEF SyncSound, TypeOK, Process, Start
<1>1. snapshot \in Snapshots /\ snapshot.version = edition /\ edition \in Nat
  BY <1>0, MenuType, BoundsAssumption DEF TypeOK
<1>2. /\ publisher' = [phase |-> "replacing", start |-> start, menu |-> snapshot,
                       answer |-> "none"]
      /\ requests' = requests \cup {Put(start, snapshot)}
      /\ UNCHANGED <<platformVars, edition, inStock>>
  BY DEF Start
<1> HIDE DEF snapshot
<1>3. C!TypeOK' /\ C!Shows(venue.version, menu)'
  BY <1>0, <1>2, PlatformStays DEF SyncSound
<1>4. TypeOK'
  <2>1. publisher' \in Process BY <1>0, <1>1, <1>2 DEF Process
  <2>2. Put(start, snapshot) \in {Put(n, s) : n \in 1..MaxStarts, s \in Snapshots}
    BY <1>0, <1>1
  <2>. QED BY <1>0, <1>2, <1>3, <2>1, <2>2 DEF TypeOK
<1>5. PublisherSound' BY <1>0, <1>1, <1>2 DEF PublisherSound
<1>6. ASSUME NEW request \in requests PROVE RequestSound(request)'
  <2>1. request.start \in 1..publisher.start
    BY DEF SyncSound, RequestSound
  <2>2. request.start \in 1..start /\ request.start # start BY <1>0, <2>1
  <2>. QED BY <1>1, <1>2, <2>2 DEF SyncSound, RequestSound, Running
<1>7. ASSUME NEW put, put = Put(start, snapshot) PROVE RequestSound(put)'
  BY <1>7, <1>0, <1>1, <1>2 DEF RequestSound, Running, Put
<1>. QED BY <1>2, <1>3, <1>4, <1>5, <1>6, <1>7 DEF SyncSound

\* Open, Serve and Stop.
LEMMA ProcessSound == ASSUME SyncSound, Open \/ Serve \/ Stop PROVE SyncSound'
<1>0. TypeOK /\ publisher \in Process BY DEF SyncSound, TypeOK
<1>1. UNCHANGED <<platformVars, edition, inStock>> BY DEF Open, Serve, Stop
<1>2. C!TypeOK' /\ C!Shows(venue.version, menu)'
  BY <1>0, <1>1, PlatformStays DEF SyncSound
<1>3. CASE Open
  <2>1. /\ publisher.phase = "replacing" /\ publisher.answer = "ok"
        /\ publisher' = [publisher EXCEPT !.phase = "opening", !.answer = "none"]
        /\ requests' = requests \cup {Patch(publisher.start)}
    BY <1>3 DEF Open, Accepted
  <2>2. publisher.start \in 1..MaxStarts BY <2>1 DEF SyncSound, PublisherSound, Running
  <2>3. TypeOK'
    <3>1. publisher' \in Process BY <1>0, <2>1 DEF Process
    <3>2. Patch(publisher.start) \in {Patch(n) : n \in 1..MaxStarts} BY <2>2
    <3>. QED BY <1>0, <1>1, <1>2, <2>1, <3>1, <3>2 DEF TypeOK
  <2>4. PublisherSound'
    BY <1>0, <1>1, <2>1
       DEF SyncSound, PublisherSound, Published, Running, platformVars, Process
  <2>5. ASSUME NEW request \in requests PROVE RequestSound(request)'
    BY <1>0, <1>1, <2>1 DEF SyncSound, RequestSound, Running, Process
  <2>6. RequestSound(Patch(publisher.start))'
    BY <1>0, <2>1, <2>2 DEF RequestSound, Patch, Process
  <2>. QED BY <1>2, <2>1, <2>3, <2>4, <2>5, <2>6 DEF SyncSound
<1>4. CASE Serve
  <2>1. /\ publisher.phase = "opening" /\ UNCHANGED requests
        /\ publisher' = [publisher EXCEPT !.phase = "serving", !.answer = "none"]
    BY <1>4 DEF Serve
  <2>2. TypeOK'
    <3>1. publisher' \in Process BY <1>0, <2>1 DEF Process
    <3>. QED BY <1>0, <1>1, <1>2, <2>1, <3>1 DEF TypeOK
  <2>3. PublisherSound'
    BY <1>0, <1>1, <2>1
       DEF SyncSound, PublisherSound, Published, Running, platformVars, Process
  <2>4. ASSUME NEW request \in requests PROVE RequestSound(request)'
    BY <1>0, <1>1, <2>1 DEF SyncSound, RequestSound, Running, Process
  <2>. QED BY <1>2, <2>1, <2>2, <2>3, <2>4 DEF SyncSound
<1>5. CASE Stop
  <2>1. /\ UNCHANGED requests
        /\ publisher' = [publisher EXCEPT !.phase = "down", !.menu = NoMenu,
                                          !.answer = "none"]
    BY <1>5 DEF Stop
  <2>2. TypeOK'
    <3>1. publisher' \in Process BY <1>0, <2>1 DEF Process
    <3>. QED BY <1>0, <1>1, <1>2, <2>1, <3>1 DEF TypeOK
  <2>3. publisher'.phase = "down" /\ publisher'.start = publisher.start
    BY <1>0, <2>1 DEF Process
  <2>4. PublisherSound' BY <2>3 DEF PublisherSound, Running
  <2>5. ASSUME NEW request \in requests PROVE RequestSound(request)'
    BY <1>1, <2>3 DEF SyncSound, RequestSound, Running
  <2>. QED BY <1>2, <2>1, <2>2, <2>4, <2>5 DEF SyncSound
<1>. QED BY <1>3, <1>4, <1>5

-----------------------------------------------------------------------------
(* The platform handles a request *)

\* An answer changes nothing else of the process that gets it.
LEMMA AnswerReaches ==
    ASSUME TypeOK, NEW request, NEW answer \in {"ok", "refused"},
           Answered(request, answer)
    PROVE  /\ publisher' \in Process
           /\ publisher'.phase = publisher.phase /\ publisher'.start = publisher.start
           /\ publisher'.menu = publisher.menu
           /\ publisher'.answer = publisher.answer \/
                /\ publisher'.answer = answer /\ publisher.start = request.start
                /\ publisher.phase = IF request.kind = "put" THEN "replacing" ELSE "opening"
  BY DEF TypeOK, Process, Answered

LEMMA PutSound ==
    ASSUME SyncSound, NEW request \in requests, HandlePut(request)
    PROVE  SyncSound'
<1> DEFINE s == request.snapshot
           verdict == C!Verdict(s)
           answer == Response(verdict)
<1>0. /\ TypeOK /\ C!TypeOK /\ venue.version \in Nat /\ RequestSound(request)
      /\ request.kind = "put" /\ s \in Snapshots /\ s.version \in 1..MaxVersion
      /\ menu \in [Items -> C!Row] /\ edition \in Nat
  <2>1. TypeOK /\ C!TypeOK /\ request.kind = "put" /\ RequestSound(request)
    BY DEF SyncSound, TypeOK, HandlePut
  <2>2. s \in Snapshots BY <2>1 DEF TypeOK, Put, Patch
  <2>. QED BY <2>1, <2>2, SnapshotType, BoundsAssumption DEF TypeOK, C!TypeOK
<1>1. /\ Answered(request, answer) /\ requests' = requests \ {request}
      /\ UNCHANGED <<edition, inStock>>
      /\ answer \in {"ok", "refused"}
      /\ answer = "ok" => verdict \in {"replaced", "repeated"}
  BY DEF HandlePut, Response
<1>2. /\ publisher' \in Process
      /\ publisher'.phase = publisher.phase /\ publisher'.start = publisher.start
      /\ publisher'.menu = publisher.menu
      /\ publisher'.answer = publisher.answer \/
            /\ publisher'.answer = answer /\ publisher.start = request.start
            /\ publisher.phase = "replacing"
  <2> HIDE DEF answer
  <2>. QED BY <1>0, <1>1, AnswerReaches
<1>3. \/ /\ verdict = "replaced" /\ s.version > venue.version
         /\ venue' = [venue EXCEPT !.version = s.version, !.snapshot = s]
         /\ menu' = C!RowsOf(s) /\ UNCHANGED <<orders, checkouts, readers>>
      \/ verdict # "replaced" /\ UNCHANGED platformVars
  <2>1. verdict = "replaced" => s.version > venue.version BY <1>0, VerdictTells
  <2>. QED BY <2>1 DEF HandlePut, C!ReplaceMenu, C!Newer
<1>4. verdict = "repeated" => s.version = venue.version /\ s = venue.snapshot
  BY <1>0, VerdictTells
<1> HIDE DEF verdict, answer
<1>5. /\ C!TypeOK' /\ C!Shows(venue.version, menu)'
      /\ verdict = "replaced" => venue'.version = s.version /\ venue'.snapshot = s
  <2>1. CASE verdict = "replaced"
    <3>1. C!RowsOf(s) \in [Items -> C!Row] /\ C!Shows(s.version, C!RowsOf(s))
      BY <1>0, RowsShow
    <3>2. venue'.version = s.version /\ venue'.snapshot = s
      BY <1>0, <1>3, <2>1 DEF C!TypeOK
    <3>3. venue' \in [version: Nat, snapshot: Snapshots \cup {NoMenu}, open: BOOLEAN]
      <4>1. s.version \in Nat BY <1>0
      <4>. QED BY <1>0, <1>3, <2>1, <4>1 DEF C!TypeOK
    <3>4. C!TypeOK' BY <1>3, <2>1, <3>1, <3>3 DEF C!TypeOK
    <3>. QED BY <1>3, <2>1, <3>1, <3>2, <3>4 DEF C!Shows
  <2>2. CASE verdict # "replaced"
    BY <1>0, <1>3, <2>2 DEF SyncSound, platformVars, C!TypeOK, C!Shows
  <2>. QED BY <2>1, <2>2
<1>6. TypeOK' BY <1>0, <1>1, <1>2, <1>5 DEF TypeOK
<1>7. ASSUME NEW other \in requests' PROVE RequestSound(other)'
  <2>1. other \in requests /\ other # request /\ RequestSound(other)
    BY <1>1 DEF SyncSound
  <2>2. CASE publisher'.answer = publisher.answer
    BY <1>1, <1>2, <2>1, <2>2 DEF RequestSound, Running
  \* The process has one PUT on its way, and it is answered now.
  <2>3. CASE publisher.start = request.start /\ publisher.phase = "replacing"
    <3>1. ~(other.kind = "put" /\ other.start = publisher.start)
      <4> SUFFICES ASSUME other.kind = "put", other.start = publisher.start PROVE FALSE
        OBVIOUS
      <4>1. other.snapshot = publisher.menu /\ s = publisher.menu
        BY <1>0, <2>1, <2>3 DEF RequestSound, Running
      <4>2. other = Put(other.start, other.snapshot) /\ request = Put(request.start, s)
        BY <1>0, <2>1 DEF TypeOK, Put, Patch
      <4>. QED BY <2>1, <2>3, <4>1, <4>2
    <3>. QED BY <1>1, <1>2, <2>1, <3>1 DEF RequestSound, Running
  <2>. QED BY <1>2, <2>2, <2>3
<1>8. PublisherSound'
  <2> SUFFICES ASSUME publisher.phase # "down"
               PROVE  /\ publisher.start \in 1..MaxStarts
                      /\ publisher.menu \in Snapshots
                      /\ publisher.menu.version <= edition
                      /\ publisher.phase # "replacing" \/ publisher'.answer = "ok"
                            => Published'
    BY <1>1, <1>2 DEF PublisherSound, Running
  <2>1. /\ publisher.start \in 1..MaxStarts /\ publisher.menu \in Snapshots
        /\ publisher.menu.version <= edition /\ publisher.menu.version \in Nat
        /\ s.version <= publisher.menu.version
        /\ publisher.phase # "replacing" \/ publisher.answer = "ok" => Published
    BY <1>0, SnapshotType DEF SyncSound, PublisherSound, RequestSound, Running
  \* A PUT that is late is no newer than the menu of the process.
  <2>2. CASE Published
    <3>1. verdict # "replaced" BY <1>0, <1>3, <2>1, <2>2 DEF Published
    <3>. QED BY <1>2, <1>3, <2>1, <2>2, <3>1 DEF Published, platformVars
  <2>3. CASE /\ publisher'.answer = answer /\ publisher.start = request.start
             /\ publisher.phase = "replacing"
    <3>1. s = publisher.menu BY <1>0, <2>3 DEF RequestSound, Running
    <3>2. answer = "ok" => venue'.version = s.version /\ venue'.snapshot = s
      BY <1>1, <1>3, <1>4, <1>5 DEF platformVars
    <3>. QED BY <1>2, <2>1, <2>3, <3>1, <3>2 DEF Published
  <2>. QED BY <1>2, <2>1, <2>2, <2>3
<1>. QED BY <1>5, <1>6, <1>7, <1>8 DEF SyncSound

LEMMA PatchSound ==
    ASSUME SyncSound, NEW request \in requests, HandlePatch(request)
    PROVE  SyncSound'
<1>0. /\ TypeOK /\ C!TypeOK /\ request.kind = "patch"
      /\ UNCHANGED <<edition, inStock>> /\ requests' = requests \ {request}
  BY DEF SyncSound, TypeOK, HandlePatch
<1>1. /\ venue' = [venue EXCEPT !.open = TRUE]
      /\ UNCHANGED <<menu, orders, checkouts, readers>>
      /\ Answered(request, "ok")
  BY DEF HandlePatch, C!UpdateAvailability
<1>2. /\ publisher' \in Process
      /\ publisher'.phase = publisher.phase /\ publisher'.start = publisher.start
      /\ publisher'.menu = publisher.menu
      /\ publisher'.answer = publisher.answer \/ publisher.phase = "opening"
  BY <1>0, <1>1, AnswerReaches
<1>3. C!TypeOK' /\ venue'.version = venue.version /\ venue'.snapshot = venue.snapshot
  BY <1>0, <1>1 DEF C!TypeOK
<1>4. TypeOK' BY <1>0, <1>2, <1>3 DEF TypeOK
<1>5. C!Shows(venue.version, menu)' BY <1>1, <1>3 DEF SyncSound, C!Shows
<1>6. PublisherSound'
  BY <1>0, <1>2, <1>3 DEF SyncSound, PublisherSound, Published, Running
<1>7. ASSUME NEW other \in requests' PROVE RequestSound(other)'
  BY <1>0, <1>2 DEF SyncSound, RequestSound, Running
<1>. QED BY <1>4, <1>5, <1>6, <1>7 DEF SyncSound

-----------------------------------------------------------------------------
(* The theorems *)

LEMMA SyncNext == SyncSound /\ [Next]_vars => SyncSound'
<1> SUFFICES ASSUME SyncSound, [Next]_vars PROVE SyncSound' OBVIOUS
<1>0. TypeOK /\ edition \in 1..MaxVersion BY DEF SyncSound, TypeOK
<1>1. CASE \E i \in Items : SellOut(i) \/ Restock(i)
  BY <1>0, <1>1, ShopSound, BoundsAssumption DEF SellOut, Restock, TypeOK
<1>2. CASE EditMenu BY <1>0, <1>2, ShopSound, BoundsAssumption DEF EditMenu, TypeOK
<1>3. CASE UNCHANGED vars
  BY <1>0, <1>3, ShopSound, BoundsAssumption DEF vars, TypeOK
<1>. QED BY <1>1, <1>2, <1>3, StartSound, ProcessSound, PutSound, PatchSound DEF Next

LEMMA SyncHolds == Spec => []SyncSound
<1>. QED BY SyncInit, SyncNext, PTL DEF Spec

\* The platform, the process of the venue and the requests between them keep
\* their types.
THEOREM TypeCorrect == Spec => []TypeOK
<1>1. SyncSound => TypeOK BY DEF SyncSound
<1>. QED BY <1>1, SyncHolds, PTL

\* MenuPublisher lets the venue serve only when the platform shows its menu,
\* and no PUT of an earlier process that ReplaceMenu handles late takes it away.
THEOREM ServedIsPublished == Spec => []ServingIsPublished
<1>1. SyncSound => ServingIsPublished
  BY DEF SyncSound, ServingIsPublished, PublisherSound, Published, Running
<1>. QED BY <1>1, SyncHolds, PTL

\* What the venue does to the platform is ReplaceMenu or UpdateAvailability.
LEMMA PlatformSteps ==
    ASSUME SyncSound, [Next]_vars
    PROVE  \/ \E s \in Snapshots : C!ReplaceMenu(s)
           \/ C!UpdateAvailability(TRUE)
           \/ UNCHANGED platformVars
<1>1. CASE UNCHANGED vars BY <1>1 DEF vars
<1>2. CASE \/ \E i \in Items : SellOut(i) \/ Restock(i)
           \/ EditMenu \/ Start \/ Open \/ Serve \/ Stop
  BY <1>2 DEF SellOut, Restock, EditMenu, Start, Open, Serve, Stop
<1>3. ASSUME NEW request \in requests, HandlePut(request)
      PROVE  \/ \E s \in Snapshots : C!ReplaceMenu(s)
             \/ UNCHANGED platformVars
  <2>1. request.snapshot \in Snapshots
    BY <1>3 DEF SyncSound, TypeOK, HandlePut, Put, Patch
  <2>. QED BY <1>3, <2>1 DEF HandlePut
<1>4. ASSUME NEW request \in requests, HandlePatch(request)
      PROVE  C!UpdateAvailability(TRUE)
  BY <1>4 DEF HandlePatch
<1>. QED BY <1>1, <1>2, <1>3, <1>4 DEF Next

\* MenuSync implements Catalog: every step of it is a ReplaceMenu or an
\* UpdateAvailability of the partner API, or leaves the platform alone.
THEOREM UsesCatalog == Spec => C!Spec
<1>1. Init => C!Init BY DEF Init
<1>2. SyncSound /\ [Next]_vars => [C!Next]_(C!vars)
  <2> SUFFICES ASSUME SyncSound, [Next]_vars PROVE [C!Next]_(C!vars) OBVIOUS
  <2>1. CASE \E s \in Snapshots : C!ReplaceMenu(s) BY <2>1 DEF C!Next
  <2>2. CASE C!UpdateAvailability(TRUE) BY <2>2 DEF C!Next
  <2>3. CASE UNCHANGED platformVars BY <2>3 DEF platformVars, C!vars
  <2>. QED BY <2>1, <2>2, <2>3, PlatformSteps
<1>. QED BY <1>1, <1>2, SyncHolds, PTL DEF Spec, C!Spec

\* The menu under a published version is for good, through restarts of the
\* venue and PUTs that ReplaceMenu handles late or not at all.
THEOREM PublishedForGood == Spec => C!VersionsGrow
<1>1. SyncSound /\ [Next]_vars =>
        [/\ venue'.version >= venue.version
         /\ venue'.version = venue.version => menu' = menu]_(C!vars)
  <2> SUFFICES ASSUME SyncSound, [Next]_vars
               PROVE  /\ venue'.version >= venue.version
                      /\ venue'.version = venue.version => menu' = menu
    OBVIOUS
  <2>0. C!TypeOK /\ venue.version \in Nat BY DEF SyncSound, TypeOK, C!TypeOK
  <2>1. ASSUME NEW s \in Snapshots, C!ReplaceMenu(s)
        PROVE  venue'.version \in Nat /\ venue'.version > venue.version
    <3>1. s.version > venue.version /\ s.version \in 1..MaxVersion
      BY <2>0, <2>1, VerdictTells, SnapshotType DEF C!ReplaceMenu, C!Newer
    <3>. QED BY <2>0, <2>1, <3>1 DEF C!ReplaceMenu, C!TypeOK
  <2>2. CASE \E s \in Snapshots : C!ReplaceMenu(s)
    <3>1. venue'.version \in Nat /\ venue'.version > venue.version BY <2>1, <2>2
    <3>. QED BY <2>0, <3>1
  <2>3. CASE C!UpdateAvailability(TRUE) \/ UNCHANGED platformVars
    <3>1. venue'.version = venue.version /\ menu' = menu
      BY <2>0, <2>3 DEF C!UpdateAvailability, C!TypeOK, platformVars
    <3>. QED BY <2>0, <3>1
  <2>. QED BY <2>2, <2>3, PlatformSteps
<1>. QED BY <1>1, SyncHolds, PTL DEF Spec, C!VersionsGrow
=============================================================================
