-------------------------- MODULE Vehicles_proofs --------------------------
(***************************************************************************)
(* Proofs about Vehicles, for any users, vehicles, lists and requests.     *)
(***************************************************************************)
EXTENDS Vehicles, SequenceTheorems, TLAPS

-----------------------------------------------------------------------------
(***************************************************************************)
(* Lists.  The inductive invariant: whoever stores a list has stored what  *)
(* is no longer in its todo, and while vehicles are missing one request is *)
(* not about to be ended by another (Leads).                               *)
(***************************************************************************)
Initialising(r) == request[r].step \in {"find", "create"}
\* In these, s is what the users' tables hold.
Missing(u, s) == ToSet(Listed[u]) \ s[u]

TodoOK(q, s) ==
  /\ q.step \in {"idle", "list", "find", "create", "ask", "fetch", "store"}
  /\ q.step \in {"find", "create"} =>
       q.user \in Accounts /\ q.todo \in Seq(Cars) /\ Missing(q.user, s) \subseteq ToSet(q.todo)
  /\ q.step = "create" => q.todo # <<>>
  /\ q.step = "list" => q.user \in Accounts

Leads(q, u, s) ==
  /\ q.step \in {"find", "create"} /\ q.user = u
  /\ q.step = "create" => Head(q.todo) \notin s[u]

ListInv ==
  /\ stored \in [Accounts -> SUBSET Cars]
  /\ DOMAIN request = Requests
  /\ \A r \in Requests : TodoOK(request[r], stored)
  /\ \A u \in Accounts \ incomplete :
       stored[u] # {} /\ Missing(u, stored) # {} => \E r \in Requests : Leads(request[r], u, stored)

\* A sequence's elements are its head and those of its tail.
LEMMA ToSetHeadTail ==
  ASSUME NEW S, NEW s \in Seq(S), s # <<>>
  PROVE  /\ ToSet(s) = {Head(s)} \cup ToSet(Tail(s))
         /\ Head(s) \in S /\ Tail(s) \in Seq(S)
<1>1. Len(s) > 0 /\ Head(s) = s[1] /\ Head(s) \in S /\ Tail(s) \in Seq(S) /\ Len(Tail(s)) = Len(s) - 1
      /\ \A i \in 1..Len(Tail(s)) : Tail(s)[i] = s[i + 1]
  BY HeadTailProperties
<1>2. ASSUME NEW x \in ToSet(s), x # Head(s) PROVE x \in ToSet(Tail(s))
  <2>1. PICK i \in 1..Len(s) : x = s[i]
    BY DEF ToSet
  <2>2. i # 1 /\ (i - 1) \in 1..Len(Tail(s)) /\ x = Tail(s)[i - 1]
    BY <1>1, <1>2, <2>1
  <2>3. QED
    BY <1>1, <2>2, Len(Tail(s)) \in Nat, DOMAIN Tail(s) = 1..Len(Tail(s)) DEF ToSet
<1>3. ASSUME NEW x \in ToSet(Tail(s)) PROVE x \in ToSet(s)
  <2>1. PICK i \in 1..Len(Tail(s)) : x = Tail(s)[i]
    BY <1>1 DEF ToSet
  <2>2. (i + 1) \in 1..Len(s) /\ x = s[i + 1]
    BY <1>1, <2>1
  <2>3. QED
    BY <2>2 DEF ToSet
<1>4. Head(s) \in ToSet(s)
  BY <1>1 DEF ToSet
<1>5. QED
  BY <1>1, <1>2, <1>3, <1>4

LEMMA InitList == Init => ListInv
BY DEF Init, ListInv, TodoOK, Idle

-----------------------------------------------------------------------------
(* Lemmas about the parts. *)

\* A step of request r keeps the invariant if, for every user who is short of vehicles,
\* r leads after it, or did not lead before it and nothing was stored.
LEMMA ListStep ==
  ASSUME ListInv, NEW r \in Requests, NEW q, request' = [request EXCEPT ![r] = q],
         TodoOK(q, stored'), stored' \in [Accounts -> SUBSET Cars], incomplete \subseteq incomplete',
         \A u \in Accounts : stored[u] \subseteq stored'[u],
         \A u \in Accounts \ incomplete' :
           Missing(u, stored') # {} =>
             Leads(q, u, stored') \/ (stored'[u] = stored[u] /\ ~Leads(request[r], u, stored))
  PROVE  ListInv'
<1>1. request'[r] = q /\ DOMAIN request' = Requests /\ \A p \in Requests \ {r} : request'[p] = request[p]
  BY DEF ListInv
<1>2. \A u \in Accounts : Missing(u, stored') \subseteq Missing(u, stored)
  BY DEF Missing
<1>3. ASSUME NEW p \in Requests PROVE TodoOK(request'[p], stored')
  BY <1>1, <1>2 DEF ListInv, TodoOK
<1>4. ASSUME NEW u \in Accounts \ incomplete', stored'[u] # {}, Missing(u, stored') # {}
      PROVE  \E p \in Requests : Leads(request'[p], u, stored')
  <2>1. CASE Leads(q, u, stored')
    BY <1>1, <2>1
  <2>2. CASE stored'[u] = stored[u] /\ ~Leads(request[r], u, stored)
    <3>1. PICK p \in Requests : Leads(request[p], u, stored)
      BY <1>4, <2>2 DEF ListInv, Missing
    <3>2. p # r /\ Leads(request[p], u, stored')
      BY <2>2, <3>1 DEF Leads
    <3>3. QED
      BY <1>1, <3>2
  <2>3. QED
    BY <1>4, <2>1, <2>2
<1>5. QED
  BY <1>1, <1>3, <1>4 DEF ListInv

\* A step of a request that stores no list.
LEMMA NotListing ==
  ASSUME ListInv, NEW r \in Requests, NEW q, request' = [request EXCEPT ![r] = q],
         ~Initialising(r), TodoOK(q, stored), UNCHANGED <<stored, incomplete>>
  PROVE  ListInv'
<1>1. /\ stored' = stored /\ incomplete' = incomplete /\ stored \in [Accounts -> SUBSET Cars]
      /\ \A u : ~Leads(request[r], u, stored)
  BY DEF ListInv, Leads, Initialising
<1>2. QED
  BY <1>1, ListStep

-----------------------------------------------------------------------------
(* One lemma per action. *)

LEMMA ListVehiclesInv ==
  ASSUME ListInv, NEW r \in Requests, NEW u \in Accounts, ListVehicles(r, u)
  PROVE  ListInv'
<1>1. TodoOK(Listing("list", u, <<>>), stored) /\ ~Initialising(r)
  BY DEF TodoOK, Listing, ListVehicles, Initialising, Active
<1>2. request' = [request EXCEPT ![r] = Listing("list", u, <<>>)] /\ UNCHANGED <<stored, incomplete>>
  BY DEF ListVehicles, Become
<1>3. QED
  BY <1>1, <1>2, NotListing

LEMMA IdleOK == TodoOK(Idle, stored)
BY DEF TodoOK, Idle

LEMMA FetchVehiclesInv ==
  ASSUME ListInv, NEW r \in Requests, FetchVehicles(r)
  PROVE  ListInv'
<1> DEFINE q == Listing("find", request[r].user, Listed[request[r].user])
<1>1. ~Initialising(r) /\ UNCHANGED <<stored, incomplete>> /\ request[r].user \in Accounts
  BY DEF FetchVehicles, Initialising, ListInv, TodoOK
<1>2. TodoOK(q, stored)
  BY <1>1, VehiclesAssumption DEF TodoOK, Listing, Missing
<1>3. CASE Become(r, q)
  BY <1>1, <1>2, <1>3, NotListing DEF Become
<1>4. CASE Become(r, Idle)
  BY <1>1, <1>4, IdleOK, NotListing DEF Become
<1>5. QED
  BY <1>3, <1>4 DEF FetchVehicles

\* What a request that is storing a list knows.
LEMMA TodoKnown ==
  ASSUME ListInv, NEW r \in Requests, Initialising(r)
  PROVE  /\ request[r].user \in Accounts /\ request[r].todo \in Seq(Cars)
         /\ Missing(request[r].user, stored) \subseteq ToSet(request[r].todo)
         /\ request[r].step = "create" => request[r].todo # <<>>
         /\ stored \in [Accounts -> SUBSET Cars]
BY DEF ListInv, TodoOK, Initialising

\* Passing over a vehicle that is stored.
LEMMA PassOver ==
  ASSUME ListInv, NEW r \in Requests, Initialising(r), request[r].todo # <<>>,
         Head(request[r].todo) \in stored'[request[r].user],
         stored' \in [Accounts -> SUBSET Cars],
         \A u \in Accounts : stored[u] \subseteq stored'[u]
  PROVE  /\ TodoOK(Listing("find", request[r].user, Tail(request[r].todo)), stored')
         /\ Leads(Listing("find", request[r].user, Tail(request[r].todo)), request[r].user, stored')
<1>1. ToSet(request[r].todo) = {Head(request[r].todo)} \cup ToSet(Tail(request[r].todo))
      /\ Tail(request[r].todo) \in Seq(Cars)
  BY TodoKnown, ToSetHeadTail
<1>2. Missing(request[r].user, stored') \subseteq ToSet(Tail(request[r].todo))
  BY <1>1, TodoKnown DEF Missing
<1>3. QED
  BY <1>1, <1>2, TodoKnown DEF TodoOK, Leads, Listing

LEMMA FindVehicleInv ==
  ASSUME ListInv, NEW r \in Requests, FindVehicle(r)
  PROVE  ListInv'
<1> DEFINE u == request[r].user
           todo == request[r].todo
<1>1. request[r].step = "find" /\ Initialising(r) /\ stored' = stored /\ incomplete' = incomplete
      /\ \A w \in Accounts : w # u => ~Leads(request[r], w, stored)
  BY DEF FindVehicle, Initialising, Leads
<1>2. CASE todo = <<>>
  <2>1. Missing(u, stored) = {}
    <3>1. \A x : x \notin ToSet(todo)
      BY <1>2, DOMAIN <<>> = 1..0 DEF ToSet
    <3>2. QED
      BY <1>1, <3>1, TodoKnown DEF Missing
  <2>2. request' = [request EXCEPT ![r] = Idle]
    BY <1>2 DEF FindVehicle, Become
  <2>3. QED
    BY <1>1, <2>1, <2>2, IdleOK, TodoKnown, ListStep
<1>3. CASE todo # <<>> /\ Head(todo) \in stored[u]
  <2>1. request' = [request EXCEPT ![r] = Listing("find", u, Tail(todo))]
    BY <1>3 DEF FindVehicle, Become
  <2>2. TodoOK(Listing("find", u, Tail(todo)), stored) /\ Leads(Listing("find", u, Tail(todo)), u, stored)
    BY <1>1, <1>3, TodoKnown, PassOver
  <2>3. QED
    BY <1>1, <2>1, <2>2, TodoKnown, ListStep
<1>4. CASE todo # <<>> /\ Head(todo) \notin stored[u]
  <2>1. request' = [request EXCEPT ![r] = Listing("create", u, todo)]
    BY <1>4 DEF FindVehicle, Become
  <2>2. TodoOK(Listing("create", u, todo), stored) /\ Leads(Listing("create", u, todo), u, stored)
    BY <1>1, <1>4, TodoKnown DEF TodoOK, Leads, Listing
  <2>3. QED
    BY <1>1, <2>1, <2>2, TodoKnown, ListStep
<1>5. QED
  BY <1>2, <1>3, <1>4

LEMMA CreateVehicleInv ==
  ASSUME ListInv, NEW r \in Requests, CreateVehicle(r)
  PROVE  ListInv'
<1> DEFINE u == request[r].user
           todo == request[r].todo
<1>1. /\ request[r].step = "create" /\ Initialising(r) /\ todo # <<>> /\ incomplete' = incomplete
      /\ u \in Accounts /\ todo \in Seq(Cars) /\ stored \in [Accounts -> SUBSET Cars]
      /\ \A w \in Accounts : w # u => ~Leads(request[r], w, stored)
  BY TodoKnown DEF CreateVehicle, Initialising, Leads
<1>2. Head(todo) \in Cars
  BY <1>1, ToSetHeadTail
<1>3. /\ stored' \in [Accounts -> SUBSET Cars] /\ Head(todo) \in stored'[u]
      /\ \A w \in Accounts : stored[w] \subseteq stored'[w] /\ (w # u => stored'[w] = stored[w])
  BY <1>1, <1>2 DEF CreateVehicle
<1>4. request' = [request EXCEPT ![r] = Listing("find", u, Tail(todo))]
  BY DEF CreateVehicle, Become
<1>5. TodoOK(Listing("find", u, Tail(todo)), stored') /\ Leads(Listing("find", u, Tail(todo)), u, stored')
  BY <1>1, <1>3, PassOver
<1>6. QED
  BY <1>1, <1>3, <1>4, <1>5, ListStep

LEMMA CreateTakenInv ==
  ASSUME ListInv, NEW r \in Requests, CreateTaken(r)
  PROVE  ListInv'
<1> DEFINE u == request[r].user
           todo == request[r].todo
<1>1. /\ request[r].step = "create" /\ Initialising(r) /\ todo # <<>> /\ incomplete' = incomplete /\ stored' = stored
      /\ Head(todo) \in stored[u] /\ u \in Accounts /\ stored \in [Accounts -> SUBSET Cars]
      /\ \A w \in Accounts : ~Leads(request[r], w, stored)
  BY TodoKnown DEF CreateTaken, Initialising, Leads
<1>2. TodoOK(Listing("find", u, Tail(todo)), stored)
  BY <1>1, PassOver
<1>3. CASE Become(r, Idle)
  BY <1>1, <1>3, IdleOK, ListStep DEF Become
<1>4. CASE Become(r, Listing("find", u, Tail(todo)))
  BY <1>1, <1>2, <1>4, ListStep DEF Become
<1>5. QED
  BY <1>3, <1>4 DEF CreateTaken

\* A request ends, and its user's list is known to be incomplete if it was being stored.
LEMMA EndInv ==
  ASSUME ListInv, NEW r \in Requests, Become(r, Idle), UNCHANGED stored, incomplete \subseteq incomplete',
         Initialising(r) => request[r].user \in incomplete'
  PROVE  ListInv'
<1>1. /\ stored \in [Accounts -> SUBSET Cars] /\ stored' = stored
      /\ \A u \in Accounts \ incomplete' : ~Leads(request[r], u, stored)
  BY DEF ListInv, Leads, Initialising
<1>2. QED
  BY <1>1, IdleOK, ListStep DEF Become

LEMMA SetVehicleInv ==
  ASSUME ListInv, NEW r \in Requests, NEW u \in Accounts, NEW v \in Cars,
         NEW kind \in {"start", "stop", "refresh"}, SetVehicle(r, kind, u, v)
  PROVE  ListInv'
<1> DEFINE q == Request("ask", kind, u, v, row[u][v], nil)
<1>1. TodoOK(q, stored) /\ ~Initialising(r)
  BY DEF TodoOK, Request, SetVehicle, Initialising, Active
<1>2. request' = [request EXCEPT ![r] = q] /\ UNCHANGED <<stored, incomplete>>
  BY DEF SetVehicle, Become
<1> HIDE DEF q
<1>3. QED
  BY <1>1, <1>2, NotListing

\* The steps of the requests that have a vehicle.
LEMMA SwitchingInv ==
  ASSUME ListInv, NEW r \in Requests,
         Configure(r) \/ Delete(r) \/ Refused(r) \/ FetchData(r) \/ FetchNothing(r) \/ Store(r)
  PROVE  ListInv'
<1>1. ~Initialising(r) /\ UNCHANGED <<stored, incomplete>>
  BY DEF Initialising, Configure, Delete, Refused, FetchData, FetchNothing, Store
<1>2. CASE Become(r, Idle)
  BY <1>1, <1>2, IdleOK, NotListing DEF Become
<1>3. ASSUME NEW step \in {"fetch", "store"}, NEW data, GoOn(r, step, data)
      PROVE  ListInv'
  <2> DEFINE q == Request(step, request[r].kind, request[r].user, request[r].vehicle, request[r].copy, data)
  <2>1. request' = [request EXCEPT ![r] = q] /\ TodoOK(q, stored)
    BY <1>3 DEF GoOn, Become, TodoOK, Request
  <2> HIDE DEF q
  <2>2. QED
    BY <1>1, <2>1, NotListing
<1>4. QED
  BY <1>2, <1>3 DEF Configure, Delete, Refused, FetchData, FetchNothing, Store

LEMMA ListNext == ListInv /\ [Next]_vars => ListInv'
<1> SUFFICES ASSUME ListInv, [Next]_vars PROVE ListInv'
  OBVIOUS
<1>1. ASSUME UNCHANGED vars PROVE ListInv'
  BY <1>1 DEF vars, ListInv
<1>2. ASSUME NEW r \in Requests, CreateInvalid(r) PROVE ListInv'
  BY <1>2, EndInv DEF CreateInvalid
<1>3. ASSUME NEW r \in Requests, Fail(r) PROVE ListInv'
  BY <1>3, EndInv DEF Fail, Initialising
<1>4. QED
  BY <1>1, <1>2, <1>3, ListVehiclesInv, SetVehicleInv, FetchVehiclesInv, FindVehicleInv, CreateVehicleInv,
     CreateTakenInv, SwitchingInv DEF Next

\* However many requests initialise one user's vehicles and end each other, the list
\* is complete once they are done, unless a VIN is bad or a worker died.
THEOREM ListsComplete == Spec => []ListComplete
<1>1. ListInv => ListComplete
  <2> SUFFICES ASSUME ListInv, NEW u \in Accounts, stored[u] # {}, u \notin incomplete,
                      \A r \in Requests : ~(request[r].step \in {"find", "create"} /\ request[r].user = u)
               PROVE  ToSet(Listed[u]) \subseteq stored[u]
    BY DEF ListComplete
  <2>1. \A r \in Requests : ~Leads(request[r], u, stored)
    BY DEF Leads
  <2>2. QED
    BY <2>1 DEF ListInv, Missing
<1>2. QED
  BY InitList, ListNext, <1>1, PTL DEF Spec

-----------------------------------------------------------------------------
(***************************************************************************)
(* Starts and stops.  While a request that none of its kind overlaps is    *)
(* under way, nobody else changes what Tesla or the row says about the     *)
(* vehicle (Undisturbed).                                                  *)
(***************************************************************************)
HasVehicle(q) == q.step \in {"ask", "fetch", "store"}

Typed(q) ==
  /\ q.step \in {"idle", "list", "find", "create", "ask", "fetch", "store"}
  /\ q.step \in {"list", "find", "create"} => q.kind = "initialise"
  /\ HasVehicle(q) => /\ q.user \in Accounts /\ q.vehicle \in Cars /\ q.kind \in {"start", "stop", "refresh"}
                      /\ q.copy \in Rows /\ q.data \in 0..MaxFetches
  /\ q.step = "fetch" => q.kind = "start"

Switches(q, v) == HasVehicle(q) /\ q.kind \in {"start", "stop"} /\ q.vehicle = v

\* In these, req, table and streamed are the requests, the rows and what Tesla streams.
Undisturbed(r, req, table, streamed) ==
  LET q == req[r] IN
  HasVehicle(q) =>
    /\ q.kind \in {"start", "stop"}
    /\ \A p \in Requests \ {r} : ~Switches(req[p], q.vehicle)
    /\ table[q.user][q.vehicle].telemetry_active = q.copy.telemetry_active
    /\ q.step \in {"fetch", "store"} => (q.vehicle \in streamed <=> q.kind = "start")

SoloInv ==
  /\ DOMAIN request = Requests
  /\ row \in [Accounts -> [Cars -> Rows]]
  /\ \A r \in Requests : Typed(request[r])
  /\ \A r \in Requests \cap solo : Undisturbed(r, request, row, configured)

LEMMA InitSolo == Init => SoloInv
<1> SUFFICES ASSUME Init PROVE SoloInv
  OBVIOUS
<1>1. row \in [Accounts -> [Cars -> Rows]]
  BY VehiclesAssumption DEF Init, NewRow, Rows, nil
<1>2. \A r \in Requests : request[r] = Idle /\ Typed(Idle)
  BY DEF Init, Idle, Typed, HasVehicle
<1>3. QED
  BY <1>1, <1>2 DEF Init, SoloInv

LEMMA SwitchingIs ==
  ASSUME SoloInv, NEW v
  PROVE  Switching(v) = {r \in Requests : Switches(request[r], v)}
<1>1. ASSUME NEW r \in Requests
      PROVE  Active(r) /\ request[r].kind \in {"start", "stop"} /\ request[r].vehicle = v <=> Switches(request[r], v)
  BY DEF SoloInv, Typed, HasVehicle, Switches, Active
<1>2. QED
  BY <1>1 DEF Switching

RowsTyped(table) == table \in [Accounts -> [Cars -> Rows]]

\* A step of request r disturbs no other.
LEMMA SoloStep ==
  ASSUME SoloInv, NEW r \in Requests, NEW q, request' = [request EXCEPT ![r] = q], Typed(q), RowsTyped(row'),
         r \in solo' => Undisturbed(r, request', row', configured'),
         \A p \in (Requests \cap solo') \ {r} :
           /\ p \in solo
           /\ HasVehicle(request[p]) =>
                /\ ~Switches(q, request[p].vehicle)
                /\ row'[request[p].user][request[p].vehicle].telemetry_active
                     = row[request[p].user][request[p].vehicle].telemetry_active
                /\ request[p].vehicle \in configured' <=> request[p].vehicle \in configured
  PROVE  SoloInv'
<1>1. request'[r] = q /\ DOMAIN request' = Requests /\ \A p \in Requests \ {r} : request'[p] = request[p]
  BY DEF SoloInv
<1>2. ASSUME NEW p \in Requests PROVE Typed(request'[p])
  BY <1>1 DEF SoloInv
<1>3. ASSUME NEW p \in (Requests \cap solo') \ {r} PROVE Undisturbed(p, request', row', configured')
  BY <1>1, <1>3 DEF SoloInv, Undisturbed
<1>4. QED
  BY <1>1, <1>2, <1>3 DEF SoloInv, RowsTyped

\* A step that changes neither rows nor Tesla, and switches no other vehicle.
LEMMA SoloFrame ==
  ASSUME SoloInv, NEW r \in Requests, NEW q, request' = [request EXCEPT ![r] = q], Typed(q),
         UNCHANGED <<row, configured, solo>>,
         \A v : Switches(q, v) => Switches(request[r], v),
         r \in solo /\ HasVehicle(q) => Undisturbed(r, request', row', configured')
  PROVE  SoloInv'
<1>1. RowsTyped(row') /\ row' = row /\ configured' = configured /\ solo' = solo
  BY DEF SoloInv, RowsTyped
<1>2. ASSUME NEW p \in (Requests \cap solo) \ {r}, HasVehicle(request[p])
      PROVE  ~Switches(q, request[p].vehicle)
  BY <1>2 DEF SoloInv, Undisturbed
<1>3. r \in solo' => Undisturbed(r, request', row', configured')
  <2>1. request'[r] = q
    BY DEF SoloInv
  <2>2. QED
    BY <1>1, <2>1 DEF Undisturbed
<1>4. QED
  BY <1>1, <1>2, <1>3, SoloStep

\* Steps of requests without a vehicle, and ends.
LEMMA SoloListing ==
  ASSUME SoloInv, NEW r \in Requests, NEW q, request' = [request EXCEPT ![r] = q],
         q = Idle \/ (q.step \in {"list", "find", "create"} /\ q.kind = "initialise"),
         UNCHANGED <<row, configured, solo>>
  PROVE  SoloInv'
<1>1. Typed(q) /\ ~HasVehicle(q)
  BY DEF Typed, HasVehicle, Idle
<1>2. QED
  BY <1>1, SoloFrame DEF Switches

LEMMA SoloEnds ==
  ASSUME SoloInv, NEW r \in Requests, Become(r, Idle), UNCHANGED <<row, configured, solo>>
  PROVE  SoloInv'
BY SoloListing DEF Become

LEMMA SoloLists ==
  ASSUME SoloInv, NEW r \in Requests,
         \/ \E u \in Accounts : ListVehicles(r, u)
         \/ FetchVehicles(r) \/ FindVehicle(r) \/ CreateVehicle(r) \/ CreateTaken(r)
  PROVE  SoloInv'
<1>1. UNCHANGED <<row, configured, solo>>
  BY DEF ListVehicles, FetchVehicles, FindVehicle, CreateVehicle, CreateTaken
<1>2. CASE Become(r, Idle)
  BY <1>1, <1>2, SoloEnds
<1>3. ASSUME NEW step \in {"list", "find", "create"}, NEW u, NEW todo, Become(r, Listing(step, u, todo))
      PROVE  SoloInv'
  <2> DEFINE q == Listing(step, u, todo)
  <2>1. q.step \in {"list", "find", "create"} /\ q.kind = "initialise"
    BY DEF Listing
  <2>2. request' = [request EXCEPT ![r] = q]
    BY <1>3 DEF Become
  <2> HIDE DEF q
  <2>3. QED
    BY <1>1, <2>1, <2>2, SoloListing
<1>4. QED
  BY <1>2, <1>3 DEF ListVehicles, FetchVehicles, FindVehicle, CreateVehicle, CreateTaken

\* What a request with a vehicle becomes.
LEMMA GoesOn ==
  ASSUME SoloInv, NEW r \in Requests, HasVehicle(request[r]), NEW step \in {"fetch", "store"}, NEW data \in 0..MaxFetches,
         step = "fetch" => request[r].kind = "start", GoOn(r, step, data)
  PROVE  \E q : /\ request' = [request EXCEPT ![r] = q] /\ request'[r] = q /\ Typed(q)
                /\ q.step = step /\ q.kind = request[r].kind /\ q.user = request[r].user
                /\ q.vehicle = request[r].vehicle /\ q.copy = request[r].copy
                /\ \A v : Switches(q, v) <=> Switches(request[r], v)
                /\ \A p \in Requests \ {r} : request'[p] = request[p]
<1> DEFINE q == Request(step, request[r].kind, request[r].user, request[r].vehicle, request[r].copy, data)
<1>1. request' = [request EXCEPT ![r] = q] /\ request'[r] = q
      /\ \A p \in Requests \ {r} : request'[p] = request[p]
  BY DEF GoOn, Become, SoloInv
<1>2. /\ q.step = step /\ q.kind = request[r].kind /\ q.user = request[r].user
      /\ q.vehicle = request[r].vehicle /\ q.copy = request[r].copy /\ q.data = data
  BY DEF Request
<1> HIDE DEF q
<1>3. Typed(q) /\ \A v : Switches(q, v) <=> Switches(request[r], v)
  BY <1>2 DEF SoloInv, Typed, HasVehicle, Switches
<1>4. QED
  BY <1>1, <1>2, <1>3

\* Fetching, well or not.
LEMMA SoloFetches ==
  ASSUME SoloInv, NEW r \in Requests, FetchData(r) \/ FetchNothing(r), fetches' \in 0..MaxFetches
  PROVE  SoloInv'
<1>1. /\ HasVehicle(request[r]) /\ UNCHANGED <<row, configured, solo>>
      /\ request[r].step = "fetch" \/ request[r].kind = "refresh"
  BY DEF FetchData, FetchNothing, HasVehicle
<1>2. ASSUME NEW data \in 0..MaxFetches, GoOn(r, "store", data) PROVE SoloInv'
  <2>1. PICK q : /\ request' = [request EXCEPT ![r] = q] /\ request'[r] = q /\ Typed(q)
                 /\ q.step = "store" /\ q.kind = request[r].kind /\ q.user = request[r].user
                 /\ q.vehicle = request[r].vehicle /\ q.copy = request[r].copy
                 /\ \A v : Switches(q, v) <=> Switches(request[r], v)
                 /\ \A p \in Requests \ {r} : request'[p] = request[p]
    BY <1>1, <1>2, GoesOn
  <2>2. r \in solo => Undisturbed(r, request', row, configured)
    BY <1>1, <2>1 DEF SoloInv, Undisturbed
  <2>3. QED
    BY <1>1, <2>1, <2>2, SoloFrame
<1>3. nil \in 0..MaxFetches
  BY VehiclesAssumption DEF nil
<1>4. QED
  BY <1>2, <1>3 DEF FetchData, FetchNothing

\* Tesla takes a configuration or deletes it.
LEMMA SoloSwitches ==
  ASSUME SoloInv, NEW r \in Requests, Configure(r) \/ Delete(r)
  PROVE  SoloInv'
<1> DEFINE v == request[r].vehicle
           step == IF request[r].kind = "start" THEN "fetch" ELSE "store"
<1>1. /\ HasVehicle(request[r]) /\ Switches(request[r], v) /\ row' = row /\ solo' = solo /\ RowsTyped(row')
      /\ v \in configured' <=> request[r].kind = "start"
      /\ \A w : w # v => (w \in configured' <=> w \in configured)
      /\ step \in {"fetch", "store"} /\ (step = "fetch" => request[r].kind = "start")
      /\ GoOn(r, step, nil) \/ Become(r, Idle)
      /\ nil \in 0..MaxFetches
  BY VehiclesAssumption DEF nil, Configure, Delete, HasVehicle, Switches, SoloInv, RowsTyped
<1>2. \A p \in (Requests \cap solo) \ {r} : HasVehicle(request[p]) => request[p].vehicle # v
  BY <1>1 DEF SoloInv, Undisturbed
<1>3. CASE Become(r, Idle)
  <2>1. Typed(Idle) /\ ~HasVehicle(Idle) /\ (\A w : ~Switches(Idle, w)) /\ request'[r] = Idle
    BY <1>3 DEF Typed, HasVehicle, Idle, Switches, Become, SoloInv
  <2>2. r \in solo' => Undisturbed(r, request', row', configured')
    BY <2>1 DEF Undisturbed
  <2>3. QED
    BY <1>1, <1>2, <1>3, <2>1, <2>2, SoloStep DEF Become
<1>4. CASE GoOn(r, step, nil)
  <2>1. PICK q : /\ request' = [request EXCEPT ![r] = q] /\ request'[r] = q /\ Typed(q)
                 /\ q.step = step /\ q.kind = request[r].kind /\ q.user = request[r].user
                 /\ q.vehicle = request[r].vehicle /\ q.copy = request[r].copy
                 /\ \A w : Switches(q, w) <=> Switches(request[r], w)
                 /\ \A p \in Requests \ {r} : request'[p] = request[p]
    BY <1>1, <1>4, GoesOn
  <2>2. r \in solo => Undisturbed(r, request', row', configured')
    BY <1>1, <2>1 DEF SoloInv, Undisturbed
  <2>3. \A w : w # v => ~Switches(q, w)
    BY <2>1 DEF Switches
  <2>4. QED
    BY <1>1, <1>2, <2>1, <2>2, <2>3, SoloStep
<1>5. QED
  BY <1>1, <1>3, <1>4

LEMMA SoloSet ==
  ASSUME SoloInv, NEW r \in Requests, NEW u \in Accounts, NEW v \in Cars,
         NEW kind \in {"start", "stop", "refresh"}, SetVehicle(r, kind, u, v)
  PROVE  SoloInv'
<1> DEFINE q == Request("ask", kind, u, v, row[u][v], nil)
<1>1. /\ request' = [request EXCEPT ![r] = q] /\ RowsTyped(row') /\ row' = row /\ configured' = configured
      /\ request'[r] = q /\ \A p \in Requests \ {r} : request'[p] = request[p]
  BY DEF SetVehicle, Become, SoloInv, RowsTyped
<1>2. /\ q.step = "ask" /\ q.kind = kind /\ q.user = u /\ q.vehicle = v /\ q.copy = row[u][v] /\ q.data = nil
      /\ row[u][v] \in Rows /\ nil \in 0..MaxFetches
  BY VehiclesAssumption DEF Request, SoloInv, nil
<1> HIDE DEF q
<1>3. Typed(q) /\ HasVehicle(q) /\ \A w : Switches(q, w) <=> kind # "refresh" /\ w = v
  BY <1>2 DEF Typed, HasVehicle, Switches
<1>4. Switching(v) = {p \in Requests : Switches(request[p], v)}
  BY SwitchingIs
<1>5. /\ r \in solo' => kind # "refresh" /\ \A p \in Requests \ {r} : ~Switches(request[p], v)
      /\ \A p \in (Requests \cap solo') \ {r} : p \in solo /\ (kind = "refresh" \/ ~Switches(request[p], v))
  BY <1>4 DEF SetVehicle
<1>6. r \in solo' => Undisturbed(r, request', row', configured')
  BY <1>1, <1>2, <1>5, <1>3 DEF Undisturbed
<1>7. \A p \in (Requests \cap solo') \ {r} : HasVehicle(request[p]) => ~Switches(q, request[p].vehicle)
  BY <1>2, <1>5, <1>3 DEF SoloInv, Undisturbed, Switches
<1>8. QED
  BY <1>1, <1>2, <1>5, <1>6, <1>7, <1>3, SoloStep


\* What a store leaves in the rows.
LEMMA StoreRow ==
  ASSUME SoloInv, NEW r \in Requests, Store(r)
  PROVE  /\ RowsTyped(row') /\ HasVehicle(request[r])
         /\ request[r].kind = "refresh" =>
              \A u \in Accounts, v \in Cars : row'[u][v].telemetry_active = row[u][v].telemetry_active
         /\ \A u \in Accounts, v \in Cars : v # request[r].vehicle => row'[u][v] = row[u][v]
         /\ r \in solo =>
              /\ row'[request[r].user][request[r].vehicle].telemetry_active = (request[r].kind = "start")
              /\ request[r].vehicle \in configured <=> request[r].kind = "start"
<1> DEFINE q == request[r]
           old == row[q.user][q.vehicle]
           new == Saved(old, q.copy, Changed(q))
<1>1. /\ q.step = "store" /\ HasVehicle(q) /\ q.user \in Accounts /\ q.vehicle \in Cars
      /\ q.copy \in Rows /\ q.data \in 0..MaxFetches /\ q.kind \in {"start", "stop", "refresh"}
      /\ row' = [row EXCEPT ![q.user][q.vehicle] = new]
      /\ old \in Rows
  BY DEF Store, HasVehicle, SoloInv, Typed
<1>2. /\ Changed(q).telemetry_active = IF q.kind = "start" THEN TRUE
                                      ELSE IF q.kind = "stop" THEN FALSE ELSE q.copy.telemetry_active
      /\ Changed(q).telemetry_active \in BOOLEAN /\ Changed(q).cached_data \in 0..MaxFetches
  BY <1>1 DEF Changed, Rows
<1>3. /\ new \in Rows
      /\ new.telemetry_active = IF Changed(q).telemetry_active # q.copy.telemetry_active
                               THEN Changed(q).telemetry_active ELSE old.telemetry_active
  BY <1>1, <1>2 DEF Saved, Written, Rows
<1>4. RowsTyped(row') /\ row'[q.user][q.vehicle] = new
      /\ \A u \in Accounts, v \in Cars : u # q.user \/ v # q.vehicle => row'[u][v] = row[u][v]
  <2> HIDE DEF new
  <2>1. QED
    BY <1>1, <1>3 DEF RowsTyped, SoloInv
<1>5. q.kind = "refresh" => new.telemetry_active = old.telemetry_active
  BY <1>2, <1>3
<1>6. r \in solo => /\ new.telemetry_active = (q.kind = "start")
                    /\ q.vehicle \in configured <=> q.kind = "start"
  <2> SUFFICES ASSUME r \in solo PROVE /\ new.telemetry_active = (q.kind = "start")
                                       /\ q.vehicle \in configured <=> q.kind = "start"
    OBVIOUS
  <2>1. /\ q.kind \in {"start", "stop"} /\ old.telemetry_active = q.copy.telemetry_active
        /\ q.vehicle \in configured <=> q.kind = "start"
    BY <1>1 DEF SoloInv, Undisturbed
  <2>2. new.telemetry_active = IF Changed(q).telemetry_active # q.copy.telemetry_active
                               THEN Changed(q).telemetry_active ELSE old.telemetry_active
    BY <1>3
  <2>3. old.telemetry_active = q.copy.telemetry_active
    BY <2>1
  <2> HIDE DEF new, old
  <2>4. new.telemetry_active = Changed(q).telemetry_active
    BY <2>2, <2>3, Zenon
  <2>5. CASE q.kind = "start"
    <3>1. Changed(q).telemetry_active = TRUE
      BY <1>2, <2>5, Zenon
    <3>2. QED
      BY <2>1, <2>4, <2>5, <3>1
  <2>6. CASE q.kind = "stop"
    <3>1. Changed(q).telemetry_active = FALSE
      BY <1>2, <2>6
    <3>2. QED
      BY <2>1, <2>4, <2>6, <3>1
  <2>7. QED
    BY <2>1, <2>5, <2>6
<1>7. QED
  BY <1>1, <1>4, <1>5, <1>6

LEMMA SoloStores ==
  ASSUME SoloInv, NEW r \in Requests, Store(r)
  PROVE  SoloInv'
<1>1. /\ request' = [request EXCEPT ![r] = Idle] /\ configured' = configured /\ solo' = solo
      /\ request'[r] = Idle
  BY DEF Store, Become, SoloInv
<1>2. Typed(Idle) /\ ~HasVehicle(Idle) /\ \A w : ~Switches(Idle, w)
  BY DEF Typed, HasVehicle, Idle, Switches
<1>3. RowsTyped(row') /\ (r \in solo' => Undisturbed(r, request', row', configured'))
  BY <1>1, <1>2, StoreRow DEF Undisturbed
<1>4. ASSUME NEW p \in (Requests \cap solo) \ {r}, HasVehicle(request[p])
      PROVE  row'[request[p].user][request[p].vehicle].telemetry_active
               = row[request[p].user][request[p].vehicle].telemetry_active
  <2>1. request[p].user \in Accounts /\ request[p].vehicle \in Cars /\ ~Switches(request[r], request[p].vehicle)
    BY <1>4 DEF SoloInv, Typed, Undisturbed
  <2>2. CASE request[r].kind = "refresh"
    BY <2>1, <2>2, StoreRow
  <2>3. CASE request[r].kind # "refresh"
    <3>1. request[p].vehicle # request[r].vehicle
      BY <2>1, <2>3, StoreRow DEF Switches, SoloInv, Typed
    <3>2. QED
      BY <2>1, <3>1, StoreRow
  <2>4. QED
    BY <2>2, <2>3
<1>5. QED
  BY <1>1, <1>2, <1>3, <1>4, SoloStep

FetchesOK == fetches \in 0..MaxFetches

LEMMA FetchesNext == FetchesOK /\ [Next]_vars => FetchesOK'
<1> SUFFICES ASSUME FetchesOK, [Next]_vars PROVE FetchesOK'
  OBVIOUS
<1>1. ASSUME NEW r \in Requests, FetchData(r) PROVE FetchesOK'
  BY <1>1, VehiclesAssumption DEF FetchesOK, FetchData
<1>2. CASE UNCHANGED fetches
  BY <1>2 DEF FetchesOK
<1>3. (\E r \in Requests : FetchData(r)) \/ UNCHANGED fetches
  BY DEF Next, vars, ListVehicles, SetVehicle, FetchVehicles, FindVehicle, CreateVehicle, CreateTaken,
       CreateInvalid, Configure, Delete, Refused, FetchNothing, Store, Fail
<1>4. QED
  BY <1>1, <1>2, <1>3

LEMMA SoloNext == SoloInv /\ FetchesOK' /\ [Next]_vars => SoloInv'
<1> SUFFICES ASSUME SoloInv, FetchesOK', [Next]_vars PROVE SoloInv'
  OBVIOUS
<1>1. ASSUME UNCHANGED vars PROVE SoloInv'
  BY <1>1 DEF vars, SoloInv
<1>2. ASSUME NEW r \in Requests, CreateInvalid(r) \/ Refused(r) \/ Fail(r) PROVE SoloInv'
  BY <1>2, SoloEnds DEF CreateInvalid, Refused, Fail
<1>3. ASSUME NEW r \in Requests, FetchData(r) \/ FetchNothing(r) PROVE SoloInv'
  BY <1>3, SoloFetches DEF FetchesOK
<1>4. QED
  BY <1>1, <1>2, <1>3, SoloLists, SoloSwitches, SoloSet, SoloStores DEF Next

\* A start or a stop that succeeds and is not overlapped by another one of the same
\* vehicle leaves the row and Tesla in agreement, whatever was the case before.
THEOREM SoloRequestsRepair == Spec => SoloRepairs
<1> DEFINE Repair ==
      \A r \in solo : \A u \in Accounts : \A v \in Cars :
        Store(r) /\ request[r].user = u /\ request[r].vehicle = v =>
          /\ row'[u][v].telemetry_active <=> v \in configured'
          /\ v \in configured' <=> request[r].kind = "start"
<1>1. SoloInv /\ solo \subseteq Requests => [Repair]_vars
  <2> SUFFICES ASSUME SoloInv, NEW r \in Requests, r \in solo, Store(r),
                      NEW u \in Accounts, NEW v \in Cars, request[r].user = u, request[r].vehicle = v
               PROVE  /\ row'[u][v].telemetry_active <=> v \in configured'
                      /\ v \in configured' <=> request[r].kind = "start"
    OBVIOUS
  <2>1. configured' = configured
    BY DEF Store
  <2>2. row'[u][v].telemetry_active = (request[r].kind = "start") /\ (v \in configured <=> request[r].kind = "start")
    BY StoreRow
  <2>3. QED
    BY <2>1, <2>2
<1>2. Init => SoloInv /\ FetchesOK /\ solo \subseteq Requests
  BY InitSolo, VehiclesAssumption DEF Init, FetchesOK
<1>3. solo \subseteq Requests /\ [Next]_vars => (solo \subseteq Requests)'
  BY DEF Next, vars, ListVehicles, SetVehicle, FetchVehicles, FindVehicle, CreateVehicle, CreateTaken,
       CreateInvalid, Configure, Delete, Refused, FetchData, FetchNothing, Store, Fail
<1>4. QED
  BY <1>1, <1>2, <1>3, FetchesNext, SoloNext, PTL DEF Spec, SoloRepairs

\* A start whose fetch failed assigns the data it loaded, and therefore writes none: the
\* data that another request has stored since stays.
THEOREM DataKept == Spec => DataKeptWithoutFetch
<1> DEFINE Kept ==
      \A r \in Requests :
        Store(r) /\ request[r].data = nil =>
          row'[request[r].user][request[r].vehicle].cached_data
            = row[request[r].user][request[r].vehicle].cached_data
<1>1. SoloInv => [Kept]_vars
  <2> SUFFICES ASSUME SoloInv, NEW r \in Requests, Store(r), request[r].data = nil
               PROVE  row'[request[r].user][request[r].vehicle].cached_data
                        = row[request[r].user][request[r].vehicle].cached_data
    OBVIOUS
  <2> DEFINE q == request[r]
             old == row[q.user][q.vehicle]
             new == Saved(old, q.copy, Changed(q))
  <2>1. Changed(q).cached_data = q.copy.cached_data
    BY DEF Changed
  <2>2. new.cached_data = old.cached_data
    BY <2>1 DEF Saved, Written
  <2>3. q.user \in Accounts /\ q.vehicle \in Cars /\ row \in [Accounts -> [Cars -> Rows]]
    BY DEF Store, SoloInv, Typed, HasVehicle
  <2>4. row' = [row EXCEPT ![q.user][q.vehicle] = new]
    BY DEF Store
  <2> HIDE DEF new
  <2>5. row'[q.user][q.vehicle] = new
    BY <2>3, <2>4
  <2>6. QED
    BY <2>2, <2>5
<1>2. Init => SoloInv /\ FetchesOK
  BY InitSolo, VehiclesAssumption DEF Init, FetchesOK
<1>3. QED
  BY <1>1, <1>2, FetchesNext, SoloNext, PTL DEF Spec, DataKeptWithoutFetch
=============================================================================
