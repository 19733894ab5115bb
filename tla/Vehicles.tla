------------------------------ MODULE Vehicles ------------------------------
(* The vehicles of the users, the telemetry configuration that Tesla holds   *)
(* for each of them, and the web requests that store the list of vehicles,   *)
(* start and stop telemetry, and refresh the cached data.  Every request     *)
(* works on the row it loaded, and waits for Tesla between loading and       *)
(* storing.                                                                  *)
EXTENDS Naturals, Sequences, SequencesExt

CONSTANTS
  Accounts,    \* users of the application
  Cars,        \* vehicles at Tesla
  Listed,      \* the vehicles Tesla lists for each user, in order
  BadVin,      \* vehicles whose VIN the model does not accept
  Requests,    \* web requests
  MaxFetches   \* bound: how often vehicle data is fetched

ASSUME VehiclesAssumption ==
  /\ Listed \in [Accounts -> Seq(Cars)]
  /\ BadVin \subseteq Cars
  /\ MaxFetches \in Nat

VARIABLES
  stored,      \* the vehicles in each user's table
  row,         \* their rows: telemetry_active and cached_data
  configured,  \* the vehicles Tesla streams
  fetches,     \* how often vehicle data was fetched; a fetch's number stands for its data
  request,     \* each request
  solo,        \* history: requests that no other start or stop of the vehicle overlapped
  incomplete   \* history: users whose list was cut off by a bad VIN or the end of a worker

vars == <<stored, row, configured, fetches, request, solo, incomplete>>

nil == 0
Rows == [telemetry_active : BOOLEAN, cached_data : 0..MaxFetches]
NewRow == [telemetry_active |-> FALSE, cached_data |-> nil]

Request(step, kind, u, v, copy, data) ==
  [step |-> step, kind |-> kind, user |-> u, vehicle |-> v, copy |-> copy, data |-> data]
Listing(step, u, todo) == [step |-> step, kind |-> "initialise", user |-> u, todo |-> todo]
Idle == [step |-> "idle"]
Active(r) == request[r].step # "idle"
\* The other starts and stops of vehicle v that are under way.
Switching(v) == {r \in Requests : Active(r) /\ request[r].kind \in {"start", "stop"} /\ request[r].vehicle = v}

Init ==
  /\ stored = [u \in Accounts |-> {}]
  /\ row = [u \in Accounts |-> [v \in Cars |-> NewRow]]
  /\ configured = {}
  /\ fetches = 0
  /\ request = [r \in Requests |-> Idle]
  /\ solo = {}
  /\ incomplete = {}

Become(r, q) == request' = [request EXCEPT ![r] = q]
GoOn(r, step, data) ==
  LET q == request[r] IN Become(r, Request(step, q.kind, q.user, q.vehicle, q.copy, data))

\* update! writes the attributes in which the record differs from what was loaded.
\* Fault: the whole row is written.
SavedWhole(current, copy, changed) == changed
Written(current, copy, changed) == IF changed # copy THEN changed ELSE current
Saved(current, copy, changed) ==
  [telemetry_active |-> Written(current.telemetry_active, copy.telemetry_active, changed.telemetry_active),
   cached_data |-> Written(current.cached_data, copy.cached_data, changed.cached_data)]

-----------------------------------------------------------------------------
(* The list of vehicles: initialize_vehicles of the dashboard and of the     *)
(* list of vehicles, run when the user has none.                             *)
ListVehicles(r, u) ==
  /\ ~Active(r)
  /\ stored[u] = {}
  /\ Become(r, Listing("list", u, <<>>))
  /\ UNCHANGED <<stored, row, configured, fetches, solo, incomplete>>

\* Fault: only the first vehicle of the answer is looked at.
FetchVehiclesFirst(r) ==
  /\ request[r].step = "list"
  /\ \/ Become(r, Listing("find", request[r].user, SubSeq(Listed[request[r].user], 1, 1)))
     \/ Become(r, Idle)
  /\ UNCHANGED <<stored, row, configured, fetches, solo, incomplete>>
\* Tesla answers or not.
FetchVehicles(r) ==
  /\ request[r].step = "list"
  /\ \/ Become(r, Listing("find", request[r].user, Listed[request[r].user]))
     \/ Become(r, Idle)
  /\ UNCHANGED <<stored, row, configured, fetches, solo, incomplete>>

\* find_or_create_by! looks for the vehicle and goes on to the next when it is there.
FindVehicle(r) ==
  LET q == request[r] IN
  /\ q.step = "find"
  /\ IF q.todo = <<>> THEN Become(r, Idle)
     ELSE IF Head(q.todo) \in stored[q.user] THEN Become(r, Listing("find", q.user, Tail(q.todo)))
     ELSE Become(r, Listing("create", q.user, q.todo))
  /\ UNCHANGED <<stored, row, configured, fetches, solo, incomplete>>

\* The vehicle is stored.
CreateVehicle(r) ==
  LET q == request[r] IN
  /\ q.step = "create"
  /\ Head(q.todo) \notin stored[q.user] \cup BadVin
  /\ stored' = [stored EXCEPT ![q.user] = @ \cup {Head(q.todo)}]
  /\ Become(r, Listing("find", q.user, Tail(q.todo)))
  /\ UNCHANGED <<row, configured, fetches, solo, incomplete>>

\* Another request has stored it meanwhile: the validation of uniqueness ends the
\* loop, or the unique index makes create_or_find_by! find it.
CreateTaken(r) ==
  LET q == request[r] IN
  /\ q.step = "create"
  /\ Head(q.todo) \in stored[q.user] \ BadVin
  /\ \/ Become(r, Idle)
     \/ Become(r, Listing("find", q.user, Tail(q.todo)))
  /\ UNCHANGED <<stored, row, configured, fetches, solo, incomplete>>

\* A VIN of the wrong form ends the loop.
CreateInvalid(r) ==
  LET q == request[r] IN
  /\ q.step = "create"
  /\ Head(q.todo) \in BadVin
  /\ Become(r, Idle)
  /\ incomplete' = incomplete \cup {q.user}
  /\ UNCHANGED <<stored, row, configured, fetches, solo>>

-----------------------------------------------------------------------------
(* Starting and stopping telemetry, refreshing the cached data. *)

\* set_vehicle
SetVehicle(r, kind, u, v) ==
  /\ ~Active(r)
  /\ v \in stored[u]
  /\ Become(r, Request("ask", kind, u, v, row[u][v], nil))
  /\ solo' = IF kind = "refresh" THEN solo \ {r}
             ELSE (solo \ (Switching(v) \cup {r})) \cup (IF Switching(v) = {} THEN {r} ELSE {})
  /\ UNCHANGED <<stored, row, configured, fetches, incomplete>>

\* Tesla takes the configuration; its answer arrives or not.
Configure(r) ==
  /\ request[r].step = "ask" /\ request[r].kind = "start"
  /\ configured' = configured \cup {request[r].vehicle}
  /\ GoOn(r, "fetch", nil) \/ Become(r, Idle)
  /\ UNCHANGED <<stored, row, fetches, solo, incomplete>>

\* Fault: a vehicle whose telemetry is not active according to its row is not deleted at Tesla.
DeleteIfActive(r) ==
  /\ request[r].step = "ask" /\ request[r].kind = "stop"
  /\ configured' = IF request[r].copy.telemetry_active THEN configured \ {request[r].vehicle} ELSE configured
  /\ GoOn(r, "store", nil) \/ Become(r, Idle)
  /\ UNCHANGED <<stored, row, fetches, solo, incomplete>>
\* Tesla deletes the configuration; its answer arrives or not.
Delete(r) ==
  /\ request[r].step = "ask" /\ request[r].kind = "stop"
  /\ configured' = configured \ {request[r].vehicle}
  /\ GoOn(r, "store", nil) \/ Become(r, Idle)
  /\ UNCHANGED <<stored, row, fetches, solo, incomplete>>

\* Tesla is not asked or refuses: no token, an error, no answer.
Refused(r) ==
  /\ request[r].step \in {"ask", "list"}
  /\ Become(r, Idle)
  /\ UNCHANGED <<stored, row, configured, fetches, solo, incomplete>>

\* fetch_vehicle_data, alone or after a configuration.
FetchData(r) ==
  /\ \/ request[r].step = "fetch"
     \/ request[r].step = "ask" /\ request[r].kind = "refresh"
  /\ fetches < MaxFetches
  /\ fetches' = fetches + 1
  /\ GoOn(r, "store", fetches')
  /\ UNCHANGED <<stored, row, configured, solo, incomplete>>

\* After a configuration, a failed fetch is rescued with nil.
FetchNothing(r) ==
  /\ request[r].step = "fetch"
  /\ GoOn(r, "store", nil)
  /\ UNCHANGED <<stored, row, configured, fetches, solo, incomplete>>

\* The attributes that the requests assign: a start without data assigns what was loaded.
Changed(q) ==
  [telemetry_active |-> CASE q.kind = "start" -> TRUE [] q.kind = "stop" -> FALSE
                          [] OTHER -> q.copy.telemetry_active,
   cached_data |-> IF q.data = nil THEN q.copy.cached_data ELSE q.data]

Store(r) ==
  LET q == request[r] IN
  /\ q.step = "store"
  /\ row' = [row EXCEPT ![q.user][q.vehicle] = Saved(@, q.copy, Changed(q))]
  /\ Become(r, Idle)
  /\ UNCHANGED <<stored, configured, fetches, solo, incomplete>>

\* update! or create! raises, or the worker dies.
Fail(r) ==
  /\ Active(r)
  /\ Become(r, Idle)
  /\ incomplete' = IF request[r].step \in {"find", "create"} THEN incomplete \cup {request[r].user} ELSE incomplete
  /\ UNCHANGED <<stored, row, configured, fetches, solo>>

Next ==
  \E r \in Requests :
    \/ \E u \in Accounts : \/ ListVehicles(r, u)
                        \/ \E v \in Cars, kind \in {"start", "stop", "refresh"} : SetVehicle(r, kind, u, v)
    \/ FetchVehicles(r) \/ FindVehicle(r) \/ CreateVehicle(r) \/ CreateTaken(r) \/ CreateInvalid(r)
    \/ Configure(r) \/ Delete(r) \/ Refused(r) \/ FetchData(r) \/ FetchNothing(r) \/ Store(r) \/ Fail(r)

Spec == Init /\ [][Next]_vars

-----------------------------------------------------------------------------
(* Properties. *)

\* A start or a stop that succeeds while no other of the same vehicle overlaps it
\* repairs whatever earlier ones left behind, which raced, lost Tesla's answer or
\* could not be stored: Tesla streams the vehicle if and only if the user's row says
\* so, which is what makes the ingest service accept its frames.
SoloRepairs ==
  [][\A r \in solo : \A u \in Accounts : \A v \in Cars :
       Store(r) /\ request[r].user = u /\ request[r].vehicle = v =>
         /\ row'[u][v].telemetry_active <=> v \in configured'
         /\ v \in configured' <=> request[r].kind = "start"]_vars

\* Once a user has a vehicle the list is never fetched again: it must be complete
\* when nobody works on it any more, although requests that initialise at once end
\* each other.  Only a bad VIN or the end of a worker can leave it incomplete.
ListComplete ==
  \A u \in Accounts :
    /\ stored[u] # {}
    /\ u \notin incomplete
    /\ \A r \in Requests : ~(request[r].step \in {"find", "create"} /\ request[r].user = u)
    => ToSet(Listed[u]) \subseteq stored[u]

\* A start whose fetch failed does not put the old data it loaded over the data that
\* another request has stored since.
DataKeptWithoutFetch ==
  [][\A r \in Requests :
       Store(r) /\ request[r].data = nil =>
         row'[request[r].user][request[r].vehicle].cached_data
           = row[request[r].user][request[r].vehicle].cached_data]_vars
=============================================================================
