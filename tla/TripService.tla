---------------------------- MODULE TripService ----------------------------
(***************************************************************************)
(* The Rails side of telemetry ingest for one vehicle.  The telemetry      *)
(* server POSTs every record of a vehicle's socket and waits for the       *)
(* answer, so a socket has at most one request in flight; a vehicle that   *)
(* reconnects before its old socket is torn down has two, and so has one   *)
(* whose request the proxy before Rails gave up on: the next record is     *)
(* posted while Rails still works on that request.  A request reads        *)
(* the vehicle row once (TelemetryIngestService#find_vehicle!) and works   *)
(* on that copy; every create!, update! and save! after it is an SQLite    *)
(* transaction of its own, so each is a step here, and other requests run  *)
(* between them.  Active Record writes only the attributes that differ     *)
(* from the copy a request loaded.                                         *)
(***************************************************************************)
EXTENDS Naturals, FiniteSets, FiniteSetsExt

CONSTANTS
  Sockets,       \* where a request of the vehicle may be on its way: one
                 \* for each socket and for each request given up on
  Trips,         \* ids a trip row may get (bounds the number of trips)
  ParkedGears,   \* gear strings TripService#parked? accepts
  DrivingGears,  \* TripService::DRIVING_GEARS
  MaxStamp,      \* bound: frame timestamps are 1..MaxStamp
  TopSpeed,      \* the greatest speed_kmh, a decimal(6, 2), in 0.01 km/h
  Speed,         \* speed of the vehicle at each timestamp
  Resends,       \* may a frame older than one already handled arrive?
  MaxFailures,   \* bound: requests that die half way
  None           \* SQL NULL

ASSUME ConstantsAssumption ==
  /\ IsFiniteSet(Sockets) /\ IsFiniteSet(Trips)
  /\ ParkedGears \cap DrivingGears = {}
  /\ None \notin ParkedGears \cup DrivingGears \cup Trips \cup Nat
  /\ MaxStamp \in Nat /\ MaxFailures \in Nat 
  /\ TopSpeed \in Nat /\ Speed \in [1..MaxStamp -> 0..TopSpeed]
  /\ Resends \in BOOLEAN

VARIABLES
  lastGear,      \* vehicles.last_gear
  activeTrip,    \* vehicles.active_trip_id
  status,        \* trips.trip_status, "absent" for an id not yet used
  startedAt,     \* trips.started_at
  endedAt,       \* trips.ended_at
  intervals,     \* trip -> recorded_at of its rows in intervals
  measured,      \* trip -> its max_speed_kmh and avg_speed_kmh
  req,           \* socket -> the request being handled
  latest,        \* timestamp of the last frame handed in, when in order
  failures,      \* requests that died half way
  snapshots      \* history: trips made by create_empty_trip

tripRows == <<status, startedAt, endedAt, intervals, measured, snapshots>>
vehicleRow == <<lastGear, activeTrip>>
vars == <<vehicleRow, tripRows, req, latest, failures>>

Gears == ParkedGears \cup DrivingGears
Stamps == 1..MaxStamp

(***************************************************************************)
(* The metrics of a trip with these intervals, as its row holds them: NULL *)
(* before the first, the average rounded to hundredths.                    *)
(***************************************************************************)
max_speed_kmh(rows) == IF rows = {} THEN None ELSE Max({Speed[at] : at \in rows})

avg_speed_kmh(rows) ==
  LET sum == MapThenSumSet(LAMBDA at : Speed[at], rows)
      size == Cardinality(rows)
  IN IF rows = {} THEN None ELSE (2 * sum + size) \div (2 * size)

MetricsOf(rows) == [max |-> max_speed_kmh(rows), avg |-> avg_speed_kmh(rows)]

Metrics == [max : {max_speed_kmh(rows) : rows \in SUBSET Stamps},
            avg : {avg_speed_kmh(rows) : rows \in SUBSET Stamps}]

(***************************************************************************)
(* A request: where it is, the frame it carries, and what it has read: the *)
(* vehicle row (seenGear, trip), the trip row it extends or completes      *)
(* (oldEnd, oldMetrics), the metrics it computed (metrics) and the copy of *)
(* the vehicle it clears (owner).                                          *)
(***************************************************************************)
Steps == {"idle", "record_gear", "interval", "insert", "start", "activate",
          "snapshot", "complete", "measure", "save", "clear"}

Request == [step : Steps,
            gear : Gears \cup {None}, at : Stamps \cup {None}, valid : BOOLEAN,
            seenGear : Gears \cup {None}, trip : Trips \cup {None},
            oldEnd : Stamps \cup {None}, oldMetrics : Metrics,
            metrics : Metrics, owner : Trips \cup {None}]

NoRequest == [step |-> "idle", gear |-> None, at |-> None, valid |-> FALSE,
              seenGear |-> None, trip |-> None, oldEnd |-> None,
              oldMetrics |-> MetricsOf({}), metrics |-> MetricsOf({}), owner |-> None]

Parked(s) == req[s].gear \in ParkedGears

\* What a row holds after a copy that was loaded as old is saved with new.
Saved(row, old, new) == IF new = old THEN row ELSE new
SavedMetrics(row, old, new) == [max |-> Saved(row.max, old.max, new.max),
                                avg |-> Saved(row.avg, old.avg, new.avg)]

At(s, step) == req[s].step = step
Goto(s, step) == req' = [req EXCEPT ![s].step = step]
Answer(s) == req' = [req EXCEPT ![s] = NoRequest]

\* Requests that may still create a trip row, and the rows left to create.
Creating == {s \in Sockets : /\ req[s].step \in {"record_gear", "start", "snapshot"}
                             /\ req[s].trip = None}
Unused == {t \in Trips : status[t] = "absent"}
RoomForTrip == Cardinality(Unused) > Cardinality(Creating)

-----------------------------------------------------------------------------
Init ==
  /\ lastGear = None
  /\ activeTrip = None
  /\ status = [t \in Trips |-> "absent"]
  /\ startedAt = [t \in Trips |-> None]
  /\ endedAt = [t \in Trips |-> None]
  /\ intervals = [t \in Trips |-> {}]
  /\ measured = [t \in Trips |-> MetricsOf({})]
  /\ req = [s \in Sockets |-> NoRequest]
  /\ latest = 0
  /\ failures = 0
  /\ snapshots = {}

(***************************************************************************)
(* ingest (its row in telemetry_logs, which nothing reads, is left out)    *)
(* and TelemetryIngestService#process up to TripService#process: telemetry *)
(* is on, the frame has a gear the service recognises (any other frame is  *)
(* answered and changes nothing) and the vehicle row is read, once.  valid *)
(* says whether a driving frame makes a valid interval: it carries a       *)
(* location in range and a speed that is not negative.                     *)
(***************************************************************************)
FindVehicle(s, gear, at, valid) ==
  /\ At(s, "idle")
  /\ activeTrip # None \/ RoomForTrip
  /\ Resends \/ at >= latest
  /\ valid => gear \in DrivingGears
  /\ latest' = IF Resends THEN latest ELSE at
  /\ req' = [req EXCEPT ![s] = [NoRequest EXCEPT
               !.step = "record_gear", !.gear = gear, !.at = at,
               !.valid = valid, !.seenGear = lastGear, !.trip = activeTrip]]
  /\ UNCHANGED <<vehicleRow, tripRows, failures>>

\* Where handle_parked and handle_driving go once the gear is recorded.
parked_transition_always(s) == TRUE   \* fault: no transition check
parked_transition(s) == req[s].seenGear \notin ParkedGears

\* Fault: a driving frame starts a trip without looking for an active one.
AfterGearBlind(s) ==
  IF ~Parked(s) THEN "start"
  ELSE IF req[s].trip # None THEN "complete"
  ELSE IF parked_transition(s) THEN "snapshot" ELSE "idle"

AfterGear(s) ==
  IF Parked(s)
  THEN IF req[s].trip # None THEN "complete"
       ELSE IF parked_transition(s) THEN "snapshot" ELSE "idle"
  ELSE IF req[s].trip # None THEN "interval" ELSE "start"

\* record_gear, and the return of handle_parked when already parked.
RecordGear(s) ==
  /\ At(s, "record_gear")
  /\ lastGear' = Saved(lastGear, req[s].seenGear, req[s].gear)
  /\ IF AfterGear(s) = "idle" THEN Answer(s) ELSE Goto(s, AfterGear(s))
  /\ UNCHANGED <<activeTrip, tripRows, latest, failures>>

(***************************************************************************)
(* add_interval and complete_trip load the trip row (active_trip), each    *)
(* after the gear is recorded; what they save later is compared with this  *)
(* copy.                                                                   *)
(***************************************************************************)
LoadTrip(s) ==
  LET t == req[s].trip
  IN /\ req[s].step \in {"interval", "complete"}
     /\ req' = [req EXCEPT
          ![s].step = IF req[s].step = "interval" THEN "insert" ELSE "measure",
          ![s].oldEnd = endedAt[t], ![s].oldMetrics = measured[t]]
     /\ UNCHANGED <<vehicleRow, tripRows, latest, failures>>

\* Faults: no after_create callback; metrics that leave out the interval being
\* inserted; the whole stale trip row saved again.
AddIntervalUnmeasured(s) ==
  /\ At(s, "insert")
  /\ intervals' = [intervals EXCEPT ![req[s].trip] = @ \cup {req[s].at}]
  /\ Answer(s)
  /\ UNCHANGED <<vehicleRow, status, startedAt, endedAt, measured, snapshots, latest, failures>>

AddIntervalFirstMeasured(s) ==
  LET t == req[s].trip
  IN /\ At(s, "insert")
     /\ intervals' = [intervals EXCEPT ![t] = @ \cup {req[s].at}]
     /\ measured' = [measured EXCEPT ![t] =
                        SavedMetrics(@, req[s].oldMetrics, MetricsOf(intervals[t]))]
     /\ Answer(s)
     /\ UNCHANGED <<vehicleRow, status, startedAt, endedAt, snapshots, latest, failures>>

AddIntervalWholeRow(s) ==
  /\ At(s, "insert")
  /\ status' = [status EXCEPT ![req[s].trip] = "in_progress"]
  /\ Answer(s)
  /\ UNCHANGED <<vehicleRow, startedAt, endedAt, intervals, measured, snapshots, latest, failures>>

\* add_interval: recorded_at is unique within a trip, and after_create computes
\* the trip's metrics and saves the loaded copy with them, in the transaction
\* that inserts the interval.
AddInterval(s) ==
  LET t == req[s].trip
      now == intervals[t] \cup {req[s].at}
  IN /\ At(s, "insert")
     /\ IF req[s].valid /\ req[s].at \notin intervals[t]
        THEN /\ intervals' = [intervals EXCEPT ![t] = now]
             /\ measured' = [measured EXCEPT ![t] =
                                SavedMetrics(@, req[s].oldMetrics, MetricsOf(now))]
        ELSE UNCHANGED <<intervals, measured>>
     /\ Answer(s)
     /\ UNCHANGED <<vehicleRow, status, startedAt, endedAt, snapshots, latest, failures>>

\* start_trip: the row is created in one transaction ...
StartTrip(s, t) ==
  /\ At(s, "start")
  /\ status[t] = "absent"
  /\ status' = [status EXCEPT ![t] = "in_progress"]
  /\ startedAt' = [startedAt EXCEPT ![t] = req[s].at]
  /\ req' = [req EXCEPT ![s].step = "activate", ![s].trip = t]
  /\ UNCHANGED <<vehicleRow, endedAt, intervals, measured, snapshots, latest, failures>>

\* Fault: the vehicle is not saved.
ActivateTripUnsaved(s) ==
  /\ At(s, "activate")
  /\ Answer(s)
  /\ UNCHANGED <<vehicleRow, tripRows, latest, failures>>

\* ... and made the vehicle's active trip in the next.
ActivateTrip(s) ==
  /\ At(s, "activate")
  /\ activeTrip' = req[s].trip
  /\ Answer(s)
  /\ UNCHANGED <<lastGear, tripRows, latest, failures>>

\* Faults: a snapshot is handed to start_trip's second step; it gets a status
\* the model's validation does not know.
create_empty_trip_activated(s, t) ==
  /\ At(s, "snapshot")
  /\ status[t] = "absent"
  /\ status' = [status EXCEPT ![t] = "completed"]
  /\ startedAt' = [startedAt EXCEPT ![t] = req[s].at]
  /\ endedAt' = [endedAt EXCEPT ![t] = req[s].at]
  /\ snapshots' = snapshots \cup {t}
  /\ req' = [req EXCEPT ![s].step = "activate", ![s].trip = t]
  /\ UNCHANGED <<vehicleRow, intervals, measured, latest, failures>>

create_empty_trip_parked(s, t) ==
  /\ At(s, "snapshot")
  /\ status' = [status EXCEPT ![t] = "parked"]
  /\ Answer(s)
  /\ UNCHANGED <<vehicleRow, startedAt, endedAt, intervals, measured, snapshots, latest, failures>>

\* create_empty_trip: one transaction, and the trip is completed at once.
create_empty_trip(s, t) ==
  /\ At(s, "snapshot")
  /\ status[t] = "absent"
  /\ status' = [status EXCEPT ![t] = "completed"]
  /\ startedAt' = [startedAt EXCEPT ![t] = req[s].at]
  /\ endedAt' = [endedAt EXCEPT ![t] = req[s].at]
  /\ snapshots' = snapshots \cup {t}
  /\ Answer(s)
  /\ UNCHANGED <<vehicleRow, intervals, measured, latest, failures>>

(***************************************************************************)
(* Trip#complete!: the metrics are computed from the intervals of that     *)
(* moment, the row is saved (its validation loads the vehicle afresh), and *)
(* that copy of the vehicle is saved without its active trip.              *)
(***************************************************************************)
\* recalculate_metrics! leaves the loaded metrics when there is no interval.
RecalculateMetrics(s) ==
  LET rows == intervals[req[s].trip]
  IN /\ At(s, "measure")
     /\ req' = [req EXCEPT ![s].step = "save",
                  ![s].metrics = IF rows = {} THEN req[s].oldMetrics ELSE MetricsOf(rows)]
     /\ UNCHANGED <<vehicleRow, tripRows, latest, failures>>

SaveTrip(s) ==
  LET r == req[s]
  IN /\ At(s, "save")
     /\ status' = [status EXCEPT ![r.trip] = "completed"]
     /\ endedAt' = [endedAt EXCEPT ![r.trip] = Saved(@, r.oldEnd, r.at)]
     /\ measured' = [measured EXCEPT ![r.trip] = SavedMetrics(@, r.oldMetrics, r.metrics)]
     /\ req' = [req EXCEPT ![s].step = "clear", ![s].owner = activeTrip]
     /\ UNCHANGED <<vehicleRow, startedAt, intervals, snapshots, latest, failures>>

\* Fault: the vehicle keeps its active trip.
ClearActiveTripSkipped(s) ==
  /\ At(s, "clear")
  /\ Answer(s)
  /\ UNCHANGED <<vehicleRow, tripRows, latest, failures>>

ClearActiveTrip(s) ==
  /\ At(s, "clear")
  /\ activeTrip' = Saved(activeTrip, req[s].owner, None)
  /\ Answer(s)
  /\ UNCHANGED <<lastGear, tripRows, latest, failures>>

(***************************************************************************)
(* A request dies between two transactions: one of them raises (database   *)
(* locked, say), which process rescues and answers, or the worker is       *)
(* killed.  What was committed stays.                                      *)
(***************************************************************************)
Fail(s) ==
  /\ ~At(s, "idle")
  /\ failures < MaxFailures
  /\ failures' = failures + 1
  /\ Answer(s)
  /\ UNCHANGED <<vehicleRow, tripRows, latest>>

-----------------------------------------------------------------------------
\* The steps of a request the worker thread will take once it has begun.
Handle(s) ==
  \/ RecordGear(s)
  \/ LoadTrip(s)
  \/ AddInterval(s)
  \/ \E t \in Trips : StartTrip(s, t)
  \/ ActivateTrip(s)
  \/ \E t \in Trips : create_empty_trip(s, t)
  \/ RecalculateMetrics(s)
  \/ SaveTrip(s)
  \/ ClearActiveTrip(s)

Next ==
  \E s \in Sockets :
    \/ \E gear \in Gears, at \in Stamps, valid \in BOOLEAN :
         FindVehicle(s, gear, at, valid)
    \/ Handle(s)
    \/ Fail(s)

Spec == Init /\ [][Next]_vars

\* A worker thread that has taken a request keeps running.
FairSpec == Spec /\ \A s \in Sockets : WF_vars(Handle(s))
-----------------------------------------------------------------------------
(* Invariants of any number of sockets, resent frames and dead requests. *)

\* Types of the rows and of the requests.
TypeOK ==
  /\ lastGear \in Gears \cup {None}
  /\ activeTrip \in Trips \cup {None}
  /\ status \in [Trips -> {"absent", "in_progress", "completed"}]
  /\ startedAt \in [Trips -> Stamps \cup {None}]
  /\ endedAt \in [Trips -> Stamps \cup {None}]
  /\ intervals \in [Trips -> SUBSET Stamps]
  /\ measured \in [Trips -> Metrics]
  /\ req \in [Sockets -> Request]
  /\ latest \in 0..MaxStamp
  /\ failures \in 0..MaxFailures
  /\ snapshots \in SUBSET Trips

\* The active trip of a vehicle is one that start_trip created (the foreign
\* key holds), never a parked snapshot, however requests overlap or die.
ActiveTripWasStarted ==
  activeTrip # None => status[activeTrip] # "absent" /\ activeTrip \notin snapshots

\* A parked snapshot stays what create_empty_trip made it: a completed trip of
\* one instant without intervals, which no other request completes or extends.
SnapshotsStayEmpty ==
  \A t \in snapshots : /\ status[t] = "completed"
                       /\ startedAt[t] = endedAt[t]
                       /\ intervals[t] = {}

\* As long as a trip is open its stored maximum speed is that of all of its
\* intervals, whichever requests added them and however old the copies of the
\* trip that they saved: a maximum that equals an old copy's is not written, but
\* maxima only grow, so the row holds it already.  Of the average this is not
\* true, it may come back to an old copy's after another request has changed it;
\* and complete! can store a maximum that misses an interval.
OpenTripMetricsCurrent ==
  \A t \in Trips :
    status[t] = "in_progress" => measured[t].max = max_speed_kmh(intervals[t])

\* No request reopens a completed trip, moves its start or drops an interval.
TripGrows(t) ==
  /\ status[t] = "completed" => status'[t] = "completed"
  /\ startedAt[t] # None => startedAt'[t] = startedAt[t]
  /\ intervals[t] \subseteq intervals'[t]

TripsOnlyGrow == [][\A t \in Trips : TripGrows(t)]_vars

-----------------------------------------------------------------------------
(* What holds when the frames come over one socket. *)
OneSocket == \A r, s \in Sockets : r = s

\* Open trips that no frame can reach any more.
Orphans == {t \in Trips : /\ status[t] = "in_progress"
                          /\ t # activeTrip
                          /\ \A s \in Sockets : At(s, "activate") => req[s].trip # t}

\* Each trip that stays in progress for ever was left by a request that died
\* between the creation of the trip and the update of the vehicle.
OrphansComeFromFailures == Cardinality(Orphans) <= failures

\* "Only the first parked frame should create a parked-snapshot trip": more
\* than one takes a request that recorded the gear and then died.
OneParkedSnapshot == Cardinality(snapshots) <= 1 + failures

\* The metrics of every trip, completed or not, count all of its intervals.
MetricsCurrent == \A t \in Trips : measured[t] = MetricsOf(intervals[t])

\* With frames in order and no request dead, the intervals of a trip lie
\* between its start and its end.
IntervalsWithinTrip ==
  failures = 0 =>
    \A t \in Trips, at \in Stamps :
      at \in intervals[t] => /\ startedAt[t] <= at
                             /\ status[t] = "completed" => at <= endedAt[t]

\* With frames in order and no request dead, a trip that is over ended before
\* any other began, or began after the other was over: trips never overlap.
Before(t, u) == status[t] = "completed" /\ endedAt[t] <= startedAt[u]
TripsDoNotOverlap ==
  failures = 0 =>
    \A t, u \in Trips :
      t # u /\ status[t] # "absent" /\ status[u] # "absent" => Before(t, u) \/ Before(u, t)

\* A parked frame that finds an active trip ends it: the vehicle is left with
\* no active trip unless the request dies.
ParkEndsTrip ==
  \A s \in Sockets : At(s, "complete") ~> (activeTrip = None \/ failures > 0)

(***************************************************************************)
(* The transactions of one socket's requests implement the indivisible     *)
(* frames of DriveCycle.  Seen from there a request takes effect when it   *)
(* creates or saves the trip row or the interval (or, for a parked frame   *)
(* of a parked vehicle, when it records the gear): before, last_gear is    *)
(* the one the request read; after, the active trip is already the one the *)
(* request is about to store.                                              *)
(***************************************************************************)
Undecided == {"interval", "insert", "start", "snapshot", "complete", "measure", "save"}

CycleGear ==
  IF \E s \in Sockets : req[s].step \in Undecided
  THEN LET s == CHOOSE r \in Sockets : req[r].step \in Undecided IN req[s].seenGear
  ELSE lastGear

CycleTrip ==
  IF \E s \in Sockets : At(s, "activate")
  THEN LET s == CHOOSE r \in Sockets : At(r, "activate") IN req[s].trip
  ELSE IF \E s \in Sockets : At(s, "clear") THEN None ELSE activeTrip

Cycle == INSTANCE DriveCycle WITH lastGear <- CycleGear, activeTrip <- CycleTrip

\* Every step of one socket's requests is a step of the drive cycle or changes
\* nothing that can be seen of it; only the death of a request may do more.
ImplementsDriveCycle ==
  Cycle!Init /\ [][failures' = failures => [Cycle!Next]_(Cycle!vars)]_vars
=============================================================================
