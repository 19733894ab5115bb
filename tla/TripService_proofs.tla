------------------------- MODULE TripService_proofs -------------------------
(***************************************************************************)
(* Proofs about TripService, for every number of sockets, trips, gears and *)
(* timestamps.                                                             *)
(***************************************************************************)
EXTENDS TripService, FiniteSetTheorems, WellFoundedInduction, TLAPS

-----------------------------------------------------------------------------
(***************************************************************************)
(* The inductive invariant: beside invariants that the runs check it       *)
(* says that a request that is about to touch a trip row has one, that     *)
(* this row was created by start_trip, and that an unused row is blank.    *)
(***************************************************************************)
OnTrip == {"interval", "insert", "activate", "complete", "measure", "save", "clear"}

RequestsHoldStartedTrips ==
  \A s \in Sockets :
    /\ req[s].step \in OnTrip => req[s].trip # None
    /\ req[s].step # "idle" => req[s].gear # None /\ req[s].at # None
    /\ req[s].trip # None => /\ status[req[s].trip] # "absent"
                             /\ req[s].trip \notin snapshots

UnusedRowsBlank ==
  \A t \in Trips : status[t] = "absent" =>
    /\ t \notin snapshots
    /\ startedAt[t] = None
    /\ intervals[t] = {}
    /\ measured[t] = MetricsOf({})

IInv ==
  /\ TypeOK
  /\ RequestsHoldStartedTrips
  /\ UnusedRowsBlank
  /\ ActiveTripWasStarted
  /\ SnapshotsStayEmpty

\* None is neither a trip, nor a gear, nor a timestamp.
LEMMA NoneIsFresh ==
  /\ None \notin Trips /\ None \notin Gears /\ None \notin Stamps
  /\ ParkedGears \cap DrivingGears = {} /\ MaxStamp \in Nat /\ MaxFailures \in Nat
  /\ Stamps \subseteq Nat
BY ConstantsAssumption DEF Gears, Stamps

\* The metrics of any intervals are metrics, and so is what a save leaves.
LEMMA MetricsType ==
  /\ \A rows \in SUBSET Stamps : MetricsOf(rows) \in Metrics
  /\ \A m \in Metrics, old \in Metrics, new \in Metrics : SavedMetrics(m, old, new) \in Metrics
BY DEF MetricsOf, Metrics, SavedMetrics, Saved

\* A request that was answered leaves a well-typed, idle slot.
LEMMA NoRequestType == NoRequest \in Request
<1>1. MetricsOf({}) \in Metrics
  BY MetricsType
<1>2. QED
  BY <1>1 DEF NoRequest, Request, Steps

LEMMA InitInv == Init => IInv
<1>1. MetricsOf({}) \in Metrics
  BY MetricsType
<1>2. QED
  BY <1>1, NoneIsFresh, NoRequestType, SMTT(60)
     DEF Init, IInv, TypeOK, RequestsHoldStartedTrips, UnusedRowsBlank,
         ActiveTripWasStarted, SnapshotsStayEmpty, NoRequest, OnTrip

\* Reading the vehicle only fills in the request.
LEMMA FindVehicleInv ==
  ASSUME IInv, NEW s \in Sockets, NEW gear \in Gears, NEW at \in Stamps,
         NEW valid \in BOOLEAN, FindVehicle(s, gear, at, valid)
  PROVE  IInv'
<1> DEFINE r == [NoRequest EXCEPT !.step = "record_gear", !.gear = gear, !.at = at,
                   !.valid = valid, !.seenGear = lastGear, !.trip = activeTrip]
<1>0. r \in Request
  BY NoRequestType DEF IInv, TypeOK, Request, NoRequest, Steps
<1>1. TypeOK'
  <2>1. req' = [req EXCEPT ![s] = r]
    BY DEF FindVehicle
  <2>2. req' \in [Sockets -> Request]
    BY <1>0, <2>1 DEF IInv, TypeOK
  <2>3. latest' \in 0..MaxStamp
    BY NoneIsFresh DEF FindVehicle, IInv, TypeOK, Stamps
  <2>4. QED
    BY <2>2, <2>3 DEF FindVehicle, IInv, TypeOK, vehicleRow, tripRows
<1>2. RequestsHoldStartedTrips'
  BY NoneIsFresh, SMTT(60)
     DEF FindVehicle, IInv, TypeOK, RequestsHoldStartedTrips, ActiveTripWasStarted,
         NoRequest, OnTrip, vehicleRow, tripRows
<1>3. QED
  BY <1>1, <1>2 DEF FindVehicle, IInv, TypeOK, UnusedRowsBlank, ActiveTripWasStarted,
       SnapshotsStayEmpty, vehicleRow, tripRows

(***************************************************************************)
(* A step that only moves request s on, to a record q that keeps its trip. *)
(***************************************************************************)
LEMMA RequestMoves ==
  ASSUME IInv, NEW s \in Sockets, NEW q \in Request,
         req' = [req EXCEPT ![s] = q], UNCHANGED <<tripRows, latest, failures>>,
         lastGear' \in Gears \cup {None},
         activeTrip' \in {activeTrip, req[s].trip, None},
         q.trip \in {None, req[s].trip},
         q.step \in OnTrip => q.trip # None,
         q.step # "idle" => q.gear # None /\ q.at # None
  PROVE  IInv'
<1>1. TypeOK'
  BY DEF IInv, TypeOK, tripRows, Request
<1>2. RequestsHoldStartedTrips'
  BY DEF IInv, TypeOK, RequestsHoldStartedTrips, tripRows
<1>3. ActiveTripWasStarted'
  BY DEF IInv, TypeOK, RequestsHoldStartedTrips, ActiveTripWasStarted, tripRows
<1>4. (UnusedRowsBlank /\ SnapshotsStayEmpty)'
  BY DEF IInv, UnusedRowsBlank, SnapshotsStayEmpty, tripRows
<1>5. QED
  BY <1>1, <1>2, <1>3, <1>4 DEF IInv

\* Answering a request: the slot is idle again, without a trip.
LEMMA AnswerMoves ==
  /\ NoRequest \in Request /\ NoRequest.step = "idle" /\ NoRequest.trip = None
  /\ "idle" \notin OnTrip
BY NoRequestType DEF NoRequest, OnTrip

LEMMA RecordGearInv ==
  ASSUME IInv, NEW s \in Sockets, RecordGear(s)
  PROVE  IInv'
<1>1. lastGear' \in Gears \cup {None}
  BY DEF RecordGear, Saved, IInv, TypeOK, Request
<1>2. req[s] \in Request /\ req[s].gear # None /\ req[s].at # None
  BY DEF RecordGear, At, IInv, TypeOK, RequestsHoldStartedTrips
<1>3. CASE AfterGear(s) = "idle"
  BY <1>1, <1>3, AnswerMoves, RequestMoves DEF RecordGear, Answer, tripRows
<1>4. CASE AfterGear(s) # "idle"
  <2> DEFINE q == [req[s] EXCEPT !.step = AfterGear(s)]
  <2>1. AfterGear(s) \in Steps /\ (AfterGear(s) \in OnTrip => req[s].trip # None)
    BY DEF AfterGear, Steps, OnTrip
  <2>2. q \in Request /\ q.step = AfterGear(s)
        /\ q.trip = req[s].trip /\ q.gear = req[s].gear /\ q.at = req[s].at
    BY <1>2, <2>1 DEF Request
  <2>3. req' = [req EXCEPT ![s] = q]
    BY <1>4 DEF RecordGear, Goto
  <2>4. UNCHANGED <<tripRows, latest, failures>> /\ activeTrip' = activeTrip
    BY DEF RecordGear
  <2> HIDE DEF q
  <2>5. QED
    BY <1>1, <1>2, <2>1, <2>2, <2>3, <2>4, RequestMoves
<1>5. QED
  BY <1>3, <1>4

LEMMA AddIntervalInv ==
  ASSUME IInv, NEW s \in Sockets, AddInterval(s)
  PROVE  IInv'
<1> DEFINE t == req[s].trip
           now == intervals[t] \cup {req[s].at}
           m == SavedMetrics(measured[t], req[s].oldMetrics, MetricsOf(now))
<1>1. t \in Trips /\ status[t] # "absent" /\ t \notin snapshots /\ req[s].at \in Stamps
      /\ req[s].oldMetrics \in Metrics
  BY DEF AddInterval, At, OnTrip, IInv, TypeOK, Request, RequestsHoldStartedTrips
<1>2. now \in SUBSET Stamps /\ m \in Metrics
  <2>1. now \in SUBSET Stamps /\ measured[t] \in Metrics
    BY <1>1 DEF IInv, TypeOK
  <2>2. MetricsOf(now) \in Metrics
    BY <2>1, MetricsType
  <2>3. QED
    BY <1>1, <2>1, <2>2, MetricsType
<1>3. \/ UNCHANGED <<intervals, measured>>
      \/ /\ intervals' = [intervals EXCEPT ![t] = now]
         /\ measured' = [measured EXCEPT ![t] = m]
  BY DEF AddInterval
<1>4. /\ req' = [req EXCEPT ![s] = NoRequest]
      /\ UNCHANGED <<vehicleRow, status, startedAt, endedAt, snapshots, latest, failures>>
  BY DEF AddInterval, Answer
<1> HIDE DEF t, now, m
<1>5. TypeOK'
  BY <1>1, <1>2, <1>3, <1>4, NoRequestType DEF IInv, TypeOK, vehicleRow
<1>6. RequestsHoldStartedTrips'
  BY <1>4, AnswerMoves DEF IInv, TypeOK, RequestsHoldStartedTrips
<1>7. \A u \in Trips \ {t} : intervals'[u] = intervals[u] /\ measured'[u] = measured[u]
  BY <1>1, <1>3 DEF IInv, TypeOK
<1>8. (UnusedRowsBlank /\ SnapshotsStayEmpty)'
  BY <1>1, <1>4, <1>7 DEF IInv, TypeOK, UnusedRowsBlank, SnapshotsStayEmpty
<1>9. ActiveTripWasStarted'
  BY <1>4 DEF IInv, ActiveTripWasStarted, vehicleRow
<1>10. QED
  BY <1>5, <1>6, <1>8, <1>9 DEF IInv

LEMMA StartTripInv ==
  ASSUME IInv, NEW s \in Sockets, NEW t \in Trips, StartTrip(s, t)
  PROVE  IInv'
<1> DEFINE q == [req[s] EXCEPT !.step = "activate", !.trip = t]
<1>1. req[s] \in Request /\ req[s].at \in Stamps /\ req[s].gear # None
  BY DEF StartTrip, At, IInv, TypeOK, Request, RequestsHoldStartedTrips
<1>2. q \in Request /\ q.step = "activate" /\ q.trip = t
      /\ q.gear = req[s].gear /\ q.at = req[s].at
  BY <1>1 DEF Request, Steps
<1>3. req' = [req EXCEPT ![s] = q]
  BY DEF StartTrip
<1>4. t \notin snapshots
  BY DEF StartTrip, IInv, UnusedRowsBlank
<1> HIDE DEF q
<1>5. TypeOK'
  BY <1>1, <1>2, <1>3 DEF StartTrip, IInv, TypeOK, vehicleRow
<1>6. RequestsHoldStartedTrips'
  BY <1>1, <1>2, <1>3, <1>4, NoneIsFresh
     DEF StartTrip, IInv, TypeOK, RequestsHoldStartedTrips, OnTrip
<1>7. (UnusedRowsBlank /\ ActiveTripWasStarted /\ SnapshotsStayEmpty)'
  BY <1>4 DEF StartTrip, IInv, TypeOK, UnusedRowsBlank, ActiveTripWasStarted,
       SnapshotsStayEmpty, vehicleRow
<1>8. QED
  BY <1>5, <1>6, <1>7 DEF IInv

LEMMA CreateEmptyTripInv ==
  ASSUME IInv, NEW s \in Sockets, NEW t \in Trips, create_empty_trip(s, t)
  PROVE  IInv'
<1>1. req[s].at \in Stamps
  BY DEF create_empty_trip, At, IInv, TypeOK, Request, RequestsHoldStartedTrips
<1>2. t \notin snapshots /\ intervals[t] = {}
  BY DEF create_empty_trip, IInv, UnusedRowsBlank
<1>3. TypeOK'
  BY <1>1, NoRequestType DEF create_empty_trip, Answer, IInv, TypeOK, vehicleRow
<1>4. RequestsHoldStartedTrips'
  BY AnswerMoves
     DEF create_empty_trip, Answer, IInv, TypeOK, RequestsHoldStartedTrips
<1>5. UnusedRowsBlank'
  BY <1>2 DEF create_empty_trip, IInv, TypeOK, UnusedRowsBlank
<1>6. (ActiveTripWasStarted /\ SnapshotsStayEmpty)'
  BY <1>2 DEF create_empty_trip, IInv, TypeOK, ActiveTripWasStarted, SnapshotsStayEmpty,
       vehicleRow
<1>7. QED
  BY <1>3, <1>4, <1>5, <1>6 DEF IInv

\* The steps of complete! that only read.
LEMMA ReadTripInv ==
  ASSUME IInv, NEW s \in Sockets, LoadTrip(s) \/ RecalculateMetrics(s)
  PROVE  IInv'
<1>1. req[s] \in Request /\ req[s].trip \in Trips
      /\ req[s].gear # None /\ req[s].at # None
  BY DEF LoadTrip, RecalculateMetrics, At, OnTrip, IInv, TypeOK, Request,
       RequestsHoldStartedTrips
<1>2. endedAt[req[s].trip] \in Stamps \cup {None} /\ measured[req[s].trip] \in Metrics
      /\ MetricsOf(intervals[req[s].trip]) \in Metrics
  BY <1>1, MetricsType DEF IInv, TypeOK
<1>3. UNCHANGED <<vehicleRow, tripRows, latest, failures>>
  BY DEF LoadTrip, RecalculateMetrics
<1>4. CASE LoadTrip(s)
  <2> DEFINE q == [req[s] EXCEPT
                     !.step = IF req[s].step = "interval" THEN "insert" ELSE "measure",
                     !.oldEnd = endedAt[req[s].trip], !.oldMetrics = measured[req[s].trip]]
  <2>1. req' = [req EXCEPT ![s] = q]
    BY <1>4 DEF LoadTrip
  <2>2. q \in Request /\ q.trip = req[s].trip /\ q.gear = req[s].gear /\ q.at = req[s].at
    BY <1>1, <1>2 DEF Request, Steps
  <2> HIDE DEF q
  <2>3. QED
    BY <1>1, <1>3, <2>1, <2>2, NoneIsFresh, RequestMoves DEF vehicleRow, IInv, TypeOK
<1>5. CASE RecalculateMetrics(s)
  <2> DEFINE rows == intervals[req[s].trip]
             q == [req[s] EXCEPT !.step = "save",
                     !.metrics = IF rows = {} THEN req[s].oldMetrics ELSE MetricsOf(rows)]
  <2>1. req' = [req EXCEPT ![s] = q]
    BY <1>5 DEF RecalculateMetrics
  <2>2. q \in Request /\ q.trip = req[s].trip /\ q.gear = req[s].gear /\ q.at = req[s].at
    BY <1>1, <1>2 DEF Request, Steps
  <2> HIDE DEF q
  <2>3. QED
    BY <1>1, <1>3, <2>1, <2>2, NoneIsFresh, RequestMoves DEF vehicleRow, IInv, TypeOK
<1>6. QED
  BY <1>4, <1>5

LEMMA SaveTripInv ==
  ASSUME IInv, NEW s \in Sockets, SaveTrip(s)
  PROVE  IInv'
<1> DEFINE t == req[s].trip
           q == [req[s] EXCEPT !.step = "clear", !.owner = activeTrip]
<1>1. req[s] \in Request /\ t \in Trips /\ status[t] # "absent" /\ t \notin snapshots
      /\ req[s].gear # None /\ req[s].at \in Stamps
  BY DEF SaveTrip, At, OnTrip, IInv, TypeOK, Request, RequestsHoldStartedTrips
<1>2. q \in Request /\ q.trip = t /\ q.gear = req[s].gear /\ q.at = req[s].at
  BY <1>1 DEF Request, Steps, IInv, TypeOK
<1>3. req' = [req EXCEPT ![s] = q]
  BY DEF SaveTrip
<1>4. status' = [status EXCEPT ![t] = "completed"]
      /\ UNCHANGED <<vehicleRow, startedAt, intervals, snapshots, latest, failures>>
  BY DEF SaveTrip
<1>5. \A u \in Trips \ {t} : measured'[u] = measured[u] /\ endedAt'[u] = endedAt[u]
  BY DEF SaveTrip, IInv, TypeOK
<1>6. endedAt' \in [Trips -> Stamps \cup {None}] /\ measured' \in [Trips -> Metrics]
  <2>1. SavedMetrics(measured[t], req[s].oldMetrics, req[s].metrics) \in Metrics
    BY <1>1, MetricsType DEF IInv, TypeOK, Request
  <2>2. measured' = [measured EXCEPT ![t] =
                       SavedMetrics(measured[t], req[s].oldMetrics, req[s].metrics)]
    BY DEF SaveTrip
  <2>3. endedAt' \in [Trips -> Stamps \cup {None}]
    BY <1>1 DEF SaveTrip, Saved, IInv, TypeOK, Request
  <2>4. QED
    BY <2>1, <2>2, <2>3 DEF IInv, TypeOK
<1> HIDE DEF t, q
<1>7. TypeOK'
  BY <1>1, <1>2, <1>3, <1>4, <1>6 DEF IInv, TypeOK, vehicleRow
<1>8. RequestsHoldStartedTrips'
  BY <1>1, <1>2, <1>3, <1>4, NoneIsFresh DEF IInv, TypeOK, RequestsHoldStartedTrips, t
<1>9. (UnusedRowsBlank /\ SnapshotsStayEmpty)'
  BY <1>1, <1>4, <1>5
     DEF IInv, TypeOK, UnusedRowsBlank, SnapshotsStayEmpty
<1>10. ActiveTripWasStarted'
  BY <1>1, <1>4 DEF IInv, TypeOK, ActiveTripWasStarted, vehicleRow
<1>11. QED
  BY <1>7, <1>8, <1>9, <1>10 DEF IInv

\* The steps after which a request is answered and no trip row changed.
LEMMA AnswerInv ==
  ASSUME IInv, NEW s \in Sockets, ActivateTrip(s) \/ ClearActiveTrip(s)
  PROVE  IInv'
<1>1. req' = [req EXCEPT ![s] = NoRequest] /\ UNCHANGED <<tripRows, latest, failures>>
      /\ lastGear' = lastGear
  BY DEF ActivateTrip, ClearActiveTrip, Answer
<1>2. activeTrip' \in {activeTrip, req[s].trip, None}
  BY DEF ActivateTrip, ClearActiveTrip, Saved
<1>3. QED
  BY <1>1, <1>2, AnswerMoves, RequestMoves DEF IInv, TypeOK

LEMMA FailInv ==
  ASSUME IInv, NEW s \in Sockets, Fail(s)
  PROVE  IInv'
<1>1. failures' \in 0..MaxFailures
  BY NoneIsFresh DEF Fail, IInv, TypeOK
<1>2. TypeOK'
  BY <1>1, NoRequestType DEF Fail, Answer, IInv, TypeOK, vehicleRow, tripRows
<1>3. RequestsHoldStartedTrips'
  BY AnswerMoves DEF Fail, Answer, IInv, TypeOK, RequestsHoldStartedTrips, tripRows
<1>4. (UnusedRowsBlank /\ ActiveTripWasStarted /\ SnapshotsStayEmpty)'
  BY DEF Fail, IInv, UnusedRowsBlank, ActiveTripWasStarted, SnapshotsStayEmpty, vehicleRow, tripRows
<1>5. QED
  BY <1>2, <1>3, <1>4 DEF IInv

LEMMA StepInv == IInv /\ [Next]_vars => IInv'
<1> SUFFICES ASSUME IInv, [Next]_vars PROVE IInv'
  OBVIOUS
<1>1. CASE UNCHANGED vars
  BY <1>1 DEF vars, vehicleRow, tripRows, IInv, TypeOK, RequestsHoldStartedTrips,
       UnusedRowsBlank, ActiveTripWasStarted, SnapshotsStayEmpty
<1>2. ASSUME NEW s \in Sockets, NEW gear \in Gears, NEW at \in Stamps,
             NEW valid \in BOOLEAN, FindVehicle(s, gear, at, valid)
      PROVE  IInv'
  BY <1>2, FindVehicleInv
<1>3. ASSUME NEW s \in Sockets, Handle(s) PROVE IInv'
  BY <1>3, RecordGearInv, AddIntervalInv, StartTripInv, CreateEmptyTripInv,
     ReadTripInv, SaveTripInv, AnswerInv DEF Handle
<1>4. ASSUME NEW s \in Sockets, Fail(s) PROVE IInv'
  BY <1>4, FailInv
<1>5. QED
  BY <1>1, <1>2, <1>3, <1>4 DEF Next

\* Every reachable state satisfies the inductive invariant.
THEOREM Invariance == Spec => []IInv
BY InitInv, StepInv, PTL DEF Spec

\* Rows and requests keep their types.
THEOREM TypeCorrect == Spec => []TypeOK
<1>1. IInv => TypeOK
  BY DEF IInv
<1>2. QED
  BY <1>1, Invariance, PTL

\* The active trip is always one that start_trip created.
THEOREM ActiveTripSafe == Spec => []ActiveTripWasStarted
<1>1. IInv => ActiveTripWasStarted
  BY DEF IInv
<1>2. QED
  BY <1>1, Invariance, PTL

\* However requests overlap and die, a parked snapshot stays an empty,
\* completed trip of one instant.
THEOREM SnapshotsSafe == Spec => []SnapshotsStayEmpty
<1>1. IInv => SnapshotsStayEmpty
  BY DEF IInv
<1>2. QED
  BY <1>1, Invariance, PTL

-----------------------------------------------------------------------------
\* A step of Next only adds to the trip rows.
LEMMA StepGrows == IInv /\ [Next]_vars => \A t \in Trips : TripGrows(t)
<1> SUFFICES ASSUME IInv, [Next]_vars, NEW t \in Trips PROVE TripGrows(t)
  OBVIOUS
<1>1. CASE UNCHANGED tripRows
  BY <1>1 DEF TripGrows, tripRows
<1>2. ASSUME NEW s \in Sockets, AddInterval(s) PROVE TripGrows(t)
  <2>1. UNCHANGED <<status, startedAt>>
    BY <1>2 DEF AddInterval
  <2>2. intervals' = [intervals EXCEPT ![req[s].trip] = intervals[req[s].trip] \cup {req[s].at}]
        \/ intervals' = intervals
    BY <1>2 DEF AddInterval
  <2>3. QED
    BY <2>1, <2>2 DEF TripGrows, IInv, TypeOK
<1>3. ASSUME NEW s \in Sockets, NEW u \in Trips, StartTrip(s, u) \/ create_empty_trip(s, u)
      PROVE  TripGrows(t)
  <2>1. status[u] = "absent" /\ startedAt[u] = None /\ UNCHANGED intervals
    BY <1>3 DEF StartTrip, create_empty_trip, IInv, UnusedRowsBlank
  <2>2. \A v \in Trips \ {u} : status'[v] = status[v] /\ startedAt'[v] = startedAt[v]
    BY <1>3 DEF StartTrip, create_empty_trip, IInv, TypeOK
  <2>3. QED
    BY <2>1, <2>2 DEF TripGrows
<1>4. ASSUME NEW s \in Sockets, SaveTrip(s) PROVE TripGrows(t)
  BY <1>4 DEF SaveTrip, TripGrows, IInv, TypeOK
<1>5. CASE UNCHANGED vars
  BY <1>5, <1>1 DEF vars
<1>6. QED
  BY <1>1, <1>2, <1>3, <1>4, <1>5
     DEF Next, Handle, FindVehicle, RecordGear, ActivateTrip, LoadTrip,
         RecalculateMetrics, ClearActiveTrip, Fail

\* No interleaving of requests reopens a trip, moves its start or loses an interval.
THEOREM TripsNeverShrink == Spec => TripsOnlyGrow
<1>1. IInv /\ [Next]_vars => [\A t \in Trips : TripGrows(t)]_vars
  BY StepGrows
<1>2. QED
  BY <1>1, Invariance, PTL DEF TripsOnlyGrow, Spec

-----------------------------------------------------------------------------
(***************************************************************************)
(* Metrics.  The maximum of a set of speeds exists and grows with the set. *)
(***************************************************************************)
\* A set of naturals with an upper bound has a greatest element.
LEMMA GreatestSpeed ==
  ASSUME NEW S \in SUBSET Nat, S # {}, NEW top \in Nat, \A x \in S : x <= top
  PROVE  Max(S) \in S /\ \A y \in S : Max(S) >= y
<1> DEFINE Below == {n \in Nat : top - n \in S}
           Less == OpToRel(<, Nat)
<1>1. Below \subseteq Nat /\ Below # {}
  <2>1. PICK x \in S : TRUE
    OBVIOUS
  <2>2. top - x \in Nat /\ top - (top - x) = x
    BY <2>1
  <2>3. QED
    BY <2>1, <2>2
<1>2. PICK n \in Below : \A m \in Below : ~(<<m, n>> \in Less)
  <2> HIDE DEF Below
  <2>1. QED
    BY <1>1, NatLessThanWellFounded, WFMin
<1>3. \A m \in Below : n <= m
  <2>1. ASSUME NEW m \in Below, m < n PROVE FALSE
    <3>1. m \in Nat /\ n \in Nat /\ <<m, n>> \notin Less
      BY <1>2
    <3>2. <<m, n>> \in Less
      BY <2>1, <3>1 DEF OpToRel
    <3>3. QED
      BY <3>1, <3>2
  <2>2. QED
    BY <2>1
<1>4. top - n \in S /\ \A y \in S : top - n >= y
  <2>1. ASSUME NEW y \in S PROVE top - n >= y
    <3>1. top - y \in Nat /\ top - (top - y) = y
      OBVIOUS
    <3>2. n <= top - y
      BY <1>3, <3>1
    <3>3. QED
      BY <3>1, <3>2
  <2>2. QED
    BY <2>1
<1>5. QED
  BY <1>4 DEF Max

\* The fastest of more intervals is at least as fast.
LEMMA FasterOfMore ==
  ASSUME NEW S \in SUBSET Stamps, NEW T \in SUBSET S, T # {}
  PROVE  /\ max_speed_kmh(S) \in Nat /\ max_speed_kmh(T) \in Nat
         /\ max_speed_kmh(T) <= max_speed_kmh(S)
<1>1. TopSpeed \in Nat /\ \A at \in Stamps : Speed[at] \in Nat /\ Speed[at] <= TopSpeed
  BY ConstantsAssumption DEF Stamps
<1> DEFINE of(rows) == {Speed[at] : at \in rows}
<1>2. ASSUME NEW rows \in SUBSET Stamps, rows # {}
      PROVE  of(rows) \in SUBSET Nat /\ of(rows) # {} /\ \A x \in of(rows) : x <= TopSpeed
  BY <1>1, <1>2
<1>3. of(T) \subseteq of(S) /\ S # {} /\ T \in SUBSET Stamps
  OBVIOUS
<1>4. max_speed_kmh(S) = Max(of(S)) /\ max_speed_kmh(T) = Max(of(T))
  BY <1>3 DEF max_speed_kmh
<1> HIDE DEF of
<1>5. Max(of(S)) \in of(S) /\ \A y \in of(S) : Max(of(S)) >= y
  BY <1>1, <1>2, <1>3, GreatestSpeed
<1>6. Max(of(T)) \in of(T)
  BY <1>1, <1>2, <1>3, GreatestSpeed
<1>7. of(S) \in SUBSET Nat
  BY <1>2, <1>3
<1>8. QED
  BY <1>3, <1>4, <1>5, <1>6, <1>7

(***************************************************************************)
(* However old the copy of an open trip that a request is about to save,   *)
(* its maximum is that of intervals the trip still has.                    *)
(***************************************************************************)
CopyOf(m, rows) == \E part \in SUBSET rows : m = max_speed_kmh(part)

CopiesBehind ==
  \A s \in Sockets :
    At(s, "insert") /\ status[req[s].trip] = "in_progress" =>
      CopyOf(req[s].oldMetrics.max, intervals[req[s].trip])

OpenInv == OpenTripMetricsCurrent /\ CopiesBehind

\* A maximum equal to the copy's is the row's already.
LEMMA MaximumSaved ==
  ASSUME NEW rows \in SUBSET Stamps, NEW at \in Stamps, NEW old,
         CopyOf(old, rows)
  PROVE  Saved(max_speed_kmh(rows), old, max_speed_kmh(rows \cup {at}))
           = max_speed_kmh(rows \cup {at})
<1> DEFINE now == rows \cup {at}
<1>1. PICK part \in SUBSET rows : old = max_speed_kmh(part)
  BY DEF CopyOf
<1>2. now \in SUBSET Stamps /\ now # {} /\ rows \in SUBSET now
  OBVIOUS
<1>3. max_speed_kmh(now) \in Nat
  BY <1>2, FasterOfMore
<1>4. CASE part = {}
  <2>1. old = None
    BY <1>1, <1>4 DEF max_speed_kmh
  <2>2. old # max_speed_kmh(now)
    BY <1>3, <2>1, ConstantsAssumption
  <2>3. QED
    BY <2>2 DEF Saved
<1>5. CASE part # {}
  <2>1. /\ max_speed_kmh(rows) \in Nat /\ old \in Nat
        /\ old <= max_speed_kmh(rows)
    BY <1>1, <1>5, FasterOfMore
  <2>2. max_speed_kmh(rows) <= max_speed_kmh(now)
    BY <1>1, <1>2, <1>5, FasterOfMore
  <2>3. QED
    BY <1>3, <2>1, <2>2 DEF Saved
<1>6. QED
  BY <1>4, <1>5

\* A copy of an open trip that was behind stays so, since trips only grow.
LEMMA CopyStaysBehind ==
  ASSUME IInv, CopiesBehind, NEW s \in Sockets, req'[s] = req[s], [Next]_vars,
         At(s, "insert"), status'[req[s].trip] = "in_progress"
  PROVE  CopyOf(req[s].oldMetrics.max, intervals'[req[s].trip])
<1>1. PICK t \in Trips : t = req[s].trip
  BY DEF At, OnTrip, IInv, TypeOK, Request, RequestsHoldStartedTrips
<1>2. status[t] # "absent" /\ TripGrows(t)
  <2>1. TripGrows(t)
    BY StepGrows
  <2>2. status[t] # "absent"
    BY <1>1, NoneIsFresh DEF IInv, RequestsHoldStartedTrips
  <2>3. QED
    BY <2>1, <2>2
<1>3. status[t] = "in_progress" /\ intervals[t] \subseteq intervals'[t]
  BY <1>1, <1>2 DEF TripGrows, IInv, TypeOK
<1>4. CopyOf(req[s].oldMetrics.max, intervals[t])
  BY <1>1, <1>3 DEF CopiesBehind
<1>5. QED
  BY <1>1, <1>3, <1>4 DEF CopyOf

\* So does every copy, when the one request that moves has not just loaded one.
LEMMA CopiesStayBehind ==
  ASSUME IInv, CopiesBehind, NEW s \in Sockets, NEW q, req' = [req EXCEPT ![s] = q],
         [Next]_vars, q.step # "insert"
  PROVE  CopiesBehind'
<1> SUFFICES ASSUME NEW r \in Sockets, At(r, "insert")', (status[req[r].trip] = "in_progress")'
             PROVE  CopyOf(req[r].oldMetrics.max, intervals[req[r].trip])'
  BY DEF CopiesBehind
<1>1. r # s /\ req'[r] = req[r]
  BY DEF At, IInv, TypeOK
<1>2. CopyOf(req[r].oldMetrics.max, intervals'[req[r].trip])
  BY <1>1, CopyStaysBehind DEF At
<1>3. QED
  BY <1>1, <1>2 DEF CopyOf

LEMMA AddIntervalOpen ==
  ASSUME IInv, OpenInv, NEW s \in Sockets, AddInterval(s)
  PROVE  OpenTripMetricsCurrent'
<1>1. PICK t \in Trips : t = req[s].trip
  BY DEF AddInterval, At, OnTrip, IInv, TypeOK, Request, RequestsHoldStartedTrips
<1>2. PICK at \in Stamps : at = req[s].at
  BY DEF AddInterval, At, IInv, TypeOK, Request, RequestsHoldStartedTrips
<1>3. PICK now : now = intervals[t] \cup {at}
  OBVIOUS
<1>4. PICK m : m = SavedMetrics(measured[t], req[s].oldMetrics, MetricsOf(now))
  OBVIOUS
<1>5. \/ UNCHANGED <<intervals, measured>>
      \/ /\ intervals' = [intervals EXCEPT ![t] = now]
         /\ measured' = [measured EXCEPT ![t] = m]
  BY <1>1, <1>2, <1>3, <1>4 DEF AddInterval
<1>6. status[t] = "in_progress" => m.max = max_speed_kmh(now)
  <2> SUFFICES ASSUME status[t] = "in_progress" PROVE m.max = max_speed_kmh(now)
    OBVIOUS
  <2>1. measured[t].max = max_speed_kmh(intervals[t]) /\ intervals[t] \in SUBSET Stamps
    BY DEF OpenInv, OpenTripMetricsCurrent, IInv, TypeOK
  <2>2. CopyOf(req[s].oldMetrics.max, intervals[t])
    BY <1>1 DEF OpenInv, CopiesBehind, AddInterval
  <2>3. m.max = Saved(measured[t].max, req[s].oldMetrics.max, max_speed_kmh(now))
    BY <1>4 DEF SavedMetrics, MetricsOf
  <2>4. Saved(max_speed_kmh(intervals[t]), req[s].oldMetrics.max,
              max_speed_kmh(intervals[t] \cup {at})) = max_speed_kmh(intervals[t] \cup {at})
    BY <2>1, <2>2, MaximumSaved
  <2>5. QED
    BY <1>3, <2>1, <2>3, <2>4
<1>7. status' = status
  BY DEF AddInterval
<1>8. ASSUME NEW u \in Trips, status[u] = "in_progress"
      PROVE  measured'[u].max = max_speed_kmh(intervals'[u])
  BY <1>5, <1>6, <1>8 DEF OpenInv, OpenTripMetricsCurrent, IInv, TypeOK
<1>9. QED
  BY <1>7, <1>8 DEF OpenTripMetricsCurrent

LEMMA StepOpen ==
  ASSUME IInv, OpenInv, [Next]_vars
  PROVE  OpenInv'
<1>1. CASE UNCHANGED vars
  BY <1>1 DEF vars, tripRows, OpenInv, OpenTripMetricsCurrent, CopiesBehind, CopyOf, At
<1>2. ASSUME NEW s \in Sockets, NEW q, req' = [req EXCEPT ![s] = q], q.step # "insert",
             UNCHANGED tripRows
      PROVE  OpenInv'
  <2>1. CopiesBehind'
    BY <1>2, CopiesStayBehind DEF OpenInv
  <2>2. QED
    BY <1>2, <2>1 DEF OpenInv, OpenTripMetricsCurrent, tripRows
<1>3. ASSUME NEW s \in Sockets, NEW gear \in Gears, NEW at \in Stamps,
             NEW valid \in BOOLEAN, FindVehicle(s, gear, at, valid)
      PROVE  OpenInv'
  <2> DEFINE q == [NoRequest EXCEPT !.step = "record_gear", !.gear = gear, !.at = at,
                     !.valid = valid, !.seenGear = lastGear, !.trip = activeTrip]
  <2>1. q.step = "record_gear" /\ req' = [req EXCEPT ![s] = q] /\ UNCHANGED tripRows
    BY <1>3 DEF FindVehicle, NoRequest
  <2> HIDE DEF q
  <2>2. QED
    BY <1>2, <2>1
<1>4. ASSUME NEW s \in Sockets, RecordGear(s) PROVE OpenInv'
  <2> DEFINE q == IF AfterGear(s) = "idle" THEN NoRequest
                  ELSE [req[s] EXCEPT !.step = AfterGear(s)]
  <2>1. req' = [req EXCEPT ![s] = q] /\ UNCHANGED tripRows
    BY <1>4 DEF RecordGear, Answer, Goto
  <2>2. q.step = AfterGear(s)
    BY DEF NoRequest, IInv, TypeOK, Request
  <2>3. AfterGear(s) # "insert"
    BY DEF AfterGear
  <2> HIDE DEF q
  <2>4. QED
    BY <1>2, <2>1, <2>2, <2>3
<1>5. ASSUME NEW s \in Sockets, LoadTrip(s) PROVE OpenInv'
  <2>1. PICK t \in Trips : t = req[s].trip
    BY <1>5 DEF LoadTrip, OnTrip, IInv, TypeOK, Request, RequestsHoldStartedTrips
  <2>2. UNCHANGED tripRows /\ req'[s].trip = t /\ req'[s].oldMetrics = measured[t]
        /\ \A r \in Sockets \ {s} : req'[r] = req[r]
    BY <1>5, <2>1 DEF LoadTrip, IInv, TypeOK, Request
  <2>3. status[t] = "in_progress" => CopyOf(measured[t].max, intervals[t])
    BY DEF OpenInv, OpenTripMetricsCurrent, CopyOf
  <2>4. CopiesBehind'
    <3> SUFFICES ASSUME NEW r \in Sockets, At(r, "insert")', (status[req[r].trip] = "in_progress")'
                 PROVE  CopyOf(req[r].oldMetrics.max, intervals[req[r].trip])'
      BY DEF CopiesBehind
    <3>1. CASE r = s
      BY <2>2, <2>3, <3>1 DEF CopyOf, tripRows
    <3>2. CASE r # s
      <4>1. req'[r] = req[r]
        BY <2>2, <3>2
      <4>2. CopyOf(req[r].oldMetrics.max, intervals'[req[r].trip])
        BY <4>1, CopyStaysBehind DEF At, OpenInv
      <4>3. QED
        BY <4>1, <4>2 DEF CopyOf
    <3>3. QED
      BY <3>1, <3>2
  <2>5. QED
    BY <2>2, <2>4 DEF OpenInv, OpenTripMetricsCurrent, tripRows
<1>6. ASSUME NEW s \in Sockets, AddInterval(s) PROVE OpenInv'
  <2>1. req' = [req EXCEPT ![s] = NoRequest] /\ NoRequest.step = "idle"
    BY <1>6, AnswerMoves DEF AddInterval, Answer
  <2>2. CopiesBehind'
    BY <2>1, CopiesStayBehind DEF OpenInv
  <2>3. QED
    BY <1>6, <2>2, AddIntervalOpen DEF OpenInv
<1>7. ASSUME NEW s \in Sockets, NEW t \in Trips, StartTrip(s, t) PROVE OpenInv'
  <2>1. PICK q : req' = [req EXCEPT ![s] = q] /\ q.step = "activate"
    <3> DEFINE q == [req[s] EXCEPT !.step = "activate", !.trip = t]
    <3>1. req' = [req EXCEPT ![s] = q] /\ q.step = "activate"
      BY <1>7 DEF StartTrip, IInv, TypeOK, Request
    <3> HIDE DEF q
    <3>2. QED
      BY <3>1
  <2>2. CopiesBehind'
    BY <2>1, CopiesStayBehind DEF OpenInv
  <2>3. measured[t].max = max_speed_kmh({}) /\ intervals[t] = {}
    BY <1>7 DEF StartTrip, IInv, UnusedRowsBlank, MetricsOf
  <2>4. OpenTripMetricsCurrent'
    BY <1>7, <2>3 DEF StartTrip, OpenInv, OpenTripMetricsCurrent, IInv, TypeOK
  <2>5. QED
    BY <2>2, <2>4 DEF OpenInv
<1>8. ASSUME NEW s \in Sockets, NEW t \in Trips, create_empty_trip(s, t) PROVE OpenInv'
  <2>1. req' = [req EXCEPT ![s] = NoRequest] /\ NoRequest.step = "idle"
    BY <1>8, AnswerMoves DEF create_empty_trip, Answer
  <2>2. CopiesBehind'
    BY <2>1, CopiesStayBehind DEF OpenInv
  <2>3. OpenTripMetricsCurrent'
    BY <1>8 DEF create_empty_trip, OpenInv, OpenTripMetricsCurrent, IInv, TypeOK
  <2>4. QED
    BY <2>2, <2>3 DEF OpenInv
<1>9. ASSUME NEW s \in Sockets, RecalculateMetrics(s) PROVE OpenInv'
  <2> DEFINE rows == intervals[req[s].trip]
             q == [req[s] EXCEPT !.step = "save",
                     !.metrics = IF rows = {} THEN req[s].oldMetrics ELSE MetricsOf(rows)]
  <2>1. req' = [req EXCEPT ![s] = q] /\ q.step = "save" /\ UNCHANGED tripRows
    BY <1>9 DEF RecalculateMetrics, IInv, TypeOK, Request
  <2> HIDE DEF q
  <2>2. QED
    BY <1>2, <2>1
<1>10. ASSUME NEW s \in Sockets, SaveTrip(s) PROVE OpenInv'
  <2> DEFINE q == [req[s] EXCEPT !.step = "clear", !.owner = activeTrip]
  <2>1. req' = [req EXCEPT ![s] = q] /\ q.step = "clear"
    BY <1>10 DEF SaveTrip, IInv, TypeOK, Request
  <2> HIDE DEF q
  <2>2. CopiesBehind'
    BY <2>1, CopiesStayBehind DEF OpenInv
  <2>3. OpenTripMetricsCurrent'
    BY <1>10 DEF SaveTrip, OpenInv, OpenTripMetricsCurrent, IInv, TypeOK
  <2>4. QED
    BY <2>2, <2>3 DEF OpenInv
<1>11. ASSUME NEW s \in Sockets, ActivateTrip(s) \/ ClearActiveTrip(s) \/ Fail(s) PROVE OpenInv'
  <2>1. UNCHANGED tripRows /\ req' = [req EXCEPT ![s] = NoRequest] /\ NoRequest.step = "idle"
    BY <1>11, AnswerMoves DEF ActivateTrip, ClearActiveTrip, Fail, Answer
  <2>2. QED
    BY <1>2, <2>1
<1>12. QED
  BY <1>1, <1>3, <1>4, <1>5, <1>6, <1>7, <1>8, <1>9, <1>10, <1>11 DEF Next, Handle

\* However requests overlap and die, and however old the copies of the trip that
\* they save, the stored maximum of an open trip is that of all its intervals.
THEOREM OpenMetricsSafe == Spec => []OpenTripMetricsCurrent
<1>1. Init => OpenInv
  BY AnswerMoves DEF Init, OpenInv, OpenTripMetricsCurrent, CopiesBehind, At
<1>2. IInv /\ OpenInv /\ [Next]_vars => OpenInv'
  BY StepOpen
<1>3. OpenInv => OpenTripMetricsCurrent
  BY DEF OpenInv
<1>4. QED
  BY <1>1, <1>2, <1>3, Invariance, PTL DEF Spec

-----------------------------------------------------------------------------
(***************************************************************************)
(* One socket: what a request has read of the trip is still true when it   *)
(* saves it.                                                               *)
(***************************************************************************)
ReadsCurrent ==
  \A s \in Sockets :
    /\ req[s].step \in {"insert", "measure", "save"} => req[s].oldMetrics = measured[req[s].trip]
    /\ req[s].step = "save" => req[s].metrics = measured[req[s].trip]

MInv == MetricsCurrent /\ ReadsCurrent

\* Saving over the copy of what the row holds stores the metrics as they are.
LEMMA SavedOver ==
  ASSUME NEW m \in Metrics, NEW rows
  PROVE  SavedMetrics(m, m, MetricsOf(rows)) = MetricsOf(rows)
BY DEF SavedMetrics, Saved, MetricsOf

LEMMA StepMetrics ==
  ASSUME OneSocket, IInv, MInv, [Next]_vars
  PROVE  MInv'
<1>1. CASE UNCHANGED vars
  BY <1>1 DEF vars, tripRows, MInv, MetricsCurrent, ReadsCurrent
<1>2. ASSUME NEW s \in Sockets, UNCHANGED tripRows,
             NEW q, req' = [req EXCEPT ![s] = q], q.step \notin {"insert", "measure", "save"}
      PROVE  MInv'
  <2>1. req'[s].step \notin {"insert", "measure", "save"} /\ \A r \in Sockets : r = s
    BY <1>2 DEF IInv, TypeOK, OneSocket
  <2>2. QED
    BY <1>2, <2>1 DEF tripRows, MInv, MetricsCurrent, ReadsCurrent
<1>3. ASSUME NEW s \in Sockets, NEW gear \in Gears, NEW at \in Stamps,
             NEW valid \in BOOLEAN, FindVehicle(s, gear, at, valid)
      PROVE  MInv'
  <2> DEFINE q == [NoRequest EXCEPT !.step = "record_gear", !.gear = gear, !.at = at,
                     !.valid = valid, !.seenGear = lastGear, !.trip = activeTrip]
  <2>1. q.step = "record_gear" /\ req' = [req EXCEPT ![s] = q] /\ UNCHANGED tripRows
    BY <1>3 DEF FindVehicle, NoRequest
  <2> HIDE DEF q
  <2>2. QED
    BY <1>2, <2>1
<1>4. ASSUME NEW s \in Sockets, RecordGear(s) PROVE MInv'
  <2> DEFINE q == IF AfterGear(s) = "idle" THEN NoRequest
                  ELSE [req[s] EXCEPT !.step = AfterGear(s)]
  <2>1. req' = [req EXCEPT ![s] = q] /\ UNCHANGED tripRows
    BY <1>4 DEF RecordGear, Answer, Goto
  <2>2. q.step = AfterGear(s)
    BY DEF NoRequest, IInv, TypeOK, Request
  <2>3. AfterGear(s) \notin {"insert", "measure", "save"}
    BY DEF AfterGear
  <2> HIDE DEF q
  <2>4. QED
    BY <1>2, <2>1, <2>2, <2>3
<1>5. ASSUME NEW s \in Sockets, AddInterval(s) PROVE MInv'
  <2>1. req' = [req EXCEPT ![s] = NoRequest]
    BY <1>5 DEF AddInterval, Answer
  <2>2. \A r \in Sockets : req'[r].step = "idle"
    BY <2>1, AnswerMoves DEF OneSocket, IInv, TypeOK
  <2>3. PICK t \in Trips : t = req[s].trip
    BY <1>5 DEF AddInterval, At, OnTrip, IInv, TypeOK, Request, RequestsHoldStartedTrips
  <2>4. measured[t] \in Metrics /\ req[s].oldMetrics = measured[t]
    BY <1>5, <2>3 DEF AddInterval, At, MInv, ReadsCurrent, IInv, TypeOK
  <2>5. PICK now : now = intervals[t] \cup {req[s].at}
    OBVIOUS
  <2>6. SavedMetrics(measured[t], req[s].oldMetrics, MetricsOf(now)) = MetricsOf(now)
    BY <2>4, SavedOver
  <2>7. \/ UNCHANGED <<intervals, measured>>
        \/ /\ intervals' = [intervals EXCEPT ![t] = now]
           /\ measured' = [measured EXCEPT ![t] = MetricsOf(now)]
    BY <1>5, <2>3, <2>5, <2>6 DEF AddInterval
  <2>8. MetricsCurrent'
    BY <2>7 DEF MInv, MetricsCurrent, IInv, TypeOK
  <2>9. QED
    BY <2>2, <2>8 DEF MInv, ReadsCurrent
<1>6. ASSUME NEW s \in Sockets, NEW t \in Trips, StartTrip(s, t) PROVE MInv'
  <2>1. UNCHANGED <<intervals, measured>> /\ req'[s].step = "activate"
    BY <1>6 DEF StartTrip, IInv, TypeOK, Request
  <2>2. \A r \in Sockets : req'[r].step = "activate"
    BY <2>1 DEF OneSocket
  <2>3. QED
    BY <2>1, <2>2 DEF MInv, MetricsCurrent, ReadsCurrent
<1>7. ASSUME NEW s \in Sockets, NEW t \in Trips, create_empty_trip(s, t) PROVE MInv'
  <2>1. UNCHANGED <<intervals, measured>> /\ req' = [req EXCEPT ![s] = NoRequest]
    BY <1>7 DEF create_empty_trip, Answer
  <2>2. QED
    BY <2>1, AnswerMoves DEF MInv, MetricsCurrent, ReadsCurrent, IInv, TypeOK
<1>8. ASSUME NEW s \in Sockets, LoadTrip(s) PROVE MInv'
  <2>1. UNCHANGED tripRows /\ req'[s].step \in {"insert", "measure"} /\ req'[s].trip = req[s].trip
        /\ req'[s].oldMetrics = measured[req[s].trip]
    BY <1>8 DEF LoadTrip, IInv, TypeOK, Request
  <2>2. \A r \in Sockets : r = s
    BY DEF OneSocket
  <2>3. QED
    BY <2>1, <2>2 DEF MInv, MetricsCurrent, ReadsCurrent, tripRows
<1>9. ASSUME NEW s \in Sockets, RecalculateMetrics(s) PROVE MInv'
  <2>1. PICK t \in Trips : t = req[s].trip
    BY <1>9 DEF RecalculateMetrics, At, OnTrip, IInv, TypeOK, Request, RequestsHoldStartedTrips
  <2>2. UNCHANGED tripRows /\ req'[s].step = "save" /\ req'[s].trip = t
        /\ req'[s].oldMetrics = req[s].oldMetrics
        /\ req'[s].metrics = IF intervals[t] = {} THEN req[s].oldMetrics
                             ELSE MetricsOf(intervals[t])
    BY <1>9, <2>1 DEF RecalculateMetrics, IInv, TypeOK, Request
  <2>3. req[s].oldMetrics = measured[t] /\ measured[t] = MetricsOf(intervals[t])
    BY <1>9, <2>1 DEF RecalculateMetrics, At, MInv, MetricsCurrent, ReadsCurrent
  <2>4. \A r \in Sockets : r = s
    BY DEF OneSocket
  <2>5. QED
    BY <2>2, <2>3, <2>4 DEF MInv, MetricsCurrent, ReadsCurrent, tripRows
<1>10. ASSUME NEW s \in Sockets, SaveTrip(s) PROVE MInv'
  <2>1. PICK t \in Trips : t = req[s].trip
    BY <1>10 DEF SaveTrip, At, OnTrip, IInv, TypeOK, Request, RequestsHoldStartedTrips
  <2>2. measured[t] \in Metrics /\ req[s].oldMetrics = measured[t] /\ req[s].metrics = measured[t]
    BY <1>10, <2>1 DEF SaveTrip, At, MInv, ReadsCurrent, IInv, TypeOK
  <2>3. SavedMetrics(measured[t], req[s].oldMetrics, req[s].metrics) = measured[t]
    BY <2>2 DEF SavedMetrics, Saved, Metrics
  <2>4. req'[s].step = "clear" /\ UNCHANGED <<intervals, measured>>
    BY <1>10, <2>1, <2>3 DEF SaveTrip, IInv, TypeOK, Request
  <2>5. \A r \in Sockets : r = s
    BY DEF OneSocket
  <2>6. QED
    BY <2>4, <2>5 DEF MInv, MetricsCurrent, ReadsCurrent
<1>11. ASSUME NEW s \in Sockets, ActivateTrip(s) \/ ClearActiveTrip(s) \/ Fail(s) PROVE MInv'
  <2>1. UNCHANGED tripRows /\ req' = [req EXCEPT ![s] = NoRequest]
    BY <1>11 DEF ActivateTrip, ClearActiveTrip, Fail, Answer
  <2>2. QED
    BY <1>2, <2>1, AnswerMoves
<1>12. QED
  BY <1>1, <1>3, <1>4, <1>5, <1>6, <1>7, <1>8, <1>9, <1>10, <1>11 DEF Next, Handle

\* Over one socket the stored metrics of every trip, maximum and average, count all
\* its intervals, whichever requests die.
THEOREM SerialMetrics == ASSUME OneSocket PROVE Spec => []MetricsCurrent
<1>1. Init => MInv
  BY AnswerMoves DEF Init, MInv, MetricsCurrent, ReadsCurrent
<1>2. IInv /\ MInv /\ [Next]_vars => MInv'
  BY StepMetrics
<1>3. MInv => MetricsCurrent
  BY DEF MInv
<1>4. QED
  BY <1>1, <1>2, <1>3, Invariance, PTL DEF Spec
============================================================================
