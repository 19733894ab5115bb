-------------------------- MODULE TripSerial_proofs --------------------------
(***************************************************************************)
(* What holds when the frames come over one socket.  TripService then      *)
(* implements DriveCycle: each transaction of a request is one step of the *)
(* cycle or none, and only the death of a request is neither.  What such   *)
(* deaths leave behind is bounded by their number, and without any of them *)
(* the trips follow each other in time.                                    *)
(***************************************************************************)
EXTENDS TripService_proofs

\* With one socket the mapping is that of its request.
LEMMA CycleOf ==
  ASSUME OneSocket, NEW s \in Sockets
  PROVE  /\ CycleGear = IF req[s].step \in Undecided THEN req[s].seenGear ELSE lastGear
         /\ CycleTrip = IF req[s].step = "activate" THEN req[s].trip
                        ELSE IF req[s].step = "clear" THEN None ELSE activeTrip
<1>1. \A r \in Sockets : r = s
  BY DEF OneSocket
<1>2. QED
  BY <1>1 DEF CycleGear, CycleTrip, At

LEMMA CycleOfNext ==
  ASSUME OneSocket, NEW s \in Sockets
  PROVE  /\ CycleGear' = IF req'[s].step \in Undecided THEN req'[s].seenGear ELSE lastGear'
         /\ CycleTrip' = IF req'[s].step = "activate" THEN req'[s].trip
                         ELSE IF req'[s].step = "clear" THEN None ELSE activeTrip'
<1>1. \A r \in Sockets : r = s
  BY DEF OneSocket
<1>2. QED
  BY <1>1 DEF CycleGear, CycleTrip, At

(***************************************************************************)
(* What the one request has read is what the database still holds.         *)
(***************************************************************************)
RequestCurrent(s) ==
  LET r == req[s]
  IN /\ r.step \in {"record_gear", "start", "snapshot", "interval", "insert",
                    "complete", "measure", "save", "clear"} => r.trip = activeTrip
     /\ r.step = "record_gear" => r.seenGear = lastGear
     /\ r.step = "activate" => activeTrip = None
     /\ r.step \in {"start", "interval", "insert"} => r.gear \in DrivingGears
     /\ r.step \in {"snapshot", "complete", "measure", "save", "clear"} => r.gear \in ParkedGears
     /\ r.step \in {"start", "snapshot"} => r.trip = None
     /\ r.step = "snapshot" => r.seenGear \notin ParkedGears
     /\ r.step \in {"measure", "save"} => r.oldEnd = endedAt[r.trip]
     /\ r.step \in OnTrip => lastGear = r.gear
     /\ r.step \in {"start", "snapshot"} => lastGear = r.gear
     /\ r.step = "clear" => r.owner = activeTrip /\ status[r.trip] = "completed"

RInv == \A s \in Sockets : RequestCurrent(s)

CycleStep == [Cycle!Next]_(Cycle!vars)

\* The slot of a request that was answered satisfies RequestCurrent at once.
LEMMA AnswerCurrent ==
  ASSUME IInv, NEW s \in Sockets, Answer(s)
  PROVE  req'[s].step = "idle" /\ RequestCurrent(s)'
<1>1. req'[s] = NoRequest
  BY DEF Answer, IInv, TypeOK
<1>2. QED
  BY <1>1 DEF NoRequest, RequestCurrent, OnTrip

LEMMA FindVehicleRefines ==
  ASSUME OneSocket, IInv, NEW s \in Sockets, NEW gear \in Gears, NEW at \in Stamps,
         NEW valid \in BOOLEAN, FindVehicle(s, gear, at, valid)
  PROVE  RequestCurrent(s)' /\ CycleStep
<1>1. /\ req'[s].step = "record_gear" /\ req'[s].trip = activeTrip
      /\ req'[s].seenGear = lastGear
  BY DEF FindVehicle, NoRequest, IInv, TypeOK
<1>2. req[s].step = "idle" /\ UNCHANGED <<vehicleRow, tripRows>>
  BY DEF FindVehicle, At
<1>3. RequestCurrent(s)'
  BY <1>1, <1>2 DEF RequestCurrent, vehicleRow, OnTrip
<1>4. CycleGear' = CycleGear /\ CycleTrip' = CycleTrip
  BY <1>1, <1>2, CycleOf, CycleOfNext DEF vehicleRow, Undecided
<1>5. QED
  BY <1>2, <1>3, <1>4 DEF CycleStep, Cycle!vars, tripRows

LEMMA RecordGearRefines ==
  ASSUME OneSocket, IInv, NEW s \in Sockets, RequestCurrent(s), RecordGear(s)
  PROVE  RequestCurrent(s)' /\ CycleStep
<1> DEFINE g == req[s].gear
<1>1. /\ req[s].step = "record_gear" /\ req[s].trip = activeTrip
      /\ req[s].seenGear = lastGear /\ g \in Gears /\ req[s].at \in Stamps
  BY DEF RecordGear, At, RequestCurrent, IInv, TypeOK, Request, RequestsHoldStartedTrips
<1>2. lastGear' = g /\ UNCHANGED <<activeTrip, tripRows>>
  BY <1>1 DEF RecordGear, Saved
<1>3. CycleGear = lastGear /\ CycleTrip = activeTrip
  BY <1>1, CycleOf DEF Undecided
<1>4. CASE AfterGear(s) = "idle"
  <2>1. g \in ParkedGears /\ activeTrip = None /\ lastGear \in ParkedGears
    BY <1>1, <1>4 DEF AfterGear, Parked, parked_transition
  <2>2. req'[s].step = "idle" /\ RequestCurrent(s)'
    BY <1>4, AnswerCurrent DEF RecordGear
  <2>3. CycleGear' = g /\ CycleTrip' = CycleTrip
    BY <1>2, <1>3, <2>2, CycleOfNext DEF Undecided
  <2>4. Cycle!StayParked(g)
    BY <1>2, <1>3, <2>1, <2>3 DEF Cycle!StayParked, tripRows
  <2>5. Cycle!Next
    BY <1>1, <2>1, <2>4 DEF Cycle!Next, Cycle!Park
  <2>6. QED
    BY <2>2, <2>5 DEF CycleStep
<1>5. CASE AfterGear(s) # "idle"
  <2>1. req'[s] = [req[s] EXCEPT !.step = AfterGear(s)]
    BY <1>5 DEF RecordGear, Goto, IInv, TypeOK
  <2>2. /\ req'[s].step = AfterGear(s) /\ req'[s].gear = g
        /\ req'[s].trip = activeTrip /\ req'[s].seenGear = lastGear
    BY <1>1, <2>1 DEF IInv, TypeOK, Request
  <2>3. \/ AfterGear(s) = "complete" /\ g \in ParkedGears /\ activeTrip # None
        \/ AfterGear(s) = "snapshot" /\ g \in ParkedGears /\ activeTrip = None
                                     /\ lastGear \notin ParkedGears
        \/ AfterGear(s) = "interval" /\ g \in DrivingGears /\ activeTrip # None
        \/ AfterGear(s) = "start" /\ g \in DrivingGears /\ activeTrip = None
    BY <1>1, <1>5 DEF AfterGear, Parked, parked_transition, Gears
  <2>4. RequestCurrent(s)'
    BY <1>2, <2>2, <2>3 DEF RequestCurrent, OnTrip
  <2>5. CycleGear' = CycleGear /\ CycleTrip' = CycleTrip
    BY <1>2, <1>3, <2>2, <2>3, CycleOfNext DEF Undecided
  <2>6. QED
    BY <1>2, <2>4, <2>5 DEF CycleStep, Cycle!vars, tripRows
<1>6. QED
  BY <1>4, <1>5

LEMMA AddIntervalRefines ==
  ASSUME OneSocket, IInv, NEW s \in Sockets, RequestCurrent(s), AddInterval(s)
  PROVE  RequestCurrent(s)' /\ CycleStep
<1> DEFINE g == req[s].gear
           at == req[s].at
<1>1. /\ req[s].step = "insert" /\ req[s].trip = activeTrip /\ activeTrip # None
      /\ lastGear = g /\ g \in DrivingGears /\ at \in Stamps
  BY DEF AddInterval, At, RequestCurrent, OnTrip, IInv, TypeOK, Request,
         RequestsHoldStartedTrips
<1>2. req'[s].step = "idle" /\ RequestCurrent(s)'
  BY AnswerCurrent DEF AddInterval
<1>3. UNCHANGED <<lastGear, activeTrip, status, startedAt, endedAt>>
  BY DEF AddInterval, vehicleRow
<1>4. CycleTrip = activeTrip /\ CycleTrip' = activeTrip /\ CycleGear' = g
  BY <1>1, <1>2, <1>3, CycleOf, CycleOfNext DEF Undecided
<1>5. \/ intervals' = intervals
      \/ intervals' = [intervals EXCEPT ![activeTrip] = intervals[activeTrip] \cup {at}]
  BY <1>1 DEF AddInterval
<1>6. Cycle!AddInterval(g, at)
  BY <1>1, <1>3, <1>4, <1>5 DEF Cycle!AddInterval
<1>7. QED
  BY <1>1, <1>2, <1>6 DEF CycleStep, Cycle!Next, Cycle!Drive

LEMMA StartTripRefines ==
  ASSUME OneSocket, IInv, NEW s \in Sockets, NEW t \in Trips, RequestCurrent(s),
         StartTrip(s, t)
  PROVE  RequestCurrent(s)' /\ CycleStep
<1> DEFINE g == req[s].gear
           at == req[s].at
<1>1. /\ req[s].step = "start" /\ activeTrip = None /\ lastGear = g
      /\ g \in DrivingGears /\ at \in Stamps
  BY DEF StartTrip, At, RequestCurrent, IInv, TypeOK, Request, RequestsHoldStartedTrips
<1>2. req'[s].step = "activate" /\ req'[s].trip = t /\ req'[s].gear = g
  BY DEF StartTrip, IInv, TypeOK, Request
<1>3. UNCHANGED <<lastGear, activeTrip, endedAt, intervals>>
  BY DEF StartTrip, vehicleRow
<1>4. RequestCurrent(s)'
  BY <1>1, <1>2, <1>3 DEF RequestCurrent, OnTrip
<1>5. CycleTrip = None /\ CycleTrip' = t /\ CycleGear' = g
  BY <1>1, <1>2, <1>3, CycleOf, CycleOfNext DEF Undecided
<1>6. Cycle!StartTrip(t, g, at)
  BY <1>3, <1>5 DEF StartTrip, Cycle!StartTrip
<1>7. QED
  BY <1>1, <1>4, <1>6 DEF CycleStep, Cycle!Next, Cycle!Drive

LEMMA CreateEmptyTripRefines ==
  ASSUME OneSocket, IInv, NEW s \in Sockets, NEW t \in Trips, RequestCurrent(s),
         create_empty_trip(s, t)
  PROVE  RequestCurrent(s)' /\ CycleStep
<1> DEFINE g == req[s].gear
           at == req[s].at
<1>1. /\ req[s].step = "snapshot" /\ activeTrip = None /\ lastGear = g
      /\ g \in ParkedGears /\ at \in Stamps /\ req[s].seenGear \notin ParkedGears
  BY DEF create_empty_trip, At, RequestCurrent, IInv, TypeOK, Request,
         RequestsHoldStartedTrips
<1>2. req'[s].step = "idle" /\ RequestCurrent(s)'
  BY AnswerCurrent DEF create_empty_trip
<1>3. UNCHANGED <<lastGear, activeTrip, intervals>>
  BY DEF create_empty_trip, vehicleRow
<1>4. CycleTrip = None /\ CycleTrip' = None /\ CycleGear' = g
      /\ CycleGear = req[s].seenGear
  BY <1>1, <1>2, <1>3, CycleOf, CycleOfNext DEF Undecided
<1>5. Cycle!RecordParked(t, g, at)
  BY <1>1, <1>3, <1>4 DEF create_empty_trip, Cycle!RecordParked
<1>6. QED
  BY <1>1, <1>2, <1>5 DEF CycleStep, Cycle!Next, Cycle!Park

\* Reading the trip row and computing its metrics is invisible.
LEMMA ReadTripRefines ==
  ASSUME OneSocket, IInv, NEW s \in Sockets, RequestCurrent(s),
         LoadTrip(s) \/ RecalculateMetrics(s)
  PROVE  RequestCurrent(s)' /\ CycleStep
<1>1. /\ \/ req[s].step = "interval" /\ req'[s].step = "insert"
         \/ req[s].step \in {"complete", "measure"} /\ req'[s].step \in {"measure", "save"}
      /\ req'[s].trip = req[s].trip /\ req'[s].gear = req[s].gear
      /\ req'[s].seenGear = req[s].seenGear
  BY DEF LoadTrip, RecalculateMetrics, At, IInv, TypeOK, Request
<1>2. req'[s].oldEnd = endedAt[req[s].trip]
  <2>1. CASE LoadTrip(s)
    BY <2>1 DEF LoadTrip, IInv, TypeOK, Request
  <2>2. CASE RecalculateMetrics(s)
    BY <2>2 DEF RecalculateMetrics, At, RequestCurrent, IInv, TypeOK, Request
  <2>3. QED
    BY <2>1, <2>2
<1>3. UNCHANGED <<vehicleRow, tripRows>>
  BY DEF LoadTrip, RecalculateMetrics
<1>4. RequestCurrent(s)'
  BY <1>1, <1>2, <1>3 DEF RequestCurrent, OnTrip, vehicleRow, tripRows
<1>5. CycleGear' = CycleGear /\ CycleTrip' = CycleTrip
  BY <1>1, <1>3, CycleOf, CycleOfNext DEF Undecided, vehicleRow
<1>6. QED
  BY <1>3, <1>4, <1>5 DEF CycleStep, Cycle!vars, tripRows

LEMMA SaveTripRefines ==
  ASSUME OneSocket, IInv, NEW s \in Sockets, RequestCurrent(s), SaveTrip(s)
  PROVE  RequestCurrent(s)' /\ CycleStep
<1> DEFINE g == req[s].gear
           at == req[s].at
<1>1. /\ req[s].step = "save" /\ req[s].trip = activeTrip /\ activeTrip # None
      /\ lastGear = g /\ g \in ParkedGears /\ at \in Stamps
      /\ activeTrip \in Trips /\ req[s].oldEnd = endedAt[activeTrip]
  BY DEF SaveTrip, At, RequestCurrent, OnTrip, IInv, TypeOK, Request,
         RequestsHoldStartedTrips
<1>2. /\ req'[s].step = "clear" /\ req'[s].trip = activeTrip /\ req'[s].gear = g
      /\ req'[s].owner = activeTrip
  BY <1>1 DEF SaveTrip, IInv, TypeOK, Request
<1>3. UNCHANGED <<lastGear, activeTrip, startedAt, intervals>>
  BY DEF SaveTrip, vehicleRow
<1>4. RequestCurrent(s)'
  <2>1. status'[activeTrip] = "completed"
    BY <1>1 DEF SaveTrip, IInv, TypeOK
  <2>2. QED
    BY <1>1, <1>2, <1>3, <2>1 DEF RequestCurrent, OnTrip
<1>5. CycleTrip = activeTrip /\ CycleTrip' = None /\ CycleGear' = g
  BY <1>1, <1>2, <1>3, CycleOf, CycleOfNext DEF Undecided
<1>6. endedAt' = [endedAt EXCEPT ![activeTrip] = at]
  BY <1>1 DEF SaveTrip, Saved, IInv, TypeOK
<1>7. Cycle!CompleteTrip(g, at)
  BY <1>1, <1>3, <1>5, <1>6 DEF SaveTrip, Cycle!CompleteTrip
<1>8. QED
  BY <1>1, <1>4, <1>7 DEF CycleStep, Cycle!Next, Cycle!Park

\* The last transaction of a request only makes the mapping literal.
LEMMA LastStepRefines ==
  ASSUME OneSocket, IInv, NEW s \in Sockets, RequestCurrent(s),
         ActivateTrip(s) \/ ClearActiveTrip(s)
  PROVE  RequestCurrent(s)' /\ CycleStep
<1>1. req'[s].step = "idle" /\ RequestCurrent(s)'
  BY AnswerCurrent DEF ActivateTrip, ClearActiveTrip
<1>2. UNCHANGED <<lastGear, tripRows>>
  BY DEF ActivateTrip, ClearActiveTrip
<1>3. CycleGear' = CycleGear
  BY <1>1, <1>2, CycleOf, CycleOfNext DEF ActivateTrip, ClearActiveTrip, At, Undecided
<1>4. CycleTrip' = CycleTrip
  <2>1. CASE ActivateTrip(s)
    BY <1>1, <2>1, CycleOf, CycleOfNext DEF ActivateTrip, At
  <2>2. CASE ClearActiveTrip(s)
    <3>1. req[s].step = "clear" /\ req[s].owner = activeTrip
      BY <2>2 DEF ClearActiveTrip, At, RequestCurrent
    <3>2. activeTrip' = None
      BY <2>2, <3>1 DEF ClearActiveTrip, Saved
    <3>3. QED
      BY <1>1, <3>1, <3>2, CycleOf, CycleOfNext
  <2>3. QED
    BY <2>1, <2>2
<1>5. QED
  BY <1>1, <1>2, <1>3, <1>4 DEF CycleStep, Cycle!vars, tripRows

LEMMA StepRefines ==
  ASSUME OneSocket, IInv, RInv, [Next]_vars
  PROVE  RInv' /\ (failures' = failures => CycleStep)
<1>1. CASE UNCHANGED vars
  <2>1. RInv'
    BY <1>1 DEF vars, vehicleRow, tripRows, RInv, RequestCurrent, OnTrip
  <2>2. CycleGear' = CycleGear /\ CycleTrip' = CycleTrip
    BY <1>1 DEF vars, vehicleRow, CycleGear, CycleTrip, At
  <2>3. QED
    BY <1>1, <2>1, <2>2 DEF vars, tripRows, CycleStep, Cycle!vars
<1>2. ASSUME NEW s \in Sockets, RequestCurrent(s)' PROVE RInv'
  <2>1. \A r \in Sockets : r = s
    BY DEF OneSocket
  <2>2. QED
    BY <1>2, <2>1 DEF RInv
<1>3. ASSUME NEW s \in Sockets, Fail(s) PROVE RInv' /\ failures' # failures
  <2>1. RequestCurrent(s)'
    BY <1>3, AnswerCurrent DEF Fail
  <2>2. failures' # failures
    BY <1>3, NoneIsFresh DEF Fail, IInv, TypeOK
  <2>3. QED
    BY <1>2, <2>1, <2>2
<1>4. ASSUME NEW s \in Sockets, NEW gear \in Gears, NEW at \in Stamps,
             NEW valid \in BOOLEAN, FindVehicle(s, gear, at, valid)
      PROVE  RInv' /\ CycleStep
  BY <1>2, <1>4, FindVehicleRefines
<1>5. ASSUME NEW s \in Sockets, Handle(s) PROVE RInv' /\ CycleStep
  <2>1. RequestCurrent(s)
    BY DEF RInv
  <2>2. RequestCurrent(s)' /\ CycleStep
    BY <1>5, <2>1, RecordGearRefines, AddIntervalRefines, StartTripRefines,
       CreateEmptyTripRefines, ReadTripRefines, SaveTripRefines, LastStepRefines
       DEF Handle
  <2>3. QED
    BY <1>2, <2>2
<1>6. QED
  BY <1>1, <1>3, <1>4, <1>5 DEF Next

LEMMA InitRefines == Init => RInv /\ Cycle!Init
<1> SUFFICES ASSUME Init PROVE RInv /\ Cycle!Init
  OBVIOUS
<1>1. \A s \in Sockets : req[s].step = "idle"
  BY AnswerMoves DEF Init
<1>2. RInv
  BY <1>1 DEF RInv, RequestCurrent, OnTrip
<1>3. CycleGear = None /\ CycleTrip = None
  BY <1>1 DEF Init, CycleGear, CycleTrip, Undecided, At
<1>4. QED
  BY <1>2, <1>3 DEF Init, Cycle!Init

\* Over one socket the service is a drive cycle, until and after any request dies.
THEOREM SerialRefinement == ASSUME OneSocket PROVE Spec => ImplementsDriveCycle
<1>1. Init => RInv /\ Cycle!Init
  BY InitRefines
<1>2. IInv /\ RInv /\ [Next]_vars => RInv' /\ [failures' = failures => CycleStep]_vars
  BY StepRefines
<1>3. QED
  BY <1>1, <1>2, Invariance, PTL DEF Spec, ImplementsDriveCycle, CycleStep

LEMMA RInvHolds == ASSUME OneSocket PROVE Spec => []RInv
<1>1. Init => RInv
  BY InitRefines
<1>2. IInv /\ RInv /\ [Next]_vars => RInv'
  BY StepRefines
<1>3. QED
  BY <1>1, <1>2, Invariance, PTL DEF Spec

-----------------------------------------------------------------------------
(***************************************************************************)
(* What requests that died leave behind.                                   *)
(***************************************************************************)
\* With one socket, the orphans are those of its request.
LEMMA OneRequest ==
  ASSUME OneSocket, NEW s \in Sockets
  PROVE  /\ Orphans = {t \in Trips : /\ status[t] = "in_progress" /\ t # activeTrip
                                     /\ ~(req[s].step = "activate" /\ req[s].trip = t)}
         /\ Orphans' = {t \in Trips : /\ status'[t] = "in_progress" /\ t # activeTrip'
                                      /\ ~(req'[s].step = "activate" /\ req'[s].trip = t)}
<1>1. \A r \in Sockets : r = s
  BY DEF OneSocket
<1>2. QED
  BY <1>1 DEF Orphans, At

\* Only a request that dies leaves a trip behind, and then only its own.
LEMMA StepOrphans ==
  ASSUME OneSocket, IInv, RInv, [Next]_vars
  PROVE  \/ Orphans' \subseteq Orphans /\ failures' = failures
         \/ \E t : Orphans' \subseteq Orphans \cup {t} /\ failures' = failures + 1
<1>1. CASE UNCHANGED vars
  BY <1>1 DEF vars, vehicleRow, tripRows, Orphans, At
<1>2. ASSUME NEW s \in Sockets, NEW gear \in Gears, NEW at \in Stamps,
             NEW valid \in BOOLEAN, FindVehicle(s, gear, at, valid)
      PROVE  Orphans' \subseteq Orphans /\ failures' = failures
  <2>1. req[s].step = "idle" /\ UNCHANGED <<status, activeTrip, failures>>
    BY <1>2 DEF FindVehicle, At, vehicleRow, tripRows
  <2>2. QED
    BY <2>1, OneRequest
<1>3. ASSUME NEW s \in Sockets, RecordGear(s) \/ AddInterval(s) \/ LoadTrip(s) \/ RecalculateMetrics(s)
      PROVE  Orphans' \subseteq Orphans /\ failures' = failures
  <2>1. req[s].step # "activate" /\ UNCHANGED <<status, activeTrip, failures>>
    BY <1>3 DEF RecordGear, AddInterval, LoadTrip, RecalculateMetrics, At, vehicleRow, tripRows
  <2>2. QED
    BY <2>1, OneRequest
<1>4. ASSUME NEW s \in Sockets, NEW t \in Trips, StartTrip(s, t)
      PROVE  Orphans' \subseteq Orphans /\ failures' = failures
  <2>1. /\ req[s].step = "start" /\ req'[s].step = "activate" /\ req'[s].trip = t
        /\ UNCHANGED <<activeTrip, failures>> /\ \A u \in Trips \ {t} : status'[u] = status[u]
    BY <1>4 DEF StartTrip, At, vehicleRow, IInv, TypeOK, Request
  <2>2. QED
    BY <2>1, OneRequest
<1>5. ASSUME NEW s \in Sockets, NEW t \in Trips, create_empty_trip(s, t)
      PROVE  Orphans' \subseteq Orphans /\ failures' = failures
  <2>1. /\ req[s].step = "snapshot" /\ status'[t] = "completed"
        /\ UNCHANGED <<activeTrip, failures>> /\ \A u \in Trips \ {t} : status'[u] = status[u]
    BY <1>5 DEF create_empty_trip, At, vehicleRow, IInv, TypeOK
  <2>2. QED
    BY <2>1, OneRequest
<1>6. ASSUME NEW s \in Sockets, SaveTrip(s)
      PROVE  Orphans' \subseteq Orphans /\ failures' = failures
  <2>1. /\ req[s].step = "save" /\ UNCHANGED <<activeTrip, failures>>
        /\ \A u \in Trips : status'[u] = status[u] \/ status'[u] = "completed"
    BY <1>6 DEF SaveTrip, At, vehicleRow, IInv, TypeOK
  <2>2. QED
    BY <2>1, OneRequest
<1>7. ASSUME NEW s \in Sockets, ActivateTrip(s)
      PROVE  Orphans' \subseteq Orphans /\ failures' = failures
  <2>1. req[s].step = "activate" /\ activeTrip = None /\ activeTrip' = req[s].trip
        /\ UNCHANGED <<status, failures>>
    BY <1>7 DEF ActivateTrip, At, RInv, RequestCurrent, tripRows
  <2>2. QED
    BY <2>1, OneRequest, NoneIsFresh
<1>8. ASSUME NEW s \in Sockets, ClearActiveTrip(s)
      PROVE  Orphans' \subseteq Orphans /\ failures' = failures
  <2>1. req[s].step = "clear" /\ status[activeTrip] = "completed" /\ UNCHANGED <<status, failures>>
    BY <1>8 DEF ClearActiveTrip, At, RInv, RequestCurrent, tripRows
  <2>2. QED
    BY <2>1, OneRequest
<1>9. ASSUME NEW s \in Sockets, Fail(s)
      PROVE  Orphans' \subseteq Orphans \cup {req[s].trip} /\ failures' = failures + 1
  <2>1. UNCHANGED <<status, activeTrip>> /\ failures' = failures + 1
    BY <1>9 DEF Fail, vehicleRow, tripRows
  <2>2. QED
    BY <2>1, OneRequest
<1>10. ASSUME NEW s \in Sockets, Fail(s)
       PROVE  \E t : Orphans' \subseteq Orphans \cup {t} /\ failures' = failures + 1
  BY <1>9, <1>10
<1>11. QED
  BY <1>1, <1>2, <1>3, <1>4, <1>5, <1>6, <1>7, <1>8, <1>10 DEF Next, Handle

\* Any part of the trips is finite, and one more trip adds at most one.
LEMMA TripsFinite ==
  ASSUME NEW S \in SUBSET Trips
  PROVE  IsFiniteSet(S) /\ Cardinality(S) \in Nat
BY ConstantsAssumption, FS_Subset, FS_CardinalityType

LEMMA OneMoreTrip ==
  ASSUME NEW S \in SUBSET Trips, NEW T \in SUBSET Trips, NEW t, T \subseteq S \cup {t}
  PROVE  Cardinality(T) <= Cardinality(S) + 1
<1>1. IsFiniteSet(S) /\ Cardinality(S) \in Nat /\ Cardinality(T) \in Nat
  BY TripsFinite
<1>2. /\ IsFiniteSet(S \cup {t})
      /\ Cardinality(S \cup {t}) = IF t \in S THEN Cardinality(S) ELSE Cardinality(S) + 1
  BY <1>1, FS_AddElement
<1>3. Cardinality(S \cup {t}) <= Cardinality(S) + 1
  BY <1>1, <1>2
<1>4. Cardinality(S \cup {t}) \in Nat /\ Cardinality(T) <= Cardinality(S \cup {t})
  BY <1>2, FS_CardinalityType, FS_Subset
<1>5. QED
  BY <1>1, <1>2, <1>3, <1>4

LEMMA FewerTrips ==
  ASSUME NEW S \in SUBSET Trips, NEW T \in SUBSET S
  PROVE  Cardinality(T) <= Cardinality(S)
BY TripsFinite, FS_Subset

\* Over one socket no more trips stay open for ever than requests died.
THEOREM OrphansBounded == ASSUME OneSocket PROVE Spec => []OrphansComeFromFailures
<1>1. Init => OrphansComeFromFailures
  <2> SUFFICES ASSUME Init PROVE OrphansComeFromFailures
    OBVIOUS
  <2>1. Orphans = {} /\ failures = 0
    BY DEF Init, Orphans
  <2>2. QED
    BY <2>1, FS_EmptySet DEF OrphansComeFromFailures
<1>2. IInv /\ RInv /\ OrphansComeFromFailures /\ [Next]_vars => OrphansComeFromFailures'
  <2> SUFFICES ASSUME IInv, RInv, OrphansComeFromFailures, [Next]_vars
               PROVE  OrphansComeFromFailures'
    OBVIOUS
  <2>1. Orphans \in SUBSET Trips /\ Orphans' \in SUBSET Trips
    BY DEF Orphans
  <2>2. Cardinality(Orphans) \in Nat /\ Cardinality(Orphans') \in Nat /\ failures \in Nat
    BY <2>1, TripsFinite, NoneIsFresh DEF IInv, TypeOK
  <2>3. CASE Orphans' \subseteq Orphans /\ failures' = failures
    <3>1. Cardinality(Orphans') <= Cardinality(Orphans)
      BY <2>1, <2>3, FewerTrips
    <3>2. QED
      BY <2>2, <2>3, <3>1 DEF OrphansComeFromFailures
  <2>4. ASSUME NEW t, Orphans' \subseteq Orphans \cup {t}, failures' = failures + 1
        PROVE  OrphansComeFromFailures'
    <3>1. Cardinality(Orphans') <= Cardinality(Orphans) + 1
      BY <2>1, <2>4, OneMoreTrip
    <3>2. QED
      BY <2>2, <2>4, <3>1 DEF OrphansComeFromFailures
  <2>5. QED
    BY <2>3, <2>4, StepOrphans
<1>3. QED
  BY <1>1, <1>2, Invariance, RInvHolds, PTL DEF Spec

(***************************************************************************)
(* Snapshots.  One can be on its way without a further death only if the   *)
(* gear has not been recorded yet, or was recorded by the request itself:  *)
(* then there is one less than is allowed.                                 *)
(***************************************************************************)
MayRecord(s) ==
  \/ At(s, "snapshot")
  \/ req[s].step \in {"idle", "record_gear"} /\ activeTrip = None /\ lastGear \notin ParkedGears

SnapshotInv ==
  /\ OneParkedSnapshot
  /\ \A s \in Sockets : MayRecord(s) => Cardinality(snapshots) <= failures

LEMMA StepMayRecord ==
  ASSUME OneSocket, IInv, RInv, [Next]_vars
  PROVE  \/ snapshots' = snapshots /\ failures' = failures + 1
         \/ /\ snapshots' = snapshots /\ failures' = failures
            /\ \A s \in Sockets : MayRecord(s)' => MayRecord(s)
         \/ \E s \in Sockets : \E t : /\ MayRecord(s) /\ ~MayRecord(s)'
                                      /\ snapshots' = snapshots \cup {t} /\ failures' = failures
<1> DEFINE Quiet(s) == snapshots' = snapshots /\ failures' = failures /\ (MayRecord(s)' => MayRecord(s))
<1>1. CASE UNCHANGED vars
  BY <1>1 DEF vars, vehicleRow, tripRows, MayRecord, At
<1>2. ASSUME NEW s \in Sockets, NEW gear \in Gears, NEW at \in Stamps,
             NEW valid \in BOOLEAN, FindVehicle(s, gear, at, valid)
      PROVE  Quiet(s)
  <2>1. /\ req[s].step = "idle" /\ req'[s].step = "record_gear"
        /\ UNCHANGED <<vehicleRow, snapshots, failures>>
    BY <1>2 DEF FindVehicle, At, tripRows, IInv, TypeOK, NoRequest
  <2>2. QED
    BY <2>1 DEF MayRecord, At, vehicleRow
<1>3. ASSUME NEW s \in Sockets, RecordGear(s) PROVE Quiet(s)
  <2>1. /\ req[s].step = "record_gear" /\ req[s].trip = activeTrip /\ req[s].seenGear = lastGear
        /\ lastGear' = req[s].gear /\ UNCHANGED <<activeTrip, snapshots, failures>>
    BY <1>3 DEF RecordGear, At, Saved, RInv, RequestCurrent, tripRows
  <2>2. req'[s].step = AfterGear(s)
    BY <1>3 DEF RecordGear, Answer, Goto, IInv, TypeOK, Request, NoRequest
  <2>3. CASE AfterGear(s) = "snapshot"
    BY <2>1, <2>3 DEF AfterGear, parked_transition, MayRecord
  <2>4. CASE AfterGear(s) = "idle"
    <3>1. lastGear' \in ParkedGears
      BY <2>1, <2>4 DEF AfterGear, Parked
    <3>2. QED
      BY <2>1, <2>2, <2>4, <3>1 DEF MayRecord, At
  <2>5. CASE AfterGear(s) \notin {"idle", "snapshot"}
    <3>1. AfterGear(s) # "record_gear"
      BY DEF AfterGear
    <3>2. QED
      BY <2>1, <2>2, <2>5, <3>1 DEF MayRecord, At
  <2>6. QED
    BY <2>3, <2>4, <2>5
<1>4. ASSUME NEW s \in Sockets, AddInterval(s) PROVE Quiet(s)
  <2>1. activeTrip # None /\ UNCHANGED <<vehicleRow, snapshots, failures>>
    BY <1>4, NoneIsFresh DEF AddInterval, At, OnTrip, RInv, RequestCurrent, IInv, RequestsHoldStartedTrips
  <2>2. req'[s].step = "idle"
    BY <1>4, AnswerCurrent DEF AddInterval
  <2>3. QED
    BY <2>1, <2>2 DEF MayRecord, At, vehicleRow
<1>5. ASSUME NEW s \in Sockets, NEW t \in Trips, StartTrip(s, t) PROVE Quiet(s)
  <2>1. req'[s].step = "activate" /\ UNCHANGED <<snapshots, failures>>
    BY <1>5 DEF StartTrip, IInv, TypeOK, Request
  <2>2. QED
    BY <2>1 DEF MayRecord, At
<1>6. ASSUME NEW s \in Sockets, ActivateTrip(s) PROVE Quiet(s)
  <2>1. activeTrip' # None /\ UNCHANGED <<snapshots, failures>>
    BY <1>6 DEF ActivateTrip, At, OnTrip, IInv, RequestsHoldStartedTrips, tripRows
  <2>2. req'[s].step = "idle"
    BY <1>6, AnswerCurrent DEF ActivateTrip
  <2>3. QED
    BY <2>1, <2>2 DEF MayRecord, At
<1>7. ASSUME NEW s \in Sockets, LoadTrip(s) \/ RecalculateMetrics(s) \/ SaveTrip(s) PROVE Quiet(s)
  <2>1. req'[s].step \in {"insert", "measure", "save", "clear"} /\ UNCHANGED <<snapshots, failures>>
    BY <1>7 DEF LoadTrip, RecalculateMetrics, SaveTrip, tripRows, IInv, TypeOK, Request
  <2>2. QED
    BY <2>1 DEF MayRecord, At
<1>8. ASSUME NEW s \in Sockets, ClearActiveTrip(s) PROVE Quiet(s)
  <2>1. lastGear \in ParkedGears /\ UNCHANGED <<lastGear, snapshots, failures>>
    BY <1>8 DEF ClearActiveTrip, At, OnTrip, RInv, RequestCurrent, tripRows
  <2>2. req'[s].step = "idle"
    BY <1>8, AnswerCurrent DEF ClearActiveTrip
  <2>3. QED
    BY <2>1, <2>2 DEF MayRecord, At
<1>9. ASSUME NEW s \in Sockets, NEW t \in Trips, create_empty_trip(s, t)
      PROVE  /\ MayRecord(s) /\ ~MayRecord(s)'
             /\ snapshots' = snapshots \cup {t} /\ failures' = failures
  <2>1. /\ req[s].step = "snapshot" /\ lastGear \in ParkedGears
        /\ lastGear' = lastGear /\ snapshots' = snapshots \cup {t} /\ failures' = failures
    BY <1>9 DEF create_empty_trip, At, OnTrip, RInv, RequestCurrent, vehicleRow
  <2>2. req'[s].step = "idle"
    BY <1>9, AnswerCurrent DEF create_empty_trip
  <2>3. QED
    BY <2>1, <2>2 DEF MayRecord, At
<1>10. ASSUME NEW s \in Sockets, Fail(s) PROVE snapshots' = snapshots /\ failures' = failures + 1
  BY <1>10 DEF Fail, tripRows
<1>11. ASSUME NEW s \in Sockets, Quiet(s)
       PROVE  /\ snapshots' = snapshots /\ failures' = failures
              /\ \A r \in Sockets : MayRecord(r)' => MayRecord(r)
  <2>1. \A r \in Sockets : r = s
    BY DEF OneSocket
  <2>2. QED
    BY <1>11, <2>1
<1> HIDE DEF Quiet
<1>12. QED
  BY <1>1, <1>2, <1>3, <1>4, <1>5, <1>6, <1>7, <1>8, <1>9, <1>10, <1>11 DEF Next, Handle

\* Over one socket only the first parked frame records a snapshot, but for one more
\* after each request that died.
THEOREM SnapshotsBounded == ASSUME OneSocket PROVE Spec => []OneParkedSnapshot
<1>1. Init => SnapshotInv
  <2> SUFFICES ASSUME Init PROVE SnapshotInv
    OBVIOUS
  <2>1. Cardinality(snapshots) = 0 /\ failures = 0
    BY FS_EmptySet DEF Init
  <2>2. QED
    BY <2>1 DEF SnapshotInv, OneParkedSnapshot
<1>2. IInv /\ IInv' /\ RInv /\ SnapshotInv /\ [Next]_vars => SnapshotInv'
  <2> SUFFICES ASSUME IInv, IInv', RInv, SnapshotInv, [Next]_vars PROVE SnapshotInv'
    OBVIOUS
  <2>1. snapshots \in SUBSET Trips /\ snapshots' \in SUBSET Trips /\ failures \in Nat
    BY NoneIsFresh DEF IInv, TypeOK
  <2>2. Cardinality(snapshots) \in Nat /\ Cardinality(snapshots') \in Nat
    BY <2>1, TripsFinite
  <2>3. CASE snapshots' = snapshots /\ failures' = failures + 1
    BY <2>1, <2>2, <2>3 DEF SnapshotInv, OneParkedSnapshot
  <2>4. CASE /\ snapshots' = snapshots /\ failures' = failures
             /\ \A s \in Sockets : MayRecord(s)' => MayRecord(s)
    BY <2>4 DEF SnapshotInv, OneParkedSnapshot
  <2>5. ASSUME NEW s \in Sockets, NEW t, MayRecord(s), ~MayRecord(s)',
               snapshots' = snapshots \cup {t}, failures' = failures
        PROVE  SnapshotInv'
    <3>1. Cardinality(snapshots') <= Cardinality(snapshots) + 1
      BY <2>1, <2>5, OneMoreTrip
    <3>2. Cardinality(snapshots) <= failures
      BY <2>5 DEF SnapshotInv
    <3>3. \A r \in Sockets : r = s
      BY DEF OneSocket
    <3>4. QED
      BY <2>1, <2>2, <2>5, <3>1, <3>2, <3>3 DEF SnapshotInv, OneParkedSnapshot
  <2>6. QED
    BY <2>3, <2>4, <2>5, StepMayRecord
<1>3. SnapshotInv => OneParkedSnapshot
  BY DEF SnapshotInv
<1>4. QED
  BY <1>1, <1>2, <1>3, Invariance, RInvHolds, PTL DEF Spec

-----------------------------------------------------------------------------
(***************************************************************************)
(* Time.  The frames come in order and no request has died: the only open  *)
(* trip is the one that the request or the vehicle holds (Held), and every *)
(* row lies before the latest frame.                                       *)
(***************************************************************************)
Held(s, t) == IF At(s, "activate") THEN req[s].trip = t ELSE activeTrip = t /\ ~At(s, "clear")
RequestsTimely ==
  \A s \in Sockets : /\ ~At(s, "idle") => req[s].at = latest
                     /\ \A t \in Trips : status[t] = "in_progress" <=> Held(s, t)

\* Row t with these contents lies before the frame of time now.
RowTimely(state, start, end, at, now) ==
  /\ state # "absent" => start \in Nat /\ start <= now /\ \A i \in at : start <= i /\ i <= now
  /\ state = "completed" => end \in Nat /\ start <= end /\ end <= now /\ \A i \in at : i <= end
TripTimely(t) == RowTimely(status[t], startedAt[t], endedAt[t], intervals[t], latest)

TripsApart ==
  \A t, u \in Trips : t # u /\ status[t] # "absent" /\ status[u] # "absent" => Before(t, u) \/ Before(u, t)

TimeInv == failures = 0 => RequestsTimely /\ TripsApart /\ \A t \in Trips : TripTimely(t)

LEMMA TimeGoals == IInv /\ TimeInv => IntervalsWithinTrip /\ TripsDoNotOverlap
<1> SUFFICES ASSUME IInv, RequestsTimely, TripsApart, \A t \in Trips : TripTimely(t)
             PROVE  IntervalsWithinTrip /\ TripsDoNotOverlap
  BY DEF TimeInv, IntervalsWithinTrip, TripsDoNotOverlap
<1>1. TripsDoNotOverlap
  BY DEF TripsApart, TripsDoNotOverlap
<1>2. ASSUME NEW t \in Trips, NEW at \in intervals[t]
      PROVE  startedAt[t] <= at /\ (status[t] = "completed" => at <= endedAt[t])
  <2>1. status[t] # "absent"
    BY <1>2 DEF IInv, UnusedRowsBlank
  <2>2. QED
    BY <1>2, <2>1 DEF TripTimely, RowTimely
<1>3. QED
  BY <1>1, <1>2 DEF IntervalsWithinTrip

\* A step that changes no trip but t, and not its start unless it was absent.
LEMMA OneRowChanges ==
  ASSUME IInv, RequestsTimely, TripsApart, \A u \in Trips : TripTimely(u), latest' = latest,
         NEW t \in Trips, \A u \in Trips \ {t} : /\ status'[u] = status[u] /\ startedAt'[u] = startedAt[u]
                                               /\ endedAt'[u] = endedAt[u] /\ intervals'[u] = intervals[u],
         TripTimely(t)',
         \A u \in Trips \ {t} : status[u] # "absent" => Before(u, t)'
  PROVE  TripsApart' /\ \A u \in Trips : TripTimely(u)'
<1>1. \A u \in Trips \ {t} : TripTimely(u)'
  BY DEF TripTimely
<1>2. \A u, v \in Trips \ {t} : Before(u, v) => Before(u, v)'
  BY DEF Before
<1>3. ASSUME NEW u \in Trips, NEW v \in Trips, u # v, status'[u] # "absent", status'[v] # "absent"
      PROVE  Before(u, v)' \/ Before(v, u)'
  <2>1. CASE u # t /\ v # t
    BY <1>2, <1>3, <2>1 DEF TripsApart
  <2>2. CASE u = t
    BY <1>3, <2>2
  <2>3. CASE v = t
    BY <1>3, <2>3
  <2>4. QED
    BY <2>1, <2>2, <2>3
<1>4. QED
  BY <1>1, <1>3 DEF TripsApart

\* A step that changes no trip.
LEMMA NoRowChanges ==
  ASSUME IInv, IInv', TripsApart, \A u \in Trips : TripTimely(u), UNCHANGED tripRows, latest' >= latest
  PROVE  TripsApart' /\ \A u \in Trips : TripTimely(u)'
<1>1. TripsApart'
  BY DEF TripsApart, Before, tripRows
<1>2. latest \in Nat /\ latest' \in Nat
  BY NoneIsFresh DEF IInv, TypeOK
<1>3. ASSUME NEW u \in Trips PROVE TripTimely(u)'
  <2>1. intervals[u] \subseteq Nat
    BY NoneIsFresh DEF IInv, TypeOK
  <2>2. TripTimely(u)
    OBVIOUS
  <2>3. QED
    BY <1>2, <2>1, <2>2 DEF TripTimely, RowTimely, tripRows
<1>4. QED
  BY <1>1, <1>3

\* The one request decides which trip may be open.
LEMMA OneTimely ==
  ASSUME OneSocket, NEW s \in Sockets,
         req'[s].step # "idle" => req'[s].at = latest',
         \A t \in Trips : status'[t] = "in_progress" <=>
           IF req'[s].step = "activate" THEN req'[s].trip = t ELSE activeTrip' = t /\ req'[s].step # "clear"
  PROVE  RequestsTimely'
<1>1. \A r \in Sockets : r = s
  BY DEF OneSocket
<1>2. QED
  BY <1>1 DEF RequestsTimely, Held, At

Timely == RequestsTimely /\ TripsApart /\ \A t \in Trips : TripTimely(t)

LEMMA FindVehicleTimely ==
  ASSUME OneSocket, Resends = FALSE, IInv, IInv', Timely, NEW s \in Sockets, NEW gear \in Gears,
         NEW at \in Stamps, NEW valid \in BOOLEAN, FindVehicle(s, gear, at, valid)
  PROVE  Timely'
<1>1. /\ req[s].step = "idle" /\ latest' = at /\ at >= latest /\ UNCHANGED <<vehicleRow, tripRows>>
      /\ req'[s].step = "record_gear" /\ req'[s].at = at
  BY DEF FindVehicle, At, IInv, TypeOK, NoRequest
<1>2. RequestsTimely'
  BY <1>1, OneTimely DEF Timely, RequestsTimely, Held, At, vehicleRow, tripRows
<1>3. QED
  BY <1>1, <1>2, NoRowChanges DEF Timely

\* The steps that change neither a trip nor the vehicle's.
LEMMA InnerTimely ==
  ASSUME OneSocket, IInv, IInv', Timely, NEW s \in Sockets, RecordGear(s) \/ LoadTrip(s) \/ RecalculateMetrics(s)
  PROVE  Timely'
<1>1. /\ req[s].step \in {"record_gear", "interval", "complete", "measure"} /\ latest' = latest /\ UNCHANGED <<activeTrip, tripRows>>
      /\ req'[s].step \notin {"activate", "clear"} /\ (req'[s].step # "idle" => req'[s].at = req[s].at)
  <2>1. CASE RecordGear(s)
    <3>1. req'[s] = NoRequest \/ req'[s] = [req[s] EXCEPT !.step = AfterGear(s)]
      BY <2>1 DEF RecordGear, Answer, Goto, IInv, TypeOK
    <3>2. req'[s].step = "idle" \/ (req'[s].step = AfterGear(s) /\ req'[s].at = req[s].at)
      BY <3>1 DEF IInv, TypeOK, Request, NoRequest
    <3>3. AfterGear(s) \notin {"activate", "clear"}
      BY DEF AfterGear
    <3>4. QED
      BY <2>1, <3>2, <3>3 DEF RecordGear, At
  <2>2. CASE LoadTrip(s) \/ RecalculateMetrics(s)
    BY <2>2 DEF LoadTrip, RecalculateMetrics, At, vehicleRow, IInv, TypeOK, Request
  <2>3. QED
    BY <2>1, <2>2
<1>2. RequestsTimely'
  BY <1>1, OneTimely DEF Timely, RequestsTimely, Held, At, tripRows
<1>3. latest \in Nat
  BY NoneIsFresh DEF IInv, TypeOK
<1>4. QED
  BY <1>1, <1>2, <1>3, NoRowChanges DEF Timely

LEMMA ActivateTimely ==
  ASSUME OneSocket, IInv, IInv', RInv, Timely, NEW s \in Sockets, ActivateTrip(s) \/ ClearActiveTrip(s)
  PROVE  Timely'
<1>1. req'[s].step = "idle" /\ latest' = latest /\ UNCHANGED tripRows
  BY AnswerCurrent DEF ActivateTrip, ClearActiveTrip
<1>2. \A t \in Trips : status[t] = "in_progress" <=> activeTrip' = t
  <2>1. CASE ActivateTrip(s)
    BY <2>1 DEF ActivateTrip, At, Timely, RequestsTimely, Held
  <2>2. CASE ClearActiveTrip(s)
    <3>1. req[s].step = "clear" /\ activeTrip' = None
      BY <2>2 DEF ClearActiveTrip, At, Saved, RInv, RequestCurrent
    <3>2. QED
      BY <3>1, NoneIsFresh DEF Timely, RequestsTimely, Held, At
  <2>3. QED
    BY <2>1, <2>2
<1>3. RequestsTimely'
  BY <1>1, <1>2, OneTimely DEF tripRows
<1>4. latest \in Nat
  BY NoneIsFresh DEF IInv, TypeOK
<1>5. QED
  BY <1>1, <1>3, <1>4, NoRowChanges DEF Timely

\* A trip that begins at the latest frame does so after all others are over: with no
\* active trip none is open.
LEMMA BeginTimely ==
  ASSUME OneSocket, IInv, IInv', RInv, Timely, NEW s \in Sockets, NEW t \in Trips,
         StartTrip(s, t) \/ create_empty_trip(s, t)
  PROVE  Timely'
<1> DEFINE at == req[s].at
<1>1. /\ req[s].step \in {"start", "snapshot"} /\ activeTrip = None /\ activeTrip' = None
      /\ status[t] = "absent" /\ latest' = latest /\ intervals' = intervals
  BY DEF StartTrip, create_empty_trip, At, RInv, RequestCurrent, vehicleRow
<1>2. /\ at = latest /\ at \in Nat /\ intervals[t] = {}
      /\ \A u \in Trips : status[u] # "in_progress"
  BY <1>1, NoneIsFresh DEF Timely, RequestsTimely, Held, At, IInv, TypeOK, UnusedRowsBlank
<1>3. \A u \in Trips \ {t} : /\ status'[u] = status[u] /\ startedAt'[u] = startedAt[u]
                             /\ endedAt'[u] = endedAt[u] /\ intervals'[u] = intervals[u]
  BY <1>1 DEF StartTrip, create_empty_trip, IInv, TypeOK
<1>4. /\ startedAt'[t] = at /\ intervals'[t] = {}
      /\ \/ StartTrip(s, t) /\ status'[t] = "in_progress" /\ req'[s].step = "activate" /\ req'[s].trip = t
                            /\ req'[s].at = at
         \/ create_empty_trip(s, t) /\ status'[t] = "completed" /\ endedAt'[t] = at /\ req'[s].step = "idle"
  <2>1. CASE StartTrip(s, t)
    BY <1>2, <2>1 DEF StartTrip, IInv, TypeOK, Request
  <2>2. CASE create_empty_trip(s, t)
    BY <1>2, <2>2, AnswerCurrent DEF create_empty_trip, IInv, TypeOK
  <2>3. QED
    BY <2>1, <2>2
<1>5. TripTimely(t)'
  BY <1>1, <1>2, <1>4 DEF TripTimely, RowTimely
<1>6. \A u \in Trips \ {t} : status[u] # "absent" => Before(u, t)'
  <2> SUFFICES ASSUME NEW u \in Trips \ {t}, status[u] # "absent" PROVE Before(u, t)'
    OBVIOUS
  <2>1. status[u] = "completed"
    BY <1>2 DEF IInv, TypeOK
  <2>2. endedAt[u] <= latest
    BY <2>1 DEF Timely, TripTimely, RowTimely
  <2>3. QED
    BY <1>2, <1>3, <1>4, <2>1, <2>2 DEF Before
<1>7. RequestsTimely'
  BY <1>1, <1>2, <1>3, <1>4, OneTimely, NoneIsFresh
<1>8. QED
  BY <1>1, <1>3, <1>5, <1>6, <1>7, OneRowChanges DEF Timely

\* The open trip, to which the latest frame adds an interval or which it ends: all others
\* were over before it began.
LEMMA ExtendTimely ==
  ASSUME OneSocket, IInv, IInv', RInv, Timely, NEW s \in Sockets, NEW t \in Trips, req[s].trip = t,
         AddInterval(s) \/ SaveTrip(s)
  PROVE  Timely'
<1> DEFINE at == req[s].at
<1>1. /\ req[s].step \in {"insert", "save"} /\ t = activeTrip /\ at = latest /\ at \in Nat
      /\ activeTrip' = activeTrip /\ latest' = latest /\ startedAt' = startedAt
  BY NoneIsFresh DEF AddInterval, SaveTrip, At, OnTrip, RInv, RequestCurrent, IInv, TypeOK, Request,
                     RequestsHoldStartedTrips, Timely, RequestsTimely, vehicleRow
<1>2. status[t] = "in_progress" /\ \A u \in Trips \ {t} : status[u] # "in_progress"
  BY <1>1 DEF Timely, RequestsTimely, Held, At
<1>3. startedAt[t] \in Nat /\ startedAt[t] <= at /\ \A i \in intervals[t] : i \in Nat /\ startedAt[t] <= i /\ i <= at
  BY <1>1, <1>2, NoneIsFresh DEF Timely, TripTimely, RowTimely, IInv, TypeOK
<1>4. \A u \in Trips \ {t} : /\ status'[u] = status[u] /\ startedAt'[u] = startedAt[u]
                             /\ endedAt'[u] = endedAt[u] /\ intervals'[u] = intervals[u]
  <2>1. CASE AddInterval(s)
    <3>1. intervals' = intervals \/ intervals' = [intervals EXCEPT ![t] = intervals[t] \cup {at}]
      BY <2>1 DEF AddInterval
    <3>2. UNCHANGED <<status, startedAt, endedAt>>
      BY <2>1 DEF AddInterval
    <3> HIDE DEF at
    <3>3. QED
      BY <3>1, <3>2 DEF IInv, TypeOK
  <2>2. CASE SaveTrip(s)
    BY <2>2 DEF SaveTrip, IInv, TypeOK
  <2>3. QED
    BY <2>1, <2>2
<1>5. \A u \in Trips \ {t} : status[u] # "absent" => Before(u, t)'
  <2> SUFFICES ASSUME NEW u \in Trips \ {t}, status[u] # "absent" PROVE Before(u, t)'
    OBVIOUS
  <2>1. Before(u, t)
    BY <1>1, <1>2 DEF Timely, TripsApart, Before
  <2>2. QED
    BY <1>1, <1>4, <2>1 DEF Before
<1>6. TripTimely(t)' /\ RequestsTimely'
  <2>1. CASE AddInterval(s)
    <3>1. UNCHANGED <<status, startedAt, endedAt>> /\ intervals'[t] \subseteq intervals[t] \cup {at}
      BY <1>1, <2>1 DEF AddInterval, IInv, TypeOK
    <3>2. req'[s].step = "idle"
      BY <2>1, AnswerCurrent DEF AddInterval
    <3>3. TripTimely(t)'
      BY <1>1, <1>2, <1>3, <3>1 DEF TripTimely, RowTimely
    <3>4. RequestsTimely'
      BY <1>1, <1>2, <3>1, <3>2, OneTimely
    <3>5. QED
      BY <3>3, <3>4
  <2>2. CASE SaveTrip(s)
    <3>1. endedAt' = [endedAt EXCEPT ![t] = Saved(endedAt[t], req[s].oldEnd, at)] /\ req[s].oldEnd = endedAt[t]
      BY <2>2 DEF SaveTrip, At, RInv, RequestCurrent
    <3>2. endedAt'[t] = at /\ status'[t] = "completed" /\ intervals' = intervals
      BY <1>1, <2>2, <3>1 DEF SaveTrip, Saved, IInv, TypeOK
    <3>3. req'[s].step = "clear" /\ req'[s].at = at
      BY <2>2 DEF SaveTrip, IInv, TypeOK, Request
    <3>4. TripTimely(t)'
      BY <1>1, <1>2, <1>3, <3>2 DEF TripTimely, RowTimely
    <3>5. RequestsTimely'
      BY <1>1, <1>2, <1>4, <3>2, <3>3, OneTimely
    <3>6. QED
      BY <3>4, <3>5
  <2>3. QED
    BY <2>1, <2>2
<1> HIDE DEF at
<1>7. QED
  BY <1>1, <1>4, <1>5, <1>6, OneRowChanges DEF Timely

LEMMA StepTime ==
  ASSUME OneSocket, Resends = FALSE, IInv, IInv', RInv, TimeInv, [Next]_vars
  PROVE  TimeInv'
<1>1. failures \in Nat /\ (Timely => TimeInv) /\ (failures = 0 => Timely) /\ (Timely' => TimeInv')
  BY NoneIsFresh DEF IInv, TypeOK, TimeInv, Timely
<1>2. CASE UNCHANGED vars
  BY <1>2 DEF vars, vehicleRow, tripRows, TimeInv, RequestsTimely, Held, At, TripsApart, Before, TripTimely
<1>3. ASSUME NEW s \in Sockets, Fail(s) PROVE TimeInv'
  BY <1>1, <1>3 DEF Fail, TimeInv
<1>4. ASSUME failures # 0, failures' = failures PROVE TimeInv'
  BY <1>4 DEF TimeInv
<1>5. ASSUME NEW s \in Sockets, NEW gear \in Gears, NEW at \in Stamps,
             NEW valid \in BOOLEAN, FindVehicle(s, gear, at, valid)
      PROVE  TimeInv'
  BY <1>1, <1>4, <1>5, FindVehicleTimely DEF FindVehicle
<1>6. ASSUME NEW s \in Sockets, Handle(s) PROVE failures' = failures
  BY <1>6 DEF Handle, RecordGear, AddInterval, StartTrip, ActivateTrip, create_empty_trip, LoadTrip,
              RecalculateMetrics, SaveTrip, ClearActiveTrip
<1>7. ASSUME NEW s \in Sockets, Handle(s), Timely PROVE Timely'
  <2>1. AddInterval(s) \/ SaveTrip(s) => req[s].trip \in Trips
    BY DEF AddInterval, SaveTrip, At, OnTrip, IInv, TypeOK, Request, RequestsHoldStartedTrips
  <2>2. QED
    BY <1>7, <2>1, InnerTimely, ActivateTimely, BeginTimely, ExtendTimely DEF Handle
<1>8. QED
  BY <1>1, <1>2, <1>3, <1>4, <1>5, <1>6, <1>7 DEF Next

LEMMA TimeHolds == ASSUME OneSocket, Resends = FALSE PROVE Spec => [](IInv /\ TimeInv)
<1>1. Init => TimeInv
  <2> SUFFICES ASSUME Init PROVE TimeInv
    OBVIOUS
  <2>1. /\ \A t \in Trips : status[t] = "absent"
        /\ \A s \in Sockets : req[s].step = "idle"
        /\ activeTrip = None
    BY AnswerMoves DEF Init
  <2>2. QED
    BY <2>1, NoneIsFresh DEF TimeInv, RequestsTimely, Held, At, TripsApart, TripTimely, RowTimely
<1>2. IInv /\ IInv' /\ RInv /\ TimeInv /\ [Next]_vars => TimeInv'
  BY StepTime
<1>3. QED
  BY <1>1, <1>2, Invariance, RInvHolds, PTL DEF Spec

\* Over one socket, with frames in order and no request dead, the intervals of a trip lie
\* between its start and its end.
THEOREM IntervalsInTrip == ASSUME OneSocket, Resends = FALSE PROVE Spec => []IntervalsWithinTrip
<1>1. IInv /\ TimeInv => IntervalsWithinTrip
  BY TimeGoals
<1>2. QED
  BY <1>1, TimeHolds, PTL

\* Over one socket, with frames in order and no request dead, no two trips overlap.
THEOREM TripsFollowEachOther == ASSUME OneSocket, Resends = FALSE PROVE Spec => []TripsDoNotOverlap
<1>1. IInv /\ TimeInv => TripsDoNotOverlap
  BY TimeGoals
<1>2. QED
  BY <1>1, TimeHolds, PTL
============================================================================
