---------------------------- MODULE DriveCycle ----------------------------
(***************************************************************************)
(* What the trip service promises about one vehicle: telemetry frames are  *)
(* handled one after the other, each as one indivisible step of the        *)
(* park / drive / park cycle.  A driving frame opens a trip or records an  *)
(* interval on the open one; a parked frame closes the open trip, or, only *)
(* when the vehicle has just come to park (or is heard of for the first    *)
(* time), records the parked location as an empty completed trip.          *)
(*                                                                         *)
(* Module TripService, where every database transaction is a step of its   *)
(* own, is checked and proved against this specification.                  *)
(***************************************************************************)
CONSTANTS
  Trips,         \* ids a trip row may get
  ParkedGears,   \* gear strings TripService#parked? accepts
  DrivingGears,  \* TripService::DRIVING_GEARS
  Stamps,        \* frame timestamps
  None           \* SQL NULL

VARIABLES
  lastGear,      \* vehicles.last_gear
  activeTrip,    \* vehicles.active_trip_id
  status,        \* trips.trip_status, "absent" for an id not yet used
  startedAt,     \* trips.started_at
  endedAt,       \* trips.ended_at
  intervals      \* trip -> recorded_at of its intervals

vars == <<lastGear, activeTrip, status, startedAt, endedAt, intervals>>

Init ==
  /\ lastGear = None
  /\ activeTrip = None
  /\ status = [t \in Trips |-> "absent"]
  /\ startedAt = [t \in Trips |-> None]
  /\ endedAt = [t \in Trips |-> None]
  /\ intervals = [t \in Trips |-> {}]

\* handle_driving without an active trip.
StartTrip(t, g, at) ==
  /\ activeTrip = None
  /\ status[t] = "absent"
  /\ lastGear' = g
  /\ activeTrip' = t
  /\ status' = [status EXCEPT ![t] = "in_progress"]
  /\ startedAt' = [startedAt EXCEPT ![t] = at]
  /\ UNCHANGED <<endedAt, intervals>>

\* handle_driving with an active trip: a second frame of the same second adds
\* nothing, and neither does one whose interval is not valid.
AddInterval(g, at) ==
  /\ activeTrip # None
  /\ lastGear' = g
  /\ intervals' \in {intervals,
                     [intervals EXCEPT ![activeTrip] = @ \cup {at}]}
  /\ UNCHANGED <<activeTrip, status, startedAt, endedAt>>

\* handle_parked with an active trip.
CompleteTrip(g, at) ==
  /\ activeTrip # None
  /\ lastGear' = g
  /\ activeTrip' = None
  /\ status' = [status EXCEPT ![activeTrip] = "completed"]
  /\ endedAt' = [endedAt EXCEPT ![activeTrip] = at]
  /\ UNCHANGED <<startedAt, intervals>>

\* handle_parked on the transition into park.
RecordParked(t, g, at) ==
  /\ activeTrip = None
  /\ lastGear \notin ParkedGears
  /\ status[t] = "absent"
  /\ lastGear' = g
  /\ status' = [status EXCEPT ![t] = "completed"]
  /\ startedAt' = [startedAt EXCEPT ![t] = at]
  /\ endedAt' = [endedAt EXCEPT ![t] = at]
  /\ UNCHANGED <<activeTrip, intervals>>

\* handle_parked while already parked.
StayParked(g) ==
  /\ activeTrip = None
  /\ lastGear \in ParkedGears
  /\ lastGear' = g
  /\ UNCHANGED <<activeTrip, status, startedAt, endedAt, intervals>>

Drive(g, at) == AddInterval(g, at) \/ \E t \in Trips : StartTrip(t, g, at)

Park(g, at) ==
  CompleteTrip(g, at) \/ StayParked(g) \/ \E t \in Trips : RecordParked(t, g, at)

Next == \E at \in Stamps : \/ \E g \in DrivingGears : Drive(g, at)
                           \/ \E g \in ParkedGears : Park(g, at)

Spec == Init /\ [][Next]_vars
===========================================================================
