\* Two sockets, frames in any order, one request may die.
CONSTANTS
  Sockets = {s1, s2}
  Trips = {t1, t2}
  ParkedGears = {P}
  DrivingGears = {D}
  MaxStamp = 2
  TopSpeed = 999999
  Speed <- Speeds
  Resends = TRUE
  MaxFailures = 1
  None = None
SPECIFICATION Spec
SYMMETRY Symmetry
INVARIANTS
  TypeOK
  ActiveTripWasStarted
  SnapshotsStayEmpty
  OpenTripMetricsCurrent
PROPERTIES
  TripsOnlyGrow
CHECK_DEADLOCK FALSE
