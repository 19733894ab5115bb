\* One socket, frames in order, one request may die.
CONSTANTS
  Sockets = {s1}
  Trips = {t1, t2, t3}
  ParkedGears = {P, invalid}
  DrivingGears = {D}
  MaxStamp = 3
  TopSpeed = 999999
  Speed <- Speeds
  Resends = FALSE
  MaxFailures = 1
  None = None
SPECIFICATION FairSpec
INVARIANTS
  OrphansComeFromFailures
  OneParkedSnapshot
  MetricsCurrent
  IntervalsWithinTrip
  TripsDoNotOverlap
PROPERTIES
  ParkEndsTrip
  ImplementsDriveCycle
CHECK_DEADLOCK FALSE
