\* A parked car streaming over two sockets: only parked frames, nothing dies.
CONSTANTS
  Sockets = {s1, s2}
  Trips = {t1, t2, t3}
  ParkedGears = {P}
  DrivingGears = {}
  MaxStamp = 1
  TopSpeed = 999999
  Speed <- Speeds
  Resends = FALSE
  MaxFailures = 0
  None = None
SPECIFICATION Spec
INVARIANTS
  OneParkedSnapshot
CHECK_DEADLOCK FALSE
