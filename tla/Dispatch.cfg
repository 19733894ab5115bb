CONSTANTS
  c1 = c1
  c2 = c2
  Conns = {c1, c2}
  Types = {"V", "alerts", "connectivity"}
  Fields = {speed, gear}
  Configs <- MCConfigs
  MaxRecords <- MCMaxRecords
SPECIFICATION Spec
INVARIANTS AckMeansHeld EveryRecordAnswered OneAnswer IngestInOrder NoneLeftOut
CHECK_DEADLOCK FALSE
