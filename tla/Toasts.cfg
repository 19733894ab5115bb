CONSTANTS
  MaxToasts = 5
  Limit = 3
SPECIFICATION Spec
INVARIANTS FewActive
PROPERTIES EveryToastLeaves
CHECK_DEADLOCK FALSE
