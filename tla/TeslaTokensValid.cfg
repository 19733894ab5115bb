CONSTANTS
  r1 = r1
  Requests = {r1}
  MaxGrants = 2
SPECIFICATION Spec
INVARIANTS HandedOutIsValid
