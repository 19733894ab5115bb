CONSTANTS
  Requests = {r1, r2}
  MaxGrants = 4
SYMMETRY Symmetry
SPECIFICATION Spec
INVARIANTS StoredTokenUsable StatusTellsTheTruth
