CONSTANTS
  c1 = c1
  c2 = c2
  Conns = {c1, c2}
  Txids = {c1, c2}
  Txid <- ReusedTxid
  Kinds <- Plain
  MaxMessages <- One
  Cap = 1
  Connectivity = TRUE
  None = None
SPECIFICATION Spec
INVARIANTS ConnectedSocketFound
CHECK_DEADLOCK FALSE
