CONSTANTS
  c1 = c1
  c2 = c2
  Conns = {c1, c2}
  Txids = {c1, c2}
  Txid <- OwnTxids
  Kinds <- Mixed
  MaxMessages <- TwoAndOne
  Cap = 1
  Connectivity = TRUE
  None = None
SPECIFICATION FairSpec
INVARIANTS CounterCountsSockets RegistryHoldsSockets
PROPERTIES ImplementsDelivery DisconnectNoticed ProducedIsAnswered
CHECK_DEADLOCK FALSE
