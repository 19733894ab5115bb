CONSTANTS
  c1 = c1
  c2 = c2
  Conns = {c1, c2}
  Txids = {c1, c2}
  Txid <- OwnTxids
  Kinds <- Acknowledged
  MaxMessages <- Two
  Cap = 2
  Connectivity = FALSE
  None = None
SPECIFICATION Spec
SYMMETRY Symmetry
INVARIANTS TypeOK AckMeansProduced AnswersReachTheSender AnsweredOnce InstantAnswersInOrder
CHECK_DEADLOCK FALSE
