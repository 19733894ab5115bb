---------------------------- MODULE MCStreaming ----------------------------
EXTENDS Streaming, TLC

CONSTANTS c1, c2   \* connections; their names serve as socket ids too

OwnTxids == c1 :> c1 @@ c2 :> c2      \* a new uuid each
ReusedTxid == c1 :> c1 @@ c2 :> c1    \* X-TXID of a request that is repeated

One == c1 :> 1 @@ c2 :> 1
Two == c1 :> 2 @@ c2 :> 2
TwoAndOne == c1 :> 2 @@ c2 :> 1

Plain == [c \in Conns |-> {"plain"}]
Acknowledged == [c \in Conns |-> {"unknown", "waiting", "reported"}]
Mixed == c1 :> {"unknown", "waiting"} @@ c2 :> {"refused", "plain", "waiting", "reported"}

Symmetry == Permutations(Conns)       \* with OwnTxids only
=============================================================================
