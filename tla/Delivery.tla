------------------------------ MODULE Delivery ------------------------------
(***************************************************************************)
(* What the telemetry server promises its vehicles about their messages:   *)
(* each is stored at most once and answered at most once, to the socket id *)
(* it came under, and, if it is of a kind with reliable acks, not before   *)
(* its record is stored; of other kinds the answer says nothing of the     *)
(* store.  What waits for no producer is answered on the connection it     *)
(* came by, in the order in which it was read.  Records may be stored      *)
(* after their connection has ended, but nothing is read or answered any   *)
(* more.                                                                   *)
(*                                                                         *)
(* Module Streaming, where handlers, writers and the goroutines of the     *)
(* reliable acks take these steps bit by bit, is checked and proved        *)
(* against this specification.                                             *)
(***************************************************************************)
EXTENDS Naturals, Sequences

CONSTANTS
  Conns,     \* connections
  Txid,      \* connection -> the socket id that answers are addressed by
  AllKinds,  \* what may become of a message
  Accepted,  \* kinds that may be stored
  Reliable,  \* kinds that are answered only if they are
  Instant    \* kinds that are answered without waiting for a producer

VARIABLES
  reads,     \* connection -> messages read
  produced,  \* the records that are stored
  answers,   \* connection -> the messages answered on it, in order
  closed     \* connections that have ended

vars == <<reads, produced, answers, closed>>

Received == UNION {[conn : {c}, n : 1..reads[c], kind : AllKinds] : c \in Conns}
AnsweredOn(c) == {answers[c][i] : i \in DOMAIN answers[c]}
Answered == UNION {AnsweredOn(c) : c \in Conns}

\* What is stored or answered for a message agrees with what was before.
OneRecord(m) ==
  \A x \in produced \cup Answered : x.conn = m.conn /\ x.n = m.n => x = m

Init ==
  /\ reads = [c \in Conns |-> 0]
  /\ produced = {}
  /\ answers = [c \in Conns |-> <<>>]
  /\ closed = {}

Read(c) ==
  /\ c \notin closed
  /\ reads' = [reads EXCEPT ![c] = @ + 1]
  /\ UNCHANGED <<produced, answers, closed>>

Store(m) ==
  /\ m.kind \in Accepted
  /\ OneRecord(m)
  /\ produced' = produced \cup {m}
  /\ UNCHANGED <<reads, answers, closed>>

\* Messages of unknown type may be answered again.
Answer(c, m) ==
  /\ c \notin closed
  /\ Txid[m.conn] = Txid[c]
  /\ OneRecord(m)
  /\ m \in Answered => m.kind = "unknown"
  /\ m.kind \in Reliable => m \in produced
  /\ m.kind \in Instant =>
       m.conn = c /\ \A x \in AnsweredOn(c) : x.kind \in Instant => x.n <= m.n
  /\ answers' = [answers EXCEPT ![c] = Append(@, m)]
  /\ UNCHANGED <<reads, produced, closed>>

Close(c) ==
  /\ closed' = closed \cup {c}
  /\ UNCHANGED <<reads, produced, answers>>

Next ==
  \/ \E c \in Conns : Read(c) \/ Close(c)
  \/ \E m \in Received : Store(m) \/ \E c \in Conns : Answer(c, m)

Spec == Init /\ [][Next]_vars
=============================================================================
