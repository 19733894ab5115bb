----------------------------- MODULE Streaming -----------------------------
(***************************************************************************)
(* The telemetry server's sockets.  Each connection has a handler          *)
(* goroutine, which registers the socket, reads messages and dispatches    *)
(* them, and a writer goroutine, which drains the socket's bounded channel *)
(* of answers.  A message is answered by the handler itself or, when its   *)
(* type has a reliable ack source, by the one handleAcks goroutine of the  *)
(* server once a producer reports that the record is stored.               *)
(***************************************************************************)
EXTENDS Naturals, FiniteSets, Sequences

CONSTANTS
  Conns,         \* connections the server accepts, each used once
  Txids,         \* socket ids
  Txid,          \* connection -> its id: a new uuid, or the request's X-TXID
  Kinds,         \* connection -> kinds of messages it sends
  MaxMessages,   \* bound: connection -> messages read from it
  Cap,           \* capacity of writeChan
  Connectivity,  \* is there a dispatch rule for connectivity events?
  None           \* a nil pointer

(***************************************************************************)
(* What becomes of a message: refused as too big or malformed; of unknown  *)
(* type; produced without reliable acks; produced with them by a producer  *)
(* that waits for the store (kinesis, pubsub, mqtt, zmq), or by one that   *)
(* gets delivery reports (kafka).                                          *)
(***************************************************************************)
AllKinds == {"refused", "unknown", "plain", "waiting", "reported"}
Accepted == {"plain", "waiting", "reported"}
Reliable == {"waiting", "reported"}

ASSUME StreamingAssumption ==
  /\ IsFiniteSet(Conns)
  /\ Txid \in [Conns -> Txids]
  /\ Kinds \in [Conns -> SUBSET AllKinds]
  /\ MaxMessages \in [Conns -> Nat] /\ Cap \in Nat \ {0}
  /\ Connectivity \in BOOLEAN
  /\ None \notin Conns

VARIABLES
  handler,     \* connection -> where its handler goroutine is
  identified,  \* connection -> did its certificate give a RequestIdentity?
  ws,          \* connection -> its websocket: open, lost by the peer, closed
  msg,         \* connection -> the message its handler works on
  reads,       \* connection -> messages read
  writer,      \* connection -> its writer goroutine: off, running, done
  queue,       \* connection -> contents of writeChan
  sent,        \* connection -> history: answers written to the websocket
  sockets,     \* SocketRegistry.sockets
  counter,     \* SocketRegistry.counter
  online,      \* connections announced CONNECTED and not DISCONNECTED
  inflight,    \* records kafka has not reported on
  delivery,    \* record handleProducerEvents offers to ackChan
  acker,       \* the handleAcks goroutine
  produced     \* history: records their stores have, of plain ones those
               \* that their producers took

connection == <<handler, identified, ws, msg, reads>>
outbound == <<writer, queue, sent>>
registry == <<sockets, counter>>
acks == <<inflight, delivery, acker>>
vars == <<connection, outbound, registry, online, acks, produced>>

Message == [conn : Conns, n : Nat \ {0}, kind : AllKinds]
Idle == [step |-> "idle", record |-> None, to |-> None]

At(c, pc) == handler[c] = pc
Goto(c, pc) == handler' = [handler EXCEPT ![c] = pc]

\* stopChan is closed.
Stopped(c) == handler[c] \in {"deregister", "leave", "gone"}

\* Handlers that count in the registry.
Registered(c) == handler[c] \notin {"new", "leave", "gone"}

Full(c) == Len(queue[c]) = Cap
-----------------------------------------------------------------------------
Init ==
  /\ handler = [c \in Conns |-> "new"]
  /\ identified = [c \in Conns |-> TRUE]
  /\ ws = [c \in Conns |-> "open"]
  /\ msg = [c \in Conns |-> None]
  /\ reads = [c \in Conns |-> 0]
  /\ writer = [c \in Conns |-> "off"]
  /\ queue = [c \in Conns |-> <<>>]
  /\ sent = [c \in Conns |-> <<>>]
  /\ sockets = [x \in Txids |-> None]
  /\ counter = 0
  /\ online = {}
  /\ inflight = {}
  /\ delivery = None
  /\ acker = Idle
  /\ produced = {}

\* ServeBinaryWs up to RegisterSocket: a socket without an identity goes on.
RegisterSocket(c, known) ==
  /\ At(c, "new")
  /\ identified' = [identified EXCEPT ![c] = known]
  /\ sockets' = [sockets EXCEPT ![Txid[c]] = c]
  /\ counter' = counter + 1
  /\ Goto(c, "announce")
  /\ UNCHANGED <<ws, msg, reads, outbound, online, acks, produced>>

(***************************************************************************)
(* dispatchConnectivityEvent(CONNECTED), then ProcessTelemetry up to its   *)
(* loop.  Without an identity the event panics before deregisterSocket is  *)
(* deferred, and net/http recovers: nothing undoes the registration.       *)
(***************************************************************************)
AnnounceConnected(c) ==
  /\ At(c, "announce")
  /\ IF Connectivity /\ ~identified[c]
     THEN Goto(c, "panicked") /\ UNCHANGED <<online, writer>>
     ELSE /\ online' = IF Connectivity THEN online \cup {c} ELSE online
          /\ writer' = [writer EXCEPT ![c] = "running"]
          /\ Goto(c, "read")
  /\ UNCHANGED <<identified, ws, msg, reads, queue, sent, registry, acks, produced>>

(***************************************************************************)
(* ReadMessage returns a message, perhaps one buffered before the peer was *)
(* lost, and NewRecord parses it.  Without an identity NewRecord fails and *)
(* respondToVehicle panics into the deferred Close.                        *)
(***************************************************************************)
AfterParse(c, kind) ==
  IF ~identified[c] THEN "close"
  ELSE IF kind = "unknown" THEN "acknowledge"
  ELSE IF kind = "refused" THEN "respond" ELSE "dispatch"

Read(c, kind) ==
  /\ At(c, "read")
  /\ reads[c] < MaxMessages[c]
  /\ reads' = [reads EXCEPT ![c] = @ + 1]
  /\ msg' = [msg EXCEPT ![c] = [conn |-> c, n |-> reads[c] + 1, kind |-> kind]]
  /\ Goto(c, AfterParse(c, kind))
  /\ UNCHANGED <<identified, ws, outbound, registry, online, acks, produced>>

\* Fault: a read error is retried unless the writer is gone too.
ReadFailsWithWriter(c) ==
  /\ At(c, "read")
  /\ ws[c] = "lost" /\ writer[c] = "done"
  /\ Goto(c, "close")
  /\ UNCHANGED <<identified, ws, msg, reads, outbound, registry, online, acks, produced>>

\* ReadMessage fails: the peer is gone, or the writer set the read deadline.
ReadFails(c) ==
  /\ At(c, "read")
  /\ ws[c] = "lost" \/ writer[c] = "done"
  /\ Goto(c, "close")
  /\ UNCHANGED <<identified, ws, msg, reads, outbound, registry, online, acks, produced>>

\* The client sends a message that is not binary.
ReadNotBinary(c) ==
  /\ At(c, "read")
  /\ ws[c] = "open"
  /\ Goto(c, "close")
  /\ UNCHANGED <<identified, ws, msg, reads, outbound, registry, online, acks, produced>>

\* Fault: the channel has no bound.
RespondUnbounded(c, record) == queue' = [queue EXCEPT ![c] = Append(@, record)]

\* The send on writeChan, which waits while the channel is full.
Respond(c, record) ==
  /\ ~Full(c)
  /\ queue' = [queue EXCEPT ![c] = Append(@, record)]

\* respondToVehicle after an unknown message type: the handler goes on.
Acknowledge(c) ==
  /\ At(c, "acknowledge")
  /\ Respond(c, msg[c])
  /\ Goto(c, "dispatch")
  /\ UNCHANGED <<identified, ws, msg, reads, writer, sent, registry, online, acks, produced>>

\* Fault: the reliable ack source is offered the record although the store
\* refused it.
DispatchUnchecked(c) ==
  /\ At(c, "dispatch")
  /\ produced' = IF msg[c].kind = "plain" THEN produced \cup {msg[c]} ELSE produced
  /\ Goto(c, IF msg[c].kind = "waiting" THEN "offer" ELSE "respond")
  /\ UNCHANGED <<identified, ws, msg, reads, outbound, registry, online, acks>>

\* Fault: an instant answer besides the reliable one.
DispatchTwice(c) ==
  /\ At(c, "dispatch")
  /\ produced' = produced \cup {msg[c]}
  /\ inflight' = IF msg[c].kind = "plain" THEN inflight ELSE inflight \cup {msg[c]}
  /\ Goto(c, "respond")
  /\ UNCHANGED <<identified, ws, msg, reads, outbound, registry, online, delivery, acker>>

(***************************************************************************)
(* processRecord and the test for reliable acks.  No rule knows the empty  *)
(* type of an unknown message.  A plain record is answered whatever its    *)
(* producer does with it: takes it or, after an error that is only logged, *)
(* drops it.  A producer that waits for its store offers the record to     *)
(* ackChan, or drops it on an error; kafka takes the record and reports    *)
(* later, or refuses it.  A producer that panics ends the connection.      *)
(***************************************************************************)
Dispatch(c) ==
  /\ At(c, "dispatch")
  /\ \/ /\ msg[c].kind = "unknown"
        /\ Goto(c, "respond")
        /\ UNCHANGED <<produced, inflight>>
     \/ /\ msg[c].kind = "plain"
        /\ produced' \in {produced, produced \cup {msg[c]}}
        /\ Goto(c, "respond")
        /\ UNCHANGED inflight
     \/ /\ msg[c].kind = "waiting"
        /\ produced' = produced \cup {msg[c]}
        /\ Goto(c, "offer")
        /\ UNCHANGED inflight
     \/ /\ msg[c].kind = "reported"
        /\ inflight' = inflight \cup {msg[c]}
        /\ Goto(c, "read")
        /\ UNCHANGED produced
     \/ /\ msg[c].kind \in Reliable
        /\ Goto(c, "read")
        /\ UNCHANGED <<produced, inflight>>
     \/ /\ msg[c].kind \in Accepted
        /\ Goto(c, "close")
        /\ UNCHANGED <<produced, inflight>>
  /\ UNCHANGED <<identified, ws, msg, reads, outbound, registry, online, delivery, acker>>

\* respondToVehicle at the end of ParseAndProcessRecord.
Answer(c) ==
  /\ At(c, "respond")
  /\ Respond(c, msg[c])
  /\ Goto(c, "read")
  /\ UNCHANGED <<identified, ws, msg, reads, writer, sent, registry, online, acks, produced>>

\* The deferred Close and close(stopChan) of ProcessTelemetry.
Close(c) ==
  /\ At(c, "close")
  /\ ws' = [ws EXCEPT ![c] = "closed"]
  /\ Goto(c, "stop")
  /\ UNCHANGED <<identified, msg, reads, outbound, registry, online, acks, produced>>

CloseStopChan(c) ==
  /\ At(c, "stop")
  /\ Goto(c, "deregister")
  /\ UNCHANGED <<identified, ws, msg, reads, outbound, registry, online, acks, produced>>

\* Fault: only the connectivity event is sent.
DeregisterSocketSkipped(c) ==
  /\ At(c, "deregister")
  /\ Goto(c, "leave")
  /\ UNCHANGED <<identified, ws, msg, reads, outbound, registry, online, acks, produced>>

DeregisterSocket(c) ==
  /\ At(c, "deregister")
  /\ sockets' = [sockets EXCEPT ![Txid[c]] = None]
  /\ counter' = IF counter > 0 THEN counter - 1 ELSE counter
  /\ Goto(c, "leave")
  /\ UNCHANGED <<identified, ws, msg, reads, outbound, online, acks, produced>>

\* dispatchConnectivityEvent(DISCONNECTED).
AnnounceDisconnected(c) ==
  /\ At(c, "leave")
  /\ online' = online \ {c}
  /\ Goto(c, "gone")
  /\ UNCHANGED <<identified, ws, msg, reads, outbound, registry, acks, produced>>

-----------------------------------------------------------------------------
(* The writer goroutine. *)

\* Fault: the writer takes the newest answer.
WriteMessageNewest(c) ==
  /\ writer[c] = "running" /\ queue[c] # <<>> /\ ws[c] # "closed"
  /\ sent' = [sent EXCEPT ![c] = Append(@, queue[c][Len(queue[c])])]
  /\ queue' = [queue EXCEPT ![c] = SubSeq(@, 1, Len(@) - 1)]
  /\ UNCHANGED <<connection, writer, registry, online, acks, produced>>

\* The write succeeds, perhaps into the buffers of a peer that is gone.
WriteMessage(c) ==
  /\ writer[c] = "running" /\ queue[c] # <<>> /\ ws[c] # "closed"
  /\ sent' = [sent EXCEPT ![c] = Append(@, Head(queue[c]))]
  /\ queue' = [queue EXCEPT ![c] = Tail(@)]
  /\ UNCHANGED <<connection, writer, registry, online, acks, produced>>

\* Fault: the answer that may have been lost is written again.
WriteFailsRetried(c) ==
  /\ writer[c] = "running" /\ queue[c] # <<>> /\ ws[c] # "open"
  /\ \/ sent' = [sent EXCEPT ![c] = Append(@, Head(queue[c]))]
     \/ UNCHANGED sent
  /\ UNCHANGED <<connection, writer, queue, registry, online, acks, produced>>

\* The write fails: the answer is lost and the writer returns.
WriteFails(c) ==
  /\ writer[c] = "running" /\ queue[c] # <<>> /\ ws[c] # "open"
  /\ queue' = [queue EXCEPT ![c] = Tail(@)]
  /\ writer' = [writer EXCEPT ![c] = "done"]
  /\ UNCHANGED <<connection, sent, registry, online, acks, produced>>

\* select takes stopChan, whatever writeChan still holds.
StopWriter(c) ==
  /\ writer[c] = "running" /\ Stopped(c)
  /\ writer' = [writer EXCEPT ![c] = "done"]
  /\ UNCHANGED <<connection, queue, sent, registry, online, acks, produced>>

\* The peer goes away (the environment).
LosePeer(c) ==
  /\ ws[c] = "open" /\ writer[c] # "off"
  /\ ws' = [ws EXCEPT ![c] = "lost"]
  /\ UNCHANGED <<handler, identified, msg, reads, outbound, registry, online, acks, produced>>

-----------------------------------------------------------------------------
(* Reliable acks: handleProducerEvents of kafka, and handleAcks. *)

Delivered(record) ==
  /\ delivery = None /\ record \in inflight
  /\ inflight' = inflight \ {record}
  /\ delivery' = record
  /\ produced' = produced \cup {record}
  /\ UNCHANGED <<connection, outbound, registry, online, acker>>

DeliveryFails(record) ==
  /\ delivery = None /\ record \in inflight
  /\ inflight' = inflight \ {record}
  /\ UNCHANGED <<connection, outbound, registry, online, delivery, acker, produced>>

\* ackChan has no buffer: a send and the receive by handleAcks are one step.
Receive(record) == acker' = [Idle EXCEPT !.step = "lookup", !.record = record]

AckFromHandler(c) ==
  /\ At(c, "offer") /\ acker = Idle
  /\ Receive(msg[c])
  /\ Goto(c, "read")
  /\ UNCHANGED <<identified, ws, msg, reads, outbound, registry, online, inflight,
                 delivery, produced>>

AckFromDelivery ==
  /\ delivery # None /\ acker = Idle
  /\ Receive(delivery)
  /\ delivery' = None
  /\ UNCHANGED <<connection, outbound, registry, online, inflight, produced>>

\* Fault: the ack goes to whichever socket is connected.
GetSocketAny ==
  /\ acker.step = "lookup"
  /\ LET up == {x \in Txids : sockets[x] # None}
     IN acker' = IF up = {} THEN Idle
                 ELSE [acker EXCEPT !.step = "send", !.to = sockets[CHOOSE x \in up : TRUE]]
  /\ UNCHANGED <<connection, outbound, registry, online, inflight, delivery, produced>>

GetSocket ==
  /\ acker.step = "lookup"
  /\ LET socket == sockets[Txid[acker.record.conn]]
     IN acker' = IF socket = None THEN Idle ELSE [acker EXCEPT !.step = "send", !.to = socket]
  /\ UNCHANGED <<connection, outbound, registry, online, inflight, delivery, produced>>

\* Fault: a full channel drops the ack.
SendAckOrDrop ==
  /\ acker.step = "send"
  /\ queue' = IF Full(acker.to) THEN queue
              ELSE [queue EXCEPT ![acker.to] = Append(@, acker.record)]
  /\ acker' = Idle
  /\ UNCHANGED <<connection, writer, sent, registry, online, inflight, delivery, produced>>

SendAck ==
  /\ acker.step = "send"
  /\ Respond(acker.to, acker.record)
  /\ acker' = Idle
  /\ UNCHANGED <<connection, writer, sent, registry, online, inflight, delivery, produced>>

-----------------------------------------------------------------------------
\* What a handler does without waiting for the vehicle.
Handler(c) ==
  \/ AnnounceConnected(c) \/ ReadFails(c)
  \/ Acknowledge(c) \/ Dispatch(c) \/ Answer(c)
  \/ Close(c) \/ CloseStopChan(c) \/ DeregisterSocket(c) \/ AnnounceDisconnected(c)

Writer(c) == WriteMessage(c) \/ WriteFails(c) \/ StopWriter(c)

Vehicle(c) ==
  \/ \E known \in BOOLEAN : RegisterSocket(c, known)
  \/ \E kind \in Kinds[c] : Read(c, kind)
  \/ ReadNotBinary(c)
  \/ LosePeer(c)

Report(record) == Delivered(record) \/ DeliveryFails(record)

Acker == (\E c \in Conns : AckFromHandler(c)) \/ AckFromDelivery \/ GetSocket \/ SendAck

Next ==
  \/ \E c \in Conns : Vehicle(c) \/ Handler(c) \/ Writer(c)
  \/ \E record \in inflight : Report(record)
  \/ Acker

Spec == Init /\ [][Next]_vars

(***************************************************************************)
(* Goroutines that can run do; stores, brokers and the ingest endpoint     *)
(* answer or fail.  Nothing obliges a vehicle to send or to leave.         *)
(***************************************************************************)
FairSpec ==
  /\ Spec
  /\ \A c \in Conns : WF_vars(Handler(c)) /\ WF_vars(Writer(c))
  /\ WF_vars(\E record \in inflight : Report(record))
  /\ WF_vars(Acker)
-----------------------------------------------------------------------------
HandlerSteps == {"new", "announce", "panicked", "read", "acknowledge", "dispatch", "offer",
                 "respond", "close", "stop", "deregister", "leave", "gone"}

\* Types of the goroutines, channels and the registry; writeChan is bounded.
TypeOK ==
  /\ handler \in [Conns -> HandlerSteps]
  /\ identified \in [Conns -> BOOLEAN]
  /\ ws \in [Conns -> {"open", "lost", "closed"}]
  /\ msg \in [Conns -> Message \cup {None}]
  /\ reads \in [Conns -> Nat]
  /\ writer \in [Conns -> {"off", "running", "done"}]
  /\ queue \in [Conns -> Seq(Message)]
  /\ \A c \in Conns : Len(queue[c]) <= Cap
  /\ sent \in [Conns -> Seq(Message)]
  /\ sockets \in [Txids -> Conns \cup {None}]
  /\ counter \in Nat
  /\ online \in SUBSET Conns
  /\ inflight \in SUBSET Message
  /\ delivery \in Message \cup {None}
  /\ acker \in [step : {"idle", "lookup", "send"}, record : Message \cup {None},
                to : Conns \cup {None}]
  /\ produced \in SUBSET Message

\* The answers of a connection, in the order they were queued.
Answers(c) == sent[c] \o queue[c]
Instant == {"plain", "refused", "unknown"}

\* An ack for a record whose type has a reliable ack source means that the store
\* of that source has it, whoever carried the ack.  Of a plain record the ack
\* says nothing: its producer may have failed.
AckMeansProduced ==
  \A c \in Conns : \A i \in DOMAIN Answers(c) :
    Answers(c)[i].kind \in Reliable => Answers(c)[i] \in produced

\* A vehicle gets the answers to its own messages only, although all reliable
\* acks go through one goroutine that looks the socket up by its id.
DistinctTxids == \A c, d \in Conns : Txid[c] = Txid[d] => c = d
AnswersReachTheSender ==
  DistinctTxids => \A c \in Conns : \A i \in DOMAIN Answers(c) : Answers(c)[i].conn = c

\* A message is answered at most once, whoever answers it; only a message of
\* unknown type is acknowledged twice.
AnsweredOnce ==
  \A c \in Conns : \A i, j \in DOMAIN Answers(c) :
    Answers(c)[i] = Answers(c)[j] => i = j \/ Answers(c)[i].kind = "unknown"

\* The answers the handler gives itself leave in the order of the messages,
\* however reliable acks are interleaved.
InstantAnswersInOrder ==
  \A c \in Conns : \A i, j \in DOMAIN Answers(c) :
    /\ i < j
    /\ Answers(c)[i].kind \in Instant /\ Answers(c)[j].kind \in Instant
    /\ Answers(c)[i].conn = c /\ Answers(c)[j].conn = c
    => Answers(c)[i].n <= Answers(c)[j].n

\* NumConnectedSockets counts the sockets whose handler has not deregistered,
\* those that panicked on the way included, even when ids are reused.
CounterCountsSockets == counter = Cardinality({c \in Conns : Registered(c)})

\* The registry holds exactly those sockets when ids are distinct.
RegistryHoldsSockets ==
  DistinctTxids => \A c \in Conns : (sockets[Txid[c]] = c) <=> Registered(c)

\* "GetSocket returns a socket if connected": the id of a socket whose handler
\* serves it leads to a socket.
ConnectedSocketFound ==
  \A c \in Conns : Registered(c) => sockets[Txid[c]] # None

\* A channel that is full and has lost its writer: who sends to it waits for
\* ever, its own handler or the handleAcks goroutine of all sockets.
Clogged == \E c \in Conns : writer[c] = "done" /\ Full(c)

\* A vehicle that is lost is announced as disconnected, unless some channel
\* is clogged.
DisconnectNoticed == \A c \in Conns : (ws[c] = "lost") ~> (c \notin online \/ Clogged)

\* A record that its producer has is answered, unless its connection ends first or
\* some channel is clogged.
ProducedIsAnswered ==
  \A c \in Conns : \A n \in 1..MaxMessages[c] :
    (\E r \in produced : r.conn = c /\ r.n = n)
      ~> \/ \E i \in DOMAIN sent[c] : sent[c][i].conn = c /\ sent[c][i].n = n
         \/ ws[c] # "open"
         \/ Clogged

-----------------------------------------------------------------------------
(***************************************************************************)
(* The promise to the vehicles.  A message is read, stored and answered    *)
(* when ReadMessage, the producer and WriteMessage are done with it; its   *)
(* connection has ended when Close is.                                     *)
(***************************************************************************)
Promise == INSTANCE Delivery
             WITH answers <- sent, closed <- {c \in Conns : ws[c] = "closed"}

\* Whatever handlers, writers, producers and acks interleave, also when the
\* ids of connections are reused, what a vehicle and the stores see is a
\* behaviour of Delivery: answers and records are never taken back, come in
\* the promised order and stop with the connection.
ImplementsDelivery == Promise!Spec
=============================================================================
