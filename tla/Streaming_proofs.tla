-------------------------- MODULE Streaming_proofs --------------------------
(***************************************************************************)
(* Proofs about Streaming, for any number of connections, messages and     *)
(* socket ids, and any capacity of the channels.                           *)
(***************************************************************************)
EXTENDS Streaming, FiniteSetTheorems, SequenceTheorems, TLAPS

-----------------------------------------------------------------------------
(***************************************************************************)
(* The inductive invariant.  An answer in a channel is sound (Sound) since *)
(* whoever is about to queue it holds a sound one: the handler (Working)   *)
(* or the goroutines that carry reliable acks (AcksPending).  The latter   *)
(* send it to the right socket since the registry files every socket under *)
(* its own id (RegistryPart).                                              *)
(***************************************************************************)
Sound(c, record) ==
  /\ record \in Message
  /\ record.kind \in Reliable => record \in produced
  /\ Txid[record.conn] = Txid[c]

Held(record) == record \in Message /\ record \in produced

Working ==
  \A c \in Conns :
    /\ handler[c] \in {"acknowledge", "dispatch", "offer", "respond"} =>
         msg[c] \in Message /\ msg[c].conn = c
    /\ At(c, "acknowledge") => msg[c].kind = "unknown"
    /\ At(c, "dispatch") => msg[c].kind # "refused"
    /\ At(c, "respond") => Sound(c, msg[c])
    /\ At(c, "offer") => Held(msg[c])

AcksPending ==
  /\ delivery # None => Held(delivery)
  /\ acker.step # "idle" => Held(acker.record)
  /\ acker.step = "send" => acker.to \in Conns /\ Sound(acker.to, acker.record)

QueuesSound ==
  \A c \in Conns : /\ \A i \in 1..Len(queue[c]) : Sound(c, queue[c][i])
                   /\ \A i \in 1..Len(sent[c]) : Sound(c, sent[c][i])

RegistrySound ==
  \A x \in Txids : sockets[x] # None => sockets[x] \in Conns /\ Txid[sockets[x]] = x

RegistryPart == RegistrySound /\ CounterCountsSockets /\ RegistryHoldsSockets

IInv == TypeOK /\ Working /\ AcksPending /\ QueuesSound /\ RegistryPart

LEMMA ConstantFacts ==
  /\ IsFiniteSet(Conns) /\ Txid \in [Conns -> Txids] /\ None \notin Conns
  /\ \A c \in Conns : Kinds[c] \subseteq AllKinds
  /\ Cap \in Nat \ {0}
BY StreamingAssumption

LEMMA InitInv == Init => IInv
<1> SUFFICES ASSUME Init PROVE IInv
  OBVIOUS
<1>1. TypeOK
  BY ConstantFacts DEF Init, TypeOK, HandlerSteps, Idle
<1>2. Working /\ AcksPending /\ QueuesSound
  BY DEF Init, Working, AcksPending, QueuesSound, Idle, At
<1>3. {c \in Conns : Registered(c)} = {}
  BY DEF Init, Registered
<1>4. RegistryPart
  BY <1>3, FS_EmptySet, ConstantFacts
     DEF Init, RegistryPart, RegistrySound, CounterCountsSockets, RegistryHoldsSockets,
         Registered
<1>5. QED
  BY <1>1, <1>2, <1>4 DEF IInv

-----------------------------------------------------------------------------
(* Lemmas about the parts. *)

\* A step that leaves the set of registered sockets and the registry alone.
LEMMA RegistryFrame ==
  ASSUME RegistryPart, UNCHANGED registry,
         \A c \in Conns : Registered(c)' <=> Registered(c)
  PROVE  RegistryPart'
<1>1. {c \in Conns : Registered(c)}' = {c \in Conns : Registered(c)}
  OBVIOUS
<1>2. CounterCountsSockets'
  BY <1>1 DEF RegistryPart, CounterCountsSockets, registry
<1>3. QED
  BY <1>2 DEF RegistryPart, RegistrySound, RegistryHoldsSockets, DistinctTxids, registry

\* A handler that moves between two steps at which it is registered.
LEMMA HandlerMoves ==
  ASSUME IInv, UNCHANGED registry, NEW c \in Conns, NEW pc \in HandlerSteps, Goto(c, pc),
         Registered(c), pc \notin {"new", "leave", "gone"}
  PROVE  RegistryPart' /\ handler' \in [Conns -> HandlerSteps]
BY RegistryFrame DEF IInv, TypeOK, Goto, Registered

\* Once produced, a record stays produced: what was sound stays sound.
LEMMA SoundStays ==
  ASSUME produced \subseteq produced', NEW c, NEW record, Sound(c, record)
  PROVE  Sound(c, record)'
BY DEF Sound, DistinctTxids

\* Nothing that was sent or queued changes.
LEMMA OutboundFrame ==
  ASSUME IInv, produced \subseteq produced', UNCHANGED <<queue, sent>>
  PROVE  QueuesSound'
BY SoundStays DEF IInv, QueuesSound

\* The goroutines of reliable acks do not move.
LEMMA AcksFrame ==
  ASSUME IInv, produced \subseteq produced', UNCHANGED <<delivery, acker>>
  PROVE  AcksPending'
BY SoundStays DEF IInv, AcksPending, Held

\* The handlers other than that of c do not move.
LEMMA OthersWork ==
  ASSUME IInv, produced \subseteq produced', NEW c \in Conns,
         \A d \in Conns \ {c} : handler'[d] = handler[d] /\ msg'[d] = msg[d]
  PROVE  \A d \in Conns \ {c} :
           /\ handler'[d] \in {"acknowledge", "dispatch", "offer", "respond"} =>
                msg'[d] \in Message /\ msg'[d].conn = d
           /\ At(d, "acknowledge")' => msg'[d].kind = "unknown"
           /\ At(d, "dispatch")' => msg'[d].kind # "refused"
           /\ At(d, "respond")' => Sound(d, msg[d])'
           /\ At(d, "offer")' => Held(msg[d])'
BY SoundStays DEF IInv, Working, At, Sound, Held, DistinctTxids

\* No handler moves.
LEMMA WorkingFrame ==
  ASSUME IInv, produced \subseteq produced', UNCHANGED <<handler, msg>>
  PROVE  Working'
BY SoundStays DEF IInv, Working, At, Sound, Held, DistinctTxids

\* A handler that moves to a step at which it works on no message.
Resting == {"new", "announce", "panicked", "read", "close", "stop", "deregister", "leave", "gone"}

LEMMA WorkingRests ==
  ASSUME IInv, produced \subseteq produced', NEW c \in Conns, NEW pc \in Resting,
         Goto(c, pc), \A d \in Conns \ {c} : msg'[d] = msg[d]
  PROVE  Working'
<1>1. handler'[c] = pc /\ \A d \in Conns \ {c} : handler'[d] = handler[d]
  BY DEF Goto, IInv, TypeOK
<1>2. QED
  BY <1>1, OthersWork DEF Working, At, Resting

\* A sound record is appended to a channel that is not full.
LEMMA RespondSound ==
  ASSUME IInv, NEW c \in Conns, NEW record, Sound(c, record), Respond(c, record),
         UNCHANGED <<sent, produced>>
  PROVE  /\ QueuesSound'
         /\ queue' \in [Conns -> Seq(Message)]
         /\ \A d \in Conns : Len(queue'[d]) <= Cap
<1>1. record \in Message /\ queue[c] \in Seq(Message)
  BY DEF Sound, IInv, TypeOK
<1>2. queue' = [queue EXCEPT ![c] = Append(queue[c], record)]
  BY DEF Respond
<1>3. queue' \in [Conns -> Seq(Message)]
  BY <1>1, <1>2 DEF IInv, TypeOK
<1>4. queue'[c] = Append(queue[c], record) /\ \A d \in Conns \ {c} : queue'[d] = queue[d]
  BY <1>2 DEF IInv, TypeOK
<1>5. Len(queue'[c]) = Len(queue[c]) + 1 /\ Len(queue[c]) \in Nat
  BY <1>1, <1>4
<1>6. \A d \in Conns : Len(queue'[d]) <= Cap
  BY <1>4, <1>5, ConstantFacts DEF Respond, Full, IInv, TypeOK
<1>7. \A i \in 1..Len(queue'[c]) : Sound(c, queue'[c][i])
  BY <1>1, <1>4, <1>5 DEF IInv, QueuesSound
<1>8. QueuesSound'
  BY <1>4, <1>7 DEF IInv, QueuesSound, Sound, DistinctTxids
<1>9. QED
  BY <1>3, <1>6, <1>8

-----------------------------------------------------------------------------
(* One lemma per action. *)

LEMMA RegisterSocketInv ==
  ASSUME IInv, NEW c \in Conns, NEW known \in BOOLEAN, RegisterSocket(c, known)
  PROVE  IInv'
<1>1. /\ handler' = [handler EXCEPT ![c] = "announce"] /\ handler[c] = "new"
      /\ sockets' = [sockets EXCEPT ![Txid[c]] = c]
      /\ counter' = counter + 1
      /\ Txid[c] \in Txids
  BY ConstantFacts DEF RegisterSocket, Goto, At
<1>2. TypeOK'
  BY <1>1 DEF RegisterSocket, IInv, TypeOK, HandlerSteps, outbound, acks
<1>3. Working' /\ AcksPending' /\ QueuesSound'
  BY WorkingRests, AcksFrame, OutboundFrame DEF RegisterSocket, Resting, outbound, acks
<1>4. \A d \in Conns : Registered(d)' <=> Registered(d) \/ d = c
  BY <1>1 DEF IInv, TypeOK, Registered
<1>5. CounterCountsSockets'
  <2> DEFINE R == {d \in Conns : Registered(d)}
  <2>1. {d \in Conns : Registered(d)}' = R \cup {c} /\ c \notin R
    BY <1>1, <1>4 DEF Registered
  <2>2. IsFiniteSet(R)
    BY ConstantFacts, FS_Subset
  <2>3. Cardinality(R \cup {c}) = Cardinality(R) + 1
    BY <2>1, <2>2, FS_AddElement
  <2>4. QED
    BY <1>1, <2>1, <2>3 DEF IInv, RegistryPart, CounterCountsSockets
<1>6. RegistrySound'
  BY <1>1 DEF IInv, TypeOK, RegistryPart, RegistrySound
<1>7. RegistryHoldsSockets'
  BY <1>1, <1>4, ConstantFacts
     DEF IInv, TypeOK, RegistryPart, RegistryHoldsSockets, DistinctTxids
<1>8. QED
  BY <1>2, <1>3, <1>5, <1>6, <1>7 DEF IInv, RegistryPart

LEMMA DeregisterSocketInv ==
  ASSUME IInv, NEW c \in Conns, DeregisterSocket(c)
  PROVE  IInv'
<1> DEFINE R == {d \in Conns : Registered(d)}
<1>1. /\ handler' = [handler EXCEPT ![c] = "leave"] /\ handler[c] = "deregister"
      /\ sockets' = [sockets EXCEPT ![Txid[c]] = None]
      /\ counter' = IF counter > 0 THEN counter - 1 ELSE counter
      /\ Txid[c] \in Txids
  BY ConstantFacts DEF DeregisterSocket, Goto, At
<1>2. TypeOK'
  BY <1>1 DEF DeregisterSocket, IInv, TypeOK, HandlerSteps, outbound, acks
<1>3. Working' /\ AcksPending' /\ QueuesSound'
  BY WorkingRests, AcksFrame, OutboundFrame DEF DeregisterSocket, Resting, outbound, acks
<1>4. \A d \in Conns : Registered(d)' <=> Registered(d) /\ d # c
  BY <1>1 DEF IInv, TypeOK, Registered
<1>5. CounterCountsSockets'
  <2>1. {d \in Conns : Registered(d)}' = R \ {c} /\ c \in R
    BY <1>1, <1>4 DEF Registered
  <2>2. IsFiniteSet(R)
    BY ConstantFacts, FS_Subset
  <2>3. Cardinality(R \ {c}) = Cardinality(R) - 1 /\ Cardinality(R) # 0
    BY <2>1, <2>2, FS_RemoveElement, FS_EmptySet
  <2>4. counter = Cardinality(R) /\ counter \in Nat
    BY DEF IInv, TypeOK, RegistryPart, CounterCountsSockets
  <2>5. Cardinality(R) > 0
    BY <2>3, <2>4
  <2>6. counter' = Cardinality(R) - 1
    BY <1>1, <2>4, <2>5
  <2>7. QED
    BY <2>1, <2>3, <2>6 DEF CounterCountsSockets
<1>6. RegistrySound'
  BY <1>1 DEF IInv, TypeOK, RegistryPart, RegistrySound
<1>7. RegistryHoldsSockets'
  BY <1>1, <1>4, ConstantFacts
     DEF IInv, TypeOK, RegistryPart, RegistryHoldsSockets, DistinctTxids
<1>8. QED
  BY <1>2, <1>3, <1>5, <1>6, <1>7 DEF IInv, RegistryPart

\* The event leaves the registry alone: a handler that panics stays counted.
LEMMA AnnounceConnectedInv ==
  ASSUME IInv, NEW c \in Conns, AnnounceConnected(c)
  PROVE  IInv'
<1>1. PICK pc \in {"panicked", "read"} : Goto(c, pc)
  BY DEF AnnounceConnected
<1>2. TypeOK'
  BY <1>1 DEF AnnounceConnected, Goto, IInv, TypeOK, HandlerSteps, registry, acks
<1>3. Working' /\ AcksPending' /\ QueuesSound'
  BY <1>1, WorkingRests, AcksFrame, OutboundFrame DEF AnnounceConnected, Resting, acks
<1>4. RegistryPart'
  BY <1>1, HandlerMoves DEF AnnounceConnected, At, Registered, HandlerSteps
<1>5. QED
  BY <1>2, <1>3, <1>4 DEF IInv

LEMMA ReadInv ==
  ASSUME IInv, NEW c \in Conns, NEW kind \in Kinds[c], Read(c, kind)
  PROVE  IInv'
<1>0. PICK m : m = [conn |-> c, n |-> reads[c] + 1, kind |-> kind]
  OBVIOUS
<1>1. m \in Message /\ m.conn = c /\ m.kind = kind
  BY <1>0, ConstantFacts DEF IInv, TypeOK, Message
<1>2. msg' = [msg EXCEPT ![c] = m] /\ Goto(c, AfterParse(c, kind))
  BY <1>0 DEF Read
<1>3. AfterParse(c, kind) \in HandlerSteps \ {"new", "leave", "gone"}
  BY DEF AfterParse, HandlerSteps
<1>4. TypeOK'
  BY <1>1, <1>2, <1>3 DEF Read, Goto, IInv, TypeOK, outbound, registry, acks
<1>5. msg'[c] = m /\ handler'[c] = AfterParse(c, kind)
      /\ \A d \in Conns \ {c} : handler'[d] = handler[d] /\ msg'[d] = msg[d]
  BY <1>2 DEF Goto, IInv, TypeOK
<1>6. Working'
  <2>1. handler'[c] = "acknowledge" => kind = "unknown"
    BY <1>5 DEF AfterParse
  <2>2. handler'[c] = "dispatch" => kind # "refused"
    BY <1>5 DEF AfterParse
  <2>3. handler'[c] = "respond" => kind = "refused"
    BY <1>5 DEF AfterParse
  <2>4. handler'[c] # "offer"
    BY <1>5 DEF AfterParse
  <2>5. kind = "refused" => Sound(c, m)'
    BY <1>1 DEF Sound, Reliable
  <2>6. produced \subseteq produced'
    BY DEF Read
  <2>7. QED
    BY <1>1, <1>5, <2>1, <2>2, <2>3, <2>4, <2>5, <2>6, OthersWork DEF Working, At, Sound
<1>7. AcksPending' /\ QueuesSound'
  BY AcksFrame, OutboundFrame DEF Read, outbound, acks
<1>8. RegistryPart'
  BY <1>2, <1>3, HandlerMoves DEF Read, At, Registered
<1>9. QED
  BY <1>4, <1>6, <1>7, <1>8 DEF IInv

(***************************************************************************)
(* Steps of a handler that works on no message before or after, and        *)
(* changes neither the channels nor the registry.                          *)
(***************************************************************************)
LEMMA QuietInv ==
  ASSUME IInv, NEW c \in Conns, NEW pc \in Resting \ {"new", "leave", "gone"}, Goto(c, pc),
         Registered(c), ws' \in [Conns -> {"open", "lost", "closed"}],
         UNCHANGED <<identified, msg, reads, outbound, registry, online, acks, produced>>
  PROVE  IInv'
<1>1. pc \in HandlerSteps
  BY DEF Resting, HandlerSteps
<1>2. RegistryPart' /\ handler' \in [Conns -> HandlerSteps]
  BY <1>1, HandlerMoves
<1>3. TypeOK'
  BY <1>2 DEF IInv, TypeOK, outbound, registry, acks
<1>4. Working' /\ AcksPending' /\ QueuesSound'
  BY WorkingRests, AcksFrame, OutboundFrame DEF outbound, acks
<1>5. QED
  BY <1>2, <1>3, <1>4 DEF IInv

LEMMA CloseInv ==
  ASSUME IInv, NEW c \in Conns,
         ReadFails(c) \/ ReadNotBinary(c) \/ Close(c) \/ CloseStopChan(c)
  PROVE  IInv'
<1>1. CASE ReadFails(c)
  BY <1>1, QuietInv DEF ReadFails, At, Registered, Resting, IInv, TypeOK
<1>2. CASE ReadNotBinary(c)
  BY <1>2, QuietInv DEF ReadNotBinary, At, Registered, Resting, IInv, TypeOK
<1>3. CASE Close(c)
  <2>1. ws' \in [Conns -> {"open", "lost", "closed"}]
    BY <1>3 DEF Close, IInv, TypeOK
  <2>2. QED
    BY <1>3, <2>1, QuietInv DEF Close, At, Registered, Resting
<1>4. CASE CloseStopChan(c)
  BY <1>4, QuietInv DEF CloseStopChan, At, Registered, Resting, IInv, TypeOK
<1>5. QED
  BY <1>1, <1>2, <1>3, <1>4

LEMMA AnnounceDisconnectedInv ==
  ASSUME IInv, NEW c \in Conns, AnnounceDisconnected(c)
  PROVE  IInv'
<1>1. handler' = [handler EXCEPT ![c] = "gone"] /\ handler[c] = "leave"
  BY DEF AnnounceDisconnected, Goto, At
<1>2. TypeOK'
  BY <1>1 DEF AnnounceDisconnected, IInv, TypeOK, HandlerSteps, outbound, registry, acks
<1>3. Working' /\ AcksPending' /\ QueuesSound'
  BY WorkingRests, AcksFrame, OutboundFrame DEF AnnounceDisconnected, Resting, outbound, acks
<1>4. RegistryPart'
  BY <1>1, RegistryFrame DEF AnnounceDisconnected, IInv, TypeOK, Registered
<1>5. QED
  BY <1>2, <1>3, <1>4 DEF IInv

\* A handler that has queued a sound answer and moves on.
LEMMA AnswerMovesOn ==
  ASSUME IInv, NEW c \in Conns, NEW pc \in {"dispatch", "read"}, Goto(c, pc), Registered(c),
         Sound(c, msg[c]), Respond(c, msg[c]),
         pc = "dispatch" => msg[c].conn = c /\ msg[c].kind # "refused",
         UNCHANGED <<identified, ws, msg, reads, writer, sent, registry, online, acks, produced>>
  PROVE  IInv'
<1>1. QueuesSound' /\ queue' \in [Conns -> Seq(Message)] /\ \A d \in Conns : Len(queue'[d]) <= Cap
  BY RespondSound
<1>2. pc \in HandlerSteps \ {"new", "leave", "gone"}
  BY DEF HandlerSteps
<1>3. RegistryPart' /\ handler' \in [Conns -> HandlerSteps]
  BY <1>2, HandlerMoves
<1>4. TypeOK'
  BY <1>1, <1>3 DEF IInv, TypeOK, registry, acks
<1>5. AcksPending'
  BY AcksFrame DEF acks
<1>6. Working'
  <2>1. handler'[c] = pc /\ \A d \in Conns \ {c} : handler'[d] = handler[d]
    BY DEF Goto, IInv, TypeOK
  <2>2. msg[c] \in Message
    BY DEF Sound
  <2>3. QED
    BY <2>1, <2>2, OthersWork DEF Working, At
<1>7. QED
  BY <1>1, <1>3, <1>4, <1>5, <1>6 DEF IInv

LEMMA AcknowledgeInv ==
  ASSUME IInv, NEW c \in Conns, Acknowledge(c)
  PROVE  IInv'
<1>1. msg[c] \in Message /\ msg[c].conn = c /\ msg[c].kind = "unknown"
  BY DEF Acknowledge, At, IInv, Working
<1>2. Sound(c, msg[c])
  BY <1>1 DEF Sound, Reliable
<1>3. QED
  BY <1>1, <1>2, AnswerMovesOn DEF Acknowledge, At, Registered

LEMMA AnswerInv ==
  ASSUME IInv, NEW c \in Conns, Answer(c)
  PROVE  IInv'
<1>1. Sound(c, msg[c])
  BY DEF Answer, IInv, Working
<1>2. QED
  BY <1>1, AnswerMovesOn DEF Answer, At, Registered

(***************************************************************************)
(* Dispatch puts the record with its producer before anyone may answer it: *)
(* the handler offers it only in the case that produced it, and answers it *)
(* only if its kind has no reliable acks.                                  *)
(***************************************************************************)
LEMMA DispatchInv ==
  ASSUME IInv, NEW c \in Conns, Dispatch(c)
  PROVE  IInv'
<1>1. PICK m : m = msg[c]
  OBVIOUS
<1>2. m \in Message /\ m.conn = c /\ m.kind # "refused"
  BY <1>1 DEF Dispatch, At, IInv, Working
<1>3. PICK pc \in {"respond", "offer", "read", "close"} : Goto(c, pc)
  BY DEF Dispatch
<1>4. produced \subseteq produced' /\ produced' \in SUBSET Message /\ inflight' \in SUBSET Message
  BY <1>1, <1>2 DEF Dispatch, IInv, TypeOK
<1>5. pc \in HandlerSteps \ {"new", "leave", "gone"}
  BY DEF HandlerSteps
<1>6. RegistryPart' /\ handler' \in [Conns -> HandlerSteps]
  BY <1>3, <1>5, HandlerMoves DEF Dispatch, At, Registered
<1>7. TypeOK'
  BY <1>4, <1>6 DEF Dispatch, IInv, TypeOK, outbound, registry
<1>8. AcksPending' /\ QueuesSound'
  BY <1>4, AcksFrame, OutboundFrame DEF Dispatch, outbound
<1>9. Working'
  <2>1. handler'[c] = pc /\ msg' = msg /\ \A d \in Conns \ {c} : handler'[d] = handler[d]
    BY <1>3 DEF Dispatch, Goto, IInv, TypeOK
  <2>2. /\ pc = "respond" => m.kind \in {"unknown", "plain"}
        /\ pc = "offer" => m \in produced'
    BY <1>1, <2>1 DEF Dispatch, Goto, IInv, TypeOK
  <2>3. pc = "respond" => Sound(c, m)'
    BY <1>2, <2>2 DEF Sound, Reliable
  <2>4. \A d \in Conns \ {c} : msg'[d] = msg[d]
    BY <2>1
  <2>5. CASE pc \in {"read", "close"}
    BY <1>3, <1>4, <2>4, <2>5, WorkingRests DEF Resting
  <2>6. CASE pc \notin {"read", "close"}
    BY <1>1, <1>2, <1>4, <2>1, <2>2, <2>3, <2>4, <2>6, OthersWork DEF Working, At, Sound, Held
  <2>7. QED
    BY <2>5, <2>6
<1>10. QED
  BY <1>6, <1>7, <1>8, <1>9 DEF IInv

\* Taking the head off a channel.
LEMMA TailSound ==
  ASSUME IInv, NEW c \in Conns, queue[c] # <<>>, queue' = [queue EXCEPT ![c] = Tail(queue[c])]
  PROVE  /\ queue' \in [Conns -> Seq(Message)]
         /\ \A d \in Conns : Len(queue'[d]) <= Cap
         /\ \A d \in Conns : \A i \in 1..Len(queue'[d]) : Sound(d, queue'[d][i])
         /\ Sound(c, Head(queue[c]))
<1>1. queue[c] \in Seq(Message) /\ Len(queue[c]) <= Cap
  BY DEF IInv, TypeOK
<1>2. queue'[c] = Tail(queue[c]) /\ \A d \in Conns \ {c} : queue'[d] = queue[d]
  BY DEF IInv, TypeOK
<1>3. /\ Tail(queue[c]) \in Seq(Message)
      /\ Len(Tail(queue[c])) = Len(queue[c]) - 1
      /\ \A i \in 1..Len(Tail(queue[c])) : Tail(queue[c])[i] = queue[c][i + 1]
      /\ Head(queue[c]) = queue[c][1] /\ Len(queue[c]) >= 1
  BY <1>1
<1>4. \A i \in 1..Len(queue[c]) : Sound(c, queue[c][i])
  BY DEF IInv, QueuesSound
<1>5. \A i \in 1..Len(queue'[c]) : Sound(c, queue'[c][i])
  BY <1>1, <1>2, <1>3, <1>4
<1>6. \A d \in Conns : Len(queue'[d]) <= Cap
  BY <1>1, <1>2, <1>3, ConstantFacts DEF IInv, TypeOK
<1>7. queue' \in [Conns -> Seq(Message)]
  BY <1>3 DEF IInv, TypeOK
<1>8. \A d \in Conns \ {c} : \A i \in 1..Len(queue'[d]) : Sound(d, queue'[d][i])
  BY <1>2 DEF IInv, QueuesSound
<1>9. QED
  BY <1>1, <1>3, <1>4, <1>5, <1>6, <1>7, <1>8

LEMMA WriterInv ==
  ASSUME IInv, NEW c \in Conns, Writer(c)
  PROVE  IInv'
<1>1. UNCHANGED <<connection, registry, online, acks, produced>>
  BY DEF Writer, WriteMessage, WriteFails, StopWriter
<1>2. Working' /\ AcksPending' /\ RegistryPart'
  <2>1. Working'
    BY <1>1, WorkingFrame DEF connection
  <2>2. AcksPending'
    BY <1>1, AcksFrame DEF acks
  <2>3. RegistryPart'
    BY <1>1, RegistryFrame DEF connection, Registered, IInv
  <2>4. QED
    BY <2>1, <2>2, <2>3
<1>3. CASE WriteMessage(c)
  <2>1. PICK r : r = Head(queue[c])
    OBVIOUS
  <2>2. /\ queue' \in [Conns -> Seq(Message)]
        /\ \A d \in Conns : Len(queue'[d]) <= Cap
        /\ \A d \in Conns : \A i \in 1..Len(queue'[d]) : Sound(d, queue'[d][i])
        /\ Sound(c, r)
    BY <1>3, <2>1, TailSound DEF WriteMessage
  <2>3. sent' = [sent EXCEPT ![c] = Append(sent[c], r)] /\ sent[c] \in Seq(Message) /\ r \in Message
    BY <1>3, <2>1, <2>2 DEF WriteMessage, IInv, TypeOK, Sound
  <2>4. \A d \in Conns : \A i \in 1..Len(sent'[d]) : Sound(d, sent'[d][i])
    BY <2>2, <2>3 DEF IInv, TypeOK, QueuesSound
  <2>5. TypeOK'
    BY <1>1, <1>3, <2>2, <2>3
       DEF WriteMessage, IInv, TypeOK, connection, registry, acks
  <2>6. QueuesSound'
    BY <1>1, <2>2, <2>4 DEF QueuesSound, Sound, DistinctTxids
  <2>7. QED
    BY <1>2, <2>5, <2>6 DEF IInv
<1>4. CASE WriteFails(c)
  <2>1. /\ queue' \in [Conns -> Seq(Message)]
        /\ \A d \in Conns : Len(queue'[d]) <= Cap
        /\ \A d \in Conns : \A i \in 1..Len(queue'[d]) : Sound(d, queue'[d][i])
    BY <1>4, TailSound DEF WriteFails
  <2>2. TypeOK'
    BY <1>1, <1>4, <2>1 DEF WriteFails, IInv, TypeOK, connection, registry, acks
  <2>3. QueuesSound'
    BY <1>1, <1>4, <2>1 DEF WriteFails, IInv, QueuesSound, Sound, DistinctTxids
  <2>4. QED
    BY <1>2, <2>2, <2>3 DEF IInv
<1>5. CASE StopWriter(c)
  <2>1. TypeOK'
    BY <1>1, <1>5 DEF StopWriter, IInv, TypeOK, connection, registry, acks
  <2>2. QueuesSound'
    BY <1>1, <1>5, OutboundFrame DEF StopWriter
  <2>3. QED
    BY <1>2, <2>1, <2>2 DEF IInv
<1>6. QED
  BY <1>3, <1>4, <1>5 DEF Writer

LEMMA LosePeerInv ==
  ASSUME IInv, NEW c \in Conns, LosePeer(c)
  PROVE  IInv'
<1>1. TypeOK'
  BY DEF LosePeer, IInv, TypeOK, outbound, registry, acks
<1>2. Working' /\ AcksPending' /\ QueuesSound'
  BY WorkingFrame, AcksFrame, OutboundFrame DEF LosePeer, outbound, acks
<1>3. RegistryPart'
  BY RegistryFrame DEF LosePeer, Registered, IInv
<1>4. QED
  BY <1>1, <1>2, <1>3 DEF IInv

LEMMA ReportInv ==
  ASSUME IInv, NEW record \in inflight, Report(record)
  PROVE  IInv'
<1>1. record \in Message /\ UNCHANGED <<connection, outbound, registry, online, acker>>
  BY DEF Report, Delivered, DeliveryFails, IInv, TypeOK
<1>2. produced \subseteq produced' /\ (delivery' = delivery \/ (delivery' = record /\ record \in produced'))
  BY DEF Report, Delivered, DeliveryFails
<1>3. TypeOK'
  BY <1>1 DEF Report, Delivered, DeliveryFails, IInv, TypeOK, connection, outbound, registry
<1>4. Working' /\ QueuesSound'
  BY <1>1, <1>2, WorkingFrame, OutboundFrame DEF connection, outbound
<1>5. AcksPending'
  BY <1>1, <1>2, SoundStays DEF IInv, AcksPending, Held
<1>6. RegistryPart'
  BY <1>1, RegistryFrame DEF connection, Registered, IInv
<1>7. QED
  BY <1>3, <1>4, <1>5, <1>6 DEF IInv

LEMMA AckFromHandlerInv ==
  ASSUME IInv, NEW c \in Conns, AckFromHandler(c)
  PROVE  IInv'
<1>1. PICK m : m = msg[c]
  OBVIOUS
<1>2. Held(m)
  BY <1>1 DEF AckFromHandler, IInv, Working
<1>3. acker' = [step |-> "lookup", record |-> m, to |-> None]
  BY <1>1 DEF AckFromHandler, Receive, Idle
<1>4. Goto(c, "read") /\ Registered(c) /\ UNCHANGED <<registry, outbound, delivery, produced, msg>>
  BY DEF AckFromHandler, At, Registered
<1>5. RegistryPart' /\ handler' \in [Conns -> HandlerSteps]
  BY <1>4, HandlerMoves DEF HandlerSteps
<1>6. TypeOK'
  BY <1>2, <1>3, <1>5 DEF AckFromHandler, Held, IInv, TypeOK, outbound, registry
<1>7. Working' /\ QueuesSound'
  BY <1>4, WorkingRests, OutboundFrame DEF Resting, outbound
<1>8. AcksPending'
  BY <1>2, <1>3, <1>4 DEF IInv, AcksPending, Held
<1>9. QED
  BY <1>5, <1>6, <1>7, <1>8 DEF IInv

\* The steps of handleAcks other than the receive from a handler.
LEMMA AckerInv ==
  ASSUME IInv, AckFromDelivery \/ GetSocket \/ SendAck
  PROVE  IInv'
<1>1. UNCHANGED <<connection, writer, sent, registry, online, inflight, produced>>
  BY DEF AckFromDelivery, GetSocket, SendAck, outbound
<1>2. Working'
  BY <1>1, WorkingFrame DEF connection
<1>3. RegistryPart'
  BY <1>1, RegistryFrame DEF connection, Registered, IInv
<1>4. CASE AckFromDelivery
  <2>1. PICK m : m = delivery
    OBVIOUS
  <2>2. Held(m)
    BY <1>4, <2>1 DEF AckFromDelivery, IInv, AcksPending
  <2>3. acker' = [step |-> "lookup", record |-> m, to |-> None] /\ delivery' = None
        /\ queue' = queue
    BY <1>4, <2>1 DEF AckFromDelivery, Receive, Idle, outbound
  <2>4. TypeOK'
    BY <1>1, <2>2, <2>3 DEF Held, IInv, TypeOK, connection, registry
  <2>5. QueuesSound'
    BY <1>1, <2>3, OutboundFrame
  <2>6. AcksPending'
    BY <1>1, <2>2, <2>3 DEF AcksPending, Held
  <2>7. QED
    BY <1>2, <1>3, <2>4, <2>5, <2>6 DEF IInv
<1>5. CASE GetSocket
  <2>1. PICK m, socket : m = acker.record /\ socket = sockets[Txid[m.conn]]
    OBVIOUS
  <2>2. Held(m) /\ m.conn \in Conns
    BY <1>5, <2>1 DEF GetSocket, IInv, AcksPending, Held, Message
  <2>3. acker' = Idle \/ (acker' = [step |-> "send", record |-> m, to |-> socket] /\ socket # None)
    BY <1>5, <2>1 DEF GetSocket, IInv, TypeOK
  <2>4. socket # None => socket \in Conns /\ Txid[socket] = Txid[m.conn]
    BY <2>1, <2>2, ConstantFacts DEF IInv, RegistryPart, RegistrySound
  <2>5. socket # None => Sound(socket, m)
    BY <2>2, <2>4 DEF Sound, Held, DistinctTxids
  <2>6. UNCHANGED <<queue, delivery>>
    BY <1>5 DEF GetSocket, outbound
  <2>7. TypeOK'
    BY <1>1, <2>2, <2>3, <2>4, <2>6 DEF Held, Idle, IInv, TypeOK, connection, registry
  <2>8. QueuesSound'
    BY <1>1, <2>6, OutboundFrame
  <2>9. AcksPending'
    <3>1. CASE acker' = Idle
      BY <1>1, <2>6, <3>1 DEF IInv, AcksPending, Held, Idle
    <3>2. CASE acker' = [step |-> "send", record |-> m, to |-> socket] /\ socket # None
      BY <1>1, <2>2, <2>4, <2>5, <2>6, <3>2 DEF IInv, AcksPending, Held, Sound, DistinctTxids
    <3>3. QED
      BY <2>3, <3>1, <3>2
  <2>10. QED
    BY <1>2, <1>3, <2>7, <2>8, <2>9 DEF IInv
<1>6. CASE SendAck
  <2>1. PICK m, socket : m = acker.record /\ socket = acker.to
    OBVIOUS
  <2>2. socket \in Conns /\ Sound(socket, m) /\ Respond(socket, m) /\ acker' = Idle
        /\ delivery' = delivery
    BY <1>6, <2>1 DEF SendAck, IInv, AcksPending
  <2>3. /\ QueuesSound'
        /\ queue' \in [Conns -> Seq(Message)]
        /\ \A d \in Conns : Len(queue'[d]) <= Cap
    BY <1>1, <2>2, RespondSound
  <2>4. TypeOK'
    BY <1>1, <2>2, <2>3 DEF Idle, IInv, TypeOK, connection, registry
  <2>5. AcksPending'
    BY <1>1, <2>2 DEF IInv, AcksPending, Held, Idle
  <2>6. QED
    BY <1>2, <1>3, <2>3, <2>4, <2>5 DEF IInv
<1>7. QED
  BY <1>4, <1>5, <1>6

LEMMA StutterInv == IInv /\ UNCHANGED vars => IInv'
<1> SUFFICES ASSUME IInv, UNCHANGED vars PROVE IInv'
  OBVIOUS
<1>1. TypeOK'
  BY DEF vars, connection, outbound, registry, acks, IInv, TypeOK
<1>2. Working' /\ AcksPending' /\ QueuesSound'
  BY WorkingFrame, AcksFrame, OutboundFrame DEF vars, connection, outbound, acks
<1>3. RegistryPart'
  BY RegistryFrame DEF vars, connection, Registered, IInv
<1>4. QED
  BY <1>1, <1>2, <1>3 DEF IInv

LEMMA NextInv == IInv /\ Next => IInv'
<1> SUFFICES ASSUME IInv, Next PROVE IInv'
  OBVIOUS
<1>1. CASE \E c \in Conns : Vehicle(c)
  BY <1>1, RegisterSocketInv, ReadInv, CloseInv, LosePeerInv DEF Vehicle
<1>2. CASE \E c \in Conns : Handler(c)
  BY <1>2, AnnounceConnectedInv, CloseInv, AcknowledgeInv, DispatchInv, AnswerInv,
     DeregisterSocketInv, AnnounceDisconnectedInv DEF Handler
<1>3. CASE \E c \in Conns : Writer(c)
  BY <1>3, WriterInv
<1>4. CASE \E record \in inflight : Report(record)
  BY <1>4, ReportInv
<1>5. CASE Acker
  BY <1>5, AckFromHandlerInv, AckerInv DEF Acker
<1>6. QED
  BY <1>1, <1>2, <1>3, <1>4, <1>5 DEF Next

-----------------------------------------------------------------------------
\* The inductive invariant holds in every state.
THEOREM Invariance == Spec => []IInv
<1>1. IInv /\ [Next]_vars => IInv'
  BY NextInv, StutterInv
<1>2. QED
  BY InitInv, <1>1, PTL DEF Spec

\* The types of the goroutines and channels; writeChan never holds more than
\* its capacity, whichever goroutines send to it.
THEOREM TypeCorrect == Spec => []TypeOK
<1>1. IInv => TypeOK
  BY DEF IInv
<1>2. QED
  BY Invariance, <1>1, PTL

LEMMA SecondPart ==
  ASSUME NEW a \in Nat, NEW b \in Nat, NEW i \in 1..(a + b), i > a
  PROVE  i - a \in 1..b
OBVIOUS

\* What the answers of a connection are: sound ones, sent or still queued.
LEMMA AnswersAreSound ==
  ASSUME IInv, NEW c \in Conns, NEW i \in DOMAIN Answers(c)
  PROVE  Sound(c, Answers(c)[i])
<1>1. sent[c] \in Seq(Message) /\ queue[c] \in Seq(Message)
  BY DEF IInv, TypeOK
<1>2. i \in 1..(Len(sent[c]) + Len(queue[c])) /\ Len(sent[c]) \in Nat /\ Len(queue[c]) \in Nat
  <2>1. /\ Answers(c) \in Seq(Message)
        /\ Len(Answers(c)) = Len(sent[c]) + Len(queue[c])
    BY <1>1, ConcatProperties DEF Answers
  <2>2. DOMAIN Answers(c) = 1..Len(Answers(c))
    BY <2>1, LenProperties
  <2>3. Len(sent[c]) \in Nat /\ Len(queue[c]) \in Nat
    BY <1>1, LenProperties
  <2>4. QED
    BY <2>1, <2>2, <2>3
<1>3. Answers(c)[i] = IF i <= Len(sent[c]) THEN sent[c][i] ELSE queue[c][i - Len(sent[c])]
  BY <1>1, <1>2 DEF Answers
<1>4. CASE i <= Len(sent[c])
  BY <1>1, <1>2, <1>3, <1>4 DEF IInv, QueuesSound
<1>5. CASE i > Len(sent[c])
  <2>1. i - Len(sent[c]) \in 1..Len(queue[c])
    BY <1>2, <1>5, SecondPart
  <2>2. Answers(c)[i] = queue[c][i - Len(sent[c])]
    BY <1>1, <1>2, <1>3, <1>5
  <2>3. QED
    BY <2>1, <2>2 DEF IInv, QueuesSound
<1>6. QED
  BY <1>1, <1>2, <1>4, <1>5

\* Whatever a vehicle is told, an ack of a record of a configured type means
\* that the record is with its producer.
THEOREM AcksAreTrue == Spec => []AckMeansProduced
<1>1. IInv => AckMeansProduced
  BY AnswersAreSound DEF AckMeansProduced, Sound
<1>2. QED
  BY Invariance, <1>1, PTL

\* With distinct ids no answer goes to another vehicle's socket.
THEOREM AnswersAddressed == Spec => []AnswersReachTheSender
<1>1. IInv => AnswersReachTheSender
  BY AnswersAreSound DEF AnswersReachTheSender, Sound, Message, DistinctTxids
<1>2. QED
  BY Invariance, <1>1, PTL

\* The counter is exact for every assignment of ids to sockets, also one in
\* which sockets overwrite each other in the registry's map.
THEOREM CounterExact == Spec => []CounterCountsSockets
<1>1. IInv => CounterCountsSockets
  BY DEF IInv, RegistryPart
<1>2. QED
  BY Invariance, <1>1, PTL

\* With distinct ids the map holds the registered sockets and no others.
THEOREM RegistryExact == Spec => []RegistryHoldsSockets
<1>1. IInv => RegistryHoldsSockets
  BY DEF IInv, RegistryPart
<1>2. QED
  BY Invariance, <1>1, PTL

-----------------------------------------------------------------------------
(***************************************************************************)
(* Each message is answered once, and instant answers keep their order.    *)
(* A record is with its handler, with the goroutines of reliable acks      *)
(* (Carried), or answered (Queued), in at most one of these at a time: the *)
(* handler's is the last message read, newer than all the others.          *)
(***************************************************************************)
OnceIn(s) ==
  \A i, j \in DOMAIN s : s[i] = s[j] => i = j \/ s[i].kind = "unknown"

OrderedFor(c, s) ==
  \A i, j \in DOMAIN s :
    /\ i < j
    /\ s[i].kind \in Instant /\ s[j].kind \in Instant
    /\ s[i].conn = c /\ s[j].conn = c
    => s[i].n <= s[j].n

Records(s) == {s[i] : i \in DOMAIN s}
Queued == UNION {Records(Answers(c)) : c \in Conns}

InDelivery == IF delivery = None THEN {} ELSE {delivery}
InAcker == IF acker.step = "idle" THEN {} ELSE {acker.record}
Carried == inflight \cup InDelivery \cup InAcker

Busy(c) == handler[c] \in {"acknowledge", "dispatch", "offer", "respond"}

Past(record) ==
  /\ record.n <= reads[record.conn]
  /\ Busy(record.conn) /\ record.kind # "unknown" => record.n < reads[record.conn]

Current ==
  \A c \in Conns : /\ Busy(c) => msg[c].n = reads[c]
                   /\ At(c, "offer") => msg[c].kind = "waiting"

AllPast == \A record \in Queued \cup Carried : Past(record)

CarriedOnce ==
  /\ \A record \in Carried : record.kind \in {"waiting", "reported"} /\ record \notin Queued
  /\ InDelivery \cap inflight = {} /\ InAcker \cap inflight = {} /\ InDelivery \cap InAcker = {}

\* A handler answers on its own connection, and what a connection answers is
\* answered on no other.
InPlace(c, s) == \A x \in Records(s) : x.kind \in Instant => x.conn = c
Apart(s, t) == \A x \in Records(s) \cap Records(t) : x.kind = "unknown"

AnswersOrderly ==
  /\ \A c \in Conns : OnceIn(Answers(c)) /\ OrderedFor(c, Answers(c)) /\ InPlace(c, Answers(c))
  /\ \A c, d \in Conns : c # d => Apart(Answers(c), Answers(d))

OnceInv == Current /\ AllPast /\ CarriedOnce /\ AnswersOrderly

\* Adding an answer that is new, or of unknown type, and no older than what
\* its handler has answered.
LEMMA AppendOrderly ==
  ASSUME NEW s \in Seq(Message), NEW r \in Message, NEW c,
         OnceIn(s), OrderedFor(c, s),
         r \in Records(s) => r.kind = "unknown",
         r.kind \in Instant /\ r.conn = c => \A x \in Records(s) : x.conn = c => x.n <= r.n
  PROVE  /\ OnceIn(Append(s, r)) /\ OrderedFor(c, Append(s, r))
         /\ Records(Append(s, r)) = Records(s) \cup {r}
<1> DEFINE t == Append(s, r)
<1>1. /\ t \in Seq(Message) /\ Len(t) = Len(s) + 1 /\ Len(s) \in Nat
      /\ \A i \in 1..Len(s) : t[i] = s[i]
      /\ t[Len(s) + 1] = r
  BY AppendProperties, LenProperties
<1>2. DOMAIN t = 1..(Len(s) + 1) /\ DOMAIN s = 1..Len(s)
  BY <1>1, LenProperties
<1> HIDE DEF t
<1>3. \A i \in DOMAIN t : (i \in DOMAIN s /\ t[i] = s[i]) \/ (i = Len(s) + 1 /\ t[i] = r)
  BY <1>1, <1>2
<1>4. OnceIn(t)
  BY <1>3 DEF OnceIn, Records
<1>5. OrderedFor(c, t)
  <2> SUFFICES ASSUME NEW i \in DOMAIN t, NEW j \in DOMAIN t, i < j,
                      t[i].kind \in Instant, t[j].kind \in Instant, t[i].conn = c, t[j].conn = c
               PROVE  t[i].n <= t[j].n
    BY DEF OrderedFor
  <2>1. i \in DOMAIN s /\ t[i] = s[i]
    BY <1>1, <1>2, <1>3
  <2>2. CASE j \in DOMAIN s /\ t[j] = s[j]
    BY <2>1, <2>2 DEF OrderedFor
  <2>3. CASE j = Len(s) + 1 /\ t[j] = r
    BY <2>1, <2>3 DEF Records
  <2>4. QED
    BY <1>3, <2>2, <2>3
<1>6. Records(t) = Records(s) \cup {r}
  <2>1. \A i \in DOMAIN s : i \in DOMAIN t /\ t[i] = s[i]
    BY <1>1, <1>2
  <2>2. Len(s) + 1 \in DOMAIN t /\ t[Len(s) + 1] = r
    BY <1>1, <1>2
  <2>3. QED
    BY <1>3, <2>1, <2>2 DEF Records
<1>7. QED
  BY <1>4, <1>5, <1>6 DEF t

\* Losing one of them.
LEMMA DropOrderly ==
  ASSUME NEW s \in Seq(Message), NEW q \in Seq(Message), q # <<>>, NEW c,
         OnceIn(s \o q), OrderedFor(c, s \o q)
  PROVE  /\ OnceIn(s \o Tail(q)) /\ OrderedFor(c, s \o Tail(q))
         /\ Records(s \o Tail(q)) \subseteq Records(s \o q)
<1> DEFINE a == s \o q
           b == s \o Tail(q)
           Old(i) == IF i <= Len(s) THEN i ELSE i + 1
<1>1. /\ Tail(q) \in Seq(Message) /\ Len(Tail(q)) = Len(q) - 1
      /\ \A i \in 1..Len(Tail(q)) : Tail(q)[i] = q[i + 1]
  BY HeadTailProperties
<1>2. Len(s) \in Nat /\ Len(q) \in Nat /\ Len(q) > 0
  BY LenProperties, EmptySeq
<1>3. /\ a \in Seq(Message) /\ Len(a) = Len(s) + Len(q)
      /\ \A i \in 1..Len(s) + Len(q) : a[i] = IF i <= Len(s) THEN s[i] ELSE q[i - Len(s)]
  BY ConcatProperties
<1>4. /\ b \in Seq(Message) /\ Len(b) = Len(s) + Len(Tail(q))
      /\ \A i \in 1..Len(s) + Len(Tail(q)) :
            b[i] = IF i <= Len(s) THEN s[i] ELSE Tail(q)[i - Len(s)]
  BY <1>1, ConcatProperties
<1>5. DOMAIN a = 1..(Len(s) + Len(q)) /\ DOMAIN b = 1..(Len(s) + Len(q) - 1)
  BY <1>1, <1>2, <1>3, <1>4, LenProperties
<1> HIDE DEF a, b
<1>6. \A i \in DOMAIN b : Old(i) \in DOMAIN a /\ b[i] = a[Old(i)]
  <2> SUFFICES ASSUME NEW i \in DOMAIN b PROVE Old(i) \in DOMAIN a /\ b[i] = a[Old(i)]
    OBVIOUS
  <2>1. i \in 1..(Len(s) + Len(q) - 1)
    BY <1>5
  <2>2. CASE i <= Len(s)
    BY <1>1, <1>2, <1>3, <1>4, <1>5, <2>1, <2>2
  <2>3. CASE i > Len(s)
    <3>1. i - Len(s) \in 1..Len(Tail(q)) /\ (i - Len(s)) + 1 = (i + 1) - Len(s)
      BY <1>1, <1>2, <2>1, <2>3
    <3>2. b[i] = Tail(q)[i - Len(s)]
      BY <1>1, <1>2, <1>4, <2>1, <2>3
    <3>3. b[i] = q[(i + 1) - Len(s)]
      BY <1>1, <3>1, <3>2
    <3>4. i + 1 \in 1..(Len(s) + Len(q)) /\ ~(i + 1 <= Len(s)) /\ Old(i) = i + 1
      BY <1>2, <2>1, <2>3
    <3>5. a[i + 1] = q[(i + 1) - Len(s)]
      BY <1>3, <3>4
    <3>6. QED
      BY <1>5, <3>3, <3>4, <3>5
  <2>4. QED
    BY <1>2, <2>1, <2>2, <2>3
<1>7. \A i, j \in DOMAIN b : i \in Int /\ (i < j => Old(i) < Old(j)) /\ (Old(i) = Old(j) => i = j)
  BY <1>2, <1>5
<1> HIDE DEF Old
<1>8. OnceIn(b)
  BY <1>6, <1>7 DEF OnceIn, a
<1>9. OrderedFor(c, b)
  BY <1>6, <1>7 DEF OrderedFor, a
<1>10. Records(b) \subseteq Records(a)
  BY <1>6 DEF Records
<1>11. QED
  BY <1>8, <1>9, <1>10 DEF a, b

-----------------------------------------------------------------------------
(* How the answers of a connection change. *)

LEMMA AnswersTyped ==
  ASSUME IInv, NEW c \in Conns
  PROVE  /\ sent[c] \in Seq(Message) /\ queue[c] \in Seq(Message)
         /\ Answers(c) \in Seq(Message)
BY ConcatProperties DEF IInv, TypeOK, Answers

LEMMA RecordsTyped == IInv => Queued \subseteq Message /\ Carried \subseteq Message
<1> SUFFICES ASSUME IInv PROVE Queued \subseteq Message /\ Carried \subseteq Message
  OBVIOUS
<1>1. \A c \in Conns : \A i \in DOMAIN Answers(c) : Answers(c)[i] \in Message
  BY AnswersAreSound DEF Sound
<1>2. Queued \subseteq Message
  BY <1>1 DEF Queued, Records
<1>3. Carried \subseteq Message
  BY DEF Carried, InDelivery, InAcker, IInv, TypeOK, AcksPending, Held
<1>4. QED
  BY <1>2, <1>3

LEMMA AnswersFrame ==
  ASSUME IInv, AnswersOrderly, UNCHANGED <<queue, sent>>
  PROVE  AnswersOrderly' /\ Queued' = Queued
<1>1. \A c \in Conns : Answers(c)' = Answers(c)
  BY DEF Answers
<1>2. QED
  BY <1>1 DEF AnswersOrderly, Queued

LEMMA Regroup ==
  \A s, t, u \in Seq(Message) : (s \o t) \o u = s \o (t \o u)
BY ConcatAssociative

\* Answers are queued at the end.
LEMMA RespondOrderly ==
  ASSUME IInv, AnswersOrderly, NEW c \in Conns, NEW r \in Message,
         Respond(c, r), UNCHANGED sent,
         r \in Queued => r.kind = "unknown",
         r.kind \in Instant => r.conn = c,
         r.kind \in Instant => \A x \in Queued : x.conn = r.conn => x.n <= r.n
  PROVE  AnswersOrderly' /\ Queued' \subseteq Queued \cup {r}
<1>1. queue' = [queue EXCEPT ![c] = Append(queue[c], r)]
  BY DEF Respond
<1>2. queue'[c] = Append(queue[c], r) /\ \A d \in Conns \ {c} : queue'[d] = queue[d]
  BY <1>1 DEF IInv, TypeOK
<1>3. Answers(c)' = Append(Answers(c), r)
  <2>1. sent[c] \in Seq(Message) /\ queue[c] \in Seq(Message) /\ <<r>> \in Seq(Message)
    BY AnswersTyped
  <2>2. sent[c] \o (queue[c] \o <<r>>) = (sent[c] \o queue[c]) \o <<r>>
    BY <2>1, Regroup, Zenon
  <2>3. Append(queue[c], r) = queue[c] \o <<r>>
    BY <2>1, AppendIsConcat
  <2>4. Append(Answers(c), r) = Answers(c) \o <<r>>
    BY AnswersTyped, AppendIsConcat
  <2>5. QED
    BY <1>2, <2>2, <2>3, <2>4 DEF Answers
<1>4. \A d \in Conns \ {c} : Answers(d)' = Answers(d)
  BY <1>2 DEF Answers
<1>5. /\ OnceIn(Append(Answers(c), r)) /\ OrderedFor(c, Append(Answers(c), r))
      /\ Records(Append(Answers(c), r)) = Records(Answers(c)) \cup {r}
  <2>1. Records(Answers(c)) \subseteq Queued
    BY DEF Queued
  <2>2. Answers(c) \in Seq(Message)
    BY AnswersTyped
  <2>3. OnceIn(Answers(c)) /\ OrderedFor(c, Answers(c))
    BY DEF AnswersOrderly
  <2>4. QED
    BY <2>1, <2>2, <2>3, AppendOrderly
<1>6. AnswersOrderly'
  <2>1. \A d \in Conns : /\ OnceIn(Answers(d)') /\ OrderedFor(d, Answers(d)')
                         /\ InPlace(d, Answers(d)')
    BY <1>3, <1>4, <1>5 DEF AnswersOrderly, InPlace
  <2>2. \A d \in Conns : r \in Records(Answers(d)) => r.kind = "unknown"
    BY DEF Queued
  <2>3. \A d, e \in Conns : d # e => Apart(Answers(d)', Answers(e)')
    BY <1>3, <1>4, <1>5, <2>2 DEF AnswersOrderly, Apart
  <2>4. QED
    BY <2>1, <2>3 DEF AnswersOrderly
<1>7. Queued' \subseteq Queued \cup {r}
  BY <1>3, <1>4, <1>5 DEF Queued
<1>8. QED
  BY <1>6, <1>7

\* The writer moves the first one from the channel to the websocket, or
\* loses it.
LEMMA WriterOrderly ==
  ASSUME IInv, AnswersOrderly, NEW c \in Conns, Writer(c)
  PROVE  AnswersOrderly' /\ Queued' \subseteq Queued
<1>1. sent[c] \in Seq(Message) /\ queue[c] \in Seq(Message)
  BY AnswersTyped
<1>2. CASE StopWriter(c)
  BY <1>2, AnswersFrame DEF StopWriter
<1>3. CASE WriteMessage(c)
  <2>1. PICK r, q : r = Head(queue[c]) /\ q = Tail(queue[c])
    OBVIOUS
  <2>2. /\ queue[c] # <<>>
        /\ sent' = [sent EXCEPT ![c] = Append(sent[c], r)]
        /\ queue' = [queue EXCEPT ![c] = q]
    BY <1>3, <2>1 DEF WriteMessage
  <2>3. r \in Message /\ q \in Seq(Message)
    BY <1>1, <2>1, <2>2, HeadTailProperties
  <2>4. sent'[c] = Append(sent[c], r) /\ queue'[c] = q
        /\ \A d \in Conns \ {c} : sent'[d] = sent[d] /\ queue'[d] = queue[d]
    BY <2>2 DEF IInv, TypeOK
  <2>5. Answers(c)' = Answers(c)
    <3>1. queue[c] = <<r>> \o q
      BY <1>1, <2>1, <2>2, <2>3
    <3>2. <<r>> \in Seq(Message)
      BY <2>3
    <3>3. Append(sent[c], r) = sent[c] \o <<r>>
      BY <1>1, <2>3, AppendIsConcat
    <3>4. (sent[c] \o <<r>>) \o q = sent[c] \o (<<r>> \o q)
      BY <1>1, <2>3, <3>2, Regroup, Zenon
    <3>5. QED
      BY <2>4, <3>1, <3>3, <3>4 DEF Answers
  <2>6. \A d \in Conns : Answers(d)' = Answers(d)
    BY <2>4, <2>5 DEF Answers
  <2>7. QED
    BY <2>6 DEF AnswersOrderly, Queued
<1>4. CASE WriteFails(c)
  <2>1. queue[c] # <<>> /\ queue' = [queue EXCEPT ![c] = Tail(queue[c])] /\ sent' = sent
    BY <1>4 DEF WriteFails
  <2>2. queue'[c] = Tail(queue[c]) /\ \A d \in Conns \ {c} : queue'[d] = queue[d]
    BY <2>1 DEF IInv, TypeOK
  <2>3. Answers(c)' = sent[c] \o Tail(queue[c])
        /\ \A d \in Conns \ {c} : Answers(d)' = Answers(d)
    BY <2>1, <2>2 DEF Answers
  <2>4. OnceIn(sent[c] \o queue[c]) /\ OrderedFor(c, sent[c] \o queue[c])
    BY DEF AnswersOrderly, Answers
  <2>5. /\ OnceIn(sent[c] \o Tail(queue[c])) /\ OrderedFor(c, sent[c] \o Tail(queue[c]))
        /\ Records(sent[c] \o Tail(queue[c])) \subseteq Records(Answers(c))
    BY <1>1, <2>1, <2>4, DropOrderly DEF Answers
  <2>6. AnswersOrderly'
    <3>1. \A d \in Conns : /\ OnceIn(Answers(d)') /\ OrderedFor(d, Answers(d)')
                           /\ Records(Answers(d)') \subseteq Records(Answers(d))
      BY <2>3, <2>5 DEF AnswersOrderly
    <3>2. QED
      BY <3>1 DEF AnswersOrderly, InPlace, Apart
  <2>7. Queued' \subseteq Queued
    BY <2>3, <2>5 DEF Queued
  <2>8. QED
    BY <2>6, <2>7
<1>5. QED
  BY <1>2, <1>3, <1>4 DEF Writer

-----------------------------------------------------------------------------
(* How the other parts change. *)

\* No handler takes up a message, and no record turns up from nowhere.
LEMMA PastFrame ==
  ASSUME IInv, AllPast, UNCHANGED reads,
         \A d \in Conns : Busy(d)' => Busy(d),
         Queued' \cup Carried' \subseteq Queued \cup Carried
  PROVE  AllPast'
<1> SUFFICES ASSUME NEW r \in Queued' \cup Carried' PROVE Past(r)'
  BY DEF AllPast
<1>1. r \in Message /\ Past(r)
  BY RecordsTyped DEF AllPast
<1>2. QED
  BY <1>1 DEF Past, Message

\* A handler lets go of its message, or keeps one of unknown type, which may
\* be answered or carried from now on.
LEMMA PastOnwards ==
  ASSUME IInv, OnceInv, UNCHANGED reads, NEW c \in Conns, Busy(c),
         \A d \in Conns : Busy(d)' => Busy(d),
         ~Busy(c)' \/ msg[c].kind = "unknown",
         Queued' \cup Carried' \subseteq Queued \cup Carried \cup {msg[c]}
  PROVE  AllPast'
<1> SUFFICES ASSUME NEW r \in Queued' \cup Carried' PROVE Past(r)'
  BY DEF AllPast
<1>1. CASE r = msg[c]
  <2>1. r \in Message /\ r.conn = c /\ r.n = reads[c]
    BY <1>1 DEF OnceInv, Current, IInv, Working, Busy
  <2>2. r.n <= reads[c] /\ (Busy(c)' => r.kind = "unknown")
    BY <1>1, <2>1 DEF Message
  <2>3. QED
    BY <2>1, <2>2 DEF Past
<1>2. CASE r # msg[c]
  <2>1. r \in Message /\ Past(r)
    BY <1>2, RecordsTyped DEF OnceInv, AllPast
  <2>2. QED
    BY <2>1 DEF Past, Message
<1>3. QED
  BY <1>1, <1>2

LEMMA CurrentFrame ==
  ASSUME Current, UNCHANGED <<reads, msg>>,
         \A d \in Conns : /\ Busy(d)' => Busy(d)
                          /\ At(d, "offer")' => At(d, "offer")
  PROVE  Current'
BY DEF Current

LEMMA CarriedFrame ==
  ASSUME CarriedOnce, UNCHANGED acks, Queued' \subseteq Queued
  PROVE  CarriedOnce' /\ Carried' = Carried
BY DEF CarriedOnce, Carried, InDelivery, InAcker, acks

\* Steps that take up no message and carry or queue nothing.
LEMMA QuietOnce ==
  ASSUME IInv, OnceInv, UNCHANGED <<reads, msg, acks>>, AnswersOrderly', Queued' \subseteq Queued,
         \A d \in Conns : /\ Busy(d)' => Busy(d)
                          /\ At(d, "offer")' => At(d, "offer")
  PROVE  OnceInv'
<1>1. Current' /\ CarriedOnce' /\ Carried' = Carried
  BY CurrentFrame, CarriedFrame DEF OnceInv
<1>2. AllPast'
  BY <1>1, PastFrame DEF OnceInv
<1>3. QED
  BY <1>1, <1>2 DEF OnceInv

LEMMA GotoBusy ==
  ASSUME IInv, NEW c \in Conns, NEW pc \in Resting, Goto(c, pc)
  PROVE  \A d \in Conns : /\ Busy(d)' => Busy(d)
                          /\ At(d, "offer")' => At(d, "offer")
                          /\ ~Busy(c)'
BY DEF Goto, IInv, TypeOK, Busy, At, Resting

LEMMA RestOnce ==
  ASSUME IInv, OnceInv, NEW c \in Conns, NEW pc \in Resting, Goto(c, pc),
         UNCHANGED <<reads, msg, queue, sent, acks>>
  PROVE  OnceInv'
BY GotoBusy, QuietOnce, AnswersFrame DEF OnceInv

LEMMA InitOnce == Init => OnceInv
<1> SUFFICES ASSUME Init PROVE OnceInv
  OBVIOUS
<1>1. \A c \in Conns : Answers(c) = <<>>
  BY ConcatEmptySeq, EmptySeq DEF Init, Answers
<1>2. Queued = {} /\ AnswersOrderly
  BY <1>1 DEF Queued, Records, AnswersOrderly, OnceIn, OrderedFor, InPlace, Apart
<1>3. Carried = {} /\ InDelivery = {} /\ InAcker = {} /\ inflight = {}
  BY DEF Init, Carried, InDelivery, InAcker, Idle
<1>4. Current
  BY DEF Init, Current, Busy, At
<1>5. QED
  BY <1>2, <1>3, <1>4 DEF OnceInv, AllPast, CarriedOnce

\* The steps of a connection's goroutines that touch no message.
LEMMA IdleStepsOnce ==
  ASSUME IInv, OnceInv, NEW c \in Conns,
         \/ \E known \in BOOLEAN : RegisterSocket(c, known)
         \/ AnnounceConnected(c) \/ ReadFails(c) \/ ReadNotBinary(c) \/ Close(c)
         \/ CloseStopChan(c) \/ DeregisterSocket(c) \/ AnnounceDisconnected(c)
  PROVE  OnceInv'
<1>1. PICK pc \in Resting : Goto(c, pc)
  BY DEF RegisterSocket, AnnounceConnected, ReadFails, ReadNotBinary, Close, CloseStopChan,
         DeregisterSocket, AnnounceDisconnected, Resting
<1>2. UNCHANGED <<reads, msg, queue, sent, acks>>
  BY DEF RegisterSocket, AnnounceConnected, ReadFails, ReadNotBinary, Close, CloseStopChan,
         DeregisterSocket, AnnounceDisconnected, outbound
<1>3. QED
  BY <1>1, <1>2, RestOnce

\* A message is newer than whatever came before on its connection.
LEMMA ReadOnce ==
  ASSUME IInv, OnceInv, NEW c \in Conns, NEW kind \in Kinds[c], Read(c, kind)
  PROVE  OnceInv'
<1>1. PICK m : m = [conn |-> c, n |-> reads[c] + 1, kind |-> kind]
  OBVIOUS
<1>2. /\ msg' = [msg EXCEPT ![c] = m] /\ reads' = [reads EXCEPT ![c] = reads[c] + 1]
      /\ handler[c] = "read"
      /\ Goto(c, AfterParse(c, kind)) /\ UNCHANGED <<queue, sent, acks>>
  BY <1>1 DEF Read, At, outbound
<1>3. /\ msg'[c] = m /\ m.n = reads'[c] /\ reads'[c] = reads[c] + 1 /\ reads[c] \in Nat
      /\ handler'[c] = AfterParse(c, kind)
      /\ \A d \in Conns \ {c} : msg'[d] = msg[d] /\ reads'[d] = reads[d] /\ handler'[d] = handler[d]
  BY <1>1, <1>2 DEF IInv, TypeOK, Goto
<1>4. Current'
  <2>1. AfterParse(c, kind) # "offer"
    BY DEF AfterParse
  <2>2. QED
    BY <1>3, <2>1 DEF OnceInv, Current, Busy, At
<1>5. AnswersOrderly' /\ Queued' = Queued
  BY <1>2, AnswersFrame DEF OnceInv
<1>6. CarriedOnce' /\ Carried' = Carried
  BY <1>2, <1>5, CarriedFrame DEF OnceInv
<1>7. AllPast'
  <2> SUFFICES ASSUME NEW r \in Queued \cup Carried PROVE Past(r)'
    BY <1>5, <1>6 DEF AllPast
  <2>1. r \in Message /\ Past(r)
    BY RecordsTyped DEF OnceInv, AllPast
  <2>2. r.n \in Nat /\ r.conn \in Conns
    BY <2>1 DEF Message
  <2>3. CASE r.conn = c
    BY <1>3, <2>1, <2>2, <2>3 DEF Past
  <2>4. CASE r.conn # c
    BY <1>3, <2>1, <2>2, <2>4 DEF Past, Busy
  <2>5. QED
    BY <2>3, <2>4
<1>8. QED
  BY <1>4, <1>5, <1>6, <1>7 DEF OnceInv

\* What a handler works on is nowhere else, unless its type is unknown, and
\* no answer to its vehicle is newer.
LEMMA WorkIsNew ==
  ASSUME IInv, OnceInv, NEW c \in Conns, Busy(c)
  PROVE  /\ msg[c] \in Message /\ msg[c].conn = c /\ msg[c].n = reads[c]
         /\ msg[c] \in Queued \cup Carried => msg[c].kind = "unknown"
         /\ \A x \in Queued : x.conn = c => x.n <= msg[c].n
<1>1. PICK m : m = msg[c]
  OBVIOUS
<1>2. m \in Message /\ m.conn = c /\ m.n = reads[c] /\ m.n \in Nat
  BY <1>1 DEF IInv, Working, Busy, OnceInv, Current, Message
<1>3. m \in Queued \cup Carried => m.kind = "unknown"
  <2> SUFFICES ASSUME m \in Queued \cup Carried, m.kind # "unknown" PROVE FALSE
    OBVIOUS
  <2>1. m.n < reads[c]
    BY <1>2 DEF OnceInv, AllPast, Past
  <2>2. QED
    BY <1>2, <2>1
<1>4. \A x \in Queued : x.conn = c => x.n <= m.n
  BY <1>2 DEF OnceInv, AllPast, Past
<1>5. QED
  BY <1>1, <1>2, <1>3, <1>4

\* The handler answers: a message of unknown type for the first time, or the
\* message it then lets go of.
LEMMA RespondOnce ==
  ASSUME IInv, OnceInv, NEW c \in Conns,
         Acknowledge(c) \/ Answer(c)
  PROVE  OnceInv'
<1>1. PICK m : m = msg[c]
  OBVIOUS
<1>2. Busy(c) /\ Respond(c, m) /\ UNCHANGED <<sent, reads, msg, acks>>
  BY <1>1 DEF Acknowledge, Answer, Busy, At
<1>3. m \in Message /\ m.conn = c
      /\ (m \in Queued \cup Carried => m.kind = "unknown")
      /\ \A x \in Queued : x.conn = c => x.n <= m.n
  BY <1>1, <1>2, WorkIsNew
<1>4. AnswersOrderly' /\ Queued' \subseteq Queued \cup {m}
  BY <1>2, <1>3, RespondOrderly DEF OnceInv
<1>5. /\ \A d \in Conns : /\ Busy(d)' => Busy(d)
                          /\ At(d, "offer")' => At(d, "offer")
      /\ ~Busy(c)' \/ m.kind = "unknown"
  <2>1. CASE Acknowledge(c)
    BY <1>1, <2>1 DEF Acknowledge, Goto, At, Busy, IInv, TypeOK, Working
  <2>2. CASE Answer(c)
    <3>1. Goto(c, "read")
      BY <2>2 DEF Answer
    <3>2. QED
      BY <3>1, GotoBusy DEF Resting
  <2>3. QED
    BY <2>1, <2>2
<1>6. Current'
  BY <1>2, <1>5, CurrentFrame DEF OnceInv
<1>7. m \notin Carried
  <2>1. CASE m \in Carried
    <3>1. m.kind \in {"waiting", "reported"} /\ m.kind = "unknown"
      BY <1>3, <2>1 DEF OnceInv, CarriedOnce
    <3>2. QED
      BY <3>1
  <2>2. QED
    BY <2>1
<1>8. CarriedOnce' /\ Carried' = Carried
  BY <1>2, <1>4, <1>7 DEF OnceInv, CarriedOnce, Carried, InDelivery, InAcker, acks
<1>9. AllPast'
  BY <1>1, <1>2, <1>4, <1>5, <1>8, PastOnwards
<1>10. QED
  BY <1>4, <1>6, <1>8, <1>9 DEF OnceInv

\* The record goes with kafka, stays with the handler, or is dropped.
LEMMA DispatchOnce ==
  ASSUME IInv, OnceInv, NEW c \in Conns, Dispatch(c)
  PROVE  OnceInv'
<1>1. PICK m : m = msg[c]
  OBVIOUS
<1>2. Busy(c) /\ handler[c] = "dispatch" /\ UNCHANGED <<sent, queue, reads, msg, delivery, acker>>
  BY DEF Dispatch, Busy, At, outbound
<1>3. m \in Message /\ m.conn = c
      /\ (m \in Queued \cup Carried => m.kind = "unknown")
  BY <1>1, <1>2, WorkIsNew
<1>4. AnswersOrderly' /\ Queued' = Queued
  BY <1>2, AnswersFrame DEF OnceInv
<1>5. \/ inflight' = inflight /\ \E pc \in {"respond", "read", "close"} : Goto(c, pc)
      \/ inflight' = inflight /\ Goto(c, "offer") /\ m.kind = "waiting"
      \/ inflight' = inflight \cup {m} /\ Goto(c, "read") /\ m.kind = "reported"
  BY <1>1 DEF Dispatch
<1>6. \A d \in Conns : Busy(d)' => Busy(d)
  BY <1>2, <1>5 DEF Goto, Busy, IInv, TypeOK
<1>7. Current'
  <2>1. \A d \in Conns : At(d, "offer")' => At(d, "offer") \/ (d = c /\ m.kind = "waiting")
    BY <1>5 DEF Goto, At, IInv, TypeOK
  <2>2. QED
    BY <1>1, <1>2, <1>6, <2>1 DEF OnceInv, Current
<1>8. InDelivery' = InDelivery /\ InAcker' = InAcker
  BY <1>2 DEF InDelivery, InAcker
<1>9. CASE inflight' = inflight
  <2>1. CarriedOnce' /\ Carried' = Carried
    BY <1>2, <1>4, <1>9, CarriedFrame DEF OnceInv, acks
  <2>2. AllPast'
    BY <1>2, <1>4, <1>6, <2>1, PastFrame DEF OnceInv
  <2>3. QED
    BY <1>4, <1>7, <2>1, <2>2 DEF OnceInv
<1>10. CASE inflight' = inflight \cup {m} /\ Goto(c, "read") /\ m.kind = "reported"
  <2>1. Carried' = Carried \cup {m}
    BY <1>8, <1>10 DEF Carried
  <2>2. m \notin Queued \cup Carried
    <3>1. m \in Queued \cup Carried => m.kind = "unknown"
      BY <1>3
    <3>2. QED
      BY <1>10, <3>1
  <2>3. CarriedOnce'
    BY <1>4, <1>8, <1>10, <2>1, <2>2 DEF OnceInv, CarriedOnce, Carried
  <2>4. ~Busy(c)'
    BY <1>10, GotoBusy DEF Resting
  <2>5. AllPast'
    BY <1>1, <1>2, <1>4, <1>6, <2>1, <2>4, PastOnwards
  <2>6. QED
    BY <1>4, <1>7, <2>3, <2>5 DEF OnceInv
<1>11. QED
  BY <1>5, <1>9, <1>10

LEMMA WriterOnce ==
  ASSUME IInv, OnceInv, NEW c \in Conns, Writer(c)
  PROVE  OnceInv'
<1>1. UNCHANGED <<reads, msg, acks, handler>>
  BY DEF Writer, WriteMessage, WriteFails, StopWriter, connection
<1>2. AnswersOrderly' /\ Queued' \subseteq Queued
  BY WriterOrderly DEF OnceInv
<1>3. QED
  BY <1>1, <1>2, QuietOnce DEF Busy, At

LEMMA LosePeerOnce ==
  ASSUME IInv, OnceInv, NEW c \in Conns, LosePeer(c)
  PROVE  OnceInv'
<1>1. UNCHANGED <<reads, msg, acks, handler, queue, sent>>
  BY DEF LosePeer, outbound
<1>2. AnswersOrderly' /\ Queued' \subseteq Queued
  BY <1>1, AnswersFrame DEF OnceInv
<1>3. QED
  BY <1>1, <1>2, QuietOnce DEF Busy, At

\* A report moves a record on, or drops it.
LEMMA ReportOnce ==
  ASSUME IInv, OnceInv, NEW record \in inflight, Report(record)
  PROVE  OnceInv'
<1>1. UNCHANGED <<handler, msg, reads, queue, sent, acker>>
      /\ record \in inflight /\ delivery = None /\ inflight' = inflight \ {record}
      /\ (delivery' = delivery \/ delivery' = record)
  BY DEF Report, Delivered, DeliveryFails, connection, outbound
<1>2. AnswersOrderly' /\ Queued' = Queued
  BY <1>1, AnswersFrame DEF OnceInv
<1>3. Current'
  BY <1>1 DEF OnceInv, Current, Busy, At
<1>4. InAcker' = InAcker /\ InDelivery' \subseteq {record} /\ InDelivery = {}
  BY <1>1 DEF InAcker, InDelivery
<1>5. Carried' \subseteq Carried
  BY <1>1, <1>4 DEF Carried
<1>6. CarriedOnce'
  BY <1>1, <1>2, <1>4, <1>5 DEF OnceInv, CarriedOnce
<1>7. AllPast'
  BY <1>1, <1>2, <1>5, PastFrame DEF OnceInv, Busy
<1>8. QED
  BY <1>2, <1>3, <1>6, <1>7 DEF OnceInv

LEMMA AckFromHandlerOnce ==
  ASSUME IInv, OnceInv, NEW c \in Conns, AckFromHandler(c)
  PROVE  OnceInv'
<1>1. PICK m : m = msg[c]
  OBVIOUS
<1>2. Busy(c) /\ At(c, "offer") /\ acker = Idle
      /\ acker' = [step |-> "lookup", record |-> m, to |-> None]
      /\ Goto(c, "read") /\ UNCHANGED <<msg, reads, queue, sent, inflight, delivery>>
  BY <1>1 DEF AckFromHandler, Busy, At, Receive, Idle, outbound
<1>3. m.kind = "waiting" /\ m \notin Queued \cup Carried
  <2>1. m.kind = "waiting"
    BY <1>1, <1>2 DEF OnceInv, Current
  <2>2. m \in Queued \cup Carried => m.kind = "unknown"
    BY <1>1, <1>2, WorkIsNew
  <2>3. QED
    BY <2>1, <2>2
<1>4. \A d \in Conns : /\ Busy(d)' => Busy(d)
                       /\ At(d, "offer")' => At(d, "offer")
                       /\ ~Busy(c)'
  BY <1>2, GotoBusy DEF Resting
<1>5. AnswersOrderly' /\ Queued' = Queued
  BY <1>2, AnswersFrame DEF OnceInv
<1>6. Current'
  BY <1>2, <1>4, CurrentFrame DEF OnceInv
<1>7. InAcker = {} /\ InAcker' = {m} /\ InDelivery' = InDelivery
  BY <1>2 DEF InAcker, InDelivery, Idle
<1>8. Carried' = Carried \cup {m}
  BY <1>2, <1>7 DEF Carried
<1>9. CarriedOnce'
  BY <1>2, <1>3, <1>5, <1>7, <1>8 DEF OnceInv, CarriedOnce, Carried
<1>10. AllPast'
  BY <1>1, <1>2, <1>4, <1>5, <1>8, PastOnwards
<1>11. QED
  BY <1>5, <1>6, <1>9, <1>10 DEF OnceInv

\* handleAcks passes a record on, or drops it for want of a socket.
LEMMA PassOnOnce ==
  ASSUME IInv, OnceInv, AckFromDelivery \/ GetSocket
  PROVE  OnceInv'
<1>1. UNCHANGED <<handler, msg, reads, queue, sent, inflight>>
  BY DEF AckFromDelivery, GetSocket, connection, outbound
<1>2. AnswersOrderly' /\ Queued' = Queued
  BY <1>1, AnswersFrame DEF OnceInv
<1>3. Current'
  BY <1>1 DEF OnceInv, Current, Busy, At
<1>4. \/ InDelivery' = {} /\ InAcker' = InDelivery
      \/ InDelivery' = InDelivery /\ InAcker' \subseteq InAcker
  <2>1. CASE AckFromDelivery
    BY <2>1 DEF AckFromDelivery, Receive, Idle, InDelivery, InAcker
  <2>2. CASE GetSocket
    BY <2>2 DEF GetSocket, Idle, InDelivery, InAcker, IInv, TypeOK
  <2>3. QED
    BY <2>1, <2>2
<1>5. Carried' \subseteq Carried
  BY <1>1, <1>4 DEF Carried
<1>6. CarriedOnce'
  BY <1>1, <1>2, <1>4, <1>5 DEF OnceInv, CarriedOnce
<1>7. AllPast'
  BY <1>1, <1>2, <1>5, PastFrame DEF OnceInv, Busy
<1>8. QED
  BY <1>2, <1>3, <1>6, <1>7 DEF OnceInv

LEMMA SendAckOnce ==
  ASSUME IInv, OnceInv, SendAck
  PROVE  OnceInv'
<1>1. PICK m, socket : m = acker.record /\ socket = acker.to
  OBVIOUS
<1>2. acker.step = "send" /\ Respond(socket, m) /\ acker' = Idle
      /\ UNCHANGED <<handler, msg, reads, sent, inflight, delivery>>
  BY <1>1 DEF SendAck, connection
<1>3. m \in Message /\ socket \in Conns
  BY <1>1, <1>2 DEF IInv, AcksPending, Held
<1>4. InAcker = {m} /\ InAcker' = {} /\ InDelivery' = InDelivery
  BY <1>1, <1>2 DEF InAcker, InDelivery, Idle
<1>5. m \in Carried /\ m \notin Queued /\ m.kind \in {"waiting", "reported"}
  BY <1>4 DEF Carried, OnceInv, CarriedOnce
<1>6. AnswersOrderly' /\ Queued' \subseteq Queued \cup {m}
  <2>1. m.kind \notin Instant
    BY <1>5 DEF Instant
  <2>2. QED
    BY <1>2, <1>3, <1>5, <2>1, RespondOrderly DEF OnceInv
<1>7. Carried' = Carried \ {m}
  BY <1>2, <1>4 DEF Carried, OnceInv, CarriedOnce
<1>8. CarriedOnce'
  BY <1>2, <1>4, <1>6, <1>7 DEF OnceInv, CarriedOnce
<1>9. Current'
  BY <1>2 DEF OnceInv, Current, Busy, At
<1>10. AllPast'
  BY <1>2, <1>5, <1>6, <1>7, PastFrame DEF OnceInv, Busy
<1>11. QED
  BY <1>6, <1>8, <1>9, <1>10 DEF OnceInv

LEMMA NextOnce == IInv /\ OnceInv /\ [Next]_vars => OnceInv'
<1> SUFFICES ASSUME IInv, OnceInv, [Next]_vars PROVE OnceInv'
  OBVIOUS
<1>1. CASE \E c \in Conns : Vehicle(c)
  BY <1>1, IdleStepsOnce, ReadOnce, LosePeerOnce DEF Vehicle
<1>2. CASE \E c \in Conns : Handler(c)
  BY <1>2, IdleStepsOnce, RespondOnce, DispatchOnce DEF Handler
<1>3. CASE \E c \in Conns : Writer(c)
  BY <1>3, WriterOnce
<1>4. CASE \E record \in inflight : Report(record)
  BY <1>4, ReportOnce
<1>5. CASE Acker
  BY <1>5, AckFromHandlerOnce, PassOnOnce, SendAckOnce DEF Acker
<1>6. CASE UNCHANGED vars
  <2>1. UNCHANGED <<reads, msg, acks, handler, queue, sent>>
    BY <1>6 DEF vars, connection, outbound
  <2>2. AnswersOrderly' /\ Queued' \subseteq Queued
    BY <2>1, AnswersFrame DEF OnceInv
  <2>3. QED
    BY <2>1, <2>2, QuietOnce DEF Busy, At
<1>7. QED
  BY <1>1, <1>2, <1>3, <1>4, <1>5, <1>6 DEF Next

LEMMA OnceInvariance == Spec => []OnceInv
<1>1. IInv /\ OnceInv /\ [Next]_vars => OnceInv'
  BY NextOnce
<1>2. QED
  BY InitOnce, <1>1, Invariance, PTL DEF Spec

\* No message is answered twice, but those of unknown type, however the
\* handler, the producers and the one goroutine of reliable acks interleave,
\* and even when sockets share an id.
THEOREM OneAnswerEach == Spec => []AnsweredOnce
<1>1. OnceInv => AnsweredOnce
  BY DEF OnceInv, AnswersOrderly, OnceIn, AnsweredOnce
<1>2. QED
  BY OnceInvariance, <1>1, PTL

\* Reliable acks overtake instant answers and each other; instant answers
\* never do.
THEOREM InstantAnswersOrdered == Spec => []InstantAnswersInOrder
<1>1. OnceInv => InstantAnswersInOrder
  BY DEF OnceInv, AnswersOrderly, OrderedFor, InstantAnswersInOrder
<1>2. QED
  BY OnceInvariance, <1>1, PTL

-----------------------------------------------------------------------------
(***************************************************************************)
(* The sockets implement Delivery.  Beyond the invariants above this needs *)
(* that whatever is stored, on its way or answered for a message is one    *)
(* record (LedgerInv), the handler's message being the last one that was   *)
(* read, and that only a connection that has not ended is read from        *)
(* (EndedInv).                                                             *)
(***************************************************************************)
Ledger == produced \cup Queued \cup Carried
Work == {msg[c] : c \in {d \in Conns : Busy(d)}}
SameMessage(x, y) == x.conn = y.conn /\ x.n = y.n

LedgerInv ==
  /\ \A x \in Ledger : x.n <= reads[x.conn]
  /\ \A x \in Ledger, y \in Ledger \cup Work : SameMessage(x, y) => x = y

EndedInv == \A c \in Conns : ws[c] = "closed" => Stopped(c) \/ At(c, "stop")

DeliveryInv == LedgerInv /\ EndedInv

LEMMA LedgerTyped == IInv => Ledger \subseteq Message
BY RecordsTyped DEF Ledger, IInv, TypeOK

LEMMA WorkFacts ==
  ASSUME IInv, OnceInv, NEW x \in Work
  PROVE  /\ x \in Message /\ x.conn \in Conns /\ x.n = reads[x.conn] /\ x.n \in Nat
         /\ Busy(x.conn) /\ x = msg[x.conn]
<1>1. PICK c \in Conns : Busy(c) /\ x = msg[c]
  BY DEF Work
<1>2. x \in Message /\ x.conn = c /\ x.n = reads[c]
  BY <1>1, WorkIsNew
<1>3. QED
  BY <1>1, <1>2 DEF Message

LEMMA InitDelivery == Init => DeliveryInv
<1> SUFFICES ASSUME Init PROVE DeliveryInv
  OBVIOUS
<1>1. \A c \in Conns : Answers(c) = <<>>
  BY ConcatEmptySeq, EmptySeq DEF Init, Answers
<1>2. Queued = {}
  BY <1>1 DEF Queued, Records
<1>3. Ledger = {}
  BY <1>2 DEF Init, Ledger, Carried, InDelivery, InAcker, Idle
<1>4. EndedInv
  BY DEF Init, EndedInv
<1>5. QED
  BY <1>3, <1>4 DEF DeliveryInv, LedgerInv

\* Steps that read nothing: what enters the ledger is what handlers work on.
LEMMA LedgerOnwards ==
  ASSUME IInv, OnceInv, LedgerInv, UNCHANGED <<reads, msg>>,
         \A d \in Conns : Busy(d)' => Busy(d),
         Ledger' \subseteq Ledger \cup Work
  PROVE  LedgerInv'
<1>1. Work' \subseteq Work
  BY DEF Work
<1>2. \A x \in Work, y \in Work : SameMessage(x, y) => x = y
  BY WorkFacts DEF SameMessage
<1>3. \A x \in Work, y \in Ledger : SameMessage(x, y) => x = y
  BY DEF LedgerInv, SameMessage
<1>4. \A x \in Ledger \cup Work, y \in Ledger \cup Work : SameMessage(x, y) => x = y
  BY <1>2, <1>3 DEF LedgerInv
<1>5. \A x \in Work : x.n <= reads[x.conn]
  BY WorkFacts
<1>6. \A x \in Ledger \cup Work : x.n <= reads[x.conn]
  BY <1>5 DEF LedgerInv
<1>7. \A x \in Ledger' : x.n <= reads'[x.conn]
  BY <1>6
<1>8. \A x \in Ledger', y \in Ledger' \cup Work' : SameMessage(x, y) => x = y
  BY <1>1, <1>4
<1>9. QED
  BY <1>7, <1>8 DEF LedgerInv, SameMessage

\* A message that is read has a number that nothing in the ledger has.
LEMMA ReadLedger ==
  ASSUME IInv, OnceInv, LedgerInv, NEW c \in Conns, NEW kind \in Kinds[c], Read(c, kind)
  PROVE  LedgerInv'
<1>1. PICK m : m = [conn |-> c, n |-> reads[c] + 1, kind |-> kind]
  OBVIOUS
<1>2. /\ msg' = [msg EXCEPT ![c] = m] /\ reads' = [reads EXCEPT ![c] = reads[c] + 1]
      /\ Goto(c, AfterParse(c, kind)) /\ UNCHANGED <<queue, sent, acks, produced>>
  BY <1>1 DEF Read, outbound
<1>3. /\ msg'[c] = m /\ reads'[c] = reads[c] + 1 /\ reads[c] \in Nat
      /\ \A d \in Conns \ {c} : msg'[d] = msg[d] /\ reads'[d] = reads[d] /\ handler'[d] = handler[d]
  BY <1>2 DEF IInv, TypeOK, Goto
<1>4. Ledger' = Ledger
  <2>1. Queued' = Queued
    BY <1>2, AnswersFrame DEF OnceInv
  <2>2. Carried' = Carried
    BY <1>2 DEF Carried, InDelivery, InAcker, acks
  <2>3. QED
    BY <1>2, <2>1, <2>2 DEF Ledger
<1>5. Work' \subseteq Work \cup {m}
  BY <1>3 DEF Work, Busy
<1>6. \A x \in Ledger : x.conn \in Conns /\ x.n \in Nat /\ x.n <= reads[x.conn]
  BY LedgerTyped DEF LedgerInv, Message
<1>7. \A x \in Ledger : x.n <= reads'[x.conn]
  <2> SUFFICES ASSUME NEW x \in Ledger PROVE x.n <= reads'[x.conn]
    OBVIOUS
  <2>1. CASE x.conn = c
    BY <1>3, <1>6, <2>1
  <2>2. CASE x.conn # c
    BY <1>3, <1>6, <2>2
  <2>3. QED
    BY <2>1, <2>2
<1>8. \A x \in Ledger : ~SameMessage(x, m)
  BY <1>1, <1>3, <1>6 DEF SameMessage
<1>9. \A x \in Ledger, y \in Ledger \cup Work' : SameMessage(x, y) => x = y
  BY <1>5, <1>8 DEF LedgerInv
<1>10. QED
  BY <1>4, <1>7, <1>9 DEF LedgerInv, SameMessage

\* Steps in which no record changes hands.
LEMMA QuietLedger ==
  ASSUME IInv, OnceInv, UNCHANGED <<queue, sent, acks, produced>>
  PROVE  Ledger' = Ledger
<1>1. Queued' = Queued
  BY AnswersFrame DEF OnceInv
<1>2. Carried' = Carried
  BY DEF Carried, InDelivery, InAcker, acks
<1>3. QED
  BY <1>1, <1>2 DEF Ledger

LEMMA IdleLedger ==
  ASSUME IInv, OnceInv, LedgerInv, NEW c \in Conns,
         \/ \E known \in BOOLEAN : RegisterSocket(c, known)
         \/ AnnounceConnected(c) \/ ReadFails(c) \/ ReadNotBinary(c) \/ Close(c)
         \/ CloseStopChan(c) \/ DeregisterSocket(c) \/ AnnounceDisconnected(c)
  PROVE  LedgerInv'
<1>1. PICK pc \in Resting : Goto(c, pc)
  BY DEF RegisterSocket, AnnounceConnected, ReadFails, ReadNotBinary, Close, CloseStopChan,
         DeregisterSocket, AnnounceDisconnected, Resting
<1>2. UNCHANGED <<reads, msg, queue, sent, acks, produced>>
  BY DEF RegisterSocket, AnnounceConnected, ReadFails, ReadNotBinary, Close, CloseStopChan,
         DeregisterSocket, AnnounceDisconnected, outbound
<1>3. QED
  BY <1>1, <1>2, GotoBusy, QuietLedger, LedgerOnwards

LEMMA RespondLedger ==
  ASSUME IInv, OnceInv, LedgerInv, NEW c \in Conns, Acknowledge(c) \/ Answer(c)
  PROVE  LedgerInv'
<1>1. PICK m : m = msg[c]
  OBVIOUS
<1>2. Busy(c) /\ Respond(c, m) /\ UNCHANGED <<sent, reads, msg, acks, produced>>
  BY <1>1 DEF Acknowledge, Answer, Busy, At
<1>3. m \in Message /\ m.conn = c
      /\ (m \in Queued \cup Carried => m.kind = "unknown")
      /\ \A x \in Queued : x.conn = c => x.n <= m.n
  BY <1>1, <1>2, WorkIsNew
<1>4. Queued' \subseteq Queued \cup {m}
  BY <1>2, <1>3, RespondOrderly DEF OnceInv
<1>5. Carried' = Carried /\ m \in Work
  BY <1>1, <1>2 DEF Carried, InDelivery, InAcker, acks, Work
<1>6. \E pc \in {"dispatch", "read"} : Goto(c, pc)
  BY DEF Acknowledge, Answer
<1>7. \A d \in Conns : Busy(d)' => Busy(d)
  BY <1>2, <1>6 DEF Goto, Busy, IInv, TypeOK
<1>8. QED
  BY <1>2, <1>4, <1>5, <1>7, LedgerOnwards DEF Ledger

LEMMA DispatchLedger ==
  ASSUME IInv, OnceInv, LedgerInv, NEW c \in Conns, Dispatch(c)
  PROVE  LedgerInv'
<1>1. PICK m : m = msg[c]
  OBVIOUS
<1>2. Busy(c) /\ UNCHANGED <<sent, queue, reads, msg, delivery, acker>>
  BY DEF Dispatch, Busy, At, outbound
<1>3. m \in Work
  BY <1>1, <1>2 DEF Work
<1>4. Queued' = Queued
  BY <1>2, AnswersFrame DEF OnceInv
<1>5. produced' \subseteq produced \cup {m} /\ inflight' \subseteq inflight \cup {m}
      /\ \E pc \in {"respond", "offer", "read", "close"} : Goto(c, pc)
  BY <1>1 DEF Dispatch
<1>6. \A d \in Conns : Busy(d)' => Busy(d)
  BY <1>2, <1>5 DEF Goto, Busy, IInv, TypeOK
<1>7. Carried' \subseteq Carried \cup {m}
  BY <1>2, <1>5 DEF Carried, InDelivery, InAcker
<1>8. QED
  BY <1>2, <1>3, <1>4, <1>5, <1>6, <1>7, LedgerOnwards DEF Ledger

LEMMA WriterLedger ==
  ASSUME IInv, OnceInv, LedgerInv, NEW c \in Conns, Writer(c) \/ LosePeer(c)
  PROVE  LedgerInv'
<1>1. UNCHANGED <<reads, msg, acks, handler, produced>>
  BY DEF Writer, WriteMessage, WriteFails, StopWriter, LosePeer, connection
<1>2. Queued' \subseteq Queued
  <2>1. CASE Writer(c)
    BY <2>1, WriterOrderly DEF OnceInv
  <2>2. CASE LosePeer(c)
    BY <2>2, AnswersFrame DEF OnceInv, LosePeer, outbound
  <2>3. QED
    BY <2>1, <2>2
<1>3. Carried' = Carried
  BY <1>1 DEF Carried, InDelivery, InAcker, acks
<1>4. QED
  BY <1>1, <1>2, <1>3, LedgerOnwards DEF Ledger, Busy

LEMMA ReportLedger ==
  ASSUME IInv, OnceInv, LedgerInv, NEW record \in inflight, Report(record)
  PROVE  LedgerInv'
<1>1. UNCHANGED <<handler, msg, reads, queue, sent, acker>>
      /\ inflight' = inflight \ {record}
      /\ (delivery' = delivery \/ delivery' = record)
      /\ produced' \subseteq produced \cup {record}
  BY DEF Report, Delivered, DeliveryFails, connection, outbound
<1>2. Queued' = Queued
  BY <1>1, AnswersFrame DEF OnceInv
<1>3. Carried' \subseteq Carried /\ record \in Carried
  BY <1>1 DEF Carried, InDelivery, InAcker
<1>4. QED
  BY <1>1, <1>2, <1>3, LedgerOnwards DEF Ledger, Busy

LEMMA AckerLedger ==
  ASSUME IInv, OnceInv, LedgerInv, Acker
  PROVE  LedgerInv'
<1>1. CASE \E c \in Conns : AckFromHandler(c)
  <2>0. PICK c \in Conns : AckFromHandler(c)
    BY <1>1
  <2>1. PICK m : AckFromHandler(c) /\ m = msg[c]
    BY <2>0
  <2>2. Busy(c) /\ acker' = [step |-> "lookup", record |-> m, to |-> None]
        /\ Goto(c, "read") /\ UNCHANGED <<msg, reads, queue, sent, inflight, delivery, produced>>
    BY <2>1 DEF AckFromHandler, Busy, At, Receive, Idle, outbound
  <2>3. \A d \in Conns : Busy(d)' => Busy(d)
    BY <2>2, GotoBusy DEF Resting
  <2>4. Queued' = Queued
    BY <2>2, AnswersFrame DEF OnceInv
  <2>5. Carried' \subseteq Carried \cup {m} /\ m \in Work
    BY <2>1, <2>2 DEF Carried, InDelivery, InAcker, Work
  <2>6. QED
    BY <2>2, <2>3, <2>4, <2>5, LedgerOnwards DEF Ledger
<1>2. CASE AckFromDelivery \/ GetSocket
  <2>1. UNCHANGED <<handler, msg, reads, queue, sent, inflight, produced>>
    BY <1>2 DEF AckFromDelivery, GetSocket, connection, outbound
  <2>2. Queued' = Queued
    BY <2>1, AnswersFrame DEF OnceInv
  <2>3. InDelivery' \cup InAcker' \subseteq InDelivery \cup InAcker
    <3>1. CASE AckFromDelivery
      BY <3>1 DEF AckFromDelivery, Receive, Idle, InDelivery, InAcker
    <3>2. CASE GetSocket
      BY <3>2 DEF GetSocket, Idle, InDelivery, InAcker, IInv, TypeOK
    <3>3. QED
      BY <1>2, <3>1, <3>2
  <2>4. Carried' \subseteq Carried
    BY <2>1, <2>3 DEF Carried
  <2>5. QED
    BY <2>1, <2>2, <2>4, LedgerOnwards DEF Ledger, Busy
<1>3. CASE SendAck
  <2>1. PICK m, socket : m = acker.record /\ socket = acker.to
    OBVIOUS
  <2>2. acker.step = "send" /\ Respond(socket, m) /\ acker' = Idle
        /\ UNCHANGED <<handler, msg, reads, sent, inflight, delivery, produced>>
    BY <1>3, <2>1 DEF SendAck, connection
  <2>3. m \in Message /\ socket \in Conns
    BY <2>1, <2>2 DEF IInv, AcksPending, Held
  <2>4. InAcker = {m} /\ InAcker' = {} /\ InDelivery' = InDelivery
    BY <2>1, <2>2 DEF InAcker, InDelivery, Idle
  <2>5. m \in Carried /\ m \notin Queued /\ m.kind \notin Instant
    BY <2>4 DEF Carried, OnceInv, CarriedOnce, Instant
  <2>6. Queued' \subseteq Queued \cup {m}
    BY <2>2, <2>3, <2>5, RespondOrderly DEF OnceInv
  <2>7. Carried' \subseteq Carried
    BY <2>2, <2>4 DEF Carried
  <2>8. QED
    BY <2>2, <2>5, <2>6, <2>7, LedgerOnwards DEF Ledger, Busy
<1>4. QED
  BY <1>1, <1>2, <1>3 DEF Acker

\* Only Close ends a connection, on the way out of the handler.
LEMMA EndedFrame ==
  ASSUME EndedInv, UNCHANGED <<handler, ws>>
  PROVE  EndedInv'
BY DEF EndedInv, Stopped, At

LEMMA EndedSteps ==
  ASSUME IInv, EndedInv, NEW c \in Conns, Vehicle(c) \/ Handler(c)
  PROVE  EndedInv'
<1>1. handler \in [Conns -> HandlerSteps] /\ ws \in [Conns -> {"open", "lost", "closed"}]
  BY DEF IInv, TypeOK
<1>2. CASE Close(c)
  BY <1>1, <1>2 DEF Close, EndedInv, Stopped, At, Goto
<1>3. CASE LosePeer(c)
  BY <1>1, <1>3 DEF LosePeer, EndedInv, Stopped, At
<1>4. CASE CloseStopChan(c) \/ DeregisterSocket(c) \/ AnnounceDisconnected(c)
  <2>1. ws' = ws /\ \E pc \in {"deregister", "leave", "gone"} : Goto(c, pc)
    BY <1>4 DEF CloseStopChan, DeregisterSocket, AnnounceDisconnected
  <2>2. QED
    BY <1>1, <2>1 DEF EndedInv, Stopped, At, Goto
<1>5. CASE \/ \E known \in BOOLEAN : RegisterSocket(c, known)
           \/ \E kind \in Kinds[c] : Read(c, kind)
           \/ AnnounceConnected(c) \/ ReadFails(c) \/ ReadNotBinary(c)
           \/ Acknowledge(c) \/ Dispatch(c) \/ Answer(c)
  <2>1. ws' = ws /\ ~(Stopped(c) \/ At(c, "stop")) /\ \E pc : Goto(c, pc)
    BY <1>5 DEF RegisterSocket, Read, AnnounceConnected, ReadFails, ReadNotBinary, Acknowledge,
                Dispatch, Answer, At, Stopped
  <2>2. QED
    BY <1>1, <2>1 DEF EndedInv, Stopped, At, Goto
<1>6. QED
  BY <1>2, <1>3, <1>4, <1>5 DEF Vehicle, Handler

LEMMA NextDelivery == IInv /\ OnceInv /\ DeliveryInv /\ [Next]_vars => DeliveryInv'
<1> SUFFICES ASSUME IInv, OnceInv, LedgerInv, EndedInv, [Next]_vars PROVE DeliveryInv'
  BY DEF DeliveryInv
<1>1. CASE \E c \in Conns : Vehicle(c) \/ Handler(c)
  <2>1. EndedInv'
    BY <1>1, EndedSteps
  <2>2. LedgerInv'
    BY <1>1, IdleLedger, ReadLedger, WriterLedger, RespondLedger, DispatchLedger
       DEF Vehicle, Handler
  <2>3. QED
    BY <2>1, <2>2 DEF DeliveryInv
<1>2. CASE \E c \in Conns : Writer(c)
  <2>1. UNCHANGED <<handler, ws>>
    BY <1>2 DEF Writer, WriteMessage, WriteFails, StopWriter, connection
  <2>2. QED
    BY <1>2, <2>1, EndedFrame, WriterLedger DEF DeliveryInv
<1>3. CASE (\E record \in inflight : Report(record)) \/ AckFromDelivery \/ GetSocket \/ SendAck
  <2>1. UNCHANGED <<handler, ws>>
    BY <1>3 DEF Report, Delivered, DeliveryFails, AckFromDelivery, GetSocket, SendAck, connection
  <2>2. QED
    BY <1>3, <2>1, EndedFrame, ReportLedger, AckerLedger DEF DeliveryInv, Acker
<1>4. CASE \E c \in Conns : AckFromHandler(c)
  <2>1. EndedInv'
    BY <1>4 DEF AckFromHandler, EndedInv, Stopped, At, Goto, IInv, TypeOK
  <2>2. QED
    BY <1>4, <2>1, AckerLedger DEF DeliveryInv, Acker
<1>5. CASE UNCHANGED vars
  <2>1. UNCHANGED <<reads, msg, acks, handler, ws, queue, sent, produced>>
    BY <1>5 DEF vars, connection, outbound
  <2>2. QED
    BY <2>1, EndedFrame, QuietLedger, LedgerOnwards DEF DeliveryInv, Busy
<1>6. QED
  BY <1>1, <1>2, <1>3, <1>4, <1>5 DEF Next, Acker

LEMMA DeliveryInvariance == Spec => []DeliveryInv
<1>1. IInv /\ OnceInv /\ DeliveryInv /\ [Next]_vars => DeliveryInv'
  BY NextDelivery
<1>2. QED
  BY InitDelivery, <1>1, Invariance, OnceInvariance, PTL DEF Spec

-----------------------------------------------------------------------------
(* Every step of the sockets is a step of Delivery, or none at all. *)

Ended == {c \in Conns : ws[c] = "closed"}

LEMMA FirstPart ==
  ASSUME NEW a \in Nat, NEW b \in Nat
  PROVE  /\ \A i \in 1..a : i \in 1..(a + b) /\ i \in Nat /\ i <= a
         /\ b >= 1 => a + 1 \in 1..(a + b)
OBVIOUS

LEMMA MessagesReceived ==
  ASSUME IInv, NEW m \in Message, m.n <= reads[m.conn]
  PROVE  m \in Promise!Received
<1>1. m = [conn |-> m.conn, n |-> m.n, kind |-> m.kind]
      /\ m.conn \in Conns /\ m.n \in Nat \ {0} /\ m.kind \in AllKinds
  BY DEF Message
<1>2. reads[m.conn] \in Nat
  BY <1>1 DEF IInv, TypeOK
<1>3. m.n \in 1..reads[m.conn]
  BY <1>1, <1>2
<1>4. m \in [conn : {m.conn}, n : 1..reads[m.conn], kind : AllKinds]
  BY <1>1, <1>3
<1>5. QED
  BY <1>1, <1>4 DEF Promise!Received

\* What was written to a websocket is the first part of its answers.
LEMMA SentFirst ==
  ASSUME IInv, NEW c \in Conns, NEW i \in DOMAIN sent[c]
  PROVE  /\ i \in DOMAIN Answers(c) /\ Answers(c)[i] = sent[c][i]
         /\ i \in Nat /\ i <= Len(sent[c])
         /\ sent[c][i] \in Records(Answers(c))
<1>1. sent[c] \in Seq(Message) /\ queue[c] \in Seq(Message)
  BY AnswersTyped
<1>2. /\ Len(sent[c]) \in Nat /\ Len(queue[c]) \in Nat
      /\ DOMAIN sent[c] = 1..Len(sent[c])
      /\ DOMAIN Answers(c) = 1..(Len(sent[c]) + Len(queue[c]))
  BY <1>1, ConcatProperties, LenProperties DEF Answers
<1>3. i \in DOMAIN Answers(c) /\ i \in Nat /\ i <= Len(sent[c])
  BY <1>2, FirstPart
<1>4. Answers(c)[i] = sent[c][i]
  BY <1>1, <1>2, <1>3, ConcatProperties DEF Answers
<1>5. QED
  BY <1>3, <1>4 DEF Records

LEMMA AnsweredInLedger ==
  ASSUME IInv
  PROVE  /\ Promise!Answered \subseteq Queued
         /\ produced \cup Promise!Answered \subseteq Ledger
         /\ \A c \in Conns : Promise!AnsweredOn(c) \subseteq Records(Answers(c))
<1>1. \A c \in Conns : Promise!AnsweredOn(c) \subseteq Records(Answers(c))
  BY SentFirst DEF Promise!AnsweredOn
<1>2. Promise!Answered \subseteq Queued
  BY <1>1 DEF Promise!Answered, Queued
<1>3. QED
  BY <1>1, <1>2 DEF Ledger

LEMMA ReadKept ==
  ASSUME IInv, EndedInv, NEW c \in Conns, NEW kind \in Kinds[c], Read(c, kind)
  PROVE  Promise!Read(c)
<1>1. c \notin Ended
  BY DEF Read, At, EndedInv, Stopped, Ended
<1>2. QED
  BY <1>1 DEF Read, Promise!Read, outbound, Ended

LEMMA CloseKept ==
  ASSUME IInv, NEW c \in Conns, Close(c)
  PROVE  Promise!Close(c)
<1>1. Ended' = Ended \cup {c}
  BY DEF Close, Ended, IInv, TypeOK
<1>2. QED
  BY <1>1 DEF Close, Promise!Close, outbound, Ended

LEMMA OneRecordKept ==
  ASSUME IInv, LedgerInv, NEW m \in Ledger \cup Work
  PROVE  Promise!OneRecord(m)
<1>1. \A x \in Ledger : x.conn = m.conn /\ x.n = m.n => x = m
  BY DEF LedgerInv, SameMessage
<1>2. QED
  BY <1>1, AnsweredInLedger DEF Promise!OneRecord

LEMMA DispatchKept ==
  ASSUME IInv, OnceInv, LedgerInv, NEW c \in Conns, Dispatch(c)
  PROVE  (\E m \in Promise!Received : Promise!Store(m)) \/ UNCHANGED Promise!vars
<1>1. PICK m : m = msg[c]
  OBVIOUS
<1>2. Busy(c) /\ UNCHANGED <<ws, reads, sent>>
  BY DEF Dispatch, Busy, At, outbound
<1>3. m \in Work
  BY <1>1, <1>2 DEF Work
<1>4. m \in Message /\ m.n <= reads[m.conn]
  BY <1>3, WorkFacts
<1>5. m \in Promise!Received /\ Promise!OneRecord(m)
  BY <1>3, <1>4, MessagesReceived, OneRecordKept
<1>6. produced' = produced \/ (produced' = produced \cup {m} /\ m.kind \in Accepted)
  BY <1>1 DEF Dispatch, Accepted
<1>7. CASE produced' = produced
  BY <1>2, <1>7 DEF Promise!vars
<1>8. CASE produced' = produced \cup {m} /\ m.kind \in Accepted
  BY <1>2, <1>5, <1>8 DEF Promise!Store
<1>9. QED
  BY <1>6, <1>7, <1>8

LEMMA ReportKept ==
  ASSUME IInv, OnceInv, LedgerInv, NEW record \in inflight, Report(record)
  PROVE  (\E m \in Promise!Received : Promise!Store(m)) \/ UNCHANGED Promise!vars
<1>1. UNCHANGED <<ws, reads, sent>>
      /\ (produced' = produced \/ produced' = produced \cup {record})
  BY DEF Report, Delivered, DeliveryFails, connection, outbound
<1>2. record \in Carried /\ record \in Ledger
  BY DEF Carried, Ledger
<1>3. record \in Message /\ record.n <= reads[record.conn]
  BY <1>2, LedgerTyped DEF LedgerInv
<1>4. record \in Promise!Received /\ Promise!OneRecord(record)
  BY <1>2, <1>3, MessagesReceived, OneRecordKept
<1>5. record.kind \in Accepted
  BY <1>2 DEF OnceInv, CarriedOnce, Accepted
<1>6. CASE produced' = produced
  BY <1>1, <1>6 DEF Promise!vars
<1>7. CASE produced' = produced \cup {record}
  BY <1>1, <1>4, <1>5, <1>7 DEF Promise!Store
<1>8. QED
  BY <1>1, <1>6, <1>7

\* The answer at the head of the channel comes right after those sent.
LEMMA HeadNext ==
  ASSUME IInv, NEW c \in Conns, queue[c] # <<>>, NEW r, r = Head(queue[c])
  PROVE  /\ Len(sent[c]) + 1 \in DOMAIN Answers(c) /\ Len(sent[c]) \in Nat
         /\ Answers(c)[Len(sent[c]) + 1] = r /\ r \in Records(Answers(c))
<1>1. sent[c] \in Seq(Message) /\ queue[c] \in Seq(Message)
  BY AnswersTyped
<1>2. Len(queue[c]) \in Nat /\ Len(queue[c]) >= 1 /\ r = queue[c][1]
  BY <1>1, HeadTailProperties, EmptySeq, LenProperties
<1>3. Len(sent[c]) \in Nat
      /\ DOMAIN Answers(c) = 1..(Len(sent[c]) + Len(queue[c]))
  BY <1>1, ConcatProperties, LenProperties DEF Answers
<1>4. Len(sent[c]) + 1 \in DOMAIN Answers(c)
  BY <1>2, <1>3, FirstPart
<1>5. Answers(c)[Len(sent[c]) + 1] = queue[c][1]
  <2>1. \A s, t \in Seq(Message) : \A k \in 1..(Len(s) + Len(t)) :
          (s \o t)[k] = IF k <= Len(s) THEN s[k] ELSE t[k - Len(s)]
    BY ConcatProperties
  <2>2. Len(sent[c]) + 1 \in 1..(Len(sent[c]) + Len(queue[c]))
    BY <1>2, <1>3, FirstPart
  <2>3. Answers(c)[Len(sent[c]) + 1] = queue[c][(Len(sent[c]) + 1) - Len(sent[c])]
    BY <1>1, <1>3, <2>1, <2>2 DEF Answers
  <2>4. QED
    BY <1>3, <2>3
<1>6. QED
  BY <1>2, <1>3, <1>4, <1>5 DEF Records

LEMMA WriteKept ==
  ASSUME IInv, OnceInv, LedgerInv, NEW c \in Conns, WriteMessage(c)
  PROVE  \E m \in Promise!Received : Promise!Answer(c, m)
<1>1. PICK r : r = Head(queue[c])
  OBVIOUS
<1>2. PICK k : k = Len(sent[c]) + 1
  OBVIOUS
<1>3. queue[c] # <<>> /\ ws[c] # "closed" /\ UNCHANGED <<ws, reads, produced>>
      /\ sent' = [sent EXCEPT ![c] = Append(@, r)]
  BY <1>1 DEF WriteMessage, connection
<1>4. /\ k \in DOMAIN Answers(c) /\ Len(sent[c]) \in Nat
      /\ Answers(c)[k] = r /\ r \in Records(Answers(c))
  BY <1>1, <1>2, <1>3, HeadNext
<1>5. Sound(c, r)
  BY <1>4, AnswersAreSound
<1>6. r \in Ledger
  BY <1>4 DEF Queued, Ledger
<1>7. r \in Promise!Received /\ Promise!OneRecord(r)
  BY <1>5, <1>6, MessagesReceived, OneRecordKept DEF Sound, LedgerInv
<1>8. \A i \in DOMAIN sent[c] : i \in DOMAIN Answers(c) /\ Answers(c)[i] = sent[c][i] /\ i < k
  BY <1>2, <1>4, SentFirst
<1>9. r \in Promise!AnsweredOn(c) => r.kind = "unknown"
  <2> SUFFICES ASSUME NEW i \in DOMAIN sent[c], sent[c][i] = r PROVE r.kind = "unknown"
    BY DEF Promise!AnsweredOn
  <2>1. i \in DOMAIN Answers(c) /\ Answers(c)[i] = Answers(c)[k] /\ i # k
    BY <1>2, <1>4, <1>8
  <2>2. QED
    BY <1>4, <2>1 DEF OnceInv, AnswersOrderly, OnceIn
<1>10. \A d \in Conns \ {c} : r \in Promise!AnsweredOn(d) => r.kind = "unknown"
  BY <1>4, AnsweredInLedger DEF OnceInv, AnswersOrderly, Apart
<1>11. r \in Promise!Answered => r.kind = "unknown"
  BY <1>9, <1>10 DEF Promise!Answered
<1>12. r.kind \in Instant => r.conn = c
  BY <1>4 DEF OnceInv, AnswersOrderly, InPlace
<1>13. ASSUME r.kind \in Instant, NEW x \in Promise!AnsweredOn(c), x.kind \in Instant
       PROVE  x.n <= r.n
  <2>1. PICK i \in DOMAIN sent[c] : x = sent[c][i]
    BY <1>13 DEF Promise!AnsweredOn
  <2>2. i \in DOMAIN Answers(c) /\ Answers(c)[i] = x /\ i < k
    BY <1>8, <2>1
  <2>3. x.conn = c /\ r.conn = c
    BY <1>12, <1>13, AnsweredInLedger DEF OnceInv, AnswersOrderly, InPlace
  <2>4. OrderedFor(c, Answers(c))
    BY DEF OnceInv, AnswersOrderly
  <2>5. QED
    BY <1>4, <1>13, <2>2, <2>3, <2>4 DEF OrderedFor
<1>14. Promise!Answer(c, r)
  BY <1>3, <1>5, <1>7, <1>11, <1>12, <1>13 DEF Promise!Answer, Sound
<1>15. QED
  BY <1>7, <1>14

\* Everything else happens within the server.
LEMMA QuietKept ==
  ASSUME IInv, NEW c \in Conns,
         \/ \E known \in BOOLEAN : RegisterSocket(c, known)
         \/ ReadNotBinary(c) \/ LosePeer(c) \/ AnnounceConnected(c) \/ ReadFails(c)
         \/ Acknowledge(c) \/ Answer(c) \/ CloseStopChan(c) \/ DeregisterSocket(c)
         \/ AnnounceDisconnected(c) \/ WriteFails(c) \/ StopWriter(c) \/ AckFromHandler(c)
  PROVE  UNCHANGED Promise!vars
<1>1. UNCHANGED <<reads, produced, sent>>
  BY DEF RegisterSocket, ReadNotBinary, LosePeer, AnnounceConnected, ReadFails, Acknowledge, Answer,
         CloseStopChan, DeregisterSocket, AnnounceDisconnected, WriteFails, StopWriter,
         AckFromHandler, connection, outbound
<1>2. Ended' = Ended
  <2>1. CASE LosePeer(c)
    BY <2>1 DEF LosePeer, Ended, IInv, TypeOK
  <2>2. CASE ~LosePeer(c)
    BY <2>2 DEF RegisterSocket, ReadNotBinary, AnnounceConnected, ReadFails, Acknowledge,
                Answer, CloseStopChan, DeregisterSocket, AnnounceDisconnected, WriteFails, StopWriter,
                AckFromHandler, connection, Ended
  <2>3. QED
    BY <2>1, <2>2
<1>3. QED
  BY <1>1, <1>2 DEF Promise!vars, Ended

LEMMA StepKept ==
  ASSUME IInv, OnceInv, DeliveryInv, [Next]_vars
  PROVE  [Promise!Next]_(Promise!vars)
<1> USE DEF DeliveryInv
<1>1. CASE \E c \in Conns : Vehicle(c)
  BY <1>1, ReadKept, QuietKept DEF Vehicle, Promise!Next
<1>2. CASE \E c \in Conns : Handler(c)
  BY <1>2, CloseKept, DispatchKept, QuietKept DEF Handler, Promise!Next
<1>3. CASE \E c \in Conns : Writer(c)
  BY <1>3, WriteKept, QuietKept DEF Writer, Promise!Next
<1>4. CASE \E record \in inflight : Report(record)
  BY <1>4, ReportKept DEF Promise!Next
<1>5. CASE Acker
  <2>1. CASE \E c \in Conns : AckFromHandler(c)
    BY <2>1, QuietKept
  <2>2. CASE AckFromDelivery \/ GetSocket \/ SendAck
    <3>1. UNCHANGED <<reads, produced, sent, ws>>
      BY <2>2 DEF AckFromDelivery, GetSocket, SendAck, connection, outbound
    <3>2. QED
      BY <3>1 DEF Promise!vars
  <2>3. QED
    BY <1>5, <2>1, <2>2 DEF Acker
<1>6. CASE UNCHANGED vars
  BY <1>6 DEF vars, connection, outbound, Promise!vars
<1>7. QED
  BY <1>1, <1>2, <1>3, <1>4, <1>5, <1>6 DEF Next

LEMMA InitKept == Init => Promise!Init
BY DEF Init, Promise!Init

\* The sockets, with their goroutines, channels, the registry and reliable
\* acks, keep the promise of Delivery to every vehicle, whatever ids the
\* connections have and whoever of them loses or reuses one.
THEOREM SocketsDeliver == Spec => ImplementsDelivery
<1>1. IInv /\ OnceInv /\ DeliveryInv /\ [Next]_vars => [Promise!Next]_(Promise!vars)
  BY StepKept
<1>2. QED
  BY InitKept, <1>1, Invariance, OnceInvariance, DeliveryInvariance, PTL
     DEF Spec, ImplementsDelivery, Promise!Spec
=============================================================================
