------------------------------ MODULE Messages ------------------------------
(***************************************************************************)
(* The messages of a connection and their flatbuffers encoding: an         *)
(* envelope whose union holds a stream or an ack.  A table is the function *)
(* from its written fields to their values: a field that was not written   *)
(* reads as its default.  Fields have the names that StreamMessage gives   *)
(* them.                                                                   *)
(***************************************************************************)
EXTENDS Identity

CONSTANTS
  Nil   \* a nil slice, which reads like no bytes at all, and a nil pointer

MessageNONE == 0
MessageFlatbuffersStream == 4
MessageFlatbuffersStreamAck == 5

StreamVectors == {"SenderID", "Payload", "DeviceType", "DeviceID"}
StreamNumbers == {"CreatedAt", "DeliveredAtEpochMs"}
EnvelopeVectors == {"TXID", "MessageTopic", "EnvMessageID"}
Fields == StreamVectors \cup StreamNumbers \cup EnvelopeVectors

(***************************************************************************)
(* What a reader of bytes finds: nothing, something the accessors panic    *)
(* on, or an envelope table with the type and the value of its union,      *)
(* which need not have one.                                                *)
(***************************************************************************)
NoBytes == [shape |-> "empty"]
Garbage == [shape |-> "garbage"]
Envelope(table, type, union) ==
  [shape |-> "envelope", table |-> table, type |-> type, union |-> union]
-----------------------------------------------------------------------------
(* The generated accessors and builders. *)

\* TxidBytes, TopicBytes and the other vectors of an envelope.
EnvelopeBytes(table, field) == IF field \in DOMAIN table THEN table[field] ELSE Nil

\* SenderIdBytes, PayloadBytes and the other vectors of a stream.
StreamBytes(table, field) == IF field \in DOMAIN table THEN table[field] ELSE Nil

\* CreatedAt and DeliveredAtEpochMs.
StreamNumber(table, field) == IF field \in DOMAIN table THEN table[field] ELSE 0

\* The stream's table: vectors are always written, numbers unless they are
\* equal to the default.
StreamTable(m) ==
  [f \in StreamVectors \cup {g \in StreamNumbers : m[g] # 0} |-> m[f]]

\* The envelope's table.
EnvelopeTable(m) == [f \in EnvelopeVectors |-> m[f]]

FlatbuffersStreamToBytes(m) ==
  Envelope(EnvelopeTable(m), MessageFlatbuffersStream, StreamTable(m))

\* The union of an ack is an empty vector.
FlatbuffersStreamAckToBytes(m) ==
  Envelope(EnvelopeTable(m), MessageFlatbuffersStreamAck, <<>>)
-----------------------------------------------------------------------------
(* StreamMessage: its fields, and fsm, the bytes it was read from unless   *)
(* the message was changed since. *)

NewMessage(fields) == [fields |-> fields, fsm |-> Nil]

\* FlatbuffersEnvelopeFromBytes finds a union, and it is a stream.
IsStream(bytes) ==
  /\ bytes.shape = "envelope"
  /\ bytes.union # Nil
  /\ bytes.type = MessageFlatbuffersStream

ReadFields(bytes) ==
  [f \in Fields |->
     IF f \in EnvelopeVectors THEN EnvelopeBytes(bytes.table, f)
     ELSE IF f \in StreamVectors THEN StreamBytes(bytes.union, f)
     ELSE StreamNumber(bytes.union, f)]

\* For bytes that hold a stream; others are an error.
StreamMessageFromBytes(bytes) == [fields |-> ReadFields(bytes), fsm |-> bytes]

\* fsm.ToBytes writes what it reads from its table.
ToBytes(m) == FlatbuffersStreamToBytes(IF m.fsm = Nil THEN m.fields ELSE ReadFields(m.fsm))

SetSenderID(m, senderID) ==
  NewMessage([m.fields EXCEPT !.SenderID = senderID,
                              !.DeviceType = ParseSenderID(senderID)[1],
                              !.DeviceID = ParseSenderID(senderID)[2]])

SetIdentity(m, deviceType, deviceID) ==
  NewMessage([m.fields EXCEPT !.DeviceType = deviceType,
                              !.DeviceID = deviceID,
                              !.SenderID = BuildClientID(deviceType, deviceID)])

\* Fault: the table the message was read from is kept.
SetDeliveredAtCached(m, time) == [m EXCEPT !.fields.DeliveredAtEpochMs = time]

SetDeliveredAt(m, time) == [m EXCEPT !.fields.DeliveredAtEpochMs = time, !.fsm = Nil]

\* StreamAckMessageFromBytes of an ack.
AckFromBytes(bytes) == [f \in EnvelopeVectors |-> EnvelopeBytes(bytes.table, f)]
=============================================================================
