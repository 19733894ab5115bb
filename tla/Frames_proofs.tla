---------------------------- MODULE Frames_proofs ----------------------------
(* For all certificates, configurations and messages: the raw bytes and the *)
(* ids survive, both stores show what the vehicle said, and the application *)
(* takes its gear for nothing else.                                         *)
EXTENDS Frames, TLAPS, SequenceTheorems, FiniteSetTheorems, WellFoundedInduction

\* What is written is what is read back, also the numbers that equal their
\* default and are not written.
LEMMA RoundTrip ==
  ASSUME NEW fields, fields \in [Fields -> {fields[f] : f \in Fields}]
  PROVE  ReadFields(FlatbuffersStreamToBytes(fields)) = fields
<1> DEFINE bytes == FlatbuffersStreamToBytes(fields)
<1>1. /\ bytes.table = [f \in EnvelopeVectors |-> fields[f]]
      /\ bytes.union = [f \in StreamVectors \cup {g \in StreamNumbers : fields[g] # 0} |-> fields[f]]
  BY DEF FlatbuffersStreamToBytes, Envelope, EnvelopeTable, StreamTable
<1>2. ASSUME NEW f \in Fields PROVE ReadFields(bytes)[f] = fields[f]
  <2>1. CASE f \in EnvelopeVectors
    BY <1>1, <2>1 DEF ReadFields, EnvelopeBytes
  <2>2. CASE f \in StreamVectors
    BY <1>1, <2>2 DEF ReadFields, StreamBytes, EnvelopeVectors, StreamVectors
  <2>3. CASE f \in StreamNumbers
    BY <1>1, <2>3 DEF ReadFields, StreamNumber, EnvelopeVectors, StreamVectors, StreamNumbers
  <2> QED BY <2>1, <2>2, <2>3 DEF Fields
<1>3. ReadFields(bytes) = [f \in Fields |-> ReadFields(bytes)[f]]
  BY DEF ReadFields
<1>4. ReadFields(bytes) = [f \in Fields |-> fields[f]]
  BY <1>2, <1>3, Zenon
<1> QED BY <1>4, Zenon

\* The raw bytes of a stream that Deserialize does not refuse.
LEMMA DeliveredRoundTrip ==
  ASSUME NEW bytes, NEW time
  PROVE  ReadFields(ToBytes(SetDeliveredAt(StreamMessageFromBytes(bytes), time)))
           = [ReadFields(bytes) EXCEPT !["DeliveredAtEpochMs"] = time]
<1> DEFINE fields == [ReadFields(bytes) EXCEPT !["DeliveredAtEpochMs"] = time]
           m == SetDeliveredAt(StreamMessageFromBytes(bytes), time)
<1>1. fields \in [Fields -> {fields[f] : f \in Fields}]
  <2>1. DOMAIN ReadFields(bytes) = Fields BY DEF ReadFields
  <2>2. DOMAIN fields = Fields BY <2>1
  <2>3. fields = [f \in Fields |-> fields[f]] BY <2>2
  <2> QED BY <2>3
<1>2. m.fields = fields /\ m.fsm = Nil
  BY DEF SetDeliveredAt, StreamMessageFromBytes
<1>3. ToBytes(m) = FlatbuffersStreamToBytes(fields)
  BY <1>2 DEF ToBytes
<1> HIDE DEF fields, m
<1> QED BY <1>1, <1>3, RoundTrip DEF fields, m
-----------------------------------------------------------------------------
(* What NewRecord makes of a message that is not too big. *)

\* Transforming a record leaves its raw bytes alone.
LEMMA RawOfRecord ==
  ASSUME NEW bytes
  PROVE  LET raw == NewRecord(bytes, FALSE).record.RawBytes
         IN IF IsStream(bytes)
            THEN ReadFields(raw) = [ReadFields(bytes) EXCEPT !["DeliveredAtEpochMs"] = Now]
            ELSE raw = bytes
<1> DEFINE m == SetDeliveredAt(StreamMessageFromBytes(bytes), Now)
           raw == ToBytes(m)
           parsed == Deserialize(bytes)
           made == NewRecord(bytes, FALSE)
<1>1. made = IF parsed.err # Nil THEN parsed ELSE Transformed(parsed.record)
  BY DEF NewRecord
<1>2. CASE IsStream(bytes)
  <2>1. bytes.shape # "garbage"
    BY <1>2 DEF IsStream
  <2>2. parsed = IF ~identity.ok
                 THEN Result([EmptyRecord(raw) EXCEPT !.Txid = m.fields.TXID,
                                                      !.TxType = m.fields.MessageTopic], "panic")
                 ELSE Result(Deserialized(m, raw), IF KnownSender(m) THEN Nil ELSE "sender")
    BY <1>2, <2>1, Zenon DEF Deserialize
  <2> HIDE DEF m, raw, parsed
  <2>3. parsed.record.RawBytes = raw
    BY <2>2 DEF Result, Deserialized, EmptyRecord
  <2>4. parsed.record = [EmptyRecord(raw) EXCEPT !.Txid = parsed.record.Txid,
          !.TxType = parsed.record.TxType, !.Vin = parsed.record.Vin,
          !.PayloadBytes = parsed.record.PayloadBytes]
    BY <2>2 DEF Result, Deserialized, EmptyRecord
  <2>5. Transformed(parsed.record).record.RawBytes = raw
    BY <2>4 DEF Transformed, Result, EmptyRecord
  <2>6. made.record.RawBytes = raw
    BY <1>1, <2>3, <2>5, Zenon
  <2> QED BY <1>2, <2>6, DeliveredRoundTrip DEF raw, m
<1>3. CASE ~IsStream(bytes)
  <2>1. parsed = IF bytes.shape = "garbage" THEN Result(EmptyRecord(bytes), "panic")
                 ELSE Result(guessError(bytes), "unknown type")
    BY <1>3, Zenon DEF Deserialize
  <2> HIDE DEF parsed
  <2>2. parsed.record.RawBytes = bytes
    BY <2>1 DEF Result, guessError, EmptyRecord
  <2>3. parsed.record = [EmptyRecord(bytes) EXCEPT !.Txid = parsed.record.Txid,
          !.TxType = parsed.record.TxType, !.Vin = parsed.record.Vin,
          !.PayloadBytes = parsed.record.PayloadBytes]
    BY <2>1 DEF Result, guessError, EmptyRecord
  <2>4. Transformed(parsed.record).record.RawBytes = bytes
    BY <2>3 DEF Transformed, Result, EmptyRecord
  <2>5. made.record.RawBytes = bytes
    BY <1>1, <2>2, <2>4, Zenon
  <2> QED BY <1>3, <2>5
<1> QED BY <1>2, <1>3

\* The id of every envelope with a union is kept, and the type of a stream.
LEMMA IdOfRecord ==
  ASSUME NEW bytes, bytes.shape = "envelope", bytes.union # Nil
  PROVE  LET rec == NewRecord(bytes, FALSE).record
         IN /\ rec.Txid = EnvelopeBytes(bytes.table, "TXID")
            /\ IsStream(bytes) => rec.TxType = EnvelopeBytes(bytes.table, "MessageTopic")
<1> DEFINE m == SetDeliveredAt(StreamMessageFromBytes(bytes), Now)
           raw == ToBytes(m)
           parsed == Deserialize(bytes)
           made == NewRecord(bytes, FALSE)
<1>1. made = IF parsed.err # Nil THEN parsed ELSE Transformed(parsed.record)
  BY DEF NewRecord
<1>2. CASE IsStream(bytes)
  <2>1. parsed = IF ~identity.ok
                 THEN Result([EmptyRecord(raw) EXCEPT !.Txid = m.fields.TXID,
                                                      !.TxType = m.fields.MessageTopic], "panic")
                 ELSE Result(Deserialized(m, raw), IF KnownSender(m) THEN Nil ELSE "sender")
    BY <1>2, Zenon DEF Deserialize
  <2>2. /\ m.fields.TXID = EnvelopeBytes(bytes.table, "TXID")
        /\ m.fields.MessageTopic = EnvelopeBytes(bytes.table, "MessageTopic")
    BY DEF SetDeliveredAt, StreamMessageFromBytes, ReadFields, Fields, EnvelopeVectors
  <2> HIDE DEF m, raw, parsed
  <2>3. /\ parsed.record.Txid = m.fields.TXID
        /\ parsed.record.TxType = m.fields.MessageTopic
    BY <2>1 DEF Result, Deserialized, EmptyRecord
  <2>4. parsed.record = [EmptyRecord(raw) EXCEPT !.Txid = parsed.record.Txid,
          !.TxType = parsed.record.TxType, !.Vin = parsed.record.Vin,
          !.PayloadBytes = parsed.record.PayloadBytes]
    BY <2>1 DEF Result, Deserialized, EmptyRecord
  <2>5. LET after == Transformed(parsed.record).record
        IN after.Txid = parsed.record.Txid /\ after.TxType = parsed.record.TxType
    BY <2>4 DEF Transformed, Result, EmptyRecord
  <2>6. made.record.Txid = parsed.record.Txid /\ made.record.TxType = parsed.record.TxType
    BY <1>1, <2>5, Zenon
  <2> QED BY <2>2, <2>3, <2>6
<1>3. CASE ~IsStream(bytes)
  <2>1. parsed = Result(guessError(bytes), "unknown type")
    BY <1>3, Zenon DEF Deserialize
  <2>2. guessError(bytes) = [EmptyRecord(bytes) EXCEPT !.Txid = EnvelopeBytes(bytes.table, "TXID")]
    BY DEF guessError
  <2> HIDE DEF parsed
  <2>3. parsed.record.Txid = EnvelopeBytes(bytes.table, "TXID")
    BY <2>1, <2>2 DEF Result, EmptyRecord
  <2>4. parsed.record = [EmptyRecord(bytes) EXCEPT !.Txid = parsed.record.Txid,
          !.TxType = parsed.record.TxType, !.Vin = parsed.record.Vin,
          !.PayloadBytes = parsed.record.PayloadBytes]
    BY <2>1, <2>2 DEF Result, EmptyRecord
  <2>5. LET after == Transformed(parsed.record).record
        IN after.Txid = parsed.record.Txid /\ after.TxType = parsed.record.TxType
    BY <2>4 DEF Transformed, Result, EmptyRecord
  <2>6. made.record.Txid = parsed.record.Txid
    BY <1>1, <2>5, Zenon
  <2> QED BY <1>3, <2>3, <2>6
<1> QED BY <1>2, <1>3
-----------------------------------------------------------------------------
(* The handler keeps the record it made, and answers with it. *)

Answers == {Ack(record), Error(record)}

IInv ==
  IF step \in {"read", "parse"} THEN record = Nil /\ replies = <<>>
  ELSE record = NewRecord(arrival.bytes, arrival.big).record /\ replies \in Seq(Answers)

LEMMA InitIInv == Init => IInv
BY DEF Init, IInv

\* NewRecord does not change while the connection lasts.
LEMMA SameRecord ==
  ASSUME UNCHANGED <<connection, arrival>>
  PROVE  NewRecord(arrival.bytes, arrival.big)' = NewRecord(arrival.bytes, arrival.big)
BY DEF connection, NewRecord, Deserialize, Deserialized, KnownSender, Transformed

LEMMA NextIInv == IInv /\ [Next]_vars => IInv'
<1> SUFFICES ASSUME IInv, [Next]_vars PROVE IInv' OBVIOUS
<1> DEFINE made == NewRecord(arrival.bytes, arrival.big)
<1>1. CASE Read BY <1>1 DEF Read, IInv, outcome
<1>2. CASE Parse
  <2>1. /\ step = "parse"
        /\ record' = made.record
        /\ UNCHANGED <<connection, arrival, outcome>>
    BY <1>2, Zenon DEF Parse
  <2>2. step' \notin {"read", "parse"}
    BY <1>2 DEF Parse
  <2>3. replies' = <<>>
    BY <2>1 DEF IInv, outcome
  <2>4. made' = made
    BY <2>1, SameRecord
  <2>5. replies' \in Seq(Answers')
    BY <2>3
  <2> QED BY <2>1, <2>2, <2>4, <2>5 DEF IInv
<1>3. ASSUME step \notin {"read", "parse"}, step' \notin {"read", "parse"},
             UNCHANGED <<connection, arrival, record, replies>>
      PROVE  IInv'
  <2>1. made' = made BY <1>3, SameRecord
  <2>2. Answers' = Answers BY <1>3 DEF Answers, Ack, Error
  <2> QED BY <1>3, <2>1, <2>2 DEF IInv
<1>4. CASE \E producer \in {"mqtt", "logger"} : Panic(producer)
  BY <1>3, <1>4 DEF Panic, Turn, outcome
<1>5. CASE ProduceBytes
  BY <1>3, <1>5 DEF ProduceBytes, Turn
<1>6. CASE ProduceMqtt
  BY <1>3, <1>6 DEF ProduceMqtt, Turn
<1>7. CASE ProduceLogger
  BY <1>3, <1>7 DEF ProduceLogger, Turn
<1>8. CASE Ingest
  BY <1>3, <1>8 DEF Ingest
<1>9. ASSUME step \notin {"read", "parse"}, step' \notin {"read", "parse"}, respondToVehicle,
             UNCHANGED <<connection, arrival, record>>
      PROVE  IInv'
  <2>1. made' = made BY <1>9, SameRecord
  <2>2. Answers' = Answers BY <1>9 DEF Answers, Ack, Error
  <2>3. \E answer \in Answers : replies' = Append(replies, answer)
    BY <1>9 DEF respondToVehicle, Answers
  <2>4. replies \in Seq(Answers) BY <1>9 DEF IInv
  <2> HIDE DEF made
  <2>5. replies' \in Seq(Answers)
    <3> HIDE DEF Answers
    <3> QED BY <2>3, <2>4
  <2> QED BY <1>9, <2>1, <2>2, <2>5 DEF IInv, made
<1>10. CASE Acknowledge
  BY <1>9, <1>10 DEF Acknowledge
<1>11. CASE Respond
  BY <1>9, <1>11 DEF Respond
<1>12. CASE UNCHANGED vars
  <2>1. UNCHANGED <<connection, arrival, record, step, replies>>
    BY <1>12 DEF vars, outcome
  <2>2. CASE step \in {"read", "parse"}
    BY <2>1, <2>2 DEF IInv
  <2>3. CASE step \notin {"read", "parse"}
    BY <1>3, <2>1, <2>3
  <2> QED BY <2>2, <2>3
<1> QED BY <1>1, <1>2, <1>4, <1>5, <1>6, <1>7, <1>8, <1>10, <1>11, <1>12 DEF Next

THEOREM IInvHolds == Spec => []IInv
BY InitIInv, NextIInv, PTL DEF Spec

\* The raw bytes of every record are the vehicle's message with the time of
\* arrival in it.
THEOREM RawKept == Spec => []RawKeepsMessage
<1>1. IInv => RawKeepsMessage
  <2> SUFFICES ASSUME IInv, record # Nil, ~arrival.big PROVE RawKeepsMessage
    BY DEF RawKeepsMessage
  <2>1. record = NewRecord(arrival.bytes, arrival.big).record BY DEF IInv
  <2>2. NewRecord(arrival.bytes, arrival.big) = NewRecord(arrival.bytes, FALSE) BY DEF NewRecord
  <2>3. record = NewRecord(arrival.bytes, FALSE).record BY <2>1, <2>2, Zenon
  <2> QED BY <2>3, RawOfRecord DEF RawKeepsMessage
<1> QED BY <1>1, IInvHolds, PTL

\* Every answer names the message it is for.
THEOREM RepliesNamed == Spec => []ReplyNamesMessage
<1>1. IInv => ReplyNamesMessage
  <2> SUFFICES ASSUME IInv, NEW i \in DOMAIN replies,
                      arrival.bytes.shape = "envelope", arrival.bytes.union # Nil, ~arrival.big
               PROVE  /\ EnvelopeBytes(replies[i].table, "TXID") = EnvelopeBytes(arrival.bytes.table, "TXID")
                      /\ IsStream(arrival.bytes) /\ replies[i].type = MessageFlatbuffersStreamAck =>
                           AckFromBytes(replies[i])["MessageTopic"]
                             = EnvelopeBytes(arrival.bytes.table, "MessageTopic")
    BY DEF ReplyNamesMessage
  <2>1. /\ record = NewRecord(arrival.bytes, arrival.big).record
        /\ replies[i] \in Answers
    BY DEF IInv
  <2>2. NewRecord(arrival.bytes, arrival.big) = NewRecord(arrival.bytes, FALSE) BY DEF NewRecord
  <2>3. record = NewRecord(arrival.bytes, FALSE).record BY <2>1, <2>2, Zenon
  <2>4. /\ record.Txid = EnvelopeBytes(arrival.bytes.table, "TXID")
        /\ IsStream(arrival.bytes) => record.TxType = EnvelopeBytes(arrival.bytes.table, "MessageTopic")
    BY <2>3, IdOfRecord
  <2>5. /\ Ack(record).table = [f \in EnvelopeVectors |->
               [TXID |-> record.Txid, MessageTopic |-> record.TxType, EnvMessageID |-> Nil][f]]
        /\ Error(record).type = MessageFlatbuffersStream
        /\ EnvelopeBytes(Error(record).table, "TXID") = record.Txid
    BY DEF Ack, Error, FlatbuffersStreamAckToBytes, FlatbuffersStreamToBytes, Envelope, EnvelopeTable,
           EnvelopeBytes, EnvelopeVectors, ToBytes, NewMessage, Fields
  <2>6. /\ EnvelopeBytes(Ack(record).table, "TXID") = record.Txid
        /\ AckFromBytes(Ack(record))["MessageTopic"] = record.TxType
    BY <2>5 DEF EnvelopeBytes, AckFromBytes, EnvelopeVectors
  <2> QED BY <2>1, <2>4, <2>5, <2>6 DEF Answers, MessageFlatbuffersStream, MessageFlatbuffersStreamAck
<1> QED BY <1>1, IInvHolds, PTL
-----------------------------------------------------------------------------
(* Identities. *)

\* Two segments are split where they were joined.
LEMMA JoinAndSplit ==
  ASSUME NEW type, NEW id
  PROVE  LET joined == <<type>> \o <<id>>
         IN /\ SubSeq(joined, 1, 1) = <<type>>
            /\ ParseSenderID(joined) = << <<type>>, <<id>> >>
<1> DEFINE joined == <<type>> \o <<id>>
           S == {type, id}
<1>1. <<type>> \in Seq(S) /\ <<id>> \in Seq(S) /\ Len(<<type>>) = 1 /\ Len(<<id>>) = 1
  OBVIOUS
<1> HIDE DEF S
<1>2. /\ joined \in Seq(S) /\ Len(joined) = 2
      /\ joined[1] = type /\ joined[2] = id
  BY <1>1, ConcatProperties, Z3
<1> HIDE DEF joined
<1>3. ASSUME NEW i \in 1..2, NEW x \in S, joined[i] = x
      PROVE  SubSeq(joined, i, i) = <<x>>
  <2>1. /\ SubSeq(joined, i, i) \in Seq(S)
        /\ Len(SubSeq(joined, i, i)) = 1
        /\ SubSeq(joined, i, i)[1] = x
    BY <1>2, <1>3, SubSeqProperties
  <2>2. <<x>> \in Seq(S) /\ Len(<<x>>) = 1 /\ <<x>>[1] = x
    OBVIOUS
  <2>3. \A k \in 1 .. Len(SubSeq(joined, i, i)) : SubSeq(joined, i, i)[k] = <<x>>[k]
    BY <2>1, <2>2
  <2> HIDE DEF S
  <2> QED BY <2>1, <2>2, <2>3, SeqEqual, Zenon
<1>4. SubSeq(joined, 1, 1) = <<type>> /\ SubSeq(joined, 2, 2) = <<id>>
  BY <1>2, <1>3 DEF S
<1> QED BY <1>2, <1>4 DEF ParseSenderID, joined

\* The sender id that a connection's records are compared with can be taken
\* apart again, for any certificate.
THEOREM IdentitiesSplit == Spec => []SenderIDSplits
<1> DEFINE Identities == {RequestIdentity(cert) : cert \in Certificates}
<1>1. Init => identity \in Identities
  BY DEF Init
<1>2. identity \in Identities /\ [Next]_vars => (identity \in Identities)'
  BY DEF Next, vars, connection, Read, Parse, Panic, ProduceBytes, ProduceMqtt, ProduceLogger, Ingest,
         Acknowledge, Respond
<1>3. identity \in Identities => SenderIDSplits
  <2> SUFFICES ASSUME NEW cert \in Certificates, identity = RequestIdentity(cert), identity.ok
               PROVE  SenderIDSplits
    BY DEF SenderIDSplits
  <2> DEFINE id == FlattenSeq(cert.name)
  <2>1. PICK type : /\ identity.DeviceID = <<id>>
                    /\ identity.SenderID = <<type>> \o <<id>>
    <3>1. CreateIdentityFromCert(cert).ok
      BY DEF RequestIdentity, Unauthorized
    <3>2. PICK name : CreateIdentityFromCert(cert) = Identified(name, <<id>>)
      BY <3>1 DEF CreateIdentityFromCert, createIdentifyFromOID, Unauthorized, ReplaceDots
    <3>3. /\ identity.DeviceID = <<id>>
          /\ identity.SenderID = << <<name>> >> \o <<id>>
      BY <3>1, <3>2 DEF RequestIdentity, Identified, BuildClientID
    <3> QED BY <3>3, Zenon
  <2> HIDE DEF id
  <2>2. /\ SubSeq(identity.SenderID, 1, 1) = <<type>>
        /\ ParseSenderID(identity.SenderID) = << <<type>>, <<id>> >>
        /\ BuildClientID(<<type>>, <<id>>) = identity.SenderID
    BY <2>1, JoinAndSplit DEF BuildClientID
  <2>3. Len(identity.DeviceID) = 1
    BY <2>1
  <2> DEFINE message == NewMessage([f \in Fields |-> Nil])
  <2>4. ParseSenderID(identity.SenderID)[1] = <<type>> /\ ParseSenderID(identity.SenderID)[2] = <<id>>
    BY <2>2
  <2> DEFINE sender == identity.SenderID
             before == [f \in Fields |-> Nil]
             one == [[[before EXCEPT !["SenderID"] = sender] EXCEPT !["DeviceType"] = <<type>>]
                       EXCEPT !["DeviceID"] = <<id>>]
             other == [[[before EXCEPT !["DeviceType"] = <<type>>] EXCEPT !["DeviceID"] = <<id>>]
                       EXCEPT !["SenderID"] = sender]
  <2>5. one = other
    BY DEF Fields, StreamVectors, StreamNumbers, EnvelopeVectors
  <2>6. SetSenderID(message, sender) = [fields |-> one, fsm |-> Nil]
    BY <2>4, Zenon DEF SetSenderID, NewMessage
  <2>7. SetIdentity(message, <<type>>, <<id>>) = [fields |-> other, fsm |-> Nil]
    BY <2>2, Zenon DEF SetIdentity, NewMessage
  <2> QED BY <2>1, <2>2, <2>3, <2>5, <2>6, <2>7 DEF SenderIDSplits
<1> QED BY <1>1, <1>2, <1>3, PTL DEF Spec
-----------------------------------------------------------------------------
(* The values of a vehicle's data, and what the stores make of them. *)

\* Enumerations are apart from the other kinds of values.
OtherKinds ==
  {"StringValue", "BooleanValue", "DoorValue", "TireLocationValue", "Unset", "Invalid",
   "LocationValue", "TimeValue"}

LEMMA KindsApart ==
  /\ Enums \cap OtherKinds = {} /\ Enums \cap Numbers = {}
  /\ Numbers \cap OtherKinds = {}
  /\ NamedByMqtt \cap OtherKinds = {} /\ NamedByMqtt \cap Numbers = {}
<1>1. \A numbers \in Enumerations :
        \A x \in OtherKinds \cup Numbers : x \notin DOMAIN numbers
  <2>1. \A numbers \in {Charging, Gearbox, Assistance, LanesAndSchedules, Guards, Batteries, Ports} :
          \A x \in OtherKinds \cup Numbers : x \notin DOMAIN numbers
    BY DEF OtherKinds, Numbers, Charging, Gearbox, Assistance, LanesAndSchedules, Guards,
           Batteries, Ports
  <2>2. \A numbers \in {Latches, Windows, Seats, Trailers, Cabin, Climate, Chargers} :
          \A x \in OtherKinds \cup Numbers : x \notin DOMAIN numbers
    BY DEF OtherKinds, Numbers, Latches, Windows, Seats, Trailers, Cabin, Climate, Chargers
  <2>3. \A numbers \in {Tonneau, Powershare, PowershareReasons, Displays, Units, Media, Players} :
          \A x \in OtherKinds \cup Numbers : x \notin DOMAIN numbers
    BY DEF OtherKinds, Numbers, Tonneau, Powershare, PowershareReasons, Displays, Units, Media,
           Players
  <2> QED BY <2>1, <2>2, <2>3 DEF Enumerations
<1>2. Enums \cap OtherKinds = {} /\ Enums \cap Numbers = {}
  BY <1>1 DEF Enums
<1>3. Numbers \cap OtherKinds = {} /\ NamedByMqtt \cap OtherKinds = {}
        /\ NamedByMqtt \cap Numbers = {}
  BY DEF Numbers, OtherKinds, NamedByMqtt
<1> QED BY <1>2, <1>3

\* The first and the last of a nonempty set of positions.
LEMMA LeastPosition ==
  ASSUME NEW n, NEW T, T \subseteq 1..n, T # {}
  PROVE  \E x \in T : \A y \in T : x <= y
<1>1. T \subseteq Nat
  OBVIOUS
<1>2. PICK x \in T : \A y \in T : ~(<<y, x>> \in OpToRel(<, Nat))
  BY <1>1, NatLessThanWellFounded, WFMin
<1>3. \A y \in T : x <= y
  <2> SUFFICES ASSUME NEW y \in T, ~(x <= y) PROVE FALSE
    OBVIOUS
  <2>1. x \in Nat /\ y \in Nat /\ y < x
    BY <1>1
  <2>2. <<y, x>> \in OpToRel(<, Nat)
    BY <2>1 DEF OpToRel
  <2> QED BY <1>2, <2>2
<1> QED BY <1>3

LEMMA GreatestPosition ==
  ASSUME NEW n \in Nat, NEW T, T \subseteq 1..n, T # {}
  PROVE  Max(T) \in T /\ \A y \in T : y <= Max(T)
<1> DEFINE D == {n - x : x \in T}
<1>1. D \subseteq Nat /\ D # {}
  <2>1. \A x \in T : n - x \in Nat
    <3> TAKE x \in T
    <3>1. x \in 1..n OBVIOUS
    <3> QED BY <3>1
  <2> QED BY <2>1
<1>2. PICK d \in D : \A e \in D : ~(<<e, d>> \in OpToRel(<, Nat))
  BY <1>1, NatLessThanWellFounded, WFMin
<1>3. PICK x \in T : d = n - x
  OBVIOUS
<1>4. \A y \in T : x >= y
  <2> SUFFICES ASSUME NEW y \in T, ~(x >= y) PROVE FALSE
    OBVIOUS
  <2>1. x \in 1..n /\ y \in 1..n /\ x < y
    OBVIOUS
  <2>2. n - y \in D /\ n - y < n - x /\ n - y \in Nat /\ n - x \in Nat
    BY <2>1
  <2>3. <<n - y, n - x>> \in OpToRel(<, Nat)
    BY <2>2 DEF OpToRel
  <2> QED BY <1>2, <1>3, <2>2, <2>3
<1>5. Max(T) \in T /\ \A y \in T : Max(T) >= y
  BY <1>4 DEF Max
<1> HIDE DEF D
<1>6. \A y \in T : y \in Int
  OBVIOUS
<1> QED BY <1>5, <1>6

\* A value has one kind, and its content is of that kind.
LEMMA ValueCases ==
  ASSUME NEW v, IsValue(v)
  PROVE  \/ Kind(v) = "StringValue" /\ IsText(Content(v))
         \/ Kind(v) \in Numbers /\ (Content(v) = NaN \/ Content(v) \in Int)
         \/ Kind(v) \in Enums /\ Kind(v) \notin OtherKinds /\ Kind(v) \notin Numbers
              /\ Content(v) \in Int
         \/ Kind(v) = "BooleanValue" /\ Content(v) \in BOOLEAN
         \/ Kind(v) = "DoorValue" /\ Content(v) \subseteq Doors
         \/ Kind(v) = "TireLocationValue" /\ Content(v) \subseteq Tires
         \/ Kind(v) = "Unset" \/ Kind(v) = "Invalid" \/ Kind(v) = "LocationValue"
         \/ Kind(v) = "TimeValue"
BY KindsApart DEF IsValue

\* The meanings of texts and of JSON, case by case.
LEMMA TextMeanings ==
  /\ \A text : JSONMeaning(String(text)) = TextMeaning(text)
  /\ \A x : JSONMeaning(<<"number", x>>) = <<"number", x>>
  /\ \A x : JSONMeaning(<<"place", x>>) = <<"place", x>>
  /\ \A b : JSONMeaning(<<"bool", b>>) = <<"choice", b>>
  /\ JSONMeaning(<<"null">>) = <<"text", Word("<invalid>")>>
  /\ TextMeaning(Word("<invalid>")) = <<"text", Word("<invalid>")>>
  /\ \A time : TextMeaning(<<"time", time>>) = <<"text", <<"time", time>>>>
  /\ \A n : TextMeaning(Decimal(n)) = <<"number", n>>
  /\ \A kind, n : TextMeaning(EnumString(kind, n)) = <<"number", n>>
<1>1. \A text : JSONMeaning(String(text)) = TextMeaning(text)
  BY DEF JSONMeaning, String
<1>2. /\ \A x : JSONMeaning(<<"number", x>>) = <<"number", x>>
      /\ \A x : JSONMeaning(<<"place", x>>) = <<"place", x>>
      /\ \A b : JSONMeaning(<<"bool", b>>) = <<"choice", b>>
      /\ JSONMeaning(<<"null">>) = <<"text", Word("<invalid>")>>
  BY DEF JSONMeaning
<1>3. /\ TextMeaning(Word("<invalid>")) = <<"text", Word("<invalid>")>>
      /\ \A time : TextMeaning(<<"time", time>>) = <<"text", <<"time", time>>>>
      /\ \A n : TextMeaning(Decimal(n)) = <<"number", n>>
      /\ \A kind, n : TextMeaning(<<"name", kind, n>>) = <<"number", n>>
  BY DEF TextMeaning, IsLocation, Word, Decimal
<1>4. \A kind, n : TextMeaning(EnumString(kind, n)) = <<"number", n>>
  BY <1>3 DEF EnumString
<1> QED BY <1>1, <1>2, <1>3, <1>4

LEMMA FlagsMeaning ==
  ASSUME NEW names, NEW set, set \subseteq names
  PROVE  JSONMeaning(Flags(names, set)) = <<"choice", set>>
<1> DEFINE flags == [f \in names |-> f \in set]
<1>1. JSONMeaning(<<"flags", flags>>) = <<"choice", {f \in DOMAIN flags : flags[f]}>>
  BY DEF JSONMeaning
<1>2. {f \in DOMAIN flags : flags[f]} = set
  OBVIOUS
<1> QED BY <1>1, <1>2 DEF Flags

\* The logger's JSON of a value means what the value does, for every kind it
\* has a case for.
LEMMA LoggerMeans ==
  ASSUME NEW v, IsValue(v), Kind(v) \notin UnknownToLogger,
         NEW types, NEW model, types = FALSE \/ Kind(v) # "Invalid"
  PROVE  JSONMeaning(OutputValue(v, types, model)) = Meaning(v)
<1> DEFINE k == Kind(v)
           c == Content(v)
<1>1. CASE k = "StringValue"
  BY <1>1, TextMeanings DEF OutputValue, Meaning
<1>2. CASE k \in Numbers
  BY <1>2, TextMeanings, KindsApart DEF OutputValue, Meaning, OtherKinds
<1>3. CASE k \in Enums
  BY <1>3, TextMeanings, KindsApart DEF OutputValue, Meaning, OtherKinds
<1>4. CASE k = "BooleanValue"
  BY <1>4, TextMeanings, KindsApart DEF OutputValue, Meaning, OtherKinds
<1>5. CASE k = "DoorValue" /\ c \subseteq Doors
  <2>1. OutputValue(v, types, model) = Flags(Doors, c)
    BY <1>5, KindsApart DEF OutputValue, OtherKinds
  <2>2. Meaning(v) = <<"choice", c>>
    BY <1>5, KindsApart DEF Meaning, OtherKinds
  <2> QED BY <1>5, <2>1, <2>2, FlagsMeaning
<1>6. CASE k = "TireLocationValue" /\ c \subseteq Tires
  <2> DEFINE names == IF model = "T" THEN SemiTires ELSE Tires
  <2>1. OutputValue(v, types, model) = Flags(names, c)
    BY <1>6, KindsApart DEF OutputValue, OtherKinds
  <2>2. Meaning(v) = <<"choice", c>>
    BY <1>6, KindsApart DEF Meaning, OtherKinds
  <2>3. c \subseteq names
    BY <1>6 DEF SemiTires
  <2> QED BY <2>1, <2>2, <2>3, FlagsMeaning
<1>7. CASE k = "Invalid"
  BY <1>7, TextMeanings, KindsApart DEF OutputValue, InvalidValue, Meaning, OtherKinds
<1>8. CASE k = "LocationValue"
  BY <1>8, TextMeanings, KindsApart DEF OutputValue, Meaning, OtherKinds
<1>9. CASE k = "TimeValue"
  BY <1>9, TextMeanings, KindsApart DEF OutputValue, Meaning, OtherKinds
<1> QED
  BY <1>1, <1>2, <1>3, <1>4, <1>5, <1>6, <1>7, <1>8, <1>9, ValueCases DEF UnknownToLogger

\* So does what the mqtt producer publishes.
LEMMA MqttMeans ==
  ASSUME NEW v, IsValue(v), Kind(v) # "Unset"
  PROVE  JSONMeaning(getDatumValue(v)) = Meaning(v)
<1> DEFINE k == Kind(v)
           c == Content(v)
<1>1. CASE k = "StringValue"
  BY <1>1, TextMeanings, KindsApart DEF getDatumValue, Meaning, OtherKinds
<1>2. CASE k \in Numbers
  BY <1>2, TextMeanings, KindsApart DEF getDatumValue, Meaning, OtherKinds
<1>3. CASE k \in Enums
  <2>1. Meaning(v) = <<"number", c>>
    BY <1>3, KindsApart DEF Meaning, OtherKinds
  <2>2. CASE k \in NamedByMqtt
    BY <1>3, <2>1, <2>2, TextMeanings, KindsApart DEF getDatumValue, OtherKinds
  <2>3. CASE k \notin NamedByMqtt
    <3>1. getDatumValue(v) = getProtoValue(v)
      BY <1>3, <2>3, KindsApart DEF getDatumValue, OtherKinds
    <3>2. getProtoValue(v) = IF c \in Declared(k) THEN String(EnumString(k, c)) ELSE <<"number", c>>
      BY <1>3, KindsApart DEF getProtoValue, OtherKinds
    <3> QED BY <2>1, <3>1, <3>2, TextMeanings
  <2> QED BY <2>2, <2>3
<1>4. CASE k = "BooleanValue"
  BY <1>4, TextMeanings, KindsApart DEF getDatumValue, Meaning, OtherKinds
<1>5. CASE k = "DoorValue" /\ c \subseteq Doors
  <2>1. getDatumValue(v) = Flags(Doors, c)
    BY <1>5, KindsApart DEF getDatumValue, OtherKinds
  <2>2. Meaning(v) = <<"choice", c>>
    BY <1>5, KindsApart DEF Meaning, OtherKinds
  <2> QED BY <1>5, <2>1, <2>2, FlagsMeaning
<1>6. CASE k = "TireLocationValue"
  <2>1. getDatumValue(v) = getProtoValue(v)
    BY <1>6, KindsApart DEF getDatumValue, OtherKinds
  <2>2. getProtoValue(v) = Flags(c, c)
    BY <1>6, KindsApart DEF getProtoValue, OtherKinds
  <2>3. Meaning(v) = <<"choice", c>>
    BY <1>6, KindsApart DEF Meaning, OtherKinds
  <2> QED BY <2>1, <2>2, <2>3, FlagsMeaning
<1>7. CASE k = "Invalid"
  BY <1>7, TextMeanings, KindsApart DEF getDatumValue, Meaning, OtherKinds
<1>8. CASE k = "LocationValue"
  BY <1>8, TextMeanings, KindsApart DEF getDatumValue, Meaning, OtherKinds
<1>9. CASE k = "TimeValue"
  BY <1>9, TextMeanings, KindsApart DEF getDatumValue, Meaning, OtherKinds
<1> QED
  BY <1>1, <1>2, <1>3, <1>4, <1>5, <1>6, <1>7, <1>8, <1>9, ValueCases

-----------------------------------------------------------------------------
(* What the transforms of a new record make of a vehicle's data. *)

\* What a value may become: a location, or a plain decimal.
Becomes(v, w, key) ==
  \/ w = v
  \/ /\ v # Nil /\ key = "Location" /\ Kind(v) = "StringValue" /\ IsLocation(Content(v))
     /\ w = <<"LocationValue", ParseLocation(Content(v))>>
  \/ /\ v # Nil /\ Kind(v) = "StringValue" /\ Content(v)[1] = "scientific"
     /\ w = <<"StringValue", Decimal(Shortened(Content(v)[2]))>>

LEMMA LocationsOnly ==
  ASSUME NEW data, IsData(data)
  PROVE  LET new == transformLocation(data)
         IN /\ DOMAIN new = DOMAIN data
            /\ \A i \in DOMAIN data :
                 \/ new[i] = data[i]
                 \/ /\ data[i].key = "Location" /\ data[i].value # Nil
                    /\ Kind(data[i].value) = "StringValue" /\ IsLocation(Content(data[i].value))
                    /\ new[i] = Datum("Location", <<"LocationValue", ParseLocation(Content(data[i].value))>>)
<1> DEFINE I == {i \in 1..Len(data) : data[i].key = "Location"}
           first == SelectInSeq(data, LAMBDA datum : datum.key = "Location")
           new == transformLocation(data)
<1>1. first = IF I # {} THEN Min(I) ELSE 0
  BY DEF SelectInSeq
<1>2. first = 0 \/ first \in I
  <2>1. CASE I = {}
    BY <1>1, <2>1
  <2>2. CASE I # {}
    <3>1. PICK x \in I : \A y \in I : x <= y
      BY <2>2, LeastPosition
    <3>2. Min(I) \in I
      BY <3>1 DEF Min
    <3> QED BY <1>1, <2>2, <3>2
  <2> QED BY <2>1, <2>2
<1>3. new = IF first = 0 THEN data
            ELSE IF data[first].value = Nil THEN data
            ELSE IF Kind(data[first].value) # "StringValue" THEN data
            ELSE IF ~IsLocation(Content(data[first].value)) THEN data
            ELSE [data EXCEPT ![first].value =
                    <<"LocationValue", ParseLocation(Content(data[first].value))>>]
  BY DEF transformLocation
<1> HIDE DEF first, new
<1>4. CASE new = data
  BY <1>4 DEF new
<1>5. CASE /\ first \in I /\ data[first].value # Nil
           /\ Kind(data[first].value) = "StringValue" /\ IsLocation(Content(data[first].value))
           /\ new = [data EXCEPT ![first].value =
                       <<"LocationValue", ParseLocation(Content(data[first].value))>>]
  <2> DEFINE value == <<"LocationValue", ParseLocation(Content(data[first].value))>>
  <2> HIDE DEF value
  <2>1. first \in DOMAIN data /\ data[first].key = "Location"
    BY <1>5 DEF IsData
  <2>2. data[first] = [key |-> data[first].key, value |-> data[first].value]
    BY <2>1 DEF IsData, Datum
  <2>3. new = [data EXCEPT ![first] = [data[first] EXCEPT !.value = value]]
    BY <1>5 DEF value
  <2>4. [data[first] EXCEPT !.value = value] = Datum("Location", value)
    BY <2>1, <2>2 DEF Datum
  <2>5. DOMAIN new = DOMAIN data /\ new[first] = Datum("Location", value)
        /\ \A i \in DOMAIN data \ {first} : new[i] = data[i]
    BY <2>1, <2>3, <2>4
  <2> QED BY <1>5, <2>1, <2>5 DEF new, value
<1> QED BY <1>2, <1>3, <1>4, <1>5

LEMMA DecimalsOnly ==
  ASSUME NEW data, \A i \in DOMAIN data : data[i] = Datum(data[i].key, data[i].value)
  PROVE  LET new == transformScientificNotation(data)
         IN /\ DOMAIN new = DOMAIN data
            /\ \A i \in DOMAIN data :
                 \/ new[i] = data[i]
                 \/ /\ data[i].value # Nil /\ Kind(data[i].value) = "StringValue"
                    /\ Content(data[i].value)[1] = "scientific"
                    /\ new[i] = Datum(data[i].key,
                         <<"StringValue", Decimal(Shortened(Content(data[i].value)[2]))>>)
<1> DEFINE new == transformScientificNotation(data)
<1>1. DOMAIN new = DOMAIN data
  BY DEF transformScientificNotation
<1>2. ASSUME NEW i \in DOMAIN data
      PROVE  \/ new[i] = data[i]
             \/ /\ data[i].value # Nil /\ Kind(data[i].value) = "StringValue"
                /\ Content(data[i].value)[1] = "scientific"
                /\ new[i] = Datum(data[i].key,
                     <<"StringValue", Decimal(Shortened(Content(data[i].value)[2]))>>)
  <2> DEFINE value == <<"StringValue", Decimal(Shortened(Content(data[i].value)[2]))>>
  <2>1. new[i] = IF data[i].value = Nil THEN data[i]
                 ELSE IF Kind(data[i].value) # "StringValue" THEN data[i]
                 ELSE IF Content(data[i].value)[1] # "scientific" THEN data[i]
                 ELSE [data[i] EXCEPT !.value = value]
    BY DEF transformScientificNotation
  <2> HIDE DEF value, new
  <2>2. data[i] = [key |-> data[i].key, value |-> data[i].value]
    BY DEF Datum
  <2>3. [data[i] EXCEPT !.value = value] = Datum(data[i].key, value)
    BY <2>2 DEF Datum
  <2> QED BY <2>1, <2>3 DEF value
<1> QED BY <1>1, <1>2

\* A datum keeps its place and its field.
LEMMA DataTransformed ==
  ASSUME NEW data, IsData(data)
  PROVE  LET new == transformScientificNotation(transformLocation(data))
         IN /\ DOMAIN new = DOMAIN data
            /\ \A i \in DOMAIN data :
                 /\ new[i].key = data[i].key
                 /\ Becomes(data[i].value, new[i].value, data[i].key)
<1> DEFINE middle == transformLocation(data)
           new == transformScientificNotation(middle)
<1>1. /\ DOMAIN middle = DOMAIN data
      /\ \A i \in DOMAIN data :
           \/ middle[i] = data[i]
           \/ /\ data[i].key = "Location" /\ data[i].value # Nil
              /\ Kind(data[i].value) = "StringValue" /\ IsLocation(Content(data[i].value))
              /\ middle[i] = Datum("Location", <<"LocationValue", ParseLocation(Content(data[i].value))>>)
  BY LocationsOnly
<1> HIDE DEF middle
<1>2. \A i \in DOMAIN middle : middle[i] = Datum(middle[i].key, middle[i].value)
  <2>1. \A i \in DOMAIN data : data[i] = Datum(data[i].key, data[i].value)
    BY DEF IsData
  <2> QED BY <1>1, <2>1 DEF Datum
<1>3. /\ DOMAIN new = DOMAIN middle
      /\ \A i \in DOMAIN middle :
           \/ new[i] = middle[i]
           \/ /\ middle[i].value # Nil /\ Kind(middle[i].value) = "StringValue"
              /\ Content(middle[i].value)[1] = "scientific"
              /\ new[i] = Datum(middle[i].key,
                   <<"StringValue", Decimal(Shortened(Content(middle[i].value)[2]))>>)
  BY <1>2, DecimalsOnly
<1> HIDE DEF new
<1>4. ASSUME NEW i \in DOMAIN data
      PROVE  new[i].key = data[i].key /\ Becomes(data[i].value, new[i].value, data[i].key)
  <2>1. CASE middle[i] = data[i]
    BY <1>1, <1>3, <2>1 DEF Becomes, Datum
  <2>2. CASE /\ data[i].key = "Location" /\ data[i].value # Nil
             /\ Kind(data[i].value) = "StringValue" /\ IsLocation(Content(data[i].value))
             /\ middle[i] = Datum("Location", <<"LocationValue", ParseLocation(Content(data[i].value))>>)
    <3>1. Kind(middle[i].value) = "LocationValue" /\ middle[i].key = "Location"
      BY <2>2 DEF Datum, Kind
    <3>2. new[i] = middle[i]
      BY <1>1, <1>3, <3>1
    <3> QED BY <2>2, <3>1, <3>2 DEF Becomes, Datum
  <2> QED BY <1>1, <2>1, <2>2
<1> QED BY <1>1, <1>3, <1>4 DEF new, middle

\* Values keep what they say, as far as a float says what a text says.
LEMMA BecomesSaid ==
  ASSUME NEW v, NEW w, NEW key, v # Nil, IsValue(v), Becomes(v, w, key)
  PROVE  /\ IsValue(w)
         /\ Kind(w) = Kind(v) \/ (Kind(v) = "StringValue" /\ Kind(w) = "LocationValue")
         /\ Says(Meaning(w), v)
<1>1. Says(Meaning(v), v)
  <2>1. CASE Kind(v) = "StringValue" /\ Content(v)[1] = "scientific"
    <3>1. PICK n \in Numerals : n = Content(v)[2]
      BY <2>1, ValueCases, KindsApart DEF IsText, OtherKinds
    <3>2. n \in Int /\ Close(n, n)
      <4>1. n \in Int /\ Precision \in Nat
        BY PayloadsAssumption
      <4>2. Magnitude(n - n) = 0 /\ Magnitude(n) \in Nat
        BY <4>1 DEF Magnitude
      <4>3. (0 - 5) * Precision <= Magnitude(n)
        BY <4>1, <4>2
      <4> QED BY <4>1, <4>2, <4>3 DEF Close
    <3>3. Meaning(v) = <<"number", n>>
      <4>1. Meaning(v) = TextMeaning(Content(v))
        BY <2>1, KindsApart DEF Meaning, OtherKinds
      <4> QED BY <2>1, <3>1, <4>1 DEF TextMeaning, IsLocation
    <3> QED BY <2>1, <3>1, <3>2, <3>3 DEF Says
  <2>2. CASE ~(Kind(v) = "StringValue" /\ Content(v)[1] = "scientific")
    BY <2>2 DEF Says
  <2> QED BY <2>1, <2>2
<1>2. CASE w = v
  BY <1>1, <1>2
<1>3. CASE /\ Kind(v) = "StringValue" /\ IsLocation(Content(v))
           /\ w = <<"LocationValue", ParseLocation(Content(v))>>
  <2> DEFINE text == Content(v)
  <2>1. text[2] \in Int /\ text[4] \in Int
    BY <1>3, ValueCases, KindsApart DEF IsText, IsLocation, OtherKinds
  <2>2. Meaning(w) = <<"place", ParseLocation(text)>> /\ Kind(w) = "LocationValue"
    BY <1>3, KindsApart DEF Meaning, Kind, Content, OtherKinds
  <2>3. Meaning(v) = <<"place", [latitude |-> Sign[text[3]] * text[2],
                                 longitude |-> Sign[text[5]] * text[4]]>>
    <3>1. Meaning(v) = TextMeaning(text)
      BY <1>3, KindsApart DEF Meaning, OtherKinds
    <3> QED BY <1>3, <3>1 DEF TextMeaning
  <2>4. /\ Sign[text[3]] * text[2] = IF text[3] = "S" THEN -text[2] ELSE text[2]
        /\ Sign[text[5]] * text[4] = IF text[5] = "W" THEN -text[4] ELSE text[4]
    <3>1. text[3] \in {"N", "S"} /\ text[5] \in {"E", "W"}
      BY <1>3 DEF IsLocation
    <3>2. Sign["N"] = 1 /\ Sign["S"] = -1 /\ Sign["E"] = 1 /\ Sign["W"] = -1
      BY DEF Sign
    <3> HIDE DEF text
    <3>3. \A n \in Int : 1 * n = n /\ (-1) * n = -n
      OBVIOUS
    <3> QED BY <2>1, <3>1, <3>2, <3>3
  <2>5. Meaning(w) = Meaning(v)
    BY <2>2, <2>3, <2>4 DEF ParseLocation, Place
  <2>6. IsValue(w)
    BY <2>2 DEF IsValue
  <2>7. Content(v)[1] # "scientific"
    BY <1>3 DEF IsLocation
  <2> QED BY <1>3, <2>2, <2>5, <2>6, <2>7 DEF Says
<1>4. CASE /\ Kind(v) = "StringValue" /\ Content(v)[1] = "scientific"
           /\ w = <<"StringValue", Decimal(Shortened(Content(v)[2]))>>
  <2>1. PICK n : n = Content(v)[2]
    OBVIOUS
  <2>2. n \in Numerals /\ n \in Int
    BY <1>4, <2>1, ValueCases, KindsApart, PayloadsAssumption DEF IsText, OtherKinds
  <2>3. Kind(w) = "StringValue" /\ Content(w) = Decimal(Shortened(n))
    BY <1>4, <2>1 DEF Kind, Content
  <2>5. Meaning(w) = <<"number", Shortened(n)>>
    <3>1. Meaning(w) = TextMeaning(Content(w))
      BY <2>3, KindsApart DEF Meaning, OtherKinds
    <3> QED BY <2>3, <3>1, TextMeanings
  <2>6. Shortened(n) \in Int /\ Close(Shortened(n), n)
    BY <2>2, PayloadsAssumption
  <2>7. IsValue(w)
    BY <2>3, <2>6 DEF IsValue, IsText, Decimal
  <2>8. Says(Meaning(w), v)
    BY <1>4, <2>1, <2>5, <2>6 DEF Says
  <2> QED BY <1>4, <2>3, <2>7, <2>8
<1> QED BY <1>2, <1>3, <1>4 DEF Becomes

\* No datum comes or goes: the logger shows the same ones as before.
LEMMA ShownSame ==
  ASSUME NEW said, IsData(said),
         NEW items, items = transformScientificNotation(transformLocation(said))
  PROVE  /\ Len(said) \in Nat /\ DOMAIN said = 1..Len(said) /\ DOMAIN items = DOMAIN said
         /\ \A i \in DOMAIN said : /\ items[i].key = said[i].key /\ said[i].key # ""
                                   /\ Becomes(said[i].value, items[i].value, said[i].key)
                                   /\ said[i].value # Nil => IsValue(said[i].value)
                                   /\ items[i].value # Nil <=> said[i].value # Nil
         /\ Shown(items) = Shown(said)
<1>1. /\ Len(said) \in Nat /\ DOMAIN said = 1..Len(said) /\ DOMAIN items = DOMAIN said
      /\ \A i \in DOMAIN said : /\ items[i].key = said[i].key /\ said[i].key # ""
                                /\ Becomes(said[i].value, items[i].value, said[i].key)
                                /\ said[i].value # Nil => IsValue(said[i].value)
  BY DataTransformed DEF IsData
<1>2. ASSUME NEW i \in DOMAIN said
      PROVE  items[i].value # Nil <=> said[i].value # Nil
  <2>1. PICK v, w : v = said[i].value /\ w = items[i].value
    OBVIOUS
  <2>2. Becomes(v, w, said[i].key) /\ (v # Nil => IsValue(v))
    BY <1>1, <2>1
  <2>3. CASE w = v
    BY <2>1, <2>3
  <2>4. CASE /\ v # Nil /\ Kind(v) = "StringValue" /\ IsLocation(Content(v))
             /\ w = <<"LocationValue", ParseLocation(Content(v))>>
    <3>1. IsText(Content(v))
      BY <2>2, <2>4, ValueCases, KindsApart DEF OtherKinds
    <3>2. PICK text : text = Content(v)
      OBVIOUS
    <3>3. text[2] \in Int /\ text[4] \in Int
      BY <2>4, <3>1, <3>2 DEF IsText, IsLocation
    <3>4. ParseLocation(text) \in [latitude : Int, longitude : Int]
      BY <3>3 DEF ParseLocation, Place
    <3>5. w \in {"LocationValue"} \X [latitude : Int, longitude : Int]
      BY <2>4, <3>2, <3>4
    <3> QED BY <2>1, <2>4, <3>5, PayloadsAssumption
  <2>5. CASE /\ v # Nil /\ Kind(v) = "StringValue" /\ Content(v)[1] = "scientific"
             /\ w = <<"StringValue", Decimal(Shortened(Content(v)[2]))>>
    <3>1. IsText(Content(v))
      BY <2>2, <2>5, ValueCases, KindsApart DEF OtherKinds
    <3>2. PICK n : n = Content(v)[2]
      OBVIOUS
    <3>3. n \in Numerals
      BY <2>5, <3>1, <3>2 DEF IsText
    <3>4. Shortened(n) \in Int
      BY <3>3, PayloadsAssumption
    <3>5. w \in {"StringValue"} \X ({"decimal"} \X Int)
      BY <2>5, <3>2, <3>4 DEF Decimal
    <3> QED BY <2>1, <2>5, <3>5, PayloadsAssumption
  <2> QED BY <2>2, <2>3, <2>4, <2>5 DEF Becomes
<1>3. ASSUME NEW i \in DOMAIN said, said[i].value # Nil
      PROVE  Kind(items[i].value) \in UnknownToLogger <=> Kind(said[i].value) \in UnknownToLogger
  <2>1. \/ Kind(items[i].value) = Kind(said[i].value)
        \/ Kind(said[i].value) = "StringValue" /\ Kind(items[i].value) = "LocationValue"
    BY <1>1, <1>3, BecomesSaid
  <2> QED BY <2>1 DEF UnknownToLogger
<1>4. Shown(items) = Shown(said)
  BY <1>1, <1>2, <1>3 DEF Shown
<1> QED BY <1>1, <1>2, <1>4

LEMMA LastPosition ==
  ASSUME NEW n \in Nat, NEW T, T \subseteq 1..n, NEW i \in T, ~(\E j \in T : j > i)
  PROVE  Max(T) = i
<1>1. PICK x : x = Max(T)
  OBVIOUS
<1>2. x \in T /\ i <= x
  BY <1>1, GreatestPosition
<1>3. x \in Nat /\ i \in Nat /\ ~(x > i)
  BY <1>2
<1>4. x = i
  BY <1>2, <1>3
<1> QED BY <1>1, <1>4

\* The logger's map has the last shown datum of a named field.
Logged(said, items, types, model, map, key) ==
  LET is(i) == map[key] = transformValue(items[i].value, types, model)
  IN /\ key \in DOMAIN map => \E i \in Shown(said) : said[i].key = key /\ is(i)
     /\ \A i \in Shown(said) :
          said[i].key = key /\ ~(\E j \in DOMAIN said : j > i /\ said[j].key = key) =>
            key \in DOMAIN map /\ is(i)

LEMMA LoggedLast ==
  ASSUME NEW said, IsData(said),
         NEW items, items = transformScientificNotation(transformLocation(said)),
         NEW types, NEW model, NEW map, map = PayloadToMap(items, types, model),
         NEW key, key # "", key \notin Unnamed
  PROVE  Logged(said, items, types, model, map, key)
<1> DEFINE T == {i \in Shown(items) : Field_name(items[i].key) = key}
<1>1. /\ Len(said) \in Nat /\ DOMAIN said = 1..Len(said) /\ DOMAIN items = DOMAIN said
      /\ Shown(items) = Shown(said)
      /\ \A i \in DOMAIN said : items[i].key = said[i].key /\ said[i].key # ""
  BY ShownSame
<1>2. T = {i \in Shown(said) : said[i].key = key}
  BY <1>1 DEF Field_name, Shown
<1>3. key \in DOMAIN map <=> T # {}
  BY DEF PayloadToMap
<1>4. key \in DOMAIN map => map[key] = transformValue(items[Max(T)].value, types, model)
  BY DEF PayloadToMap
<1>5. T \subseteq 1..Len(said)
  BY <1>1, <1>2 DEF Shown
<1> HIDE DEF T
<1>6. T # {} => Max(T) \in T /\ \A y \in T : y <= Max(T)
  BY <1>1, <1>5, GreatestPosition
<1>7. key \in DOMAIN map =>
        \E i \in Shown(said) : /\ said[i].key = key
                               /\ map[key] = transformValue(items[i].value, types, model)
  BY <1>2, <1>3, <1>4, <1>6
<1>8. ASSUME NEW i \in Shown(said), said[i].key = key,
             ~(\E j \in DOMAIN said : j > i /\ said[j].key = key)
      PROVE  key \in DOMAIN map /\ map[key] = transformValue(items[i].value, types, model)
  <2>1. i \in T /\ ~(\E j \in T : j > i)
    BY <1>1, <1>2, <1>8 DEF Shown
  <2>2. Max(T) = i
    BY <1>1, <1>5, <2>1, LastPosition
  <2> QED BY <1>3, <1>4, <2>1, <2>2
<1> QED BY <1>7, <1>8 DEF Logged

\* The mqtt producer's map has the last datum of a field.
Latest(said, items, fields, key) ==
  LET is(i) == fields[key] = getDatumValue(items[i].value)
  IN /\ key \in DOMAIN fields => \E i \in DOMAIN said : said[i].key = key /\ is(i)
     /\ \A i \in DOMAIN said :
          said[i].key = key /\ ~(\E j \in DOMAIN said : j > i /\ said[j].key = key) =>
            key \in DOMAIN fields /\ is(i)

LEMMA PublishedLast ==
  ASSUME NEW said, IsData(said),
         NEW items, items = transformScientificNotation(transformLocation(said)), NEW key
  PROVE  Latest(said, items, payloadToMap(items), key)
<1> DEFINE T == {i \in DOMAIN items : items[i].key = key}
           fields == payloadToMap(items)
<1>1. /\ Len(said) \in Nat /\ DOMAIN said = 1..Len(said) /\ DOMAIN items = DOMAIN said
      /\ \A i \in DOMAIN said : items[i].key = said[i].key
  BY ShownSame
<1>2. T = {i \in DOMAIN said : said[i].key = key}
  BY <1>1
<1>3. key \in DOMAIN fields <=> T # {}
  BY DEF payloadToMap
<1>4. key \in DOMAIN fields => fields[key] = getDatumValue(items[Max(T)].value)
  BY DEF payloadToMap
<1>5. T \subseteq 1..Len(said)
  BY <1>1, <1>2
<1> HIDE DEF T, fields
<1>6. T # {} => Max(T) \in T /\ \A y \in T : y <= Max(T)
  BY <1>1, <1>5, GreatestPosition
<1>7. key \in DOMAIN fields =>
        \E i \in DOMAIN said : said[i].key = key /\ fields[key] = getDatumValue(items[i].value)
  BY <1>2, <1>3, <1>4, <1>6
<1>8. ASSUME NEW i \in DOMAIN said, said[i].key = key,
             ~(\E j \in DOMAIN said : j > i /\ said[j].key = key)
      PROVE  key \in DOMAIN fields /\ fields[key] = getDatumValue(items[i].value)
  <2>1. i \in T /\ ~(\E j \in T : j > i)
    BY <1>2, <1>8
  <2>2. Max(T) = i
    BY <1>1, <1>5, <2>1, LastPosition
  <2> QED BY <1>3, <1>4, <2>1, <2>2
<1> QED BY <1>7, <1>8 DEF fields, Latest

-----------------------------------------------------------------------------
(* The record of a vehicle's data, and the gear the application reads. *)

\* A record that has a message is a stream that was decoded and transformed.
LEMMA DecodedRecord ==
  ASSUME NEW bytes, NEW big,
         NEW rec, rec = NewRecord(bytes, big).record, rec.protoMessage # Nil
  PROVE  /\ IsStream(bytes) /\ rec.TxType = EnvelopeBytes(bytes.table, "MessageTopic")
         /\ StreamBytes(bytes.union, "Payload") # Garbage
         /\ \E vin : rec.protoMessage = Transform(rec.TxType, Unmarshal(StreamBytes(bytes.union, "Payload")), vin)
<1> DEFINE m == SetDeliveredAt(StreamMessageFromBytes(bytes), Now)
           raw == ToBytes(m)
           parsed == Deserialize(bytes)
           payload == StreamBytes(bytes.union, "Payload")
<1>1. rec = IF big THEN EmptyRecord(Nil)
            ELSE IF parsed.err # Nil THEN parsed.record ELSE Transformed(parsed.record).record
  BY DEF NewRecord, Result
<1>2. /\ m.fields.MessageTopic = EnvelopeBytes(bytes.table, "MessageTopic")
      /\ m.fields.Payload = payload
  BY DEF SetDeliveredAt, StreamMessageFromBytes, ReadFields, Fields, EnvelopeVectors, StreamVectors
<1>3. \/ /\ parsed = Result(Deserialized(m, raw), Nil)
         /\ IsStream(bytes)
      \/ /\ parsed.err # Nil
         /\ parsed.record.protoMessage = Nil
  <2>1. \/ parsed = Result(EmptyRecord(bytes), "panic")
        \/ parsed = Result(guessError(bytes), "unknown type")
        \/ parsed = Result([EmptyRecord(raw) EXCEPT !.Txid = m.fields.TXID,
                                                    !.TxType = m.fields.MessageTopic], "panic")
        \/ parsed = Result(Deserialized(m, raw), Nil) /\ IsStream(bytes)
        \/ parsed = Result(Deserialized(m, raw), "sender")
    BY Zenon DEF Deserialize
  <2> HIDE DEF parsed, m, raw
  <2>2. CASE parsed = Result(EmptyRecord(bytes), "panic")
    BY <2>2, FramesAssumption DEF Result, EmptyRecord
  <2>3. CASE parsed = Result(guessError(bytes), "unknown type")
    BY <2>3, FramesAssumption DEF Result, guessError, EmptyRecord
  <2>4. CASE parsed = Result([EmptyRecord(raw) EXCEPT !.Txid = m.fields.TXID,
                                                      !.TxType = m.fields.MessageTopic], "panic")
    BY <2>4, FramesAssumption DEF Result, EmptyRecord
  <2>5. CASE parsed = Result(Deserialized(m, raw), "sender")
    BY <2>5, FramesAssumption DEF Result, Deserialized, EmptyRecord
  <2> QED BY <2>1, <2>2, <2>3, <2>4, <2>5
<1>4. /\ ~big /\ IsStream(bytes)
      /\ parsed = Result(Deserialized(m, raw), Nil)
      /\ rec = Transformed(Deserialized(m, raw)).record
  <2> HIDE DEF parsed, m, raw
  <2> QED BY <1>1, <1>3 DEF EmptyRecord, Result
<1>5. PICK old : old = Deserialized(m, raw)
  OBVIOUS
<1> DEFINE message == Transform(old.TxType, Unmarshal(old.PayloadBytes), old.Vin)
           bytesOf == IF config.decoded THEN ToJSON(message) ELSE message
<1>6. /\ old.TxType = EnvelopeBytes(bytes.table, "MessageTopic") /\ old.PayloadBytes = payload
      /\ old = [Txid |-> old.Txid, TxType |-> old.TxType, Vin |-> old.Vin,
                PayloadBytes |-> old.PayloadBytes, RawBytes |-> old.RawBytes, protoMessage |-> Nil]
  <2> HIDE DEF m, raw
  <2> QED BY <1>2, <1>5 DEF Deserialized, EmptyRecord
<1>7. rec = IF old.TxType \notin DecodedTypes
            THEN [old EXCEPT !.PayloadBytes = IF config.decoded THEN ToJSON(Nil) ELSE @]
            ELSE IF old.PayloadBytes = Garbage THEN old
            ELSE [old EXCEPT !.protoMessage = message, !.PayloadBytes = bytesOf]
  <2> HIDE DEF message, bytesOf
  <2>1. rec = Transformed(old).record
    BY <1>4, <1>5
  <2> QED BY <2>1 DEF Transformed, Result, message, bytesOf
<1> HIDE DEF m, raw, parsed, message, bytesOf
<1>8. /\ old.PayloadBytes # Garbage /\ rec.protoMessage = message
      /\ rec.TxType = old.TxType
  BY <1>6, <1>7
<1>9. message = Transform(rec.TxType, Unmarshal(payload), old.Vin)
  BY <1>6, <1>8 DEF message
<1> QED BY <1>4, <1>6, <1>8, <1>9

\* Its data are what the vehicle said, transformed.
LEMMA VehicleRecord ==
  ASSUME NEW bytes, NEW big, Decodable(bytes),
         NEW rec, rec = NewRecord(bytes, big).record, rec.protoMessage # Nil, rec.TxType = "V"
  PROVE  LET said == Unmarshal(StreamBytes(bytes.union, "Payload")).items
         IN /\ IsData(said)
            /\ ItemsOf(rec) = transformScientificNotation(transformLocation(said))
<1> DEFINE payload == StreamBytes(bytes.union, "Payload")
           said == Unmarshal(payload).items
<1>1. /\ IsStream(bytes) /\ "V" = EnvelopeBytes(bytes.table, "MessageTopic") /\ payload # Garbage
      /\ \E vin : rec.protoMessage = Transform("V", Unmarshal(payload), vin)
  BY DecodedRecord
<1>2. ItemsOf(rec) = transformScientificNotation(transformLocation(said))
  BY <1>1 DEF Transform, ItemsOf
<1>3. IsData(said)
  <2>1. payload = Nil \/ IsData(payload.items)
    BY <1>1 DEF Decodable
  <2>2. payload = Nil => said = <<>>
    BY DEF Unmarshal
  <2>3. payload # Nil => said = payload.items
    BY DEF Unmarshal
  <2>4. IsData(<<>>)
    BY DEF IsData
  <2> QED BY <2>1, <2>2, <2>3, <2>4
<1> QED BY <1>2, <1>3

\* Its alerts are those the vehicle listed, with their times converted.
LEMMA AlertsRecord ==
  ASSUME NEW bytes, NEW big, Decodable(bytes),
         NEW rec, rec = NewRecord(bytes, big).record, rec.protoMessage # Nil, rec.TxType = "alerts"
  PROVE  LET said == Unmarshal(StreamBytes(bytes.union, "Payload")).items
         IN IsAlerts(said) /\ ItemsOf(rec) = transformTimestamp(said)
<1> DEFINE payload == StreamBytes(bytes.union, "Payload")
           said == Unmarshal(payload).items
<1>1. /\ IsStream(bytes) /\ "alerts" = EnvelopeBytes(bytes.table, "MessageTopic")
      /\ payload # Garbage
      /\ \E vin : rec.protoMessage = Transform("alerts", Unmarshal(payload), vin)
  BY DecodedRecord
<1>2. ItemsOf(rec) = transformTimestamp(said)
  BY <1>1 DEF Transform, ItemsOf
<1>3. IsAlerts(said)
  <2>1. payload = Nil \/ IsAlerts(payload.items)
    BY <1>1 DEF Decodable
  <2>2. payload = Nil => said = <<>>
    BY DEF Unmarshal
  <2>3. payload # Nil => said = payload.items
    BY DEF Unmarshal
  <2>4. IsAlerts(<<>>)
    BY DEF IsAlerts
  <2> QED BY <2>1, <2>2, <2>3, <2>4
<1> QED BY <1>2, <1>3

\* What a text is taken for, and what it says.
LEMMA GearOfText ==
  ASSUME NEW text
  PROVE  TripService(text) =
           IF text \in {Word("P"), Word("p"), Word("<invalid>")} THEN "parked"
           ELSE IF text \in {Word("D"), Word("d"), Word("R"), Word("N")} THEN "driving" ELSE "skipped"
<1>1. text = Nil => text \notin {Word("P"), Word("p"), Word("D"), Word("d"), Word("R"), Word("N"),
                                 Word("<invalid>")}
  BY PayloadsAssumption
<1>2. \A v, w : v # w => Word(v) # Word(w)
  BY DEF Word
<1>3. Upcase(text) = Word("P") <=> text \in {Word("P"), Word("p")}
  BY <1>2 DEF Upcase
<1>4. Upcase(text) \in {Word("D"), Word("R"), Word("N")} <=>
        text \in {Word("D"), Word("d"), Word("R"), Word("N")}
  BY <1>2 DEF Upcase
<1> QED BY <1>1, <1>3, <1>4 DEF TripService, IsParked, IsDriving

\* Texts that are no words say no gear.
LEMMA NoGear ==
  ASSUME NEW text, text[1] # "word"
  PROVE  text \notin {Word(w) : w \in {"P", "p", "D", "d", "R", "N", "<invalid>", "true"}}
BY DEF Word

\* Which values are permitted, by what JSON they are.
LEMMA PermittedIf ==
  ASSUME NEW data, "Gear" \in DOMAIN data, NEW json, data["Gear"] = json
  PROVE  /\ json[1] = "string" => PermittedGear(data) = json[2]
         /\ json[1] = "number" => PermittedGear(data) = Decimal(json[2])
         /\ json[1] = "bool" => PermittedGear(data) \in {Nil, Word("true")}
         /\ json[1] \notin {"string", "number", "bool"} => PermittedGear(data) = Nil
<1>1. PermittedGear(data) = IF json[1] = "string" THEN json[2]
                            ELSE IF json[1] = "number" THEN Decimal(json[2])
                            ELSE IF json = <<"bool", TRUE>> THEN Word("true") ELSE Nil
  BY Zenon DEF PermittedGear
<1> DEFINE yes == <<"bool", TRUE>>
<1>2. yes[1] = "bool"
  OBVIOUS
<1>3. json = yes => json[1] = "bool"
  BY <1>2, Zenon
<1> HIDE DEF yes
<1> QED BY <1>1, <1>3, Zenon DEF yes

\* The application takes an untyped value for what it says about the gear.
LEMMA GearOfValue ==
  ASSUME NEW v, IsValue(v), v # Nil, Kind(v) \notin UnknownToLogger, NEW model,
         NEW data, "Gear" \in DOMAIN data, data["Gear"] = OutputValue(v, FALSE, model)
  PROVE  TripService(PermittedGear(data)) = SaidGear(v)
<1> DEFINE k == Kind(v)
           c == Content(v)
           gear == PermittedGear(data)
<1>0. TripService(Nil) = "skipped"
  BY DEF TripService
<1>1. CASE k = "StringValue"
  <2>1. data["Gear"] = String(c)
    BY <1>1, KindsApart DEF OutputValue, OtherKinds
  <2>2. gear = c
    BY <2>1, PermittedIf DEF String
  <2> QED BY <1>1, <2>2, GearOfText DEF SaidGear
<1>2. CASE k = "Invalid"
  <2>1. data["Gear"] = String(Word("<invalid>"))
    BY <1>2, KindsApart DEF OutputValue, OtherKinds, InvalidValue
  <2>2. gear = Word("<invalid>")
    BY <2>1, PermittedIf DEF String
  <2> QED BY <1>2, <2>2, GearOfText DEF SaidGear
<1>3. CASE k \notin {"StringValue", "Invalid"}
  <2>1. SaidGear(v) = "skipped"
    BY <1>3 DEF SaidGear
  <2>2. \A text : text[1] # "word" => TripService(text) = "skipped"
    BY GearOfText, NoGear
  <2>3. CASE k \in Numbers
    <3>1. data["Gear"] = <<"number", c>>
      BY <2>3, KindsApart DEF OutputValue, OtherKinds
    <3>2. gear = Decimal(c)
      BY <3>1, PermittedIf
    <3>3. gear[1] # "word"
      BY <3>2 DEF Decimal
    <3> QED BY <2>1, <2>2, <3>3
  <2>4. CASE k \in Enums
    <3>1. data["Gear"] = String(EnumString(k, c))
      BY <2>4, KindsApart DEF OutputValue, OtherKinds
    <3>2. gear = EnumString(k, c)
      BY <3>1, PermittedIf DEF String
    <3>3. gear[1] # "word"
      BY <3>2 DEF EnumString, Decimal
    <3> QED BY <2>1, <2>2, <3>3
  <2>5. CASE k = "BooleanValue"
    <3>1. data["Gear"] = <<"bool", c>>
      BY <2>5, KindsApart DEF OutputValue, OtherKinds
    <3>2. gear \in {Nil, Word("true")}
      BY <3>1, PermittedIf
    <3>3. TripService(Word("true")) = "skipped"
      BY GearOfText DEF Word
    <3> QED BY <1>0, <2>1, <3>2, <3>3
  <2>6. CASE k = "DoorValue" \/ k = "TireLocationValue"
    <3>1. data["Gear"][1] = "flags"
      <4>1. \E names : data["Gear"] = Flags(names, c)
        BY <2>6, KindsApart DEF OutputValue, OtherKinds
      <4>2. \A flags : <<"flags", flags>>[1] = "flags"
        OBVIOUS
      <4> QED BY <4>1, <4>2, Zenon DEF Flags
    <3>2. gear = Nil
      BY <3>1, PermittedIf
    <3> QED BY <1>0, <2>1, <3>2
  <2>7. CASE k = "LocationValue"
    <3>1. data["Gear"] = <<"place", c>>
      BY <2>7, KindsApart DEF OutputValue, OtherKinds
    <3>2. gear = Nil
      BY <3>1, PermittedIf
    <3> QED BY <1>0, <2>1, <3>2
  <2>8. CASE k = "TimeValue"
    <3>1. data["Gear"] = String(<<"time", c>>)
      BY <2>8, KindsApart DEF OutputValue, OtherKinds
    <3>2. gear = <<"time", c>>
      BY <3>1, PermittedIf DEF String
    <3>3. gear[1] # "word"
      BY <3>2
    <3> QED BY <2>1, <2>2, <3>3
  <2> QED
    BY <1>3, <2>3, <2>4, <2>5, <2>6, <2>7, <2>8, ValueCases DEF UnknownToLogger
<1> QED BY <1>1, <1>2, <1>3

\* The transforms do not change what a value says about the gear.
LEMMA GearKept ==
  ASSUME NEW v, NEW w, v # Nil, w # Nil, IsValue(v), Becomes(v, w, "Gear")
  PROVE  SaidGear(w) = SaidGear(v)
<1>1. CASE w = v
  BY <1>1
<1>2. CASE /\ Kind(v) = "StringValue" /\ Content(v)[1] = "scientific"
           /\ w = <<"StringValue", Decimal(Shortened(Content(v)[2]))>>
  <2>1. Kind(w) = "StringValue" /\ Content(w)[1] = "decimal"
    BY <1>2 DEF Kind, Content, Decimal
  <2>2. \A text : text[1] # "word" =>
          text \notin {Word("P"), Word("p"), Word("D"), Word("d"), Word("R"), Word("N"),
                       Word("<invalid>")}
    BY DEF Word
  <2>3. SaidGear(v) = "skipped"
    BY <1>2, <2>2 DEF SaidGear
  <2>4. SaidGear(w) = "skipped"
    BY <2>1, <2>2 DEF SaidGear
  <2> QED BY <2>3, <2>4
<1> QED BY <1>1, <1>2 DEF Becomes

-----------------------------------------------------------------------------
(* What the stores hold is made of the record. *)

Posted == Loggable(record) /\ posted = LogMap(record)
Framed == Loggable(record) /\ frame = TripService(PermittedGear(LogMap(record)))
Brokered ==
  /\ record.protoMessage # Nil /\ ~Panics("mqtt")
  /\ broker \in Published(Topics(record.TxType, ItemsOf(record)))

StoresInv ==
  /\ \E cert \in Certificates : identity = RequestIdentity(cert)
  /\ step # "read" => arrival \in Arrivals(identity)
  /\ step \in {"read", "parse"} => posted = Nil /\ frame = Nil /\ broker = <<>>
  /\ posted # Nil \/ step = "ingest" => Posted
  /\ frame # Nil /\ record.TxType = "V" => Framed
  /\ broker # <<>> => Brokered

LEMMA SameStores ==
  ASSUME UNCHANGED <<connection, record>>
  PROVE  /\ UNCHANGED posted => Posted' = Posted
         /\ UNCHANGED frame => Framed' = Framed
         /\ UNCHANGED broker => Brokered' = Brokered
<1>1. Loggable(record)' = Loggable(record) /\ LogMap(record)' = LogMap(record)
  BY DEF connection, Loggable, LogMap
<1>2. Panics("mqtt")' = Panics("mqtt")
  BY DEF Panics
<1> QED BY <1>1, <1>2 DEF Posted, Framed, Brokered

LEMMA NextStores == StoresInv /\ [Next]_vars => StoresInv'
<1> SUFFICES ASSUME StoresInv, [Next]_vars PROVE StoresInv'
  OBVIOUS
<1>1. CASE Read
  BY <1>1 DEF Read, StoresInv, connection, outcome
<1>2. CASE Parse
  BY <1>2 DEF Parse, StoresInv, connection, outcome
<1>3. ASSUME step \notin {"read", "parse"}, step' \notin {"read", "parse"},
             UNCHANGED <<connection, arrival, record, broker>>,
             posted' # Nil \/ step' = "ingest" => Posted',
             frame' # Nil /\ record.TxType = "V" => Framed'
      PROVE  StoresInv'
  BY <1>3, SameStores DEF StoresInv, connection
<1>4. ASSUME step \notin {"read", "parse"}, step' \notin {"read", "parse", "ingest"},
             UNCHANGED <<connection, arrival, record, posted, frame, broker>>
      PROVE  StoresInv'
  BY <1>3, <1>4, SameStores DEF StoresInv
<1>5. CASE \E producer \in {"mqtt", "logger"} : Panic(producer)
  BY <1>4, <1>5 DEF Panic, Turn, outcome
<1>6. CASE ProduceBytes
  BY <1>4, <1>6 DEF ProduceBytes, Turn
<1>7. CASE ProduceMqtt
  <2>1. /\ step = "dispatch" /\ UNCHANGED <<connection, arrival, record, step, posted, frame>>
        /\ ~Panics("mqtt")
        /\ IF record.protoMessage = Nil THEN broker' = broker
           ELSE broker' \in Published(Topics(record.TxType, ItemsOf(record)))
    BY <1>7 DEF ProduceMqtt, Turn
  <2>2. Panics("mqtt")' = Panics("mqtt") /\ record' = record
    BY <2>1 DEF Panics
  <2>3. broker' # <<>> => Brokered'
    BY <2>1, <2>2 DEF StoresInv, Brokered
  <2> QED BY <2>1, <2>3, SameStores DEF StoresInv, connection
<1>8. CASE ProduceLogger
  <2>1. /\ step = "dispatch" /\ UNCHANGED <<connection, arrival, record, broker, frame>>
        /\ IF Loggable(record) THEN posted' = LogMap(record) /\ step' = "ingest"
           ELSE UNCHANGED <<posted, step>>
    BY <1>8 DEF ProduceLogger, Turn
  <2>2. CASE Loggable(record)
    <3>1. Loggable(record)' = Loggable(record) /\ LogMap(record)' = LogMap(record)
      BY <2>1 DEF connection, Loggable, LogMap
    <3>2. Posted'
      BY <2>1, <2>2, <3>1 DEF Posted
    <3> QED BY <1>3, <2>1, <2>2, <3>2, SameStores DEF StoresInv
  <2>3. CASE ~Loggable(record)
    BY <1>4, <2>1, <2>3
  <2> QED BY <2>2, <2>3
<1>9. CASE Ingest
  <2>1. /\ step = "ingest" /\ step' = "dispatch"
        /\ UNCHANGED <<connection, arrival, record, broker, posted>>
        /\ frame' = IF record.TxType = "V" THEN TripService(PermittedGear(posted)) ELSE "refused"
    BY <1>9 DEF Ingest
  <2>2. Loggable(record)' = Loggable(record) /\ LogMap(record)' = LogMap(record)
    BY <2>1 DEF connection, Loggable, LogMap
  <2>3. record.TxType = "V" => Framed'
    BY <2>1, <2>2 DEF StoresInv, Posted, Framed
  <2> QED BY <1>3, <2>1, <2>3, SameStores DEF StoresInv
<1>10. CASE Acknowledge
  BY <1>4, <1>10 DEF Acknowledge
<1>11. CASE Respond
  BY <1>4, <1>11 DEF Respond
<1>12. CASE UNCHANGED vars
  BY <1>12, SameStores DEF vars, outcome, StoresInv, connection
<1> QED
  BY <1>1, <1>2, <1>5, <1>6, <1>7, <1>8, <1>9, <1>10, <1>11, <1>12 DEF Next

THEOREM StoresHold == Spec => []StoresInv
<1>1. Init => StoresInv
  BY DEF Init, StoresInv
<1> QED BY <1>1, NextStores, PTL DEF Spec

LEMMA RecordSaid ==
  ASSUME IInv, StoresInv, step \notin {"read", "parse"},
         record.protoMessage # Nil, record.TxType = "V"
  PROVE  IsData(Said) /\ ItemsOf(record) = transformScientificNotation(transformLocation(Said))
<1>1. record = NewRecord(arrival.bytes, arrival.big).record
  BY DEF IInv
<1>2. Decodable(arrival.bytes)
  BY <1>1, FramesAssumption DEF StoresInv
<1> QED BY <1>1, <1>2, VehicleRecord DEF Said

\* A frame is what the last shown gear says, unless values have their types.
LEMMA FrameOfGear ==
  ASSUME IInv, StoresInv, frame # Nil, record.TxType = "V"
  PROVE  GearNotConfused
<1> DEFINE said == Said
           items == ItemsOf(record)
           model == ModelOf(record.Vin)
           map == LogMap(record)
<1>1. Framed /\ step \notin {"read", "parse"}
  BY DEF StoresInv
<1>2. IsData(said) /\ items = transformScientificNotation(transformLocation(said))
  BY <1>1, RecordSaid DEF Framed, Loggable
<1>3. map = PayloadToMap(items, config.verbose, model)
  BY DEF LogMap
<1>4. frame = TripService(PermittedGear(map))
  BY <1>1 DEF Framed
<1>5. "Gear" # "" /\ "Gear" \notin Unnamed
  BY DEF Unnamed
<1> HIDE DEF said, items, model, map
<1> DEFINE Shows(m, i) == m["Gear"] = transformValue(items[i].value, config.verbose, model)
<1>6. /\ "Gear" \in DOMAIN map => \E i \in Shown(said) : said[i].key = "Gear" /\ Shows(map, i)
      /\ \A i \in Shown(said) :
           said[i].key = "Gear" /\ ~(\E j \in DOMAIN said : j > i /\ said[j].key = "Gear") =>
             "Gear" \in DOMAIN map /\ Shows(map, i)
  <2>1. Logged(said, items, config.verbose, model, map, "Gear")
    BY <1>2, <1>3, <1>5, LoggedLast
  <2> QED BY <2>1 DEF Logged
<1>7. /\ \A i \in DOMAIN said : /\ items[i].key = said[i].key
                                /\ Becomes(said[i].value, items[i].value, said[i].key)
                                /\ said[i].value # Nil => IsValue(said[i].value)
                                /\ items[i].value # Nil <=> said[i].value # Nil
      /\ Shown(items) = Shown(said) /\ DOMAIN items = DOMAIN said
  BY <1>2, ShownSame
<1>8. ASSUME NEW i \in Shown(said), said[i].key = "Gear", ~config.verbose, "Gear" \in DOMAIN map,
             map["Gear"] = transformValue(items[i].value, config.verbose, model)
      PROVE  frame = SaidGear(said[i].value)
  <2>1. PICK v, w : v = said[i].value /\ w = items[i].value
    OBVIOUS
  <2>2. i \in DOMAIN said /\ v # Nil /\ i \in Shown(items)
    BY <1>7, <2>1 DEF Shown
  <2>3. w # Nil /\ IsValue(v) /\ Becomes(v, w, "Gear") /\ Kind(w) \notin UnknownToLogger
    BY <1>7, <1>8, <2>1, <2>2 DEF Shown
  <2>4. IsValue(w)
    BY <2>2, <2>3, BecomesSaid
  <2>5. map["Gear"] = OutputValue(w, FALSE, model)
    <3>1. map["Gear"] = OutputValue(w, config.verbose, model)
      BY <1>8, <2>1, Zenon DEF transformValue
    <3>2. OutputValue(w, config.verbose, model) = OutputValue(w, FALSE, model)
      <4>1. InvalidValue(config.verbose) = InvalidValue(FALSE)
        BY <1>8 DEF InvalidValue
      <4> QED BY <4>1, Zenon DEF OutputValue
    <3> QED BY <3>1, <3>2
  <2>6. frame = SaidGear(w)
    BY <1>4, <1>8, <2>3, <2>4, <2>5, GearOfValue
  <2> QED BY <2>1, <2>2, <2>3, <2>6, GearKept
<1>9. ASSUME frame # "skipped"
      PROVE  \E i \in DOMAIN said : said[i].key = "Gear" /\ SaidGear(said[i].value) = frame
  <2>1. "Gear" \in DOMAIN map
    BY <1>4, <1>9 DEF PermittedGear, TripService
  <2>2. PICK i \in Shown(said) :
          /\ said[i].key = "Gear"
          /\ map["Gear"] = transformValue(items[i].value, config.verbose, model)
    BY <1>6, <2>1
  <2>3. ~config.verbose
    <3> SUFFICES ASSUME config.verbose PROVE FALSE
      OBVIOUS
    <3>1. map["Gear"] = <<"typed", Kind(items[i].value), OutputValue(items[i].value, config.verbose, model)>>
      BY <2>2, Zenon DEF transformValue
    <3>2. \A x, y : <<"typed", x, y>>[1] \notin {"string", "number", "bool"}
      OBVIOUS
    <3>3. PermittedGear(map) = Nil
      BY <2>1, <3>1, <3>2, PermittedIf
    <3> QED BY <1>4, <1>9, <3>3 DEF TripService
  <2>4. i \in DOMAIN said
    BY DEF Shown
  <2> QED BY <1>8, <2>1, <2>2, <2>3, <2>4
<1>10. ASSUME frame = "skipped", ~config.verbose, NEW i \in DOMAIN said, said[i].key = "Gear",
              ~(\E j \in DOMAIN said : j > i /\ said[j].key = "Gear")
       PROVE  SaidGear(said[i].value) = "skipped"
  <2>1. CASE i \in Shown(said)
    BY <1>6, <1>8, <1>10, <2>1
  <2>2. CASE i \notin Shown(said)
    BY <2>2 DEF Shown, SaidGear, UnknownToLogger
  <2> QED BY <2>1, <2>2
<1> QED BY <1>9, <1>10 DEF GearNotConfused, Replaced, said

\* The application takes a vehicle for parked or driving only when its data say
\* so, and misses it only when values are logged with their types or a later
\* gear follows: for all data that can be decoded, whatever their kinds.
THEOREM GearsNotConfused == Spec => []GearNotConfused
<1>1. IInv /\ StoresInv => GearNotConfused
  <2> SUFFICES ASSUME IInv, StoresInv, frame # Nil, record.TxType = "V" PROVE GearNotConfused
    BY DEF GearNotConfused
  <2> QED BY FrameOfGear
<1> QED BY <1>1, IInvHolds, StoresHold, PTL

-----------------------------------------------------------------------------
(* What a vehicle said is what both stores show. *)

\* The logger's JSON of the last shown datum of a field.
LEMMA PostedMeans ==
  ASSUME NEW v, NEW w, NEW key, v # Nil, IsValue(v), Becomes(v, w, key),
         Kind(v) \notin UnknownToLogger, NEW types, NEW model,
         NEW output, output = OutputValue(w, types, model),
         NEW json, json = IF types THEN <<"typed", Kind(w), output>> ELSE output
  PROVE  IF types
         THEN /\ json[2] \in {Kind(v), "LocationValue"}
              /\ Kind(v) # "Invalid" => Says(JSONMeaning(json[3]), v)
         ELSE Says(JSONMeaning(json), v)
<1>1. /\ IsValue(w) /\ Says(Meaning(w), v)
      /\ Kind(w) = Kind(v) \/ (Kind(v) = "StringValue" /\ Kind(w) = "LocationValue")
  BY BecomesSaid
<1>2. Kind(w) \notin UnknownToLogger /\ (Kind(v) # "Invalid" => Kind(w) # "Invalid")
  BY <1>1 DEF UnknownToLogger
<1>3. CASE types
  <2>1. Kind(v) # "Invalid" => JSONMeaning(output) = Meaning(w)
    BY <1>1, <1>2, LoggerMeans
  <2>2. json[2] = Kind(w) /\ json[3] = output
    BY <1>3
  <2> QED BY <1>1, <1>3, <2>1, <2>2
<1>4. CASE ~types
  <2>1. InvalidValue(types) = InvalidValue(FALSE)
    BY <1>4 DEF InvalidValue
  <2>2. output = OutputValue(w, FALSE, model)
    BY <2>1, Zenon DEF OutputValue
  <2>3. JSONMeaning(output) = Meaning(w)
    BY <1>1, <1>2, <2>2, LoggerMeans
  <2> QED BY <1>1, <1>4, <2>3
<1> QED BY <1>3, <1>4

\* JSON of a value is the number that is none only if the value is.
LEMMA NotANumber ==
  ASSUME NEW w, IsValue(w), getDatumValue(w) = <<"number", NaN>>
  PROVE  Kind(w) \in Numbers /\ Content(w) = NaN
<1> DEFINE k == Kind(w)
           c == Content(w)
<1>0. \A x : String(x)[1] = "string" /\ <<"number", x>>[1] = "number" /\ <<"number", x>>[2] = x
  BY DEF String
<1>1. \A names, set : Flags(names, set)[1] = "flags"
  <2>1. \A flags : <<"flags", flags>>[1] = "flags"
    OBVIOUS
  <2> QED BY <2>1, Zenon DEF Flags
<1>2. getDatumValue(w)[1] = "number" /\ getDatumValue(w)[2] = NaN
  BY <1>0, Zenon
<1>3. CASE k \in Numbers
  <2>1. getDatumValue(w) = <<"number", c>>
    BY <1>3, KindsApart DEF getDatumValue, OtherKinds
  <2> QED BY <1>0, <1>2, <1>3, <2>1
<1>4. CASE k \in Enums /\ c \in Int
  <2>1. CASE k \in NamedByMqtt
    <3>1. getDatumValue(w) = String(EnumString(k, c))
      BY <1>4, <2>1, KindsApart DEF getDatumValue, OtherKinds
    <3> QED BY <1>0, <1>2, <3>1
  <2>2. CASE k \notin NamedByMqtt
    <3>1. getDatumValue(w) = getProtoValue(w)
      BY <1>4, <2>2, KindsApart DEF getDatumValue, OtherKinds
    <3>2. getProtoValue(w) = IF c \in Declared(k) THEN String(EnumString(k, c)) ELSE <<"number", c>>
      BY <1>4, KindsApart DEF getProtoValue, OtherKinds
    <3>3. CASE c \in Declared(k)
      BY <1>0, <1>2, <3>1, <3>2, <3>3
    <3>4. CASE c \notin Declared(k)
      BY <1>0, <1>2, <1>4, <3>1, <3>2, <3>4, PayloadsAssumption
    <3> QED BY <3>3, <3>4
  <2> QED BY <2>1, <2>2
<1>5. CASE k \in {"StringValue", "BooleanValue", "DoorValue", "Invalid", "LocationValue", "TimeValue"}
  <2>1. \/ getDatumValue(w) = <<"bool", c>>
        \/ getDatumValue(w) = <<"null">>
        \/ getDatumValue(w) = <<"place", c>>
        \/ \E x : getDatumValue(w) = String(x)
        \/ \E names, set : getDatumValue(w) = Flags(names, set)
    BY <1>5, KindsApart DEF getDatumValue, OtherKinds
  <2>2. getDatumValue(w)[1] \in {"bool", "null", "place", "string", "flags"}
    BY <1>0, <1>1, <2>1
  <2> QED BY <1>2, <2>2
<1>6. CASE k \in {"TireLocationValue", "Unset"}
  <2>1. getDatumValue(w) = getProtoValue(w)
    BY <1>6, KindsApart DEF getDatumValue, OtherKinds
  <2>2. \/ \E flags : getProtoValue(w) = <<"flags", flags>>
        \/ getProtoValue(w) = Flags(c, c)
    BY <1>6, KindsApart DEF getProtoValue, OtherKinds
  <2>3. getProtoValue(w)[1] = "flags"
    BY <1>1, <2>2
  <2> QED BY <1>2, <2>1, <2>3
<1> QED BY <1>3, <1>4, <1>5, <1>6, ValueCases

\* What is published of a field is the last datum of it, and all of it is
\* published when all of it can be.
LEMMA BrokerHas ==
  ASSUME NEW said, IsData(said),
         NEW items, items = transformScientificNotation(transformLocation(said)),
         NEW published, published \in Published(Topics("V", items)), ~MqttPanics(items),
         NEW i \in DOMAIN said, NEW key, said[i].key = key,
         ~(\E j \in DOMAIN said : j > i /\ said[j].key = key)
  PROVE  /\ <<"v", key>> \in DOMAIN published => published[<<"v", key>>] = getDatumValue(items[i].value)
         /\ (\A j \in DOMAIN said : ~Unmarshalable(said[j].value)) => <<"v", key>> \in DOMAIN published
<1> DEFINE fields == payloadToMap(items)
           topics == Topics("V", items)
           bad == {t \in DOMAIN topics : t[1] = "v" /\ topics[t] = <<"number", NaN>>}
<1>1. Latest(said, items, fields, key)
  BY PublishedLast
<1>2. key \in DOMAIN fields /\ fields[key] = getDatumValue(items[i].value)
  BY <1>1 DEF Latest
<1>3. topics = [t \in {<<"v", k>> : k \in DOMAIN fields} |-> fields[t[2]]]
  BY DEF Topics
<1> HIDE DEF fields, topics
<1>4. <<"v", key>> \in DOMAIN topics /\ topics[<<"v", key>>] = fields[key]
  BY <1>2, <1>3
<1>5. published = topics \/ \E S \in SUBSET (DOMAIN topics \ bad) : published = Restrict(topics, S)
  BY Zenon DEF Published, topics
<1>6. <<"v", key>> \in DOMAIN published => published[<<"v", key>>] = topics[<<"v", key>>]
  BY <1>5 DEF Restrict
<1>7. ASSUME \A j \in DOMAIN said : ~Unmarshalable(said[j].value)
      PROVE  <<"v", key>> \in DOMAIN published
  <2>1. bad = {}
    <3> SUFFICES ASSUME NEW t \in DOMAIN topics, topics[t] = <<"number", NaN>> PROVE FALSE
      OBVIOUS
    <3>1. PICK k \in DOMAIN fields : t = <<"v", k>>
      BY <1>3
    <3>2. fields[k] = <<"number", NaN>>
      BY <1>3, <3>1
    <3>3. Latest(said, items, fields, k)
      BY PublishedLast DEF fields
    <3>4. PICK j \in DOMAIN said : fields[k] = getDatumValue(items[j].value)
      BY <3>1, <3>3 DEF Latest
    <3>5. PICK v, w : v = said[j].value /\ w = items[j].value
      OBVIOUS
    <3>6. /\ DOMAIN items = DOMAIN said /\ Becomes(v, w, said[j].key)
          /\ v # Nil => IsValue(v)
          /\ w # Nil <=> v # Nil
      BY <3>5, ShownSame
    <3>7. w # Nil
      BY <3>5, <3>6 DEF MqttPanics
    <3>8. IsValue(w)
      BY <3>6, <3>7, BecomesSaid
    <3>9. Kind(w) \in Numbers /\ Content(w) = NaN
      BY <3>2, <3>4, <3>5, <3>8, NotANumber
    <3>10. w = v
      BY <3>6, <3>9, KindsApart DEF Becomes, OtherKinds, Kind
    <3> QED BY <1>7, <3>5, <3>7, <3>9, <3>10 DEF Unmarshalable
  <2>2. published = topics
    BY <2>1, Zenon DEF Published, topics
  <2> QED BY <1>4, <2>2
<1> QED BY <1>2, <1>4, <1>6, <1>7

LEMMA StoresMean ==
  ASSUME IInv, StoresInv, record # Nil, record.protoMessage # Nil, record.TxType = "V"
  PROVE  ValuesSurvive
<1> DEFINE said == Said
           items == ItemsOf(record)
           model == ModelOf(record.Vin)
<1>1. IsData(said) /\ items = transformScientificNotation(transformLocation(said))
  BY RecordSaid DEF IInv
<1>2. posted # Nil => posted = PayloadToMap(items, config.verbose, model)
  BY DEF StoresInv, Posted, LogMap
<1>3. broker # <<>> => broker \in Published(Topics("V", items)) /\ ~MqttPanics(items)
  BY DEF StoresInv, Brokered, Panics
<1> HIDE DEF said, items, model
<1>4. /\ \A i \in DOMAIN said : /\ items[i].key = said[i].key /\ said[i].key # ""
                                /\ Becomes(said[i].value, items[i].value, said[i].key)
                                /\ said[i].value # Nil => IsValue(said[i].value)
      /\ DOMAIN items = DOMAIN said
  BY <1>1, ShownSame
<1> SUFFICES ASSUME NEW i \in DOMAIN said, NEW key, NEW v, key = said[i].key, v = said[i].value,
                    ~(\E j \in DOMAIN said : j > i /\ said[j].key = key)
             PROVE  /\ posted # Nil /\ i \in Shown(said) /\ key \notin Unnamed =>
                         /\ key \in DOMAIN posted
                         /\ IF config.verbose
                            THEN /\ posted[key][2] \in {Kind(v), "LocationValue"}
                                 /\ Kind(v) # "Invalid" =>
                                      Says(JSONMeaning(posted[key][3]), v)
                            ELSE Says(JSONMeaning(posted[key]), v)
                    /\ v # Nil /\ Kind(v) # "Unset" /\ <<"v", key>> \in DOMAIN broker =>
                         Says(JSONMeaning(broker[<<"v", key>>]), v)
                    /\ broker # <<>> /\ (\A j \in DOMAIN said : ~Unmarshalable(said[j].value)) =>
                         <<"v", key>> \in DOMAIN broker
  BY Zenon DEF ValuesSurvive, Replaced, said
<1>5. PICK w : w = items[i].value
  OBVIOUS
<1>6. Becomes(v, w, key) /\ (v # Nil => IsValue(v)) /\ key # ""
  BY <1>4, <1>5
<1>7. ASSUME posted # Nil, i \in Shown(said), key \notin Unnamed
      PROVE  /\ key \in DOMAIN posted
             /\ IF config.verbose
                THEN /\ posted[key][2] \in {Kind(v), "LocationValue"}
                     /\ Kind(v) # "Invalid" => Says(JSONMeaning(posted[key][3]), v)
                ELSE Says(JSONMeaning(posted[key]), v)
  <2>1. Logged(said, items, config.verbose, model, posted, key)
    BY <1>1, <1>2, <1>6, <1>7, LoggedLast
  <2>2. key \in DOMAIN posted /\ posted[key] = transformValue(w, config.verbose, model)
    BY <1>5, <1>7, <2>1 DEF Logged
  <2>3. PICK output : output = OutputValue(w, config.verbose, model)
    OBVIOUS
  <2>4. posted[key] = IF config.verbose THEN <<"typed", Kind(w), output>> ELSE output
    BY <2>2, <2>3, Zenon DEF transformValue
  <2>5. v # Nil /\ Kind(v) \notin UnknownToLogger
    BY <1>7 DEF Shown
  <2>6. PICK json, types : json = posted[key] /\ types = config.verbose
    OBVIOUS
  <2>7. output = OutputValue(w, types, model) /\ (json = IF types THEN <<"typed", Kind(w), output>> ELSE output)
    BY <2>3, <2>4, <2>6
  <2>8. IF types
        THEN /\ json[2] \in {Kind(v), "LocationValue"}
             /\ Kind(v) # "Invalid" => Says(JSONMeaning(json[3]), v)
        ELSE Says(JSONMeaning(json), v)
    BY <1>6, <2>5, <2>7, PostedMeans
  <2> QED BY <2>2, <2>6, <2>8
<1>8. broker # <<>> =>
        /\ <<"v", key>> \in DOMAIN broker => broker[<<"v", key>>] = getDatumValue(w)
        /\ (\A j \in DOMAIN said : ~Unmarshalable(said[j].value)) => <<"v", key>> \in DOMAIN broker
  BY <1>1, <1>3, <1>5, BrokerHas
<1>9. ASSUME v # Nil, Kind(v) # "Unset", <<"v", key>> \in DOMAIN broker
      PROVE  Says(JSONMeaning(broker[<<"v", key>>]), v)
  <2>1. broker # <<>>
    BY <1>9
  <2>2. /\ IsValue(w) /\ Says(Meaning(w), v)
        /\ Kind(w) = Kind(v) \/ (Kind(v) = "StringValue" /\ Kind(w) = "LocationValue")
    BY <1>6, <1>9, BecomesSaid
  <2>3. JSONMeaning(getDatumValue(w)) = Meaning(w)
    BY <1>9, <2>2, MqttMeans
  <2> QED BY <1>8, <1>9, <2>1, <2>2, <2>3
<1> QED BY <1>7, <1>8, <1>9

\* What both stores show of a field is what the vehicle said last of it, exactly
\* or, in scientific notation, as closely as a 32-bit float and five decimals
\* say it, and nothing is left out that could be shown: for all data that can
\* be decoded, of all kinds of values.
THEOREM ValuesHold == Spec => []ValuesSurvive
<1>1. IInv /\ StoresInv => ValuesSurvive
  <2> SUFFICES ASSUME IInv, StoresInv, record # Nil, record.protoMessage # Nil, record.TxType = "V"
               PROVE  ValuesSurvive
    BY DEF ValuesSurvive
  <2> QED BY StoresMean
<1> QED BY <1>1, IInvHolds, StoresHold, PTL

-----------------------------------------------------------------------------
(* What a vehicle listed is what the broker has of its alerts. *)

LEMMA FinitePositions ==
  ASSUME NEW n \in Nat, NEW at, at \subseteq 1..n
  PROVE  IsFiniteSet(at) /\ Cardinality(at) \in Nat /\ at \subseteq Int
<1>1. IsFiniteSet(1..n)
  BY FS_Interval
<1>2. at \in SUBSET (1..n) /\ at \subseteq Int
  OBVIOUS
<1>3. IsFiniteSet(at)
  BY <1>1, <1>2, FS_Subset
<1> QED BY <1>2, <1>3, FS_CardinalityType

\* Positions up to a later one are more.
LEMMA MoreUpTo ==
  ASSUME NEW n \in Nat, NEW at, at \subseteq 1..n, NEW i \in at
  PROVE  LET upTo(x) == {j \in at : j <= x}
         IN /\ Cardinality(upTo(i)) \in 1..Cardinality(at) /\ Cardinality(at) \in Nat
            /\ \A l \in at : i < l => Cardinality(upTo(i)) < Cardinality(upTo(l))
<1> DEFINE upTo(x) == {j \in at : j <= x}
<1>1. IsFiniteSet(at)
  BY FinitePositions
<1>2. \A x : IsFiniteSet(upTo(x)) /\ Cardinality(upTo(x)) \in Nat /\ Cardinality(upTo(x)) <= Cardinality(at)
  BY <1>1, FS_Subset, FS_CardinalityType
<1>3. Cardinality(at) \in Nat
  BY <1>1, FS_CardinalityType
<1>4. Cardinality(upTo(i)) # 0
  <2>1. i \in upTo(i)
    <3>1. i \in 1..n OBVIOUS
    <3> QED BY <3>1
  <2> QED BY <1>2, <2>1, FS_EmptySet
<1>5. ASSUME NEW l \in at, i < l PROVE Cardinality(upTo(i)) < Cardinality(upTo(l))
  <2>1. i \in Int /\ l \in Int /\ \A j \in at : j \in Int
    BY FinitePositions
  <2>2. \A j \in at : j <= i => j <= l
    BY <1>5, <2>1
  <2>3. l <= l /\ ~(l <= i)
    BY <1>5, <2>1
  <2>4. upTo(i) \in SUBSET upTo(l) /\ l \in upTo(l) /\ l \notin upTo(i)
    BY <2>2, <2>3
  <2> HIDE DEF upTo
  <2>5. Cardinality(upTo(i)) <= Cardinality(upTo(l)) /\ Cardinality(upTo(i)) # Cardinality(upTo(l))
    BY <1>2, <2>4, FS_Subset
  <2> QED BY <1>2, <2>5
<1> HIDE DEF upTo
<1>6. Cardinality(upTo(i)) \in 1..Cardinality(at)
  BY <1>2, <1>3, <1>4
<1> QED BY <1>3, <1>5, <1>6 DEF upTo

\* Every number up to that of the positions is the rank of one of them.
LEMMA EveryRank ==
  ASSUME NEW n \in Nat, NEW at, at \subseteq 1..n, NEW k \in 1..Cardinality(at)
  PROVE  \E i \in at : Cardinality({j \in at : j <= i}) = k
<1> DEFINE rank(i) == Cardinality({j \in at : j <= i})
           N == Cardinality(at)
           ranks == [i \in at |-> rank(i)]
<1>1. \A i \in at : rank(i) \in 1..N /\ N \in Nat /\ \A l \in at : i < l => rank(i) < rank(l)
  BY MoreUpTo
<1>2. at \subseteq Int
  OBVIOUS
<1>3. N \in Nat
  BY FinitePositions
<1> HIDE DEF rank, N
<1>4. ASSUME NEW i \in at, NEW l \in at, ranks[i] = ranks[l] PROVE i = l
  <2>1. rank(i) = rank(l) /\ rank(i) \in Int
    BY <1>1, <1>4
  <2>2. ~(i < l) /\ ~(l < i)
    BY <1>1, <2>1
  <2> QED BY <1>2, <2>2
<1>5. ranks \in Injection(at, 1..N)
  <2>1. ranks \in [at -> 1..N]
    BY <1>1
  <2> HIDE DEF ranks
  <2> QED BY <1>4, <2>1 DEF Injection, IsInjective
<1>6. IsFiniteSet(1..N) /\ Cardinality(1..N) = N
  BY <1>3, FS_Interval
<1>7. ranks \in Surjection(at, 1..N)
  <2> HIDE DEF ranks
  <2> QED BY <1>5, <1>6, FS_Injection DEF N
<1>8. \E i \in at : ranks[i] = k
  <2> HIDE DEF ranks
  <2> QED BY <1>7 DEF Surjection, N
<1> QED BY <1>8 DEF rank

\* The positions counted are the positions, in their order.
LEMMA CountedInOrder ==
  ASSUME NEW n \in Nat, NEW at, at \subseteq 1..n
  PROVE  /\ Cardinality(at) \in Nat
         /\ \A k \in 1..Cardinality(at) : Nth(at, k) \in at
         /\ \A k, l \in 1..Cardinality(at) : k < l => Nth(at, k) < Nth(at, l)
<1> DEFINE rank(i) == Cardinality({j \in at : j <= i})
<1>1. Cardinality(at) \in Nat
  BY FinitePositions
<1>2. \A k \in 1..Cardinality(at) : Nth(at, k) \in at /\ rank(Nth(at, k)) = k
  <2> TAKE k \in 1..Cardinality(at)
  <2>1. \E i \in at : rank(i) = k
    BY EveryRank
  <2>2. Nth(at, k) = CHOOSE i \in at : rank(i) = k
    BY DEF Nth
  <2> HIDE DEF rank
  <2> QED BY <2>1, <2>2, Zenon
<1>3. \A i, l \in at : i < l => rank(i) < rank(l)
  BY MoreUpTo
<1> HIDE DEF rank
<1>4. ASSUME NEW k \in 1..Cardinality(at), NEW l \in 1..Cardinality(at), k < l
      PROVE  Nth(at, k) < Nth(at, l)
  <2> DEFINE i == Nth(at, k)
             j == Nth(at, l)
  <2>1. i \in at /\ j \in at /\ rank(i) = k /\ rank(j) = l
    BY <1>2
  <2> HIDE DEF i, j
  <2>2. i \in Int /\ j \in Int
    BY <2>1, FinitePositions
  <2>3. i # j /\ ~(j < i)
    BY <1>1, <1>3, <1>4, <2>1
  <2>4. i < j
    BY <2>2, <2>3
  <2> QED BY <2>4 DEF i, j
<1> QED BY <1>1, <1>2, <1>4

\* Alerts keep their names; their times become the seconds that were meant.
LEMMA TransformedAlerts ==
  ASSUME NEW said, IsAlerts(said), NEW items, items = transformTimestamp(said)
  PROVE  /\ DOMAIN items = DOMAIN said /\ DOMAIN said = 1..Len(said) /\ Len(said) \in Nat
         /\ \A i \in DOMAIN said :
              /\ items[i] = TrueAlert(said[i]) /\ items[i].Name = said[i].Name
              /\ items[i].StartedAt = TrueSeconds(said[i].StartedAt)
              /\ items[i].StartedAt \in Int \cup {Nil}
              /\ items[i].StartedAt = Nil <=> said[i].StartedAt = Nil
<1>1. DOMAIN items = DOMAIN said /\ DOMAIN said = 1..Len(said) /\ Len(said) \in Nat
  BY DEF transformTimestamp, IsAlerts
<1>2. ASSUME NEW time \in Int \cup {Nil}
      PROVE  /\ convertTimestamp(time) = TrueSeconds(time)
             /\ convertTimestamp(time) \in Int \cup {Nil}
             /\ convertTimestamp(time) = Nil <=> time = Nil
  <2>1. CASE time = Nil
    BY <2>1 DEF convertTimestamp, TrueSeconds
  <2>2. CASE time # Nil
    <3>1. time \in Int /\ MaxSeconds \in Int /\ Milli \in Nat \ {0} /\ Nil \notin Int
      BY <2>2, PayloadsAssumption
    <3>2. time \div Milli \in Int
      BY <3>1
    <3>3. convertTimestamp(time) = IF time < MaxSeconds THEN time ELSE time \div Milli
      BY <2>2 DEF convertTimestamp
    <3>4. TrueSeconds(time) = IF time >= MaxSeconds THEN time \div Milli ELSE time
      BY <2>2 DEF TrueSeconds
    <3>5. convertTimestamp(time) = TrueSeconds(time)
      BY <3>1, <3>3, <3>4
    <3> QED BY <3>1, <3>2, <3>3, <3>5
  <2> QED BY <2>1, <2>2
<1>3. ASSUME NEW i \in DOMAIN said
      PROVE  /\ items[i] = TrueAlert(said[i]) /\ items[i].Name = said[i].Name
             /\ items[i].StartedAt = TrueSeconds(said[i].StartedAt)
             /\ items[i].StartedAt \in Int \cup {Nil}
             /\ items[i].StartedAt = Nil <=> said[i].StartedAt = Nil
  <2>1. PICK alert : alert = said[i]
    OBVIOUS
  <2>2. /\ alert = [Name |-> alert.Name, StartedAt |-> alert.StartedAt, EndedAt |-> alert.EndedAt]
        /\ alert.StartedAt \in Int \cup {Nil} /\ alert.EndedAt \in Int \cup {Nil}
    BY <2>1 DEF IsAlerts
  <2>3. items[i] = [alert EXCEPT !.StartedAt = convertTimestamp(alert.StartedAt),
                                 !.EndedAt = convertTimestamp(alert.EndedAt)]
    BY <2>1 DEF transformTimestamp
  <2>4. TrueAlert(alert) = [alert EXCEPT !.StartedAt = TrueSeconds(alert.StartedAt),
                                         !.EndedAt = TrueSeconds(alert.EndedAt)]
    BY <2>2 DEF TrueAlert
  <2>5. items[i] = TrueAlert(alert)
    BY <1>2, <2>2, <2>3, <2>4
  <2>6. items[i].Name = alert.Name /\ items[i].StartedAt = convertTimestamp(alert.StartedAt)
    BY <2>2, <2>3
  <2> QED BY <1>2, <2>1, <2>2, <2>5, <2>6
<1> QED BY <1>1, <1>3

\* A history has the alerts at some positions, once, in order and at their true
\* times.
HistoryKept(said, at, history) ==
  /\ DOMAIN history = 1..Cardinality(at)
  /\ \E place \in [1..Cardinality(at) -> at] :
       /\ \A k, l \in DOMAIN history : k < l => place[k] < place[l]
       /\ \A k \in DOMAIN history : history[k] = TrueAlert(said[place[k]])

LEMMA HistoryOf ==
  ASSUME NEW said, IsAlerts(said), NEW items, items = transformTimestamp(said), NEW name,
         NEW at, at = {i \in DOMAIN said : said[i].Name = name},
         NEW history, history = Named(name, items)
  PROVE  HistoryKept(said, at, history)
<1>1. /\ DOMAIN items = DOMAIN said /\ DOMAIN said = 1..Len(said) /\ Len(said) \in Nat
      /\ \A i \in DOMAIN said : items[i] = TrueAlert(said[i]) /\ items[i].Name = said[i].Name
  BY TransformedAlerts
<1>2. Positions(name, items) = at
  BY <1>1 DEF Positions
<1>3. at \subseteq 1..Len(said)
  BY <1>1
<1>4. /\ Cardinality(at) \in Nat
      /\ \A k \in 1..Cardinality(at) : Nth(at, k) \in at
      /\ \A k, l \in 1..Cardinality(at) : k < l => Nth(at, k) < Nth(at, l)
  BY <1>1, <1>3, CountedInOrder
<1>5. history = [k \in 1..Cardinality(at) |-> items[Nth(at, k)]]
  BY <1>2, Zenon DEF Named
<1> DEFINE place == [k \in 1..Cardinality(at) |-> Nth(at, k)]
<1>6. place \in [1..Cardinality(at) -> at]
  BY <1>4
<1>7. DOMAIN history = 1..Cardinality(at)
  BY <1>5
<1>8. \A k, l \in DOMAIN history : k < l => place[k] < place[l]
  BY <1>4, <1>7
<1>9. \A k \in DOMAIN history : history[k] = TrueAlert(said[place[k]])
  <2> TAKE k \in DOMAIN history
  <2>1. Nth(at, k) \in DOMAIN said
    BY <1>4, <1>7
  <2>2. history[k] = items[Nth(at, k)] /\ place[k] = Nth(at, k)
    BY <1>5, <1>7
  <2> QED BY <1>1, <2>1, <2>2
<1> HIDE DEF place
<1> QED BY <1>6, <1>7, <1>8, <1>9 DEF HistoryKept

\* Of a nonempty set of positions one has the latest time.
LEMMA LatestTime ==
  ASSUME NEW n \in Nat, NEW at, at \subseteq 1..n, at # {}, NEW time \in [at -> Int]
  PROVE  \E i \in at : \A j \in at : time[j] <= time[i]
<1> DEFINE later(i) == {j \in at : time[j] > time[i]}
           D == {Cardinality(later(i)) : i \in at}
<1>1. \A i \in at : IsFiniteSet(later(i)) /\ Cardinality(later(i)) \in Nat
  <2> TAKE i \in at
  <2>1. later(i) \in SUBSET at
    OBVIOUS
  <2> HIDE DEF later
  <2> QED BY <2>1, FinitePositions, FS_Subset, FS_CardinalityType
<1>2. D \subseteq Nat /\ D # {}
  <2> HIDE DEF later
  <2> QED BY <1>1
<1>3. PICK d \in D : \A e \in D : ~(<<e, d>> \in OpToRel(<, Nat))
  <2> HIDE DEF D
  <2> QED BY <1>2, NatLessThanWellFounded, WFMin
<1>4. PICK i \in at : d = Cardinality(later(i))
  <2> HIDE DEF later
  <2> QED OBVIOUS
<1>5. ASSUME NEW j \in at, ~(time[j] <= time[i]) PROVE FALSE
  <2>1. time[i] \in Int /\ time[j] \in Int /\ time[j] > time[i]
    BY <1>5
  <2>2. \A k \in at : time[k] > time[j] => time[k] > time[i]
    <3> TAKE k \in at
    <3>1. time[k] \in Int
      OBVIOUS
    <3> QED BY <2>1, <3>1
  <2>3. later(j) \in SUBSET later(i) /\ j \in later(i) /\ j \notin later(j)
    <3>1. ~(time[j] > time[j])
      BY <2>1
    <3>2. \A k \in later(j) : k \in later(i)
      BY <2>2
    <3>3. j \in later(i)
      BY <2>1
    <3>4. j \notin later(j)
      BY <3>1
    <3> HIDE DEF later
    <3> QED BY <3>2, <3>3, <3>4
  <2> HIDE DEF later
  <2>4. Cardinality(later(j)) <= Cardinality(later(i)) /\ Cardinality(later(j)) # Cardinality(later(i))
    BY <1>1, <2>3, FS_Subset
  <2>5. Cardinality(later(j)) \in Nat /\ d \in Nat /\ Cardinality(later(j)) < d
    BY <1>1, <1>4, <2>4
  <2>6. <<Cardinality(later(j)), d>> \in OpToRel(<, Nat)
    BY <2>5 DEF OpToRel
  <2> QED BY <1>3, <2>6
<1> QED BY <1>5

\* The current alert of a name has started, and none of its name later.
LEMMA CurrentOf ==
  ASSUME NEW said, IsAlerts(said), NEW items, items = transformTimestamp(said), NEW name,
         NEW started, started = {i \in DOMAIN said : said[i].Name = name /\ said[i].StartedAt # Nil}
  PROVE  /\ Started(name, items) = started
         /\ started # {} =>
              \E i \in started :
                /\ CurrentAlert(name, items) = TrueAlert(said[i])
                /\ \A j \in started : TrueSeconds(said[j].StartedAt) <= TrueSeconds(said[i].StartedAt)
<1>1. /\ DOMAIN items = DOMAIN said /\ DOMAIN said = 1..Len(said) /\ Len(said) \in Nat
      /\ \A i \in DOMAIN said :
           /\ items[i] = TrueAlert(said[i]) /\ items[i].Name = said[i].Name
           /\ items[i].StartedAt = TrueSeconds(said[i].StartedAt)
           /\ items[i].StartedAt \in Int \cup {Nil}
           /\ items[i].StartedAt = Nil <=> said[i].StartedAt = Nil
  BY TransformedAlerts
<1>2. Started(name, items) = started
  BY <1>1 DEF Started, Positions
<1>3. ASSUME started # {}
      PROVE  \E i \in started :
               /\ CurrentAlert(name, items) = TrueAlert(said[i])
               /\ \A j \in started : TrueSeconds(said[j].StartedAt) <= TrueSeconds(said[i].StartedAt)
  <2> DEFINE last == {i \in started : \A j \in started : items[j].StartedAt <= items[i].StartedAt}
             time == [i \in started |-> items[i].StartedAt]
  <2>1. started \subseteq 1..Len(said)
    BY <1>1
  <2>2. time \in [started -> Int]
    BY <1>1
  <2>3. \E i \in started : \A j \in started : time[j] <= time[i]
    <3> HIDE DEF time
    <3> QED BY <1>1, <1>3, <2>1, <2>2, LatestTime
  <2>4. last # {} /\ last \subseteq 1..Len(said)
    BY <2>1, <2>3
  <2>5. CurrentAlert(name, items) = items[Min(last)]
    BY <1>2, Zenon DEF CurrentAlert
  <2>6. Min(last) \in last
    <3> HIDE DEF last
    <3>1. \E x \in last : \A y \in last : x <= y
      BY <2>4, LeastPosition
    <3> QED BY <3>1 DEF Min
  <2>7. PICK i \in started : i = Min(last) /\ \A j \in started : items[j].StartedAt <= items[i].StartedAt
    BY <2>6
  <2>8. \A j \in started : TrueSeconds(said[j].StartedAt) <= TrueSeconds(said[i].StartedAt)
    BY <1>1, <2>7
  <2>9. CurrentAlert(name, items) = TrueAlert(said[i])
    <3> HIDE DEF last
    <3> QED BY <1>1, <2>5, <2>7
  <2> QED BY <2>8, <2>9
<1> QED BY <1>2, <1>3

\* What is published of alerts is all of it.
LEMMA AlertTopics ==
  ASSUME NEW items, NEW published, published \in Published(Topics("alerts", items))
  PROVE  /\ \A name \in Names(items) : published[<<"history", name>>] = Named(name, items)
         /\ \A name \in Names(items) :
              /\ <<"current", name>> \in DOMAIN published <=> Started(name, items) # {}
              /\ Started(name, items) # {} =>
                   published[<<"current", name>>] = CurrentAlert(name, items)
<1> DEFINE topics == Topics("alerts", items)
           currents == {<<"current", n>> : n \in {n \in Names(items) : Started(n, items) # {}}}
           histories == {<<"history", n>> : n \in Names(items)}
<1>1. topics = [t \in currents \cup histories |->
                  IF t[1] = "current" THEN CurrentAlert(t[2], items) ELSE Named(t[2], items)]
  BY DEF Topics
<1>2. \A t \in DOMAIN topics : t[1] # "v"
  <2>1. DOMAIN topics = currents \cup histories
    BY <1>1
  <2> QED BY <2>1
<1>3. published = topics
  <2>1. {t \in DOMAIN topics : t[1] = "v" /\ topics[t] = <<"number", NaN>>} = {}
    BY <1>2
  <2> QED BY <2>1, Zenon DEF Published
<1> HIDE DEF topics
<1>4. ASSUME NEW name \in Names(items)
      PROVE  published[<<"history", name>>] = Named(name, items)
  <2>1. <<"history", name>>[1] = "history" /\ <<"history", name>>[2] = name
    OBVIOUS
  <2>2. <<"history", name>> \in histories
    OBVIOUS
  <2> HIDE DEF histories, currents
  <2> QED BY <1>1, <1>3, <2>1, <2>2
<1>5. ASSUME NEW name \in Names(items)
      PROVE  /\ <<"current", name>> \in DOMAIN published <=> Started(name, items) # {}
             /\ Started(name, items) # {} =>
                  published[<<"current", name>>] = CurrentAlert(name, items)
  <2>1. <<"current", name>>[1] = "current" /\ <<"current", name>>[2] = name
    OBVIOUS
  <2>2. <<"current", name>> \in currents \cup histories <=> Started(name, items) # {}
    OBVIOUS
  <2> HIDE DEF histories, currents
  <2> QED BY <1>1, <1>3, <2>1, <2>2
<1> QED BY <1>4, <1>5

LEMMA AlertsSaid ==
  ASSUME IInv, StoresInv, step \notin {"read", "parse"},
         record.protoMessage # Nil, record.TxType = "alerts"
  PROVE  IsAlerts(Said) /\ ItemsOf(record) = transformTimestamp(Said)
<1>1. record = NewRecord(arrival.bytes, arrival.big).record
  BY DEF IInv
<1>2. Decodable(arrival.bytes)
  BY <1>1, FramesAssumption DEF StoresInv
<1> QED BY <1>1, <1>2, AlertsRecord DEF Said

LEMMA AlertsKept ==
  ASSUME IInv, StoresInv, record.TxType = "alerts", broker # <<>>
  PROVE  AlertsSurvive
<1> DEFINE said == Said
           items == ItemsOf(record)
<1>1. /\ record.protoMessage # Nil /\ step \notin {"read", "parse"}
      /\ broker \in Published(Topics("alerts", items))
  BY DEF StoresInv, Brokered
<1>2. IsAlerts(said) /\ items = transformTimestamp(said)
  BY <1>1, AlertsSaid
<1> HIDE DEF said, items
<1>3. Names(items) = Names(said)
  <2>1. DOMAIN items = DOMAIN said /\ \A i \in DOMAIN said : items[i].Name = said[i].Name
    BY <1>2, TransformedAlerts
  <2> QED BY <2>1 DEF Names
<1> SUFFICES ASSUME NEW name \in Names(said)
             PROVE  LET at == {i \in DOMAIN said : said[i].Name = name}
                        started == {i \in at : said[i].StartedAt # Nil}
                        history == broker[<<"history", name>>]
                        current == <<"current", name>>
                    IN /\ DOMAIN history = 1..Cardinality(at)
                       /\ \E place \in [1..Cardinality(at) -> at] :
                            /\ \A k, l \in DOMAIN history : k < l => place[k] < place[l]
                            /\ \A k \in DOMAIN history : history[k] = TrueAlert(said[place[k]])
                       /\ current \in DOMAIN broker <=> started # {}
                       /\ current \in DOMAIN broker =>
                            \E i \in started :
                              /\ broker[current] = TrueAlert(said[i])
                              /\ \A j \in started :
                                   TrueSeconds(said[j].StartedAt) <= TrueSeconds(said[i].StartedAt)
  BY Zenon DEF AlertsSurvive, said
<1> DEFINE at == {i \in DOMAIN said : said[i].Name = name}
           started == {i \in at : said[i].StartedAt # Nil}
           history == broker[<<"history", name>>]
           current == <<"current", name>>
<1>4. /\ history = Named(name, items)
      /\ current \in DOMAIN broker <=> Started(name, items) # {}
      /\ Started(name, items) # {} => broker[current] = CurrentAlert(name, items)
  BY <1>1, <1>3, AlertTopics
<1>5. HistoryKept(said, at, history)
  <2>1. at = {i \in DOMAIN said : said[i].Name = name}
    OBVIOUS
  <2> HIDE DEF at, history
  <2> QED BY <1>2, <1>4, <2>1, HistoryOf
<1>6. started = {i \in DOMAIN said : said[i].Name = name /\ said[i].StartedAt # Nil}
  OBVIOUS
<1> HIDE DEF at, started, history, current
<1>7. /\ Started(name, items) = started
      /\ started # {} =>
           \E i \in started :
             /\ CurrentAlert(name, items) = TrueAlert(said[i])
             /\ \A j \in started : TrueSeconds(said[j].StartedAt) <= TrueSeconds(said[i].StartedAt)
  BY <1>2, <1>6, CurrentOf
<1>8. /\ current \in DOMAIN broker <=> started # {}
      /\ current \in DOMAIN broker =>
           \E i \in started :
             /\ broker[current] = TrueAlert(said[i])
             /\ \A j \in started :
                  TrueSeconds(said[j].StartedAt) <= TrueSeconds(said[i].StartedAt)
  BY <1>4, <1>7
<1> QED BY <1>5, <1>8 DEF at, started, history, current, HistoryKept

\* The broker has every alert the vehicle listed in the history of its name,
\* once, in order and at its true times, and as the current alert of a name the
\* one that started last, if any of that name has started: for all lists of
\* alerts, however long.
THEOREM AlertsHold == Spec => []AlertsSurvive
<1>1. IInv /\ StoresInv => AlertsSurvive
  <2> SUFFICES ASSUME IInv, StoresInv, record.TxType = "alerts", broker # <<>>
               PROVE  AlertsSurvive
    BY DEF AlertsSurvive
  <2> QED BY AlertsKept
<1> QED BY <1>1, IInvHolds, StoresHold, PTL
=============================================================================
