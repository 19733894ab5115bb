------------------------------- MODULE Frames -------------------------------
(***************************************************************************)
(* One message on its way through the server and into the application: the *)
(* record made of it, the producers its type is dispatched to, the answer  *)
(* to the vehicle, and the gear the application reads in what the simple   *)
(* logger posts.  The connection's goroutine does one after the other; a   *)
(* panic anywhere ends it.                                                 *)
(***************************************************************************)
EXTENDS Payloads

CONSTANTS
  Configs,       \* [rules : types -> sequences of producers, decoded, verbose : BOOLEAN]
  Certificates,  \* certificates a connection may come with
  Arrivals(_),   \* identity -> [bytes, big] that may arrive: big if over SizeLimit
  ModelOf(_),    \* VIN -> its fourth letter, Nil if it is too short
  Now            \* the time of arrival

\* Payloads can be decoded, or they are garbage.
Decodable(bytes) ==
  IsStream(bytes) =>
    LET topic == EnvelopeBytes(bytes.table, "MessageTopic")
        payload == StreamBytes(bytes.union, "Payload")
    IN payload \notin {Nil, Garbage} =>
         /\ topic = "V" => IsData(payload.items)
         /\ topic = "alerts" => IsAlerts(payload.items)

\* Nil is no error, either.
ASSUME FramesAssumption ==
  /\ Now \in Nat \ {0} /\ Nil \notin {"panic", "unknown type", "sender"}
  /\ \A cert \in Certificates : \A message \in Arrivals(RequestIdentity(cert)) :
       Decodable(message.bytes)

VARIABLES
  config,    \* the server's configuration
  identity,  \* RequestIdentity of the connection
  arrival,   \* the message that arrived, and whether it is too big
  record,    \* the record made of it
  failure,   \* the error NewRecord returned
  step,      \* where the handler is
  rest,      \* producers that have not had the record yet
  replies,   \* answers to the vehicle
  stored,    \* payload and raw bytes that byte stores have got
  broker,    \* mqtt topic -> value
  posted,    \* what the logger has posted
  frame      \* what the application takes the posted gear for

connection == <<config, identity>>
outcome == <<replies, stored, broker, posted, frame>>
vars == <<connection, arrival, record, failure, step, rest, outcome>>

Init ==
  /\ config \in Configs
  /\ identity \in {RequestIdentity(cert) : cert \in Certificates}
  /\ arrival = Nil /\ record = Nil /\ failure = Nil
  /\ step = "read" /\ rest = <<>>
  /\ replies = <<>> /\ stored = {} /\ broker = <<>> /\ posted = Nil /\ frame = Nil

Read ==
  /\ step = "read"
  /\ arrival' \in Arrivals(identity)
  /\ step' = "parse"
  /\ UNCHANGED <<connection, record, failure, rest, outcome>>
-----------------------------------------------------------------------------
(* NewRecord. *)

EmptyRecord(raw) == [Txid |-> Nil, TxType |-> Nil, Vin |-> Nil, PayloadBytes |-> Nil,
                     RawBytes |-> raw, protoMessage |-> Nil]

\* Fault: the id of an unknown message is not kept.
guessErrorAnonymous(bytes) == EmptyRecord(bytes)

\* The id is all that is kept of an envelope of another type.
guessError(bytes) ==
  IF bytes.shape = "empty" \/ bytes.union = Nil THEN EmptyRecord(bytes)
  ELSE [EmptyRecord(bytes) EXCEPT !.Txid = EnvelopeBytes(bytes.table, "TXID")]

\* The record of a message, read into the fields of m.
Deserialized(m, bytes) ==
  [EmptyRecord(bytes) EXCEPT !.Txid = m.fields.TXID, !.TxType = m.fields.MessageTopic,
                             !.Vin = identity.DeviceID, !.PayloadBytes = m.fields.Payload]

\* Types with a dispatch rule are taken from any sender.
KnownSender(m) ==
  \/ m.fields.MessageTopic \in DOMAIN config.rules
  \/ m.fields.SenderID \in {identity.SenderID, identity.DeviceID}

Result(rec, err) == [record |-> rec, err |-> err]

\* Deserialize, which recovers from panics, a missing identity among them.
Deserialize(bytes) ==
  IF bytes.shape = "garbage" THEN Result(EmptyRecord(bytes), "panic")
  ELSE IF ~IsStream(bytes) THEN Result(guessError(bytes), "unknown type")
  ELSE LET m == SetDeliveredAt(StreamMessageFromBytes(bytes), Now)
           raw == ToBytes(m)
       IN IF ~identity.ok
          THEN Result([EmptyRecord(raw) EXCEPT !.Txid = m.fields.TXID, !.TxType = m.fields.MessageTopic],
                      "panic")
          ELSE Result(Deserialized(m, raw), IF KnownSender(m) THEN Nil ELSE "sender")

\* No bytes are an empty message.
Unmarshal(payload) == IF payload = Nil THEN [Vin |-> Nil, items |-> <<>>] ELSE payload

\* The JSON of a decoded message, and of no message: {}.
ToJSON(message) == [json |-> message]

\* applyRecordTransforms.
Transformed(rec) ==
  IF rec.TxType \notin DecodedTypes
  THEN Result([rec EXCEPT !.PayloadBytes = IF config.decoded THEN ToJSON(Nil) ELSE @], Nil)
  ELSE IF rec.PayloadBytes = Garbage THEN Result(rec, "payload")
  ELSE LET message == Transform(rec.TxType, Unmarshal(rec.PayloadBytes), rec.Vin)
       IN Result([rec EXCEPT !.protoMessage = message,
                             !.PayloadBytes = IF config.decoded THEN ToJSON(message) ELSE message], Nil)

NewRecord(bytes, big) ==
  IF big THEN Result(EmptyRecord(Nil), "too big")
  ELSE LET parsed == Deserialize(bytes)
       IN IF parsed.err # Nil THEN parsed ELSE Transformed(parsed.record)

\* ParseAndProcessRecord: the first answer of an unknown type, or the only one
\* of any other error; without an identity every answer panics.
Parse ==
  /\ step = "parse"
  /\ LET result == NewRecord(arrival.bytes, arrival.big)
     IN /\ record' = result.record /\ failure' = result.err
        /\ step' = IF result.err = Nil THEN "dispatch"
                   ELSE IF ~identity.ok THEN "panicked"
                   ELSE IF result.err = "unknown type" THEN "acknowledge" ELSE "respond"
        /\ rest' = IF result.record.TxType \in DOMAIN config.rules
                   THEN config.rules[result.record.TxType] ELSE <<>>
  /\ UNCHANGED <<connection, arrival, outcome>>
-----------------------------------------------------------------------------
(* The producers, in the order of the dispatch rule, and the answer. *)

ItemsOf(rec) == rec.protoMessage.items
Turn(producer) == step = "dispatch" /\ rest # <<>> /\ Head(rest) = producer

\* Converting a record may panic: the handler is gone and nothing is answered.
Panics(producer) ==
  /\ record.protoMessage # Nil /\ record.TxType = "V"
  /\ \/ producer = "mqtt" /\ MqttPanics(ItemsOf(record))
     \/ producer = "logger" /\ LoggerPanics(ItemsOf(record), ModelOf(record.Vin))

Panic(producer) ==
  /\ Turn(producer) /\ Panics(producer)
  /\ step' = "panicked"
  /\ UNCHANGED <<connection, arrival, record, failure, rest, outcome>>

\* kafka, kinesis, pubsub and zmq: bytes as they are.
ProduceBytes ==
  /\ Turn("bytes")
  /\ stored' = stored \cup {<<record.PayloadBytes, record.RawBytes>>}
  /\ rest' = Tail(rest)
  /\ UNCHANGED <<connection, arrival, record, failure, step, replies, broker, posted, frame>>

\* A value that JSON cannot express ends the publications wherever the order
\* has got to.
Published(topics) ==
  LET bad == {t \in DOMAIN topics : t[1] = "v" /\ topics[t] = <<"number", NaN>>}
  IN IF bad = {} THEN {topics} ELSE {Restrict(topics, S) : S \in SUBSET (DOMAIN topics \ bad)}

ProduceMqtt ==
  /\ Turn("mqtt") /\ ~Panics("mqtt")
  /\ broker' \in IF record.protoMessage = Nil THEN {broker}
                 ELSE Published(Topics(record.TxType, ItemsOf(record)))
  /\ rest' = Tail(rest)
  /\ UNCHANGED <<connection, arrival, record, failure, step, replies, stored, posted, frame>>

\* recordToLogMap.
LogMap(rec) ==
  IF rec.TxType = "V" THEN PayloadToMap(ItemsOf(rec), config.verbose, ModelOf(rec.Vin))
  ELSE ItemsOf(rec)

\* The logger has a map of the record, and JSON for it.
Loggable(rec) ==
  /\ rec.protoMessage # Nil
  /\ rec.TxType = "V" => \A i \in Shown(ItemsOf(rec)) : ~Unmarshalable(ItemsOf(rec)[i].value)

ProduceLogger ==
  /\ Turn("logger") /\ ~Panics("logger")
  /\ IF Loggable(record) THEN posted' = LogMap(record) /\ step' = "ingest"
     ELSE UNCHANGED <<posted, step>>
  /\ rest' = Tail(rest)
  /\ UNCHANGED <<connection, arrival, record, failure, replies, stored, broker, frame>>

(***************************************************************************)
(* The application permits scalars only, so typed values lose their gear,  *)
(* and compares the gear's text without regard to case.                    *)
(***************************************************************************)
Upcase(text) == IF text = Word("p") THEN Word("P") ELSE IF text = Word("d") THEN Word("D") ELSE text

PermittedGear(data) ==
  IF "Gear" \notin DOMAIN data THEN Nil
  ELSE IF data["Gear"][1] = "string" THEN data["Gear"][2]
  ELSE IF data["Gear"][1] = "number" THEN Decimal(data["Gear"][2])
  ELSE IF data["Gear"] = <<"bool", TRUE>> THEN Word("true") ELSE Nil

IsParked(gear) == Upcase(gear) = Word("P") \/ gear = Word("<invalid>")
IsDriving(gear) == Upcase(gear) \in {Word("D"), Word("R"), Word("N")}

\* Fault: whatever is not parked drives.
TripServiceDrives(gear) ==
  IF gear = Nil THEN "skipped" ELSE IF IsParked(gear) THEN "parked" ELSE "driving"

TripService(gear) ==
  IF gear = Nil THEN "skipped"
  ELSE IF IsParked(gear) THEN "parked" ELSE IF IsDriving(gear) THEN "driving" ELSE "skipped"

Ingest ==
  /\ step = "ingest"
  /\ frame' = IF record.TxType = "V" THEN TripService(PermittedGear(posted)) ELSE "refused"
  /\ step' = "dispatch"
  /\ UNCHANGED <<connection, arrival, record, failure, rest, replies, stored, broker, posted>>

Ack(rec) ==
  FlatbuffersStreamAckToBytes([TXID |-> rec.Txid, MessageTopic |-> rec.TxType, EnvMessageID |-> Nil])

Error(rec) ==
  ToBytes(NewMessage([f \in Fields |->
    IF f = "TXID" THEN rec.Txid
    ELSE IF f = "Payload" THEN "incorrect message format"
    ELSE IF f \in StreamNumbers THEN 0 ELSE Nil]))

\* respondToVehicle: unknown types are accepted, so that they are not sent again.
respondToVehicle ==
  replies' = Append(replies, IF failure \in {Nil, "unknown type"} THEN Ack(record) ELSE Error(record))

Acknowledge ==
  /\ step = "acknowledge"
  /\ respondToVehicle
  /\ step' = "dispatch"
  /\ UNCHANGED <<connection, arrival, record, failure, rest, stored, broker, posted, frame>>

Respond ==
  /\ step = "respond" \/ (step = "dispatch" /\ rest = <<>>)
  /\ respondToVehicle
  /\ step' = "done"
  /\ UNCHANGED <<connection, arrival, record, failure, rest, stored, broker, posted, frame>>

Next ==
  \/ Read \/ Parse
  \/ \E producer \in {"mqtt", "logger"} : Panic(producer)
  \/ ProduceBytes \/ ProduceMqtt \/ ProduceLogger \/ Ingest
  \/ Acknowledge \/ Respond

Spec == Init /\ [][Next]_vars
-----------------------------------------------------------------------------
(* Properties. *)

\* A message that is given the sender id of a connection is the message that is
\* given its type and its id, whatever dots the common name has, and ids have
\* no dots.
SenderIDSplits ==
  identity.ok =>
    LET type == SubSeq(identity.SenderID, 1, 1)
        message == NewMessage([f \in Fields |-> Nil])
    IN /\ SetSenderID(message, identity.SenderID) = SetIdentity(message, type, identity.DeviceID)
       /\ Len(identity.DeviceID) = 1

\* The raw bytes that stores get are the vehicle's message with the time of
\* arrival in it, whichever of its fields were written.
RawKeepsMessage ==
  record # Nil /\ ~arrival.big =>
    IF IsStream(arrival.bytes)
    THEN ReadFields(record.RawBytes) = [ReadFields(arrival.bytes) EXCEPT !["DeliveredAtEpochMs"] = Now]
    ELSE record.RawBytes = arrival.bytes

\* The vehicle can match every answer with its message, and an ack with the
\* topic, unless the message is too big or has no readable id.
ReplyNamesMessage ==
  \A i \in DOMAIN replies :
    LET sent == arrival.bytes
    IN sent.shape = "envelope" /\ sent.union # Nil /\ ~arrival.big =>
         /\ EnvelopeBytes(replies[i].table, "TXID") = EnvelopeBytes(sent.table, "TXID")
         /\ IsStream(sent) /\ replies[i].type = MessageFlatbuffersStreamAck =>
              AckFromBytes(replies[i])["MessageTopic"] = EnvelopeBytes(sent.table, "MessageTopic")

\* What a text, a value and its JSON say, whatever their representation.
Sign == [N |-> 1, S |-> -1, E |-> 1, W |-> -1]
TextMeaning(text) ==
  IF IsLocation(text)
  THEN <<"place", [latitude |-> Sign[text[3]] * text[2], longitude |-> Sign[text[5]] * text[4]]>>
  ELSE IF text[1] \in {"decimal", "scientific", "exponent", "overflow"} THEN <<"number", text[2]>>
  ELSE IF text[1] = "name" THEN <<"number", text[3]>>
  ELSE <<"text", text>>

Meaning(value) ==
  CASE Kind(value) = "StringValue" -> TextMeaning(Content(value))
    [] Kind(value) = "LocationValue" -> <<"place", Content(value)>>
    [] Kind(value) = "Invalid" -> <<"text", Word("<invalid>")>>
    [] Kind(value) = "TimeValue" -> <<"text", <<"time", Content(value)>>>>
    [] Kind(value) \in Numbers \cup Enums -> <<"number", Content(value)>>
    [] OTHER -> <<"choice", Content(value)>>

JSONMeaning(json) ==
  CASE json[1] = "string" -> TextMeaning(json[2])
    [] json[1] = "null" -> <<"text", Word("<invalid>")>>
    [] json[1] = "flags" -> <<"choice", {f \in DOMAIN json[2] : json[2][f]}>>
    [] json[1] = "bool" -> <<"choice", json[2]>>
    [] OTHER -> json

\* A text in scientific notation is said as closely as a float says it, and
\* any other value exactly.
Says(meaning, value) ==
  IF Kind(value) = "StringValue" /\ Content(value)[1] = "scientific"
  THEN meaning[1] = "number" /\ meaning[2] \in Int /\ Close(meaning[2], Content(value)[2])
  ELSE meaning = Meaning(value)

\* What the vehicle said; a datum may be replaced by a later one of its field.
Said == Unmarshal(StreamBytes(arrival.bytes.union, "Payload")).items
Replaced(i) == \E j \in DOMAIN Said : j > i /\ Said[j].key = Said[i].key

\* Both stores show what the vehicle said: locations with their signs, numbers
\* as they are, and in scientific notation as far as a 32-bit float and five
\* decimals go, enumerations by name or number, invalid values as invalid; and
\* they leave nothing out, except the values that the logger has no case for,
\* fields that have no name, and what cannot be expressed in JSON.
ValuesSurvive ==
  record # Nil /\ record.protoMessage # Nil /\ record.TxType = "V" =>
    \A i \in DOMAIN Said : ~Replaced(i) =>
      LET key == Said[i].key
          value == Said[i].value
      IN /\ posted # Nil /\ i \in Shown(Said) /\ key \notin Unnamed =>
              /\ key \in DOMAIN posted
              /\ IF config.verbose
                 THEN /\ posted[key][2] \in {Kind(value), "LocationValue"}
                      /\ Kind(value) # "Invalid" => Says(JSONMeaning(posted[key][3]), value)
                 ELSE Says(JSONMeaning(posted[key]), value)
         /\ value # Nil /\ Kind(value) # "Unset" /\ <<"v", key>> \in DOMAIN broker =>
              Says(JSONMeaning(broker[<<"v", key>>]), value)
         /\ broker # <<>> /\ (\A j \in DOMAIN Said : ~Unmarshalable(Said[j].value)) =>
              <<"v", key>> \in DOMAIN broker

\* The seconds the vehicle meant.
TrueSeconds(time) == IF time = Nil THEN Nil ELSE IF time >= MaxSeconds THEN time \div Milli ELSE time

TrueAlert(alert) == [alert EXCEPT !.StartedAt = TrueSeconds(@), !.EndedAt = TrueSeconds(@)]

\* Every alert is in the history of its name, once, in order and at its true
\* times; an alert is current if any of its name has started, it has started,
\* and none of its name started later.
AlertsSurvive ==
  record # Nil /\ record.TxType = "alerts" /\ broker # <<>> =>
    \A name \in Names(Said) :
      LET at == {i \in DOMAIN Said : Said[i].Name = name}
          started == {i \in at : Said[i].StartedAt # Nil}
          history == broker[<<"history", name>>]
          current == <<"current", name>>
      IN /\ DOMAIN history = 1..Cardinality(at)
         /\ \E place \in [1..Cardinality(at) -> at] :
              /\ \A k, l \in DOMAIN history : k < l => place[k] < place[l]
              /\ \A k \in DOMAIN history : history[k] = TrueAlert(Said[place[k]])
         /\ current \in DOMAIN broker <=> started # {}
         /\ current \in DOMAIN broker =>
              \E i \in started :
                /\ broker[current] = TrueAlert(Said[i])
                /\ \A j \in started : TrueSeconds(Said[j].StartedAt) <= TrueSeconds(Said[i].StartedAt)

\* What the vehicle says about being parked, in words or by an invalid value.
SaidGear(value) ==
  IF value = Nil THEN "skipped"
  ELSE IF Kind(value) = "Invalid" THEN "parked"
  ELSE IF Kind(value) # "StringValue" THEN "skipped"
  ELSE IF Content(value) \in {Word("P"), Word("p"), Word("<invalid>")} THEN "parked"
  ELSE IF Content(value) \in {Word("D"), Word("d"), Word("R"), Word("N")} THEN "driving" ELSE "skipped"

\* The application takes a frame for parked or driving only when the vehicle
\* said so, and misses it only when values are logged with their types or the
\* message has a later gear.
GearNotConfused ==
  frame # Nil /\ record.TxType = "V" =>
    /\ frame # "skipped" => \E i \in DOMAIN Said : Said[i].key = "Gear" /\ SaidGear(Said[i].value) = frame
    /\ frame = "skipped" /\ ~config.verbose =>
         \A i \in DOMAIN Said :
           Said[i].key = "Gear" => SaidGear(Said[i].value) = "skipped" \/ Replaced(i)
=============================================================================
