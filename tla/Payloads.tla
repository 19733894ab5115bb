------------------------------ MODULE Payloads ------------------------------
(***************************************************************************)
(* The payloads of records and what becomes of them: the transforms of a   *)
(* new record, the JSON that the simple logger posts and the values that   *)
(* the mqtt producer publishes.  A value is a pair of its kind, the member *)
(* of the oneof that is set, and its content; a text is a tuple that says  *)
(* what kind of text it is.  Numbers are whole multiples of 0.000001.      *)
(***************************************************************************)
EXTENDS Messages, Integers, VehicleData

CONSTANTS
  NaN,           \* the number that JSON cannot express
  MaxSeconds,    \* bound: maxSecondsInDuration
  Milli,         \* bound: milliseconds in a second
  Numerals,      \* bound: the numbers that texts in scientific notation say
  Shortened(_),  \* such a number -> Sprintf("%.5f") of the ParseFloat(text, 32)
  Precision      \* bound: 2^24, by the 24 significant bits of a 32-bit float

\* Enumerations that getDatumValue names itself; it converts the others by
\* reflection.
NamedByMqtt ==
  {"ShiftStateValue", "LaneAssistLevelValue", "ScheduledChargingModeValue", "SentryModeStateValue",
   "SpeedAssistLevelValue", "BmsStateValue", "BuckleStatusValue", "CarTypeValue",
   "ChargePortValue", "ChargePortLatchValue", "DriveInverterStateValue", "HvilStatusValue",
   "WindowStateValue", "SeatFoldPositionValue", "TractorAirStatusValue", "FollowDistanceValue",
   "ForwardCollisionSensitivityValue", "GuestModeMobileAccessValue", "TrailerAirStatusValue",
   "DetailedChargeStateValue", "SunroofInstalledStateValue", "TurnSignalStateValue",
   "MediaStatusValue"}

\* A value whose oneof is not set; a datum without value has Nil.
Unset == <<"Unset", Nil>>

Word(w) == <<"word", w>>
Decimal(n) == <<"decimal", n>>

Magnitude(n) == IF n < 0 THEN -n ELSE n

\* A float and five decimals miss a number by a Precision-th of it, and by 5.
Close(a, n) == (Magnitude(a - n) - 5) * Precision <= Magnitude(n)

\* Nil is no text that says a gear, and no value that a transform makes.
ASSUME PayloadsAssumption ==
  /\ Numerals \subseteq Int /\ Precision \in Nat
  /\ \A n \in Numerals : /\ Shortened(n) \in Int /\ Shortened(n) % 10 = 0
                         /\ Close(Shortened(n), n)
  /\ NaN \notin Int /\ Nil \notin Int /\ MaxSeconds \in Nat /\ Milli \in Nat \ {0}
  /\ Nil \notin {Word(w) : w \in {"P", "p", "D", "d", "R", "N", "<invalid>"}}
  /\ Nil \notin {"StringValue"} \X ({"decimal"} \X Int)
  /\ Nil \notin {"LocationValue"} \X [latitude : Int, longitude : Int]

\* EnumStringOf: the declared name, or the number of an undeclared value.
EnumString(kind, n) == IF n \in Declared(kind) THEN <<"name", kind, n>> ELSE Decimal(n)

(***************************************************************************)
(* What decoding gives: data whose values have contents of their kinds, and *)
(* alerts whose times are seconds, or missing.                             *)
(***************************************************************************)
IsText(text) ==
  \/ text[1] = "word"
  \/ text[1] = "location" /\ text[2] \in Int /\ text[4] \in Int
  \/ text[1] \in {"decimal", "exponent", "overflow"} /\ text[2] \in Int
  \/ text[1] = "scientific" /\ text[2] \in Numerals

IsValue(value) ==
  \/ Kind(value) = "StringValue" /\ IsText(Content(value))
  \/ Kind(value) \in Numbers /\ (Content(value) = NaN \/ Content(value) \in Int)
  \/ Kind(value) \in Enums /\ Content(value) \in Int
  \/ Kind(value) = "BooleanValue" /\ Content(value) \in BOOLEAN
  \/ Kind(value) = "DoorValue" /\ Content(value) \subseteq Doors
  \/ Kind(value) = "TireLocationValue" /\ Content(value) \subseteq Tires
  \/ Kind(value) \in {"Unset", "Invalid", "LocationValue", "TimeValue"}

IsData(data) ==
  /\ Len(data) \in Nat /\ DOMAIN data = 1..Len(data)
  /\ \A i \in DOMAIN data : /\ data[i] = Datum(data[i].key, data[i].value)
                            /\ data[i].key # ""
                            /\ data[i].value = Nil \/ IsValue(data[i].value)

IsAlerts(alerts) ==
  /\ Len(alerts) \in Nat /\ DOMAIN alerts = 1..Len(alerts)
  /\ \A i \in DOMAIN alerts :
       /\ alerts[i] = [Name |-> alerts[i].Name, StartedAt |-> alerts[i].StartedAt,
                       EndedAt |-> alerts[i].EndedAt]
       /\ alerts[i].StartedAt \in Int \cup {Nil} /\ alerts[i].EndedAt \in Int \cup {Nil}

-----------------------------------------------------------------------------
(* The transforms of a new record. *)

\* Fault: west is east.
ParseLocationUnsigned(text) ==
  Place(IF text[3] = "S" THEN -text[2] ELSE text[2], text[4])

\* <<"location", number, N or S, number, E or W>>.
IsLocation(text) == text[1] = "location" /\ text[3] \in {"N", "S"} /\ text[5] \in {"E", "W"}
ParseLocation(text) ==
  Place(IF text[3] = "S" THEN -text[2] ELSE text[2], IF text[5] = "W" THEN -text[4] ELSE text[4])

\* Only the first datum with the key Location.
transformLocation(data) ==
  LET i == SelectInSeq(data, LAMBDA datum : datum.key = "Location")
  IN IF i = 0 THEN data
     ELSE IF data[i].value = Nil THEN data
     ELSE IF Kind(data[i].value) # "StringValue" THEN data
     ELSE IF ~IsLocation(Content(data[i].value)) THEN data
     ELSE [data EXCEPT ![i].value = <<"LocationValue", ParseLocation(Content(@))>>]

(***************************************************************************)
(* Texts the regular expression matches have a point and an exponent:      *)
(* "exponent" texts (1e-3) have no point.  The number is parsed as a       *)
(* 32-bit float and printed with five decimals; one that is out of range   *)
(* for the float stays as it is ("overflow").                              *)
(***************************************************************************)
transformScientificNotation(data) ==
  [i \in DOMAIN data |->
     LET value == data[i].value
     IN IF value = Nil THEN data[i]
        ELSE IF Kind(value) # "StringValue" THEN data[i]
        ELSE IF Content(value)[1] # "scientific" THEN data[i]
        ELSE [data[i] EXCEPT !.value = <<"StringValue", Decimal(Shortened(Content(value)[2]))>>]]

\* Seconds that are too many for a duration are milliseconds.
convertTimestamp(time) ==
  IF time = Nil THEN Nil ELSE IF time < MaxSeconds THEN time ELSE time \div Milli

transformTimestamp(alerts) ==
  [i \in DOMAIN alerts |-> [alerts[i] EXCEPT !.StartedAt = convertTimestamp(@),
                                             !.EndedAt = convertTimestamp(@)]]

\* The message types that records are decoded for.
DecodedTypes == {"V", "alerts", "errors", "connectivity"}

\* applyProtoRecordTransforms on a payload that can be decoded.
Transform(type, message, vin) ==
  CASE type = "V" -> [Vin |-> vin, items |-> transformScientificNotation(transformLocation(message.items))]
    [] type = "alerts" -> [Vin |-> vin, items |-> transformTimestamp(message.items)]
    [] type = "errors" -> [message EXCEPT !.Vin = vin]
    [] type = "connectivity" -> message

-----------------------------------------------------------------------------
(* The simple logger: transformValue and PayloadToMap. *)

String(text) == <<"string", text>>
Flags(names, set) == <<"flags", [f \in names |-> f \in set]>>

InvalidValue(includeTypes) == IF includeTypes THEN <<"bool", TRUE>> ELSE String(Word("<invalid>"))

\* The kinds transformValue has no case for.
UnknownToLogger == {"ChargingValue", "Unset"}

OutputValue(value, includeTypes, model) ==
  CASE Kind(value) = "StringValue" -> String(Content(value))
    [] Kind(value) = "LocationValue" -> <<"place", Content(value)>>
    [] Kind(value) \in Numbers -> <<"number", Content(value)>>
    [] Kind(value) = "BooleanValue" -> <<"bool", Content(value)>>
    [] Kind(value) = "Invalid" -> InvalidValue(includeTypes)
    [] Kind(value) \in Enums -> String(EnumString(Kind(value), Content(value)))
    [] Kind(value) = "DoorValue" -> Flags(Doors, Content(value))
    [] Kind(value) = "TireLocationValue" -> Flags(IF model = "T" THEN SemiTires ELSE Tires, Content(value))
    [] Kind(value) = "TimeValue" -> String(<<"time", Content(value)>>)

transformValue(value, includeTypes, model) ==
  LET output == OutputValue(value, includeTypes, model)
  IN IF includeTypes THEN <<"typed", Kind(value), output>> ELSE output

\* getModelFromVIN needs four letters.
LoggerPanics(data, model) ==
  model = Nil /\ \E i \in DOMAIN data : data[i].value # Nil /\ Kind(data[i].value) = "TireLocationValue"

\* json.Marshal refuses the number that is none.
Unmarshalable(value) == value # Nil /\ Kind(value) \in Numbers /\ Content(value) = NaN

Shown(data) ==
  {i \in DOMAIN data : data[i].value # Nil /\ Kind(data[i].value) \notin UnknownToLogger}

\* A later datum with the same name overwrites an earlier one, and fields
\* without a name all have the empty one.
PayloadToMap(data, includeTypes, model) ==
  [name \in {Field_name(data[i].key) : i \in Shown(data)} |->
     LET last == Max({i \in Shown(data) : Field_name(data[i].key) = name})
     IN transformValue(data[last].value, includeTypes, model)]

-----------------------------------------------------------------------------
(* The mqtt producer. *)

\* getProtoValue of the kinds getDatumValue has no case for: the fields that
\* are populated, an undeclared enumeration value as its number.
getProtoValue(value) ==
  CASE Kind(value) = "Unset" -> <<"flags", <<>>>>
    [] Kind(value) = "TireLocationValue" -> Flags(Content(value), Content(value))
    [] Kind(value) \in Enums -> IF Content(value) \in Declared(Kind(value)) THEN String(EnumString(Kind(value), Content(value)))
                                ELSE <<"number", Content(value)>>

getDatumValue(value) ==
  CASE Kind(value) = "StringValue" -> String(Content(value))
    [] Kind(value) = "LocationValue" -> <<"place", Content(value)>>
    [] Kind(value) \in Numbers -> <<"number", Content(value)>>
    [] Kind(value) = "BooleanValue" -> <<"bool", Content(value)>>
    [] Kind(value) = "Invalid" -> <<"null">>
    [] Kind(value) \in NamedByMqtt -> String(EnumString(Kind(value), Content(value)))
    [] Kind(value) = "DoorValue" -> Flags(Doors, Content(value))
    [] Kind(value) = "TimeValue" -> String(<<"time", Content(value)>>)
    [] OTHER -> getProtoValue(value)

\* A datum without value is dereferenced.
MqttPanics(data) == \E i \in DOMAIN data : data[i].value = Nil

payloadToMap(data) ==
  [key \in {data[i].key : i \in DOMAIN data} |->
     getDatumValue(data[Max({i \in DOMAIN data : data[i].key = key})].value)]

\* Position k of those in at, counted from the first.
Nth(at, k) == CHOOSE i \in at : Cardinality({j \in at : j <= i}) = k

\* The items of a name, in their order.
Positions(name, items) == {i \in DOMAIN items : items[i].Name = name}
Named(name, items) ==
  [k \in 1..Cardinality(Positions(name, items)) |-> items[Nth(Positions(name, items), k)]]
Names(items) == {items[i].Name : i \in DOMAIN items}

Started(name, alerts) == {i \in Positions(name, alerts) : alerts[i].StartedAt # Nil}

\* Fault: the last alert of a name is its current one.
CurrentAlertLast(name, alerts) == alerts[Max(Started(name, alerts))]

\* The alert of a name that started last, the first of them when several did.
CurrentAlert(name, alerts) ==
  LET started == Started(name, alerts)
  IN alerts[Min({i \in started : \A j \in started : alerts[j].StartedAt <= alerts[i].StartedAt})]

(***************************************************************************)
(* The topics a record is published to and their values.  Vehicle fields   *)
(* go out in any order.                                                    *)
(***************************************************************************)
Topics(type, items) ==
  CASE type = "V" ->
         LET fields == payloadToMap(items) IN [t \in {<<"v", key>> : key \in DOMAIN fields} |-> fields[t[2]]]
    [] type = "alerts" ->
         [t \in {<<"current", n>> : n \in {n \in Names(items) : Started(n, items) # {}}}
                \cup {<<"history", n>> : n \in Names(items)} |->
            IF t[1] = "current" THEN CurrentAlert(t[2], items) ELSE Named(t[2], items)]
    [] type = "errors" -> [t \in {<<"errors", n>> : n \in Names(items)} |-> Last(Named(t[2], items))]
    [] type = "connectivity" -> [t \in {<<"connectivity">>} |-> items]
=============================================================================
