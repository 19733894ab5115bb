------------------------------ MODULE MCFrames ------------------------------
(* Certificates, configurations and messages of the checked instance. *)
EXTENDS Frames

Cert(issuer, name, oids, units) == [issuer |-> issuer, name |-> name, oids |-> oids, units |-> units]

Car == Cert("Product Issuing CA", << <<"LRW3">> >>, <<"client", "vehicle">>, <<>>)
Truck == Cert("Product Issuing CA", << <<"7G2T">> >>, <<"vehicle">>, <<>>)
Nameless == Cert("Tesla Issuing CA", << <<"V">> >>, <<>>, <<>>)
MCCertificates ==
  {Car, Truck, Nameless}
    \cup [issuer : knownIssuers \cup knownOIDIssuers \cup {"Other CA"},
          name : {<< <<"LRW3">>, <<"local">> >>}, oids : {<<>>, <<"board">>, <<"wifi", "vehicle">>},
          units : {<<>>, <<"Tesla Motors SN">>, <<"x", "inverter">>}]

MCModelOf(vin) ==
  CASE vin = << <<"7G2T">> >> -> "T" [] vin = << <<"V">> >> -> Nil [] OTHER -> "3"

Rules(types, producers) == [t \in types |-> producers]
MCConfigs ==
  [rules : {Rules({"V", "alerts", "errors", "connectivity", "custom"}, <<"bytes", "mqtt", "logger">>),
            Rules({"V"}, <<"logger", "mqtt">>)},
   decoded : BOOLEAN, verbose : BOOLEAN]

\* What Go prints of them: 1234.56789 has more digits than a float, and the
\* half in 0.015625 goes to the even digit.
MCNumerals == {3, -1234, 1234, 15625, 1234567890}
MCShortened(n) ==
  CASE n = 3 -> 0 [] n = -1234 -> -1230 [] n = 1234 -> 1230
    [] n = 15625 -> 15620 [] n = 1234567890 -> 1234567870

\* Values: at least one of every kind.
Texts ==
  {<<"word", w>> : w \in {"P", "p", "D", "R", "<invalid>", "SNA"}}
    \cup {<<"location", 37, "N", 122, "W">>, <<"location", 37, "S", -5, "E">>, <<"location", 1, "X", 1, "E">>}
    \cup {<<form, n>> : form \in {"decimal", "exponent", "overflow"}, n \in {3, -1234}}
    \cup {<<"scientific", n>> : n \in MCNumerals}
Values ==
  {<<"StringValue", text>> : text \in Texts}
    \cup {<<kind, n>> : kind \in Numbers, n \in {0, 7, NaN}}
    \cup UNION {{<<kind, n>> : n \in {0, LastNumber[kind], LastNumber[kind] + 1}} : kind \in Enums}
    \cup {<<"BooleanValue", b>> : b \in BOOLEAN}
    \cup {<<"LocationValue", Place(-1, 2)>>, <<"Invalid", TRUE>>, Unset, Nil,
          <<"DoorValue", {"TrunkRear"}>>, <<"TireLocationValue", {"RearLeft"}>>, <<"TimeValue", <<1, 2, 3>>>>}
Few == {<<"StringValue", <<"word", "D">>>>, <<"StringValue", <<"location", 37, "N", 122, "W">>>>,
        <<"StringValue", <<"scientific", 1234>>>>, <<"FloatValue", NaN>>, <<"Invalid", TRUE>>, Nil}

Data ==
  {<<>>} \cup {<<Datum(key, v)>> : key \in {"Gear", "Location"}, v \in Values}
    \cup {<<Datum("Gear", v), Datum("Location", w)>> : v \in Few, w \in Few}
    \cup {<<Datum("Gear", v), Datum("Gear", w)>> : v \in Few, w \in Few}
    \cup {<<Datum("260", v), Datum("261", w)>> : v \in Few, w \in Few}

Alert(name, from, to) == [Name |-> name, StartedAt |-> from, EndedAt |-> to]
SomeAlerts == {Alert("a", 20, 30), Alert("a", 250, 300), Alert("a", 26, Nil), Alert("a", Nil, Nil), Alert("b", 400, Nil)}

\* Named is the filtered sequence.
ASSUME NamedFilters ==
  \A items \in BoundedSeq(SomeAlerts, 3) : \A name \in {"a", "b"} :
    Named(name, items) = SelectSeq(items, LAMBDA item : item.Name = name)

Proto(items) == [Vin |-> Nil, items |-> items]
PayloadsOf(topic) ==
  CASE topic = "V" -> {Nil, Garbage} \cup {Proto(data) : data \in Data}
    [] topic = "alerts" -> {Garbage} \cup {Proto(s) : s \in BoundedSeq(SomeAlerts, 3)}
    [] topic = "errors" -> {Proto(<<[Name |-> "e", Body |-> "1"], [Name |-> "e", Body |-> "2"]>>)}
    [] OTHER -> {Proto(<<[Status |-> "CONNECTED"]>>)}

Built(topic, payload, sender, sent, delivered) ==
  ToBytes(SetIdentity(NewMessage(
    [f \in Fields |->
      CASE f = "TXID" -> "tx" [] f = "MessageTopic" -> topic [] f = "Payload" -> payload
        [] f = "CreatedAt" -> sent [] f = "DeliveredAtEpochMs" -> delivered [] OTHER -> Nil]),
    << <<"vehicle_device">> >>, sender))

\* Messages with missing fields, another union, no union, no content.
Shapes ==
  {NoBytes, Garbage, Envelope([TXID |-> "tx"], MessageFlatbuffersStreamAck, <<>>),
   Envelope([TXID |-> "tx"], MessageFlatbuffersStream, Nil), Envelope(<<>>, MessageNONE, Nil),
   Envelope([TXID |-> "tx", MessageTopic |-> "V"], MessageFlatbuffersStream, <<>>)}

Vin(id) == IF id.ok THEN id.DeviceID ELSE << <<"LRW3">> >>
Full(id) == {Built(t, p, Vin(id), 0, 0) : t \in {"V"}, p \in PayloadsOf("V")}
Others(id) ==
  UNION {{Built(t, p, sender, sent, 0) : p \in PayloadsOf(t), sender \in {Vin(id), << <<"other">> >>}, sent \in {0, 3}} :
           t \in {"alerts", "errors", "connectivity", "custom"}}

MCArrivals(id) ==
  {[bytes |-> b, big |-> FALSE] : b \in Shapes}
    \cup {[bytes |-> Built("V", Nil, Vin(id), 0, 5), big |-> big] : big \in BOOLEAN}
    \cup IF id = RequestIdentity(Car) \/ id = RequestIdentity(Truck) \/ id = RequestIdentity(Nameless)
         THEN {[bytes |-> b, big |-> FALSE] : b \in Full(id) \cup Others(id)} ELSE {}
=============================================================================
