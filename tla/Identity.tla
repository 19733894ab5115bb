------------------------------ MODULE Identity ------------------------------
(***************************************************************************)
(* Who is at the other end of a connection: the identity the server takes  *)
(* from the client's certificate.  Names and ids in dot notation are the   *)
(* sequences of their dot-separated segments, and a segment is the         *)
(* sequence of its dash-separated words.                                   *)
(***************************************************************************)
EXTENDS Naturals, Sequences, SequencesExt

\* Certificate authorities, by the part they play in knownIssuers and
\* knownOIDIssuers.
knownIssuers == {"Tesla Issuing CA", "Tesla Motors Products CA"}
knownOIDIssuers == {"Product Issuing CA"}

\* Extended key usages, by the device they stand for in the Eng and Prod trees.
oidMap ==
  [vehicle |-> "vehicle_device", board |-> "vehicle_board_device", energy |-> "energy_device",
   das |-> "das_device", service |-> "vehicle_service", das_service |-> "das_service",
   energy_service |-> "energy_service", robotics |-> "robotics_device"]
excludedOIDs == {"wifi"}

ouMap == [inverter |-> "solar_inverter_device", connector |-> "wall_connector_device"]

Unauthorized == [ok |-> FALSE]
Identified(clientType, deviceID) ==
  [ok |-> TRUE, clientType |-> << <<clientType>> >>, deviceID |-> deviceID]
-----------------------------------------------------------------------------
\* Fault: the dots of the common name stay.
KeepDots(name) == name

\* strings.Replace(CommonName, ".", "-", -1): one segment of all the words.
ReplaceDots(name) == << FlattenSeq(name) >>

\* The first of the listed usages that is excluded or known decides, and the
\* first organizational unit that has a client type of its own overrides it.
createIdentityFromOU(cert, clientType) ==
  LET i == SelectInSeq(cert.units, LAMBDA unit : unit \in DOMAIN ouMap)
  IN IF i = 0 THEN clientType ELSE ouMap[cert.units[i]]

createIdentifyFromOID(cert, deviceID) ==
  LET i == SelectInSeq(cert.oids, LAMBDA oid : oid \in excludedOIDs \cup DOMAIN oidMap)
  IN IF i = 0 THEN Unauthorized
     ELSE IF cert.oids[i] \in excludedOIDs THEN Unauthorized
     ELSE Identified(createIdentityFromOU(cert, oidMap[cert.oids[i]]), deviceID)

\* Products of the older authority are boards when their first unit says so.
IsBoard(cert) ==
  /\ cert.issuer = "Tesla Motors Products CA"
  /\ cert.units # <<>> /\ cert.units[1] = "Tesla Motors SN"

CreateIdentityFromCert(cert) ==
  LET deviceID == ReplaceDots(cert.name)
  IN IF cert.issuer \in knownOIDIssuers THEN createIdentifyFromOID(cert, deviceID)
     ELSE IF cert.issuer \in knownIssuers
     THEN Identified(IF IsBoard(cert) THEN "vehicle_board_device" ELSE "vehicle_device", deviceID)
     ELSE Unauthorized

BuildClientID(clientType, deviceID) == clientType \o deviceID

\* SplitN(senderID, ".", 2): what comes before and after the first dot.
ParseSenderID(senderID) == <<SubSeq(senderID, 1, 1), SubSeq(senderID, 2, Len(senderID))>>

\* extractIdentityFromConnection; RequestIdentity is nil unless ok.
RequestIdentity(cert) ==
  LET id == CreateIdentityFromCert(cert)
  IN IF id.ok
     THEN [ok |-> TRUE, DeviceID |-> id.deviceID,
           SenderID |-> BuildClientID(id.clientType, id.deviceID)]
     ELSE Unauthorized
=============================================================================
