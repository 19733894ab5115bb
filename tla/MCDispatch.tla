----------------------------- MODULE MCDispatch -----------------------------
(* Configuration files with each kind of dispatcher, and files that the server *)
(* must not start with.                                                        *)
EXTENDS Dispatch, TLC

CONSTANTS c1, c2

File(records, acks, sections) == [records |-> records, acks |-> acks, sections |-> sections]
NoAcks == [t \in {} |-> ""]

\* kafka is the reliable source of two types.
KafkaFile == File([V |-> <<"logger", "kafka">>, alerts |-> <<"kafka">>], [V |-> "kafka", alerts |-> "kafka"], {"kafka"})
\* mqtt with the logger, as the application uses it.
MqttFile == File([V |-> <<"mqtt", "logger">>], [V |-> "mqtt"], {"mqtt"})
StoresFile ==
  File([V |-> <<"kinesis", "pubsub">>, alerts |-> <<"zmq">>], [V |-> "pubsub", alerts |-> "zmq"], {"kinesis", "pubsub", "zmq"})
PlainFile == File([V |-> <<"logger">>], NoAcks, {})
UnknownFile == File([V |-> <<"logger", "file">>], NoAcks, {})
\* A dispatcher listed twice gets every record twice.
TwiceFile == File([alerts |-> <<"zmq", "zmq">>], [alerts |-> "zmq"], {"zmq"})
\* Refused: a section is missing, the logger or another store is to acknowledge,
\* connectivity is to be acknowledged, a type has no dispatcher.
MissingFile == File([V |-> <<"kafka">>], NoAcks, {"mqtt"})
LoggerFile == File([V |-> <<"logger">>], [V |-> "logger"], {})
OtherFile == File([V |-> <<"kafka">>], [V |-> "pubsub"], {"kafka"})
ConnectivityFile == File([connectivity |-> <<"kafka">>], [connectivity |-> "kafka"], {"kafka"})
EmptyFile == File([V |-> <<>>], NoAcks, {})

MCConfigs == {KafkaFile, MqttFile, StoresFile, PlainFile, UnknownFile, TwiceFile,
              MissingFile, LoggerFile, OtherFile, ConnectivityFile, EmptyFile}
MCMaxRecords == c1 :> 2 @@ c2 :> 1
=============================================================================
