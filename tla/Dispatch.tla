------------------------------ MODULE Dispatch ------------------------------
(* How the telemetry server starts from its configuration file, and how the  *)
(* producers of the configured dispatchers take the records of the           *)
(* connections: synchronous stores, kafka with its delivery reports, mqtt    *)
(* with several publications per record and one deadline, and the logger     *)
(* that posts the frames to the ingest endpoint.                             *)
EXTENDS Naturals, Sequences, SequencesExt

CONSTANTS
  Conns,      \* connections
  Types,      \* record types
  Fields,     \* the mqtt topics of a record
  Configs,    \* configuration files
  MaxRecords  \* bound: records of each connection

Stores == {"kafka", "pubsub", "kinesis", "zmq", "mqtt"}

\* records: the dispatchers of each record type; acks: reliable_ack_sources;
\* sections: the stores that the file configures.
ASSUME DispatchAssumption ==
  /\ MaxRecords \in [Conns -> Nat]
  /\ \A cfg \in Configs :
       /\ DOMAIN cfg.records \subseteq Types
       /\ \A t \in DOMAIN cfg.records : cfg.records[t] \in Seq(STRING)
       /\ \A t \in DOMAIN cfg.acks : cfg.acks[t] \in STRING
       /\ cfg.sections \subseteq Stores

VARIABLES
  config,     \* the configuration file
  server,     \* "starting", "running" or "failed"
  handler,    \* the goroutine of each connection
  reads,      \* how many records each connection has read
  held,       \* the records in each synchronous store and in kafka
  published,  \* the publications that mqtt's broker has
  publishing, \* publications on their way
  inflight,   \* records that kafka has not reported yet
  reporter,   \* the record that kafka's event loop offers to ackChan, if any
  posts,      \* frames on their way to the ingest endpoint, or held by a proxy before it
  ingested,   \* the frames the ingest endpoint received, in order
  acked,      \* records taken from ackChan
  answered,   \* records answered by their handler
  refused     \* history: records with the dispatchers that reported an error for them

producing == <<held, published, publishing, inflight, reporter, posts, ingested, acked, refused>>
vars == <<config, server, handler, reads, answered, producing>>

Reading == [step |-> "read"]
Working(step, r, i, todo, failed) == [step |-> step, record |-> r, rule |-> i, todo |-> todo, failed |-> failed]

-----------------------------------------------------------------------------
(* The configuration. *)

Rules(cfg, t) == IF t \in DOMAIN cfg.records THEN cfg.records[t] ELSE <<>>
Required(cfg) == UNION {ToSet(cfg.records[t]) : t \in DOMAIN cfg.records}

AckSourcesValid(cfg) ==
  \A t \in DOMAIN cfg.acks :
    /\ t # "connectivity"
    /\ cfg.acks[t] # "logger"
    /\ cfg.acks[t] \in ToSet(Rules(cfg, t))

\* Fault: the map of a dispatcher is made anew for every type.
SourcesOverwritten(cfg, d) ==
  LET ts == {t \in DOMAIN cfg.acks : cfg.acks[t] = d}
  IN IF ts = {} THEN {} ELSE {CHOOSE t \in ts : TRUE}
\* The types whose records the producer of dispatcher d acknowledges.
Sources(cfg, d) == {t \in DOMAIN cfg.acks : cfg.acks[t] = d}

Accepted(cfg) ==
  /\ AckSourcesValid(cfg)
  /\ Required(cfg) \cap Stores \subseteq cfg.sections
  /\ \A t \in DOMAIN cfg.records : cfg.records[t] # <<>>

\* A rule of any other name is kept without a producer.
Producers(cfg) == {"logger"} \cup (Required(cfg) \cap Stores)

Init ==
  /\ config \in Configs
  /\ server = "starting"
  /\ handler = [c \in Conns |-> Reading]
  /\ reads = [c \in Conns |-> 0]
  /\ held = [d \in Stores |-> {}]
  /\ published = {} /\ publishing = {}
  /\ inflight = {} /\ reporter = {}
  /\ posts = {} /\ ingested = <<>>
  /\ acked = {} /\ answered = {} /\ refused = {}

\* ConfigureProducers: a store may be out of reach whatever the file says.
ConfigureProducers ==
  /\ server = "starting"
  /\ \/ Accepted(config) /\ server' = "running"
     \/ server' = "failed"
  /\ UNCHANGED <<config, handler, reads, answered, producing>>

-----------------------------------------------------------------------------
(* A connection's handler gives a record to one producer after the other. *)

Become(c, h) == handler' = [handler EXCEPT ![c] = h]
At(c, step) == handler[c].step = step
RuleOf(h) == Rules(config, h.record.type)[h.rule]
\* The handler is about to call Produce of dispatcher d.
Calls(c, d) ==
  /\ At(c, "produce")
  /\ handler[c].rule <= Len(Rules(config, handler[c].record.type))
  /\ RuleOf(handler[c]) = d
Reliable(r, d) == r.type \in Sources(config, d)

NextRule(c) == Become(c, Working("produce", handler[c].record, handler[c].rule + 1, {}, {}))
\* ProcessReliableAck waits for the reader of ackChan.
AckOrGoOn(c, d) ==
  IF Reliable(handler[c].record, d)
  THEN Become(c, Working("ack", handler[c].record, handler[c].rule, {}, {}))
  ELSE NextRule(c)

Receive(c, t) ==
  /\ server = "running"
  /\ At(c, "read")
  /\ reads[c] < MaxRecords[c]
  /\ reads' = [reads EXCEPT ![c] = @ + 1]
  /\ Become(c, Working("produce", [conn |-> c, n |-> reads[c] + 1, type |-> t], 1, {}, {}))
  /\ UNCHANGED <<config, server, answered, producing>>

\* mqtt meets a datum without value, or the logger a VIN too short to have a model in
\* it: vehicle data only, and before anything is published or posted.
PanicsOnData(r, d) == d \in {"mqtt", "logger"} /\ r.type = "V"

\* So does the call of a dispatcher that has no producer panic: the connection ends.
Panic(c) ==
  /\ At(c, "produce")
  /\ \E d \in ToSet(Rules(config, handler[c].record.type)) :
       Calls(c, d) /\ (d \notin Producers(config) \/ PanicsOnData(handler[c].record, d))
  /\ Become(c, Working("dead", handler[c].record, handler[c].rule, {}, {}))
  /\ UNCHANGED <<config, server, reads, answered, producing>>

\* pubsub, kinesis and zmq return when the store has answered; an error does not say
\* whether the store has the record.
Store(c, d) ==
  /\ Calls(c, d) /\ d \in Producers(config)
  /\ \/ /\ held' = [held EXCEPT ![d] = @ \cup {handler[c].record}]
        /\ AckOrGoOn(c, d)
        /\ UNCHANGED refused
     \/ /\ \/ held' = [held EXCEPT ![d] = @ \cup {handler[c].record}]
           \/ UNCHANGED held
        /\ refused' = refused \cup {<<handler[c].record, d>>}
        /\ NextRule(c)
  /\ UNCHANGED <<config, server, reads, answered, published, publishing, inflight, reporter, posts, ingested, acked>>

Ack(c) ==
  /\ At(c, "ack")
  /\ acked' = acked \cup {handler[c].record}
  /\ NextRule(c)
  /\ UNCHANGED <<config, server, reads, answered, held, published, publishing, inflight, reporter, posts, ingested, refused>>

\* Fault: the handler answers whatever its producers do.
RespondAlways(c) ==
  /\ At(c, "produce")
  /\ handler[c].rule > Len(Rules(config, handler[c].record.type))
  /\ answered' = answered \cup {handler[c].record}
  /\ Become(c, Reading)
  /\ UNCHANGED <<config, server, reads, producing>>
\* Fault: the last rule is left out.
RespondEarly(c) ==
  /\ At(c, "produce")
  /\ handler[c].rule >= Len(Rules(config, handler[c].record.type))
  /\ answered' = IF handler[c].record.type \in DOMAIN config.acks THEN answered ELSE answered \cup {handler[c].record}
  /\ Become(c, Reading)
  /\ UNCHANGED <<config, server, reads, producing>>
\* The handler is through with its rules: without a reliable ack it answers itself.
Respond(c) ==
  /\ At(c, "produce")
  /\ handler[c].rule > Len(Rules(config, handler[c].record.type))
  /\ answered' = IF handler[c].record.type \in DOMAIN config.acks THEN answered ELSE answered \cup {handler[c].record}
  /\ Become(c, Reading)
  /\ UNCHANGED <<config, server, reads, producing>>

-----------------------------------------------------------------------------
(* kafka *)

Enqueue(c) ==
  /\ Calls(c, "kafka") /\ "kafka" \in Producers(config)
  /\ \/ inflight' = inflight \cup {handler[c].record} /\ UNCHANGED refused
     \/ refused' = refused \cup {<<handler[c].record, "kafka">>} /\ UNCHANGED inflight
  /\ NextRule(c)
  /\ UNCHANGED <<config, server, reads, answered, held, published, publishing, reporter, posts, ingested, acked>>

\* handleProducerEvents takes the report of a record.
Report(r) ==
  /\ reporter = {}
  /\ inflight' = inflight \ {r}
  /\ \/ /\ held' = [held EXCEPT !["kafka"] = @ \cup {r}]
        /\ reporter' = IF Reliable(r, "kafka") THEN {r} ELSE {}
        /\ UNCHANGED refused
     \/ /\ \/ held' = [held EXCEPT !["kafka"] = @ \cup {r}]
           \/ UNCHANGED held
        /\ refused' = refused \cup {<<r, "kafka">>}
        /\ UNCHANGED reporter
  /\ UNCHANGED <<config, server, handler, reads, answered, published, publishing, posts, ingested, acked>>

AckReported ==
  /\ reporter # {}
  /\ acked' = acked \cup reporter
  /\ reporter' = {}
  /\ UNCHANGED <<config, server, handler, reads, answered, held, published, publishing, inflight, posts, ingested, refused>>

-----------------------------------------------------------------------------
(* mqtt *)

\* Every topic of the record is published, or an error ends this half way and nobody
\* waits for what was published.
Publish(c) ==
  /\ Calls(c, "mqtt") /\ "mqtt" \in Producers(config)
  /\ LET r == handler[c].record IN
     \/ /\ publishing' = publishing \cup ({r} \X Fields)
        /\ Become(c, Working("wait", r, handler[c].rule, Fields, {}))
        /\ UNCHANGED refused
     \/ /\ \E some \in SUBSET Fields : publishing' = publishing \cup ({r} \X some)
        /\ refused' = refused \cup {<<r, "mqtt">>}
        /\ NextRule(c)
  /\ UNCHANGED <<config, server, reads, answered, held, published, inflight, reporter, posts, ingested, acked>>

\* The broker gets a publication, or it fails: both may come after the deadline.
Complete(p) ==
  /\ publishing' = publishing \ {p}
  /\ published' = published \cup {p}
  /\ UNCHANGED <<config, server, handler, reads, answered, held, inflight, reporter, posts, ingested, acked, refused>>

Break(p) ==
  /\ publishing' = publishing \ {p}
  /\ UNCHANGED <<config, server, handler, reads, answered, held, published, inflight, reporter, posts, ingested, acked, refused>>

\* Fault: the last token decides.
WaitTokenLast(c, f) ==
  /\ At(c, "wait") /\ f \in handler[c].todo
  /\ LET h == handler[c] IN
     \/ /\ <<h.record, f>> \in published
        /\ Become(c, Working("wait", h.record, h.rule, h.todo \ {f}, {}))
        /\ UNCHANGED refused
     \/ /\ <<h.record, f>> \notin published
        /\ Become(c, Working("wait", h.record, h.rule, h.todo \ {f}, {f}))
        /\ refused' = refused \cup {<<h.record, "mqtt">>}
  /\ UNCHANGED <<config, server, reads, answered, held, published, publishing, inflight, reporter, posts, ingested, acked>>
\* The next token is done, or it has failed or the deadline is over.
WaitToken(c, f) ==
  /\ At(c, "wait") /\ f \in handler[c].todo
  /\ LET h == handler[c] IN
     \/ /\ <<h.record, f>> \in published
        /\ Become(c, Working("wait", h.record, h.rule, h.todo \ {f}, h.failed))
        /\ UNCHANGED refused
     \/ /\ <<h.record, f>> \notin published
        /\ Become(c, Working("wait", h.record, h.rule, h.todo \ {f}, h.failed \cup {f}))
        /\ refused' = refused \cup {<<h.record, "mqtt">>}
  /\ UNCHANGED <<config, server, reads, answered, held, published, publishing, inflight, reporter, posts, ingested, acked>>

AllWaited(c) ==
  /\ At(c, "wait") /\ handler[c].todo = {}
  /\ IF handler[c].failed = {} THEN AckOrGoOn(c, "mqtt") ELSE NextRule(c)
  /\ UNCHANGED <<config, server, reads, answered, producing>>

-----------------------------------------------------------------------------
(* The logger posts the frame; its client has no timeout, but the proxies before the *)
(* ingest endpoint, Cloudflare and nginx, have.                                      *)

\* What cannot be expressed in JSON is not posted.
Post(c) ==
  /\ Calls(c, "logger")
  /\ LET r == handler[c].record IN
     \/ /\ posts' = posts \cup {r}
        /\ Become(c, Working("post", r, handler[c].rule, {}, {}))
        /\ UNCHANGED refused
     \/ /\ refused' = refused \cup {<<r, "logger">>}
        /\ NextRule(c)
        /\ UNCHANGED posts
  /\ UNCHANGED <<config, server, reads, answered, held, published, publishing, inflight, reporter, ingested, acked>>

Ingest(r) ==
  /\ ingested' = Append(ingested, r)
  /\ posts' = posts \ {r}
  /\ UNCHANGED <<config, server, handler, reads, answered, held, published, publishing, inflight, reporter, acked, refused>>

\* The request fails before it arrives.
Lose(r) ==
  /\ posts' = posts \ {r}
  /\ UNCHANGED <<config, server, handler, reads, answered, held, published, publishing, inflight, reporter, ingested, acked, refused>>

\* Fault: a goroutine of its own posts the frame.
PostAnsweredAtOnce(c) ==
  /\ At(c, "post")
  /\ NextRule(c)
  /\ UNCHANGED <<config, server, reads, answered, producing>>
\* The endpoint accepts the frame, or there is an error: the endpoint's own, one that
\* keeps the frame from arriving, or a proxy's that has waited long enough and leaves
\* the frame on its way.  The handler goes on after each.
PostAnswered(c) ==
  /\ At(c, "post")
  /\ LET r == handler[c].record IN
     \/ r \in ToSet(ingested) \ posts /\ UNCHANGED refused
     \/ refused' = refused \cup {<<r, "logger">>}
  /\ NextRule(c)
  /\ UNCHANGED <<config, server, reads, answered, held, published, publishing, inflight, reporter, posts, ingested, acked>>

Next ==
  \/ ConfigureProducers
  \/ \E c \in Conns :
       \/ \E t \in Types : Receive(c, t)
       \/ Panic(c)
       \/ \E d \in {"pubsub", "kinesis", "zmq"} : Store(c, d)
       \/ Ack(c) \/ Respond(c) \/ Enqueue(c) \/ Publish(c) \/ AllWaited(c) \/ Post(c) \/ PostAnswered(c)
       \/ \E f \in Fields : WaitToken(c, f)
  \/ \E r \in inflight : Report(r)
  \/ AckReported
  \/ \E p \in publishing : Complete(p) \/ Break(p)
  \/ \E r \in posts : Ingest(r) \/ Lose(r)

Spec == Init /\ [][Next]_vars

-----------------------------------------------------------------------------
(* Properties. *)

Held(r, d) == IF d = "mqtt" THEN {r} \X Fields \subseteq published ELSE r \in held[d]

\* A reliable ack is true: the store that the file names for the record's type has the
\* record, and mqtt's broker all of its topics, although publications fail, come late
\* and outlive the wait.
AckMeansHeld == \A r \in acked : r.type \in DOMAIN config.acks /\ Held(r, config.acks[r.type])

\* No vehicle waits in vain: a record that no producer works on any more has been
\* answered, unless the producer it relies on reported an error or a panic ended the
\* handler.  The server's own test for reliable types and what the producers were told
\* about them must agree for this.
EveryRecordAnswered ==
  \A c \in Conns : \A n \in 1..reads[c] :
    \/ n = reads[c] /\ ~At(c, "read")
    \/ \E r \in answered \cup acked \cup inflight \cup reporter : r.conn = c /\ r.n = n
    \/ \E x \in refused : x[1].conn = c /\ x[1].n = n /\ x[1].type \in Sources(config, x[2])

\* A record is not answered again, neither by its handler nor by a producer that has
\* yet to send its ack, whichever stores take it and however kafka's report is late;
\* for this no type may list a dispatcher twice, which the server does not check.
NoRepeats == \A t \in DOMAIN config.records : IsInjective(config.records[t])
OneAnswer ==
  NoRepeats =>
    /\ answered \cap acked = {} /\ reporter \cap (answered \cup acked) = {}
    /\ \A c \in Conns : At(c, "ack") => handler[c].record \notin answered \cup acked \cup reporter

\* The frames of one connection reach the ingest endpoint in the order in which the
\* vehicle sent them, which the trip service relies on, except those whose post ended
\* with an error: the proxies answer in place of the endpoint and may pass such a frame
\* on later.
IngestInOrder ==
  \A i, j \in DOMAIN ingested :
    i < j /\ ingested[i].conn = ingested[j].conn =>
      ingested[i].n <= ingested[j].n \/ <<ingested[j], "logger">> \in refused

Taken(r, d) ==
  \/ <<r, d>> \in refused
  \/ d \in Stores /\ Held(r, d)
  \/ d = "kafka" /\ r \in inflight
  \/ d = "logger" /\ r \in ToSet(ingested)
Through(r) == At(r.conn, "read") \/ handler[r.conn].record # r

\* No dispatcher of an answered record is left out: once its handler is through with it,
\* each one that the file lists for its type has it, or kafka has yet to report it, or
\* an error is on record.  A panic may come between the ack of a reliable producer and
\* the dispatchers after it, so the handler must be through; then no dispatcher of an
\* unknown name was among them.
NoneLeftOut ==
  \A r \in answered \cup acked :
    Through(r) => \A d \in ToSet(Rules(config, r.type)) : Taken(r, d)
=============================================================================
