--------------------------- MODULE Dispatch_proofs ---------------------------
(* For any configuration file: reliable acks are true, the frames of a      *)
(* connection arrive in order unless their posts ended with an error, no    *)
(* record is forgotten, none is answered twice, and no dispatcher of an     *)
(* answered record is left out.                                             *)
EXTENDS Dispatch, TLAPS

\* What the ack of record r says, for stores that hold hl and pb.
HeldIn(r, d, hl, pb) == IF d = "mqtt" THEN {r} \X Fields \subseteq pb ELSE r \in hl[d]
Settled(r, cfg, hl, pb) ==
  r.type \in DOMAIN cfg.acks /\ cfg.acks[r.type] \in Stores /\ HeldIn(r, cfg.acks[r.type], hl, pb)

\* A handler about to acknowledge may do so; one that waits knows of every token that it
\* has looked at whether the broker has the publication.
Fine(h, cfg, hl, pb) ==
  /\ h.step = "ack" => Settled(h.record, cfg, hl, pb)
  /\ h.step = "wait" => \A f \in Fields \ h.todo : f \in h.failed \/ <<h.record, f>> \in pb

IInv ==
  /\ handler = [c \in Conns |-> handler[c]]
  /\ held = [d \in Stores |-> held[d]]
  /\ \A c \in Conns : Fine(handler[c], config, held, published)
  /\ \A r \in reporter \cup acked : Settled(r, config, held, published)

\* Stores never lose what they hold.
Grow(hl, hl2, pb, pb2) == (\A d \in Stores : hl[d] \subseteq hl2[d]) /\ pb \subseteq pb2

LEMMA FineGrows ==
  ASSUME NEW cfg, NEW hl, NEW hl2, NEW pb, NEW pb2, Grow(hl, hl2, pb, pb2)
  PROVE  /\ \A r : Settled(r, cfg, hl, pb) => Settled(r, cfg, hl2, pb2)
         /\ \A h : Fine(h, cfg, hl, pb) => Fine(h, cfg, hl2, pb2)
<1>1. ASSUME NEW r, Settled(r, cfg, hl, pb) PROVE Settled(r, cfg, hl2, pb2)
  BY <1>1 DEF Settled, HeldIn, Grow
<1>2. ASSUME NEW h, Fine(h, cfg, hl, pb) PROVE Fine(h, cfg, hl2, pb2)
  BY <1>1, <1>2 DEF Fine, Grow
<1>3. QED
  BY <1>1, <1>2

\* A step in which the handler of c becomes h.
LEMMA HandlerStep ==
  ASSUME IInv, NEW c \in Conns, NEW h, Become(c, h), config' = config,
         held' = [d \in Stores |-> held'[d]], Grow(held, held', published, published'),
         Fine(h, config, held', published'),
         \A r \in reporter' \cup acked' : r \in reporter \cup acked \/ Settled(r, config, held', published')
  PROVE  IInv'
<1>1. /\ \A r : Settled(r, config, held, published) => Settled(r, config, held', published')
      /\ \A k : Fine(k, config, held, published) => Fine(k, config, held', published')
  BY FineGrows
<1>2. handler' = [k \in Conns |-> IF k = c THEN h ELSE handler[k]]
  BY DEF IInv, Become
<1>3. \A k \in Conns : Fine(handler'[k], config, held', published')
  BY <1>1, <1>2 DEF IInv
<1>4. \A r \in reporter' \cup acked' : Settled(r, config, held', published')
  BY <1>1 DEF IInv
<1>5. handler' = [k \in Conns |-> handler'[k]]
  BY <1>2
<1>6. QED
  BY <1>3, <1>4, <1>5 DEF IInv

\* A step that leaves the handlers alone.
LEMMA StoreStep ==
  ASSUME IInv, handler' = handler, config' = config,
         held' = [d \in Stores |-> held'[d]], Grow(held, held', published, published'),
         \A r \in reporter' \cup acked' : r \in reporter \cup acked \/ Settled(r, config, held', published')
  PROVE  IInv'
<1>1. /\ \A r : Settled(r, config, held, published) => Settled(r, config, held', published')
      /\ \A k : Fine(k, config, held, published) => Fine(k, config, held', published')
  BY FineGrows
<1>2. QED
  BY <1>1 DEF IInv

\* What an untouched store and one more record in store d amount to.
LEMMA HeldSame == held' = held /\ published' = published /\ IInv
                    => held' = [d \in Stores |-> held'[d]] /\ Grow(held, held', published, published')
BY DEF IInv, Grow

LEMMA HeldMore ==
  ASSUME IInv, NEW d \in Stores, NEW r, held' = [held EXCEPT ![d] = @ \cup {r}], published' = published
  PROVE  /\ held' = [k \in Stores |-> held'[k]]
         /\ Grow(held, held', published, published')
         /\ r \in held'[d]
<1>1. held' = [k \in Stores |-> IF k = d THEN held[d] \cup {r} ELSE held[k]]
  BY DEF IInv
<1>2. QED
  BY <1>1 DEF Grow

\* Going on to the next rule, and what is acknowledged.
LEMMA NextFine ==
  ASSUME NEW r, NEW i, NEW cfg, NEW hl, NEW pb
  PROVE  Fine(Working("produce", r, i, {}, {}), cfg, hl, pb)
BY DEF Fine, Working

LEMMA AckFine ==
  ASSUME NEW r, NEW i, NEW cfg, NEW hl, NEW pb, Settled(r, cfg, hl, pb)
  PROVE  Fine(Working("ack", r, i, {}, {}), cfg, hl, pb)
BY DEF Fine, Working

-----------------------------------------------------------------------------
LEMMA StoreKeeps ==
  ASSUME IInv, NEW c \in Conns, NEW d \in {"pubsub", "kinesis", "zmq"}, Store(c, d)
  PROVE  IInv'
<1> DEFINE r == handler[c].record
           on == Working("produce", r, handler[c].rule + 1, {}, {})
           ack == Working("ack", r, handler[c].rule, {}, {})
<1>1. /\ config' = config /\ published' = published /\ reporter' = reporter /\ acked' = acked
      /\ d \in Stores /\ d # "mqtt"
  BY DEF Store, Stores
<1>2. /\ held' = [held EXCEPT ![d] = @ \cup {r}] \/ held' = held
      /\ Become(c, on) \/ (Become(c, ack) /\ Reliable(r, d) /\ held' = [held EXCEPT ![d] = @ \cup {r}])
  BY DEF Store, AckOrGoOn, NextRule
<1>3. held' = [k \in Stores |-> held'[k]] /\ Grow(held, held', published, published')
  BY <1>1, <1>2, HeldSame, HeldMore
<1>4. CASE Become(c, on)
  BY <1>1, <1>3, <1>4, NextFine, HandlerStep
<1>5. CASE Become(c, ack) /\ Reliable(r, d) /\ held' = [held EXCEPT ![d] = @ \cup {r}]
  <2>1. r \in held'[d]
    BY <1>1, <1>5, HeldMore
  <2>2. Settled(r, config, held', published')
    BY <1>1, <1>5, <2>1 DEF Settled, HeldIn, Reliable, Sources
  <2>3. Fine(ack, config, held', published')
    BY <2>2, AckFine
  <2>4. QED
    BY <1>1, <1>3, <1>5, <2>3, HandlerStep
<1>6. QED
  BY <1>2, <1>4, <1>5

LEMMA ReportKeeps ==
  ASSUME IInv, NEW r \in inflight, Report(r)
  PROVE  IInv'
<1>1. /\ config' = config /\ published' = published /\ acked' = acked /\ handler' = handler
      /\ "kafka" \in Stores /\ "kafka" # "mqtt"
      /\ held' = [held EXCEPT !["kafka"] = @ \cup {r}] \/ held' = held
      /\ \/ reporter' \subseteq reporter
         \/ Reliable(r, "kafka") /\ reporter' = {r} /\ held' = [held EXCEPT !["kafka"] = @ \cup {r}]
  BY DEF Report, Stores
<1>2. held' = [k \in Stores |-> held'[k]] /\ Grow(held, held', published, published')
  BY <1>1, HeldSame, HeldMore
<1>3. CASE reporter' \subseteq reporter
  BY <1>1, <1>2, <1>3, StoreStep
<1>4. CASE Reliable(r, "kafka") /\ reporter' = {r} /\ held' = [held EXCEPT !["kafka"] = @ \cup {r}]
  <2>1. r \in held'["kafka"]
    BY <1>1, <1>4, HeldMore
  <2>2. Settled(r, config, held', published')
    BY <1>1, <1>4, <2>1 DEF Settled, HeldIn, Reliable, Sources
  <2>3. QED
    BY <1>1, <1>2, <1>4, <2>2, StoreStep
<1>5. QED
  BY <1>1, <1>3, <1>4

\* Steps of a handler that change neither a store nor what is acknowledged, and do not
\* end before an ack or a wait.
LEMMA HandlerOnly ==
  ASSUME IInv, NEW c \in Conns, NEW h, Become(c, h), h.step \notin {"ack", "wait"},
         config' = config, held' = held, published' = published, reporter' = reporter, acked' = acked
  PROVE  IInv'
<1>1. Fine(h, config, held', published')
  BY DEF Fine
<1>2. QED
  BY <1>1, HeldSame, HandlerStep

LEMMA PlainKeeps ==
  ASSUME IInv, NEW c \in Conns,
         \/ \E t \in Types : Receive(c, t)
         \/ Panic(c) \/ Respond(c) \/ Enqueue(c) \/ Post(c) \/ PostAnswered(c)
  PROVE  IInv'
<1>1. config' = config /\ held' = held /\ published' = published /\ reporter' = reporter /\ acked' = acked
  BY DEF Receive, Panic, Respond, Enqueue, Post, PostAnswered, producing
<1>2. ASSUME NEW t \in Types, Receive(c, t) PROVE IInv'
  BY <1>1, <1>2, HandlerOnly DEF Receive, Working
<1>3. CASE Panic(c)
  BY <1>1, <1>3, HandlerOnly DEF Panic, Working
<1>4. CASE Respond(c)
  BY <1>1, <1>4, HandlerOnly DEF Respond, Reading
<1>5. CASE Enqueue(c) \/ PostAnswered(c)
  BY <1>1, <1>5, HandlerOnly DEF Enqueue, PostAnswered, NextRule, Working
<1>6. CASE Post(c)
  BY <1>1, <1>6, HandlerOnly DEF Post, NextRule, Working
<1>7. QED
  BY <1>2, <1>3, <1>4, <1>5, <1>6

LEMMA AckKeeps ==
  ASSUME IInv, NEW c \in Conns, Ack(c)
  PROVE  IInv'
<1> DEFINE on == Working("produce", handler[c].record, handler[c].rule + 1, {}, {})
<1>1. /\ Become(c, on) /\ acked' = acked \cup {handler[c].record}
      /\ config' = config /\ held' = held /\ published' = published /\ reporter' = reporter
  BY DEF Ack, NextRule
<1>2. Settled(handler[c].record, config, held', published')
  BY <1>1 DEF IInv, Fine, Ack, At
<1>3. Fine(on, config, held', published')
  BY NextFine
<1>4. QED
  BY <1>1, <1>2, <1>3, HeldSame, HandlerStep

LEMMA PublishKeeps ==
  ASSUME IInv, NEW c \in Conns, Publish(c)
  PROVE  IInv'
<1> DEFINE r == handler[c].record
           wait == Working("wait", r, handler[c].rule, Fields, {})
           on == Working("produce", r, handler[c].rule + 1, {}, {})
<1>1. /\ Become(c, wait) \/ Become(c, on)
      /\ config' = config /\ held' = held /\ published' = published /\ reporter' = reporter /\ acked' = acked
  BY DEF Publish, NextRule
<1>2. Fine(wait, config, held', published') /\ Fine(on, config, held', published')
  BY DEF Fine, Working
<1>3. QED
  BY <1>1, <1>2, HeldSame, HandlerStep

LEMMA WaitKeeps ==
  ASSUME IInv, NEW c \in Conns, NEW f \in Fields, WaitToken(c, f)
  PROVE  IInv'
<1> DEFINE old == handler[c]
<1>1. /\ config' = config /\ held' = held /\ published' = published /\ reporter' = reporter /\ acked' = acked
      /\ old.step = "wait" /\ Fine(old, config, held, published)
  BY DEF WaitToken, IInv, At
<1>2. PICK failed :
        /\ Become(c, Working("wait", old.record, old.rule, old.todo \ {f}, failed))
        /\ \/ <<old.record, f>> \in published /\ failed = old.failed
           \/ failed = old.failed \cup {f}
  BY DEF WaitToken
<1> DEFINE new == Working("wait", old.record, old.rule, old.todo \ {f}, failed)
<1>3. new.step = "wait" /\ new.record = old.record /\ new.todo = old.todo \ {f} /\ new.failed = failed
  BY DEF Working
<1> HIDE DEF new
<1>4. \A g \in Fields \ new.todo : g \in new.failed \/ <<new.record, g>> \in published
  BY <1>1, <1>2, <1>3 DEF Fine
<1>5. Fine(new, config, held', published')
  BY <1>1, <1>3, <1>4 DEF Fine
<1>6. Become(c, new)
  BY <1>2 DEF new
<1>7. QED
  BY <1>1, <1>5, <1>6, HeldSame, HandlerStep

LEMMA AllWaitedKeeps ==
  ASSUME IInv, NEW c \in Conns, AllWaited(c)
  PROVE  IInv'
<1> DEFINE r == handler[c].record
           on == Working("produce", r, handler[c].rule + 1, {}, {})
           ack == Working("ack", r, handler[c].rule, {}, {})
<1>1. /\ config' = config /\ held' = held /\ published' = published /\ reporter' = reporter /\ acked' = acked
      /\ \/ Become(c, on)
         \/ Become(c, ack) /\ handler[c].failed = {} /\ Reliable(r, "mqtt")
      /\ handler[c].step = "wait" /\ handler[c].todo = {}
  BY DEF AllWaited, producing, NextRule, AckOrGoOn, At
<1>2. CASE Become(c, on)
  BY <1>1, <1>2, NextFine, HeldSame, HandlerStep
<1>3. CASE Become(c, ack) /\ handler[c].failed = {} /\ Reliable(r, "mqtt")
  <2>1. \A f \in Fields : <<r, f>> \in published
    BY <1>1, <1>3 DEF IInv, Fine
  <2>2. Settled(r, config, held', published')
    BY <1>1, <1>3, <2>1 DEF Settled, HeldIn, Reliable, Sources, Stores
  <2>3. Fine(ack, config, held', published')
    BY <2>2, AckFine
  <2>4. QED
    BY <1>1, <1>3, <2>3, HeldSame, HandlerStep
<1>4. QED
  BY <1>1, <1>2, <1>3

\* The boot, the broker, the endpoint and kafka's acks.
LEMMA OthersKeep ==
  ASSUME IInv,
         \/ ConfigureProducers \/ AckReported
         \/ \E p \in publishing : Complete(p) \/ Break(p)
         \/ \E r \in posts : Ingest(r) \/ Lose(r)
  PROVE  IInv'
<1>1. /\ config' = config /\ handler' = handler /\ held' = held /\ published \subseteq published'
      /\ reporter' \cup acked' \subseteq reporter \cup acked
  BY DEF ConfigureProducers, AckReported, Complete, Break, Ingest, Lose, producing
<1>2. held' = [d \in Stores |-> held'[d]] /\ Grow(held, held', published, published')
  BY <1>1 DEF IInv, Grow
<1>3. QED
  BY <1>1, <1>2, StoreStep

LEMMA InitInv == Init => IInv
BY DEF Init, IInv, Fine, Reading

LEMMA NextInv == IInv /\ [Next]_vars => IInv'
<1> SUFFICES ASSUME IInv, [Next]_vars PROVE IInv'
  OBVIOUS
<1>1. CASE UNCHANGED vars
  BY <1>1, HeldSame, StoreStep DEF vars, producing
<1>2. CASE Next
  BY <1>2, PlainKeeps, StoreKeeps, AckKeeps, PublishKeeps, AllWaitedKeeps, WaitKeeps, ReportKeeps, OthersKeep DEF Next
<1>3. QED
  BY <1>1, <1>2

\* A vehicle that gets a reliable ack of a record can forget it: the store that the
\* configuration names has the record, whatever the other dispatchers and late or failed
\* publications do.
THEOREM ReliableAcksAreTrue == Spec => []AckMeansHeld
<1>1. IInv => AckMeansHeld
  BY DEF IInv, AckMeansHeld, Settled, HeldIn, Held
<1>2. QED
  BY <1>1, InitInv, NextInv, PTL DEF Spec

-----------------------------------------------------------------------------
(* What the handlers work on, for the properties that relate records to what  *)
(* their connection has read.                                                 *)
Records == [conn : Conns, n : Nat, type : Types]

\* The record of a handler that is not reading is the last one of its connection.
Current(c, h, n) ==
  h.step # "read" => /\ h.record \in Records /\ h.record.conn = c /\ h.record.n = n
                     /\ h.rule \in Nat \ {0}

Handling ==
  /\ handler = [c \in Conns |-> handler[c]]
  /\ reads \in [Conns -> Nat]
  /\ \A c \in Conns : Current(c, handler[c], reads[c])

\* A handler goes on with its record.
GoesOn(c, h) ==
  /\ Become(c, h) /\ ~At(c, "read")
  /\ h.step # "read" /\ h.record = handler[c].record
  /\ h.rule = handler[c].rule \/ h.rule = handler[c].rule + 1

\* How a step changes the handlers and what they have read.
LEMMA HandlersMove ==
  ASSUME Next
  PROVE  /\ config' = config
         /\ \/ handler' = handler /\ reads' = reads
            \/ \E c \in Conns : \E t \in Types : Receive(c, t)
            \/ \E c \in Conns : reads' = reads /\ \E h : GoesOn(c, h)
            \/ \E c \in Conns : Respond(c)
<1>1. ASSUME NEW c \in Conns, ~At(c, "read"), NextRule(c) PROVE \E h : GoesOn(c, h)
  BY <1>1 DEF NextRule, Working, GoesOn
<1>2. ASSUME NEW c \in Conns, NEW d, ~At(c, "read"), AckOrGoOn(c, d) PROVE \E h : GoesOn(c, h)
  BY <1>1, <1>2 DEF AckOrGoOn, Working, GoesOn
<1>3. ASSUME NEW c \in Conns, NEW t \in Types, Receive(c, t) PROVE config' = config
  BY <1>3 DEF Receive
<1>4. ASSUME NEW c \in Conns, NEW d, Store(c, d) PROVE config' = config /\ reads' = reads /\ \E h : GoesOn(c, h)
  BY <1>1, <1>2, <1>4 DEF Store, Calls, At
<1>5. ASSUME NEW c \in Conns, Ack(c) \/ Enqueue(c) \/ PostAnswered(c) \/ AllWaited(c)
      PROVE config' = config /\ reads' = reads /\ \E h : GoesOn(c, h)
  BY <1>1, <1>2, <1>5 DEF Ack, Enqueue, PostAnswered, AllWaited, Calls, At
<1>6. ASSUME NEW c \in Conns, Respond(c) PROVE config' = config
  BY <1>6 DEF Respond
<1>7. ASSUME NEW c \in Conns, Publish(c) \/ Post(c) \/ Panic(c)
      PROVE config' = config /\ reads' = reads /\ \E h : GoesOn(c, h)
  BY <1>1, <1>7 DEF Publish, Post, Panic, Working, GoesOn, Calls, At
<1>8. ASSUME NEW c \in Conns, NEW f \in Fields, WaitToken(c, f)
      PROVE config' = config /\ reads' = reads /\ \E h : GoesOn(c, h)
  BY <1>8 DEF WaitToken, Working, GoesOn, At
<1>9. ASSUME \/ ConfigureProducers \/ AckReported
             \/ \E r \in inflight : Report(r)
             \/ \E p \in publishing : Complete(p) \/ Break(p)
             \/ \E r \in posts : Ingest(r) \/ Lose(r)
      PROVE  config' = config /\ handler' = handler /\ reads' = reads
  BY <1>9 DEF ConfigureProducers, AckReported, Report, Complete, Break, Ingest, Lose
<1>10. QED
  BY <1>3, <1>4, <1>5, <1>6, <1>7, <1>8, <1>9 DEF Next

LEMMA InitHandling == Init => Handling
BY DEF Init, Handling, Current, Reading

LEMMA NextHandling == Handling /\ [Next]_vars => Handling'
<1> SUFFICES ASSUME Handling, [Next]_vars PROVE Handling'
  OBVIOUS
<1>1. CASE handler' = handler /\ reads' = reads
  BY <1>1 DEF Handling
<1>2. ASSUME NEW c \in Conns, NEW h, Become(c, h), Current(c, h, reads'[c]), reads' \in [Conns -> Nat],
             \A k \in Conns : k # c => reads'[k] = reads[k]
      PROVE  Handling'
  BY <1>2 DEF Handling, Become
<1>3. ASSUME NEW c \in Conns, NEW t \in Types, Receive(c, t) PROVE Handling'
  <2> DEFINE h == Working("produce", [conn |-> c, n |-> reads[c] + 1, type |-> t], 1, {}, {})
  <2>1. reads' = [reads EXCEPT ![c] = reads[c] + 1] /\ Become(c, h)
    BY <1>3 DEF Receive
  <2>2. reads' \in [Conns -> Nat] /\ reads'[c] = reads[c] + 1 /\ \A k \in Conns : k # c => reads'[k] = reads[k]
    BY <2>1 DEF Handling
  <2>3. Current(c, h, reads'[c])
    BY <2>2 DEF Current, Working, Records, Handling
  <2>4. QED
    BY <1>2, <2>1, <2>2, <2>3
<1>4. ASSUME NEW c \in Conns, NEW h, GoesOn(c, h), reads' = reads PROVE Handling'
  <2>1. Current(c, h, reads[c])
    BY <1>4 DEF GoesOn, Handling, Current, At
  <2>2. QED
    BY <1>2, <1>4, <2>1 DEF GoesOn, Handling
<1>5. ASSUME NEW c \in Conns, Respond(c) PROVE Handling'
  <2>1. Current(c, Reading, reads[c]) /\ Become(c, Reading) /\ reads' = reads
    BY <1>5 DEF Respond, Current, Reading
  <2>2. QED
    BY <1>2, <2>1 DEF Handling
<1>6. CASE UNCHANGED vars
  BY <1>1, <1>6 DEF vars
<1>7. CASE Next
  BY <1>1, <1>3, <1>4, <1>5, <1>7, HandlersMove
<1>8. QED
  BY <1>6, <1>7

-----------------------------------------------------------------------------
(* The order of the frames.                                                   *)

\* A frame is on its way while the handler of its connection waits for the answer, so
\* that nothing of a later record can arrive before it, or its post ended with an error.
Awaited(r) == handler[r.conn].step = "post" /\ handler[r.conn].record = r
GivenUp(r) == <<r, "logger">> \in refused
Posting ==
  \A r \in posts : /\ r \in Records /\ r.n <= reads[r.conn]
                   /\ Awaited(r) \/ GivenUp(r)

OrderInv ==
  /\ Handling
  /\ Posting
  /\ ingested \in Seq(Records)
  /\ \A i \in DOMAIN ingested : ingested[i].n <= reads[ingested[i].conn]
  /\ IngestInOrder

\* Reading on keeps what has arrived behind what has been read.
LEMMA ReadsGrow ==
  ASSUME Handling, [Next]_vars
  PROVE  \A c \in Conns : reads[c] <= reads'[c]
<1>1. ASSUME NEW c \in Conns, NEW t \in Types, Receive(c, t) PROVE \A k \in Conns : reads[k] <= reads'[k]
  BY <1>1 DEF Receive, Handling
<1>2. CASE reads' = reads
  BY <1>2 DEF Handling
<1>3. QED
  BY <1>1, <1>2, HandlersMove DEF vars, Respond

\* What the steps do to the frames.
LEMMA ErrorsStay ==
  ASSUME [Next]_vars
  PROVE  refused \subseteq refused'
BY DEF Next, ConfigureProducers, Receive, Panic, Store, Ack, Respond, Enqueue, Publish, AllWaited, Post, PostAnswered,
       WaitToken, Report, AckReported, Complete, Break, Ingest, Lose, vars, producing, NextRule, AckOrGoOn

LEMMA FramesMove ==
  ASSUME [Next]_vars
  PROVE  \/ posts' = posts /\ ingested' = ingested
         \/ \E c \in Conns : Post(c)
         \/ \E r \in posts : Ingest(r) \/ Lose(r)
<1>1. ASSUME \/ ConfigureProducers
             \/ \E c \in Conns :
                  \/ \E t \in Types : Receive(c, t)
                  \/ Panic(c)
                  \/ \E d \in {"pubsub", "kinesis", "zmq"} : Store(c, d)
                  \/ Ack(c) \/ Respond(c) \/ Enqueue(c) \/ Publish(c) \/ AllWaited(c) \/ PostAnswered(c)
                  \/ \E f \in Fields : WaitToken(c, f)
             \/ \E r \in inflight : Report(r)
             \/ AckReported
             \/ \E p \in publishing : Complete(p) \/ Break(p)
      PROVE  posts' = posts /\ ingested' = ingested
  BY <1>1 DEF ConfigureProducers, Receive, Panic, Store, Ack, Respond, Enqueue, Publish, AllWaited, PostAnswered,
              WaitToken, Report, AckReported, Complete, Break, producing
<1>2. QED
  BY <1>1 DEF Next, vars, producing

\* A handler that waits for the ingest endpoint moves only when its frame is gone, or
\* with an error.
LEMMA PostersStay ==
  ASSUME Handling, Posting, [Next]_vars, NEW r \in posts, Awaited(r)
  PROVE  handler'[r.conn] = handler[r.conn] \/ <<r, "logger">> \in refused'
<1> DEFINE c == r.conn
<1>1. c \in Conns /\ At(c, "post") /\ handler[c].record = r
  BY DEF Posting, Records, Awaited, At
<1>2. ASSUME NEW k \in Conns, NEW h, Become(k, h), k # c PROVE handler'[c] = handler[c]
  BY <1>1, <1>2 DEF Become, Handling
<1>3. ASSUME NEW k \in Conns, \E h : Become(k, h), ~At(k, "post") PROVE handler'[c] = handler[c]
  BY <1>1, <1>2, <1>3
<1>4. ASSUME NEW k \in Conns, PostAnswered(k)
      PROVE  handler'[c] = handler[c] \/ <<r, "logger">> \in refused'
  BY <1>1, <1>2, <1>4 DEF PostAnswered, NextRule
<1>5. ASSUME NEW k \in Conns,
             \/ \E t \in Types : Receive(k, t)
             \/ Panic(k) \/ Respond(k) \/ Enqueue(k) \/ Post(k)
      PROVE  handler'[c] = handler[c]
  BY <1>3, <1>5 DEF Receive, Panic, Respond, Enqueue, Post, Calls, At, NextRule
<1>6. ASSUME NEW k \in Conns, NEW d, Store(k, d) PROVE handler'[c] = handler[c]
  BY <1>3, <1>6 DEF Store, Calls, At, NextRule, AckOrGoOn
<1>7. ASSUME NEW k \in Conns, Ack(k) \/ Publish(k) \/ AllWaited(k) PROVE handler'[c] = handler[c]
  BY <1>3, <1>7 DEF Ack, Publish, AllWaited, Calls, At, NextRule, AckOrGoOn
<1>8. ASSUME NEW k \in Conns, NEW f \in Fields, WaitToken(k, f) PROVE handler'[c] = handler[c]
  BY <1>3, <1>8 DEF WaitToken, At
<1>9. ASSUME \/ ConfigureProducers \/ AckReported
             \/ \E q \in inflight : Report(q)
             \/ \E p \in publishing : Complete(p) \/ Break(p)
             \/ \E q \in posts : Ingest(q) \/ Lose(q)
             \/ UNCHANGED vars
      PROVE  handler' = handler
  BY <1>9 DEF ConfigureProducers, AckReported, Report, Complete, Break, Ingest, Lose, vars
<1>10. QED
  BY <1>4, <1>5, <1>6, <1>7, <1>8, <1>9 DEF Next

LEMMA PostingKept ==
  ASSUME Handling, Posting, [Next]_vars
  PROVE  Posting'
<1>1. ASSUME NEW q \in posts
      PROVE  /\ q \in Records /\ q.n <= reads'[q.conn]
             /\ Awaited(q)' \/ <<q, "logger">> \in refused'
  <2>1. q \in Records /\ q.n <= reads[q.conn] /\ (Awaited(q) \/ GivenUp(q))
    BY DEF Posting
  <2>2. /\ q.conn \in Conns /\ q.n \in Nat
        /\ reads[q.conn] \in Nat /\ reads'[q.conn] \in Nat /\ reads[q.conn] <= reads'[q.conn]
    BY <2>1, ReadsGrow, NextHandling DEF Records, Handling
  <2>3. q.n <= reads'[q.conn]
    BY <2>1, <2>2
  <2>4. CASE Awaited(q)
    BY <2>1, <2>3, <2>4, PostersStay DEF Awaited
  <2>5. CASE GivenUp(q)
    BY <2>1, <2>3, <2>5, ErrorsStay DEF GivenUp
  <2>6. QED
    BY <2>1, <2>4, <2>5
<1>2. CASE posts' \subseteq posts
  BY <1>1, <1>2 DEF Posting, GivenUp
<1>3. ASSUME NEW c \in Conns, Post(c), ~(posts' \subseteq posts) PROVE Posting'
  <2>1. PICK r, h : r = handler[c].record /\ h = Working("post", r, handler[c].rule, {}, {})
    OBVIOUS
  <2>2. posts' = posts \cup {r} /\ Become(c, h) /\ At(c, "produce") /\ reads' = reads
    BY <1>3, <2>1 DEF Post, Calls
  <2>3. r \in Records /\ r.conn = c /\ r.n = reads[c] /\ reads[c] \in Nat /\ handler'[c] = h
    BY <2>1, <2>2 DEF Handling, Current, At, Become
  <2>4. Awaited(r)'
    BY <2>1, <2>3 DEF Working, Awaited
  <2>5. r.n <= reads'[r.conn]
    BY <2>2, <2>3
  <2>6. QED
    BY <1>1, <2>2, <2>3, <2>4, <2>5 DEF Posting, GivenUp
<1>4. QED
  BY <1>2, <1>3, FramesMove DEF Ingest, Lose

LEMMA InitOrder == Init => OrderInv
BY InitHandling DEF Init, OrderInv, Posting, IngestInOrder

LEMMA NextOrder == OrderInv /\ [Next]_vars => OrderInv'
<1> SUFFICES ASSUME OrderInv, [Next]_vars PROVE OrderInv'
  OBVIOUS
<1>1. Handling' /\ Posting'
  BY NextHandling, PostingKept DEF OrderInv
<1>2. \A c \in Conns : reads[c] <= reads'[c] /\ reads[c] \in Nat /\ reads'[c] \in Nat
  BY <1>1, ReadsGrow DEF OrderInv, Handling
<1>3. \A i \in DOMAIN ingested : ingested[i] \in Records /\ ingested[i].n <= reads'[ingested[i].conn]
  <2> SUFFICES ASSUME NEW i \in DOMAIN ingested
               PROVE  ingested[i] \in Records /\ ingested[i].n <= reads'[ingested[i].conn]
    OBVIOUS
  <2>1. ingested[i] \in Records
    BY DEF OrderInv
  <2>2. ingested[i].conn \in Conns /\ ingested[i].n \in Nat
    BY <2>1 DEF Records
  <2>3. ingested[i].n <= reads[ingested[i].conn]
    BY DEF OrderInv
  <2>4. QED
    BY <1>2, <2>1, <2>2, <2>3
<1>4. CASE ingested' = ingested
  <2>1. IngestInOrder'
    BY <1>4, ErrorsStay DEF OrderInv, IngestInOrder
  <2>2. QED
    BY <1>1, <1>3, <1>4, <2>1 DEF OrderInv
<1>5. ASSUME NEW r \in posts, Ingest(r) PROVE OrderInv'
  <2>1. ingested' = Append(ingested, r) /\ reads' = reads /\ refused' = refused
    BY <1>5 DEF Ingest
  <2>2. r \in Records /\ r.n <= reads[r.conn] /\ r.conn \in Conns /\ r.n \in Nat
        /\ (r.n = reads[r.conn] \/ <<r, "logger">> \in refused)
    <3>1. r \in Records /\ r.n <= reads[r.conn] /\ (Awaited(r) \/ GivenUp(r))
      BY DEF OrderInv, Posting
    <3>2. r.conn \in Conns /\ r.n \in Nat
      BY <3>1 DEF Records
    <3>3. Awaited(r) => r.n = reads[r.conn]
      BY <3>2 DEF Awaited, OrderInv, Handling, Current
    <3>4. QED
      BY <3>1, <3>2, <3>3 DEF GivenUp
  <2>3. ingested' \in Seq(Records) /\ Len(ingested') = Len(ingested) + 1
    BY <2>1, <2>2 DEF OrderInv
  <2>4. \A i \in DOMAIN ingested' :
          \/ i \in DOMAIN ingested /\ ingested'[i] = ingested[i]
          \/ i = Len(ingested) + 1 /\ ingested'[i] = r
    BY <2>1, <2>2 DEF OrderInv
  <2>5. \A i \in DOMAIN ingested' : ingested'[i].n <= reads'[ingested'[i].conn]
    BY <1>3, <2>1, <2>2, <2>4 DEF Records
  <2>6. ASSUME NEW i \in DOMAIN ingested', NEW j \in DOMAIN ingested', i < j, ingested'[i].conn = ingested'[j].conn
        PROVE  ingested'[i].n <= ingested'[j].n \/ <<ingested'[j], "logger">> \in refused'
    <3>1. CASE j \in DOMAIN ingested
      <4>1. i \in DOMAIN ingested
        BY <2>3, <2>6, <3>1 DEF OrderInv
      <4>2. QED
        BY <2>1, <2>4, <2>6, <3>1, <4>1 DEF OrderInv, IngestInOrder
    <3>2. CASE j = Len(ingested) + 1
      <4>1. ingested'[j] = r /\ i \in DOMAIN ingested
        BY <2>3, <2>4, <2>6, <3>2 DEF OrderInv
      <4>2. QED
        BY <2>1, <2>2, <2>4, <2>5, <2>6, <4>1
    <3>3. QED
      BY <2>4, <3>1, <3>2
  <2>7. IngestInOrder'
    BY <2>6 DEF IngestInOrder
  <2>8. QED
    BY <1>1, <2>3, <2>5, <2>7 DEF OrderInv
<1>6. QED
  BY <1>4, <1>5, FramesMove DEF Post, Lose

\* The frames of one connection reach the ingest endpoint in the order in which the
\* vehicle sent them, except those whose post ended with an error: the handler that
\* posts one waits for its answer, and a proxy that gives up on one answers with an
\* error.
THEOREM FramesArriveInOrder == Spec => []IngestInOrder
BY InitOrder, NextOrder, PTL DEF Spec, OrderInv

-----------------------------------------------------------------------------
(* Every record is answered.                                                  *)

\* Nobody has to do more for the answer of record r: it has been given, kafka's report
\* will give it, or the dispatcher that it relies on has refused the record.
Accounted ==
  {r \in Records :
    \/ r \in answered \cup acked \cup reporter
    \/ r \in inflight /\ Reliable(r, "kafka")
    \/ \E x \in refused : x[1] = r /\ Reliable(r, x[2])}

\* A handler that has passed the rule its record relies on has left the record accounted.
Passed(h, acc, errors) ==
  /\ \A j \in 1..(h.rule - 1) : Reliable(h.record, Rules(config, h.record.type)[j]) => h.record \in acc
  /\ h.step = "wait" => /\ RuleOf(h) = "mqtt"
                        /\ h.failed # {} => <<h.record, "mqtt">> \in errors
  /\ h.step = "post" => RuleOf(h) = "logger"

AnswerInv ==
  /\ Handling
  /\ config \in Configs
  /\ server = "running" => Accepted(config)
  /\ \A c \in Conns : ~At(c, "read") => server = "running" /\ Passed(handler[c], Accounted, refused)
  /\ \A c \in Conns : \A n \in 1..reads[c] :
       \/ n = reads[c] /\ ~At(c, "read")
       \/ \E r \in Records : r.conn = c /\ r.n = n /\ r \in Accounted

LEMMA AnswerInvAnswers == AnswerInv => EveryRecordAnswered
<1> SUFFICES ASSUME AnswerInv, NEW c \in Conns, NEW n \in 1..reads[c], ~(n = reads[c] /\ ~At(c, "read"))
             PROVE  \/ \E r \in answered \cup acked \cup inflight \cup reporter : r.conn = c /\ r.n = n
                    \/ \E x \in refused : x[1].conn = c /\ x[1].n = n /\ x[1].type \in Sources(config, x[2])
  BY DEF EveryRecordAnswered
<1>1. PICK r \in Records : r.conn = c /\ r.n = n /\ r \in Accounted
  BY DEF AnswerInv
<1>2. QED
  BY <1>1 DEF Accounted, Reliable

\* What has been accounted for stays so, in every step.
LEMMA AccountedStays ==
  ASSUME [Next]_vars, NEW r, r \in Accounted
  PROVE  r \in Accounted'
<1>1. config' = config
  BY HandlersMove DEF vars
<1>2. CASE /\ answered \cup acked \subseteq answered' \cup acked' /\ reporter \subseteq reporter'
           /\ inflight \subseteq inflight' /\ refused \subseteq refused'
  BY <1>1, <1>2 DEF Accounted, Reliable
<1>3. CASE AckReported
  BY <1>1, <1>3 DEF AckReported, Accounted, Reliable
<1>4. ASSUME NEW q \in inflight, Report(q) PROVE r \in Accounted'
  <2>1. /\ answered' = answered /\ acked' = acked /\ reporter = {} /\ inflight' = inflight \ {q}
        /\ refused \subseteq refused'
    BY <1>4 DEF Report
  <2>2. CASE r = q /\ Reliable(r, "kafka")
    <3>1. r \in reporter' \/ <<r, "kafka">> \in refused'
      BY <1>4, <2>2 DEF Report
    <3>2. <<r, "kafka">>[1] = r /\ <<r, "kafka">>[2] = "kafka"
      OBVIOUS
    <3>3. r \in Records /\ r.type \in Sources(config', "kafka")
      BY <1>1, <2>2 DEF Reliable, Accounted
    <3>4. QED
      BY <3>1, <3>2, <3>3 DEF Accounted, Reliable
  <2>3. CASE r # q \/ ~Reliable(r, "kafka")
    BY <1>1, <2>1, <2>3 DEF Accounted, Reliable
  <2>4. QED
    BY <2>2, <2>3
<1>5. ASSUME \/ ConfigureProducers
             \/ \E c \in Conns :
                  \/ \E t \in Types : Receive(c, t)
                  \/ Panic(c)
                  \/ \E d \in {"pubsub", "kinesis", "zmq"} : Store(c, d)
                  \/ Ack(c) \/ Respond(c) \/ Enqueue(c) \/ Publish(c) \/ AllWaited(c) \/ Post(c) \/ PostAnswered(c)
                  \/ \E f \in Fields : WaitToken(c, f)
             \/ \E p \in publishing : Complete(p) \/ Break(p)
             \/ \E q \in posts : Ingest(q) \/ Lose(q)
             \/ UNCHANGED vars
      PROVE  /\ answered \cup acked \subseteq answered' \cup acked' /\ reporter \subseteq reporter'
             /\ inflight \subseteq inflight' /\ refused \subseteq refused'
  BY <1>5 DEF ConfigureProducers, Receive, Panic, Store, Ack, Respond, Enqueue, Publish, AllWaited, Post, PostAnswered,
              WaitToken, Complete, Break, Ingest, Lose, vars, producing
<1>6. QED
  BY <1>2, <1>3, <1>4, <1>5 DEF Next

\* Errors stay: what a handler has passed it keeps, whatever the others do.
LEMMA PassedStays ==
  ASSUME [Next]_vars, NEW h, Passed(h, Accounted, refused)
  PROVE  Passed(h, Accounted', refused')
<1>1. config' = config
  BY HandlersMove DEF vars
<1>2. refused \subseteq refused'
  BY ErrorsStay
<1>3. h.record \in Accounted => h.record \in Accounted'
  BY AccountedStays
<1>4. QED
  BY <1>1, <1>2, <1>3 DEF Passed, Reliable, RuleOf

\* The next rule, when the record has been accounted for if it relies on this one.
LEMMA NextPassed ==
  ASSUME [Next]_vars, NEW h, Passed(h, Accounted, refused), h.rule \in Nat,
         Reliable(h.record, RuleOf(h)) => h.record \in Accounted'
  PROVE  Passed(Working("produce", h.record, h.rule + 1, {}, {}), Accounted', refused')
<1> DEFINE on == Working("produce", h.record, h.rule + 1, {}, {})
<1>1. Passed(h, Accounted', refused')
  BY PassedStays
<1>2. on.step = "produce" /\ on.record = h.record /\ on.rule = h.rule + 1
  BY DEF Working
<1>3. config' = config
  BY HandlersMove DEF vars
<1>4. \A j \in 1..h.rule : Reliable(h.record, Rules(config, h.record.type)[j]) => h.record \in Accounted'
  <2> SUFFICES ASSUME NEW j \in 1..h.rule, Reliable(h.record, Rules(config, h.record.type)[j])
               PROVE  h.record \in Accounted'
    OBVIOUS
  <2>1. CASE j \in 1..(h.rule - 1)
    BY <2>1, AccountedStays DEF Passed
  <2>2. CASE j = h.rule
    BY <2>2 DEF RuleOf
  <2>3. QED
    BY <2>1, <2>2
<1>5. (on.rule - 1) = h.rule
  BY <1>2
<1> HIDE DEF on
<1>6. Passed(on, Accounted', refused')
  BY <1>2, <1>4, <1>5 DEF Passed
<1>7. QED
  BY <1>6 DEF on

\* A record that some dispatcher has acknowledged or refused is accounted for.
LEMMA ErrorAccounts ==
  ASSUME NEW r \in Records, NEW d, <<r, d>> \in refused', config' = config, Reliable(r, d)
  PROVE  r \in Accounted'
<1>1. <<r, d>>[1] = r /\ <<r, d>>[2] = d
  OBVIOUS
<1>2. QED
  BY <1>1 DEF Accounted, Reliable

LEMMA SameRulePassed ==
  ASSUME [Next]_vars, NEW h, NEW k, Passed(h, Accounted, refused), k.record = h.record, k.rule = h.rule,
         k.step \notin {"wait", "post"}
  PROVE  Passed(k, Accounted', refused')
<1>1. Passed(h, Accounted', refused')
  BY PassedStays
<1>2. config' = config
  BY HandlersMove DEF vars
<1>3. QED
  BY <1>1, <1>2 DEF Passed

-----------------------------------------------------------------------------
(* One lemma per step of a handler. *)

LEMMA StorePassed ==
  ASSUME AnswerInv, NEW c \in Conns, NEW d \in {"pubsub", "kinesis", "zmq"}, Store(c, d)
  PROVE  \E h : GoesOn(c, h) /\ Passed(h, Accounted', refused')
<1> DEFINE r == handler[c].record
           on == Working("produce", r, handler[c].rule + 1, {}, {})
           ack == Working("ack", r, handler[c].rule, {}, {})
<1>1. [Next]_vars /\ config' = config
  BY DEF Next, Store
<1>2. /\ At(c, "produce") /\ RuleOf(handler[c]) = d /\ Passed(handler[c], Accounted, refused) /\ handler[c].rule \in Nat
      /\ r \in Records
  BY DEF Store, Calls, AnswerInv, Handling, Current, At
<1>3. \/ Become(c, on) /\ (~Reliable(r, d) \/ <<r, d>> \in refused')
      \/ Become(c, ack)
  BY DEF Store, AckOrGoOn, NextRule
<1>4. CASE Become(c, on) /\ (~Reliable(r, d) \/ <<r, d>> \in refused')
  <2>1. Reliable(r, d) => r \in Accounted'
    BY <1>1, <1>2, <1>4, ErrorAccounts
  <2>2. Passed(on, Accounted', refused')
    BY <1>1, <1>2, <2>1, NextPassed
  <2>3. GoesOn(c, on)
    BY <1>2, <1>4 DEF GoesOn, At, Working
  <2>4. QED
    BY <2>2, <2>3
<1>5. CASE Become(c, ack)
  <2>1. Passed(ack, Accounted', refused')
    BY <1>1, <1>2, SameRulePassed DEF Working
  <2>2. GoesOn(c, ack)
    BY <1>2, <1>5 DEF GoesOn, At, Working
  <2>3. QED
    BY <2>1, <2>2
<1>6. QED
  BY <1>3, <1>4, <1>5

LEMMA OnPassed ==
  ASSUME AnswerInv, NEW c \in Conns,
         Ack(c) \/ Enqueue(c) \/ PostAnswered(c) \/ (Post(c) /\ NextRule(c))
  PROVE  \E h : GoesOn(c, h) /\ Passed(h, Accounted', refused')
<1> DEFINE r == handler[c].record
           on == Working("produce", r, handler[c].rule + 1, {}, {})
<1>1. [Next]_vars /\ config' = config /\ Become(c, on) /\ ~At(c, "read")
  BY DEF Next, Ack, Enqueue, Post, PostAnswered, NextRule, Calls, At
<1>2. Passed(handler[c], Accounted, refused) /\ handler[c].rule \in Nat /\ r \in Records /\ Accepted(config)
  BY <1>1 DEF AnswerInv, Handling, Current, At
<1>3. Reliable(r, RuleOf(handler[c])) => r \in Accounted'
  <2>1. CASE Ack(c)
    BY <1>2, <2>1 DEF Ack, Accounted
  <2>2. CASE Enqueue(c)
    <3>1. RuleOf(handler[c]) = "kafka" /\ (r \in inflight' \/ <<r, "kafka">> \in refused')
      BY <2>2 DEF Enqueue, Calls
    <3>2. CASE r \in inflight'
      BY <1>1, <1>2, <3>1, <3>2 DEF Accounted, Reliable
    <3>3. CASE <<r, "kafka">> \in refused'
      BY <1>1, <1>2, <3>1, <3>3, ErrorAccounts
    <3>4. QED
      BY <3>1, <3>2, <3>3
  <2>3. CASE PostAnswered(c) \/ Post(c)
    <3>1. RuleOf(handler[c]) = "logger"
      BY <1>2, <2>3 DEF PostAnswered, Post, Calls, Passed, At
    <3>2. ~Reliable(r, "logger")
      BY <1>2 DEF Accepted, AckSourcesValid, Reliable, Sources
    <3>3. QED
      BY <3>1, <3>2
  <2>4. QED
    BY <2>1, <2>2, <2>3
<1>4. Passed(on, Accounted', refused')
  BY <1>1, <1>2, <1>3, NextPassed
<1>5. GoesOn(c, on)
  BY <1>1 DEF GoesOn, At, Working
<1>6. QED
  BY <1>4, <1>5

LEMMA PublishPassed ==
  ASSUME AnswerInv, NEW c \in Conns, Publish(c)
  PROVE  \E h : GoesOn(c, h) /\ Passed(h, Accounted', refused')
<1> DEFINE r == handler[c].record
           on == Working("produce", r, handler[c].rule + 1, {}, {})
           wait == Working("wait", r, handler[c].rule, Fields, {})
<1>1. [Next]_vars /\ config' = config
  BY DEF Next, Publish
<1>2. /\ At(c, "produce") /\ RuleOf(handler[c]) = "mqtt" /\ Passed(handler[c], Accounted, refused) /\ handler[c].rule \in Nat
      /\ r \in Records
  BY DEF Publish, Calls, AnswerInv, Handling, Current, At
<1>3. \/ Become(c, on) /\ <<r, "mqtt">> \in refused'
      \/ Become(c, wait)
  BY DEF Publish, NextRule
<1>4. CASE Become(c, on) /\ <<r, "mqtt">> \in refused'
  <2>1. Reliable(r, "mqtt") => r \in Accounted'
    BY <1>1, <1>2, <1>4, ErrorAccounts
  <2>2. Passed(on, Accounted', refused')
    BY <1>1, <1>2, <2>1, NextPassed
  <2>3. GoesOn(c, on)
    BY <1>2, <1>4 DEF GoesOn, At, Working
  <2>4. QED
    BY <2>2, <2>3
<1>5. CASE Become(c, wait)
  <2>1. Passed(handler[c], Accounted', refused')
    BY <1>1, <1>2, PassedStays
  <2>2. wait.record = r /\ wait.rule = handler[c].rule /\ wait.step = "wait" /\ wait.failed = {}
    BY DEF Working
  <2>3. Passed(wait, Accounted', refused')
    BY <1>1, <1>2, <2>1, <2>2 DEF Passed, RuleOf
  <2>4. GoesOn(c, wait)
    BY <1>2, <1>5 DEF GoesOn, At, Working
  <2>5. QED
    BY <2>3, <2>4
<1>6. QED
  BY <1>3, <1>4, <1>5

LEMMA WaitPassed ==
  ASSUME AnswerInv, NEW c \in Conns, NEW f \in Fields, WaitToken(c, f)
  PROVE  \E h : GoesOn(c, h) /\ Passed(h, Accounted', refused')
<1> DEFINE old == handler[c]
<1>1. [Next]_vars /\ config' = config /\ refused \subseteq refused'
  BY DEF Next, WaitToken
<1>2. At(c, "wait") /\ Passed(old, Accounted, refused)
  BY DEF WaitToken, AnswerInv, At
<1>3. PICK failed :
        /\ Become(c, Working("wait", old.record, old.rule, old.todo \ {f}, failed))
        /\ failed = old.failed \/ <<old.record, "mqtt">> \in refused'
  BY DEF WaitToken
<1> DEFINE new == Working("wait", old.record, old.rule, old.todo \ {f}, failed)
<1>4. new.record = old.record /\ new.rule = old.rule /\ new.step = "wait" /\ new.failed = failed
  BY DEF Working
<1>5. Become(c, new)
  BY <1>3
<1> HIDE DEF new
<1>6. Passed(old, Accounted', refused')
  BY <1>1, <1>2, PassedStays
<1>7. Passed(new, Accounted', refused')
  BY <1>1, <1>2, <1>3, <1>4, <1>6 DEF Passed, RuleOf, At
<1>8. GoesOn(c, new)
  BY <1>2, <1>4, <1>5 DEF GoesOn, At
<1>9. QED
  BY <1>7, <1>8

LEMMA AllWaitedPassed ==
  ASSUME AnswerInv, NEW c \in Conns, AllWaited(c)
  PROVE  \E h : GoesOn(c, h) /\ Passed(h, Accounted', refused')
<1> DEFINE r == handler[c].record
           on == Working("produce", r, handler[c].rule + 1, {}, {})
           ack == Working("ack", r, handler[c].rule, {}, {})
<1>1. [Next]_vars /\ config' = config /\ refused' = refused
  BY DEF Next, AllWaited, producing
<1>2. /\ At(c, "wait") /\ Passed(handler[c], Accounted, refused) /\ handler[c].rule \in Nat
      /\ r \in Records
  BY DEF AllWaited, AnswerInv, Handling, Current, At
<1>3. RuleOf(handler[c]) = "mqtt" /\ (handler[c].failed # {} => <<r, "mqtt">> \in refused')
  BY <1>1, <1>2 DEF Passed, At
<1>4. \/ Become(c, on) /\ (~Reliable(r, "mqtt") \/ handler[c].failed # {})
      \/ Become(c, ack)
  BY DEF AllWaited, AckOrGoOn, NextRule
<1>5. CASE Become(c, on) /\ (~Reliable(r, "mqtt") \/ handler[c].failed # {})
  <2>1. Reliable(r, "mqtt") => r \in Accounted'
    BY <1>1, <1>2, <1>3, <1>5, ErrorAccounts
  <2>2. Passed(on, Accounted', refused')
    BY <1>1, <1>2, <1>3, <2>1, NextPassed
  <2>3. GoesOn(c, on)
    BY <1>2, <1>5 DEF GoesOn, At, Working
  <2>4. QED
    BY <2>2, <2>3
<1>6. CASE Become(c, ack)
  <2>1. Passed(ack, Accounted', refused')
    BY <1>1, <1>2, SameRulePassed DEF Working
  <2>2. GoesOn(c, ack)
    BY <1>2, <1>6 DEF GoesOn, At, Working
  <2>3. QED
    BY <2>1, <2>2
<1>7. QED
  BY <1>4, <1>5, <1>6

LEMMA PostOrPanicPassed ==
  ASSUME AnswerInv, NEW c \in Conns, Post(c) \/ Panic(c)
  PROVE  \E h : GoesOn(c, h) /\ Passed(h, Accounted', refused')
<1> DEFINE h(step) == Working(step, handler[c].record, handler[c].rule, {}, {})
<1>1. [Next]_vars /\ config' = config /\ ~At(c, "read")
  BY DEF Next, Post, Panic, Calls, At
<1>2. Passed(handler[c], Accounted, refused)
  BY <1>1 DEF AnswerInv
<1>3. CASE Panic(c)
  <2>1. Passed(h("dead"), Accounted', refused') /\ GoesOn(c, h("dead"))
    BY <1>1, <1>2, <1>3, SameRulePassed DEF Panic, GoesOn, Working
  <2>2. QED
    BY <2>1
<1>4. CASE Post(c) /\ ~NextRule(c)
  <2>1. Passed(handler[c], Accounted', refused')
    BY <1>1, <1>2, PassedStays
  <2>2. RuleOf(handler[c]) = "logger" /\ Become(c, h("post"))
    BY <1>4 DEF Post, Calls
  <2>3. h("post").record = handler[c].record /\ h("post").rule = handler[c].rule /\ h("post").step = "post"
    BY DEF Working
  <2>4. Passed(h("post"), Accounted', refused')
    BY <1>1, <2>1, <2>2, <2>3 DEF Passed, RuleOf
  <2>5. GoesOn(c, h("post"))
    BY <1>1, <2>2, <2>3 DEF GoesOn
  <2>6. QED
    BY <2>4, <2>5
<1>5. QED
  BY <1>3, <1>4, OnPassed

-----------------------------------------------------------------------------
\* A handler that is through with the rules of an accepted file has passed the one that
\* its record relies on.
LEMMA ThroughIsAccounted ==
  ASSUME AnswerInv, NEW c \in Conns, Respond(c)
  PROVE  handler[c].record \in Accounted'
<1> DEFINE r == handler[c].record
           rules == Rules(config, r.type)
<1>1. [Next]_vars /\ config' = config
  BY DEF Next, Respond
<1>2. /\ Passed(handler[c], Accounted, refused) /\ Accepted(config)
      /\ r \in Records /\ handler[c].rule \in Nat \ {0} /\ handler[c].rule > Len(rules)
  BY DEF Respond, AnswerInv, Handling, Current, At
<1>3. CASE r.type \notin DOMAIN config.acks
  BY <1>1, <1>2, <1>3 DEF Respond, Accounted
<1>4. CASE r.type \in DOMAIN config.acks
  <2>1. config.acks[r.type] \in ToSet(rules)
    BY <1>2, <1>4 DEF Accepted, AckSourcesValid
  <2>2. PICK j \in DOMAIN rules : rules[j] = config.acks[r.type]
    BY <2>1 DEF ToSet
  <2>3. rules \in Seq(STRING)
    BY <2>2, DispatchAssumption DEF AnswerInv, Rules
  <2>4. j \in 1..(handler[c].rule - 1)
    BY <1>2, <2>2, <2>3
  <2>5. Reliable(r, rules[j])
    BY <1>4, <2>2 DEF Reliable, Sources
  <2>6. r \in Accounted
    BY <1>2, <2>4, <2>5 DEF Passed
  <2>7. QED
    BY <1>1, <2>6, AccountedStays
<1>5. QED
  BY <1>3, <1>4

LEMMA HandlersPass ==
  ASSUME AnswerInv, Next
  PROVE  \/ handler' = handler /\ reads' = reads
         \/ \E c \in Conns : \E t \in Types : Receive(c, t)
         \/ \E c \in Conns : reads' = reads /\ server' = server /\ \E h : GoesOn(c, h) /\ Passed(h, Accounted', refused')
         \/ \E c \in Conns : Respond(c)
<1>1. ASSUME NEW c \in Conns,
             \/ \E d \in {"pubsub", "kinesis", "zmq"} : Store(c, d)
             \/ Ack(c) \/ Enqueue(c) \/ PostAnswered(c) \/ Publish(c) \/ AllWaited(c) \/ Post(c) \/ Panic(c)
             \/ \E f \in Fields : WaitToken(c, f)
      PROVE  reads' = reads /\ server' = server /\ \E h : GoesOn(c, h) /\ Passed(h, Accounted', refused')
  <2>1. reads' = reads /\ server' = server
    BY <1>1 DEF Store, Ack, Enqueue, PostAnswered, Publish, AllWaited, Post, Panic, WaitToken
  <2>2. \E h : GoesOn(c, h) /\ Passed(h, Accounted', refused')
    BY <1>1, StorePassed, OnPassed, PublishPassed, WaitPassed, AllWaitedPassed, PostOrPanicPassed
  <2>3. QED
    BY <2>1, <2>2
<1>2. ASSUME \/ ConfigureProducers \/ AckReported
             \/ \E r \in inflight : Report(r)
             \/ \E p \in publishing : Complete(p) \/ Break(p)
             \/ \E r \in posts : Ingest(r) \/ Lose(r)
      PROVE  handler' = handler /\ reads' = reads
  BY <1>2 DEF ConfigureProducers, AckReported, Report, Complete, Break, Ingest, Lose
<1>3. QED
  BY <1>1, <1>2 DEF Next

\* The server keeps running with the configuration it accepted.
LEMMA ServerRuns ==
  ASSUME AnswerInv, [Next]_vars
  PROVE  /\ config' = config
         /\ server = "running" => server' = "running"
         /\ server' = "running" => Accepted(config)
<1>1. config' = config
  BY HandlersMove DEF vars
<1>2. server' = server \/ ConfigureProducers
  BY DEF Next, Receive, Panic, Store, Ack, Respond, Enqueue, Publish, AllWaited, Post, PostAnswered,
         WaitToken, Report, AckReported, Complete, Break, Ingest, Lose, vars
<1>3. QED
  BY <1>1, <1>2 DEF AnswerInv, ConfigureProducers

LEMMA InitAnswer == Init => AnswerInv
<1> SUFFICES ASSUME Init PROVE AnswerInv
  OBVIOUS
<1>1. Handling
  BY InitHandling
<1>2. \A c \in Conns : At(c, "read") /\ reads[c] = 0
  BY DEF Init, At, Reading
<1>3. QED
  BY <1>1, <1>2 DEF Init, AnswerInv

LEMMA NextAnswer == AnswerInv /\ [Next]_vars => AnswerInv'
<1> SUFFICES ASSUME AnswerInv, [Next]_vars PROVE AnswerInv'
  OBVIOUS
<1> DEFINE Done(c, n) == \E r \in Records : r.conn = c /\ r.n = n /\ r \in Accounted
           DoneNext(c, n) == \E r \in Records : r.conn = c /\ r.n = n /\ r \in Accounted'
<1>1. Handling' /\ config' = config /\ config \in Configs /\ (server' = "running" => Accepted(config'))
  BY NextHandling, ServerRuns DEF AnswerInv
<1>2. \A c, n : Done(c, n) => DoneNext(c, n)
  BY AccountedStays
<1>3. \A k : Passed(k, Accounted, refused) => Passed(k, Accounted', refused')
  BY PassedStays
<1>4. \A c \in Conns : \A n \in 1..reads[c] : (n = reads[c] /\ ~At(c, "read")) \/ DoneNext(c, n)
  BY <1>2 DEF AnswerInv
<1> HIDE DEF DoneNext
<1>5. ASSUME /\ \A c \in Conns : ~At(c, "read")' => server' = "running" /\ Passed(handler'[c], Accounted', refused')
             /\ \A c \in Conns : \A n \in 1..reads'[c] : (n = reads'[c] /\ ~At(c, "read")') \/ DoneNext(c, n)
      PROVE  AnswerInv'
  <2>1. \A h : Passed(h, Accounted', refused') <=> Passed(h, Accounted, refused)'
    BY <1>1 DEF Passed, RuleOf, Reliable
  <2>2. QED
    BY <1>1, <1>5, <2>1 DEF AnswerInv, DoneNext
<1>6. \A c \in Conns : ~At(c, "read") => server' = "running" /\ Passed(handler[c], Accounted', refused')
  BY <1>3, ServerRuns DEF AnswerInv
<1>7. CASE handler' = handler /\ reads' = reads
  BY <1>4, <1>5, <1>6, <1>7 DEF At
<1>8. ASSUME NEW c \in Conns, NEW h, GoesOn(c, h), Passed(h, Accounted', refused'), reads' = reads PROVE AnswerInv'
  <2>1. handler' = [k \in Conns |-> IF k = c THEN h ELSE handler[k]]
    BY <1>8 DEF GoesOn, Become, AnswerInv, Handling
  <2>2. \A k \in Conns : At(k, "read")' <=> At(k, "read")
    BY <1>8, <2>1 DEF GoesOn, At
  <2>3. \A k \in Conns : ~At(k, "read")' => server' = "running" /\ Passed(handler'[k], Accounted', refused')
    BY <1>6, <1>8, <2>1, <2>2
  <2>4. QED
    BY <1>4, <1>5, <1>8, <2>2, <2>3
<1>9. ASSUME NEW c \in Conns, NEW t \in Types, Receive(c, t) PROVE AnswerInv'
  <2> DEFINE r == [conn |-> c, n |-> reads[c] + 1, type |-> t]
             h == Working("produce", r, 1, {}, {})
  <2>1. /\ handler' = [k \in Conns |-> IF k = c THEN h ELSE handler[k]] /\ At(c, "read")
        /\ reads' = [k \in Conns |-> IF k = c THEN reads[c] + 1 ELSE reads[k]] /\ server' = "running"
        /\ reads[c] \in Nat
    BY <1>9 DEF Receive, Become, AnswerInv, Handling
  <2>2. h.step = "produce" /\ h.rule = 1
    BY DEF Working
  <2>3. Passed(h, Accounted', refused')
    BY <2>2 DEF Passed
  <2>4. \A k \in Conns : ~At(k, "read")' => server' = "running" /\ Passed(handler'[k], Accounted', refused')
    BY <1>6, <2>1, <2>3 DEF At
  <2>5. \A k \in Conns : \A n \in 1..reads'[k] : (n = reads'[k] /\ ~At(k, "read")') \/ DoneNext(k, n)
    BY <1>4, <2>1, <2>2 DEF At
  <2>6. QED
    BY <1>5, <2>4, <2>5
<1>10. ASSUME NEW c \in Conns, Respond(c) PROVE AnswerInv'
  <2> DEFINE r == handler[c].record
  <2>1. handler' = [k \in Conns |-> IF k = c THEN Reading ELSE handler[k]] /\ reads' = reads
    BY <1>10 DEF Respond, Become, AnswerInv, Handling
  <2>2. r \in Records /\ r.conn = c /\ r.n = reads[c]
    BY <1>10 DEF Respond, At, AnswerInv, Handling, Current
  <2>3. DoneNext(c, reads[c])
    BY <1>10, <2>2, ThroughIsAccounted DEF DoneNext
  <2>4. \A k \in Conns : At(k, "read")' <=> k = c \/ At(k, "read")
    BY <2>1 DEF At, Reading
  <2>5. \A k \in Conns : ~At(k, "read")' => server' = "running" /\ Passed(handler'[k], Accounted', refused')
    BY <1>6, <2>1, <2>4
  <2>6. QED
    BY <1>4, <1>5, <2>1, <2>3, <2>4, <2>5
<1>11. QED
  BY <1>7, <1>8, <1>9, <1>10, HandlersPass DEF vars

\* Whatever the configuration file says and whichever dispatchers fail, a record that no
\* producer works on any more has been answered, unless the dispatcher it relies on
\* reported an error.
THEOREM NoRecordForgotten == Spec => []EveryRecordAnswered
BY InitAnswer, NextAnswer, AnswerInvAnswers, PTL DEF Spec
-----------------------------------------------------------------------------
(* No record is answered twice.                                               *)

\* Records with an ack that has been given or that kafka's report will give.
Queued == {r \in inflight : Reliable(r, "kafka")}
Sent == acked \cup reporter \cup Queued
SentOnce == acked \cap reporter = {} /\ (acked \cup reporter) \cap Queued = {}

\* A handler stands at the rule that its record relies on, or it has yet to come to it.
ListsRule(h) == h.rule \in DOMAIN Rules(config, h.record.type)
Relies(h) == ListsRule(h) /\ Reliable(h.record, RuleOf(h))
Owes(h) ==
  /\ h.step # "read"
  /\ \E j \in DOMAIN Rules(config, h.record.type) : j >= h.rule /\ Reliable(h.record, Rules(config, h.record.type)[j])
Placed(h) ==
  /\ h.step \in {"ack", "wait"} => ListsRule(h)
  /\ h.step = "ack" => Relies(h)

\* Records that have been read.
IsRead(r, rd) == r \in Records /\ r.n <= rd[r.conn]

OnceInv ==
  /\ AnswerInv
  /\ \A c \in Conns : Placed(handler[c])
  /\ \A r \in Sent : IsRead(r, reads) /\ r.type \in DOMAIN config.acks
  /\ \A r \in answered : r.type \notin DOMAIN config.acks
  /\ NoRepeats => /\ SentOnce
                  /\ \A c \in Conns : Owes(handler[c]) => handler[c].record \notin Sent

\* What has been read stays read.
LEMMA ReadStays ==
  ASSUME AnswerInv, [Next]_vars, NEW r, IsRead(r, reads)
  PROVE  IsRead(r, reads')
<1>1. \A c \in Conns : reads[c] <= reads'[c] /\ reads[c] \in Nat /\ reads'[c] \in Nat
  BY ReadsGrow, NextHandling DEF AnswerInv, Handling
<1>2. r.conn \in Conns /\ r.n \in Nat
  BY DEF IsRead, Records
<1>3. QED
  BY <1>1, <1>2 DEF IsRead

\* The record of a handler has been read.
LEMMA HandledIsRead ==
  ASSUME AnswerInv, NEW c \in Conns, ~At(c, "read")
  PROVE  IsRead(handler[c].record, reads) /\ handler[c].record.conn = c /\ handler[c].rule \in Nat \ {0}
BY DEF AnswerInv, Handling, Current, At, IsRead

\* The rules of a type are a sequence, in which a handler that calls a producer stands.
LEMMA CallerListed ==
  ASSUME AnswerInv, NEW c \in Conns, NEW d, Calls(c, d)
  PROVE  ListsRule(handler[c]) /\ RuleOf(handler[c]) = d
<1> DEFINE t == handler[c].record.type
<1>1. Rules(config, t) \in Seq(STRING)
  <2>1. CASE t \in DOMAIN config.records
    BY <2>1, DispatchAssumption DEF AnswerInv, Rules
  <2>2. CASE t \notin DOMAIN config.records
    <3>1. Rules(config, t) = <<>>
      BY <2>2 DEF Rules
    <3>2. QED
      BY <3>1
  <2>3. QED
    BY <2>1, <2>2
<1>2. handler[c].rule \in Nat \ {0} /\ handler[c].rule <= Len(Rules(config, t)) /\ RuleOf(handler[c]) = d
  BY HandledIsRead DEF Calls, At
<1>3. QED
  BY <1>1, <1>2 DEF ListsRule

-----------------------------------------------------------------------------
(* Where the handlers stand.                                                  *)

\* A handler with another step at the same rule, or with the next rule.
LEMMA NextPlaced ==
  ASSUME NEW c \in Conns, ~At(c, "read"), NextRule(c)
  PROVE  \E h : GoesOn(c, h) /\ Placed(h)
<1> DEFINE on == Working("produce", handler[c].record, handler[c].rule + 1, {}, {})
<1>1. GoesOn(c, on) /\ Placed(on)
  BY DEF NextRule, GoesOn, Placed, Working
<1>2. QED
  BY <1>1

LEMMA AckOrNextPlaced ==
  ASSUME NEW c \in Conns, NEW d, ~At(c, "read"), ListsRule(handler[c]), RuleOf(handler[c]) = d, AckOrGoOn(c, d)
  PROVE  \E h : GoesOn(c, h) /\ Placed(h)
<1> DEFINE ack == Working("ack", handler[c].record, handler[c].rule, {}, {})
<1>1. CASE Become(c, ack) /\ Reliable(handler[c].record, d)
  <2>1. ack.step = "ack" /\ ack.record = handler[c].record /\ ack.rule = handler[c].rule
    BY DEF Working
  <2>2. Become(c, ack) /\ Reliable(ack.record, RuleOf(handler[c]))
    BY <1>1, <2>1
  <2> HIDE DEF ack
  <2>3. GoesOn(c, ack) /\ Placed(ack)
    BY <2>1, <2>2 DEF GoesOn, Placed, Relies, ListsRule, RuleOf
  <2>4. QED
    BY <2>3
<1>2. QED
  BY <1>1, NextPlaced DEF AckOrGoOn

LEMMA StepPlaced ==
  ASSUME AnswerInv, NEW c \in Conns, Placed(handler[c]),
         \/ \E d \in {"pubsub", "kinesis", "zmq"} : Store(c, d)
         \/ Ack(c) \/ Enqueue(c) \/ PostAnswered(c) \/ Publish(c) \/ AllWaited(c) \/ Post(c) \/ Panic(c)
         \/ \E f \in Fields : WaitToken(c, f)
  PROVE  \E h : GoesOn(c, h) /\ Placed(h)
<1>1. ASSUME NEW d \in {"pubsub", "kinesis", "zmq"}, Store(c, d) PROVE \E h : GoesOn(c, h) /\ Placed(h)
  <2>1. ~At(c, "read") /\ Calls(c, d) /\ (AckOrGoOn(c, d) \/ NextRule(c))
    BY <1>1 DEF Store, Calls, At
  <2>2. QED
    BY <2>1, CallerListed, NextPlaced, AckOrNextPlaced
<1>2. CASE Ack(c) \/ Enqueue(c) \/ PostAnswered(c)
  BY <1>2, NextPlaced DEF Ack, Enqueue, PostAnswered, Calls, At
<1>3. CASE Publish(c)
  <2> DEFINE wait == Working("wait", handler[c].record, handler[c].rule, Fields, {})
  <2>1. ~At(c, "read") /\ ListsRule(handler[c]) /\ (Become(c, wait) \/ NextRule(c))
    BY <1>3, CallerListed DEF Publish, Calls, At
  <2>2. wait.step = "wait" /\ wait.record = handler[c].record /\ wait.rule = handler[c].rule
    BY DEF Working
  <2> HIDE DEF wait
  <2>3. CASE Become(c, wait)
    BY <2>1, <2>2, <2>3 DEF GoesOn, Placed, ListsRule
  <2>4. QED
    BY <2>1, <2>3, NextPlaced
<1>4. CASE AllWaited(c)
  <2>1. ~At(c, "read") /\ At(c, "wait") /\ ListsRule(handler[c]) /\ (AckOrGoOn(c, "mqtt") \/ NextRule(c))
    BY <1>4 DEF AllWaited, Placed, At
  <2>2. RuleOf(handler[c]) = "mqtt"
    BY <2>1 DEF AnswerInv, Passed, At
  <2>3. QED
    BY <2>1, <2>2, NextPlaced, AckOrNextPlaced
<1>5. ASSUME NEW step \in {"post", "dead"}, ~At(c, "read"),
             Become(c, Working(step, handler[c].record, handler[c].rule, {}, {}))
      PROVE  \E h : GoesOn(c, h) /\ Placed(h)
  <2>1. \E h : GoesOn(c, h) /\ h.step = step
    BY <1>5 DEF GoesOn, Working
  <2>2. QED
    BY <2>1 DEF Placed
<1>6. CASE Post(c) \/ Panic(c)
  BY <1>5, <1>6, NextPlaced DEF Post, Panic, Calls, At
<1>7. ASSUME NEW f \in Fields, WaitToken(c, f) PROVE \E h : GoesOn(c, h) /\ Placed(h)
  <2>1. At(c, "wait") /\ ~At(c, "read") /\ ListsRule(handler[c])
    BY <1>7 DEF WaitToken, Placed, At
  <2>2. PICK todo, failed : Become(c, Working("wait", handler[c].record, handler[c].rule, todo, failed))
    BY <1>7 DEF WaitToken
  <2> DEFINE new == Working("wait", handler[c].record, handler[c].rule, todo, failed)
  <2>3. new.step = "wait" /\ new.record = handler[c].record /\ new.rule = handler[c].rule /\ Become(c, new)
    BY <2>2 DEF Working
  <2> HIDE DEF new
  <2>4. QED
    BY <2>1, <2>3 DEF GoesOn, Placed, ListsRule
<1>8. QED
  BY <1>1, <1>2, <1>3, <1>4, <1>6, <1>7

-----------------------------------------------------------------------------
(* How the acks move.                                                         *)

LEMMA QueuedNext == config' = config => Queued' = {r \in inflight' : Reliable(r, "kafka")}
BY DEF Queued, Reliable

\* A step that touches no ack.
LEMMA AcksRest ==
  ASSUME config' = config, acked' = acked, reporter' = reporter, inflight' = inflight
  PROVE  Sent' = Sent /\ (SentOnce => SentOnce')
BY QueuedNext DEF Sent, SentOnce, Queued

\* kafka's event loop passes a report on: the ack changes hands.
LEMMA ReportMoves ==
  ASSUME config' = config, NEW r \in inflight, Report(r)
  PROVE  Sent' \subseteq Sent /\ (SentOnce => SentOnce')
<1>1. /\ acked' = acked /\ inflight' = inflight \ {r} /\ reporter = {}
      /\ reporter' = {} \/ (reporter' = {r} /\ Reliable(r, "kafka"))
  BY DEF Report
<1>2. Queued' = Queued \ {r} /\ (Reliable(r, "kafka") => r \in Queued)
  BY <1>1, QueuedNext DEF Queued
<1>3. reporter' \subseteq Queued /\ reporter' \cap Queued' = {}
  BY <1>1, <1>2
<1>4. QED
  BY <1>1, <1>2, <1>3 DEF Sent, SentOnce

LEMMA AckReportedMoves ==
  ASSUME config' = config, AckReported
  PROVE  Sent' \subseteq Sent /\ (SentOnce => SentOnce')
<1>1. acked' = acked \cup reporter /\ reporter' = {} /\ Queued' = Queued
  BY QueuedNext DEF AckReported, Queued
<1>2. QED
  BY <1>1 DEF Sent, SentOnce

\* The handler of c acknowledges its record, or leaves the ack to kafka's report, and is
\* done with the rule that the record relies on.
Hands(c) ==
  /\ NextRule(c) /\ ~At(c, "read") /\ Relies(handler[c])
  /\ Sent' \subseteq Sent \cup {handler[c].record}
  /\ SentOnce /\ handler[c].record \notin Sent => SentOnce'

LEMMA AckHands ==
  ASSUME config' = config, NEW c \in Conns, Placed(handler[c]), Ack(c)
  PROVE  Hands(c)
<1>1. /\ acked' = acked \cup {handler[c].record} /\ reporter' = reporter /\ NextRule(c)
      /\ ~At(c, "read") /\ Relies(handler[c])
  BY DEF Ack, At, Placed
<1>2. Queued' = Queued
  BY QueuedNext DEF Ack, Queued
<1>3. QED
  BY <1>1, <1>2 DEF Hands, Sent, SentOnce

LEMMA EnqueueHands ==
  ASSUME AnswerInv, config' = config, NEW c \in Conns, Enqueue(c)
  PROVE  (Sent' \subseteq Sent /\ (SentOnce => SentOnce')) \/ Hands(c)
<1> DEFINE r == handler[c].record
<1>1. /\ acked' = acked /\ reporter' = reporter /\ NextRule(c)
      /\ ~At(c, "read") /\ ListsRule(handler[c]) /\ RuleOf(handler[c]) = "kafka"
      /\ inflight' = inflight \cup {r} \/ inflight' = inflight
  BY CallerListed DEF Enqueue, Calls, At
<1>2. CASE inflight' = inflight
  BY <1>1, <1>2, AcksRest
<1>3. CASE inflight' = inflight \cup {r} /\ ~Reliable(r, "kafka")
  <2>1. Queued' = Queued
    BY <1>3, QueuedNext DEF Queued
  <2>2. QED
    BY <1>1, <2>1 DEF Sent, SentOnce
<1>4. CASE inflight' = inflight \cup {r} /\ Reliable(r, "kafka")
  <2>1. Queued' = Queued \cup {r}
    BY <1>4, QueuedNext DEF Queued
  <2>2. Relies(handler[c])
    BY <1>1, <1>4 DEF Relies
  <2>3. QED
    BY <1>1, <2>1, <2>2 DEF Hands, Sent, SentOnce
<1>5. QED
  BY <1>1, <1>2, <1>3, <1>4

LEMMA SentMoves ==
  ASSUME AnswerInv, \A c \in Conns : Placed(handler[c]), [Next]_vars
  PROVE  \/ Sent' \subseteq Sent /\ (SentOnce => SentOnce')
         \/ \E c \in Conns : Hands(c)
<1>1. config' = config
  BY ServerRuns
<1>2. ASSUME \/ ConfigureProducers
             \/ \E c \in Conns :
                  \/ \E t \in Types : Receive(c, t)
                  \/ Panic(c)
                  \/ \E d \in {"pubsub", "kinesis", "zmq"} : Store(c, d)
                  \/ Respond(c) \/ Publish(c) \/ AllWaited(c) \/ Post(c) \/ PostAnswered(c)
                  \/ \E f \in Fields : WaitToken(c, f)
             \/ \E p \in publishing : Complete(p) \/ Break(p)
             \/ \E q \in posts : Ingest(q) \/ Lose(q)
             \/ UNCHANGED vars
      PROVE  acked' = acked /\ reporter' = reporter /\ inflight' = inflight
  BY <1>2 DEF ConfigureProducers, Receive, Panic, Store, Respond, Publish, AllWaited, Post, PostAnswered,
              WaitToken, Complete, Break, Ingest, Lose, vars, producing
<1>3. CASE acked' = acked /\ reporter' = reporter /\ inflight' = inflight
  BY <1>1, <1>3, AcksRest
<1>4. CASE AckReported \/ \E r \in inflight : Report(r)
  BY <1>1, <1>4, AckReportedMoves, ReportMoves
<1>5. CASE \E c \in Conns : Ack(c) \/ Enqueue(c)
  BY <1>1, <1>5, AckHands, EnqueueHands
<1>6. QED
  BY <1>2, <1>3, <1>4, <1>5 DEF Next

-----------------------------------------------------------------------------
(* What a handler still owes its record.                                      *)

LEMMA RulesSeq == AnswerInv => \A t : \A j \in DOMAIN Rules(config, t) : t \in DOMAIN config.records /\ j \in Nat
<1> SUFFICES ASSUME AnswerInv, NEW t, NEW j \in DOMAIN Rules(config, t)
             PROVE  t \in DOMAIN config.records /\ j \in Nat
  OBVIOUS
<1>1. CASE t \in DOMAIN config.records
  <2>1. config.records[t] \in Seq(STRING) /\ Rules(config, t) = config.records[t]
    BY <1>1, DispatchAssumption DEF AnswerInv, Rules
  <2>2. QED
    BY <1>1, <2>1
<1>2. CASE t \notin DOMAIN config.records
  <2>1. Rules(config, t) = <<>>
    BY <1>2 DEF Rules
  <2>2. QED
    BY <2>1
<1>3. QED
  BY <1>1, <1>2

\* Without repeats a record relies on one rule only.
LEMMA OneRule ==
  ASSUME AnswerInv, NoRepeats, NEW r,
         NEW i \in DOMAIN Rules(config, r.type), NEW j \in DOMAIN Rules(config, r.type),
         Reliable(r, Rules(config, r.type)[i]), Reliable(r, Rules(config, r.type)[j])
  PROVE  i = j
<1>1. Rules(config, r.type)[i] = Rules(config, r.type)[j]
  BY DEF Reliable, Sources
<1>2. r.type \in DOMAIN config.records
  BY RulesSeq
<1>3. IsInjective(config.records[r.type]) /\ Rules(config, r.type) = config.records[r.type]
  BY <1>2 DEF NoRepeats, Rules
<1>4. QED
  BY <1>1, <1>3 DEF IsInjective

LEMMA OwesLess ==
  ASSUME AnswerInv, NEW c \in Conns, NEW h, GoesOn(c, h), Owes(h)
  PROVE  Owes(handler[c])
<1>1. /\ ~At(c, "read") /\ h.record = handler[c].record /\ handler[c].rule \in Nat
      /\ h.rule = handler[c].rule \/ h.rule = handler[c].rule + 1
  BY HandledIsRead DEF GoesOn
<1>2. PICK j \in DOMAIN Rules(config, h.record.type) : j >= h.rule /\ Reliable(h.record, Rules(config, h.record.type)[j])
  BY DEF Owes
<1>3. j \in Nat
  BY RulesSeq
<1>4. j >= handler[c].rule
  BY <1>1, <1>2, <1>3
<1>5. QED
  BY <1>1, <1>2, <1>4 DEF Owes, At

LEMMA HandedOwesNothing ==
  ASSUME AnswerInv, NoRepeats, NEW c \in Conns, Hands(c)
  PROVE  /\ Owes(handler[c])
         /\ \E h : Become(c, h) /\ ~Owes(h)
<1> DEFINE r == handler[c].record
           i == handler[c].rule
           on == Working("produce", r, i + 1, {}, {})
<1>1. i \in DOMAIN Rules(config, r.type) /\ Reliable(r, Rules(config, r.type)[i]) /\ i \in Nat /\ ~At(c, "read")
  BY HandledIsRead DEF Hands, Relies, ListsRule, RuleOf
<1>2. Owes(handler[c])
  BY <1>1 DEF Owes, At
<1>3. on.record = r /\ on.rule = i + 1
  BY DEF Working
<1>4. Become(c, on)
  BY DEF Hands, NextRule
<1> HIDE DEF on
<1>5. ASSUME Owes(on) PROVE FALSE
  <2>1. PICK j \in DOMAIN Rules(config, r.type) : j >= i + 1 /\ Reliable(r, Rules(config, r.type)[j])
    BY <1>3, <1>5 DEF Owes
  <2>2. i = j
    BY <1>1, <2>1, OneRule
  <2>3. QED
    BY <1>1, <2>1, <2>2
<1>6. QED
  BY <1>2, <1>4, <1>5

-----------------------------------------------------------------------------
(* The steps.                                                                 *)

LEMMA HandlersPlaced ==
  ASSUME AnswerInv, \A c \in Conns : Placed(handler[c]), [Next]_vars
  PROVE  \/ handler' = handler
         \/ \E c \in Conns : \E t \in Types : Receive(c, t)
         \/ \E c \in Conns : \E h : GoesOn(c, h) /\ Placed(h)
         \/ \E c \in Conns : Respond(c)
<1>1. ASSUME \/ ConfigureProducers \/ AckReported
             \/ \E r \in inflight : Report(r)
             \/ \E p \in publishing : Complete(p) \/ Break(p)
             \/ \E r \in posts : Ingest(r) \/ Lose(r)
             \/ UNCHANGED vars
      PROVE  handler' = handler
  BY <1>1 DEF ConfigureProducers, AckReported, Report, Complete, Break, Ingest, Lose, vars
<1>2. QED
  BY <1>1, StepPlaced DEF Next

LEMMA PlacedStays ==
  ASSUME AnswerInv, \A c \in Conns : Placed(handler[c]), [Next]_vars
  PROVE  \A c \in Conns : Placed(handler'[c])
<1>1. ASSUME NEW c \in Conns, NEW h, Become(c, h), Placed(h) PROVE \A k \in Conns : Placed(handler'[k])
  <2>1. handler' = [k \in Conns |-> IF k = c THEN h ELSE handler[k]]
    BY <1>1 DEF Become, AnswerInv, Handling
  <2>2. QED
    BY <1>1, <2>1
<1>2. ASSUME NEW c \in Conns, NEW t \in Types, Receive(c, t) PROVE \E h : Become(c, h) /\ Placed(h)
  BY <1>2 DEF Receive, Placed, Working
<1>3. ASSUME NEW c \in Conns, Respond(c) PROVE \E h : Become(c, h) /\ Placed(h)
  BY <1>3 DEF Respond, Placed, Reading
<1>4. QED
  BY <1>1, <1>2, <1>3, HandlersPlaced DEF GoesOn

\* Whoever still owes something has a record that is not answered for, after the step too.
LEMMA OwnersStay ==
  ASSUME OnceInv, NoRepeats, [Next]_vars, NEW k \in Conns, Owes(handler'[k])
  PROVE  handler'[k].record \notin Sent'
<1>1. AnswerInv /\ (\A c \in Conns : Placed(handler[c])) /\ \A c \in Conns : Owes(handler[c]) => handler[c].record \notin Sent
  BY DEF OnceInv
<1>2. ASSUME NEW c \in Conns, NEW h, Become(c, h) PROVE handler'[k] = IF k = c THEN h ELSE handler[k]
  BY <1>1, <1>2 DEF Become, AnswerInv, Handling
<1>3. CASE Sent' \subseteq Sent
  <2>1. CASE handler'[k] = handler[k]
    BY <1>1, <1>3, <2>1
  <2>2. ASSUME NEW t \in Types, Receive(k, t) PROVE handler'[k].record \notin Sent'
    <3> DEFINE r == [conn |-> k, n |-> reads[k] + 1, type |-> t]
    <3>1. handler'[k] = Working("produce", r, 1, {}, {}) /\ reads[k] \in Nat
      BY <1>1, <1>2, <2>2 DEF Receive, AnswerInv, Handling
    <3>2. handler'[k].record = r /\ r.conn = k /\ r.n = reads[k] + 1
      BY <3>1 DEF Working
    <3>3. ~IsRead(r, reads)
      BY <3>1, <3>2 DEF IsRead
    <3>4. QED
      BY <1>3, <3>2, <3>3 DEF OnceInv
  <2>3. ASSUME NEW h, GoesOn(k, h) PROVE handler'[k].record \notin Sent'
    <3>1. handler'[k] = h /\ h.record = handler[k].record
      BY <1>2, <2>3 DEF GoesOn
    <3>2. Owes(handler[k])
      BY <1>1, <2>3, <3>1, OwesLess
    <3>3. QED
      BY <1>1, <1>3, <3>1, <3>2
  <2>4. ASSUME Respond(k) PROVE FALSE
    <3>1. handler'[k] = Reading
      BY <1>2, <2>4 DEF Respond
    <3>2. QED
      BY <3>1 DEF Owes, Reading
  <2>5. ASSUME NEW c \in Conns, c # k, \E h : Become(c, h) PROVE handler'[k] = handler[k]
    BY <1>2, <2>5
  <2>6. \/ handler'[k] = handler[k]
        \/ \E t \in Types : Receive(k, t)
        \/ \E h : GoesOn(k, h)
        \/ Respond(k)
    BY <1>1, <2>5, HandlersPlaced DEF Receive, GoesOn, Respond
  <2>7. QED
    BY <2>1, <2>2, <2>3, <2>4, <2>6
<1>4. ASSUME NEW c \in Conns, Hands(c) PROVE handler'[k].record \notin Sent'
  <2>1. PICK h : Become(c, h) /\ ~Owes(h)
    BY <1>1, <1>4, HandedOwesNothing
  <2>2. k # c /\ handler'[k] = handler[k]
    BY <1>2, <2>1
  <2>3. handler[k].record.conn = k /\ handler[c].record.conn = c
    BY <1>1, <1>4, <2>2, HandledIsRead DEF Hands, Owes, At
  <2>4. QED
    BY <1>1, <1>4, <2>2, <2>3 DEF Hands
<1>5. QED
  BY <1>1, <1>3, <1>4, SentMoves

\* Only a handler whose record nobody is to acknowledge answers itself.
LEMMA AnsweredStays ==
  ASSUME [Next]_vars
  PROVE  \A r \in answered' : r \in answered \/ r.type \notin DOMAIN config.acks
<1>1. ASSUME NEW c \in Conns, Respond(c) PROVE \A r \in answered' : r \in answered \/ r.type \notin DOMAIN config.acks
  BY <1>1 DEF Respond
<1>2. ASSUME ~\E c \in Conns : Respond(c) PROVE answered' = answered
  BY <1>2 DEF Next, ConfigureProducers, Receive, Panic, Store, Ack, Enqueue, Publish, AllWaited, Post, PostAnswered,
              WaitToken, Report, AckReported, Complete, Break, Ingest, Lose, vars
<1>3. QED
  BY <1>1, <1>2

LEMMA NextOnce == OnceInv /\ [Next]_vars => OnceInv'
<1> SUFFICES ASSUME OnceInv, [Next]_vars PROVE OnceInv'
  OBVIOUS
<1>1. AnswerInv /\ (\A c \in Conns : Placed(handler[c])) /\ config' = config
  BY ServerRuns DEF OnceInv
<1>2. AnswerInv' /\ \A c \in Conns : Placed(handler'[c])
  BY <1>1, NextAnswer, PlacedStays
<1>3. \A c \in Conns : Placed(handler[c])'
  BY <1>1, <1>2 DEF Placed, Relies, ListsRule, RuleOf, Reliable
<1>4. ASSUME NEW c \in Conns, Hands(c)
      PROVE  IsRead(handler[c].record, reads) /\ handler[c].record.type \in DOMAIN config.acks
  BY <1>1, <1>4, HandledIsRead DEF Hands, Relies, Reliable, Sources
<1>5. ASSUME NEW r \in Sent' PROVE IsRead(r, reads) /\ r.type \in DOMAIN config.acks
  <2>1. r \in Sent \/ \E c \in Conns : Hands(c) /\ r = handler[c].record
    BY <1>1, <1>5, SentMoves DEF Hands
  <2>2. QED
    BY <1>4, <2>1 DEF OnceInv
<1>6. \A r \in Sent' : IsRead(r, reads') /\ r.type \in DOMAIN config'.acks
  BY <1>1, <1>5, ReadStays
<1>7. \A r \in answered' : r.type \notin DOMAIN config'.acks
  BY <1>1, AnsweredStays DEF OnceInv
<1>8. ASSUME NoRepeats
      PROVE  SentOnce' /\ \A c \in Conns : (Owes(handler[c]) => handler[c].record \notin Sent)'
  <2>1. SentOnce'
    BY <1>1, <1>8, SentMoves, HandedOwesNothing DEF OnceInv, Hands
  <2>2. \A c \in Conns : Owes(handler[c])' => Owes(handler'[c])
    BY <1>1 DEF Owes, Reliable
  <2>3. \A c \in Conns : Owes(handler'[c]) => handler'[c].record \notin Sent'
    BY <1>8, OwnersStay
  <2>4. QED
    BY <2>1, <2>2, <2>3
<1>9. NoRepeats' => NoRepeats
  BY <1>1 DEF NoRepeats
<1>10. QED
  BY <1>2, <1>3, <1>6, <1>7, <1>8, <1>9 DEF OnceInv, IsRead

LEMMA InitOnce == Init => OnceInv
<1> SUFFICES ASSUME Init PROVE OnceInv
  OBVIOUS
<1>1. Sent = {} /\ SentOnce
  BY DEF Init, Sent, Queued, SentOnce
<1>2. \A c \in Conns : handler[c].step = "read"
  BY DEF Init, Reading
<1>3. QED
  BY <1>1, <1>2, InitAnswer DEF Init, OnceInv, Placed, Owes

\* When no type lists a dispatcher twice, no record is answered twice: not by its handler
\* and a producer, not by the handler that is about to acknowledge it and kafka's late
\* report, whichever files are given and however many connections there are.
THEOREM RecordsAnsweredOnce == Spec => []OneAnswer
<1>1. OnceInv => OneAnswer
  <2> SUFFICES ASSUME OnceInv, NoRepeats
               PROVE  /\ answered \cap acked = {} /\ reporter \cap (answered \cup acked) = {}
                      /\ \A c \in Conns : At(c, "ack") => handler[c].record \notin answered \cup acked \cup reporter
    BY DEF OneAnswer
  <2>1. \A r \in answered : r \notin Sent
    BY DEF OnceInv
  <2>2. SentOnce
    BY DEF OnceInv
  <2>3. ASSUME NEW c \in Conns, At(c, "ack") PROVE handler[c].record \notin answered \cup acked \cup reporter
    <3>1. Relies(handler[c]) /\ handler[c].rule \in Nat
      BY <2>3, HandledIsRead DEF OnceInv, Placed, At
    <3>2. Owes(handler[c])
      BY <2>3, <3>1 DEF Owes, Relies, ListsRule, RuleOf, At
    <3>3. handler[c].record \notin Sent
      BY <3>2 DEF OnceInv
    <3>4. handler[c].record.type \in DOMAIN config.acks
      BY <3>1 DEF Relies, Reliable, Sources
    <3>5. handler[c].record \notin answered
      BY <3>4 DEF OnceInv
    <3>6. QED
      BY <3>3, <3>5 DEF Sent
  <2>4. QED
    BY <2>1, <2>2, <2>3 DEF Sent, SentOnce
<1>2. QED
  BY <1>1, InitOnce, NextOnce, PTL DEF Spec
-----------------------------------------------------------------------------
(* No dispatcher is left out.                                                 *)

\* The first n dispatchers of record r have taken it, or all of them.
TookUpTo(r, n) == \A j \in 1..n : \E d : d = Rules(config, r.type)[j] /\ Taken(r, d)
AllTook(r) == \A j \in DOMAIN Rules(config, r.type) : Taken(r, Rules(config, r.type)[j])
Active == answered \cup acked \cup reporter \cup inflight
Handled(r) == handler[r.conn].step # "read" /\ handler[r.conn].record = r

TakenInv ==
  /\ \A c \in Conns : ~At(c, "read") => TookUpTo(handler[c].record, handler[c].rule - 1)
  /\ \A r \in Active : r.conn \in Conns /\ (Handled(r) \/ AllTook(r))

\* Whoever has taken a record does not lose it.
LEMMA TakenStays ==
  ASSUME IInv, OrderInv, [Next]_vars, NEW r, NEW d, Taken(r, d)
  PROVE  Taken(r, d)'
<1>1. CASE <<r, d>> \in refused
  BY <1>1, ErrorsStay DEF Taken
<1>2. CASE d \in Stores /\ Held(r, d)
  <2>1. published \subseteq published'
    BY DEF Next, ConfigureProducers, Receive, Panic, Store, Ack, Respond, Enqueue, Publish, AllWaited, Post, PostAnswered,
           WaitToken, Report, AckReported, Complete, Break, Ingest, Lose, vars, producing
  <2>2. \/ held' = held
        \/ \E k \in Stores : \E q : held' = [held EXCEPT ![k] = @ \cup {q}]
    BY DEF Next, ConfigureProducers, Receive, Panic, Store, Ack, Respond, Enqueue, Publish, AllWaited, Post, PostAnswered,
           WaitToken, Report, AckReported, Complete, Break, Ingest, Lose, vars, producing, Stores
  <2>3. \A k \in Stores : held[k] \subseteq held'[k]
    BY <2>2 DEF IInv
  <2>4. QED
    BY <1>2, <2>1, <2>3 DEF Taken, Held
<1>3. CASE d = "kafka" /\ r \in inflight
  <2>1. ASSUME NEW q \in inflight, Report(q), q = r PROVE Taken(r, d)'
    <3>1. held' = [held EXCEPT !["kafka"] = @ \cup {r}] \/ <<r, "kafka">> \in refused'
      BY <2>1 DEF Report
    <3>2. "kafka" \in Stores /\ "kafka" # "mqtt"
      BY DEF Stores
    <3>3. r \in held'["kafka"] \/ <<r, "kafka">> \in refused'
      BY <3>1, <3>2 DEF IInv
    <3>4. QED
      BY <1>3, <3>2, <3>3 DEF Taken, Held
  <2>2. ASSUME ~\E q \in inflight : Report(q) /\ q = r PROVE r \in inflight'
    BY <1>3, <2>2 DEF Next, ConfigureProducers, Receive, Panic, Store, Ack, Respond, Enqueue, Publish, AllWaited, Post,
           PostAnswered, WaitToken, Report, AckReported, Complete, Break, Ingest, Lose, vars, producing
  <2>3. QED
    BY <1>3, <2>1, <2>2 DEF Taken
<1>4. CASE d = "logger" /\ r \in ToSet(ingested)
  <2>1. PICK i \in DOMAIN ingested : ingested[i] = r
    BY <1>4 DEF ToSet
  <2>2. ASSUME NEW q \in posts, Ingest(q) PROVE i \in DOMAIN ingested' /\ ingested'[i] = r
    <3>1. ingested' = Append(ingested, q) /\ ingested \in Seq(Records) /\ q \in Records
      BY <2>2 DEF Ingest, OrderInv, Posting
    <3>2. QED
      BY <2>1, <3>1
  <2>3. ASSUME ~\E q \in posts : Ingest(q) PROVE ingested' = ingested
    BY <2>3, FramesMove DEF Post, Lose
  <2>4. i \in DOMAIN ingested' /\ ingested'[i] = r
    BY <2>1, <2>2, <2>3
  <2>5. QED
    BY <1>4, <2>4 DEF Taken, ToSet
<1>5. QED
  BY <1>1, <1>2, <1>3, <1>4 DEF Taken

\* A handler that passes a rule leaves the record to its dispatcher, or an error.
Leaves(c) == \E r, d : r = handler[c].record /\ d = RuleOf(handler[c]) /\ Taken(r, d)'
Passes(c) == \E h : GoesOn(c, h) /\ (h.rule = handler[c].rule \/ Leaves(c))

LEMMA NextPasses ==
  ASSUME NEW c \in Conns, ~At(c, "read"), NextRule(c), Leaves(c)
  PROVE  Passes(c)
<1> DEFINE on == Working("produce", handler[c].record, handler[c].rule + 1, {}, {})
<1>1. GoesOn(c, on)
  BY DEF NextRule, GoesOn, Working
<1>2. QED
  BY <1>1 DEF Passes

LEMMA SamePasses ==
  ASSUME NEW c \in Conns, ~At(c, "read"), NEW step, step # "read", NEW todo, NEW failed,
         Become(c, Working(step, handler[c].record, handler[c].rule, todo, failed))
  PROVE  Passes(c)
<1> DEFINE h == Working(step, handler[c].record, handler[c].rule, todo, failed)
<1>1. GoesOn(c, h) /\ h.rule = handler[c].rule
  BY DEF GoesOn, Working
<1>2. QED
  BY <1>1 DEF Passes

\* Every step of a handler before it responds.
LEMMA StepPasses ==
  ASSUME IInv, OnceInv, NEW c \in Conns,
         \/ \E d \in {"pubsub", "kinesis", "zmq"} : Store(c, d)
         \/ Ack(c) \/ Enqueue(c) \/ PostAnswered(c) \/ Publish(c) \/ AllWaited(c) \/ Post(c) \/ Panic(c)
         \/ \E f \in Fields : WaitToken(c, f)
  PROVE  Passes(c)
<1>1. PICK r, i : r = handler[c].record /\ i = handler[c].rule
  OBVIOUS
<1>2. AnswerInv /\ Placed(handler[c])
  BY DEF OnceInv
<1>3. ASSUME NEW d, RuleOf(handler[c]) = d, Taken(r, d)' PROVE Leaves(c)
  BY <1>1, <1>3 DEF Leaves
<1>4. ASSUME NEW d, RuleOf(handler[c]) = d, <<r, d>> \in refused' PROVE Leaves(c)
  BY <1>3, <1>4 DEF Taken
<1>5. ASSUME NEW d \in {"pubsub", "kinesis", "zmq"}, Store(c, d) PROVE Passes(c)
  <2>1. ~At(c, "read") /\ RuleOf(handler[c]) = d /\ d \in Stores /\ d # "mqtt"
    BY <1>5 DEF Store, Calls, At, Stores
  <2>2. CASE held' = [held EXCEPT ![d] = @ \cup {r}] /\ AckOrGoOn(c, d)
    <3>1. r \in held'[d]
      BY <2>1, <2>2 DEF IInv
    <3>2. Leaves(c)
      BY <1>3, <2>1, <3>1 DEF Taken, Held
    <3>3. QED
      BY <1>1, <2>1, <2>2, <3>2, NextPasses, SamePasses DEF AckOrGoOn
  <2>3. CASE <<r, d>> \in refused' /\ NextRule(c)
    BY <1>4, <2>1, <2>3, NextPasses
  <2>4. QED
    BY <1>1, <1>5, <2>2, <2>3 DEF Store
<1>6. CASE Ack(c)
  <2>1. At(c, "ack") /\ ~At(c, "read") /\ NextRule(c)
    BY <1>6 DEF Ack, At
  <2>2. Relies(handler[c]) /\ Settled(r, config, held, published)
    BY <1>1, <1>2, <2>1 DEF Placed, At, IInv, Fine
  <2>3. PICK d : d = RuleOf(handler[c])
    OBVIOUS
  <2>4. config.acks[r.type] = d /\ d \in Stores
    BY <1>1, <2>2, <2>3 DEF Relies, Reliable, Sources, Settled
  <2>5. HeldIn(r, d, held, published) /\ held' = held /\ published' = published
    BY <1>6, <2>2, <2>4 DEF Settled, Ack
  <2>6. Taken(r, d)'
    BY <2>4, <2>5 DEF Taken, Held, HeldIn
  <2>7. QED
    BY <1>3, <2>1, <2>3, <2>6, NextPasses
<1>7. CASE Enqueue(c)
  <2>1. ~At(c, "read") /\ RuleOf(handler[c]) = "kafka" /\ NextRule(c)
    BY <1>7 DEF Enqueue, Calls, At
  <2>2. r \in inflight' \/ <<r, "kafka">> \in refused'
    BY <1>1, <1>7 DEF Enqueue
  <2>3. Leaves(c)
    BY <1>3, <2>1, <2>2 DEF Taken
  <2>4. QED
    BY <2>1, <2>3, NextPasses
<1>8. CASE PostAnswered(c)
  <2>1. At(c, "post") /\ ~At(c, "read") /\ NextRule(c)
    BY <1>8 DEF PostAnswered, At
  <2>2. RuleOf(handler[c]) = "logger"
    BY <1>2, <2>1 DEF AnswerInv, Passed, At
  <2>3. r \in ToSet(ingested') \/ <<r, "logger">> \in refused'
    BY <1>1, <1>8 DEF PostAnswered, ToSet
  <2>4. Leaves(c)
    BY <1>3, <2>2, <2>3 DEF Taken
  <2>5. QED
    BY <2>1, <2>4, NextPasses
<1>9. CASE Publish(c)
  <2>1. ~At(c, "read") /\ RuleOf(handler[c]) = "mqtt"
    BY <1>9 DEF Publish, Calls, At
  <2>2. \/ Become(c, Working("wait", r, i, Fields, {}))
        \/ <<r, "mqtt">> \in refused' /\ NextRule(c)
    BY <1>1, <1>9 DEF Publish
  <2>3. QED
    BY <1>1, <1>4, <2>1, <2>2, NextPasses, SamePasses
<1>10. CASE AllWaited(c)
  <2>1. At(c, "wait") /\ ~At(c, "read") /\ RuleOf(handler[c]) = "mqtt" /\ handler[c].todo = {}
    BY <1>2, <1>10 DEF AllWaited, AnswerInv, Passed, At
  <2>2. \/ handler[c].failed # {} /\ <<r, "mqtt">> \in refused /\ NextRule(c)
        \/ handler[c].failed = {} /\ AckOrGoOn(c, "mqtt")
    BY <1>1, <1>2, <1>10, <2>1 DEF AllWaited, AnswerInv, Passed, At
  <2>3. handler[c].failed = {} => {r} \X Fields \subseteq published
    BY <1>1, <2>1 DEF IInv, Fine, At
  <2>4. refused' = refused /\ published' = published
    BY <1>10 DEF AllWaited, producing
  <2>5. Taken(r, "mqtt")'
    BY <2>2, <2>3, <2>4 DEF Taken, Held, Stores
  <2>6. Leaves(c)
    BY <1>3, <2>1, <2>5
  <2>7. QED
    BY <2>1, <2>2, <2>6, NextPasses, SamePasses DEF AckOrGoOn
<1>11. CASE Post(c)
  <2>1. ~At(c, "read") /\ RuleOf(handler[c]) = "logger"
    BY <1>11 DEF Post, Calls, At
  <2>2. \/ Become(c, Working("post", r, i, {}, {}))
        \/ <<r, "logger">> \in refused' /\ NextRule(c)
    BY <1>1, <1>11 DEF Post
  <2>3. QED
    BY <1>1, <1>4, <2>1, <2>2, NextPasses, SamePasses
<1>12. CASE Panic(c)
  BY <1>12, SamePasses DEF Panic, At
<1>13. ASSUME NEW f \in Fields, WaitToken(c, f) PROVE Passes(c)
  <2>1. ~At(c, "read")
    BY <1>13 DEF WaitToken, At
  <2>2. PICK todo, failed : Become(c, Working("wait", handler[c].record, handler[c].rule, todo, failed))
    BY <1>13 DEF WaitToken
  <2>3. QED
    BY <2>1, <2>2, SamePasses
<1>14. QED
  BY <1>5, <1>6, <1>7, <1>8, <1>9, <1>10, <1>11, <1>12, <1>13

\* Records become active while their handlers have them.
LEMMA ActiveGrows ==
  ASSUME [Next]_vars, NEW r \in Active'
  PROVE  r \in Active \/ \E c \in Conns : ~At(c, "read") /\ r = handler[c].record
<1>1. ASSUME NEW c \in Conns, Ack(c) \/ Respond(c) \/ Enqueue(c)
      PROVE  ~At(c, "read") /\ (r \in Active \/ r = handler[c].record)
  <2>1. CASE Ack(c)
    BY <2>1 DEF Ack, At, Active
  <2>2. CASE Respond(c)
    BY <2>2 DEF Respond, At, Active, producing
  <2>3. CASE Enqueue(c)
    BY <2>3 DEF Enqueue, Calls, At, Active
  <2>4. QED
    BY <1>1, <2>1, <2>2, <2>3
<1>2. ASSUME AckReported \/ \E q \in inflight : Report(q) PROVE r \in Active
  BY <1>2 DEF AckReported, Report, Active
<1>3. ASSUME ~(AckReported \/ \E q \in inflight : Report(q)), ~\E c \in Conns : Ack(c) \/ Respond(c) \/ Enqueue(c)
      PROVE  Active' = Active
  BY <1>3 DEF Next, ConfigureProducers, Receive, Panic, Store, Publish, AllWaited, Post, PostAnswered,
              WaitToken, Complete, Break, Ingest, Lose, vars, producing, Active
<1>4. QED
  BY <1>1, <1>2, <1>3

\* What a step does to the handlers.
LEMMA HandlersTake ==
  ASSUME IInv, OnceInv, [Next]_vars
  PROVE  \/ handler' = handler
         \/ \E c \in Conns : \E t \in Types : Receive(c, t)
         \/ \E c \in Conns : Passes(c)
         \/ \E c \in Conns : Respond(c)
<1>1. ASSUME \/ ConfigureProducers \/ AckReported
             \/ \E r \in inflight : Report(r)
             \/ \E p \in publishing : Complete(p) \/ Break(p)
             \/ \E r \in posts : Ingest(r) \/ Lose(r)
             \/ UNCHANGED vars
      PROVE  handler' = handler
  BY <1>1 DEF ConfigureProducers, AckReported, Report, Complete, Break, Ingest, Lose, vars
<1>2. QED
  BY <1>1, StepPasses DEF Next

LEMMA AllTookStays ==
  ASSUME IInv, OrderInv, AnswerInv, [Next]_vars, NEW r, AllTook(r)
  PROVE  AllTook(r)'
<1>1. config' = config
  BY ServerRuns
<1>2. ASSUME NEW j \in DOMAIN Rules(config, r.type), NEW d, d = Rules(config, r.type)[j] PROVE Taken(r, d)'
  BY <1>2, TakenStays DEF AllTook
<1>3. \A j \in DOMAIN Rules(config, r.type) : \E d : d = Rules(config, r.type)[j] /\ Taken(r, d)'
  BY <1>2
<1>4. Rules(config, r.type)' = Rules(config, r.type)
  BY <1>1 DEF Rules
<1>5. QED
  BY <1>3, <1>4 DEF AllTook

LEMMA TookUpToStays ==
  ASSUME IInv, OrderInv, AnswerInv, [Next]_vars, NEW r, NEW n, TookUpTo(r, n)
  PROVE  TookUpTo(r, n)'
<1>1. config' = config
  BY ServerRuns
<1>2. ASSUME NEW j \in 1..n PROVE \E d : d = Rules(config, r.type)[j] /\ Taken(r, d)'
  <2>1. PICK d : d = Rules(config, r.type)[j] /\ Taken(r, d)
    BY DEF TookUpTo
  <2>2. Taken(r, d)'
    BY <2>1, TakenStays
  <2>3. QED
    BY <2>1, <2>2
<1>3. Rules(config, r.type)' = Rules(config, r.type)
  BY <1>1 DEF Rules
<1>4. QED
  BY <1>2, <1>3 DEF TookUpTo

LEMMA HandlersTook ==
  ASSUME IInv, OrderInv, OnceInv, [Next]_vars, NEW k \in Conns, handler'[k].step # "read",
         \A c \in Conns : ~At(c, "read") => TookUpTo(handler[c].record, handler[c].rule - 1)
  PROVE  \E r, n : r = handler'[k].record /\ n = handler'[k].rule - 1 /\ TookUpTo(r, n)'
<1>1. AnswerInv /\ handler = [c \in Conns |-> handler[c]] /\ config' = config
  BY ServerRuns DEF OnceInv, AnswerInv, Handling
<1>2. CASE handler'[k] = handler[k]
  <2>1. PICK r, n : r = handler[k].record /\ n = handler[k].rule - 1
    OBVIOUS
  <2>2. TookUpTo(r, n)
    BY <1>2, <2>1 DEF At
  <2>3. TookUpTo(r, n)'
    BY <1>1, <2>2, TookUpToStays
  <2>4. QED
    BY <1>2, <2>1, <2>3
<1>3. ASSUME NEW c \in Conns, NEW t \in Types, Receive(c, t), c = k
      PROVE  \E r, n : r = handler'[k].record /\ n = handler'[k].rule - 1 /\ TookUpTo(r, n)'
  <2>1. handler'[k].rule = 1
    BY <1>1, <1>3 DEF Receive, Become, Working
  <2>2. PICK r, n : r = handler'[k].record /\ n = handler'[k].rule - 1
    OBVIOUS
  <2>3. n = 0 /\ 1..n = {}
    BY <2>1, <2>2
  <2>4. TookUpTo(r, n)'
    BY <2>3 DEF TookUpTo
  <2>5. QED
    BY <2>2, <2>4
<1>4. ASSUME NEW c \in Conns, Passes(c), c = k
      PROVE  \E r, n : r = handler'[k].record /\ n = handler'[k].rule - 1 /\ TookUpTo(r, n)'
  <2>1. PICK h : GoesOn(c, h) /\ (h.rule = handler[c].rule \/ Leaves(c))
    BY <1>4 DEF Passes
  <2>2. handler'[k] = h /\ ~At(k, "read") /\ h.record = handler[k].record
        /\ (h.rule = handler[k].rule \/ h.rule = handler[k].rule + 1)
    BY <1>1, <1>4, <2>1 DEF GoesOn, Become
  <2>3. PICK r, n : r = handler[k].record /\ n = handler[k].rule - 1
    OBVIOUS
  <2>4. handler[k].rule \in Nat \ {0} /\ n \in Nat
    BY <1>1, <2>2, <2>3, HandledIsRead
  <2>5. TookUpTo(r, n)
    BY <2>2, <2>3
  <2>6. TookUpTo(r, n)'
    BY <1>1, <2>5, TookUpToStays
  <2>7. CASE h.rule = handler[k].rule
    BY <2>2, <2>3, <2>6, <2>7
  <2>8. CASE h.rule = handler[k].rule + 1
    <3>1. PICK m : m = n + 1
      OBVIOUS
    <3>2. m = handler'[k].rule - 1 /\ r = handler'[k].record /\ m = handler[k].rule /\ m \in Nat
      BY <2>2, <2>3, <2>4, <2>8, <3>1
    <3>3. Leaves(k)
      BY <1>4, <2>1, <2>4, <2>8
    <3>4. PICK d : d = Rules(config, r.type)[m] /\ Taken(r, d)'
      BY <2>3, <3>2, <3>3 DEF Leaves, RuleOf
    <3>5. Rules(config, r.type)' = Rules(config, r.type)
      BY <1>1 DEF Rules
    <3>6. \A j \in 1..m : j \in 1..n \/ j = m
      BY <2>4, <3>1
    <3>7. TookUpTo(r, m)'
      BY <2>6, <3>4, <3>5, <3>6 DEF TookUpTo
    <3>8. QED
      BY <3>2, <3>7
  <2>9. QED
    BY <2>2, <2>7, <2>8
<1>5. ASSUME NEW c \in Conns, NEW h, Become(c, h), c # k PROVE handler'[k] = handler[k]
  BY <1>1, <1>5 DEF Become
<1>6. ASSUME NEW c \in Conns, Respond(c) PROVE c # k /\ \E h : Become(c, h)
  BY <1>1, <1>6 DEF Respond, Become, Reading
<1>7. QED
  BY <1>2, <1>3, <1>4, <1>5, <1>6, HandlersTake DEF Receive, Passes, GoesOn

\* A record stays with its handler until every dispatcher has taken it.
LEMMA HandledOrTook ==
  ASSUME IInv, OrderInv, OnceInv, [Next]_vars, NEW r, r.conn \in Conns, Handled(r),
         TookUpTo(handler[r.conn].record, handler[r.conn].rule - 1)
  PROVE  Handled(r)' \/ AllTook(r)'
<1> DEFINE k == r.conn
<1>1. AnswerInv /\ handler = [c \in Conns |-> handler[c]] /\ config' = config
  BY ServerRuns DEF OnceInv, AnswerInv, Handling
<1>2. CASE handler'[k] = handler[k]
  BY <1>2 DEF Handled
<1>3. ASSUME NEW c \in Conns, Passes(c), c = k PROVE Handled(r)'
  BY <1>1, <1>3 DEF Passes, GoesOn, Become, Handled
<1>4. ASSUME NEW c \in Conns, Respond(c), c = k PROVE AllTook(r)'
  <2>1. handler[k].record = r /\ handler[k].rule > Len(Rules(config, r.type))
    BY <1>4 DEF Respond, Handled
  <2>2. PICK n : n = handler[k].rule - 1
    OBVIOUS
  <2>3. handler[k].rule \in Nat
    BY <1>1, HandledIsRead DEF Handled, At
  <2>4. \A j \in DOMAIN Rules(config, r.type) : j \in 1..n
    <3>1. \/ Rules(config, r.type) = config.records[r.type] /\ config.records[r.type] \in Seq(STRING)
          \/ Rules(config, r.type) = <<>>
      BY <1>1, DispatchAssumption DEF AnswerInv, Rules
    <3>2. CASE Rules(config, r.type) \in Seq(STRING)
      BY <2>1, <2>2, <2>3, <3>2
    <3>3. CASE Rules(config, r.type) = <<>>
      BY <3>3
    <3>4. QED
      BY <3>1, <3>2, <3>3
  <2>5. TookUpTo(r, n)
    BY <2>1, <2>2
  <2>6. AllTook(r)
    BY <2>4, <2>5 DEF TookUpTo, AllTook
  <2>7. QED
    BY <1>1, <2>6, AllTookStays
<1>5. ASSUME NEW c \in Conns, NEW h, Become(c, h), c # k PROVE handler'[k] = handler[k]
  BY <1>1, <1>5 DEF Become
<1>6. ASSUME NEW c \in Conns, NEW t \in Types, Receive(c, t) PROVE c # k /\ \E h : Become(c, h)
  BY <1>6 DEF Receive, Handled, At
<1>7. QED
  BY <1>2, <1>3, <1>4, <1>5, <1>6, HandlersTake DEF Respond, Passes, GoesOn

LEMMA NextTaken ==
  ASSUME IInv, OrderInv, OnceInv, TakenInv, [Next]_vars
  PROVE  TakenInv'
<1>1. AnswerInv
  BY DEF OnceInv
<1>2. ASSUME NEW r \in Active' PROVE r.conn \in Conns /\ (Handled(r)' \/ AllTook(r)')
  <2>1. r \in Active \/ \E c \in Conns : ~At(c, "read") /\ r = handler[c].record
    BY <1>2, ActiveGrows
  <2>2. r.conn \in Conns /\ (Handled(r) \/ AllTook(r))
    BY <1>1, <2>1, HandledIsRead DEF TakenInv, Handled, At
  <2>3. Handled(r) => TookUpTo(handler[r.conn].record, handler[r.conn].rule - 1)
    BY <2>2 DEF TakenInv, Handled, At
  <2>4. QED
    BY <1>1, <2>2, <2>3, AllTookStays, HandledOrTook
<1>3. ASSUME NEW k \in Conns, handler'[k].step # "read"
      PROVE  TookUpTo(handler[k].record, handler[k].rule - 1)'
  BY <1>3, HandlersTook DEF TakenInv
<1>4. QED
  BY <1>2, <1>3 DEF TakenInv, At

LEMMA InitTaken == Init => TakenInv
BY DEF Init, TakenInv, At, Reading, Active

LEMMA TakenLeavesNoneOut == TakenInv => NoneLeftOut
<1> SUFFICES ASSUME TakenInv, NEW r \in answered \cup acked, Through(r), NEW d \in ToSet(Rules(config, r.type))
             PROVE  Taken(r, d)
  BY DEF NoneLeftOut
<1>1. AllTook(r)
  BY DEF TakenInv, Active, Through, Handled, At
<1>2. PICK j \in DOMAIN Rules(config, r.type) : d = Rules(config, r.type)[j]
  BY DEF ToSet
<1>3. QED
  BY <1>1, <1>2 DEF AllTook

\* Whatever the configuration file lists and whichever dispatchers fail, panic or come
\* late, an answered record that its handler is through with has been taken by every
\* dispatcher of its type, unless an error is on record or kafka has yet to report it.
THEOREM NoDispatcherLeftOut == Spec => []NoneLeftOut
<1>1. Init => IInv /\ OrderInv /\ OnceInv /\ TakenInv
  BY InitInv, InitOrder, InitOnce, InitTaken
<1>2. IInv /\ OrderInv /\ OnceInv /\ TakenInv /\ [Next]_vars => (IInv /\ OrderInv /\ OnceInv /\ TakenInv)'
  BY NextInv, NextOrder, NextOnce, NextTaken
<1>3. QED
  BY <1>1, <1>2, TakenLeavesNoneOut, PTL DEF Spec
=============================================================================
