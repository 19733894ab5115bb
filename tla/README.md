# Verification of stravolt

TLA+ models of the parts of stravolt whose behaviour depends on the order of
things: the Rails application that turns telemetry frames into trips, and the
Go server that terminates the vehicles' websockets and hands records on. The
models are checked with TLC on small instances and proved about with TLAPS.

Paths below are relative to the repository (`app/...`, `fleet-telemetry/...`).

## 1. The system

A vehicle keeps a websocket to the telemetry server (`fleet-telemetry`). Every
message it sends is a record of a type; the server dispatches the record to
the producers configured for that type and acknowledges it. In the deployed
configuration (`config.json.sample`) the only producer is the modified `logger`
producer, which POSTs the record to the Rails application
(`POST /api/v1/telemetry/ingest`) and waits for the answer, which comes from Rails or
from a proxy before it (nginx after 60 s, Cloudflare before nginx). Rails looks up the
vehicle by VIN and drives its park/drive/park cycle: trips, their intervals
and their metrics. Users connect a Tesla account (OAuth, rotating refresh
tokens), start and stop telemetry for a vehicle through Tesla's API, and look
at dashboards.

### Inventory

| Part | State | Operations | Interacts with | Hard behaviour | What makes it correct |
|---|---|---|---|---|---|
| Ingest and trips (`telemetry_ingest_service.rb`, `trip_service.rb`, `trip.rb`, `interval.rb`) | rows of `vehicles` (`last_gear`, `active_trip_id`), `trips`, `intervals` | a frame: record gear, start / extend / complete a trip, parked snapshot | the server's POSTs; SQLite | several transactions per request, stale copies, requests of two sockets of one vehicle, requests that die half way, resent frames | one open trip per vehicle, found again by the next frame; one snapshot per stop; metrics that count every interval of a serial trip, and a maximum that does so in any case; completed trips stay completed |
| Sockets (`server/streaming/*.go`) | per connection: websocket, `writeChan`, `stopChan`; `SocketRegistry` | upgrade, read, dispatch, answer, write, close; register, deregister, look up | producers (call and `ackChan`), vehicles | two goroutines per connection and a third for all of them; bounded and unbuffered channels; panics; reused ids | acks are true, addressed and single; the registry is exact; lost vehicles are noticed |
| Producers (`datastore/*`) | in-flight records, clients | `Produce`, delivery reports, `ProcessReliableAck` | stores, ingest endpoint and its proxies, `ackChan` | asynchronous reports, partial publication, deadlines, no timeout, proxies that answer for the endpoint, panics | no reliable ack without a stored record; no dispatcher left out unnoticed; frames in order unless a post failed |
| Records (`telemetry/record.go`, `messages/`, `simple/transformers`, `mqtt_payload.go`) | none; one message on its way | parse, transform, encode, answer | serializer, producers, ingest | numeric and textual edge cases, fields that were not written, panics | stores show what the vehicle said; the answer names its message |
| Server configuration (`config/config.go`) | dispatch rules, ack sources | validate, configure | sockets, producers | unknown names, values never copied | what is accepted can be dispatched and acknowledged |
| Tesla tokens (`tesla_authenticable.rb`, `tesla_sessions_controller.rb`) | tokens, expiry, status on `users` | connect, verify, refresh, disconnect | Tesla's OAuth | concurrent use of a rotating token, refused refreshes, lost answers, stale copies | the stored refresh token works; the status says what the tokens are |
| Telemetry start / stop (`vehicles/telemetry_controller.rb`) | `telemetry_active` and Tesla's configuration | create, destroy | Tesla's API, ingest | failure between the two, concurrent start and stop | a later start or stop makes the row say what Tesla does |
| Vehicle initialisation and cached data (`dashboard_controller.rb`, `vehicles_controller.rb`) | `vehicles`, `cached_data` | fetch list, store, refresh | Tesla's API | two requests at once, failure in the middle | every vehicle of the account is stored; newer data is kept |
| Browser controllers (`app/javascript/controllers`) | lists, timers | show, dismiss, open, close | each other through `window` | timers and animation frames against later calls | toasts are bounded and leave |
| Pages, API client, OAuth strategy, metrics | none of their own | | | | not modelled |

`PROJECT.json` lists every part with its status, and under `hazards` what is
hard to test in this code, line by line, with the properties that cover it.

## 2. Modules

| Module | What it is |
|---|---|
| `DriveCycle` | what trip ingest promises: each frame is one step of the park/drive cycle |
| `TripService` | ingest of one vehicle's frames, one action per database transaction |
| `MCTripService` | symmetry for TLC |
| `TripService_proofs`, `TripSerial_proofs` | theorems about `TripService`, for any number of sockets and for one |
| `Delivery` | what the server promises its vehicles: each message is stored and answered at most once, in order, and only while its connection lasts |
| `Streaming` | the server's goroutines, channels, registry and reliable acks |
| `MCStreaming` | small instances for TLC |
| `Streaming_proofs` | theorems about `Streaming` |
| `Dispatch` | the server's start from its configuration, and every producer at work on the records of several connections |
| `MCDispatch`, `Dispatch_proofs` | eleven configuration files for TLC; theorems |
| `Identity`, `Messages`, `VehicleData`, `Payloads` | operators: certificates and ids, the flatbuffers envelope, the kinds of values, their conversions |
| `Frames` | one message through the server and into the application, built from these operators |
| `MCFrames`, `Frames_proofs` | messages, certificates and configurations for TLC; theorems |
| `TeslaTokens` | one user's Tesla tokens and the requests that use and change them |
| `MCTeslaTokens`, `TeslaTokens_proofs` | symmetry for TLC; theorems |
| `Vehicles` | the lists of vehicles, Tesla's telemetry configuration and the cached data |
| `MCVehicles`, `Vehicles_proofs` | two users for TLC; theorems |
| `Toasts` | the toasts of a page |
| `MCToasts`, `Toasts_proofs` | a page that fits three for TLC; theorem |

The models meet at these points. `Streaming` has the goroutines and channels and
takes a producer as a step that succeeds or fails and acknowledges a record at most
once, which is `OneAnswer` of `Dispatch`; `Dispatch` has the producers and takes
`ackChan` as a step that its reader will take; `Frames` has what is in the messages
and takes both as a sequence of steps. `trips_serial` takes the frames of one socket
as arriving one at a time and in order, which is `IngestInOrder` of `Dispatch` as
long as no post ends with an error; a frame that a proxy gave up on may arrive later,
beside its successor, and for this `trips_concurrent` has two requests and frames of
any age. `TripService` starts from frames of an active vehicle; `SoloRepairs` of
`Vehicles` says when `telemetry_active` is what Tesla streams.

Operators named like a model operator with a suffix and commented `Fault:` are
not part of the specifications. Each is a plausible mistake in the operation
that follows it; the `mutants` of `PROJECT.json` put it in that operation's
place to show that a property notices.

### TripService

A telemetry socket waits for the answer to a post before it posts the next frame, so
the model has one request per socket. There are two where a vehicle reconnected
before its old connection was torn down, and where a proxy gave up on a request that
Rails still works on: `Sockets` counts both. `FindVehicle` reads the vehicle row;
from then on the request works on that copy (`seenGear`, `trip`). Each later action
is one transaction of the code or one of the reads between transactions that matter:

| Action | Code |
|---|---|
| `FindVehicle` | `TelemetryIngestService#process`, `find_vehicle!` |
| `RecordGear`, `AfterGear`, `parked_transition` | `record_gear`, and the branches of `handle_parked` and `handle_driving` |
| `StartTrip`, `ActivateTrip` | the two transactions of `start_trip` |
| `LoadTrip`, `AddInterval` | `add_interval`: the trip as loaded; then, in one transaction, the interval and in its `after_create` the trip's metrics |
| `create_empty_trip` | the parked snapshot |
| `LoadTrip`, `RecalculateMetrics`, `SaveTrip`, `ClearActiveTrip` | `complete_trip` and `Trip#complete!` |
| `Fail` | an exception (rescued by `process`) or a killed worker between two transactions |

Active Record writes only attributes that differ from the loaded copy; `Saved`
says so, and it matters when two requests complete one trip, and when one adds an
interval with an old copy of the trip in hand: a metric that comes out as in the
copy is not written (`SavedMetrics`), although another request may have stored
another since. The metrics are `max_speed_kmh` and `avg_speed_kmh`, in hundredths as
the columns hold them; `distance_km` is left out. The speed of the vehicle is a
function of the time (`Speed`). Locations and batteries
are abstracted to whether a driving frame makes a valid interval. Frames of an
inactive vehicle, of an unknown VIN or without a gear change nothing and are
not sent in the model. Each frame is one of a trip's second: `recorded_at` is
unique within a trip.

`DriveCycle` is the same cycle with indivisible frames. `CycleGear` and
`CycleTrip` map the state in the middle of a request to it: a request takes
effect when it creates or saves its row, before that `last_gear` is the one it
read, after it the active trip is the one it is about to store.

### Streaming

Each connection is used once, by a handler goroutine (`handler[c]`) and a writer
goroutine. `queue[c]` is `writeChan`, `sent[c]` what was written. The other state is
the registry (`sockets`, `counter`), the vehicles announced as connected (`online`),
and the way of reliable acks: records kafka has not reported (`inflight`), the report
its goroutine offers (`delivery`) and the single `handleAcks` goroutine (`acker`). A
plain record, one without reliable ack source, is answered whatever its producer
does: an error of the producer is logged and the record dropped, so its answer says
nothing of the store. A send on the unbuffered `ackChan` and its receive are one
step. A send on `writeChan` waits while it is full.

A message is abstracted to what becomes of it (`AllKinds`). Producers that wait
for their store (kinesis, pubsub, mqtt, zmq) are one kind, kafka is another;
both may fail. The message and peer behaviour is the environment: `Vehicle(c)`
has no fairness.

A socket without a request identity is modelled as the code treats it: it is
registered; if connectivity events are dispatched it panics there, before its
deregistration is deferred; otherwise its first message panics into the
deferred `Close`.

Left out: the rate limiter (its interval is never set, so it holds nothing
back), metrics and logs, server shutdown (the process exits and nothing is
persisted).

`Delivery` leaves all of this out except what stores and vehicles see, with one
step for each: a message is read, its record is stored, it is answered, a
connection ends. Only records of reliable kinds must be stored before their answer
(`Reliable`). `Promise`, at the end of `Streaming`, maps the state: an answer is
given when it is written to the websocket (`sent`), a connection has ended when its
websocket is closed. Everything between, the queues, the registry and the way of an
ack, is hidden.

### Dispatch

`ConfigureProducers` accepts a configuration file or ends the server (a store
out of reach ends it, too). The parts of the file that matter are the dispatchers
of each record type, `reliable_ack_sources` and the sections of the stores.
A handler goes through the dispatchers of its record's type in order:

| Action | Code |
|---|---|
| `Receive`, `Respond` | `ParseAndProcessRecord`: the record is dispatched, then answered unless its type is in `reliable_ack_sources` |
| `Store` | `Produce` of pubsub, kinesis and zmq, which wait; an error may come although the store has the record |
| `Ack` | their and mqtt's `ProcessReliableAck`: a send on `ackChan` |
| `Enqueue`, `Report`, `AckReported` | kafka: `Produce`, the delivery report that `handleProducerEvents` takes, its own `ProcessReliableAck` |
| `Publish`, `WaitToken`, `AllWaited` | mqtt: one publication per topic, then one token after the other under a common deadline |
| `Complete`, `Break`, `Ingest`, `Lose` | the broker and the network, at any time |
| `Post`, `PostAnswered` | the logger: the POST, and its answer or error, from the endpoint or a proxy |
| `Panic` | a dispatcher of unknown name, kept as a nil producer; a datum without value that mqtt dereferences, a VIN without the letter that the logger reads (`PanicsOnData`) |

mqtt's `held` means what the client library reports: with the default quality of
service 0 that is "written to the broker's connection". A POST may end with an error
while the frame is on its way: nginx (`nginx.conf`, its default `proxy_read_timeout`
of 60 s) and Cloudflare answer 504 in place of an endpoint that is slow, and Rails
may handle the request later. `PostAnswered` therefore leaves such a frame in
`posts`, from where it may still arrive or be lost; only the endpoint's acceptance
says that the frame is no longer on its way. Errors are on record in `refused`.
`inflight` is a set: of a record that a file sends to kafka twice it has one report
instead of two. A send on zmq's one socket is indivisible in the model; the code lets
handlers of several connections send a message of two parts without a lock.

### Identity, Messages, VehicleData, Payloads, Frames

These are the data of the server. A message is read into a record
(`NewRecord`: `Deserialize`, then `Transformed`), the record is given to the
producers of its type, and the vehicle is answered. `Frames` has a step for
reading, parsing, each producer, the application's ingest, and each answer;
`Panic` is a handler that ends in a conversion.

A flatbuffers table is a function from the fields that were *written* to their
values, since a missing field reads as its default and a number equal to its default
is not written. A value is a pair of its kind in the protobuf oneof and its content,
and every kind of the protocol is there; enumerations are ranges of numbers, and a
number above the range is one from newer firmware. A text is a tuple that says what
it is: a location, a number in decimal or scientific notation, a word. Numbers are
multiples of 0.000001, so rounding to five decimals shows. A text in scientific
notation is parsed as a 32-bit float and printed with five decimals; what comes out
is the constant operator `Shortened`, of which `PayloadsAssumption` says that it is
off by the 24th significant bit (`Precision`) and half of the fifth decimal at most
(`Close`), as IEEE 754 and `%.5f` promise. Names and ids in dot notation are
sequences of segments, so that a dot in a common name shows. VINs are given by their
fourth letter, which is what `getModelFromVIN` reads.

Each conversion keeps its name from the code (`transformLocation`,
`transformScientificNotation`, `convertTimestamp`, `transformValue`,
`getDatumValue`, `PayloadToMap`). `IsData` says what decoding a vehicle's payload
gives: values whose contents are of their kinds, under names that are not empty;
`IsAlerts` says it of lists of alerts, whose times may be missing. Every arrival of
the model either is garbage or can be decoded so (`Decodable`). The history of an
alert's name is given by the positions of its alerts (`Nth`), a form the prover can
reason about; `NamedFilters` of `MCFrames` has TLC compare it with the filtered
sequence. The properties compare what stores and the
application have with a separate definition of what the vehicle said (`Meaning`,
`TextMeaning`, `TrueSeconds`, `SaidGear`).

### TeslaTokens

A request loads the user's row and works on its copy (`base` is the copy as
loaded, so that a save writes the changed attributes only). `EnsureValid` is
`ensure_valid_tesla_token` up to Tesla's token endpoint; `Granted`, `AnswerLost`
and `Refused` are what may come of the refresh, `StoreRefresh` and `StoreFails`
its `update!`. `Callback` and `Connect` are the OAuth callback, `Verify` is
`refresh_fleet_token`, `Disconnect` the end of the session with Tesla. `Finish`
also stands for a worker that dies.

Tesla's side is an assumption: a refresh token works once, and a refresh without
an audience keeps that of the grant it spends. `token_expires_at` is abstracted
to whether the access token is good for another minute (`fresh`), the margin of
`valid_access_token?`; it does not run out during a call.

### Vehicles

Requests that load a row, wait for Tesla and store: `ListVehicles` to
`CreateInvalid` are `initialize_vehicles` with `find_or_create_by!` in its two
steps; `SetVehicle`, `Configure`, `Delete`, `FetchData`, `FetchNothing`, `Store`
are starting and stopping telemetry and refreshing the cached data. Tesla may
refuse or lose its answer (`Configure` and `Delete` may end the request although
Tesla did what was asked), the fetch after a start may fail and is rescued, and
a request may die between any two steps (`Fail`). The data a fetch brings is its
number. The other attributes of a start (`config`, `configured_at`, `synced`) go
with `telemetry_active`. What Tesla lists for a user does not change.

### Toasts

`Show` is `handleToastShow` with the toast that is pushed out; `Frame` the
animation frame of `renderToast`, which times the dismissal; `Dismiss` and
`TakeOff` the two timers; `Close` the buttons; `Clear` `clearAllToasts` on a
navigation, after which frames and removal timers are still to come. A
navigation that replaces the element makes a new controller, which starts from
`Init` while the old one's timers find nothing; `Clear` covers the one that stays.
Toasts are numbered as they are shown and the list always has the newest first,
so it is the set of its toasts: `Place` is a toast's index in a list, `Oldest` the
last of it.

## 3. Runs

Serial ingest (`trips_serial`): one socket, three trips, two parked and one
driving gear, three timestamps, one failure, frames in order (no post ended with an
error). It checks that
every step is a step of `DriveCycle` unless a request dies
(`ImplementsDriveCycle`), that orphaned trips and additional snapshots are
accounted for by dead requests, that intervals lie within their trip and trips
do not overlap, that all metrics are current, and that a parked frame ends the
trip it finds (`ParkEndsTrip`). Three trips let a snapshot, a trip and a
further snapshot or trip follow each other; three timestamps order start,
interval and end. The second parked gear is there because `last_gear` keeps the
string and `<invalid>` parks too.

Concurrent ingest (`trips_concurrent`): two sockets, two trips, two timestamps,
frames of any age, one failure. It checks what holds in spite of all that: the
active trip exists and is no snapshot, snapshots stay empty, the maximum speed of
an open trip is that of its intervals, trips only grow. Of the average this is not
true, and TLC finds why: the trip's average is 50, another request's interval makes it
60, this one's makes it 50 again, which is what its copy says, and the row keeps 60
until the next interval. Maxima only grow, so an old copy's maximum that comes out
again is the row's. The three speeds, 50, 70 and 30, let averages come back. Two
sockets suffice for every pair of
transactions to interleave; a third open request of one vehicle needs two
reconnects within one request.

`trips_two_sockets` is a disagreement: the request spec and a comment in
`trip_service.rb` say that consecutive parked frames make one snapshot; two
that are handled at once make two. TLC shows it in seven steps without any
failure.

Sockets: `streaming_acks` has two connections with two messages each, of
unknown type or with either kind of reliable ack, and channels of two. It
checks that an ack means that the reliable source has the record, that it goes to the
sender, that it is given once, and that the handler's own answers keep the
order of the messages. Two messages are the least that can be reordered.

`streaming_disconnect` has channels of one, two messages on one connection and
one on the other, of all kinds between them, connectivity events and unidentified
sockets. The registry is exact; a lost vehicle is announced as disconnected and
a produced record is answered *unless a channel is clogged*: full, with its
writer gone. The exception is real. Without it TLC finds both ways to get
there: a handler that sends to its own full channel after the writer failed,
and `handleAcks` that looked a socket up just before it ended and sends to its
full channel, after which every producer with reliable acks waits for ever. The
capacity is 1000 in the code; one is the same case with fewer messages.

The same run checks that every step is a step of `Delivery` or a stutter
(`ImplementsDelivery`): an answer is given at most once, not before its record is
stored if it is of a kind with reliable acks, to the id it came under, instant answers
in order, and none on a connection that has ended, although records may still be
stored. It adds to the invariants what a state does not show: that nothing given or
stored is taken back, and that one step gives one answer. Here the ids of the
connections differ; the theorem is about any ids, so that it covers the case in
which an ack comes out on another connection of the same id.

`streaming_reused_txid` is a disagreement: `GetSocket` "returns a socket if
connected", but with a repeated `X-TXID` the end of one connection removes the
other's entry.

Dispatch (`dispatch`): two connections, three record types, two topics per mqtt
record, two records on the first connection and one on the second. Of the eleven
files six are accepted: kafka as the reliable source of two types, mqtt with
the logger, the waiting stores, the logger alone (as deployed), one with a
dispatcher that does not exist, and one that lists a dispatcher twice. The other
five lack a section, name the logger,
another store or connectivity for reliable acks, or leave a type without
dispatchers. It shows that a reliable ack is true (for mqtt: of all topics),
that no record is left unanswered unless its reliable producer reported an
error, that a record is answered once by whoever answers it (`OneAnswer`), that the
frames of a connection reach ingest in order unless their post ended with an error
(`IngestInOrder`), and that no dispatcher of an answered record is left out
(`NoneLeftOut`): it has the record, or kafka has yet to report it, or an error is on
record. The exceptions are real: without them TLC finds the frame that a proxy gave
up on arriving after its successor, and the reliable ack that is given before a
later dispatcher of the record panics, of which the vehicle learns nothing. Two more
weaknesses of the code show. A rule of
unknown name is kept as a nil producer, and the check for unknown rules looks
at the number of producers only (`config.go:360`). And nothing keeps a type from
listing a dispatcher twice (`config.go:352`); such a record is produced twice and, if
the dispatcher is the reliable source, acknowledged twice, so `OneAnswer` has the
hypothesis `NoRepeats`, which only that file fails.

Records (`records`): every kind of value alone and some in pairs, among them two of
one field, of which the later one counts (`Replaced`), alerts in any
order and in both units of time, envelopes with parts missing, senders that
match or do not, certificates of each authority; four combinations of decoded
records and logged types, two sets of rules. Locations keep their signs, numbers
their value, texts in scientific notation as far as a float with five decimals goes
(1234.56789 becomes 1234.56787), enumerations their name or number
(`ValuesSurvive`); every alert is in the history of its name, once and in order, and
the current one started last (`AlertsSurvive`); parked and
driving are only what the vehicle said (`GearNotConfused`); the raw bytes are the
message with its time of arrival (`RawKeepsMessage`); answers carry the id
(`ReplyNamesMessage`); sender ids split (`SenderIDSplits`). Two exceptions are
the code's: the logger drops values of the old charging state and joins unnamed
fields under one key; and it logs typed values as objects, whose gear the
application does not see.

Tokens (`tesla_tokens`): two requests and four grants, enough for a connection,
two refreshes that race and one more after them. The stored refresh token is
live, or about to be replaced by the request that spent it, or a failure lost
its successor (`StoredTokenUsable`). Status and tokens agree as long as nobody
saved a copy of a row that had changed (`StatusTellsTheTruth`); with such a
save they need not, for instance when a disconnection meets a refresh.
`tesla_tokens_valid` is a disagreement: "Get a valid access token, refreshing if
necessary", but the result of the refresh is ignored and the expired token
returned.

Vehicles (`vehicles`): two requests, a user with two vehicles and one whose
vehicle has a VIN that the model refuses, two fetches. A list nobody works on is
complete unless a bad VIN or a dead worker cut it off (`ListComplete`): requests
that end each other at a vehicle they both store do not. A start or stop without
another one beside it leaves Tesla and the row in agreement whatever happened
before (`SoloRepairs`). A start whose fetch failed keeps the cached data of
others (`DataKeptWithoutFetch`).

Toasts (`toasts`): five toasts on a page that fits three (the limit of the
layouts), so that two are pushed out, before or after their frame. No more than
three are active (`FewActive`), and every toast leaves (`EveryToastLeaves`).

Deadlock checking is off where the environment is bounded and comes to an end
(all trips, messages or toasts used), which is no deadlock of the code. It is on
in the token runs. That nothing is stuck is checked by the liveness properties.

### Bounds

`MaxStamp`, the `Speed` at each timestamp, the number of `Trips` (`RoomForTrip` keeps
a frame from arriving when no row is left for it), `MaxFailures`, `MaxMessages`, and
the numbers of sockets and connections. They occur in guards of the environment only,
never in those of the code's own steps, except `Cap`, which is the code's.

`MaxRecords` bounds what vehicles send in `Dispatch`; two records on one connection
are what order needs, and the second connection shares kafka's reporter and
mqtt's broker with it. `MaxGrants` bounds what Tesla issues, `MaxFetches` what it
sends, `MaxToasts` what is shown. In `Frames`, `MaxSeconds` and `Milli` stand for
the largest number of seconds of a duration and for 1000: 100 and 10 keep the
boundary and its two sides; `Now` is any time of arrival. `Numerals` are the numbers
of texts in scientific notation, with what Go makes of them: a tie at the fifth
decimal, signs, and one that has more digits than a float.

### Fairness

`TripService!FairSpec`: a worker thread that has taken a request goes on;
nothing makes frames arrive. `Streaming!FairSpec`: weak fairness of each
handler's own steps, of each writer, of kafka's reports (librdkafka reports
every message, if only as timed out) and of `handleAcks`. Reading is the
vehicle's doing and is not fair; noticing a failed read is. The fairness of the
handlers' dispatch steps assumes that stores and the ingest endpoint answer or
fail. For the `logger` producer this rests on the proxies before Rails, which answer
when the endpoint does not: its HTTP client has no timeout.

`Toasts!Spec`: weak fairness of the frames and of both timers. The browser runs
timers always and animation frames while the page is looked at; a page in the
background resumes them. The user's `Close` is not fair.

`Dispatch`, `Frames`, `TeslaTokens` and `Vehicles` have no fairness: their
properties are safety properties. `EveryRecordAnswered` says of a state what a
liveness property would say of its future: no record is without an answer, an
error, and anybody working on it.

## 4. Proofs

What the theorems assume of the constants is named in the module that declares
them, and TLC evaluates it on every run. Where a theorem needs more, its statement
says so: `OneSocket` for the serial theorems of trips, and `Resends = FALSE`, frames
in order and each sent once, for the two about times. Both are the setting of
`trips_serial`; `IngestInOrder` is why frames come so as long as a vehicle has one
connection and no post ends with an error.

### Trips

For every number of sockets, trips, gears and timestamps (assumption
`ConstantsAssumption`: finite sets, `None` fresh, disjoint gears, any speeds):

* `TypeCorrect`, `ActiveTripSafe`, `SnapshotsSafe`, `OpenMetricsSafe`: the
  invariants of the concurrent run. They are not inductive alone. `IInv` adds
  that a request about to touch a trip row holds one that `start_trip` made
  (`RequestsHoldStartedTrips`: this is why no request can complete or extend a
  snapshot, and why the active trip is none) and that unused rows are blank. For
  the maximum speed it is not enough that it was right when it was stored:
  `CopiesBehind` says that the copy of a trip that a request holds is never ahead
  of the row. If a new maximum equals such a copy's, the row's lies between the two
  and is the same, so leaving it unwritten loses nothing (`MaximumSaved`).
* `TripsNeverShrink`: the action property, from the same invariant.
* `SerialMetrics`: with one socket, maximum and average are current; the addition is
  what the one request has loaded and computed.
* `SerialRefinement`: with one socket, `Spec => ImplementsDriveCycle`: initial
  states map to initial states, and each of the transactions to a step of
  `DriveCycle` or a stutter. What the one request has read is what the database
  still holds (`RequestCurrent`); the theorems below need that, too.
* `OrphansBounded`: with one socket, no more trips stay open for ever than requests
  died. A trip that only the request in progress holds is not an orphan yet; the
  step by which the request dies makes at most this one trip an orphan.
* `SnapshotsBounded`: one snapshot, and one more per death. Not inductive alone,
  because a request may be on its way to a snapshot: `SnapshotInv` says that it can
  only be so with one in hand (`MayRecord`: the gear is not recorded yet, or the
  request recorded it itself).
* `IntervalsInTrip`, `TripsFollowEachOther`: `TimeInv` says that, as long as no
  request died, the only open trip is the one the request or the vehicle holds
  (`Held`), all others are over, and every row lies before the latest frame. A trip
  that begins now therefore begins after all others ended.

### Sockets

For every number of connections and messages, any capacity and any assignment
of ids (`StreamingAssumption`):

* `TypeCorrect`: types, and no channel above its capacity.
* `AcksAreTrue`, `AnswersAddressed`: an answer is `Sound` (produced if it is of a
  reliable kind, and the sender's own) when it is queued, since whoever queues it holds a
  sound one: the handler (`Working`) or the reliable-ack goroutines
  (`AcksPending`). Production is never undone, so it stays sound.
* `CounterExact` for reused ids too, and `RegistryExact` for distinct ones.
* `OneAnswerEach`, `InstantAnswersOrdered`: two invariants that need each other
  (`OnceInv`). A message is in one place only: with its handler, with kafka, in the
  report, with `handleAcks`, or among the answers, queued or sent (`CarriedOnce`,
  `OnceIn`); unknown types are the exception, they are answered and then dispatched.
  And whatever has left a handler is no newer than what the handler works on
  (`AllPast`, `Current`), so an answer given now is new and the last in order. The
  writer's moves from the channel to the websocket change no order, whether the
  message is sent or lost.
* `SocketsDeliver`: `Spec => ImplementsDelivery`. Reading, producing, writing and
  closing map to the steps of `Delivery`, all others to stutters. The invariants
  above hold for what is sent and queued; the refinement needs more, since the guard
  of an abstract step is about the past (`DeliveryInv`): what is stored or on its
  way was read on its connection (`LedgerInv`), so records of one connection and
  number are one record, and a handler that has closed its websocket is past giving
  answers (`EndedInv`). An answer is new because it is queued before it is written and in
  one place only, which is `OnceInv` again.

### Records

For all messages, certificates and configurations (`FramesAssumption`: what arrives
is garbage or can be decoded; `PayloadsAssumption`: the number that JSON cannot
express is no number of the model, nil is no value, and a float with five decimals
is as close to a number as said above):

* `RawKept`: encoding is undone by decoding, also for fields equal to their
  defaults (`RoundTrip`), and transforming a record leaves its raw bytes alone.
* `RepliesNamed`: every answer carries the id of its message.
* `IdentitiesSplit`: the id has no dots, so splitting what was joined gives it back.
* `ValuesHold`: what the logger posts and what mqtt publishes means what the vehicle
  said last of each field. The transforms keep each datum at its place and under its
  name (`DataTransformed`) and turn its value into one that says the same
  (`BecomesSaid`), exactly but for texts in scientific notation; each store's
  conversion keeps the meaning of every kind of value it has a case for
  (`LoggerMeans`, `MqttMeans`, by cases over all kinds); and of several data of a
  field each store has the last (`LoggedLast`, `PublishedLast`, which rest on a lemma
  about the greatest of a set of positions). `StoresInv` says that the stores hold
  what was made of the record, and that the record is that of the message.
* `GearsNotConfused`: for every kind of value, what `PermittedGear` and the trip
  service make of the logger's JSON is what the value says (`GearOfValue`), and the
  transforms keep that (`GearKept`).
* `AlertsHold`, for lists of any length. Induction over the list is out of reach, so
  positions are counted: each position of a name has a rank, the number of positions
  of the name up to it; ranks differ (`MoreUpTo`) and there are as many as
  positions, so every number is the rank of one (`EveryRank`), and taking positions
  by rank keeps their order (`CountedInOrder`). Of the alerts that have started one
  started last, since the number of those that started later has a least value
  (`LatestTime`).

### Tokens, vehicles, dispatch, toasts

Tokens, for any number of requests and grants (`GrantsAssumption`):

* `TypesHold` (proved only), `TokensStayUsable`, `StatusIsTrue`. The invariant `IInv` needs
  `Private`: a grant that a request has not stored yet is known to no other
  request and to no copy of the row, so nobody can spend it before it is
  stored; and `Truth`: as long as nobody saved a stale copy, all copies and all
  answers about to be stored are truthful.

Vehicles, for any users, vehicles, lists and number of requests
(`VehiclesAssumption`):

* `ListsComplete`. While a vehicle is missing some request leads (`Leads`): its
  next vehicle is not stored, so no other request is about to end it; and what a
  request no longer has in its todo is stored (`TodoOK`).
* `SoloRequestsRepair`, the action property `SoloRepairs`: a start or stop that
  runs alone is `Undisturbed`, nobody else changes the row's flag or Tesla's
  configuration between its steps.
* `DataKept`, the action property `DataKeptWithoutFetch`: a request without fetched
  data still has the copy it loaded, and a save writes only what differs from it.

Dispatch, for any connections, topics and configuration files
(`DispatchAssumption`):

* `ReliableAcksAreTrue`. A handler about to acknowledge has a `Settled` record,
  one that waits for tokens knows of each that it has looked at whether it
  failed (`Fine`), and stores do not lose what they have.
* `FramesArriveInOrder`: a frame is on its way only while the handler of its
  connection waits for it or after its post ended with an error (`Posting`), and
  what has arrived is no newer than what the handler has read.
* `NoRecordForgotten`: a record is `Accounted` for when it has been answered, when
  kafka has yet to report it, or when the dispatcher it relies on refused it. A
  handler that has passed the rule its record relies on has left the record so
  (`Passed`), and in a file that was accepted the reliable source of a type is among
  the type's rules. This is where the validation of the file is needed.
* `RecordsAnsweredOnce`. A record is `Sent` when its ack has been given, when kafka's event
  loop offers it, or when kafka has yet to report it. A handler `Owes` its record an ack
  while the rule that the record relies on is ahead, and what is owed is not sent
  (`OnceInv`, which TLC checked on the run's instance first). Without repeats a
  record relies on one rule only (`OneRule`), so the handler that acknowledges
  it or hands it to kafka owes nothing from then on; a new record has not been sent
  since all of `Sent` has been read. The handler's own answer is for other types.
* `NoDispatcherLeftOut`. A handler at a rule has left its record with the dispatchers
  of all rules before it (`TookUpTo`): each of its steps stays at the rule or leaves
  the record behind (`StepPasses`), for an ack because it is owed to the store that
  has it, for mqtt because every token was waited for. Whoever has taken a record
  keeps it (`TakenStays`), and a record that anybody knows of is still with its
  handler or all have taken it (`TakenInv`).

Toasts, for any limit and number of toasts (`ToastsAssumption`):

* `FewToasts`. Every toast of the list is on the page (`OnPage`), so the oldest one can
  be taken off when one too many is shown, also before its frame came.

### Model-checked only

Liveness (`ParkEndsTrip`, `DisconnectNoticed`, `ProducedIsAnswered`,
`EveryToastLeaves`), which the prover does not reach. Every other property that a
passing run checks is a theorem.

## 5. Not modelled, and what is left

Left out of the modelled parts:

* TLS material, log levels, topic and stream names and airbrake of the server's
  configuration; the rate limiter, whose window is zero since
  `MessageIntervalTimeSecond` is never set (`config.go:133`).
* Interval distances and `distance_km`: floating point, and what the distance of an
  interval that arrives late should be is nowhere said.
* An open trip of a vehicle whose telemetry is stopped: ingest refuses its
  frames (`telemetry_ingest_service.rb:45`) and nothing completes the trip until
  telemetry is started again.
* What zmq's library does when two goroutines send at once.
* The layout of toasts. Modals, tooltips and the sidebar keep the display state of
  one element each; no page uses the modal's asynchronous loading.

Not modelled: pages and their forms (no state beyond rows modelled elsewhere),
the API client, the OAuth strategy and partner registration (stateless
requests), monitoring and logging (nothing reads what they write), the
reflection glue of generated code, deployment files but for the proxies before Rails.

Worth doing next: `Dispatch` shown to implement `Delivery` too, with a producer for
each record instead of one step; ingest composed with `telemetry_active`; what two
sockets of one vehicle can do to its trips at most, as a bound that is proved, where
`trips_two_sockets` shows that the bound for one socket is not kept.
