# Formal models of the ADS-B Flight Intelligence Platform

TLA+ modules, TLC configurations and TLAPS proofs kept beside the platform's
code. Every definition is translated from the source; `PROJECT.json` names, for
each definition, the lines it stands for, for each property the code change it
catches, and for each hazard of the code the properties that cover it.

Run from this directory:

    tlc -workers 2 -config SidecarSafety.cfg MCSidecarRuntime
    tlc -workers 2 -config Services.cfg MCServices
    tlapm SidecarRuntime_proofs.tla

Every module whose name ends in `_proofs` is checked by `tlapm` in the same way.

## 1. The system and its parts

The platform receives aircraft broadcasts (SBS text lines, a recorded replay, an
external provider), keeps the latest state and history of aircraft, looks for
evidence that a track is not what it says it is, and lets operators review that
evidence. It is a set of processes around a database and an MQTT broker; the
*feeder sidecar* is a process of its own, with no database, meant to run beside a
receiver.

| Component | State it keeps | Operations | Talks to |
|---|---|---|---|
| Feeder sidecar runtime (`sidecar/service.py`, `app.py`, `sbs.py`) | reader and processor tasks, bounded queue, receiver health, counters, merged state per aircraft, subscribers' queues | connect, read, enqueue, process, publish, subscribe, stop | the SBS source (TCP), the engine and the store (calls), WebSocket clients |
| Integrity engine (`backend/integrity_core/engine.py`) | per track: observations, active evidence, seen message ids; snapshots | `ingest` | called by the runtime; uses the kinematic evaluators |
| Event store (`sidecar/store.py`) | JSONL segments on disk; recovered events and duplicate window in memory | construct/recover, `remember`, `query`, `close` | the file system |
| Kinematic evaluators (`kinematics.py`, `windowed_kinematics.py`) | none | pair and window evaluation | called by the engine and by persistence |
| Recorded replay (`services/replay/`) | event index, playhead and its time, playing/paused/completed, loop flag, speed | commands, `next_event`, serving clients | SBS clients (TCP), the control API |
| Edge telemetry (`services/edge_telemetry/consumer.py`, `station_mqtt.py`, `station_persistence.py`) | the record of a station, event tables keyed by message | on message: validate, persist, acknowledge | MQTT broker, database |
| Edge firmware and bridge (`firmware/`, `receiver_bridge.py`) | bounded queue of records, connection flag | sample, queue, publish, last will | MQTT broker |
| Station health (`station_health.py`) | none | evaluate | the station rows |
| Trust assessment and operator workflow (`trust_*.py`, `api/trust*.py`) | content-addressed assessments, operator actions, audit rows | assess, act, list | database, operators |
| Live ingestion (`services/ingestion/ingest.py`, `*_persistence.py`) | aircraft state in memory, uncommitted batch; observations, evaluations, alerts, aircraft rows, trail | connect, store, evaluate, commit, roll back | SBS source, database |
| Anomaly detection (`services/anomaly_detection/detector.py`) | what a detector remembers; the table of anomalies | a turn of the loop, acknowledge | database |
| External observations, corroboration | cached snapshots, next request time, circuit | fetch, compare | HTTP provider, the trust API |
| Authentication (`api/auth.py`, `auth/`) | users, sessions, audit trail, request windows | register, bootstrap, login, logout, authenticate, limit | database, browsers |
| Aircraft WebSocket and its client (`api/websocket.py`, `useWebSocket.ts`) | connections, reconnection timer, polling interval | send the table, connect, reconnect, poll | database, REST, browser |
| Mode S decoder (`decoder/`) | counters, running flag | check and repair, decode, serve one request | HTTP clients |
| Safety corpus and agent (`app/safety/`, `sync_safety_vectorstore.py`) | ingestion runs, rows with their run, vector index | ingest, synchronise, answer a question | database, vector store, model API |
| Benign field study (`evaluation/field/`, `freeze_integrity_policy.py`) | capture files, private manifest, freeze, export, public manifest, reviews, report | capture, freeze, export, review, report | the local decoder, files, the person who runs it |

How they interact: the services meet in the database, where one writes rows that
others read (ingestion, detection, trust, live view), and each commits its own;
the edge path meets there as well, after the broker. Calls within one process are
those of the sidecar (runtime, engine, store), of ingestion (evaluators) and of
the trust API (external source, station health). Not modelled are the offline
evaluation and its scripts, the schema declarations and the rendering views.

Which behaviours are hard, and what makes each component correct:

* **Sidecar runtime.** Two tasks of one event loop share health, counters and a
  queue, and either may be suspended when the other, a client, or `stop()` acts.
  Correct: no frame vanishes uncounted; frames are taken in arrival order; the
  health report agrees with the connection whatever is still queued; a client
  sees a gapless stream until it is cut off; a source that goes away is
  connected to again; `stop()` returns.
* **Event store.** The process may die between any two of write, fsync, unlink
  and the update of its memory, and may find a torn or damaged file when it
  comes back. Correct: the directory is a log that loses only its oldest events;
  memory agrees with it; a suppressed event is one that can be queried; bounds
  hold; the process always starts.
* **Integrity engine.** Sequential, but its clock is the observations' own time,
  which goes back, jumps, and is shared between aircraft; three bounded caches.
  Correct: the caches agree, evidence expires exactly when due, a track stays
  questionable until then, a client that follows the events knows the evidence.
* **Replay.** Deadlines, commands and several clients over one shared index.
  Correct: no event is handed out before its time, whatever commands cross the
  waits; a recording that loops starts again.
* **Edge path.** Preempted tasks over a bounded queue, connections that break at
  either end, at-least-once delivery with manual acknowledgement, last wills, the
  clocks of station and consumer. Correct: what the broker took over reaches the
  tables, a row that redelivery puts back ends at the last heartbeat, what is
  reported of a station is true of it.
* **Accounts.** Handlers, another process on the same database, lost answers, a
  sliding window. Correct: each account, session and revocation is audited
  exactly once; the limits hold in every window.
* **Trust workflow.** Evidence that changes while an external source is asked;
  check, insert and read again as separate statements; repeated requests.
  Correct: what was confirmed is stored, one row per id, one audit record of it.
* **External source.** Concurrent requests around one cache, interval, backoff
  and circuit, answered late and in any order. Correct: the provider is spared
  whatever answers cross.
* **Ingestion.** Batches, rollback, reconnection, the same lines sent again.
  Correct: evidence rests on stored observations, one alert for a flagged pair.
* **Anomaly detection.** Several operators answer one alert from what each read.
  Correct: no recorded answer is erased, and a lasting condition is not repeated.
* **Mode S decoder.** Modular arithmetic at borders, repair of a flipped bit.
  Correct: a computed place is where the frame was sent.
* **Safety corpus and agent.** Ingestion, synchronisation and questions as three
  processes over two stores, any of them cut short and begun again. Correct: the report of a synchronisation is true, a
  citation names a source that holds the cited text.
* **Live view.** Reconnection crossing with polling. Correct: an open page always
  has one way back to live data, and no interval stays behind.
* **Field study.** Long-running commands beside a person, over the same files, any
  of which may be killed. Correct: a manifest entry describes a file that does not
  change any more, and a report that passes was earned by the captures, the export
  and the review it names.

The hazards are listed one by one, at their lines, in `PROJECT.json`.

## 2. Modules

| Module | Models | Extends / uses |
|---|---|---|
| `SidecarRuntime` | the runtime: tasks, queue, health, subscribers, stop | |
| `MCSidecarRuntime` | its TLC instances | `SidecarRuntime` |
| `SidecarRuntime_proofs` | theorems about it | `SidecarRuntime`, TLAPS library |
| `EventLog` | what the store promises: a log losing only its old end | |
| `EventStore` | the store: segments, memory, crashes | |
| `MCEventStore` | its TLC instances and the refinement mapping | `EventStore`, `EventLog` |
| `EventStore_proofs` | theorems about it | `EventStore`, TLAPS library |
| `IntegrityEngine` | `ingest()` and its caches | |
| `IntegrityEngine_proofs` | theorems about it | `IntegrityEngine`, TLAPS library |
| `MCIntegrityEngine` | its TLC instances | `IntegrityEngine` |
| `EdgeStation` | the firmware: tasks, queue, connections, outbox | |
| `StationHealth` | `evaluate_station_health` | |
| `EdgeTelemetry` | station, bridge, broker, consumer and tables composed | `EdgeStation`, `StationHealth` |
| `EdgeTelemetry_proofs` | theorems about it | `EdgeTelemetry`, TLAPS library |
| `MCEdge` | its TLC instance | `EdgeTelemetry` |
| `ReplayController` | playback clock, commands, clients | |
| `ReplayController_proofs` | theorems about it | `ReplayController`, TLAPS library |
| `Accounts` | users, sessions, audit, rate limiter, browsers | |
| `TrustWorkflow` | assessments and operator actions | |
| `ExternalSource` | provider access and comparison | |
| `Kinematics` | both kinematic evaluators | |
| `LiveIngestion` | ingestion and what it writes | `Kinematics` |
| `AnomalyDetector` | detection loop and acknowledgement | |
| `ModeSDecoder` | checksum, CPR, decoder service | |
| `ModeSDecoder_proofs` | theorems about it | `ModeSDecoder`, TLAPS library |
| `SafetyCorpus` | ingestion and synchronisation of the corpus | |
| `SafetyAgent` | the research agent over that corpus | `SafetyCorpus` |
| `Safety_proofs` | theorems about both | `SafetyAgent`, TLAPS library |
| `LiveView` | WebSocket endpoint, hook, polling | |
| `FieldStudy` | captures, manifest, freeze, export, report | |
| `Services_proofs` | theorems about `TrustWorkflow`, `FieldStudy`, `ExternalSource`, `AnomalyDetector`, `Accounts`, `LiveIngestion`, `LiveView` | those modules, TLAPS library |
| `MCServices` | TLC instances of the components from `ReplayController` on | those modules |
| `MCDetectorRepeats` | a TLC instance of the detector alone | `AnomalyDetector` |

### 2.1 SidecarRuntime

An action is the code one asyncio task runs between two awaits that suspend it.
`process_line` awaits only `publish`, which contains no suspending await, so
taking a frame, evaluating it, storing its events and publishing them is a
single action (`ProcessLine`). The reader suspends in `open_connection`
(`reader = "connecting"`), `readline` (`"reading"`), `wait_closed` (`"closing"`)
and `sleep` (`"backoff"`); an action starts from one and ends in the next.
`"ended"` is a task that returned or was cancelled, `"failed"` one an exception
ended: `gather(..., return_exceptions=True)` looks at it only in `stop()`.

| Code | Model |
|---|---|
| `_read_loop` up to `readline` | `Connect`, `ConnectFails` |
| `readline` and `enqueue` | `ReceiveLine` with `Enqueue`; `OversizedLine` |
| end of stream, the `finally` block | `SourceCloses`, `FinishClose`, `ClosingRaises` |
| `sleep`, the delay | `BackoffEnds`, `NextDelay` |
| `_process_loop`, `process_line` | `ProcessLine` = `RejectFrame`, `ValidationRaises` or `EvaluateFrame` |
| `publish`, `subscribe`, the handler in `app.py` | `Publish`, `Subscribe`, `SendMessage`, `ClientLeaves`, `HandlerEnds` |
| `stop` | `Stop`, `ReaderCancelled`, `ProcessorCancelled`, `StopReturns` |

How a lost connection ends is a choice of the environment: an orderly end of the
stream (`"eof"`), after which `wait_closed` returns, or a reset (`"reset"`), after
which it raises what the connection was lost with. Cancellation inside
`wait_closed` leaves the `finally` block where it is, so the report after it is
skipped. Frames carry an aircraft, a source time and one of five shapes: refused
by the parser, with a full position, without one, with half a position, with a
value out of range. Two messages may each carry half a position: the merged
state, not the frame, is what the schema judges. The engine is reduced to the
number of events it returns and the store to whether an append raises; both have
modules of their own.

The frame counters are one variable each (`received`, `failures`, `parsed`,
`evaluated`, `dropped`); `received`, `taken`, `lost`, `sent`, `published` and
`faults` are history variables that no guard of the code depends on, other than
as bounds.

### 2.2 EventStore and EventLog

The store is called by one task, so nothing interleaves with it but the death of
the process. Each operation is split where a crash would leave a different
directory: reading one segment or renaming it, opening a segment, writing a
record, unlinking one file, updating the memory. A record is one unit long and
an event is its id; a torn line is a flag of the segment and takes room. Time
passes only between operations (`Tick`), on the scale of the retention.

`EventLog` is the abstract specification: add at the end an event that is not
among the newest `Window`, forget a prefix, or, once a file was damaged, lose a
block. The mapping takes the log to be what a restart would read (`Log`), and
`damaged` to be `corruptions > 0`. `known` is history: the log as the process read
it when it started, and every event it has stored since, what it has unlinked
included; `MemoryMatchesDisk` compares memory and directory with it.

### 2.3 IntegrityEngine

`ingest()` has no await and one caller: it is one action. Observations are
enumerated with their message, track, source time and what the pair, window and
latency rules find; the engine's own timing rules are computed. `dropped` and
`forgotten` are history: which tracks the last call dropped and which evidence
they had.

### 2.4 EdgeStation, StationHealth, EdgeTelemetry

The station's two tasks have one priority and are preempted, so each call to the
queue is an action: `Sample` (which reads the depth of the queue), then
`SendSample`, `Discard` and `SendAgain` for the three calls of `queue_latest`; `WaitForConnection`, `Receive`, `Enqueue` or
`EnqueueRejected` for the publisher. The event handlers are `WifiGotIp`,
`WifiLost`, `MqttConnected`, `MqttDisconnected`; the connected bit and what the
MQTT client believes are two variables, because a loss of Wi-Fi clears only the
first. The outbox keeps what is not acknowledged and is sent again from its start
(`sent`) on a new connection. A reset (`StationResets`) forgets all of it.

`EdgeTelemetry` composes the station with the rest of the path. The broker is
external, and what the model assumes of it is what the code relies on: QoS 1 both
ways, order within a session, a persistent session for the consumer, retained
presence, and the last will when a connection ends or is taken over. It keeps
everything for a consumer that is away, while the repository's broker keeps 1000
messages (`max_queued_messages`, edge/mosquitto/config/mosquitto.conf:21) and drops
what comes beyond: what is said of the path holds of absences that end before that,
with one station and a heartbeat every 15 seconds about four hours. A PUBACK
may be lost (`BrokerAccepts` keeps the message in the outbox), so heartbeats are
duplicated before the broker as well as after it. `Process` is `_on_message`: the
transaction and the acknowledgement, or the transaction and then the loss of the
process; `PersistenceFails` the branch that rolls back and disconnects;
`ConsumerStarts` the container started again, with everything not acknowledged
and the retained presence delivered. `RowWith` is what the three upserts do to
the record: they compare times of receipt, and every receipt is later than the
one before, so each message is taken, a heartbeat delivered again after a later
one too: the row goes back until the later one has come again as well, and
`RecordIsLatest` is about the end of that. Telemetry carries the time of the
station's clock, which may be ahead (`skew`), presence the time of receipt; so a
station that is lost right after a heartbeat stamped ahead is not `OFFLINE`.
`PresenceIsTrue` states this as the only exception, and it occurs in the run `Edge`,
whose settings include a clock that is ahead.
`StationHealth` is the decision in its order, with names for the reasons.

### 2.5 ReplayController

Commands are actions (`Pause`, `Resume`, `Restart`, `Seek`, `SetSpeed`), and so is
what a handler does between two waits: `Look` (a turn of `next_event`: it takes an
event, waits for one, completes the playback, or waits for a command),
`TimerFires` and `ResumeHandler` (the timer of `wait_for` and what the handler
does when it next runs are two steps; a command may come in between), `Send`.
`_changed.set()` is `Wake`. A client that left is noticed after the next send.

### 2.6 Accounts

A handler runs in one piece, because the database driver blocks the event loop;
only the bootstrap command is another process. Registration is therefore split
(`Register` or `Bootstrap`, which check, then `Insert`, which the unique
constraints may turn back), and the other operations are one action each.
Every one of them may have its answer lost (`answered`). `history` is the
limiter's list of an address, kept as a set: the code only filters and counts it,
and requests of one kind and tick are told apart by a number (`Request`).
`admitted` is a history variable, all requests that were let through.

### 2.7 TrustWorkflow

`BeginAssessment` reads what is stored up to the question to the external source,
`FinishAssessment` the rest: the evidence may have changed between. An
assessment is its content, as its id is. Operator actions are handled in threads:
`CheckAction`, `InsertAction`, `AfterConflict` are the three statements of
`create_operator_action`; `Confirm` may lose the answer, and the client asks
again with the same id.

### 2.8 ExternalSource

A request is `FromCache`, `RefusedBySource`, `WithoutPosition`, or `Ask`, which
suspends; its answer is `Fails`, `RateLimited` or `Succeeds`, recorded with the
time the request began at. Nothing bounds the time an answer takes: the client's
timeout of five seconds is one for each phase, and a request may be two, one of them
for a token; requests overlap, and what a late answer records may set the next
request and the circuit back. Observations are an age, a place on a line and an
altitude. `asked`, `refusals` and `trips` are history: when each request was sent,
how many answers had failed by then, and which requests were in flight whenever the
circuit was tripped.

`ProviderIsSpared` states what is left of the interval, backoff and circuit under
late answers: in a poll interval there is one request, and one more for each answer
in it that failed or was refused; and a tripped circuit holds every request back for
`CircuitOpen` from the beginning of the oldest request then in flight. It is not held
back from the trip itself, since the failure of an older request dates the circuit
from its own beginning (external_observations.py:279).

### 2.9 Kinematics, LiveIngestion

The evaluators are operators over integers: places on a line, tracks in one of
its two directions, rates compared after multiplication by the interval. Order
and status of every rule are the code's. `LiveIngestion` keeps the committed
tables (`db`), what the open session sees (`work`) and the memory; a message is
one action, `TakesMessage`, with its observation, both evaluations, the alert, the
aircraft row, the trail, and the commit if it is due. Where the code's query may
return any of several rows of one time, the model has all of them.

### 2.10 AnomalyDetector

`Turn` is a turn of `detection_loop`: read, check, remember, save, and commit or
fail. The endpoint is split where another operator's request can come between:
`ReadsAlert`, then `Acknowledge` (`AcknowledgeFails` if the transaction does). The
session writes only the columns whose value differs from the one it read (`Written`),
so a second answer keeps the time of the first unless it had read the alert as
unresolved. The three emergency codes are remembered apart, as in the code. `IsSeen`
stands for the ingestion service.

### 2.11 ModeSDecoder

The checksum is linear, so a received message is known by the set of bits the
radio flipped; `Remainder` is the polynomial division, `Repaired` the first
single flip that makes it valid. CPR is exact in the units of the latitude circle
(60 * 59 cells), which replaces the code's floating point; `Cells` is 2^17 in the
code. The transponder (`Encoded`) and the client that pairs the frames are the
environment: the client pairs frames at most `MaxApart` steps apart, and follows a
frame only from a place within 180 NM of it (`Near`), which `decode_cpr_local` asks
for (cpr.cpp:153) and cannot check by itself; an aircraft does not fly over a pole, and
is slow enough for its zones (`SlowNorth`, `SlowEast`).
The service serves one connection at a time.

### 2.12 SafetyCorpus, SafetyAgent

Ingestion is a fetch with retries and one transaction. The synchronisation script
is split where another process can come between: its count, its two reads, each
row (with the former documents of an incident deleted at once and the new ones
waiting in a batch), the two flushes at the end, the comparison. `FinishSync`
replaces the report; a run that ends early leaves the former one. `fresh` is history:
the last run did not end early, and no row has changed since it began. The agent's
loop alternates a message of the model and its tool calls; what the model says, and
which calls it makes, is a free choice. `Extracted` is `extract_grounded_citations`;
it goes by labels, and dated versions of a section share theirs (`Reference`).

### 2.13 LiveView

The endpoint's loop is `Accepts`, `Sends`, `EndpointFails`; the hook's callbacks
are `Opened`, `MessageArrives`, `Closed`, `Reconnects`, `Polls`, `Answered`; a
constructor that throws, at the first connection (`PageOpens`) or a later one
(`Reconnects`), falls back to polling. A request is read by the server at one time
(`Reads`) and answered at another, so that answers arrive in any order.

### 2.14 FieldStudy

A capture is a process that loads the manifest (`BeginsCapture`), creates its file
with `O_EXCL` (`OpensFile`), writes lines through outages (`ReachesSource`,
`WritesLine`, `LosesSource`), ends (`CaptureEnds`) and writes the manifest back as
it was at the start with one entry more (`RecordsCapture`); it may be killed
between any two of these (`CommandDies`). What a person does with the files
(`MarksUsable`, `NotesHoldoutViewed`, `ReviewsEpisode`, `ChangesPolicy`) is external.
`Freezes` is the freeze script, `WritesExport`, `PublishesExport` and
`RefusesExport` are `sanitize_capture`, split where its death leaves other files,
`BuildsReport` is `build_report`. Checksums are contents, days are one early day and
the holdout, and `frozen` says whether the freeze manifest is of the policy file as
it is, all that the report asks of it.

### 2.15 MCServices

The components of 2.5 to 2.14 share no variable, but for the agent, which reads the
corpus: through the database they see each other's rows, and the modules take those rows as free inputs.
`MCServices` checks them in one run: `service` names the component that runs in a behaviour,
the others rest. The state space is the sum of theirs, not the product. The corpus
runs twice: alone from the beginning (`"corpus"`), and with the agent from the state
that two ingestions and two runs of the script leave (`"agent"`, `IndexedCorpus`).

## 3. Runs

Bounds appear as constants with the prefix `Max` and in the sizes of the sets;
each is named in its module.

| Run | Question | States | What it shows |
|---|---|---|---|
| `SidecarSafety` | accounting, order, health, cache | 2.2 million | hold over every interleaving of two tasks, `stop()`, two faults, three frames of every shape, a queue of two and a cache of one |
| `SidecarLiveness` | what a client sees; taking frames, reconnecting, stopping | 120 000 | no gap, with a queue of two that overflows between and within frames; the liveness properties under the fairness below |
| `SidecarReconnect` | "automatic recovery" | violated | a reset connection ends the reader task |
| `SidecarSilentLoss` | "never treats a silent drop as success" | violated | a frame the schema refuses ends the processor, and neither a failure nor a drop is counted |
| `Store` | memory, suppression, segments, size; does it implement `EventLog`; does it start again | 400 000 | yes, through two crashes at any step, one damaged file and two ticks |
| `StoreRetention` | "maximum event age" | violated | a segment's age is that of its newest record, and the open one is exempt |
| `Engine` | caches and snapshots; expiry, states, events | 270 000 | hold with three tracks, room for two, and every order of times |
| `EnginePurge` | "only after all active evidence has expired" | violated | another aircraft's clock purges the evidence |
| `EngineEventState` | the same sentence, for events | violated | a closing event says `NOMINAL` while other evidence is active |
| `Edge` | does a station's health arrive, in the end and unaltered, and is what is reported true | 350 000 | six settings of losses, resets, failures and clocks, see below |
| `Services` | one safety question or two of each of ten components, next table | 1.6 million | hold over every behaviour within the bounds |
| `DetectorRepeats` | "Track recent anomalies to avoid duplicates" | violated | each turn has a detector of its own, which remembers nothing |

What `Services` checks:

| Component | Property | What could go wrong |
|---|---|---|
| Replay | `ReplayKeepsTime` | a seek, a change of speed or a second handler lets an event out early (`EventsAreDue`); the handler that waits out the loop delay forgets why it waits (`LoopIsPending`) |
| Accounts | `AuditIsComplete` | bootstrap and registration both insert, or an audit record without its row |
| | `LimitsHold` | the window forgets an entry a tick early, a kind counts against the wrong limit |
| Trust | `ActionsAreRecordedOnce` | crossed or repeated requests; a confirmation of someone else's action |
| External source | `ProviderIsSpared` | a late answer that shortens the interval or the circuit by more than its own age; concurrent failures that never open the circuit |
| Ingestion | `EvidenceIsBacked` | a rollback that takes only part of what belongs together |
| Detection | `AcknowledgementsStand` | two operators answer one alert, and the second writes back what it read before the first: an acknowledged alert without its time, or a verdict nobody gave |
| Decoder | `FixesAreTrue` | a place a zone away, at the equator, the date line or a step of `calc_nl`, or from a wrong repair |
| Corpus | `ReportIsTrue` | "passed" of an index that lost a batch or keeps what a run cut short has left, or a run that leaves documents of an earlier one |
| Agent | `CitationsAreGrounded` | a citation that names a run whose content has no such text |
| Live view | `ViewHasASource` | two attempts at once, none at all, or an interval nobody stops |
| Field study | `FieldStudyIsSound` | two commands in one file, an entry of a file that changed, a report that passes on another export's review or on an export that was refused |

`LoopIsPending` is stated of a loop that no command disturbs. With a command in
the delay it fails: `next_event` forgets that it was waiting for the loop and then
waits without a timeout (controller.py:140), until the next command.

Why the bounds are enough. A queue, a cache and a duplicate window of one or two
reach empty, filling, full and overflowing; three frames are enough for one being
processed, one queued and one dropped; two faults let a reconnection fail and a
second connection end. Two messages in a subscriber's queue let it overflow in
the middle of one frame's publications. In the store, segments of two records and
a bound of three records make rotation, expiry and eviction happen with three
events, and a second crash falls into the recovery from the first; `StartsAgain`
names the bound on segment numbers, at which the model stops. In the engine, five
source times around a time to live of two place an observation before, at
and after every deadline.

`Edge` runs six settings (`MCInstances`), each with room for another combination:
a queue of one that overflows with every single loss; a reset between two
samples; the bridge, with heartbeats that outlive the limit of freshness; two
losses with a failing consumer; a clock that is ahead; a firmware whose messages
the schema refuses. A queue of one reaches the branch of `queue_latest` that the
publisher races with. The settings are separate because their product is out of
reach; a fault needs no second fault to be seen, except that a lost PUBACK and a
failing consumer duplicate the same message, which the fourth has.

`Services`: two clients, two speeds and two events of one time at the end, so that
a seek lands between, and the end is reached with a wait pending; one name or
mail of two that two writers want; a window of two ticks in a clock of three; two
operators who want one id; two flights over a threshold of two failures; reports
that agree, are too far, late, or invalid; a failed turn between two good ones, and
two answers to one alert; places within a hundredth of a degree of the borders; two
connections so that one lingers while the next opens; two capture commands that may
choose one path, files of two lines and two exports, so that a report can be of the
one before.
`ProviderIsSpared` counts every request of five ticks over a poll interval of two and
a circuit open for three, with answers at any time, so that a request of the first
tick may be answered after everything else.

For the corpus: two exports, of which the later leaves one incident without a text and
shortens the other, with a duplicate and an invalid record; two dated versions of one
section; a row from before runs were recorded; a batch of two with documents of three
rows; three ingestions and three runs of the script, so that a run finds what those
before have left: a batch that was flushed, former documents deleted and not replaced,
documents of rows that ingestion has changed since, or a report. For the agent: two
tool calls with a third refused by the iteration limit, over an indexed corpus of which
one more ingestion and one more run replace rows and documents between the calls, or
between the calls and the answer.

`Cells` is 512 and not 131072 (TLC's integers have 32 bits): the
zones, where the decisions are made, are the code's own, only the cells are coarser,
and `FixesAreTrue` is stated in cells.

The runs set `CHECK_DEADLOCK FALSE`: the runtime really stops after `stop()`
returned, and the others at their bounds.

Fairness (`FairSpec`). The event loop runs a task that is ready, hence weak
fairness on the reader's and the processor's next step and on a handler that has
a message; an attempt to connect ends one way or the other, and so does closing.
Nothing is assumed of the source, which may stay silent, of the clients, or of
the operator who calls `stop()`. For the store, one step of the process is
always taken if one is possible: the supervisor restarts it, and crashes are
finitely many. For the edge path (`EdgeFairness`), the consumer processes what it
is given and comes back when it is down: paho's loop calls `_on_message`, and the
container has `restart: unless-stopped` (docker-compose.edge.yml:31); nothing is
assumed of the station. `DeliveredInTheEnd` needs that a failure is not permanent
(`setting.failures` is a bound): a message the database can never store is not
rejected but delivered again for ever, ahead of all others (consumer.py:117).
The other components promise nothing in the end that their code alone could
keep: they wait for requests, or for a source.

## 4. Proofs

Each theorem has the form `Spec => []Inv`, or `Spec => [][A]_vars` for the two
action properties, for the specification without fairness, and for every value of
the constants that satisfies the named assumptions of its module. The bounds that
keep TLC's instances small (names with `Max` that bound clocks, files, faults) are
arbitrary in the proofs. An inductive invariant, where the property is not one
itself, is proved in three steps: it holds at the start, every action keeps it, and
it implies the property.

`SidecarRuntime_proofs`, every safety invariant of the runtime the runs check
(`ConstantsAssumption`: addresses and times are naturals; limits are positive, as
the configuration and the policy require; shapes and ways to lose a connection are
the listed ones):

| Theorem | Property | Inductive invariant |
|---|---|---|
| `TypeCorrect` | `TypeOK` | itself |
| `AccountCorrect` | `FramesAccounted` | with `TypeOK` |
| `HealthCorrect` | `HealthMatchesConnection` | with `TypeOK` |
| `ArrivalCorrect` | `ArrivalOrder` | `ArrivalInv`: also `taken <= received`, without which an empty queue would allow a new frame with an old number |
| `StreamCorrect` | `StreamHasNoGaps` | with `TypeOK` |
| `CacheBounded` | `StatesBounded` | `BoundInv`: also that the cached aircraft are finitely many |

What a subscriber gets of one `publish()` continues its numbers, and only who got
all of it stays registered (`PublishLeavesNoGap`). One merge adds at most one
aircraft, and the oldest of a nonempty set exists (`LeastNumber`), so the eviction
after it always finds one.

`EventStore_proofs`, for any number of segments, crashes and damaged files:

| Theorem | Property | Inductive invariant |
|---|---|---|
| `TypeCorrect` | `TypeOK` | `TypeInv`: also what each place of the process implies for `sequence`, `current` and `pending` |
| `SegmentCorrect` | `OpenSegmentIsWhole` | `SegmentInv`: also that every number in the directory is below `sequence`, so a segment opened was not there before, and that a record about to be written fits |
| `SuppressionCorrect` | `SuppressesOnlyKnown` | `MemoryInv`: also that, once the process serves, the ids are kept in the order of the memory itself, within `Window` |
| `WindowCorrect` | `WindowIsExact` | `StoreInv`, below |
| `MemoryCorrect` | `MemoryMatchesDisk` | `KnownInv`, with those before: the log is the end of what is known, and the memory the newest part of it, with the event in hand once it is written |
| `SizeCorrect` | `SizeBound` | the same |
| `StoreImplementsLog` | `ImplementsEventLog` | the same, of the state before each step |

The number of a new segment is above all others because the highest of a
nonempty set exists (`HighestIsTop`) and nothing but the process itself opens
segments; `enforce_bounds` never takes the open one. The id that leaves the set
is the one that leaves the deque (`RememberKeepsWindow`).

`StoreInv` says of every place of the process how memory and directory agree.
`DirectoryInv`: segments that are absent are empty, and of two segments the later
number was not written earlier, so expiry takes a prefix. `LogInv`: while it
recovers, the process remembers the newest part of the segments read so far; while
it serves, the last `Window` events of the log are the last of the memory (which
holds older ones once `enforce_bounds` took their segments); between the write of
a record and the update of the memory, this is so of the memory *with* the record.
`DistinctInv`: unless a file was damaged, no id is twice in the log or the memory.
`BoundInv`: the size is within the bound once `enforce_bounds` is done. The
invariant was checked by TLC on the instance of `Store` before it was proved.

The log and the size of the directory are recursive functions over the segment
numbers. That such a function satisfies its equation is proved too: a function
that does is built number by number (`LogExists`, `TotalExists`, by `Upwards`,
induction as the absence of a least counterexample), and the definition chooses
one (`UpToIs`). From this follow what a change of one segment does to the whole
(`LogSplit`, `LogChanges`), and hence the steps of the refinement: an append
(`WriteAppends`, `FreshMayBeAdded`), the oldest segment forgotten
(`UnlinkForgets`, `CutForgets`), a block lost to damage (`BlockLost`).

`IntegrityEngine_proofs`, whatever the evaluators find and in any order of source
times (`ConstantsAssumption`: limits and intervals are naturals, the caches hold at
least one entry):

| Theorem | Property | Inductive invariant |
|---|---|---|
| `TypesCorrect` | `TypeOK` | `EngineInv`, below |
| `SnapshotsCorrect` | `SnapshotsMatchTracks` | `CacheInv`: finitely many tracks within the limit, each with a window that has its ids, no evidence expired at its own time, and a snapshot that is its own |
| `ExpiryCorrect` | `NoExpiredEvidence` | the same |
| `WindowCorrect` | `SeenIsTheWindow` | the same |
| `RecoveryCorrect` | `QuestionableUntilExpired` (action property) | from `EngineInv` of the state before |
| `EventsCorrect` | `ChangesAreAnnounced` (action property) | from `EngineInv` of the state before |

Purge and eviction happen before the observation is added: the argument that the
cache stays within its limit is that the oldest track of a nonempty finite set
exists, and the one for the window that a deque with a maximum keeps its newest
part (`NewestFacts`). `EngineInv` adds the types of the history.

`EdgeTelemetry_proofs`, for every queue, backoff, setting of the station and number
of failures, broker and consumer as assumed in 2.4 (`StationAssumption`,
`HealthPolicyAssumption`):

| Theorem | Property | Inductive invariant |
|---|---|---|
| `AcceptedCorrect` | `AcceptedIsKept` | `EdgeTypes` and `KeptInv`: also that telemetry is accepted only under the contract the consumer validates |
| `LatestCorrect` | `RecordIsLatest` | `LatestInv`: the newest sample is in the record and no heartbeat waits, or the last heartbeat that waits is it |
| `HealthCorrect` | `ReportedHealthIsTrue` | `PresenceInv`: a session that is down has left a last will that is stored or waits behind everything the station sent; one that is up has its birth to come, waiting or stored |

What waits is delivered in order and stored before it is acknowledged, so each
invariant is a statement about the last message of a kind in the queue; a repeated
delivery puts the queue back as it was, which it survives. That a report HEALTHY
is recent, and that a lost station that is not `OFFLINE` has a stamp ahead by no more
than its clock, need in addition that a heartbeat is never later than the clock of the
station (`HeartbeatIsPast`).

`ReplayController_proofs`:

| Theorem | Property | Inductive invariant |
|---|---|---|
| `TimeCorrect` | `ReplayKeepsTime` | with `ReplayTypes`: also the types, with the clock never behind the anchor, and that the playhead stops at the end of the recording; a seek puts the index at the events before its place (`RecordingAssumption`: the offsets are in order, as the loader requires) |

`Safety_proofs` (`CorpusAssumption`: incidents and sections have different numbers,
the batch size is positive, as the script requires, a run has an identifier, and a
valid section has a text; `AgentAssumption`: the limit on results is a natural):

| Theorem | Property | Inductive invariant |
|---|---|---|
| `ReportCorrect` | `ReportIsTrue` | `CorpusInv`: `HoldingInv`, `SyncInv` and the property |
| `CitationsCorrect` | `CitationsAreGrounded` | `SafetyInv`: `HoldingInv`, and `AgentInv`: what the calls returned is held, and there is no answer while the agent asks |

`HoldingInv` is about where texts come from: rows, rows the script has still to
index, entries of a batch and of the vector store are of a recorded run whose
source has them, and a row that has a run keeps one. `SyncInv` is about the script
between two statements, as long as no ingestion has changed a row under it: what it
expects are the entries of the rows it has taken so far; each of them is in the
store or waits in a batch, and what the store still holds of such a row is right
or will be overwritten by what waits. It asks nothing of what the store held when the
run began, so it follows runs cut short as well. Without the last part an incident
whose former documents are deleted at once, and whose new ones come with a later
batch, could not be followed to the comparison at the end. A batch is cut at its size
(`BatchCut`), and the last flush empties it (`FlushAll`); the concatenation of the
results of an agent's calls holds what the results hold (`FlattenIs`, a recursive
function treated like the store's).

`Services_proofs`:

| Theorem | Property | Inductive invariant |
|---|---|---|
| `ActionsCorrect` | `ActionsAreRecordedOnce` | `AuditInv`: also that the audits are a bag and that whatever an audit calls inserted is stored, without which an insertion could find its audit already there |
| `FieldStudyCorrect` | `FieldStudyIsSound` | `FieldInv`: of every copy of the manifest, also those that running commands have loaded, each entry names a file with that content and no writer; an open file has one command, which knows its content; the public manifest describes this export, verified, or an earlier one; the report is of captures and reviews that still stand |
| `SparedCorrect` | `ProviderIsSpared` | `SpareInv`: the next request is a poll interval after the last one, or an answer has failed since; whoever trips the circuit keeps it open from the oldest request in flight, and no request in flight is older than that |
| `AcknowledgedCorrect` | `AcknowledgementsStand` | `DetectorInv`: an alert is known by what it flags and when; a request that read an answered alert has a recorded answer before it, and what one read as resolved is never unresolved again |
| `AuditCorrect` | `AuditIsComplete` | `AccountsInv`: an event is in the trail exactly once if its account, session or revocation exists, and not at all otherwise |
| `LimitsCorrect` | `LimitsHold` | `LimiterInv`: the list of an address is of its requests and has every one of the last minute; of each kind no more than its limit are in the last minute, and in any minute |
| `EvidenceCorrect` | `EvidenceIsBacked` | `IngestInv`: the same of the committed tables and of those the open session sees |
| `ViewCorrect` | `ViewHasASource` | `PageInv`: also that an accepted connection is one the page holds and that a closed page waits for nothing (`DelayAssumption`: the longest delay is above the first) |

A request that the limiter lets through is a new one (`LetThrough`), so the counts
of its kind rise by one, from below the limit; when time passes they only fall
(`TimePasses`); a minute that is over keeps its requests.
`SourceAssumption` and `VerdictAssumption` say that intervals, thresholds and verdicts
are numbers, and that a refusal asks for some time; how long the provider takes is not
assumed. `AccountsAssumption` and `PolicyAssumption` say that lengths are numbers.
`FieldStudy`, `TrustWorkflow` and `LiveIngestion` need nothing else of their constants.

`ModeSDecoder_proofs` (`DecoderAssumption`: a zone has 512 cells or more, aircraft
start off the poles, what one moves between two frames that are paired is small
enough to tell zones apart, and what the channel does to a message is detected, with
or without a repair, unless the position is intact):

| Theorem | Property | Inductive invariant |
|---|---|---|
| `FixesCorrect` | `FixesAreTrue` | `DecoderInv`: the fixes are true; a frame the client holds encodes the place it was sent from; and from there the aircraft has flown straight on, which says how far apart two frames are |

Between two frames that are paired, ten seconds at most, an aircraft must move less
than half of what tells two zones apart, less a few cells (`SlowNorth`, `SlowEast`).
With the code's 2^17 cells that is 0.05 degrees of latitude, or 1080 knots, and as
many of longitude at the equator; towards the poles there are fewer zones, and the
bound on the speed over ground grows. The assumption about the
channel holds of every set of up to four flipped bits, as two valid messages differ in
six bits or more; TLC evaluates it for the flips of its instance. `LatitudesFrom`
and `ZoneOfPair` show that the zones computed from two frames are the aircraft's own:
what is rounded to a whole number differs from it by less than a half, as the
aircraft is slow and both frames are rounded to half a cell. `GlobalIsTrue` adds that
with equal zones of longitude (`SameZones`) a longitude is off by less than a cell,
`LocalIsTrue` the same for one frame and a place near it. Of `calc_nl` they need only
that it is between 1 and 59 and the same on both sides, so they hold for any table of
transitions.

Model-checked only:

* all liveness (`FramesAreTaken`, `OrderlyEndReconnects`, `StopCompletes`,
  `StartsAgain`, `DeliveredInTheEnd`): `FairSpec`, `EdgeFairness` and ENABLED are
  beyond the prover;
* the properties that the code violates (section 3): TLC shows the behaviour.

## 5. Observations

Beside the findings that a run shows (`PROJECT.json`), reading the code for the
models showed the following, of which no property speaks:

* A report of the synchronisation that passed stays in place when a later run dies
  between deleting the documents of an incident and indexing its new ones
  (sync_safety_vectorstore.py:120, 199): index and report disagree until a run ends.
* A station's row goes back when older heartbeats are delivered again
  (station_persistence.py:114), until the newest has been delivered again too.
* The failure of an older request sets the end of an open circuit back, to what its
  own beginning gives (external_observations.py:279); and a snapshot is judged at the
  time its request began, so what a slow provider observed since then may be `STALE`.
* While a request is forbidden, the cached answer is returned as available whatever its
  age (external_observations.py:150): if it was empty, an aircraft is `LOCAL_ONLY`
  during the outage, although "provider failure must remain `UNAVAILABLE`, never
  `LOCAL_ONLY`" (docs/corroboration-evaluation-v1.md:43).
* A station whose clock is ahead, by no more than the two seconds the evaluation
  tolerates, and which is lost right after a heartbeat, is `HEALTHY`, then `STALE`, and
  never `OFFLINE`, as its stamp is later than the receipt of the last will
  (station_health.py:100), although `OFFLINE` is said to mean that the last will is
  newer than telemetry (docs/station-health-evaluation-v1.md:18).
* `queue_latest` (main.c:101) drops the oldest record also when the publisher has
  emptied the queue between its two calls, and loses the new one when the
  publisher has put one back: the queue need not be full for a loss.
* The handler of a sidecar subscriber that was cut off waits for a queue nobody
  fills (app.py:108).
* A new segment may take the number of a quarantined one (store.py:86).
* The decoder's service waits for the bytes of a client without a timeout
  (server.cpp:134); while it does, neither another client nor a request to stop is
  noticed.
* A malformed body is counted as a checksum failure (server.cpp:216), while the
  help text of the other counter claims malformed input (server.cpp:301).
* An incident whose text a later export removes keeps its documents in the index:
  the script skips it, and its report then fails until somebody deletes them.
* A REST answer that failed is shown as an empty list, also over the data of a
  connection that has opened meanwhile (useWebSocket.ts:25, 50).
* A capture command writes the manifest back as it loaded it up to a day before
  (capture.py:287): an entry of another command, a mark that a capture is usable and
  the note that day 7 was viewed are lost, although each attempt is said to have a
  distinct entry (docs/BENIGN_FIELD_EVALUATION.md:20). The entries that remain are
  true (`EntriesMatchFiles`).
* A report can be made of an export that was never verified, as long as no public
  manifest exists beside it (episodes.py:75); `PassedIsEarned` says so.
* A freeze can be repeated until the holdout was noted as viewed.
* An assessment whose content returns to an earlier one is that earlier row: the
  list shows the one between as the latest (trust_persistence.py:41).

## 6. What is left out, and the plan

Left out on purpose:

* the broker's limit of queued messages (2.4);
* the text of frames and of JSON, logging, expositions of metrics other than
  their counters, `pilot_summary` and reads over HTTP that change no state;
* segment numbers beyond eight digits; events without an id, which the sidecar
  never makes; floating-point rounding of the evaluators and of CPR;
* what a language model answers, the daily summary, tracing;
* the origin check and password hashing (no state), rendering, and a hook that no
  view uses (`useAircraft.ts`);
* the unmounting of `useWebSocket` without leaving the page (useWebSocket.ts:133):
  only the root component uses it (its development build mounts twice);
* offline evaluation, reports and scripts: sequential batch programs over files;
* schema declarations: their constraints appear where the code relies on them.

Not yet modelled, though it could be:

* runtime, engine and store composed: stored events against active evidence after
  a crash, event ids used twice (engine.py:276), merged fields that outlive their
  track (service.py:152);
* the fields of the decoder other than positions, and its command line;
* the tools of the agent that only compute statistics.

Every safety invariant, action property and refinement that a passing run checks
is proved (section 4).
