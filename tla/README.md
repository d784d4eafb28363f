# TwinVolt: a specification of the server's core

TwinVolt is a Python server that keeps *digital twins* of battery packs: it
takes telemetry from edge gateways, an Arduino, a synthetic generator, REST
requests and WebSocket clients, steps a battery model and a state estimator with
it, diagnoses the pack, stores what it saw, streams the result to dashboards,
replays drive cycles, predicts the remaining life and benchmarks its twins.
These TLA+ modules model the parts of it in which order, overlap, failure,
boundaries and long sequences of calls matter; TLC checks them on small
instances and TLAPS proves the main safety properties of ten of them, the gateway,
the Arduino, the feeds, the live stream, the twin, the repositories, the engines, the
replays, the prognosis and the benchmark, for every value of the constants.

The repository stands in `src/`, beside this directory: `src/src/...` is the Python
package, `src/docs/...` its documents. Shorter paths, such as `gateway/manager.py`,
are relative to the package.

## 1. Inventory

One fact shapes everything: the server is **one asyncio event loop**. A piece of
code without an `await` runs whole. Every route that touches a twin is `async`,
`ingest_raw` and everything below it is synchronous, so a twin's step is never
interleaved with another; what *is* interleaved is the code around the awaits:
listeners, workers, `start`/`stop`, sessions, broadcasts. Only the Arduino
transport uses threads (one executor thread per transport).

| Component | State | Operations | Hard behaviour | What makes it correct |
|---|---|---|---|---|
| Edge gateway daemon (`gateway/manager.py`) | sources, queue, tasks, `_running`, counters, lifecycle events | `start`, `stop`, `register_source`, `unregister_source`; listener and worker loops | `stop` against blocked puts, overflow policies, restart with a full queue, a `start` that raises | counters account for every frame; per-source order, at most once; `stop` ends and leaves nothing; losses announced |
| Transports (`gateway/{tcp,udp,serial,can}_source.py`) | `SourceState`, socket | `start`, `stop`, `read_frame`, `_reconnect` | loss inside a read, cancellation | reported state is true |
| Arduino gateway (`gateway/arduino/`) | `_state`, `_running`, transport, listener task, executor thread | `connect`, `disconnect`, listener loop | overlapping requests; cancelled awaits whose thread call goes on | no leaked port, one reader, losses lead to reopening |
| Mock generator (`services/mock_service.py`) | `_is_running`, `_task`, config | `start`, `stop`, `configure`, generation loop | a `start` inside the await of a `stop` | running means generating; stopped ends |
| Feeds of one twin | what stepped a twin last | `ingest_raw` from each feed | two feeds name one system | mock data does not overwrite real states |
| Live stream (`api/websocket/`) | connections, two subscription indexes | connect, subscribe, ingest, broadcast, bridge, disconnect | clients leave and return during a broadcast; two broadcasts per step | indexes agree; followers catch up |
| Twin service and runtime (`services/twin_service.py`, `runtime/`) | registry, instance, model, estimator, report list, flags of published events | create, initialize, step, reset, delete, queries | steps that fail half-way; state outliving resets | views of the diagnosis agree; alerts mark entries; model and estimator in lockstep |
| Telemetry ingestion (`ingestion/`) | last timestamp per name | adapt, validate, `ingest_raw`, `ingest_snapshot`, `ingest_batch` | validator outlives the twin; a payload may name another system than it is addressed to | accepted telemetry is steppable |
| In-memory repositories (`storage/memory_repository.py`) | sorted bounded lists | `append`, queries | late records, eviction | history in order |
| File repositories (`storage/file_repository.py`) | JSON-lines files, offset index | `append`, queries, `clear`, reopening | crash, torn line, out-of-order index, shared files | what was appended is found |
| Event bus (`events/`) | subscribers, metrics | `subscribe`, `publish` | handler failures | handlers isolated |
| Anomaly detector (`runtime/anomaly_detector.py`) | bias window, last temperature | `detect`, `reset` | thresholds, gaps in the residuals | what exceeds a threshold is reported |
| Calibration (`calibration/`) | excitation window, regressors, parameters, guard | `process_step`, `reset` | early returns that keep old regressors, gaps | an update pairs neighbouring samples |
| Validation engine (`validation/`) | open window, flags, verdicts, shadow run | `process_step`, `reset` | gaps inside a window, sealing in mid-step | a judged window is whole |
| Diagnostics engine (`diagnostics/`) | context classifier, persistence counters, lifecycle | `evaluate_step`, `reset` | debounce and hysteresis over long alternations; gates on other engines' reports | no fault without its debounce; gates hold |
| Prognostics (`prognostics/`) | none between calls | extract, estimate, evaluate, decide, limit | late and unordered records, cutoffs, ties, values at a threshold, one criterion that raises | causal, deterministic, self-consistent |
| Replay (`replay/`, `services/replay_service.py`) | last result | generate, resample, replay | steps the live twin; failures in the middle | a result is one run of the twin |
| Benchmarking (`benchmarking/`, `services/benchmark_service.py`) | datasets, results by id, per system and over all | register, run, reset, list | unordered observation times, edges of buckets, pruning | each answer meets its nearest measurement; lists can be fetched |
| Models, estimators, analytics | floating-point state | numerical | precision | numerical bounds |
| Dataset Lab (`services/dataset_lab.py`) | uploaded tables | parse, profile, list | none | conversions are faithful |
| HTTP API and lifespan (`api/`) | the services it owns | routes, startup, shutdown | order of startup and shutdown | health tells the truth |
| Packs, seeder, domain, schemas | immutable descriptions | validation | none | conversions are faithful |
| Browser dashboard (`ui/`) | last telemetry per source, socket | select source, reconnect | late messages, reconnects | best source shown |
| Firmware workspace (`api/routes/firmware.py`) | files on disk | list, save, verify, flash | none of the server's state | tool results reported |
| Frame parser, telemetry snapshots | immutable values | parse, validate | none | faithful conversion |
| Firmware (`src/firmware/`) | none shared | sends frames | device side | protocol |

How they interact: sources -> queue -> workers -> `TelemetryIngestService.ingest_raw`
-> `TwinApplicationService.step_twin` -> `DigitalTwinInstance.step`, which runs
synchronizer, detector, calibration, validation and diagnostics in this order ->
repositories and event bus -> `websocket_event_bridge` -> broadcasts. The Arduino
listener, the mock generator, REST handlers and WebSocket sessions enter at
`ingest_raw`, `ingest_snapshot` or `step_twin`. Replays step the same instance,
past the service. Prognosis reads the state history; benchmarks step a copy of a
twin. `PROJECT.json` lists each component with its status and every hazard at
its line with the properties aimed at it.

## 2. Modules

| Module | What it models |
|---|---|
| `FrameChannel` | *abstract*: an ordered, lossy, at-most-once channel |
| `GatewayDaemon` | the gateway daemon; implements `FrameChannel` |
| `ArduinoGateway` | connection manager, listener tasks, transports and their threads |
| `MockTelemetry` | the mock generator |
| `TwinFeeds` | `ArduinoGateway` and `MockTelemetry` stepping shared twins |
| `Subscribers` | *abstract*: which registered client follows which twin |
| `LiveStream` | connection manager, sessions, event bridge, broadcasts; implements `Subscribers` |
| `DigitalTwin` | service entry, instance, synchronizer, report list, validator, in-memory repositories |
| `TimeIndex`, `Repositories` | bisected time indexes; the file and in-memory repositories, with failing writes, kills and restarts |
| `Selection` | parts and stable sorts of sequences, by the places of their elements |
| `Observation` | what a step hands to the engines |
| `AnomalyDetector`, `Calibration`, `Validation`, `Diagnostics` | one engine each |
| `Engines` | the four engines as one step of an instance runs them, and the events it publishes |
| `Fractions` | exact fractions, in which floating-point results are compared |
| `Trajectory`, `Features`, `RulEstimation`, `RulUncertainty`, `Evaluation`, `Limiting` | the stages of a prognosis |
| `Prognosis` | the pipeline that composes them, fed record by record |
| `Profiles`, `Tracking` | drive-cycle profiles and tracking metrics |
| `Replay` | replays into the live twin of `DigitalTwin` |
| `Alignment`, `Scoring` | how a benchmark pairs and scores |
| `Benchmark` | the benchmark service and its stores |
| `GatewayDaemonProof`, `FeedsAndStreamProof` (the Arduino, both feeds, the live stream), `RepositoriesProof`, `EnginesProof`, `ReplayProof` (the twin's too), `PrognosisProof`, `BenchmarkProof` | the theorems about each |
| `FractionsProof` | lemmas about numbers, sums and fractions that the last three share |
| `MC*` | instances for TLC; `ArduinoGateway`, `LiveStream` and `DigitalTwin` need none and are run as they are |

Before some operations stands a *faulty variant* of it, a plausible bug that a property must tell
from the code (paired in `PROJECT.json` under `mutants`); nothing in the
specifications uses these variants.

### State and actions against the code

**GatewayDaemon.** An action is the code between two suspension points. A
listener's control state names its await (`reading`, `reconnecting`, `idle` in
`sleep(0.01)`, `putting` on a full queue, `erring` in `sleep(0.5)`); a worker only
ever suspends in `queue.get()`, so one `Dispatch` is a get with the ingestion and
the counters. `Start`, `SourceStarted` and `SourceStartRaises` are the loop of
`start()`; `Stop`, `ListenerCancelled`, `ListenersJoined`, `SourceStopped`,
`WorkersCancelled` the phases of `stop()`. `FrameArrives` is a read that returns
with the put of all three policies; `LinkLost`, `Reconnected` and `ReadRaises`
are the other ends of a read. `LinkEvent` is the listener's comparison of the
source's state with the one it saw last, `announced` the lifecycle event it made of it.
The host calls `start()` and `stop()` one at a time, as `api/lifespan.py` does,
and registers sources in between. The four built-in transports never raise; a
transport supplied by the host may (constant `Raising`).

**ArduinoGateway.** The k-th `connect()` makes transport k and perhaps listener
k. `jobs[t]` is the executor queue of transport t, its head the blocking call
in progress: a cancelled await takes a queued call back but not the one in
progress, which goes on with nobody waiting. `Connect`, `Disconnect`,
`ListenerJoined` are the callers; `ListenerWakes`, `TryReopen`, `ListenerEnds`
the listener; `OpenReturns`, `ReadReturns`, `CloseReturns` the thread with
whoever waits for it. The frame parser is a choice of results.

**MockTelemetry, TwinFeeds.** The generator tasks and the one await of `stop()`.
`TwinFeeds` interleaves both feeds; `fed[y]` is the source mode of the record
that stepped twin y last.

**LiveStream.** A session's control state names the message it is sending, or
`receiving`. The manager's lock guards sections without an await and is never
contended. `StepTwin` increments the twin's version and schedules one bridged
broadcast; a session that ingests broadcasts once more by itself.
A broadcast works on a copy of the subscribers (`to`), a send to a lost peer
fails, and the failed are unregistered at its end. `seen` is the latest version
delivered to each client; an older one may be delivered after it.

**DigitalTwin.** An action is an operation, whole. `StepFails` is a step in which
the synchronizer refuses the time, the model raises, or the estimator raises
after the model has moved; `StepSucceeds` goes through record, persistence, the
diagnostic engine (a new report, or an exception that leaves the old one), the
throttled events (`lastState`, heartbeat counter) and the report list.
`IngestRaw` puts the validator before it, direct steps do not. The validator and the repositories
go by the name that the payload gives, and the step is that of the twin the payload is addressed
to, whose name is not compared: `Names` is what payloads may name, and `Own` this twin's. A record
of this name that another twin has made (`IngestElsewhere`) is of no epoch of this twin (`Stray`).
`model` and `estimator` count the inputs each has taken; the numbers they compute
are left out. Records have a step index and a time; repositories insert
late ones in order of time and evict the first at capacity. An `ingest_batch` is
a run of `IngestSnapshot`s. A refused payload changes nothing and has no action.

**Repositories.** A method runs under the repository's lock, so a method is an
action, but a write may fail half-way or the process may die in it. A file is a
sequence of chunks, one per write: `whole`, `cut` (part of a line) or `endless`
(a line without its end); an offset is a number of chunks. `LineStarts` and `Parses`
are what a reader makes of it: whatever was written behind a torn line belongs to
that line. The same records go to the in-memory repository, so its answers can be
compared. `fileOf` lets two systems share a file, as sanitized identifiers do.
`kind` selects telemetry (indexed from the file on first use) or state history
(never read back), `strict` raises on a corrupted line.

**Engines.** A step is one action: the five stages read what the ones before
them have just written, as `instance.py` orders them. `Observation` holds what the
engines can tell apart of a snapshot; a *scene* is such an observation without its
time. Every threshold of the code is there, numbers in units that make them
integers. The estimate of the recursive least squares is a choice (nominal,
grown, at the bounds of the guard, not recovered); gate, regressors, guard and
fallback around it are the code's. A window's residual statistics are the level of
its samples. In `Diagnostics` each item of evidence weighs 1 and the threshold is 1,
so a hypothesis has support or has none. `fitting` says which engines an instance
has: all of them are optional but the detector. The code also counts the C-rate
among the evidence of an operating context; a context here is decided by current,
temperature and charge. `missed` and `verdicts` are history variables.

**Prognosis.** Records arrive in any order (`Record`); an assessment (`Assess`) runs whole.
`Trajectory` is the adapter with its long chains of fallbacks, where a value may be
absent, NaN or what `float()` refuses, and where an exception in one record fails the
assessment. `RulEstimation` is the line through the observations in exact fractions,
`RulUncertainty` whether an uncertainty exists and how strong the evidence is,
`Evaluation` the end of life, the validity of each prediction and the decision
policies, `Limiting` the choice of the criterion that limits. Sizes of uncertainties
are left out; a rate below the eight decimals to which the code rounds is `LostRate`.
`Raises` is every exception that reaches the caller of `assess`: a record that cannot be
extracted, a criterion without a policy, and the uncertainty engine's `NameError` for a valid
prediction whose last value carries no measurement (`UncertaintyRaises`). A quantity that is
present but marked unavailable is not told from an absent one.

**Profiles, Tracking, Replay.** `Profiles` generates the code's profiles on
whole seconds; the sinusoids of the synthetic cycles are a parameter. A replay
never gives up the event loop, but each of its steps may fail, so each is an
action; while it runs, no other action of `DigitalTwin` is taken. The timestamps of a
replay's samples are mapped to the few times of `DigitalTwin`, where only their
order matters. A sample has any of the voltages of its source, observed and simulated chosen apart;
a row of a table may name another system than the twin it steps. Root mean squares are compared by
their squares.

**Alignment, Scoring, Benchmark.** An *examination* is a dataset, a configuration
and the answers of the copy of the twin. The request handlers run it synchronously,
so `RunBenchmark` is one action; `RunFails` is what is left of a run that raises
(nothing but the event that announced it). Values are integers for measurements
and fractions for interpolations; a root mean square error is a mean square; the
buckets of C-rates are given in currents. The service passes no unobservable
intervals to the evaluator, so they are left out. `AlignTimeSeries` is the entry that rejects
late and repeated samples; the benchmark itself uses `AlignFrames`, which does not.

### Abstract specifications

`FrameChannel` says what gateway consumers may rely on: a frame dispatched was
received, is dispatched once, and never after a later frame of its source; frames
may be lost. The mapping takes the sequence counters to `sent`, the queued frames
and the frames held in blocked puts to `transit`, the last number dispatched to
`got`. `Subscribers` is a set of registered clients and a relation of clients to
twins. The mapping takes the keys of `_connections` and the pairs of
`_subscriptions`; that `_client_subscriptions` says the same is `IndexesAgree`.

## 3. Runs

| Run | Checks | Shows |
|---|---|---|
| `gateway_daemon` | `Accounting`, `Quiescent`, `OnlyEvictionLosesQueued`, `ImplementsChannel`, `StopReturns`, `LossAnnounced` | The counters balance at every moment, under each policy and across restarts; per-source order and at-most-once; only an eviction loses a queued frame; `stop()` returns, even from blocked puts, and leaves nothing; a loss is announced, if the listener still sees it when a read has returned (one that is lost and restored inside a read is not). |
| `arduino_gateway` | `NoPortLeaked`, `OneReader`, `ConnectedIsServed`, `LossAnswered`, `CallsReturn`, `ListenersEnd` | With overlapping requests and abandoned thread calls: a lost port is reopened or given up, requests return, listeners end. As long as no two requests have overlapped: no port is left open by `disconnect()`, at most one listener is reading, and, with `auto_reconnect`, a connected link has a listener. |
| `twin_feeds` | `RunningMeansGenerating`, `HardwareFeedsWhileConnected` | Both feeds with overlapping requests: a generator said to run does run; a line that a thread still reads for a disconnected listener never steps a twin the mock generator feeds. |
| `live_stream` | `IndexesAgree`, `ImplementsHub`, `CatchesUp` | The two indexes are one relation, through lost peers and re-subscriptions during broadcasts; a follower that stays is delivered the latest version, though not always last: broadcasts are not ordered among themselves, and no property says they are. |
| `digital_twin` | `HistoryInStepOrder`, `DiagnosisViewsAgree`, `AcceptedIsNotSkewed`, `AlertsMarkEntries` | Through failures, resets, re-creations, late records and evictions: history in order; the latest report, the report list and the events told agree; alerts mark entries into the critical state; what the pipeline accepts under a name is never older than the last step of a twin that was fed under this one name only, whichever name it is and whatever feeds other twins. |
| `repositories` | `RangeQueriesExact`, `OnlyGluedIsLost` | The in-memory answers are exactly the latest records of the range; those of a file too, and nothing raises, when its records came in order of time and every line is whole. After any failures and restarts a record whose append returned is found, unless a torn line was before it. |
| `engines` | `RegressorsFresh`, `WindowsAreSound`, `TrackersMatchEvidence`, `GapsForgotten` | An identification pairs neighbouring samples; a judged window is whole and windows do not overlap; debounce and hysteresis counters say what the verdicts since the reset say; after a gap every engine has forgotten what was before. |
| `prognosis` | `EolAgreesWithRul`, `LimitingIsTheWorst`, `ArrivalOrderDoesNotMatter`, `FeaturesAgreeWithEstimate`, `CutoffHidesTheFuture` | A life of zero is an end of life reached; the limiting criterion is the worst one in any order of the portfolio; the order of arrival does not matter; features and estimator draw one line; a forecast in a configured domain does not depend on records after its cutoff. Histories whose assessment raises are among those checked, and have no report. |
| `replay` | `OrderedReplaysAreNotSkewed`, `ResultIsOneRun`, `ErrorsFitEachOther`, `ProfilesAreKept` | What is replayed in order is accepted, whatever the live twin did before; a result is one consecutive run of the twin, whatever was skipped; its figures of error bound one another, with R-squared negative exactly when the mean would have been the better simulation; resampled profiles keep their points, sampled schedules their phases. |
| `benchmark` | `PairsAreTheNearest`, `StrataAddUp`, `VerdictsAgreeWithSamples`, `ListedResultsAreKept` | Each answer is paired with the nearest measurement its policy admits; strata split the samples; the verdicts on events and samples fit each other; what a history lists can be fetched. |
| `degraded_critical` (violation) | `DegradedBlocksCritical` | finding 1 |
| `causal_leak` (violation) | `NoFutureLeak` | finding 2 |

Every property of a passing run has a mutant of the code that breaks it. The type
invariants (`TypeOK`, `EnginesTypeOK`) are stated for the reader and for the proofs;
those of the gateway, the twin, the repositories and the engines are theorems.

### Bounds

- *Gateway*: two sources, one that reconnects and one that does not and whose
  transport may raise; one worker; a queue of 2; 3 frames; 2 successful starts.
  The policy and the registered sources are chosen in `Init`. Three frames on a
  queue of two fill it, evict, drop and block; two starts carry queued frames
  over a restart. Two workers would change nothing: a worker's get and dispatch are
  one step, so workers only alternate. (`Worker` stays a parameter and the
  proofs hold for any set of them.)
- *Arduino*: two requests at once, two sessions. Two are what an overlap takes;
  `auto_reconnect` and the system are chosen in `Init`. The system may stop when the
  connects are spent, hence `CHECK_DEADLOCK FALSE`.
- *Feeds*: two Arduino callers, two sessions, two requests of the generator, two
  generator tasks and two twins, callers, requests and twins symmetric (no
  liveness is checked here). The system may stop here too.
- *Live stream*: two clients, one of the dedicated endpoint that only watches, one
  of the multiplexed endpoint that sends telemetry; one twin; two steps, so that two
  bridged broadcasts and a session's own one are under way together. Sessions are
  not reused (client ids are fresh UUIDs), so the system may stop.
- *Digital twin*: payloads that name the twin or one other system, two lifecycle states,
  heartbeat 2, report list 2, repositories 3, timestamps 1..3, four snapshots, two initializations. The code's 100, 100 and
  100,000 are out of reach; with these values every limit is met and passed in four
  snapshots, and the theorems hold for all of them.
- *Repositories*: two systems and two files (symmetric), times 1..2, three chunks
  written, two records in memory, two lives of the process. Three writes are a
  torn one between two good ones, or one more than memory holds.
- *Engines*: each engine alone over the scenes it can tell apart, and all together.
  Five steps for detector, validation and diagnostics, four for calibration, three for
  all; windows of two or three samples, debounce and hysteresis 2, gap after more than 1
  second, times up to 5, heartbeat 3. Five steps are a debounce, a hysteresis and one
  more; three are a full window, a gap and its aftermath.
- *Prognosis*: ten jobs, that is ways of using the pipeline (online, with a cutoff, with named,
  mapped or mixed trajectories, built by an application, over throughput), several
  with a criterion on a ratio that is measured, worked out with a provenance, or worked out
  without one, which raises; over every
  history of one to four records from an alphabet of up to 36, at times 0..3 (12 in
  the trend job). A flat slope is a fifth and a rate lost by rounding a half (1e-9
  and 1e-8 in the code); two observations make a line, two a rolling window.
  Histories end when they are long enough, so the system may stop.
- *Replay*: one lifecycle state, report list 1, repositories 4, three live snapshots, two
  initializations, two replays (one is prepared only while an initialization is left for it), of tables up to two samples, ranges of the repository and
  profiles. A table has no more samples than there are times, so that its order can be
  kept, and its first row may name another system. In the replay of a profile what is observed and
  what is simulated are any of two voltages at each sample: constant and varying references, errors
  of one sign and of both. In the other replays, whose questions are of order and failure, there
  is one voltage, or none. Profiles that are resampled or have many samples are made
  at the start only; their intervals divide the phases in some requests and do not in
  others. The bounds may stop the system.
- *Benchmark*: two symmetric systems, lists of one result, so that pruning begins after
  five; seven runs, the first any of several thousand examinations with three frames
  at times up to 4, the later ones a routine one.

### Fairness

The event loop runs every ready task and expired timer. From that:

- *Gateway*: weak fairness of the steps of `stop()`, of a source's start returning,
  of `Dispatch`, of a created or sleeping listener and of a put with room. None for
  frames, losses or reconnections, nor for anybody calling `stop()`. `StopReturns`
  says that a `stop()` *once called* returns.
- *Arduino*: weak fairness of a joined listener's caller, of a listener's own steps
  and of the thread's calls: opens, closes and reads of a serial port return because the port
  is opened with a timeout. Nobody has to connect or disconnect, no port has
  to open.
- *Live stream*: weak fairness of a session's sends and of broadcasts. A send to a
  peer that stopped answering ends too, because the WebSocket server's keepalive
  drops dead peers. Nobody has to send telemetry or to leave.
- *All others*: none, only safety is stated.

## 4. Findings

1. `degraded_critical`: `diagnostics/engine.py:102` promises that a DEGRADED model
   validation "must NOT permit DIAGNOSED_CRITICAL" for physical hazards. The gate reads
   the state of the *active* window (`engine.py:260`), which is only ever VALIDATING or
   INSUFFICIENT_DATA (`validation/engine.py:348`); the completed window, which is
   DEGRADED, is not asked.
2. `causal_leak`: `prognostics/estimators/linear.py:46` guarantees that observations
   after the cutoff are "strictly ignored". The domain of the forecast is resolved by
   counting the observations of the whole trajectory (`linear.py:404`), so a later
   record decides whether, and in which domain, there is a prediction.

Seen on the way, without a run of its own. *Services and feeds:*

- `start()` sets `_running` before it starts the sources (`gateway/manager.py:79`). If
  one raises, the gateway stays "running" with no worker, health reports it active,
  though the server goes on "so health endpoints reflect the error"
  (`api/lifespan.py:56`), and the next `start()` returns at once.
- `disconnect()` of the Arduino is suspended while its cancelled listener ends; a
  `connect()` in that window opens a session that `disconnect()` then forgets and
  reports `DISCONNECTED`, while its listener lives (`connection_manager.py:150`).
  `NoPortLeaked` and `OneReader` therefore speak of requests that do not overlap.
- `step_raw` steps the twin a payload is addressed to with whatever system the payload names
  (`runtime/instance.py:923`); the validator keeps its clock, and the repositories what is stored,
  under that other name (`ingestion/pipeline.py:117`), so a payload of the twin's own name can then be
  accepted and refused for clock skew. `AcceptedIsNotSkewed` speaks of one name for this reason.
- The mock generator steps the twin named in its configuration, by default the very
  system the Arduino feeds (`mock_service.py:425`), though
  `docs/hardware-and-arduino-integration.md:209` calls it strictly isolated.
- The model commits before the estimator runs (`runtime/synchronizer.py:227`); when the
  estimator raises, the two are no longer in lockstep until the next initialization.
- The fallback of `get_latest_state()` calls `get_latest`, which no repository has
  (`services/twin_service.py:280`; `query_latest` is the method), so after a reset
  it raises although the repository has records.
- `reset_twin` keeps the twin's report list (`services/twin_service.py:499`), and each
  step appends the latest report, also when the engine raised and it is an old one (`:224`).
- The telemetry of a step is stored and announced before the synchronizer may refuse it
  (`runtime/instance.py:397`).
- Each step ingested over a WebSocket is broadcast twice (`api/websocket/handlers.py:202`);
  the temperature residual is written under one name and read under another (`:45`);
  the first state is serialized before the session's `try` (`:232`).
- A source unregistered while the gateway runs keeps its listener (`gateway/manager.py:68`);
  a line longer than the reader's limit counts as a parse error (`gateway/tcp_source.py:100`);
  shutdown does not disconnect an Arduino that is reconnecting (`api/lifespan.py:73`).

*Repositories:* the index is in order of arrival but bisected by time, so late
records are missed; `query_latest` gives the last to arrive; the state history never
reads its file back; systems whose sanitized names agree share a file, and `clear()`
of one deletes both.

*Engines:* nominal signals count as supporting evidence (`runtime/instance.py:687`), so on a healthy
pack a growth of the apparent resistance is diagnosed critical after the debounce,
though `diagnostics/types.py:64` calls such evidence neutral; the thermal residual is read under a key
nothing writes (`instance.py:798`); a reset of the identifier keeps its estimate
(`calibration/rls.py:432`); one gap fails the window it ends and the one it begins; a
critical diagnosis is left for one step whenever a window is sealed, and announced
again; the engine's test for retrograde times compares with a time that only corrupted
telemetry sets (`diagnostics/engine.py:178`).

*Prognostics:* a valid prediction whose last value has no measured quantity, such as a ratio worked
out from a resistance and a baseline, ends the whole assessment with a `NameError`: the engine
builds the uncertainty that is to stand for the missing one of two types it does not import
(`uncertainty/engine.py:255` and `:257`), and nothing on the way to the caller catches it, though the
comment at `:247` says "Default unavailable measurement evaluation",
`uncertainty/measurement.py:82` that without an uncertainty it "returns UNAVAILABLE", and
`level_6_6_implementation_plan.md:54` that point estimates "are never silently dropped when
statistical uncertainty is unquantified" (its table at `:623` continues with an advisory); a future record with an unreadable value fails an assessment even when
the cutoff excludes it; a criterion whose end of life is reached but which has no
prediction is no candidate for the limiting one (`pipeline/limiting.py:131`); the unit check of the end of life cannot fail
(`evaluation/eol.py:250`); rules of a policy without `require_*` gates match
corrupted evaluations too.

*Replay:* without a repository a replay asks the twin for `telemetry_repo`, an
attribute it does not have (`services/replay_service.py:133`), and raises
`AttributeError` instead of the documented error; replays bypass the service's
report list, so after one it no longer ends with the latest report; a replay of the
repository appends to it what it replays; a profile that does not start at 0 loses its
tail when resampled (`replay/profiles.py:173`); an interval that does not divide the
phases makes cycles drift (`:557`); generated profiles have no voltage, and a target
for it is met vacuously; a callback that raises counts its sample twice; in the route,
0 means the default.

*Benchmarks:* a value that is not finite raises, since `AlignmentStatus` has no
`DATA_QUALITY_FAILED` (`benchmarking/alignment.py:229`); `EXACT_OR_DROP` is not honoured
in batch mode; an end of 0 is an open end; a target for a signal without pairs is met,
a diagnostic one without a denominator fails; results that fell out of a system's
list before its reset stay fetchable by id until the next pruning.

## 5. Theorems

| Theorem | Says |
|---|---|
| `GatewayDaemonProof!TypeCorrect` | types; the queue never exceeds `MaxQueue` |
| `GatewayDaemonProof!StopLeavesNothing` | `[]Quiescent` |
| `GatewayDaemonProof!FramesAccounted` | `[]Accounting` |
| `GatewayDaemonProof!FramesOrdered` | per source, frames dispatched, queued and held in a put are in the order of reading |
| `GatewayDaemonProof!QueuedIsKept` | the action property `OnlyEvictionLosesQueued` |
| `GatewayDaemonProof!ChannelImplemented` | `GatewayDaemon` implements `FrameChannel` |
| `FeedsAndStreamProof!SituationInvariant` | one of six situations, each with its executor queue |
| `FeedsAndStreamProof!OneReaderOnly` | `[]OneReader`, which is about requests that have not overlapped |
| `FeedsAndStreamProof!DisconnectLeavesNothing` | `[]NoPortLeaked`, likewise |
| `FeedsAndStreamProof!ConnectedHasListener` | `[]ConnectedIsServed`, likewise, and of the listener with `auto_reconnect` on |
| `FeedsAndStreamProof!FeedsInvariant` | the Arduino's situation, with the generator's tasks |
| `FeedsAndStreamProof!GeneratorRuns` | `[]RunningMeansGenerating` |
| `FeedsAndStreamProof!HardwareIsConnected` | the action property `HardwareFeedsWhileConnected` |
| `FeedsAndStreamProof!IndexesConsistent` | `[]IndexesAgree` |
| `FeedsAndStreamProof!HubImplemented` | `LiveStream` implements `Subscribers` |
| `ReplayProof!TypeCorrect` | types; lists within their capacity |
| `ReplayProof!HistoryOrdered` | `[]HistoryInStepOrder` |
| `ReplayProof!DiagnosisConsistent` | `[]DiagnosisViewsAgree` |
| `ReplayProof!AcceptedNotSkewed` | `[]AcceptedIsNotSkewed`, for any names and a twin fed under one of them |
| `ReplayProof!AlertsCorrect` | the action property `AlertsMarkEntries` |
| `RepositoriesProof!RecordsLast` | acknowledged records stay on the disk, indexes point at lines of their system |
| `RepositoriesProof!AcknowledgedIsFound` | `[]OnlyGluedIsLost` |
| `RepositoriesProof!IndexesAnswer` | memory is the latest records in order; an index finds what it has |
| `RepositoriesProof!StoreTypeCorrect` | types and bounds |
| `RepositoriesProof!RangesExact` | `[]RangeQueriesExact` |
| `EnginesProof!EnginesInvariant` | types, and the engines' clocks follow the synchronizer's |
| `EnginesProof!RegressorsFollow` | `[]RegressorsFresh` |
| `EnginesProof!WindowsSound` | `[]WindowsAreSound` |
| `EnginesProof!NothingAcrossGaps` | the action property `GapsForgotten` |
| `EnginesProof!TrackersCorrect` | `[]TrackersMatchEvidence` |
| `ReplayProof!ReplaysTypeCorrect` | the live twin keeps its types and bounds through replays |
| `ReplayProof!OrderedAreAccepted` | `[]OrderedReplaysAreNotSkewed` |
| `ReplayProof!CollectedIsOneRun` | `[]ResultIsOneRun` |
| `ReplayProof!ProfilesKept` | `[]ProfilesAreKept` |
| `ReplayProof!FiguresOfErrorFit` | `[]ErrorsFitEachOther`, for any observed and simulated voltages |
| `PrognosisProof!ReportsAreOfTheHistory` | a report is the assessment of all the records there are, and none of what raises |
| `PrognosisProof!EndsOfLifeAgree` | `[]EolAgreesWithRul` |
| `PrognosisProof!TheWorstLimits` | `[]LimitingIsTheWorst` |
| `PrognosisProof!ArrivalIsForgotten` | `[]ArrivalOrderDoesNotMatter` |
| `PrognosisProof!FeaturesFollowTheEstimate` | `[]FeaturesAgreeWithEstimate` |
| `PrognosisProof!TheFutureIsHidden` | the action property `CutoffHidesTheFuture` |
| `BenchmarkProof!VerdictsAgree` | `[]VerdictsAgreeWithSamples` |
| `BenchmarkProof!ListedAreKept` | `[]ListedResultsAreKept` |
| `BenchmarkProof!PairsAreNearest` | `[]PairsAreTheNearest` |
| `BenchmarkProof!StrataAdd` | `[]StrataAddUp` |

The only assumptions are those on the constants (`GatewayAssumption`,
`ArduinoAssumption`, `FeedsAssumption`, `StreamAssumption`, `TwinAssumption`,
`RepositoriesAssumption`, `EnginesAssumption` and one for each engine,
`ReplayAssumption`, `BenchmarkAssumption`, and those of the stages of a prognosis, with
`JobsAssumption`), which TLC evaluates on every run. They give types, say that
`Absent`, `NaN` and `Junk` are no numbers and no domains, that the `Missing` of a benchmark
is neither a time nor a rejection nor a pair of numbers, that what a twin answers is
a number in the unit of the references, that the criteria of a portfolio
differ in their ids (as `EOLPortfolio` enforces), that
capacities are not zero and that there are finitely many sources, whose blocked puts
are counted, finitely many systems, whose results are, and finitely many voltages, so that
there is a highest. The payloads of a replay are those its schema lets through: among the known
types, with a positive interval. The bounds appear in guards, but no proof uses their values: the theorems hold
for all of them.

**Gateway.** `IInv` is `TypeOK` with `Accounting` and a `Lifecycle` part that
strengthens `Quiescent`. Quiescence speaks of the moment after `stop()`; to be
inductive it needs what each *phase* of `start()` and `stop()` has already achieved:
a source not yet started has no listener, `_running` is false during a `stop()`,
and no listener lives once the sources are being closed. `Accounting` needs the types and,
because a put that is blocked is counted as received but not yet as
enqueued, the number of blocked listeners; the proof follows that number through
each action with lemmas on the cardinality of `Blocked`.

`OrderInv` says where the frames of a source are: those in the queue ascend and lie
above the last one dispatched, the one held in a blocked put lies above them all, and none
is above the counter of frames read. From it follow the fate of a queued frame
and the refinement: under it each step receives one frame, dispatches the
oldest of its source, loses some, or leaves the channel alone.

**Arduino, feeds.** The properties speak of requests that have not overlapped (finding out
what happens when they do is what the history variable `overlapped` is for), and so does
the invariant: `IInv == ~overlapped => Situation`. A `Situation` is one of six (off, failed, up, or one of the
waits of a request), and for each what the executor queue of the current
transport may hold: the call its listener awaits, or one that was abandoned and goes on
with nobody waiting. All older transports are at rest. That is what excludes a second reader,
because a listener that lives beside the current one would need a queue of its own.
`FeedsInv` adds that the generator last started is alive while the flag is
up, through the one await of `stop()`.

**Live stream.** `HubInv` is the types of the indexes, `IndexesAgree`, and that a
client not yet accepted is in none of them. The last part is what makes
`connect()` a registration of a new client in the abstract specification. Under
the invariant each action maps to `Register`, `Follow`, `Unfollow`, `Forget` or a
stutter.

**Digital twin.** `Inv` adds three parts to the four invariants. `FlagsAgree` says that
what the instance remembers of its last assessment (`lastLifecycle`,
`lastCritical`) is what its latest report says, through every reset and
initialization; without it neither `DiagnosisViewsAgree` nor `AlertsMarkEntries`
survives a step. `Behind` says that no stored record is of an epoch to come, and
that one of the running epoch has a step and a time no later than the twin's last: a
new record can then be inserted by time without passing a record of its own epoch. `Started` gives
such an epoch a number other than 0, which marks records that other twins have made.
The lemmas `KeepLastIsSuffix`, `InsertShifts` and `InsertOrdered` are about the
sequences; `SuccessKept`, `FailureKept`, `LifecycleKept` the three kinds of actions.

**Repositories.** `StoreInv` follows a record from the return of its `append` to the chunk that
holds it, across torn lines, kills and `clear()`; since a scan parses exactly the
chunks that begin a line and end it, what it misses is what a torn line has swallowed. `AnswerInv`
adds what the two caches are: memory is the latest `MaxRecords` of the records of
this process, sorted by time; acknowledged offsets ascend; and the index finds every acknowledged
record whose line can be read. Sorting is defined by the place each record takes, so keeping a suffix of a
list with one more record inserted is inserting it into the kept suffix, which is
what the code does with its bounded list. The two binary searches are recursive
functions; what they return is proved from the least length of an interval on which it
would be wrong, since a set of numbers has a least element and no induction over an
operator is needed. `RangesExact` follows by slicing a sorted list at two such
boundaries.

**Engines.** A step runs five stages, so the invariant has a part for each engine:
`CalibrationFollows`, `ClassifierFollows` and `AuditorFollows` say that no engine's clock is ahead of the
synchronizer's, and that one which has not seen a step remembers nothing; an engine ahead
could miss the gap that `GapsForgotten` is about. `ActiveWindow` says of the *open*
window what `WindowsAreSound` says of the sealed ones, that it ends at the last
step unless it is flagged, and that it begins after them. For the trackers,
`TrackersFollow` adds to `TrackersMatchEvidence` what the recovery counter is, the number of verdicts
without support that end the history of a persisting hypothesis: only with it does one
more verdict say whether the hypothesis recovers.

**Replay.** `ReplayInv` has the twin's types and the order of its telemetry, which its own actions keep
as those of a replay do, and six parts about the replay: the queue is in order of time
(for a range of the repository because it is cut from a sorted list), a twin that was
reset is no later than the head of the queue, the last record collected
is the twin's latest, the collected ones are consecutive, and they are in the
state history as long as that is not full.

`ProfilesKept` adds `ProfileMade`: the profile of a run is the one generated from its
request, and its samples are those resampled from it, a fact that is made in one step and only
carried afterwards. What remains is about the generators, for any payload:

- `PointIsSampled` finds the sample of a point on the grid: the points rise strictly, so exactly one
  interval of the interpolation begins with it, and there its share is zero. That the current
  is then unchanged *as a fraction* needs the points to be in lowest terms (`ProfilePoint`).
- `FollowIs` finds the phases of a schedule in what is joined from them: each starts after as
  many samples as its predecessors sum to, and a phase the interval divides has exactly
  its quotient of samples. Pulses and DST repeat one schedule (`RepeatedIs`,
  `SampledScheduleIs`).

`FiguresOfErrorFit` is arithmetic about any sequence of deviations (`FiguresFit`). The mean error
lies between the opposites of the mean absolute one because the sums do; that the square
of the mean absolute error is no larger than the mean square one is the inequality of Cauchy and Schwarz, taken
one sample at a time (`SumsFit`): adding a deviation keeps `(sum |e|)^2 <= n * sum e^2`. That
R-squared is below zero exactly when the mean square error exceeds the variance of what was observed is
one comparison of products seen from two quotients (`UnexplainedIs`). Since
means are kept in lowest terms, `StandsFor` relates them to the
sums they stand for before they are compared crosswise.

These lemmas need what recursive functions compute. `Gcd`, the sum of a
sequence and the joining of sequences are each shown to be a function
that satisfies its equation, by exhibiting it up to each number (`GcdToExists`, `SumToExists`,
`FlatToExists`) and showing that all of them agree (`GcdToUnique` and its like); what it
computes then follows by the least number at which it could fail (`LeastNumber`), in place of
an induction.

**Prognosis.** The induction is short: `IInv` says that a report is the assessment of the
records there are, since each record takes the report away. The theorems are then about
what an assessment computes, for any records. Selections and sorts go by the places of
the elements (`Selection`), and `Lists` says what they return: the one list of a finite set
of places in a strict order (`ListedOnce`), which is why a sort does not depend on
what it sorts but on its order alone.

- `EndsOfLifeAgree` and `FeaturesFollowTheEstimate` need the arithmetic of `Fractions`: a
  quotient in lowest terms compares as the quotient does (`OverIs`), and a positive margin
  over a positive rate is no zero (`QuotientIs`).
- `TheWorstLimits` says of each strategy which element of the *set* of bundles it names
  (`NamedOf`): the first of a strict order, which `OneLeads` shows to be one, because
  the ids differ. What is named is a function of the set, so no
  order of the portfolio matters but to `EXPLICIT_POLICY_ORDER`.
- `TheFutureIsHidden` follows a later record through extraction, a stable sort and the selection
  by the cutoff, all of which leave the selected places as they were (`LaterIsNotPicked`),
  then through the match of criteria. The match reads whole trajectories: one of
  many channels serves a criterion for what it has at *any* time (engine.py 386-398), so a
  record after the cutoff can change which of several trajectories is matched. Where there is
  one source (`OneSource`) it cannot change what is foreseen: a trajectory that
  is only served by the future foresees nothing (`UnservedIs`).
- `ArrivalIsForgotten` shows that two histories of the same records give trajectories that
  differ in the age of their observations alone (`ExtractedInOrder`), and that no stage
  of a report reads it, nor what makes one raise (`AlikeEstimates`, `AlikeUncertainties`,
  `AlikeFeatures`).

**Benchmark.** `StoreInv` says what the three stores are to each other: every list
holds results that are stored under their ids, in ascending order; what a system's
history lists is of that system; and the *last result of each system* in the history of all
is the last of that system's own history (`NewestAgree`). The property says the latter only of the
newest of all, which is not inductive: a reset removes a system's results from the
history of all, and then the newest is the last of another system. `PickedInOrder`
says that such a filter keeps the order. Pruning leaves every id some list holds, and
these are no more than `MaxHistory` for each system and for all. `VerdictsAgree` holds of
any reports and events: `DetectionIs` says what detects an event (the first report in
its window, an expected one if there is one; the last one before it if its window has none),
`VerdictsFit` compares that with what the matrix counts.

`PairsAreNearest` needs of the state only that the examination is one of `Exams`
(`LastIsExam`); the rest is about the operators of `Alignment`:

- What is chosen from a list of measurements is among them, and its first and last elements are
  the least and greatest of the chosen indices (`PickedHasEnds`); so in a list that is in
  order the last before and the first after are neighbours. Where `observed_at_ns` is out of
  order, only the part of the property without `InOrder` remains, and the theorem says so.
- `CausalIsFound`, `BatchIsFound` and `NearestOfIs` go through the modes: a measurement nearer
  than the one returned would have been the candidate. `OnLineIsBetween` shows, by comparing
  fractions crosswise, that the interpolated value stays between its two ends.
- The clock of a series is defined by a recursive function, which `ClocksExist` and
  `FollowingClocks` show to exist by exhibiting it. By the least number at which it could fail,
  it is the latest time so far (`ClocksAreLatest`) and the time of a sample
  that was taken (`ClockWasTaken`): hence all that is taken moves forward, and whatever is rejected is no
  newer than something taken.

`StrataAdd` needs of the state only that the last score is the report of one of `Exams`
(`LastIsReported`); the rest is counting and arithmetic, for any pairs and any slices:

- A sample has finitely many slices, exactly one of them a regime, and at most one of each
  other dimension (`SlicesAre`): a value on the common edge of two buckets is in the first. So
  the frames of the slices of one dimension have nothing in common, and what is counted under
  their keys is the cardinality of a union, whatever order the keys are summed in
  (`PartsAddUp`, `DimensionShares`, `SlicesCount`). Excluded pairs are split by their status in
  the same way (`ExcludedAddUp`).
- The accumulator is a function of the number of pairs it has taken. Over one common
  denominator of all errors and references (`CommonDenominator`) each of its figures *stands
  for* a sum of integers, although it is reduced to lowest terms after every pair:
  `ErrorsAccumulate` follows the sums and the worst error, and `MeansFit` orders the
  means by the inequality of Cauchy and Schwarz for integers (`SumsFit`).
- `WelfordStands` says what the recurrence holds after `k` pairs: the mean is `r / k` and
  the sum of squares `(k * w - r * r) / k`, with `r` the sum of the references and `w` that of
  their squares. `WelfordStep` is the identity that takes it from `k` to `k + 1`; after the
  last pair it is the comparison with the variance (`VarianceFits`).

**Only model-checked**: all liveness (`StopReturns`, `LossAnnounced`, `LossAnswered`,
`CallsReturn`, `ListenersEnd`, `CatchesUp`), since fairness and `ENABLED` are out of
the prover's reach. Every safety invariant and every action property that a passing
run checks has a theorem. What the slopes and sums of a prognosis compute is used by its theorems
only through their signs.

## 6. Not modelled

- Battery models, estimators and analytics: floating-point computations; the twin's
  module counts the inputs they take. The recursive least squares and the sizes of
  uncertainties likewise; the control around them is modelled.
- Byte framing, payload formats, adapters, serialization, wording of explanations,
  provenance records, logging.
- Sums of floating-point intervals and the tolerance of 1e-9 with which profiles are sampled
  (`replay/profiles.py:176`): the models' profiles are on whole seconds.
- Clock drift and rate limiting of the ingestion: a refused payload changes
  nothing that a property reads.
- Events' priorities, filters and metrics; `clear()` of services (tests only).
- Non-default configurations of the ingestion (monotonicity not enforced) and of the
  instance (no events, no persistence).
- The Dataset Lab (independent uploads, parsed in synchronous handlers) and the builder
  of benchmark datasets from repositories.
- Packs, schemas, the browser dashboard and the firmware share no state with the server
  but messages, which the models take as inputs.

## 7. Plan

Done: every module of section 2 is checked, and every safety property of a passing run has its
theorem.

Next, modelling: the ingestion's rate limiter and clock-drift window; the dashboard's
source priority and reconnecting socket; `Engines` in place of the free choice of a
report in `DigitalTwin`.
