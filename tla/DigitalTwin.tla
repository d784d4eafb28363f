------------------------------ MODULE DigitalTwin ------------------------------
(***************************************************************************)
(* The digital twin of one battery system: its entry in                    *)
(* TwinApplicationService, its DigitalTwinInstance with the synchronizer   *)
(* (model and estimator) and the diagnostic engine, the timestamp          *)
(* validator of the ingestion pipeline and the in-memory repositories.     *)
(*                                                                         *)
(* Every operation is synchronous code called from a coroutine, so it runs *)
(* whole, and an action is an operation.  What goes wrong here are         *)
(* operations that fail half-way and long sequences of legal ones.         *)
(*                                                                         *)
(* The repositories, the pipeline and its validator are those of all       *)
(* twins.  What goes through the pipeline is validated and stored under    *)
(* the name that the payload gives, and steps the twin it is addressed to, *)
(* whose name is not looked at: a payload may name another system.         *)
(*                                                                         *)
(* The configuration is the default one: strict monotonicity, events       *)
(* published, records persisted, an estimator and a diagnostic engine.     *)
(* The other engines (health, calibration, validation) are left out: each  *)
(* only keeps a latest result of its own.                                  *)
(***************************************************************************)
EXTENDS Integers, Sequences

CONSTANTS
  Names,           \* the system_ids that a payload can name
  Own,             \* the one of this system
  Direct,          \* of a snapshot that does not come through the pipeline
  Lifecycle,       \* the states a diagnostic report can have
  Critical,        \* DIAGNOSED_CRITICAL
  NoLifecycle,     \* None: no report, or none published
  Heartbeat,       \* steps between two unconditional events: 100 in the code
  HistoryLength,   \* reports the service keeps per twin: 100 in the code
  MaxRecords,      \* records a repository keeps per system: 100,000 in the code
  MaxTime,         \* bound: timestamps are 1..MaxTime
  MaxSnapshots,    \* bound: snapshots that reach a twin or a repository
  MaxEpochs        \* bound: initializations

ASSUME TwinAssumption ==
  /\ Own \in Names
  /\ Direct \notin Names
  /\ Critical \in Lifecycle
  /\ NoLifecycle \notin Lifecycle
  /\ {Heartbeat, HistoryLength, MaxRecords} \subseteq Nat \ {0}
  /\ {MaxTime, MaxSnapshots, MaxEpochs} \subseteq Nat

Time == 1..MaxTime
Never == 0   \* the timestamp None

VARIABLES
  registered,     \* whether the system has an entry in _twins
  twin,           \* the instance
  history,        \* _diagnostic_history of the system
  lastTimestamp,  \* the validator's _last_timestamps
  telemetry,      \* the telemetry repository of the system: timestamps, sorted
  records,        \* the state history repository of the system
  told,           \* history: the lifecycle of the last assessment published
  alerts,         \* history: number of critical alerts published
  epoch,          \* history: number of initializations
  fedAs,          \* history: what the snapshots of the twin since its start came as
  snapshots       \* number of snapshots so far

vars == <<registered, twin, history, lastTimestamp, telemetry, records,
          told, alerts, epoch, fedAs, snapshots>>

\* A state record: its step_index and timestamp, and the epoch it is from, 0
\* when another twin made it of a payload that named this system.
Record == [epoch: Nat, step: Nat, time: Time]
NoRecord == [epoch |-> 0, step |-> 0, time |-> Never]
Stray(time) == [epoch |-> 0, step |-> 0, time |-> time]

\* model and estimator: how many inputs each has taken since it was
\* initialized.  latest: both latest_sync_output and latest_state_record.
Instance ==
  [initialized: BOOLEAN, model: Nat, estimator: Nat,
   prevTime: {Never} \union Time, stepCount: Nat,
   latest: Record \union {NoRecord}, totalSteps: Nat,
   report: Lifecycle \union {NoLifecycle},
   lastLifecycle: Lifecycle \union {NoLifecycle}, lastCritical: BOOLEAN]

NewInstance ==
  [initialized |-> FALSE, model |-> 0, estimator |-> 0,
   prevTime |-> Never, stepCount |-> 0, latest |-> NoRecord, totalSteps |-> 0,
   report |-> NoLifecycle, lastLifecycle |-> NoLifecycle, lastCritical |-> FALSE]

TypeOK ==
  /\ registered \in BOOLEAN
  /\ twin \in Instance
  /\ history \in Seq(Lifecycle) /\ Len(history) <= HistoryLength
  /\ lastTimestamp \in [Names -> {Never} \union Time]
  /\ telemetry \in Seq(Time) /\ Len(telemetry) <= MaxRecords
  /\ records \in Seq(Record) /\ Len(records) <= MaxRecords
  /\ told \in Lifecycle \union {NoLifecycle}
  /\ {alerts, epoch, snapshots} \subseteq Nat
  /\ fedAs \subseteq Names \union {Direct}

Init ==
  /\ registered = FALSE
  /\ twin = NewInstance
  /\ history = <<>>
  /\ lastTimestamp = [n \in Names |-> Never]
  /\ telemetry = <<>>
  /\ records = <<>>
  /\ told = NoLifecycle
  /\ alerts = 0
  /\ epoch = 0
  /\ fedAs = {}
  /\ snapshots = 0

-----------------------------------------------------------------------------
(* Bounded and sorted sequences.                                           *)

KeepLast(s, n) == IF Len(s) > n THEN SubSeq(s, Len(s) - n + 1, Len(s)) ELSE s

\* e at position i of s.
Insert(s, i, e) ==
  [k \in 1..Len(s) + 1 |-> IF k < i THEN s[k] ELSE IF k = i THEN e ELSE s[k - 1]]

\* A repository's append: after everything that is not later (bisect_right),
\* then the first one goes if there are too many.
TelemetryStored(t) ==
  \E i \in 1..Len(telemetry) + 1 :
    /\ \A k \in 1..Len(telemetry) : k < i <=> telemetry[k] <= t
    /\ telemetry' = KeepLast(Insert(telemetry, i, t), MaxRecords)

\* Faulty variant: before what is as old (bisect_left).
RecordStoredLeft(r) ==
  \E i \in 1..Len(records) + 1 :
    /\ \A k \in 1..Len(records) : k < i <=> records[k].time < r.time
    /\ records' = KeepLast(Insert(records, i, r), MaxRecords)

RecordStored(r) ==
  \E i \in 1..Len(records) + 1 :
    /\ \A k \in 1..Len(records) : k < i <=> records[k].time <= r.time
    /\ records' = KeepLast(Insert(records, i, r), MaxRecords)

-----------------------------------------------------------------------------
(* Lifecycle of the instance and of its registry entry.                    *)

\* initialize(): the counters start again, total_steps and what was latest stay.
Initialize(t) ==
  [t EXCEPT !.initialized = TRUE, !.model = 0, !.estimator = 0,
            !.prevTime = Never, !.stepCount = 0,
            !.report = NoLifecycle, !.lastLifecycle = NoLifecycle, !.lastCritical = FALSE]

\* The instance made out of t, initialized or not.
Start(t, initialize) ==
  /\ twin' = IF initialize THEN Initialize(t) ELSE t
  /\ epoch' = IF initialize THEN epoch + 1 ELSE epoch
  /\ fedAs' = IF initialize THEN {} ELSE fedAs

\* create_twin() and the initialization that the route makes part of it, which
\* may fail.  overwrite keeps the reports of the twin that goes.
CreateTwin(overwrite) ==
  /\ registered => overwrite
  /\ registered' = TRUE
  /\ \E initialize \in BOOLEAN :
       /\ initialize => epoch < MaxEpochs
       /\ Start(NewInstance, initialize)
  /\ UNCHANGED <<history, lastTimestamp, telemetry, records, told, alerts, snapshots>>

InitializeTwin ==
  /\ registered
  /\ epoch < MaxEpochs
  /\ Start(twin, TRUE)
  /\ UNCHANGED <<registered, history, lastTimestamp, telemetry, records, told, alerts, snapshots>>

\* The model refuses the initial values: nothing else has been touched.
InitializeFails ==
  /\ registered
  /\ twin' = [twin EXCEPT !.initialized = FALSE]
  /\ UNCHANGED <<registered, history, lastTimestamp, telemetry, records,
                 told, alerts, epoch, fedAs, snapshots>>

ResetTwin ==
  /\ registered
  /\ twin' = NewInstance
  /\ UNCHANGED <<registered, history, lastTimestamp, telemetry, records,
                 told, alerts, epoch, fedAs, snapshots>>

\* Faulty variant: whether the last report was critical is not forgotten.
ResetDiagnosticsOnly ==
  /\ registered
  /\ twin' = [twin EXCEPT !.report = NoLifecycle, !.lastLifecycle = NoLifecycle]
  /\ history' = <<>>
  /\ UNCHANGED <<registered, lastTimestamp, telemetry, records,
                 told, alerts, epoch, fedAs, snapshots>>

ResetDiagnostics ==
  /\ registered
  /\ twin' = [twin EXCEPT !.report = NoLifecycle, !.lastLifecycle = NoLifecycle,
                          !.lastCritical = FALSE]
  /\ history' = <<>>
  /\ UNCHANGED <<registered, lastTimestamp, telemetry, records,
                 told, alerts, epoch, fedAs, snapshots>>

DeleteTwin ==
  /\ registered
  /\ registered' = FALSE
  /\ twin' = NewInstance
  /\ history' = <<>>
  /\ UNCHANGED <<lastTimestamp, telemetry, records, told, alerts, epoch, fedAs, snapshots>>

-----------------------------------------------------------------------------
(* A step.                                                                 *)

\* What a step works on: it initializes an instance that is not.
Ready == IF twin.initialized THEN twin ELSE Initialize(twin)

Skewed(time) == Ready.prevTime # Never /\ time < Ready.prevTime

\* Common to all steps: initialization, the telemetry, the bounds.  as: the name
\* that the pipeline has validated the snapshot under, or Direct.  ours: the
\* snapshot names this system; what names another is stored as the other's.
Received(time, as, ours) ==
  /\ registered
  /\ snapshots < MaxSnapshots
  /\ twin.initialized \/ epoch < MaxEpochs
  /\ snapshots' = snapshots + 1
  /\ IF ours THEN TelemetryStored(time) ELSE UNCHANGED telemetry
  /\ epoch' = IF twin.initialized THEN epoch ELSE epoch + 1
  /\ fedAs' = {as} \union (IF twin.initialized THEN fedAs ELSE {})
  /\ UNCHANGED registered

\* Clock skew, or a failing model; or a failing estimator, when the model has
\* already moved on.  The telemetry stays persisted.
StepFails(time, as, ours) ==
  /\ Received(time, as, ours)
  /\ \/ twin' = Ready
     \/ ~Skewed(time) /\ twin' = [Ready EXCEPT !.model = @ + 1]
  /\ UNCHANGED <<history, records, told, alerts>>

Synchronized(t, time) ==
  [t EXCEPT !.model = @ + 1, !.estimator = @ + 1, !.prevTime = time, !.stepCount = @ + 1]

\* The tracking at the end of a step.
Tracked(t, r) == [t EXCEPT !.latest = r, !.totalSteps = @ + 1]

\* Faulty variant: published on heartbeats only.
AssessedOnHeartbeat(t, r, l) ==
  LET publish == t.lastLifecycle = NoLifecycle \/ t.totalSteps % Heartbeat = 0
  IN /\ twin' = [Tracked(t, r) EXCEPT !.report = l, !.lastCritical = (l = Critical),
                                      !.lastLifecycle = IF publish THEN l ELSE @]
     /\ told' = IF publish THEN l ELSE told
     /\ alerts' = IF l = Critical /\ ~t.lastCritical THEN alerts + 1 ELSE alerts

\* The report of the diagnostic engine: an assessment is published when its
\* state is new and on heartbeats, an alert when it becomes critical.
Assessed(t, r, l) ==
  LET publish == t.lastLifecycle # l \/ t.totalSteps % Heartbeat = 0
  IN /\ twin' = [Tracked(t, r) EXCEPT !.report = l, !.lastCritical = (l = Critical),
                                      !.lastLifecycle = IF publish THEN l ELSE @]
     /\ told' = IF publish THEN l ELSE told
     /\ alerts' = IF l = Critical /\ ~t.lastCritical THEN alerts + 1 ELSE alerts

\* An engine that raises leaves the last report as it is, and the service
\* appends it once more.
StepSucceeds(time, as, ours) ==
  LET t == Synchronized(Ready, time)
      r == [epoch |-> epoch', step |-> t.stepCount, time |-> time]
  IN /\ Received(time, as, ours)
     /\ ~Skewed(time)
     /\ IF ours THEN RecordStored(r) ELSE UNCHANGED records
     /\ \/ \E l \in Lifecycle : Assessed(t, r, l)
        \/ twin' = Tracked(t, r) /\ UNCHANGED <<told, alerts>>
     /\ history' = IF twin'.report = NoLifecycle THEN history
                   ELSE KeepLast(Append(history, twin'.report), HistoryLength)

StepTwin(time, as, ours) == StepFails(time, as, ours) \/ StepSucceeds(time, as, ours)

-----------------------------------------------------------------------------
(* Ingestion.                                                              *)

\* Faulty variant: disorder is tolerated, and the last arrival is what is kept.
IngestRawInAnyOrder(name, time) ==
  /\ lastTimestamp' = [lastTimestamp EXCEPT ![name] = time]
  /\ StepTwin(time, name, name = Own)

\* step_raw().  What the pipeline refuses (malformed, too many, older than the
\* last it has accepted under the name) changes nothing.  The validator
\* outlives twins and their resets.
IngestRaw(name, time) ==
  /\ time >= lastTimestamp[name]
  /\ lastTimestamp' = [lastTimestamp EXCEPT ![name] = time]
  /\ StepTwin(time, name, name = Own)

\* Another twin is fed, through the pipeline or by a replay of a table; what
\* names this system is stored here, the record unless the step has failed.
IngestElsewhere(name, time) ==
  /\ snapshots < MaxSnapshots
  /\ snapshots' = snapshots + 1
  /\ \/ /\ time >= lastTimestamp[name]
        /\ lastTimestamp' = [lastTimestamp EXCEPT ![name] = time]
     \/ name = Own /\ UNCHANGED lastTimestamp
  /\ IF name = Own
     THEN TelemetryStored(time) /\ (RecordStored(Stray(time)) \/ UNCHANGED records)
     ELSE UNCHANGED <<telemetry, records>>
  /\ UNCHANGED <<registered, twin, history, told, alerts, epoch, fedAs>>

\* A snapshot that does not come through the pipeline; without a twin it is
\* only persisted.  A batch is a run of these.
IngestSnapshot(time) ==
  \/ StepTwin(time, Direct, TRUE) /\ UNCHANGED lastTimestamp
  \/ /\ ~registered
     /\ snapshots < MaxSnapshots
     /\ snapshots' = snapshots + 1
     /\ TelemetryStored(time)
     /\ UNCHANGED <<registered, twin, history, lastTimestamp, records,
                    told, alerts, epoch, fedAs>>

-----------------------------------------------------------------------------
Next ==
  \/ \E overwrite \in BOOLEAN : CreateTwin(overwrite)
  \/ InitializeTwin \/ InitializeFails
  \/ ResetTwin \/ ResetDiagnostics \/ DeleteTwin
  \/ \E time \in Time :
       \/ \E name \in Names : IngestRaw(name, time) \/ IngestElsewhere(name, time)
       \/ IngestSnapshot(time)

Spec == Init /\ [][Next]_vars

-----------------------------------------------------------------------------
(* Properties.                                                             *)

\* A history query returns the records of one initialization of the twin in the
\* order of their steps and all records in the order of time, however resets,
\* replays, failed steps and what other twins store under the name mix the
\* times of several initializations.
HistoryInStepOrder ==
  \A i, j \in 1..Len(records) :
    i < j => /\ records[i].time <= records[j].time
             /\ records[i].epoch = records[j].epoch /\ records[i].epoch # 0 =>
                  records[i].step < records[j].step

\* The three views of the diagnosis agree: the latest report, the report list
\* of the service, and what a subscriber of the throttled events has been told.
DiagnosisViewsAgree ==
  twin.report # NoLifecycle =>
    /\ told = twin.report
    /\ history # <<>> /\ history[Len(history)] = twin.report

\* instance.py:613-616: a critical alert is published exactly when the twin's
\* report becomes critical: at once, never again while it stays so, and again
\* once it has been left, or forgotten by a reset or an initialization.
BecomesCritical ==
  /\ twin'.report = Critical
  /\ twin.report = Critical => ~twin.initialized /\ twin'.initialized
AlertsMarkEntries == [][alerts' = alerts + (IF BecomesCritical THEN 1 ELSE 0)]_vars

\* Whatever the pipeline accepts the synchronizer accepts, as long as all of
\* the twin's snapshots since its start came through the pipeline as one and
\* the same system: the twin is then never ahead of the validator's entry of
\* that name, whichever name it is and whatever feeds the other twins.
AcceptedIsNotSkewed ==
  registered /\ twin.initialized =>
    \A n \in Names : fedAs \subseteq {n} => twin.prevTime <= lastTimestamp[n]
=============================================================================
