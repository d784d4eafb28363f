-------------------------------- MODULE Engines --------------------------------
(***************************************************************************)
(* The engines of one twin as DigitalTwinInstance.step() runs them on a    *)
(* snapshot the synchronizer has accepted: anomaly detection, calibration, *)
(* validation and diagnosis, each reading what the ones before it have     *)
(* just produced, and the events the step publishes about them.            *)
(*                                                                         *)
(* Every engine but the detector is optional.  A health estimator is not   *)
(* modelled: its result is part of the observation.                        *)
(***************************************************************************)
EXTENDS AnomalyDetector, Diagnostics

CONSTANTS
  Fittings,     \* the engines a twin may have, with what it may observe and,
                \* a bound, the steps it takes between two resets
  MaxAdvance,   \* bound: seconds between two snapshots
  MaxTime,      \* bound: timestamps are 0..MaxTime
  Heartbeat     \* steps between two unconditional events: 100 in the code

EngineNames == {"detector", "calibration", "validation", "diagnostics"}

ASSUME EnginesAssumption ==
  /\ Fittings \subseteq [engines: SUBSET EngineNames, scenes: SUBSET Scenes, steps: Nat]
  /\ {MaxAdvance, MaxTime} \subseteq Nat
  /\ Heartbeat \in Nat \ {0}

VARIABLES
  fitting,      \* the engines of this twin and what it may observe
  synced,       \* the synchronizer's _prev_timestamp_ns
  totalSteps,   \* _total_steps
  published,    \* the _last_published_ fields
  events,       \* the events about the engines the last step published
  missed,       \* history: a reading was missing since the regressors were taken
  verdicts      \* history: the hypotheses supported, at each verdict since a reset

engineVars == <<fitting, synced, totalSteps, published, events, missed, verdicts>>
vars == <<detectorVars, calibrationVars, validationVars, diagnosticsVars, engineVars>>

Fitted(engine) == engine \in fitting.engines

Unpublished == [r0 |-> None, gating |-> "None", validation |-> "None",
                lifecycle |-> "None", critical |-> FALSE]

\* The state of every engine has its type, and its buffers their bounds.
EnginesTypeOK ==
  /\ DetectorTypeOK /\ CalibrationTypeOK /\ ValidationTypeOK /\ DiagnosticsTypeOK
  /\ fitting \in Fittings
  /\ synced \in Times
  /\ totalSteps \in Nat
  /\ published \in [r0: Resistances \union {None}, gating: GatingStatuses \union {"None"},
                    validation: {"VALIDATING", "INSUFFICIENT_DATA", "None"},
                    lifecycle: States \union {"None"}, critical: BOOLEAN]
  /\ events \subseteq {"ParameterIdentificationUpdated", "BatteryValidationUpdated",
                       "BatteryDiagnosticAssessed", "CriticalAdvisoryAlert"}
  /\ missed \in BOOLEAN
  /\ verdicts \in Seq(SUBSET Hypotheses)

Init ==
  /\ DetectorInit /\ CalibrationInit /\ ValidationInit /\ DiagnosticsInit
  /\ fitting \in Fittings
  /\ synced = None /\ totalSteps = 0
  /\ published = Unpublished /\ events = {}
  /\ missed = FALSE /\ verdicts = <<>>

\* What the synchronizer makes of a scene at a time: the first interval is
\* one second.
ObservedAt(scene, time) ==
  [f \in DOMAIN scene \union {"time", "dt"} |->
     CASE f = "time" -> time
       [] f = "dt" -> IF synced = None THEN 1 ELSE time - synced
       [] OTHER -> scene[f]]

\* A first snapshot is at time 0; later ones are not before the last one.
Arrivals == IF synced = None THEN {0}
            ELSE {t \in synced..synced + MaxAdvance : t <= MaxTime}

-----------------------------------------------------------------------------
(* What is published: a change, the first result, and a heartbeat.         *)

Beats == totalSteps % Heartbeat = 0

ParametersDue ==
  /\ Fitted("calibration")
  /\ \/ published.r0 = None \/ Beats
     \/ 100 * Magnitude(parameters'.r0 - published.r0) >= published.r0
     \/ parameters'.status # published.gating

ValidationDue ==
  /\ Fitted("validation")
  /\ \/ report'.active # published.validation
     \/ report'.completed # <<>> /\ Beats

AssessmentDue ==
  Fitted("diagnostics") /\ (assessment'.state # published.lifecycle \/ Beats)

CriticalNow == Fitted("diagnostics") /\ assessment'.state = "DIAGNOSED_CRITICAL"

\* An alert when the diagnosis becomes critical, not while it stays so.
PublishAll ==
  /\ events' = UNION {FlagIf(ParametersDue, "ParameterIdentificationUpdated"),
                      FlagIf(ValidationDue, "BatteryValidationUpdated"),
                      FlagIf(AssessmentDue, "BatteryDiagnosticAssessed"),
                      FlagIf(CriticalNow /\ ~published.critical, "CriticalAdvisoryAlert")}
  /\ published' =
       [r0 |-> IF ParametersDue THEN parameters'.r0 ELSE published.r0,
        gating |-> IF ParametersDue THEN parameters'.status ELSE published.gating,
        validation |-> IF ValidationDue THEN report'.active ELSE published.validation,
        lifecycle |-> IF AssessmentDue THEN assessment'.state ELSE published.lifecycle,
        critical |-> CriticalNow]

-----------------------------------------------------------------------------
(* The operations.                                                         *)

\* The two history variables.
Remember(o) ==
  /\ missed' = (/\ rls'.prev # <<>> /\ rls'.prev = rls.prev
                /\ missed \/ (~o.invalid /\ (~o.voltage \/ o.current = None)))
  /\ verdicts' =
       IF Fitted("diagnostics") /\ ~o.invalid /\ assessment'.context # "DATA_GAPPED"
       THEN Append(verdicts, {h \in Hypotheses : Supported(h, Usable(o, parameters', report'),
                                                           Supporting(o, parameters'))})
       ELSE verdicts

\* step(), after the synchronizer
Observe(o) ==
  /\ IF Fitted("detector") THEN Detect(o) ELSE UNCHANGED detectorVars
  /\ IF Fitted("calibration") THEN Calibrate(o) ELSE UNCHANGED calibrationVars
  /\ IF Fitted("validation") THEN Validate(o, parameters') ELSE UNCHANGED validationVars
  /\ IF Fitted("diagnostics") THEN Diagnose(o, parameters', report')
     ELSE UNCHANGED diagnosticsVars
  /\ PublishAll
  /\ synced' = o.time
  /\ totalSteps' = totalSteps + 1
  /\ UNCHANGED fitting
  /\ Remember(o)

Step ==
  /\ totalSteps < fitting.steps
  /\ \E scene \in fitting.scenes, time \in Arrivals : Observe(ObservedAt(scene, time))

\* The part initialize() and reset() have in common.
ClearAll ==
  /\ ClearDetector /\ ResetCalibration /\ ClearValidation /\ ClearDiagnostics
  /\ synced' = None /\ published' = Unpublished /\ events' = {}
  /\ missed' = FALSE /\ verdicts' = <<>>
  /\ UNCHANGED fitting

\* initialize() at any time; a step of a twin that is not initialized
\* calls it and changes nothing of the engines by it.
Initialize == ClearAll /\ UNCHANGED totalSteps

Reset == ClearAll /\ totalSteps' = 0

\* reset_diagnostics()
ResetDiagnostics ==
  /\ Fitted("diagnostics")
  /\ ClearDiagnostics
  /\ published' = [published EXCEPT !.lifecycle = "None", !.critical = FALSE]
  /\ events' = {} /\ verdicts' = <<>>
  /\ UNCHANGED <<detectorVars, calibrationVars, validationVars, fitting, synced,
                 totalSteps, missed>>

Next == Step \/ Initialize \/ Reset \/ ResetDiagnostics

Spec == Init /\ [][Next]_vars

-----------------------------------------------------------------------------
(* Properties.                                                             *)

\* The regressors of the identifier are the last sample the detector has
\* accepted, so an update never pairs two samples across a gap (rls.py:257,
\* 280).  The code breaks this only by readings it skips: a sample without
\* voltage or current moves the detector's clock and not the regressors, and
\* then the pair may be any distance apart.
RegressorsFresh ==
  rls.prev # <<>> /\ ~missed => rls.prev.time = excitation.time

\* A window judged on its residuals has enough samples and nothing missing
\* between them, ends as soon as it is long enough, and starts after the
\* last sample of the windows before it (validation/engine.py:199-210,
\* 260-280).
WindowsAreSound ==
  \A i \in 1..Len(windows) :
    LET w == windows[i]
    IN /\ w.index = windowIndex - 1 - Len(windows) + i
       /\ w.state \in {"VALIDATED", "DEGRADED", "EXCITATION_STEADY_STATE_ONLY"} =>
            /\ w.count \in MinSamples..MaxSamples
            /\ w.last - w.start \in w.count - 1..(w.count - 1) * MaxInterval
            /\ w.last - w.start < WindowDuration + MaxInterval
            /\ \A j \in 1..i - 1 : windows[j].last # None => windows[j].last < w.start

\* What the verdicts since the reset say of hypothesis h: the run of support
\* it is in, and whether it persists: supported Debounce times in a row and
\* not missing Hysteresis times in a row since.
Runs(h, from, to, supported) == \A k \in from..to : (h \in verdicts[k]) = supported
SupportRun(h) ==
  Cardinality({i \in 1..Len(verdicts) : Runs(h, i, Len(verdicts), TRUE)})
PersistsAfter(h, n) ==
  \E i \in Debounce..n :
    /\ Runs(h, i - Debounce + 1, i, TRUE)
    /\ \A j \in i..n - Hysteresis : ~Runs(h, j + 1, j + Hysteresis, FALSE)

\* The counters of every tracker agree with the verdicts, however support
\* and its absence alternate; a hypothesis has recovered at the very verdict
\* that ends its persistence (temporal.py:110-128).
TrackersMatchEvidence ==
  \A h \in Hypotheses :
    LET n == Len(verdicts)
    IN /\ trackers[h].support = SupportRun(h)
       /\ trackers[h].persisted = PersistsAfter(h, n)
       /\ trackers[h].recovered = (n > 0 /\ PersistsAfter(h, n - 1) /\ ~PersistsAfter(h, n))

\* After an interval longer than the limit, each engine that takes the step
\* starts again: no window of currents, no regressors, no samples from
\* before it (gating.py:95-98, rls.py:257-260, validation/engine.py:111-114,
\* context.py:56-62).
GapsForgotten ==
  [][(synced # None /\ totalSteps' > totalSteps /\ synced' > synced + MaxInterval) =>
       /\ excitation'.time = synced' =>
            /\ Len(excitation'.window) <= 1
            /\ rls'.prev # <<>> => rls'.prev.time = synced'
       /\ Fitted("validation") => Len(window'.samples) <= 1 /\ "TELEMETRY_GAP" \in window'.flags
       /\ classifier'.last = synced' =>
            /\ Len(classifier'.currents) <= 1
            /\ {classifier'.rest, classifier'.temperatureTime} \subseteq {None, synced'}
    ]_vars

\* engine.py:102: "DEGRADED must NOT permit DIAGNOSED_CRITICAL for physical
\* battery hazard categories".
DegradedBlocksCritical ==
  (assessment # <<>> /\ assessment.state = "DIAGNOSED_CRITICAL" /\ assessment.leading \in Physical)
    => ~(report # <<>> /\ report.completed # <<>> /\ report.completed[1].state = "DEGRADED")
=============================================================================
