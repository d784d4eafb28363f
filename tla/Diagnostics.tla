------------------------------ MODULE Diagnostics ------------------------------
(***************************************************************************)
(* diagnostics/: the last engine to see a step.  It classifies what the    *)
(* battery is doing, weighs the evidence for six hypotheses, follows each  *)
(* over time, and takes the state of the diagnosis from the leading one.   *)
(*                                                                         *)
(* Every item of evidence weighs 1 and a hypothesis needs a weight of 1,   *)
(* so a score is 0 or 1: a hypothesis has support or has none.             *)
(***************************************************************************)
EXTENDS Validation

CONSTANTS
  Debounce,           \* persistence_debounce_steps: 5 in the code
  Hysteresis,         \* recovery_hysteresis_steps: 10 in the code
  RestDuration,       \* rest_min_duration_s: 10 s in the code
  RollingLength,      \* _rolling_currents: 5 in the code
  TransitionHistory   \* max_history_size: 50 in the code

ASSUME DiagnosticsAssumption ==
  {Debounce, Hysteresis, RestDuration, RollingLength, TransitionHistory} \subseteq Nat \ {0}

VARIABLES
  classifier,   \* OperatingContextClassifier
  trackers,     \* _trackers, by hypothesis
  lifecycle,    \* _lifecycle_tracker: the state and the last transitions
  assessment    \* _latest_assessment

diagnosticsVars == <<classifier, trackers, lifecycle, assessment>>

Hypotheses == {"APPARENT_OHMIC_GROWTH", "CELL_IMBALANCE", "MODEL_MISMATCH", "SENSOR_DRIFT",
               "THERMAL_IMPAIRMENT", "THROUGHPUT_ACCELERATED_FADE"}

\* The ids in their alphabetical order.
Rank ==
  [h \in Hypotheses |->
     CHOOSE i \in 1..6 : h = <<"APPARENT_OHMIC_GROWTH", "CELL_IMBALANCE", "MODEL_MISMATCH",
       "SENSOR_DRIFT", "THERMAL_IMPAIRMENT", "THROUGHPUT_ACCELERATED_FADE">>[i]]

\* The hypotheses of the physical categories, ELECTRICAL, THERMAL and CELL.
Physical == {"APPARENT_OHMIC_GROWTH", "CELL_IMBALANCE", "THERMAL_IMPAIRMENT"}

Required(h) ==
  CASE h = "SENSOR_DRIFT" -> {"voltage", "current"}
    [] h = "MODEL_MISMATCH" -> {"residual", "validation"}
    [] h = "APPARENT_OHMIC_GROWTH" -> {"voltage", "current", "resistance"}
    [] h = "THERMAL_IMPAIRMENT" -> {"temperature", "current"}
    [] h = "CELL_IMBALANCE" -> {"cells"}
    [] h = "THROUGHPUT_ACCELERATED_FADE" -> {"soh", "cycles"}

\* Those of the optional signals that are ever collected.
Optional(h) ==
  CASE h = "SENSOR_DRIFT" -> {"temperature"}
    [] h = "THERMAL_IMPAIRMENT" -> {"ambient"}
    [] h = "CELL_IMBALANCE" -> {"current"}
    [] OTHER -> {}

Contexts == {"REST", "DATA_GAPPED", "THERMAL_TRANSIENT", "DYNAMIC_TRANSIENT",
             "DISCHARGE_CC", "CHARGE_CC"}
States == {"NORMAL", "ANOMALY_DETECTED", "SUSPECTED", "DIAGNOSED", "DIAGNOSED_CRITICAL",
           "RECOVERED", "INSUFFICIENT_EVIDENCE", "DATA_QUALITY_FAILED"}
Assessments == [time: Nat, state: States, severity: {"UNKNOWN", "INFORMATIONAL", "WARNING", "CRITICAL"},
                context: Contexts, leading: Hypotheses \union {"none"}, anomalies: 0..6]

DiagnosticsTypeOK ==
  /\ classifier \in [last: Times, rest: Times, temperature: Values, temperatureTime: Times,
                     currents: Seq(Values)]
  /\ Len(classifier.currents) <= RollingLength
  /\ trackers \in [Hypotheses -> [support: Nat, recovery: Nat,
                                  persisted: BOOLEAN, recovered: BOOLEAN]]
  /\ lifecycle \in [state: States, transitions: Seq([from: States, to: States, time: Nat])]
  /\ Len(lifecycle.transitions) <= TransitionHistory
  /\ assessment \in {<<>>} \union Assessments

FreshClassifier == [last |-> None, rest |-> None, temperature |-> None,
                    temperatureTime |-> None, currents |-> <<>>]
FreshTracker == [support |-> 0, recovery |-> 0, persisted |-> FALSE, recovered |-> FALSE]

ClearDiagnostics ==
  /\ classifier' = FreshClassifier
  /\ trackers' = [h \in Hypotheses |-> FreshTracker]
  /\ lifecycle' = [state |-> "NORMAL", transitions |-> <<>>]
  /\ assessment' = <<>>

DiagnosticsInit ==
  /\ classifier = FreshClassifier
  /\ trackers = [h \in Hypotheses |-> FreshTracker]
  /\ lifecycle = [state |-> "NORMAL", transitions |-> <<>>]
  /\ assessment = <<>>

-----------------------------------------------------------------------------
(* The operating context: the classifier after a step and its verdict.     *)

\* Thermal transient: 0.05 degrees per second.  n * (n - 1) times the
\* variance of the currents is compared with 0.01 A^2.
Moving(c, o) ==
  LET heated == o.temperature # None
      elapsed == o.time - c.temperatureTime
      transient == /\ heated /\ c.temperature # None /\ elapsed > 0
                   /\ 20 * Magnitude(o.temperature - c.temperature) >= elapsed
      warmed == IF heated
                THEN [c EXCEPT !.temperature = o.temperature, !.temperatureTime = o.time] ELSE c
      currents == Pushed(c.currents, o.current, RollingLength)
      n == Len(currents)
  IN IF transient THEN <<warmed, "THERMAL_TRANSIENT">>
     ELSE <<[warmed EXCEPT !.currents = currents],
            CASE n >= 2 /\ ScaledVariance(currents) >= n * (n - 1) -> "DYNAMIC_TRANSIENT"
              [] OTHER -> IF o.current >= 1 THEN "DISCHARGE_CC"
                          ELSE IF o.current <= -1 THEN "CHARGE_CC" ELSE "REST">>

\* Faulty variant: a gap is reported and the state kept.
ClassifiedOn(o) ==
  LET c == [classifier EXCEPT !.last = o.time]
      resting == [c EXCEPT !.rest = IF @ = None THEN o.time ELSE @]
  IN CASE classifier.last # None /\ o.dt > MaxInterval -> <<c, "DATA_GAPPED">>
       [] OTHER ->
            IF o.current = None THEN <<c, "REST">>
            ELSE IF Magnitude(o.current) > 1 THEN Moving([c EXCEPT !.rest = None], o)
            ELSE IF o.time - resting.rest >= RestDuration
            THEN <<[resting EXCEPT !.currents = <<>>], "REST">>
            ELSE Moving(resting, o)

\* classify(): the interval is the synchronizer's, not the classifier's own.
Classified(o) ==
  LET c == [classifier EXCEPT !.last = o.time]
      resting == [c EXCEPT !.rest = IF @ = None THEN o.time ELSE @]
  IN CASE classifier.last # None /\ o.time < classifier.last -> <<classifier, "DATA_GAPPED">>
       [] classifier.last # None /\ o.time >= classifier.last /\ o.dt > MaxInterval ->
            <<[FreshClassifier EXCEPT !.last = o.time], "DATA_GAPPED">>
       [] OTHER ->
            IF o.current = None THEN <<c, "REST">>
            ELSE IF Magnitude(o.current) > 1 THEN Moving([c EXCEPT !.rest = None], o)
            ELSE IF o.time - resting.rest >= RestDuration
            THEN <<[resting EXCEPT !.currents = <<>>], "REST">>
            ELSE Moving(resting, o)

-----------------------------------------------------------------------------
(* The evidence: p, v are the latest parameters and validation report.     *)

\* What is measured always supports.
Measured(o) ==
  UNION {FlagIf(o.voltage, "voltage"), FlagIf(o.current # None, "current"),
         FlagIf(o.temperature # None, "temperature"), FlagIf(o.ambient, "ambient")}

\* What is compared with the model, or is the result of an engine.  The
\* thermal residual is looked up under a name the synchronizer does not use.
Usable(o, p, v) ==
  UNION {Measured(o), FlagIf(o.spread # None, "cells"), FlagIf(o.vres # None, "residual"),
         FlagIf(v # <<>>, "validation"), FlagIf(p # <<>>, "resistance"),
         FlagIf(o.soh # None, "soh"), FlagIf(o.soh # None, "cycles")}

\* The state of the active window is none of those that would support.
Supporting(o, p) ==
  UNION {Measured(o),
         FlagIf(o.spread # None /\ o.spread > 50, "cells"),
         FlagIf(o.vres # None /\ Magnitude(o.vres) > 50, "residual"),
         FlagIf(p # <<>> /\ p.r0 > 120, "resistance"),
         FlagIf(o.soh # None /\ o.soh < 80, "soh"), FlagIf(o.soh # None, "cycles")}

\* evaluate_evidence()
Covered(h, usable) == Required(h) \subseteq usable
Channels(h, supporting) == (Required(h) \union Optional(h)) \intersect supporting
Supported(h, usable, supporting) == Covered(h, usable) /\ Channels(h, supporting) # {}

\* Faulty variant: support does not interrupt the recovery.
TrackedThrough(t, supported) ==
  IF supported
  THEN [t EXCEPT !.support = @ + 1, !.persisted = @ \/ t.support + 1 >= Debounce,
                 !.recovered = FALSE]
  ELSE IF ~t.persisted THEN FreshTracker
  ELSE IF t.recovery + 1 >= Hysteresis THEN [FreshTracker EXCEPT !.recovered = TRUE]
  ELSE [t EXCEPT !.support = 0, !.recovery = @ + 1]

\* TemporalPersistenceTracker.update()
Tracked(t, supported) ==
  IF supported
  THEN [support |-> t.support + 1, recovery |-> 0,
        persisted |-> t.persisted \/ t.support + 1 >= Debounce, recovered |-> FALSE]
  ELSE IF ~t.persisted THEN FreshTracker
  ELSE IF t.recovery + 1 >= Hysteresis THEN [FreshTracker EXCEPT !.recovered = TRUE]
  ELSE [t EXCEPT !.support = 0, !.recovery = @ + 1]

\* is_model_validation_critical_eligible(), "None": no report.
CriticalEligible(state) ==
  state \in {"None", "VALIDATED", "VALIDATING", "EXCITATION_STEADY_STATE_ONLY"}

\* The state of the active window is what the engine asks for.
ValidationState(v) == IF v = <<>> THEN "None" ELSE v.active

\* h is ranked before g: by coverage and score, channels, persistence, id.
Leads(h, g, channels) ==
  LET persisted(x) == IF trackers'[x].persisted THEN 1 ELSE 0
      a == Cardinality(channels[h])
      b == Cardinality(channels[g])
  IN \/ a > b
     \/ a = b /\ persisted(h) > persisted(g)
     \/ a = b /\ persisted(h) = persisted(g) /\ Rank[h] < Rank[g]

Transition(state, o) ==
  lifecycle' =
    [state |-> state,
     transitions |-> IF state = lifecycle.state THEN lifecycle.transitions
                     ELSE Pushed(lifecycle.transitions,
                                 [from |-> lifecycle.state, to |-> state, time |-> o.time],
                                 TransitionHistory)]

Severity(state) ==
  CASE state = "DIAGNOSED_CRITICAL" -> "CRITICAL"
    [] state = "DIAGNOSED" -> "WARNING"
    [] state \in {"DATA_QUALITY_FAILED", "INSUFFICIENT_EVIDENCE"} -> "UNKNOWN"
    [] OTHER -> "INFORMATIONAL"

Conclude(o, state, context, leading, anomalous) ==
  /\ Transition(state, o)
  /\ assessment' = [time |-> o.time, state |-> state, severity |-> Severity(state),
                    context |-> context, leading |-> leading, anomalies |-> anomalous]

\* The state when h leads: its score is 1, nothing contraindicates.
LedBy(h, channels, v) ==
  CASE ~trackers'[h].persisted -> "ANOMALY_DETECTED"
    [] trackers'[h].persisted /\ h \in Physical /\ Cardinality(channels) >= 2
         /\ CriticalEligible(ValidationState(v)) -> "DIAGNOSED_CRITICAL"
    [] OTHER -> "DIAGNOSED"

\* The state when no hypothesis has support.
Unled(usable, supporting) ==
  IF \E h \in Hypotheses : ~Covered(h, usable) /\ Channels(h, supporting) # {}
  THEN "INSUFFICIENT_EVIDENCE"
  ELSE IF \E h \in Hypotheses : trackers'[h].recovered THEN "RECOVERED"
  ELSE "NORMAL"

\* step(), from the pre-check on.  _last_timestamp_ns is only recorded for
\* corrupted telemetry, and the synchronizer lets no earlier timestamp pass.
Diagnose(o, p, v) ==
  LET context == Classified(o)
      usable == Usable(o, p, v)
      supporting == Supporting(o, p)
      channels == [h \in Hypotheses |-> Channels(h, supporting)]
      supported == {h \in Hypotheses : Supported(h, usable, supporting)}
      anomalous == Cardinality({h \in Hypotheses : channels[h] # {}})
  IN \/ /\ o.invalid
        /\ Conclude(o, "DATA_QUALITY_FAILED", "REST", "none", 0)
        /\ UNCHANGED <<classifier, trackers>>
     \/ /\ ~o.invalid /\ context[2] = "DATA_GAPPED"
        /\ classifier' = context[1]
        /\ Conclude(o, "INSUFFICIENT_EVIDENCE", context[2], "none", 0)
        /\ UNCHANGED trackers
     \/ /\ ~o.invalid /\ context[2] # "DATA_GAPPED"
        /\ classifier' = context[1]
        /\ trackers' = [h \in Hypotheses |-> Tracked(trackers[h], h \in supported)]
        /\ \/ /\ supported = {}
              /\ Conclude(o, Unled(usable, supporting), context[2], "none", anomalous)
           \/ \E h \in supported :
                /\ \A g \in supported \ {h} : Leads(h, g, channels)
                /\ Conclude(o, LedBy(h, channels[h], v), context[2], h, anomalous)
=============================================================================
