------------------------------ MODULE Calibration ------------------------------
(***************************************************************************)
(* calibration/: the resistance of the battery identified online, by       *)
(* recursive least squares.  A detector decides from the last currents     *)
(* what a step may identify, the identifier keeps the previous sample as   *)
(* its regressors, and a guard refuses parameters that are not physical.   *)
(*                                                                         *)
(* The estimate itself is abstract: a resistance that is nominal or grown  *)
(* (in percent of the nominal one), the other parameters within the usual  *)
(* bounds, at the extremes only the guard allows, or not recovered.        *)
(***************************************************************************)
EXTENDS Observation

CONSTANTS
  MaxInterval,       \* max_dt_s: 5 s in the code
  ExcitationWindow   \* excitation_window_size: 10 in the code

ASSUME CalibrationAssumption ==
  /\ MaxInterval \in Nat \ {0}
  /\ ExcitationWindow \in Nat /\ ExcitationWindow >= 3

VARIABLES
  excitation,   \* ExcitationDetector: its window, last current and timestamp
  rls,          \* RLSParameterIdentifier: theta, covariance, counters, regressors
  parameters    \* _latest_parameter_set

calibrationVars == <<excitation, rls, parameters>>

Resistances == {100, 130}
Secondaries == {"none", "typical", "extreme"}
GatingStatuses ==
  {"SENSOR_INVALID", "NON_MONOTONIC_TIMESTAMP", "TELEMETRY_GAP", "MISSING_CURRENT",
   "SOC_CLIFF_REGIME", "VOLTAGE_RESIDUAL_OUTLIER", "INSUFFICIENT_CURRENT", "ACTIVE",
   "PRIMARY_ONLY_R0", "INITIALIZING_REGRESSORS", "INNOVATION_OUTLIER", "UPDATE_REJECTED"}

\* y[k-1] and I[k-1], by the sample they were taken from.
Regressors == {<<>>} \union [time: Nat, current: Values]
ParameterSets == [time: Nat, r0: Resistances, secondary: Secondaries, confident: BOOLEAN,
                  samples: Nat, status: GatingStatuses]

CalibrationTypeOK ==
  /\ excitation \in [window: Seq(Values), last: Values, time: Nat \union {None}]
  /\ Len(excitation.window) <= ExcitationWindow
  /\ rls \in [r0: Resistances, secondary: Secondaries, confident: BOOLEAN,
              samples: Nat, rejections: Nat, prev: Regressors]
  /\ parameters \in {<<>>} \union ParameterSets

NoExcitation == [window |-> <<>>, last |-> None, time |-> None]

\* theta starts at the nominal parameters, with a wide covariance.
CalibrationInit ==
  /\ excitation = NoExcitation
  /\ rls = [r0 |-> 100, secondary |-> "typical", confident |-> FALSE,
            samples |-> 0, rejections |-> 0, prev |-> <<>>]
  /\ parameters = <<>>

\* reset() keeps theta.
ResetCalibration ==
  /\ excitation' = NoExcitation
  /\ rls' = [rls EXCEPT !.confident = FALSE, !.samples = 0, !.rejections = 0, !.prev = <<>>]
  /\ parameters' = <<>>

\* Enough variation: a variance of 0.01 A^2, or a step of 0.2 A.
Excited(window, change) ==
  /\ Len(window) >= 3
  /\ ScaledVariance(window) >= Len(window) * Len(window) \/ change >= 2

\* Without a voltage residual there is nothing to exceed.
ResidualOutlier(o) == o.vres # None /\ Magnitude(o.vres) > 150

\* ExcitationDetector.evaluate(): the detector after it, and its verdict.
Gating(o) ==
  LET gap == excitation.time # None /\ o.time > excitation.time + MaxInterval
      change == IF excitation.last = None THEN 0 ELSE Magnitude(o.current - excitation.last)
      window == Pushed(excitation.window, o.current, ExcitationWindow)
  IN CASE o.invalid -> <<excitation, "SENSOR_INVALID">>
       [] ~o.invalid /\ excitation.time # None /\ o.time <= excitation.time ->
            <<excitation, "NON_MONOTONIC_TIMESTAMP">>
       [] ~o.invalid /\ gap ->
            <<[window |-> <<>>, last |-> None, time |-> o.time], "TELEMETRY_GAP">>
       [] OTHER ->
            IF o.current = None
            THEN <<[excitation EXCEPT !.time = o.time], "MISSING_CURRENT">>
            ELSE <<[window |-> window, last |-> o.current, time |-> o.time],
                   CASE o.cliff -> "SOC_CLIFF_REGIME"
                     [] ~o.cliff /\ ResidualOutlier(o) -> "VOLTAGE_RESIDUAL_OUTLIER"
                     [] OTHER -> CASE o.current = 0 -> "INSUFFICIENT_CURRENT"
                                   [] Excited(window, change) -> "ACTIVE"
                                   [] OTHER -> "PRIMARY_ONLY_R0">>

Invalid == {"SENSOR_INVALID", "NON_MONOTONIC_TIMESTAMP", "TELEMETRY_GAP", "MISSING_CURRENT"}
Observing == {"ACTIVE", "PRIMARY_ONLY_R0"}

\* _build_snapshot(): without a result of the guard it recovers from theta,
\* as if the step had lasted one second.
Publish(o, status, secondary) ==
  parameters' = [time |-> o.time, r0 |-> rls'.r0, secondary |-> secondary,
                 confident |-> rls'.confident, samples |-> rls'.samples, status |-> status]

\* What the guard recovers from theta over an interval: dt enters the time
\* constant and the capacitance.
Recovered(secondary, dt) == IF dt = 1 THEN {secondary} ELSE Secondaries

\* Faulty variant: the regressors survive a gap.
GatedOn(o, status) ==
  LET sample == [time |-> o.time, current |-> o.current]
  IN \/ /\ status \in Invalid \/ ~o.voltage
        /\ UNCHANGED rls
        /\ Publish(o, status, rls.secondary)
     \/ /\ status \notin Invalid /\ o.voltage /\ rls.prev = <<>>
        /\ rls' = [rls EXCEPT !.prev = sample]
        /\ Publish(o, "INITIALIZING_REGRESSORS", rls.secondary)
     \/ /\ status \notin Invalid \union Observing /\ o.voltage /\ rls.prev # <<>>
        /\ rls' = [rls EXCEPT !.prev = sample]
        /\ Publish(o, status, rls.secondary)

\* update() before the regressors are used.
Gated(o, status) ==
  LET sample == [time |-> o.time, current |-> o.current]
  IN \/ /\ status = "TELEMETRY_GAP"
        /\ \E c \in {FALSE, rls.confident} :
             rls' = [rls EXCEPT !.confident = c, !.prev = <<>>]
        /\ Publish(o, status, rls.secondary)
     \/ /\ status # "TELEMETRY_GAP" /\ (status \in Invalid \/ ~o.voltage)
        /\ UNCHANGED rls
        /\ Publish(o, status, rls.secondary)
     \/ /\ status \notin Invalid /\ o.voltage /\ rls.prev = <<>>
        /\ rls' = [rls EXCEPT !.prev = sample]
        /\ Publish(o, "INITIALIZING_REGRESSORS", rls.secondary)
     \/ /\ status \notin Invalid \union Observing /\ o.voltage /\ rls.prev # <<>>
        /\ rls' = [rls EXCEPT !.prev = sample]
        /\ Publish(o, status, rls.secondary)

\* What an update of the U-D factors may make of the confidence, which
\* compares their diagonal and their trace with limits.
Confidences == BOOLEAN

\* update() with the regressors: the innovation is an outlier, the guard
\* rejects the candidate, or theta becomes the candidate.  The covariance is
\* updated before the guard is asked.
Identify(o, status) ==
  LET sample == [time |-> o.time, current |-> o.current]
  IN /\ status \in Observing /\ o.voltage /\ rls.prev # <<>>
     /\ \/ /\ rls' = [rls EXCEPT !.prev = sample]
           /\ Publish(o, "INNOVATION_OUTLIER", rls.secondary)
        \/ \E c \in Confidences :
             /\ rls' = [rls EXCEPT !.confident = c, !.rejections = @ + 1, !.prev = sample]
             /\ Publish(o, "UPDATE_REJECTED", rls.secondary)
        \/ \E c \in Confidences, r \in Resistances, s \in Secondaries :
             /\ rls' = [rls EXCEPT !.r0 = r, !.secondary = s, !.confident = c,
                                   !.samples = @ + 1, !.prev = sample]
             /\ \E found \in Recovered(s, o.dt) :
                  Publish(o, IF status = "ACTIVE" /\ found # "none" THEN "ACTIVE"
                             ELSE "PRIMARY_ONLY_R0", found)

Calibrate(o) ==
  LET verdict == Gating(o)
  IN /\ excitation' = verdict[1]
     /\ Gated(o, verdict[2]) \/ Identify(o, verdict[2])
=============================================================================
