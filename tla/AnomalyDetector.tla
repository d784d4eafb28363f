---------------------------- MODULE AnomalyDetector ----------------------------
(***************************************************************************)
(* runtime/anomaly_detector.py: the first engine to see a step.  It keeps  *)
(* a window of voltage residuals and the last temperature, and reports     *)
(* what exceeds the thresholds of runtime/config.py.                       *)
(***************************************************************************)
EXTENDS Observation

CONSTANTS
  BiasWindow,      \* sensor_drift_window_size: 10 in the code
  MinBiasSamples   \* min_samples_for_drift_detection: 5 in the code

ASSUME BiasAssumption ==
  /\ BiasWindow \in Nat /\ BiasWindow >= 2
  /\ MinBiasSamples \in 1..BiasWindow

VARIABLES
  residuals,   \* _voltage_residuals
  lastTemp,    \* _prev_temp_c and _prev_temp_ts_ns
  anomalies    \* the report of the last step

detectorVars == <<residuals, lastTemp, anomalies>>

Severities == <<"INFO", "WARNING", "CRITICAL", "EMERGENCY">>   \* in SEVERITY_ORDER
AnomalyTypes == {"VOLTAGE_DIVERGENCE", "THERMAL_DIVERGENCE", "THERMAL_RUNAWAY_PRECURSOR",
                 "CELL_IMBALANCE_DIVERGENCE", "SENSOR_DRIFT", "SOC_DIVERGENCE"}
Anomalies == [type: AnomalyTypes, severity: Range(Severities)]

DetectorTypeOK ==
  /\ residuals \in Seq(Values \ {None}) /\ Len(residuals) <= BiasWindow
  /\ lastTemp \in {<<>>} \union [value: Values, time: Nat]
  /\ anomalies \subseteq Anomalies

ClearDetector == residuals' = <<>> /\ lastTemp' = <<>> /\ anomalies' = {}

DetectorInit == residuals = <<>> /\ lastTemp = <<>> /\ anomalies = {}

If(condition, type, severity) ==
  IF condition THEN {[type |-> type, severity |-> severity]} ELSE {}

\* A residual against its warning and its critical threshold.
Graded(x, warning, critical, type) ==
  IF x = None THEN {}
  ELSE If(Magnitude(x) >= critical, type, "CRITICAL")
       \union If(Magnitude(x) \in warning..critical - 1, type, "WARNING")

\* The cutoff, and the rate of rise: 0.5 degrees per second.
Runaway(o) ==
  LET elapsed == o.time - lastTemp.time
  IN IF o.temperature = None THEN {}
     ELSE If(o.temperature >= 65, "THERMAL_RUNAWAY_PRECURSOR", "EMERGENCY")
          \union If(/\ lastTemp # <<>>
                    /\ elapsed > 0 /\ 2 * (o.temperature - lastTemp.value) >= elapsed,
                    "THERMAL_RUNAWAY_PRECURSOR", "CRITICAL")

\* A mean residual of 30 mV over the window, which keeps what it has when the
\* voltage is missing.
Biased(window) ==
  If(Len(window) >= MinBiasSamples /\ Magnitude(Total(window)) >= 30 * Len(window),
     "SENSOR_DRIFT", "WARNING")

\* evaluate()
Detect(o) ==
  /\ residuals' = IF o.vres = None THEN residuals ELSE Pushed(residuals, o.vres, BiasWindow)
  /\ lastTemp' = IF o.temperature = None THEN lastTemp
                 ELSE [value |-> o.temperature, time |-> o.time]
  /\ anomalies' = UNION {Graded(o.vres, 50, 150, "VOLTAGE_DIVERGENCE"),
                         Graded(o.tres, 3, 8, "THERMAL_DIVERGENCE"),
                         Runaway(o),
                         If(o.spread # None /\ o.spread >= 80, "CELL_IMBALANCE_DIVERGENCE", "WARNING"),
                         Biased(residuals'),
                         Graded(o.socGap, 5, 15, "SOC_DIVERGENCE")}
=============================================================================
