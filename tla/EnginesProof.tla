----------------------------- MODULE EnginesProof -----------------------------
(***************************************************************************)
(* Theorems about Engines, for any fittings, thresholds and window sizes:  *)
(* fresh regressors, sound windows, nothing kept across a gap, trackers    *)
(* that count what the verdicts say.                                       *)
(***************************************************************************)
EXTENDS Engines, FiniteSetTheorems, TLAPS

-----------------------------------------------------------------------------
(* What the operators of the engines return.                               *)

LEMMA PushedType ==
  ASSUME NEW S, NEW s \in Seq(S), NEW x \in S, NEW n \in Nat \ {0}
  PROVE  /\ Pushed(s, x, n) \in Seq(S)
         /\ Pushed(s, x, n) = IF Len(s) + 1 > n THEN Tail(Append(s, x)) ELSE Append(s, x)
         /\ Len(Pushed(s, x, n)) = IF Len(s) + 1 > n THEN Len(s) ELSE Len(s) + 1
  <1> DEFINE t == Append(s, x)
  <1>1. t \in Seq(S) /\ Len(t) = Len(s) + 1 /\ t # <<>> /\ Len(s) \in Nat
    OBVIOUS
  <1>2. Tail(t) \in Seq(S) /\ Len(Tail(t)) = Len(s)
    BY <1>1
  <1>3. Pushed(s, x, n) = IF Len(t) > n THEN Tail(t) ELSE t
    BY DEF Pushed
  <1>4. QED
    BY <1>1, <1>2, <1>3

LEMMA PushedOnEmpty ==
  ASSUME NEW x, NEW n \in Nat \ {0}
  PROVE  Len(Pushed(<<>>, x, n)) <= 1
  <1>1. Append(<<>>, x) = <<x>> /\ Len(<<x>>) = 1
    OBVIOUS
  <1>2. Pushed(<<>>, x, n) = <<x>>
    BY <1>1 DEF Pushed
  <1>3. QED
    BY <1>1, <1>2

LEMMA PushedElements ==
  ASSUME NEW S, NEW s \in Seq(S), NEW x \in S, NEW n \in Nat \ {0}
  PROVE  LET d == IF Len(s) + 1 > n THEN 1 ELSE 0
         IN /\ Len(Pushed(s, x, n)) = Len(s) + 1 - d
            /\ \A i \in 1..Len(Pushed(s, x, n)) :
                 Pushed(s, x, n)[i] = IF i + d = Len(s) + 1 THEN x ELSE s[i + d]
  <1> DEFINE t == Append(s, x)
  <1>1. /\ t \in Seq(S) /\ Len(t) = Len(s) + 1 /\ t # <<>> /\ Len(s) \in Nat
        /\ \A i \in 1..Len(s) + 1 : t[i] = IF i = Len(s) + 1 THEN x ELSE s[i]
    OBVIOUS
  <1> HIDE DEF t
  <1>2. Len(Tail(t)) = Len(s) /\ \A i \in 1..Len(s) : Tail(t)[i] = t[i + 1]
    BY <1>1
  <1>3. Pushed(s, x, n) = IF Len(s) + 1 > n THEN Tail(t) ELSE t
    BY PushedType DEF t
  <1>4. QED
    BY <1>1, <1>2, <1>3

LEMMA ObservedTyped ==
  ASSUME NEW scene \in Scenes, NEW time \in Nat, synced \in Times,
         synced # None => time >= synced
  PROVE  /\ ObservedAt(scene, time) \in Observed
         /\ ObservedAt(scene, time).time = time
         /\ ObservedAt(scene, time).dt = IF synced = None THEN 1 ELSE time - synced
  <1> DEFINE o == ObservedAt(scene, time)
  <1>1. DOMAIN scene = {"invalid", "voltage", "current", "temperature", "ambient", "spread",
                        "vres", "tres", "socGap", "cliff", "soh"}
    BY DEF Scenes
  <1>2. /\ o.time = time
        /\ o.dt = IF synced = None THEN 1 ELSE time - synced
        /\ o.invalid = scene.invalid /\ o.voltage = scene.voltage /\ o.current = scene.current
        /\ o.temperature = scene.temperature /\ o.ambient = scene.ambient
        /\ o.spread = scene.spread /\ o.vres = scene.vres /\ o.tres = scene.tres
        /\ o.socGap = scene.socGap /\ o.cliff = scene.cliff /\ o.soh = scene.soh
    BY <1>1 DEF ObservedAt
  <1>3. o.dt \in Nat
    BY <1>2 DEF Times
  <1>4. /\ o = [f \in DOMAIN o |-> o[f]]
        /\ DOMAIN o = {"time", "dt", "invalid", "voltage", "current", "temperature", "ambient",
                       "spread", "vres", "tres", "socGap", "cliff", "soh"}
    BY <1>1 DEF ObservedAt
  <1>5. QED
    BY <1>2, <1>3, <1>4 DEF Observed, Scenes
-----------------------------------------------------------------------------
(* The types, engine by engine.                                            *)

LEMMA DetectTyped ==
  ASSUME DetectorTypeOK, NEW o \in Observed, Detect(o)
  PROVE  DetectorTypeOK'
  <1>1. residuals' \in Seq(Values \ {None}) /\ Len(residuals') <= BiasWindow
    <2>1. CASE o.vres = None
      BY <2>1 DEF Detect, DetectorTypeOK
    <2>2. CASE o.vres # None
      <3>1. o.vres \in Values \ {None}
        BY <2>2 DEF Observed
      <3>2. /\ Pushed(residuals, o.vres, BiasWindow) \in Seq(Values \ {None})
            /\ Len(Pushed(residuals, o.vres, BiasWindow)) <= BiasWindow
        <4>1. residuals \in Seq(Values \ {None}) /\ Len(residuals) <= BiasWindow
          BY DEF DetectorTypeOK
        <4>2. BiasWindow \in Nat \ {0} /\ Len(residuals) \in Nat
          BY <4>1, BiasAssumption
        <4>3. QED
          <5> DEFINE S == Values \ {None}
          <5>1. residuals \in Seq(S) /\ o.vres \in S
            BY <3>1, <4>1
          <5> HIDE DEF S
          <5>2. /\ Pushed(residuals, o.vres, BiasWindow) \in Seq(S)
                /\ Len(Pushed(residuals, o.vres, BiasWindow)) <= BiasWindow
            BY <4>1, <4>2, <5>1, PushedType
          <5>3. QED
            BY <5>2 DEF S
      <3>3. QED
        BY <2>2, <3>2 DEF Detect
    <2>3. QED
      BY <2>1, <2>2
  <1>2. lastTemp' \in {<<>>} \union [value: Values, time: Nat]
    BY DEF Detect, DetectorTypeOK, Observed
  <1>3. anomalies' \subseteq Anomalies
    <2>1. ASSUME NEW c, NEW type \in AnomalyTypes,
                 NEW severity \in {"WARNING", "CRITICAL", "EMERGENCY"}
          PROVE  If(c, type, severity) \subseteq Anomalies
      <3>1. severity \in Range(Severities)
        BY DEF Range, Severities
      <3>2. QED
        BY <3>1 DEF If, Anomalies
    <2>2. ASSUME NEW x, NEW a, NEW b, NEW type \in AnomalyTypes
          PROVE  Graded(x, a, b, type) \subseteq Anomalies
      BY <2>1 DEF Graded
    <2>3. Runaway(o) \subseteq Anomalies /\ Biased(residuals') \subseteq Anomalies
      BY <2>1 DEF Runaway, Biased, AnomalyTypes
    <2>4. QED
      BY <2>1, <2>2, <2>3 DEF Detect, AnomalyTypes
  <1>4. QED
    BY <1>1, <1>2, <1>3 DEF DetectorTypeOK

\* What the excitation detector makes of a step.
GatingResult(o) ==
  \/ /\ Gating(o)[2] = "SENSOR_INVALID" /\ Gating(o)[1] = excitation
     /\ o.invalid
  \/ /\ Gating(o)[2] = "NON_MONOTONIC_TIMESTAMP" /\ Gating(o)[1] = excitation
     /\ excitation.time # None /\ o.time <= excitation.time
  \/ /\ Gating(o)[2] = "TELEMETRY_GAP"
     /\ Gating(o)[1] = [window |-> <<>>, last |-> None, time |-> o.time]
     /\ excitation.time # None /\ o.time > excitation.time + MaxInterval
  \/ /\ excitation.time # None => o.time <= excitation.time + MaxInterval
     /\ ~o.invalid
     /\ \/ /\ Gating(o)[2] = "MISSING_CURRENT" /\ o.current = None
           /\ Gating(o)[1] = [excitation EXCEPT !.time = o.time]
        \/ /\ Gating(o)[2] \in GatingStatuses \ Invalid
           /\ Gating(o)[1] = [window |-> Pushed(excitation.window, o.current, ExcitationWindow),
                              last |-> o.current, time |-> o.time]

LEMMA GatingCases ==
  ASSUME CalibrationTypeOK, NEW o \in Observed
  PROVE  GatingResult(o)
  <1>1. /\ excitation.time \in Nat \union {None} /\ o.time \in Nat /\ MaxInterval \in Nat
        /\ o.invalid \in BOOLEAN /\ o.cliff \in BOOLEAN
    BY CalibrationAssumption DEF CalibrationTypeOK, Observed
  <1>2. QED
    BY <1>1 DEF GatingResult, Gating, Invalid, GatingStatuses

LEMMA CalibrateTyped ==
  ASSUME CalibrationTypeOK, NEW o \in Observed, Calibrate(o)
  PROVE  CalibrationTypeOK' /\ parameters' \in ParameterSets
  <1>1. GatingResult(o)
    BY GatingCases
  <1>2. /\ excitation' \in [window: Seq(Values), last: Values, time: Nat \union {None}]
        /\ Len(excitation'.window) <= ExcitationWindow
    <2>1. /\ excitation.window \in Seq(Values) /\ o.current \in Values
          /\ Len(excitation.window) \in Nat /\ Len(excitation.window) <= ExcitationWindow
          /\ ExcitationWindow \in Nat \ {0}
      BY CalibrationAssumption DEF CalibrationTypeOK, Observed
    <2>2. /\ Pushed(excitation.window, o.current, ExcitationWindow) \in Seq(Values)
          /\ Len(Pushed(excitation.window, o.current, ExcitationWindow)) <= ExcitationWindow
      BY <2>1, PushedType
    <2>3. None \in Values /\ <<>> \in Seq(Values) /\ Len(<<>>) = 0
      BY DEF Values
    <2>4. excitation' = Gating(o)[1]
      BY DEF Calibrate
    <2>5. o.time \in Nat \union {None} /\ o.current \in Values
      BY DEF Observed
    <2>6. CASE Gating(o)[1] = [excitation EXCEPT !.time = o.time] \/ Gating(o)[1] = excitation
      BY <2>4, <2>5, <2>6 DEF CalibrationTypeOK
    <2>7. CASE Gating(o)[1] = [window |-> <<>>, last |-> None, time |-> o.time]
      BY <2>3, <2>4, <2>5, <2>7, CalibrationAssumption
    <2>8. CASE Gating(o)[1] = [window |-> Pushed(excitation.window, o.current, ExcitationWindow),
                               last |-> o.current, time |-> o.time]
      BY <2>2, <2>4, <2>5, <2>8
    <2>9. QED
      BY <1>1, <2>6, <2>7, <2>8 DEF GatingResult
  <1>3. Gating(o)[2] \in GatingStatuses
    BY <1>1 DEF GatingResult, GatingStatuses
  <1>4. [time |-> o.time, current |-> o.current] \in Regressors /\ <<>> \in Regressors
    BY DEF Regressors, Observed
  <1>5. /\ rls' \in [r0: Resistances, secondary: Secondaries, confident: BOOLEAN,
                     samples: Nat, rejections: Nat, prev: Regressors]
        /\ parameters' \in ParameterSets
    <2> DEFINE status == Gating(o)[2]
               sample == [time |-> o.time, current |-> o.current]
               R == [r0: Resistances, secondary: Secondaries, confident: BOOLEAN,
                     samples: Nat, rejections: Nat, prev: Regressors]
    <2>1. /\ rls \in R /\ sample \in Regressors /\ <<>> \in Regressors
          /\ status \in GatingStatuses
          /\ Gated(o, status) \/ Identify(o, status)
      BY <1>3, <1>4 DEF CalibrationTypeOK, Calibrate
    <2>2. ASSUME rls' \in R, NEW x \in GatingStatuses, NEW y \in Secondaries, Publish(o, x, y)
          PROVE  parameters' \in ParameterSets
      BY <2>2 DEF Publish, ParameterSets, Observed
    <2>3. rls.secondary \in Secondaries
      BY <2>1
    <2>4. {"INITIALIZING_REGRESSORS", "INNOVATION_OUTLIER", "UPDATE_REJECTED", "ACTIVE",
           "PRIMARY_ONLY_R0"} \subseteq GatingStatuses
      BY DEF GatingStatuses
    <2> HIDE DEF status
    <2>5. CASE Gated(o, status)
      <3>1. rls' \in R
        BY <2>1, <2>5 DEF Gated
      <3>2. QED
        BY <2>1, <2>2, <2>3, <2>4, <2>5, <3>1 DEF Gated
    <2>6. CASE Identify(o, status)
      <3> HIDE DEF sample
      <3>1. CASE rls' = [rls EXCEPT !.prev = sample] /\ Publish(o, "INNOVATION_OUTLIER", rls.secondary)
        BY <2>1, <2>2, <2>3, <2>4, <3>1
      <3>2. ASSUME NEW c \in Confidences,
                   rls' = [rls EXCEPT !.confident = c, !.rejections = @ + 1, !.prev = sample],
                   Publish(o, "UPDATE_REJECTED", rls.secondary)
            PROVE  rls' \in R /\ parameters' \in ParameterSets
        <4>1. c \in BOOLEAN /\ rls.rejections + 1 \in Nat
          BY <2>1 DEF Confidences
        <4>2. rls' \in R
          BY <2>1, <3>2, <4>1
        <4>3. QED
          BY <2>2, <2>3, <2>4, <3>2, <4>2
      <3>3. ASSUME NEW c \in Confidences, NEW r \in Resistances, NEW s \in Secondaries,
                   rls' = [rls EXCEPT !.r0 = r, !.secondary = s, !.confident = c,
                                      !.samples = @ + 1, !.prev = sample],
                   NEW found \in Recovered(s, o.dt),
                   Publish(o, IF status = "ACTIVE" /\ found # "none" THEN "ACTIVE"
                              ELSE "PRIMARY_ONLY_R0", found)
            PROVE  rls' \in R /\ parameters' \in ParameterSets
        <4>1. c \in BOOLEAN /\ rls.samples + 1 \in Nat
          BY <2>1 DEF Confidences
        <4>2. rls' \in R
          BY <2>1, <3>3, <4>1
        <4>3. found \in Secondaries
          BY DEF Recovered
        <4>4. QED
          BY <2>2, <2>4, <3>3, <4>2, <4>3
      <3>4. QED
        BY <2>6, <3>1, <3>2, <3>3 DEF Identify, sample
    <2>7. QED
      BY <2>1, <2>5, <2>6
  <1>6. QED
    BY <1>2, <1>5 DEF CalibrationTypeOK
ActiveWindows == [start: Times, last: Times, flags: SUBSET Flags,
                  samples: Seq([current: Values, vres: Values])]

LEMMA AuditTyped ==
  ASSUME NEW o
  PROVE  Audit(o) \subseteq Flags
  BY DEF Audit, Flags, FlagIf

LEMMA AuditedIntoTyped ==
  ASSUME ValidationTypeOK, NEW o \in Observed
  PROVE  /\ AuditedInto(o) \in ActiveWindows
         /\ AuditedInto(o) =
              IF "TELEMETRY_GAP" \in Audit(o)
              THEN [start |-> None, last |-> None, flags |-> Audit(o), samples |-> <<>>]
              ELSE [window EXCEPT !.flags = window.flags \union Audit(o)]
         /\ Len(AuditedInto(o).samples) < MaxSamples
  <1>1. Audit(o) \subseteq Flags
    BY AuditTyped
  <1>2. None \in Times /\ <<>> \in Seq([current: Values, vres: Values]) /\ Len(<<>>) = 0
        /\ 0 < MaxSamples
    BY ValidationAssumption DEF Times
  <1>3. window \in ActiveWindows /\ Len(window.samples) < MaxSamples
    BY DEF ValidationTypeOK, ActiveWindows
  <1>4. CASE "TELEMETRY_GAP" \in Audit(o)
    <2>1. AuditedInto(o) = [start |-> None, last |-> None, flags |-> Audit(o), samples |-> <<>>]
      BY <1>4 DEF AuditedInto, EmptyWindow
    <2>2. QED
      BY <1>1, <1>2, <1>4, <2>1 DEF ActiveWindows
  <1>5. CASE "TELEMETRY_GAP" \notin Audit(o)
    <2>1. AuditedInto(o) = [window EXCEPT !.flags = window.flags \union Audit(o)]
      BY <1>5 DEF AuditedInto
    <2>2. QED
      BY <1>1, <1>3, <1>5, <2>1 DEF ActiveWindows
  <1>6. QED
    BY <1>4, <1>5

LEMMA IngestedTyped ==
  ASSUME NEW w \in ActiveWindows, NEW o \in Observed
  PROVE  /\ Ingested(w, o) =
              [start |-> IF w.start = None THEN o.time ELSE w.start, last |-> o.time,
               flags |-> w.flags,
               samples |-> Append(w.samples, [current |-> o.current, vres |-> o.vres])]
         /\ Ingested(w, o) \in ActiveWindows
         /\ Len(Ingested(w, o).samples) = Len(w.samples) + 1
         /\ Ingested(w, o).samples # <<>>
         /\ Ingested(w, o).flags = w.flags
  <1> DEFINE sample == [current |-> o.current, vres |-> o.vres]
             T == [current: Values, vres: Values]
  <1>1. sample \in T /\ w.samples \in Seq(T)
    BY DEF Observed, ActiveWindows
  <1>2. Ingested(w, o) = [start |-> IF w.start = None THEN o.time ELSE w.start, last |-> o.time,
                          flags |-> w.flags, samples |-> Append(w.samples, sample)]
    <2>1. /\ w = [f \in {"start", "last", "flags", "samples"} |-> w[f]]
          /\ Ingested(w, o) = [[[w EXCEPT !.start = IF w.start = None THEN o.time ELSE w.start]
                                 EXCEPT !.last = o.time]
                                 EXCEPT !.samples = Append(w.samples, sample)]
      BY DEF Ingested, ActiveWindows
    <2> HIDE DEF sample
    <2>2. QED
      BY <2>1
  <1> HIDE DEF sample, T
  <1>3. /\ Append(w.samples, sample) \in Seq(T)
        /\ Len(Append(w.samples, sample)) = Len(w.samples) + 1
        /\ Append(w.samples, sample) # <<>>
    BY <1>1
  <1>4. w.start \in Times /\ o.time \in Times /\ w.flags \in SUBSET Flags
    BY DEF ActiveWindows, Observed, Times
  <1>5. QED
    BY <1>2, <1>3, <1>4 DEF ActiveWindows, T, sample

LEMMA SealingTyped ==
  ASSUME ValidationTypeOK, NEW w \in ActiveWindows, NEW state \in Verdicts,
         NEW evidence \in Tiers \union {"none"}
  PROVE  Sealing(w, state, evidence) \in Seq(Sealed) /\ Len(Sealing(w, state, evidence)) <= WindowHistory
  <1> DEFINE entry == [index |-> windowIndex, start |-> w.start, last |-> w.last,
                       count |-> Len(w.samples), state |-> state, flags |-> w.flags,
                       evidence |-> evidence]
  <1>1. Len(w.samples) \in Nat
    BY DEF ActiveWindows
  <1>2. entry \in Sealed
    BY <1>1 DEF Sealed, ActiveWindows, ValidationTypeOK
  <1>3. Sealing(w, state, evidence) = Pushed(windows, entry, WindowHistory)
    BY DEF Sealing
  <1>4. windows \in Seq(Sealed) /\ Len(windows) <= WindowHistory /\ WindowHistory \in Nat \ {0}
        /\ Len(windows) \in Nat
    BY ValidationAssumption DEF ValidationTypeOK
  <1> HIDE DEF entry
  <1>5. QED
    BY <1>2, <1>3, <1>4, PushedType

\* The cases of a validation step: it seals the active window, or only a gap
\* has sealed what there was.
LEMMA ValidateCases ==
  ASSUME ValidationTypeOK, NEW o \in Observed, Validate(o, parameters'),
         parameters' \in {<<>>} \union ParameterSets
  PROVE  LET w == Ingested(AuditedInto(o), o)
             gap == "TELEMETRY_GAP" \in Audit(o)
             sound == Audit(o) \intersect Unsound = {}
         IN /\ audited' = o.time
            /\ \/ /\ sound /\ ~gap /\ Full(w)
                  /\ \E evidence \in Tiers \union {"none"} :
                       windows' = Sealing(w, IF w.flags # {} THEN "DATA_QUALITY_FAILED"
                                             ELSE Judged(w.samples), evidence)
                  /\ window' = EmptyWindow /\ windowIndex' = windowIndex + 1
               \/ /\ ~(sound /\ ~gap /\ Full(w))
                  /\ windows' = IF gap THEN Sealing(window, "DATA_QUALITY_FAILED", "none") ELSE windows
                  /\ windowIndex' = IF gap THEN windowIndex + 1 ELSE windowIndex
                  /\ window' = IF sound THEN w ELSE AuditedInto(o)
            /\ evaluator' \in [r0: Resistances \union {None}, stable: Nat]
            /\ shadow' \in BOOLEAN
  <1>1. evaluator' \in [r0: Resistances \union {None}, stable: Nat]
    <2>1. CASE UNCHANGED evaluator
      BY <2>1 DEF ValidationTypeOK
    <2>2. CASE parameters' \in ParameterSets /\ Evaluated(parameters')
      <3>1. evaluator.stable + 1 \in Nat
        BY DEF ValidationTypeOK
      <3>2. QED
        BY <2>2, <3>1 DEF ValidationTypeOK, Evaluated, ParameterSets
    <2>3. QED
      BY <2>1, <2>2 DEF Validate
  <1>2. shadow' \in BOOLEAN
    BY DEF Validate, ShadowRuns, ValidationTypeOK
  <1>3. ASSUME NEW improved \in BOOLEAN
        PROVE  (IF parameters' = <<>> THEN "none" ELSE Tiered(parameters', improved))
                 \in Tiers \union {"none"}
    BY DEF Tiered, Tiers
  <1>4. QED
    BY <1>1, <1>2, <1>3 DEF Validate, Interrupted

LEMMA ValidateTyped ==
  ASSUME ValidationTypeOK, NEW o \in Observed, Validate(o, parameters'),
         parameters' \in {<<>>} \union ParameterSets
  PROVE  ValidationTypeOK' /\ report' # <<>>
  <1> DEFINE w == Ingested(AuditedInto(o), o)
             gap == "TELEMETRY_GAP" \in Audit(o)
             sound == Audit(o) \intersect Unsound = {}
  <1>1. AuditedInto(o) \in ActiveWindows /\ Len(AuditedInto(o).samples) < MaxSamples
    BY AuditedIntoTyped
  <1>2. /\ w \in ActiveWindows /\ Len(w.samples) = Len(AuditedInto(o).samples) + 1
        /\ Len(w.samples) \in Nat
    <2>1. w \in ActiveWindows /\ Len(w.samples) = Len(AuditedInto(o).samples) + 1
      BY <1>1, IngestedTyped
    <2> HIDE DEF w
    <2>2. QED
      BY <2>1 DEF ActiveWindows
  <1>3. Judged(w.samples) \in Verdicts /\ "DATA_QUALITY_FAILED" \in Verdicts
    BY DEF Judged, Verdicts
  <1>4. window \in ActiveWindows /\ EmptyWindow \in ActiveWindows /\ Len(EmptyWindow.samples) = 0
    BY DEF ValidationTypeOK, ActiveWindows, EmptyWindow, Times
  <1>5. audited' = o.time /\ audited' \in Times
    BY DEF Validate, Observed, Times
  <1>6. /\ windows' \in Seq(Sealed) /\ Len(windows') <= WindowHistory
        /\ windowIndex' \in Nat \ {0}
    <2>1. windowIndex \in Nat \ {0} /\ windows \in Seq(Sealed) /\ Len(windows) <= WindowHistory
      BY DEF ValidationTypeOK
    <2>2. ASSUME NEW evidence \in Tiers \union {"none"}
          PROVE  LET x == Sealing(w, IF w.flags # {} THEN "DATA_QUALITY_FAILED"
                                     ELSE Judged(w.samples), evidence)
                 IN x \in Seq(Sealed) /\ Len(x) <= WindowHistory
      BY <1>2, <1>3, SealingTyped
    <2>3. LET x == Sealing(window, "DATA_QUALITY_FAILED", "none")
          IN x \in Seq(Sealed) /\ Len(x) <= WindowHistory
      BY <1>3, <1>4, SealingTyped
    <2>4. QED
      BY <2>1, <2>2, <2>3, ValidateCases
  <1>7. window' \in ActiveWindows /\ Len(window'.samples) < MaxSamples
    <2>1. MaxSamples \in Nat \ {0}
      BY ValidationAssumption
    <2>2. CASE sound /\ ~gap /\ Full(w)
      BY <1>4, <2>1, <2>2, ValidateCases
    <2>3. CASE ~(sound /\ ~gap /\ Full(w))
      <3>1. window' = IF sound THEN w ELSE AuditedInto(o)
        BY <2>3, ValidateCases
      <3>2. CASE sound /\ ~gap
        BY <1>2, <2>1, <2>3, <3>1, <3>2 DEF Full
      <3>3. CASE sound /\ gap
        <4>1. AuditedInto(o).samples = <<>>
          BY <3>3, AuditedIntoTyped
        <4>2. Len(w.samples) = 1 /\ 1 < MaxSamples
          BY <1>2, <4>1, ValidationAssumption
        <4>3. QED
          BY <1>2, <3>1, <3>3, <4>2
      <3>4. CASE ~sound
        BY <1>1, <3>1, <3>4
      <3>5. QED
        BY <3>2, <3>3, <3>4
    <2>4. QED
      BY <2>2, <2>3
  <1>8. report' \in [active: {"VALIDATING", "INSUFFICIENT_DATA"}, completed: Seq(Sealed)]
    <2>1. ASSUME windows' # <<>>
          PROVE  <<Last(windows')>> \in Seq(Sealed)
      <3>1. Len(windows') \in 1..Len(windows')
        BY <1>6, <2>1
      <3>2. QED
        BY <1>6, <3>1 DEF Last
    <2>2. QED
      BY <1>6, <2>1 DEF Validate, ActiveReport
  <1>9. report' # <<>>
    BY DEF Validate, ActiveReport
  <1>10. QED
    <2>1. /\ evaluator' \in [r0: Resistances \union {None}, stable: Nat]
          /\ shadow' \in BOOLEAN
      BY ValidateCases
    <2>2. QED
      BY <1>5, <1>6, <1>7, <1>8, <1>9, <2>1 DEF ValidationTypeOK, ActiveWindows

Classifiers == [last: Times, rest: Times, temperature: Values, temperatureTime: Times,
                currents: Seq(Values)]

\* A step of a current that is not at rest keeps the classifier's clocks.
LEMMA MovingResult ==
  ASSUME NEW c \in Classifiers, Len(c.currents) <= RollingLength, NEW o \in Observed
  PROVE  /\ Moving(c, o)[1] \in Classifiers
         /\ Len(Moving(c, o)[1].currents) <= RollingLength
         /\ Moving(c, o)[2] \in Contexts \ {"DATA_GAPPED"}
         /\ Moving(c, o)[1].last = c.last /\ Moving(c, o)[1].rest = c.rest
         /\ Moving(c, o)[1].temperatureTime \in {c.temperatureTime, o.time}
         /\ Moving(c, o)[1].currents \in {c.currents, Pushed(c.currents, o.current, RollingLength)}
  <1> DEFINE warmed == IF o.temperature # None
                       THEN [c EXCEPT !.temperature = o.temperature, !.temperatureTime = o.time] ELSE c
             currents == Pushed(c.currents, o.current, RollingLength)
  <1>1. /\ currents \in Seq(Values) /\ Len(currents) <= RollingLength
    <2>1. /\ c.currents \in Seq(Values) /\ o.current \in Values /\ RollingLength \in Nat \ {0}
          /\ Len(c.currents) \in Nat
      BY DiagnosticsAssumption DEF Classifiers, Observed
    <2>2. QED
      BY <2>1, PushedType
  <1>2. /\ warmed \in Classifiers /\ warmed.last = c.last /\ warmed.rest = c.rest
        /\ warmed.temperatureTime \in {c.temperatureTime, o.time}
        /\ warmed.currents = c.currents
    BY DEF Observed, Classifiers, Times
  <1>3. \/ Moving(c, o)[1] = warmed
        \/ Moving(c, o)[1] = [warmed EXCEPT !.currents = currents]
    BY DEF Moving
  <1>4. Moving(c, o)[2] \in Contexts \ {"DATA_GAPPED"}
    BY DEF Moving, Contexts
  <1> HIDE DEF warmed, currents
  <1>5. CASE Moving(c, o)[1] = warmed
    BY <1>2, <1>4, <1>5
  <1>6. CASE Moving(c, o)[1] = [warmed EXCEPT !.currents = currents]
    <2>1. [warmed EXCEPT !.currents = currents] \in Classifiers
      BY <1>1, <1>2 DEF Classifiers
    <2>2. /\ Moving(c, o)[1].last = c.last /\ Moving(c, o)[1].rest = c.rest
          /\ Moving(c, o)[1].temperatureTime \in {c.temperatureTime, o.time}
          /\ Moving(c, o)[1].currents = currents
      BY <1>2, <1>6 DEF Classifiers
    <2>3. QED
      BY <1>1, <1>4, <1>6, <2>1, <2>2 DEF currents
  <1>7. QED
    BY <1>3, <1>5, <1>6

\* What the classifier makes of a step: nothing, or it is reset by a gap, or
\* takes the step.
LEMMA ClassifiedResult ==
  ASSUME DiagnosticsTypeOK, NEW o \in Observed
  PROVE  LET c == Classified(o)[1]
         IN /\ c \in Classifiers /\ Len(c.currents) <= RollingLength
            /\ Classified(o)[2] \in Contexts
            /\ \/ c = classifier /\ classifier.last # None /\ o.time < classifier.last
               \/ c = [FreshClassifier EXCEPT !.last = o.time]
               \/ /\ classifier.last # None => o.dt <= MaxInterval
                  /\ c.last = o.time
                  /\ c.rest \in {classifier.rest, None, o.time}
                  /\ c.temperatureTime \in {classifier.temperatureTime, o.time}
                  /\ c.currents \in {<<>>, classifier.currents,
                                     Pushed(classifier.currents, o.current, RollingLength)}
  <1> DEFINE c == [classifier EXCEPT !.last = o.time]
             moving == [c EXCEPT !.rest = None]
             resting == [c EXCEPT !.rest = IF @ = None THEN o.time ELSE @]
             rested == [resting EXCEPT !.currents = <<>>]
  <1>1. /\ classifier \in Classifiers /\ Len(classifier.currents) <= RollingLength
        /\ o.time \in Nat /\ o.time \in Times /\ None \in Times /\ o.dt \in Nat
        /\ classifier.last \in Nat \union {None} /\ MaxInterval \in Nat
    BY CalibrationAssumption DEF DiagnosticsTypeOK, Classifiers, Observed, Times
  <1>2. /\ c \in Classifiers /\ moving \in Classifiers /\ resting \in Classifiers
        /\ c.last = o.time /\ moving.last = o.time /\ resting.last = o.time
        /\ c.rest = classifier.rest /\ moving.rest = None
        /\ resting.rest \in {classifier.rest, o.time}
        /\ c.temperatureTime = classifier.temperatureTime
        /\ moving.temperatureTime = classifier.temperatureTime
        /\ resting.temperatureTime = classifier.temperatureTime
        /\ c.currents = classifier.currents /\ moving.currents = classifier.currents
        /\ resting.currents = classifier.currents
    BY <1>1 DEF Classifiers
  <1>3. /\ rested \in Classifiers /\ rested.last = o.time /\ rested.rest = resting.rest
        /\ rested.temperatureTime = classifier.temperatureTime /\ rested.currents = <<>>
    <2> HIDE DEF resting, moving, c
    <2>1. resting \in Classifiers /\ <<>> \in Seq(Values)
      BY <1>2
    <2>2. QED
      BY <1>2, <2>1 DEF Classifiers
  <1>4. Len(<<>>) = 0 /\ RollingLength \in Nat /\ {"REST", "DATA_GAPPED"} \subseteq Contexts
    BY DiagnosticsAssumption DEF Contexts
  <1>5. \/ /\ Classified(o) = <<classifier, "DATA_GAPPED">>
           /\ classifier.last # None /\ o.time < classifier.last
        \/ Classified(o) = <<[FreshClassifier EXCEPT !.last = o.time], "DATA_GAPPED">>
        \/ /\ classifier.last # None => o.dt <= MaxInterval
           /\ \/ Classified(o) = <<c, "REST">> \/ Classified(o) = <<rested, "REST">>
              \/ Classified(o) = Moving(moving, o) \/ Classified(o) = Moving(resting, o)
    BY <1>1 DEF Classified
  <1> HIDE DEF c, moving, resting, rested
  <1>6. CASE /\ Classified(o) = <<classifier, "DATA_GAPPED">>
             /\ classifier.last # None /\ o.time < classifier.last
    BY <1>1, <1>4, <1>6
  <1>7. CASE Classified(o) = <<[FreshClassifier EXCEPT !.last = o.time], "DATA_GAPPED">>
    <2> DEFINE fresh == [FreshClassifier EXCEPT !.last = o.time]
    <2>1. <<>> \in Seq(Values) /\ None \in Values
      BY DEF Values
    <2>2. fresh = [last |-> o.time, rest |-> None, temperature |-> None,
                   temperatureTime |-> None, currents |-> <<>>]
      BY DEF FreshClassifier
    <2>3. fresh \in Classifiers /\ fresh.currents = <<>>
      BY <1>1, <2>1, <2>2 DEF Classifiers
    <2>4. Classified(o)[1] = fresh /\ Classified(o)[2] = "DATA_GAPPED"
      BY <1>7
    <2> HIDE DEF fresh
    <2>5. QED
      BY <1>4, <2>3, <2>4 DEF fresh
  <1>8. ASSUME classifier.last # None => o.dt <= MaxInterval, Classified(o) = <<c, "REST">>
        PROVE  LET d == Classified(o)[1]
               IN /\ d \in Classifiers /\ Len(d.currents) <= RollingLength
                  /\ Classified(o)[2] \in Contexts
                  /\ d.last = o.time
                  /\ d.rest \in {classifier.rest, None, o.time}
                  /\ d.temperatureTime \in {classifier.temperatureTime, o.time}
                  /\ d.currents \in {<<>>, classifier.currents,
                                     Pushed(classifier.currents, o.current, RollingLength)}
    BY <1>1, <1>2, <1>4, <1>8
  <1>9. ASSUME Classified(o) = <<rested, "REST">>
        PROVE  LET d == Classified(o)[1]
               IN /\ d \in Classifiers /\ Len(d.currents) <= RollingLength
                  /\ Classified(o)[2] \in Contexts
                  /\ d.last = o.time
                  /\ d.rest \in {classifier.rest, None, o.time}
                  /\ d.temperatureTime \in {classifier.temperatureTime, o.time}
                  /\ d.currents = <<>>
    BY <1>2, <1>3, <1>4, <1>9
  <1>10. ASSUME NEW x \in {moving, resting}, Classified(o) = Moving(x, o)
         PROVE  LET d == Classified(o)[1]
                IN /\ d \in Classifiers /\ Len(d.currents) <= RollingLength
                   /\ Classified(o)[2] \in Contexts
                   /\ d.last = o.time
                   /\ d.rest \in {classifier.rest, None, o.time}
                   /\ d.temperatureTime \in {classifier.temperatureTime, o.time}
                   /\ d.currents \in {classifier.currents,
                                      Pushed(classifier.currents, o.current, RollingLength)}
    <2>1. /\ x \in Classifiers /\ x.currents = classifier.currents /\ x.last = o.time
          /\ x.rest \in {classifier.rest, None, o.time}
          /\ x.temperatureTime = classifier.temperatureTime
      BY <1>2
    <2>2. QED
      BY <1>1, <1>10, <2>1, MovingResult
  <1>11. QED
    BY <1>5, <1>6, <1>7, <1>8, <1>9, <1>10

LEMMA HypothesesCounted ==
  ASSUME NEW T \in SUBSET Hypotheses
  PROVE  Cardinality(T) \in 0..6
  <1> DEFINE a == {"APPARENT_OHMIC_GROWTH"}
             b == a \union {"CELL_IMBALANCE"}
             c == b \union {"MODEL_MISMATCH"}
             d == c \union {"SENSOR_DRIFT"}
             e == d \union {"THERMAL_IMPAIRMENT"}
             f == e \union {"THROUGHPUT_ACCELERATED_FADE"}
  <1>1. f = Hypotheses
    BY DEF Hypotheses
  <1> HIDE DEF f
  <1>2. IsFiniteSet(a) /\ Cardinality(a) <= 1 /\ Cardinality(a) \in Nat
    <2>1. \A x : IsFiniteSet({x}) /\ Cardinality({x}) = 1
      BY FS_Singleton
    <2>2. IsFiniteSet(a) /\ Cardinality(a) = 1
      BY <2>1
    <2>3. QED
      BY <2>2
  <1> HIDE DEF a
  <1>3. IsFiniteSet(b) /\ Cardinality(b) <= 2 /\ Cardinality(b) \in Nat
    BY <1>2, FS_AddElement
  <1> HIDE DEF b
  <1>4. IsFiniteSet(c) /\ Cardinality(c) <= 3 /\ Cardinality(c) \in Nat
    BY <1>3, FS_AddElement
  <1> HIDE DEF c
  <1>5. IsFiniteSet(d) /\ Cardinality(d) <= 4 /\ Cardinality(d) \in Nat
    BY <1>4, FS_AddElement
  <1> HIDE DEF d
  <1>6. IsFiniteSet(e) /\ Cardinality(e) <= 5 /\ Cardinality(e) \in Nat
    BY <1>5, FS_AddElement
  <1> HIDE DEF e
  <1>7. IsFiniteSet(f) /\ Cardinality(f) <= 6 /\ Cardinality(f) \in Nat
    BY <1>6, FS_AddElement DEF f
  <1>8. IsFiniteSet(T) /\ Cardinality(T) <= Cardinality(f)
    BY <1>1, <1>7, FS_Subset
  <1>9. QED
    BY <1>7, <1>8, FS_CardinalityType

LEMMA DiagnoseTyped ==
  ASSUME DiagnosticsTypeOK, NEW o \in Observed, Diagnose(o, parameters', report')
  PROVE  DiagnosticsTypeOK' /\ assessment' \in Assessments
  <1>1. classifier' \in {classifier, Classified(o)[1]}
    BY DEF Diagnose
  <1>2. classifier' \in Classifiers /\ Len(classifier'.currents) <= RollingLength
    BY <1>1, ClassifiedResult DEF DiagnosticsTypeOK, Classifiers
  <1>3. trackers' \in [Hypotheses -> [support: Nat, recovery: Nat,
                                     persisted: BOOLEAN, recovered: BOOLEAN]]
    <2> DEFINE T == [support: Nat, recovery: Nat, persisted: BOOLEAN, recovered: BOOLEAN]
    <2>1. ASSUME NEW t \in T, NEW h, NEW supported
          PROVE  Tracked(t, h \in supported) \in T
      <3> DEFINE lasting == t.persisted \/ t.support + 1 >= Debounce
                 up == [support |-> t.support + 1, recovery |-> 0,
                        persisted |-> lasting, recovered |-> FALSE]
      <3>1. up \in T
        <4>1. lasting \in BOOLEAN /\ t.support + 1 \in Nat /\ 0 \in Nat /\ FALSE \in BOOLEAN
          OBVIOUS
        <4> HIDE DEF lasting
        <4>2. QED
          BY <4>1
      <3>2. FreshTracker \in T /\ [FreshTracker EXCEPT !.recovered = TRUE] \in T
        BY DEF FreshTracker
      <3>3. [t EXCEPT !.support = 0, !.recovery = t.recovery + 1] \in T
        <4>1. t.recovery + 1 \in Nat
          OBVIOUS
        <4>2. QED
          BY <4>1
      <3>4. Tracked(t, h \in supported) \in
              {up, FreshTracker, [FreshTracker EXCEPT !.recovered = TRUE],
               [t EXCEPT !.support = 0, !.recovery = t.recovery + 1]}
        BY DEF Tracked
      <3> HIDE DEF up, T
      <3>5. QED
        BY <3>1, <3>2, <3>3, <3>4
    <2>2. trackers \in [Hypotheses -> T]
      BY DEF DiagnosticsTypeOK
    <2>3. \/ trackers' = trackers
          \/ \E supported : trackers' = [h \in Hypotheses |-> Tracked(trackers[h], h \in supported)]
      BY DEF Diagnose
    <2> HIDE DEF T
    <2>4. trackers' \in [Hypotheses -> T]
      BY <2>1, <2>2, <2>3
    <2>5. QED
      BY <2>4 DEF T
  <1>4. ASSUME NEW state \in States, NEW context \in Contexts, NEW leading \in Hypotheses \union {"none"},
               NEW anomalous \in 0..6, Conclude(o, state, context, leading, anomalous)
        PROVE  /\ lifecycle' \in [state: States, transitions: Seq([from: States, to: States, time: Nat])]
               /\ Len(lifecycle'.transitions) <= TransitionHistory
               /\ assessment' \in Assessments
    <2> DEFINE T == [from: States, to: States, time: Nat]
               x == [from |-> lifecycle.state, to |-> state, time |-> o.time]
    <2>1. /\ lifecycle.state \in States /\ lifecycle.transitions \in Seq(T) /\ o.time \in Nat
          /\ Len(lifecycle.transitions) <= TransitionHistory /\ TransitionHistory \in Nat \ {0}
          /\ Len(lifecycle.transitions) \in Nat
      BY DiagnosticsAssumption DEF DiagnosticsTypeOK, Observed
    <2>2. x \in T
      BY <2>1
    <2>3. lifecycle' = [state |-> state,
                        transitions |-> IF state = lifecycle.state THEN lifecycle.transitions
                                        ELSE Pushed(lifecycle.transitions, x, TransitionHistory)]
      BY <1>4 DEF Conclude, Transition
    <2>4. assessment' \in Assessments
      BY <1>4, <2>1 DEF Conclude, Assessments, Severity
    <2> HIDE DEF T, x
    <2>5. /\ lifecycle'.state = state /\ lifecycle'.transitions \in Seq(T)
          /\ Len(lifecycle'.transitions) <= TransitionHistory
      BY <2>1, <2>2, <2>3, PushedType
    <2>6. QED
      BY <2>3, <2>4, <2>5 DEF T
  <1>5. \E state \in States, context \in Contexts, leading \in Hypotheses \union {"none"},
           anomalous \in 0..6 : Conclude(o, state, context, leading, anomalous)
    <2> DEFINE usable == Usable(o, parameters', report')
               supporting == Supporting(o, parameters')
               channels == [h \in Hypotheses |-> Channels(h, supporting)]
               anomalous == Cardinality({h \in Hypotheses : channels[h] # {}})
    <2>1. anomalous \in 0..6
      BY HypothesesCounted
    <2>2. Classified(o)[2] \in Contexts /\ "REST" \in Contexts
      BY ClassifiedResult DEF Contexts
    <2>3. /\ {"DATA_QUALITY_FAILED", "INSUFFICIENT_EVIDENCE"} \subseteq States
          /\ Unled(usable, supporting) \in States
          /\ \A h : LedBy(h, channels[h], report') \in States
      BY DEF States, Unled, LedBy
    <2>4. \/ Conclude(o, "DATA_QUALITY_FAILED", "REST", "none", 0)
          \/ Conclude(o, "INSUFFICIENT_EVIDENCE", Classified(o)[2], "none", 0)
          \/ Conclude(o, Unled(usable, supporting), Classified(o)[2], "none", anomalous)
          \/ \E h \in Hypotheses :
               Conclude(o, LedBy(h, channels[h], report'), Classified(o)[2], h, anomalous)
      BY DEF Diagnose
    <2>5. 0 \in 0..6
      OBVIOUS
    <2> HIDE DEF usable, supporting, channels, anomalous
    <2>6. QED
      BY <2>1, <2>2, <2>3, <2>4, <2>5
  <1>6. QED
    BY <1>2, <1>3, <1>4, <1>5 DEF DiagnosticsTypeOK, Classifiers

-----------------------------------------------------------------------------
(* What relates the engines' clocks to the synchronizer's.                 *)

\* The excitation detector has seen nothing later than the synchronizer, and
\* before its first accepted step there is nothing to identify from.
CalibrationFollows ==
  /\ excitation.time # None => synced # None /\ excitation.time <= synced
  /\ excitation.time = None => excitation.window = <<>> /\ rls.prev = <<>>
  /\ RegressorsFresh

\* The same of the classifier, which forgets everything when it is reset.
ClassifierFollows ==
  /\ classifier.last # None => synced # None /\ classifier.last <= synced
  /\ classifier.last = None => classifier = FreshClassifier

\* The auditor sees every step.
AuditorFollows == Fitted("validation") => audited = synced

\* The active window: without a flag its samples end at the last audited step,
\* are between one second and the limit of a gap apart, and are not yet
\* enough to seal it; it begins after every sealed one.
ActiveWindow ==
  /\ window.samples = <<>> => window.start = None /\ window.last = None
  /\ window.samples # <<>> =>
       /\ {window.start, window.last, audited} \subseteq Nat
       /\ window.start <= window.last /\ window.last <= audited
       /\ window.flags = {} =>
            /\ window.last = audited
            /\ window.last - window.start < WindowDuration
            /\ window.last - window.start \in
                 Len(window.samples) - 1..(Len(window.samples) - 1) * MaxInterval
  /\ \A j \in 1..Len(windows) : windows[j].last # None =>
       /\ audited # None /\ windows[j].last <= audited
       /\ window.samples # <<>> => windows[j].last < window.start

EnginesInv ==
  /\ EnginesTypeOK
  /\ CalibrationFollows /\ ClassifierFollows /\ AuditorFollows
  /\ ActiveWindow /\ WindowsAreSound

Judgements == {"VALIDATED", "DEGRADED", "EXCITATION_STEADY_STATE_ONLY"}

\* A sealed window of the history that may be followed by any other.
SoundWindow(x) ==
  x.state \in Judgements =>
    /\ x.count \in MinSamples..MaxSamples
    /\ x.last - x.start \in x.count - 1..(x.count - 1) * MaxInterval
    /\ x.last - x.start < WindowDuration + MaxInterval

\* Sealing keeps the history sound when the new window is and comes last.
LEMMA HistorySound ==
  ASSUME ValidationTypeOK, WindowsAreSound, NEW b \in Nat, NEW x \in Sealed,
         \A j \in 1..Len(windows) : windows[j].last # None => windows[j].last <= b,
         x.index = windowIndex, x.last # None => x.last <= b, SoundWindow(x),
         x.state \in Judgements =>
           \A j \in 1..Len(windows) : windows[j].last # None => windows[j].last < x.start,
         windows' = Pushed(windows, x, WindowHistory), windowIndex' = windowIndex + 1
  PROVE  /\ WindowsAreSound'
         /\ \A j \in 1..Len(windows') : windows'[j].last # None => windows'[j].last <= b
  <1> DEFINE n == Len(windows)
             d == IF n + 1 > WindowHistory THEN 1 ELSE 0
  <1>1. windows \in Seq(Sealed) /\ n \in Nat /\ windowIndex \in Nat /\ WindowHistory \in Nat \ {0}
    BY ValidationAssumption DEF ValidationTypeOK
  <1>2. /\ Len(windows') = n + 1 - d
        /\ \A i \in 1..Len(windows') : windows'[i] = IF i + d = n + 1 THEN x ELSE windows[i + d]
    BY <1>1, PushedElements
  <1>3. d \in {0, 1}
    OBVIOUS
  <1> HIDE DEF d
  <1>4. ASSUME NEW i \in 1..Len(windows'), i + d # n + 1
        PROVE  i + d \in 1..n /\ windows'[i] = windows[i + d]
    BY <1>1, <1>2, <1>3, <1>4
  <1>5. \A j \in 1..Len(windows') : windows'[j].last # None => windows'[j].last <= b
    BY <1>2, <1>4
  <1>6. ASSUME NEW k \in 1..n
        PROVE  /\ windows[k].index = windowIndex - 1 - n + k
               /\ SoundWindow(windows[k])
               /\ \A j \in 1..n : windows[k].state \in Judgements /\ j < k /\ windows[j].last # None =>
                    windows[j].last < windows[k].start
    BY <1>1 DEF WindowsAreSound, SoundWindow, Judgements
  <1>7. ASSUME NEW i \in 1..Len(windows')
        PROVE  /\ windows'[i].index = windowIndex' - 1 - Len(windows') + i
               /\ SoundWindow(windows'[i])
               /\ windows'[i].state \in Judgements =>
                    \A j \in 1..i - 1 : windows'[j].last # None => windows'[j].last < windows'[i].start
    <2>1. CASE i + d = n + 1
      <3>1. windows'[i] = x
        BY <1>2, <2>1
      <3>2. ASSUME NEW j \in 1..i - 1
            PROVE  j + d \in 1..n /\ windows'[j] = windows[j + d]
        <4>1. n \in Nat /\ i \in Nat /\ j \in Nat /\ d \in Nat /\ j < i /\ i + d = n + 1
          BY <1>1, <1>3, <2>1
        <4>2. j \in 1..Len(windows') /\ j + d # n + 1
          BY <1>2, <4>1
        <4>3. QED
          BY <1>4, <4>2
      <3>3. windows'[i].index = windowIndex' - 1 - Len(windows') + i
        BY <1>1, <1>2, <1>3, <2>1, <3>1
      <3>4. QED
        BY <3>1, <3>2, <3>3
    <2>2. CASE i + d # n + 1
      <3>1. i + d \in 1..n /\ windows'[i] = windows[i + d]
        BY <1>4, <2>2
      <3>2. ASSUME NEW j \in 1..i - 1
            PROVE  j + d \in 1..n /\ j + d < i + d /\ windows'[j] = windows[j + d]
        <4>1. n \in Nat /\ i \in Nat /\ j \in Nat /\ d \in Nat /\ j < i /\ i + d <= n
          BY <1>1, <1>3, <3>1
        <4>2. j \in 1..Len(windows') /\ j + d # n + 1 /\ j + d < i + d
          BY <1>2, <4>1
        <4>3. QED
          BY <1>4, <4>2
      <3>3. windows'[i].index = windowIndex' - 1 - Len(windows') + i
        <4>1. windows[i + d].index = windowIndex - 1 - n + (i + d)
          BY <1>6, <3>1
        <4>2. windows'[i].index = windowIndex - 1 - n + (i + d)
          BY <3>1, <4>1
        <4>3. /\ n \in Nat /\ windowIndex \in Int /\ i \in Nat /\ d \in Nat
              /\ windowIndex' = windowIndex + 1 /\ Len(windows') = n + 1 - d
          BY <1>1, <1>2, <1>3
        <4>4. QED
          BY <4>2, <4>3
      <3>4. SoundWindow(windows'[i])
        BY <1>6, <3>1
      <3>5. ASSUME windows'[i].state \in Judgements, NEW j \in 1..i - 1, windows'[j].last # None
            PROVE  windows'[j].last < windows'[i].start
        <4>1. windows[i + d].state \in Judgements /\ windows[j + d].last # None
          BY <3>1, <3>2, <3>5
        <4>2. windows[j + d].last < windows[i + d].start
          BY <1>6, <3>1, <3>2, <4>1
        <4>3. QED
          BY <3>1, <3>2, <4>2
      <3>6. QED
        BY <3>3, <3>4, <3>5
    <2>3. QED
      BY <2>1, <2>2
  <1>8. QED
    BY <1>5, <1>7 DEF WindowsAreSound, SoundWindow, Judgements

\* What an unflagged window is after one more sample, at most MaxInterval later.
LEMMA OneMoreSample ==
  ASSUME NEW n \in Nat \ {0}, NEW start \in Nat, NEW last \in Nat, NEW time \in Nat,
         last - start \in n - 1..(n - 1) * MaxInterval, last < time, time <= last + MaxInterval
  PROVE  time - start \in n..n * MaxInterval
  <1>1. MaxInterval \in Nat /\ n * MaxInterval = (n - 1) * MaxInterval + MaxInterval
    BY CalibrationAssumption
  <1>2. (n - 1) * MaxInterval \in Nat
    BY <1>1
  <1>3. QED
    BY <1>1, <1>2

\* A step leaves the windows as it should, whatever it audits: it adds a sample
\* to the active window, seals the window, or loses it to a gap.
LEMMA ValidateKeepsWindows ==
  ASSUME ValidationTypeOK, ActiveWindow, WindowsAreSound, NEW o \in Observed,
         audited # None => o.time >= audited,
         Validate(o, parameters'), parameters' \in {<<>>} \union ParameterSets
  PROVE  ActiveWindow' /\ WindowsAreSound'
  <1> DEFINE before == AuditedInto(o)
             w == Ingested(before, o)
             gap == "TELEMETRY_GAP" \in Audit(o)
             sound == Audit(o) \intersect Unsound = {}
             past == \A j \in 1..Len(windows) : windows[j].last # None => windows[j].last <= o.time
  <1>1. /\ o.time \in Nat /\ MaxInterval \in Nat /\ audited \in Nat \union {None}
        /\ WindowDuration \in Nat /\ WindowDuration > 0 /\ None = -1000
        /\ MinSamples \in Nat /\ MaxSamples \in Nat
    BY CalibrationAssumption, ValidationAssumption DEF Observed, ValidationTypeOK, Times, None
  <1>2. before \in ActiveWindows /\ Len(before.samples) < MaxSamples
    BY AuditedIntoTyped
  <1>3. /\ w = [start |-> IF before.start = None THEN o.time ELSE before.start, last |-> o.time,
                flags |-> before.flags,
                samples |-> Append(before.samples, [current |-> o.current, vres |-> o.vres])]
        /\ w \in ActiveWindows /\ w.samples # <<>>
        /\ Len(w.samples) = Len(before.samples) + 1
    BY <1>2, IngestedTyped
  <1>4. audited' = o.time
    BY ValidateCases
  <1>5. /\ windows \in Seq(Sealed) /\ window \in ActiveWindows
        /\ \A j \in 1..Len(windows) : windows[j].last \in Nat \union {None}
    <2>1. windows \in Seq(Sealed) /\ window \in ActiveWindows
      BY DEF ValidationTypeOK, ActiveWindows
    <2>2. \A j \in 1..Len(windows) : windows[j] \in Sealed
      BY <2>1
    <2>3. QED
      BY <2>1, <2>2 DEF Sealed, Times
  <1>6. past
    BY <1>1, <1>5 DEF ActiveWindow
  <1>7. sound /\ audited # None => audited < o.time
    BY <1>1 DEF Audit, Unsound, FlagIf, Flags
  <1>8. ~gap /\ audited # None => o.time <= audited + MaxInterval
    BY <1>1 DEF Audit, FlagIf
  <1>9. /\ gap => before.start = None /\ before.samples = <<>> /\ before.flags = Audit(o)
        /\ ~gap => before = [window EXCEPT !.flags = window.flags \union Audit(o)]
    BY AuditedIntoTyped
  <1>10. /\ window.samples = <<>> => window.start = None /\ window.last = None
         /\ window.samples # <<>> =>
              /\ window.start \in Nat /\ window.last \in Nat /\ audited \in Nat
              /\ window.start <= window.last /\ window.last <= audited
    BY DEF ActiveWindow
  <1>11. ~gap => /\ before.start = window.start /\ before.last = window.last
                 /\ before.samples = window.samples
                 /\ before.flags = window.flags \union Audit(o)
    BY <1>5, <1>9 DEF ActiveWindows
  <1>12. ASSUME sound
         PROVE  /\ w.start \in Nat /\ w.last = o.time /\ w.start <= w.last
                /\ \A j \in 1..Len(windows) : windows[j].last # None => windows[j].last < w.start
    <2>1. CASE before.samples = <<>>
      <3>1. before.start = None
        BY <1>9, <1>10, <1>11, <2>1
      <3>2. w.start = o.time /\ w.last = o.time
        BY <1>3, <3>1
      <3>3. QED
        BY <1>1, <1>5, <1>7, <1>12, <3>2 DEF ActiveWindow
    <2>2. CASE before.samples # <<>>
      <3>1. ~gap /\ window.samples # <<>>
        BY <1>9, <1>11, <2>2
      <3>2. w.start = window.start /\ w.last = o.time
        BY <1>1, <1>3, <1>10, <1>11, <3>1
      <3>3. w.start \in Nat /\ w.start <= o.time
        BY <1>1, <1>7, <1>10, <1>12, <3>1, <3>2
      <3>4. QED
        BY <3>1, <3>2, <3>3 DEF ActiveWindow
    <2>3. QED
      BY <2>1, <2>2
  <1>13. ASSUME sound, w.flags = {}
         PROVE  /\ w.last - w.start \in Len(w.samples) - 1..(Len(w.samples) - 1) * MaxInterval
                /\ w.last - w.start < WindowDuration + MaxInterval
    <2>1. ~gap /\ window.flags = {}
      BY <1>3, <1>9, <1>11, <1>13
    <2>2. CASE window.samples = <<>>
      <3>1. before.start = None /\ Len(before.samples) = 0
        BY <1>10, <1>11, <2>1, <2>2
      <3>2. w.start = o.time /\ w.last = o.time /\ Len(w.samples) = 1
        BY <1>3, <3>1
      <3>3. QED
        BY <1>1, <3>2
    <2>3. CASE window.samples # <<>>
      <3> DEFINE n == Len(window.samples)
      <3>1. /\ window.start \in Nat /\ window.last \in Nat /\ window.last = audited
            /\ window.last - window.start < WindowDuration
            /\ window.last - window.start \in n - 1..(n - 1) * MaxInterval
        BY <2>1, <2>3 DEF ActiveWindow
      <3>2. /\ w.start = window.start /\ w.last = o.time /\ Len(w.samples) = n + 1
        BY <1>1, <1>3, <1>11, <2>1, <3>1
      <3>3. n \in Nat \ {0}
        BY <1>5, <2>3 DEF ActiveWindows
      <3>4. window.last < o.time /\ o.time <= window.last + MaxInterval
        BY <1>1, <1>7, <1>8, <1>13, <2>1, <3>1
      <3> HIDE DEF n
      <3>5. o.time - window.start \in n..n * MaxInterval
        BY <1>1, <3>1, <3>3, <3>4, OneMoreSample
      <3>6. o.time - window.start < WindowDuration + MaxInterval
        BY <1>1, <3>1, <3>4
      <3>7. (n + 1) - 1 = n
        BY <3>3
      <3>8. QED
        BY <3>2, <3>5, <3>6, <3>7
    <2>4. QED
      BY <2>2, <2>3
  <1>14. Len(w.samples) \in 1..MaxSamples
    BY <1>1, <1>2, <1>3 DEF ActiveWindows
  <1>15. CASE sound /\ ~gap /\ Full(w)
    <2> DEFINE state == IF w.flags # {} THEN "DATA_QUALITY_FAILED" ELSE Judged(w.samples)
    <2>1. PICK evidence \in Tiers \union {"none"} : windows' = Sealing(w, state, evidence)
      BY <1>15, ValidateCases
    <2>2. window' = EmptyWindow /\ windowIndex' = windowIndex + 1
      BY <1>15, ValidateCases
    <2> DEFINE x == [index |-> windowIndex, start |-> w.start, last |-> w.last,
                     count |-> Len(w.samples), state |-> state, flags |-> w.flags,
                     evidence |-> evidence]
    <2>3. windows' = Pushed(windows, x, WindowHistory)
      BY <2>1 DEF Sealing
    <2>4. state \in Verdicts /\ windowIndex \in Nat /\ w.flags \in SUBSET Flags
      BY <1>3 DEF Judged, Verdicts, ValidationTypeOK, ActiveWindows
    <2>5. state \in Judgements => w.flags = {} /\ Len(w.samples) >= MinSamples
      BY <1>1, <1>14 DEF Judged, Judgements
    <2> HIDE DEF state
    <2>6. /\ w.start \in Nat /\ w.last \in Nat /\ w.last = o.time
          /\ \A j \in 1..Len(windows) : windows[j].last # None => windows[j].last < w.start
      BY <1>1, <1>12, <1>15
    <2>7. x \in Sealed
      BY <1>1, <1>14, <2>4, <2>6 DEF Sealed, Times
    <2>8. /\ x.index = windowIndex /\ x.last = o.time /\ x.start = w.start /\ x.state = state
          /\ x.count = Len(w.samples)
      BY <2>6
    <2> HIDE DEF x, w
    <2>9. SoundWindow(x)
      <3>1. CASE state \in Judgements
        <4>1. /\ w.last - w.start \in Len(w.samples) - 1..(Len(w.samples) - 1) * MaxInterval
              /\ w.last - w.start < WindowDuration + MaxInterval
          BY <1>13, <1>15, <2>5, <3>1
        <4>2. Len(w.samples) \in MinSamples..MaxSamples
          BY <1>1, <1>14, <2>5, <3>1
        <4>3. QED
          BY <2>6, <2>8, <4>1, <4>2 DEF SoundWindow
      <3>2. CASE state \notin Judgements
        BY <2>8, <3>2 DEF SoundWindow
      <3>3. QED
        BY <3>1, <3>2
    <2>10. /\ WindowsAreSound'
           /\ \A j \in 1..Len(windows') : windows'[j].last # None => windows'[j].last <= o.time
      BY <1>1, <1>6, <2>2, <2>3, <2>6, <2>7, <2>8, <2>9, HistorySound
    <2>11. ActiveWindow'
      BY <1>1, <1>4, <2>2, <2>10 DEF ActiveWindow, EmptyWindow
    <2>12. QED
      BY <2>10, <2>11
  <1>16. CASE ~gap /\ ~(sound /\ Full(w))
    <2>1. windows' = windows /\ windowIndex' = windowIndex /\ window' = IF sound THEN w ELSE before
      BY <1>16, ValidateCases
    <2>2. WindowsAreSound'
      BY <2>1 DEF WindowsAreSound
    <2>3. \A j \in 1..Len(windows') : windows'[j].last # None => windows'[j].last <= o.time
      BY <1>6, <2>1
    <2>4. CASE sound
      <3>1. window' = w
        BY <2>1, <2>4
      <3> HIDE DEF w
      <3>2. ASSUME w.flags = {}
            PROVE  w.last - w.start < WindowDuration
        <4>1. ~Full(w) /\ w.start \in Nat /\ w.last \in Nat
          BY <1>1, <1>12, <1>16, <2>4
        <4>2. QED
          BY <1>1, <4>1 DEF Full
      <3>3. /\ {w.start, w.last, audited'} \subseteq Nat
            /\ w.start <= w.last /\ w.last = audited' /\ w.last <= audited'
            /\ audited' # None
        BY <1>1, <1>4, <1>12, <2>4
      <3>4. ASSUME w.flags = {}
            PROVE  w.last - w.start \in Len(w.samples) - 1..(Len(w.samples) - 1) * MaxInterval
        BY <1>13, <2>4, <3>4
      <3>5. \A j \in 1..Len(windows') : windows'[j].last # None => windows'[j].last < w.start
        BY <1>12, <2>1, <2>4
      <3>6. ActiveWindow'
        BY <1>3, <1>4, <2>3, <3>1, <3>2, <3>3, <3>4, <3>5 DEF ActiveWindow
      <3>7. QED
        BY <2>2, <3>6
    <2>5. CASE ~sound
      <3>1. /\ window'.start = window.start /\ window'.last = window.last
            /\ window'.samples = window.samples /\ window'.flags # {}
        BY <1>11, <1>16, <2>1, <2>5
      <3>2. QED
        BY <1>1, <1>4, <1>10, <2>1, <2>2, <2>3, <3>1 DEF ActiveWindow
    <2>6. QED
      BY <2>4, <2>5
  <1>17. CASE gap
    <2>1. /\ windows' = Sealing(window, "DATA_QUALITY_FAILED", "none")
          /\ windowIndex' = windowIndex + 1 /\ window' = IF sound THEN w ELSE before
      BY <1>17, ValidateCases
    <2>2. audited \in Nat /\ audited < o.time
      BY <1>1, <1>17 DEF Audit, FlagIf
    <2> DEFINE x == [index |-> windowIndex, start |-> window.start, last |-> window.last,
                     count |-> Len(window.samples), state |-> "DATA_QUALITY_FAILED",
                     flags |-> window.flags, evidence |-> "none"]
    <2>3. windows' = Pushed(windows, x, WindowHistory)
      BY <2>1 DEF Sealing
    <2>4. x \in Sealed
      BY <1>5 DEF Sealed, ActiveWindows, ValidationTypeOK, Verdicts
    <2>5. /\ x.index = windowIndex /\ x.last = window.last /\ x.state \notin Judgements
      BY DEF Judgements
    <2> HIDE DEF x
    <2>6. SoundWindow(x)
      BY <2>5 DEF SoundWindow
    <2>7. x.last # None => x.last <= audited
      BY <1>10, <2>5
    <2>8. \A j \in 1..Len(windows) : windows[j].last # None => windows[j].last <= audited
      BY DEF ActiveWindow
    <2>9. /\ WindowsAreSound'
          /\ \A j \in 1..Len(windows') : windows'[j].last # None => windows'[j].last <= audited
      BY <2>1, <2>2, <2>3, <2>4, <2>5, <2>6, <2>7, <2>8, HistorySound
    <2>10. \A j \in 1..Len(windows') : windows'[j].last # None => windows'[j].last < o.time
      <3>1. windows' \in Seq(Sealed)
        BY ValidateTyped DEF ValidationTypeOK
      <3>2. \A j \in 1..Len(windows') : windows'[j] \in Sealed
        BY <3>1
      <3>3. \A j \in 1..Len(windows') : windows'[j].last \in Nat \union {None}
        BY <3>2 DEF Sealed, Times
      <3>4. QED
        BY <1>1, <2>2, <2>9, <3>3
    <2>11. window'.flags # {}
      <3>1. w.flags = before.flags /\ before.flags # {}
        BY <1>3, <1>9, <1>17
      <3>2. QED
        BY <2>1, <3>1
    <2>12. \/ window'.samples = <<>> /\ window'.start = None /\ window'.last = None
           \/ window'.start = o.time /\ window'.last = o.time /\ window'.samples # <<>>
      <3>1. CASE sound
        BY <1>3, <1>9, <1>17, <2>1, <3>1
      <3>2. CASE ~sound
        <4>1. before.last = None
          BY <1>17, AuditedIntoTyped
        <4>2. QED
          BY <1>9, <1>17, <2>1, <3>2, <4>1
      <3>3. QED
        BY <3>1, <3>2
    <2>13. \A j \in 1..Len(windows') : windows'[j].last # None =>
              audited' # None /\ windows'[j].last <= audited'
      <3>1. windows' \in Seq(Sealed)
        BY ValidateTyped DEF ValidationTypeOK
      <3>2. \A j \in 1..Len(windows') : windows'[j] \in Sealed
        BY <3>1
      <3>3. \A j \in 1..Len(windows') : windows'[j].last \in Nat \union {None}
        BY <3>2 DEF Sealed, Times
      <3>4. QED
        BY <1>1, <1>4, <2>10, <3>3
    <2>14. ActiveWindow'
      <3>1. CASE window'.samples = <<>>
        BY <2>12, <2>13, <3>1 DEF ActiveWindow
      <3>2. CASE window'.samples # <<>>
        <4>1. window'.start = o.time /\ window'.last = o.time
          BY <2>12, <3>2
        <4>2. QED
          BY <1>1, <1>4, <2>10, <2>11, <2>13, <3>2, <4>1 DEF ActiveWindow
      <3>3. QED
        BY <3>1, <3>2
    <2>15. QED
      BY <2>9, <2>14
  <1>18. QED
    BY <1>15, <1>16, <1>17

-----------------------------------------------------------------------------
(* The steps of the engines between two clocks of the synchronizer.        *)

LEMMA NextRegressors ==
  ASSUME CalibrationTypeOK, NEW o, Calibrate(o)
  PROVE  \/ Gating(o)[2] = "TELEMETRY_GAP" /\ rls'.prev = <<>>
         \/ /\ Gating(o)[2] # "TELEMETRY_GAP"
            /\ Gating(o)[2] \in Invalid \/ ~o.voltage
            /\ rls' = rls
         \/ /\ Gating(o)[2] \notin Invalid /\ o.voltage
            /\ rls'.prev = [time |-> o.time, current |-> o.current]
  <1>1. rls \in [r0: Resistances, secondary: Secondaries, confident: BOOLEAN,
                samples: Nat, rejections: Nat, prev: Regressors]
    BY DEF CalibrationTypeOK
  <1>2. Observing \intersect Invalid = {}
    BY DEF Observing, Invalid
  <1>3. CASE Gated(o, Gating(o)[2])
    BY <1>1, <1>3 DEF Gated, Invalid
  <1>4. CASE Identify(o, Gating(o)[2])
    BY <1>1, <1>2, <1>4 DEF Identify
  <1>5. QED
    BY <1>3, <1>4 DEF Calibrate

LEMMA CalibrationStep ==
  ASSUME CalibrationTypeOK, CalibrationFollows, synced \in Times, NEW o \in Observed,
         synced # None => o.time >= synced, synced' = o.time, Remember(o),
         IF Fitted("calibration") THEN Calibrate(o) ELSE UNCHANGED calibrationVars
  PROVE  /\ CalibrationFollows'
         /\ (synced # None /\ o.time > synced + MaxInterval /\ excitation'.time = o.time) =>
              /\ Len(excitation'.window) <= 1
              /\ rls'.prev # <<>> => rls'.prev.time = o.time
  <1>1. /\ excitation.time \in Nat \union {None} /\ synced \in Nat \union {None} /\ o.time \in Nat
        /\ MaxInterval \in Nat /\ None = -1000
    BY CalibrationAssumption DEF CalibrationTypeOK, Times, Observed, None
  <1>2. missed' = (/\ rls'.prev # <<>> /\ rls'.prev = rls.prev
                   /\ missed \/ (~o.invalid /\ (~o.voltage \/ o.current = None)))
    BY DEF Remember
  <1>3. CASE ~Fitted("calibration")
    <2>1. UNCHANGED <<excitation, rls>>
      BY <1>3 DEF calibrationVars
    <2>2. QED
      BY <1>1, <1>2, <2>1 DEF CalibrationFollows, RegressorsFresh
  <1>4. CASE Fitted("calibration")
    <2>1. GatingResult(o) /\ excitation' = Gating(o)[1] /\ Calibrate(o)
      BY <1>4, GatingCases DEF Calibrate
    <2>2. excitation'.time \in {excitation.time, o.time}
      BY <1>1, <2>1 DEF GatingResult, CalibrationTypeOK
    <2>3. RegressorsFresh'
      <3>1. SUFFICES ASSUME rls'.prev # <<>>, ~missed'
                     PROVE  rls'.prev.time = excitation'.time
        BY DEF RegressorsFresh
      <3>2. CASE Gating(o)[2] \notin Invalid /\ rls'.prev = [time |-> o.time, current |-> o.current]
        <4>1. excitation'.time = o.time
          BY <2>1, <3>2 DEF GatingResult, Invalid
        <4>2. QED
          BY <3>2, <4>1
      <3>3. CASE /\ Gating(o)[2] # "TELEMETRY_GAP" /\ rls' = rls
                 /\ Gating(o)[2] \in Invalid \/ ~o.voltage
        <4>1. ~missed /\ (o.invalid \/ (o.voltage /\ o.current # None))
          BY <1>2, <3>1, <3>3
        <4>2. rls.prev.time = excitation.time
          BY <3>1, <3>3, <4>1 DEF CalibrationFollows, RegressorsFresh
        <4>3. excitation' = excitation
          BY <2>1, <3>3, <4>1 DEF GatingResult
        <4>4. QED
          BY <3>3, <4>2, <4>3
      <3>4. QED
        BY <2>1, <3>1, <3>2, <3>3, NextRegressors
    <2>4. ASSUME excitation'.time = None
          PROVE  excitation'.window = <<>> /\ rls'.prev = <<>>
      <3>1. Gating(o)[2] = "SENSOR_INVALID" /\ excitation' = excitation
        BY <1>1, <2>1, <2>4 DEF GatingResult, CalibrationTypeOK
      <3>2. rls' = rls
        BY <2>1, <3>1, NextRegressors DEF Invalid
      <3>3. QED
        BY <2>4, <3>1, <3>2 DEF CalibrationFollows
    <2>5. ASSUME synced # None, o.time > synced + MaxInterval, excitation'.time = o.time
          PROVE  /\ Len(excitation'.window) <= 1
                 /\ rls'.prev # <<>> => rls'.prev.time = o.time
      <3>1. excitation.time # None => excitation.time <= synced
        BY DEF CalibrationFollows
      <3>2. excitation.time # None => excitation.time + MaxInterval < o.time
        BY <1>1, <2>5, <3>1
      <3>3. CASE excitation.time # None
        <4>1. Gating(o)[2] = "TELEMETRY_GAP" /\ excitation'.window = <<>>
          BY <1>1, <2>1, <2>5, <3>2, <3>3 DEF GatingResult
        <4>2. rls'.prev = <<>>
          BY <2>1, <4>1, NextRegressors DEF Invalid
        <4>3. QED
          BY <4>1, <4>2
      <3>4. CASE excitation.time = None
        <4>1. excitation.window = <<>> /\ rls.prev = <<>>
          BY <3>4 DEF CalibrationFollows
        <4>2. rls'.prev # <<>> => rls'.prev.time = o.time
          <5>1. rls'.prev \in {<<>>, [time |-> o.time, current |-> o.current]}
            BY <2>1, <4>1, NextRegressors
          <5>2. QED
            BY <5>1
        <4>3. ExcitationWindow \in Nat \ {0} /\ Len(<<>>) = 0
          BY CalibrationAssumption
        <4>4. Len(Pushed(<<>>, o.current, ExcitationWindow)) <= 1
          BY <4>3, PushedOnEmpty
        <4>5. excitation'.window \in {<<>>, Pushed(<<>>, o.current, ExcitationWindow)}
          BY <1>1, <2>1, <3>4, <4>1 DEF GatingResult, CalibrationTypeOK
        <4>6. QED
          BY <4>2, <4>3, <4>4, <4>5
      <3>5. QED
        BY <3>3, <3>4
    <2>6. QED
      BY <1>1, <2>2, <2>3, <2>4, <2>5 DEF CalibrationFollows
  <1>5. QED
    BY <1>3, <1>4

\* A gap empties the active window and leaves its flag on it.
LEMMA ValidationStep ==
  ASSUME ValidationTypeOK, AuditorFollows, ActiveWindow, WindowsAreSound, synced \in Times,
         NEW o \in Observed, synced # None => o.time >= synced, synced' = o.time,
         parameters' \in {<<>>} \union ParameterSets, fitting' = fitting,
         IF Fitted("validation") THEN Validate(o, parameters') ELSE UNCHANGED validationVars
  PROVE  /\ AuditorFollows' /\ ActiveWindow' /\ WindowsAreSound'
         /\ (synced # None /\ o.time > synced + MaxInterval /\ Fitted("validation")) =>
              Len(window'.samples) <= 1 /\ "TELEMETRY_GAP" \in window'.flags
  <1>1. CASE ~Fitted("validation")
    BY <1>1 DEF validationVars, AuditorFollows, ActiveWindow, WindowsAreSound, Fitted
  <1>2. CASE Fitted("validation")
    <2>1. audited = synced /\ Validate(o, parameters')
      BY <1>2 DEF AuditorFollows
    <2>2. audited' = o.time
      BY <2>1, ValidateCases
    <2>3. AuditorFollows'
      BY <2>2 DEF AuditorFollows
    <2>4. ActiveWindow' /\ WindowsAreSound'
      BY <2>1, ValidateKeepsWindows
    <2>5. ASSUME synced # None, o.time > synced + MaxInterval
          PROVE  Len(window'.samples) <= 1 /\ "TELEMETRY_GAP" \in window'.flags
      <3> DEFINE w == Ingested(AuditedInto(o), o)
      <3>1. "TELEMETRY_GAP" \in Audit(o)
        BY <2>1, <2>5 DEF Audit, FlagIf
      <3>2. /\ AuditedInto(o) \in ActiveWindows /\ AuditedInto(o).samples = <<>>
            /\ AuditedInto(o).flags = Audit(o)
        BY <3>1, AuditedIntoTyped
      <3>3. Len(AuditedInto(o).samples) = 0 /\ Len(w.samples) = 1 /\ w.flags = Audit(o)
        <4>1. Len(AuditedInto(o).samples) = 0
          BY <3>2
        <4>2. Len(w.samples) = Len(AuditedInto(o).samples) + 1
          BY <3>2, IngestedTyped
        <4>3. w.flags = AuditedInto(o).flags
          BY <3>2, IngestedTyped
        <4>4. QED
          BY <3>2, <4>1, <4>2, <4>3
      <3>4. window' \in {w, AuditedInto(o)}
        BY <2>1, <3>1, ValidateCases
      <3> HIDE DEF w
      <3>5. CASE window' = w
        <4>1. Len(window'.samples) = 1 /\ window'.flags = Audit(o)
          BY <3>3, <3>5
        <4>2. QED
          BY <3>1, <4>1
      <3>6. CASE window' = AuditedInto(o)
        <4>1. Len(window'.samples) = 0
          BY <3>3, <3>6
        <4>2. window'.flags = Audit(o)
          BY <3>2, <3>6
        <4>3. QED
          BY <3>1, <4>1, <4>2
      <3>7. QED
        BY <3>4, <3>5, <3>6
    <2>6. QED
      BY <2>3, <2>4, <2>5
  <1>3. QED
    BY <1>1, <1>2

LEMMA DiagnosisStep ==
  ASSUME DiagnosticsTypeOK, ClassifierFollows, synced \in Times, NEW o \in Observed,
         synced # None => o.time >= synced, synced' = o.time,
         o.dt = IF synced = None THEN 1 ELSE o.time - synced,
         IF Fitted("diagnostics") THEN Diagnose(o, parameters', report')
         ELSE UNCHANGED diagnosticsVars
  PROVE  /\ ClassifierFollows'
         /\ (synced # None /\ o.time > synced + MaxInterval /\ classifier'.last = o.time) =>
              /\ Len(classifier'.currents) <= 1
              /\ {classifier'.rest, classifier'.temperatureTime} \subseteq {None, o.time}
  <1>1. /\ classifier.last \in Nat \union {None} /\ synced \in Nat \union {None}
        /\ o.time \in Nat /\ MaxInterval \in Nat /\ None = -1000
    BY CalibrationAssumption DEF DiagnosticsTypeOK, Times, Observed, None
  <1>2. classifier' \in {classifier, Classified(o)[1]}
    BY DEF Diagnose, diagnosticsVars
  <1>3. CASE classifier' = classifier
    BY <1>1, <1>3 DEF ClassifierFollows
  <1>4. CASE classifier' = [FreshClassifier EXCEPT !.last = o.time]
    BY <1>1, <1>4 DEF ClassifierFollows, FreshClassifier
  <1>5. CASE /\ classifier.last # None => o.dt <= MaxInterval
             /\ classifier'.last = o.time
             /\ classifier'.rest \in {classifier.rest, None, o.time}
             /\ classifier'.temperatureTime \in {classifier.temperatureTime, o.time}
             /\ classifier'.currents \in {<<>>, classifier.currents,
                                          Pushed(classifier.currents, o.current, RollingLength)}
    <2>1. ClassifierFollows'
      BY <1>1, <1>5 DEF ClassifierFollows
    <2>2. ASSUME synced # None, o.time > synced + MaxInterval
          PROVE  /\ Len(classifier'.currents) <= 1
                 /\ {classifier'.rest, classifier'.temperatureTime} \subseteq {None, o.time}
      <3>1. classifier = FreshClassifier
        BY <1>1, <1>5, <2>2 DEF ClassifierFollows
      <3>2. RollingLength \in Nat \ {0} /\ Len(<<>>) = 0
        BY DiagnosticsAssumption
      <3>3. Len(Pushed(<<>>, o.current, RollingLength)) <= 1
        BY <3>2, PushedOnEmpty
      <3>4. QED
        BY <1>5, <3>1, <3>2, <3>3 DEF FreshClassifier
    <2>3. QED
      BY <2>1, <2>2
  <1>6. QED
    BY <1>2, <1>3, <1>4, <1>5, ClassifiedResult

LEMMA PublishTyped ==
  ASSUME EnginesTypeOK, PublishAll,
         Fitted("calibration") => parameters' \in ParameterSets,
         Fitted("validation") =>
           report' \in [active: {"VALIDATING", "INSUFFICIENT_DATA"}, completed: Seq(Sealed)],
         Fitted("diagnostics") => assessment' \in Assessments
  PROVE  /\ published' \in [r0: Resistances \union {None}, gating: GatingStatuses \union {"None"},
                            validation: {"VALIDATING", "INSUFFICIENT_DATA", "None"},
                            lifecycle: States \union {"None"}, critical: BOOLEAN]
         /\ events' \subseteq {"ParameterIdentificationUpdated", "BatteryValidationUpdated",
                              "BatteryDiagnosticAssessed", "CriticalAdvisoryAlert"}
  <1>1. events' \subseteq {"ParameterIdentificationUpdated", "BatteryValidationUpdated",
                          "BatteryDiagnosticAssessed", "CriticalAdvisoryAlert"}
    BY DEF PublishAll, FlagIf
  <1>2. published \in [r0: Resistances \union {None}, gating: GatingStatuses \union {"None"},
                      validation: {"VALIDATING", "INSUFFICIENT_DATA", "None"},
                      lifecycle: States \union {"None"}, critical: BOOLEAN]
    BY DEF EnginesTypeOK
  <1>3. ParametersDue => parameters'.r0 \in Resistances /\ parameters'.status \in GatingStatuses
    BY DEF ParametersDue, ParameterSets
  <1>4. ValidationDue => report'.active \in {"VALIDATING", "INSUFFICIENT_DATA"}
    BY DEF ValidationDue
  <1>5. AssessmentDue => assessment'.state \in States
    BY DEF AssessmentDue, Assessments
  <1>6. CriticalNow \in BOOLEAN
    BY DEF CriticalNow
  <1>7. published' = [r0 |-> IF ParametersDue THEN parameters'.r0 ELSE published.r0,
                      gating |-> IF ParametersDue THEN parameters'.status ELSE published.gating,
                      validation |-> IF ValidationDue THEN report'.active ELSE published.validation,
                      lifecycle |-> IF AssessmentDue THEN assessment'.state ELSE published.lifecycle,
                      critical |-> CriticalNow]
    BY DEF PublishAll
  <1>8. QED
    BY <1>1, <1>2, <1>3, <1>4, <1>5, <1>6, <1>7

\* What the four engines forget after a gap, of a step at time t.
Forgotten(t) ==
  /\ excitation'.time = t =>
       /\ Len(excitation'.window) <= 1
       /\ rls'.prev # <<>> => rls'.prev.time = t
  /\ Fitted("validation") => Len(window'.samples) <= 1 /\ "TELEMETRY_GAP" \in window'.flags
  /\ classifier'.last = t =>
       /\ Len(classifier'.currents) <= 1
       /\ {classifier'.rest, classifier'.temperatureTime} \subseteq {None, t}

LEMMA ObserveKeeps ==
  ASSUME EnginesInv, NEW scene \in fitting.scenes, NEW time \in Arrivals,
         Observe(ObservedAt(scene, time))
  PROVE  /\ EnginesInv'
         /\ synced' = time
         /\ synced # None /\ time > synced + MaxInterval => Forgotten(time)
  <1> DEFINE o == ObservedAt(scene, time)
  <1>1. scene \in Scenes /\ synced \in Times /\ None = -1000
    BY EnginesAssumption DEF EnginesInv, EnginesTypeOK, None
  <1>2. time \in Nat /\ (synced # None => time >= synced)
    BY <1>1, EnginesAssumption DEF Arrivals, Times
  <1>3. /\ o \in Observed /\ o.time = time
        /\ o.dt = IF synced = None THEN 1 ELSE o.time - synced
    BY <1>1, <1>2, ObservedTyped
  <1> HIDE DEF o
  <1>4. /\ DetectorTypeOK /\ CalibrationTypeOK /\ ValidationTypeOK /\ DiagnosticsTypeOK
        /\ CalibrationFollows /\ ClassifierFollows /\ AuditorFollows
        /\ ActiveWindow /\ WindowsAreSound
    BY DEF EnginesInv, EnginesTypeOK
  <1>5. /\ IF Fitted("detector") THEN Detect(o) ELSE UNCHANGED detectorVars
        /\ IF Fitted("calibration") THEN Calibrate(o) ELSE UNCHANGED calibrationVars
        /\ IF Fitted("validation") THEN Validate(o, parameters') ELSE UNCHANGED validationVars
        /\ IF Fitted("diagnostics") THEN Diagnose(o, parameters', report')
           ELSE UNCHANGED diagnosticsVars
        /\ PublishAll /\ synced' = o.time /\ totalSteps' = totalSteps + 1
        /\ fitting' = fitting /\ Remember(o)
    BY DEF Observe, o
  <1>6. DetectorTypeOK'
    BY <1>3, <1>4, <1>5, DetectTyped DEF DetectorTypeOK, detectorVars
  <1>7. CalibrationTypeOK' /\ (Fitted("calibration") => parameters' \in ParameterSets)
    BY <1>3, <1>4, <1>5, CalibrateTyped DEF CalibrationTypeOK, calibrationVars
  <1>8. parameters' \in {<<>>} \union ParameterSets
    BY <1>7 DEF CalibrationTypeOK
  <1>9. ValidationTypeOK' /\ (Fitted("validation") => report' # <<>>)
    BY <1>3, <1>4, <1>5, <1>8, ValidateTyped DEF ValidationTypeOK, validationVars
  <1>10. DiagnosticsTypeOK' /\ (Fitted("diagnostics") => assessment' \in Assessments)
    BY <1>3, <1>4, <1>5, DiagnoseTyped DEF DiagnosticsTypeOK, diagnosticsVars
  <1>11. EnginesTypeOK'
    <2>1. /\ published' \in [r0: Resistances \union {None}, gating: GatingStatuses \union {"None"},
                             validation: {"VALIDATING", "INSUFFICIENT_DATA", "None"},
                             lifecycle: States \union {"None"}, critical: BOOLEAN]
          /\ events' \subseteq {"ParameterIdentificationUpdated", "BatteryValidationUpdated",
                               "BatteryDiagnosticAssessed", "CriticalAdvisoryAlert"}
      <3>1. Fitted("validation") =>
              report' \in [active: {"VALIDATING", "INSUFFICIENT_DATA"}, completed: Seq(Sealed)]
        BY <1>9 DEF ValidationTypeOK
      <3>2. QED
        BY <1>5, <1>7, <1>10, <3>1, PublishTyped DEF EnginesInv
    <2>2. missed' \in BOOLEAN
      BY <1>5 DEF Remember
    <2>3. verdicts' \in Seq(SUBSET Hypotheses)
      <3>1. verdicts \in Seq(SUBSET Hypotheses)
        BY DEF EnginesInv, EnginesTypeOK
      <3>2. \/ verdicts' = verdicts
            \/ \E x \in SUBSET Hypotheses : verdicts' = Append(verdicts, x)
        BY <1>5 DEF Remember
      <3>3. QED
        BY <3>1, <3>2
    <2>4. fitting' \in Fittings /\ synced' \in Times /\ totalSteps' \in Nat
      BY <1>3, <1>5 DEF EnginesInv, EnginesTypeOK, Observed, Times
    <2>5. QED
      BY <1>6, <1>7, <1>9, <1>10, <2>1, <2>2, <2>3, <2>4 DEF EnginesTypeOK
  <1>12. /\ CalibrationFollows'
         /\ (synced # None /\ o.time > synced + MaxInterval /\ excitation'.time = o.time) =>
              /\ Len(excitation'.window) <= 1
              /\ rls'.prev # <<>> => rls'.prev.time = o.time
    BY <1>1, <1>2, <1>3, <1>4, <1>5, CalibrationStep
  <1>13. /\ AuditorFollows' /\ ActiveWindow' /\ WindowsAreSound'
         /\ (synced # None /\ o.time > synced + MaxInterval /\ Fitted("validation")) =>
              Len(window'.samples) <= 1 /\ "TELEMETRY_GAP" \in window'.flags
    BY <1>1, <1>2, <1>3, <1>4, <1>5, <1>8, ValidationStep
  <1>14. /\ ClassifierFollows'
         /\ (synced # None /\ o.time > synced + MaxInterval /\ classifier'.last = o.time) =>
              /\ Len(classifier'.currents) <= 1
              /\ {classifier'.rest, classifier'.temperatureTime} \subseteq {None, o.time}
    BY <1>1, <1>2, <1>3, <1>4, <1>5, DiagnosisStep
  <1>15. QED
    BY <1>3, <1>5, <1>11, <1>12, <1>13, <1>14 DEF EnginesInv, Forgotten

\* What Init, initialize() and reset() leave; reset() keeps theta.
Cleared ==
  /\ fitting \in Fittings /\ totalSteps \in Nat
  /\ DetectorInit /\ ValidationInit /\ DiagnosticsInit
  /\ excitation = NoExcitation /\ parameters = <<>> /\ rls.prev = <<>>
  /\ rls \in [r0: Resistances, secondary: Secondaries, confident: BOOLEAN,
              samples: Nat, rejections: Nat, prev: Regressors]
  /\ synced = None /\ published = Unpublished /\ events = {}
  /\ missed = FALSE /\ verdicts = <<>>

LEMMA FreshDiagnosis ==
  DiagnosticsInit => DiagnosticsTypeOK /\ ClassifierFollows
  <1> SUFFICES ASSUME DiagnosticsInit
               PROVE  DiagnosticsTypeOK /\ ClassifierFollows
    OBVIOUS
  <1>1. <<>> \in Seq(Values) /\ Len(<<>>) = 0 /\ None \in Times /\ None \in Values
    BY DEF Times, Values
  <1>2. classifier \in Classifiers /\ Len(classifier.currents) <= RollingLength
    BY <1>1, DiagnosticsAssumption DEF DiagnosticsInit, FreshClassifier, Classifiers
  <1>3. trackers \in [Hypotheses -> [support: Nat, recovery: Nat,
                                    persisted: BOOLEAN, recovered: BOOLEAN]]
    BY DEF DiagnosticsInit, FreshTracker
  <1>4. /\ lifecycle \in [state: States, transitions: Seq([from: States, to: States, time: Nat])]
        /\ Len(lifecycle.transitions) <= TransitionHistory
    <2>1. lifecycle = [state |-> "NORMAL", transitions |-> <<>>] /\ "NORMAL" \in States
      BY DEF DiagnosticsInit, States
    <2>2. <<>> \in Seq([from: States, to: States, time: Nat]) /\ Len(<<>>) = 0
          /\ 0 <= TransitionHistory
      BY DiagnosticsAssumption
    <2>3. QED
      BY <2>1, <2>2
  <1>5. classifier = FreshClassifier /\ classifier.last = None /\ assessment = <<>>
    BY DEF DiagnosticsInit, FreshClassifier
  <1>6. QED
    BY <1>2, <1>3, <1>4, <1>5 DEF DiagnosticsTypeOK, ClassifierFollows, Classifiers

LEMMA ClearedInv ==
  Cleared => EnginesInv
  <1> SUFFICES ASSUME Cleared
               PROVE  EnginesInv
    OBVIOUS
  <1>1. DetectorTypeOK
    BY BiasAssumption DEF Cleared, DetectorInit, DetectorTypeOK
  <1>2. CalibrationTypeOK /\ CalibrationFollows
    <2>1. <<>> \in Seq(Values) /\ Len(<<>>) = 0 /\ None \in Values
      BY DEF Values
    <2>2. /\ excitation \in [window: Seq(Values), last: Values, time: Nat \union {None}]
          /\ Len(excitation.window) <= ExcitationWindow
      BY <2>1, CalibrationAssumption DEF Cleared, NoExcitation
    <2>3. CalibrationTypeOK
      BY <2>2 DEF Cleared, CalibrationTypeOK
    <2>4. CalibrationFollows
      BY DEF Cleared, CalibrationFollows, RegressorsFresh, NoExcitation
    <2>5. QED
      BY <2>3, <2>4
  <1>3. ValidationTypeOK /\ ActiveWindow /\ WindowsAreSound
    <2>1. /\ None \in Times /\ <<>> \in Seq([current: Values, vres: Values]) /\ Len(<<>>) = 0
          /\ 0 < MaxSamples /\ <<>> \in Seq(Sealed) /\ 0 <= WindowHistory
      BY ValidationAssumption DEF Times
    <2>2. EmptyWindow \in ActiveWindows /\ Len(EmptyWindow.samples) = 0
      BY <2>1 DEF EmptyWindow, ActiveWindows
    <2>3. /\ audited = None /\ window = EmptyWindow /\ windows = <<>> /\ windowIndex = 1
          /\ evaluator = [r0 |-> None, stable |-> 0] /\ shadow = FALSE /\ report = <<>>
      BY DEF Cleared, ValidationInit
    <2>4. ValidationTypeOK
      <3>1. windows \in Seq(Sealed) /\ Len(windows) = 0
        BY <2>1, <2>3
      <3>2. window \in ActiveWindows /\ Len(window.samples) = 0
        BY <2>2, <2>3
      <3>3. /\ evaluator \in [r0: Resistances \union {None}, stable: Nat]
            /\ audited \in Times /\ windowIndex \in Nat \ {0} /\ shadow \in BOOLEAN
            /\ report = <<>>
        <4>1. None \in Resistances \union {None} /\ 0 \in Nat /\ 1 \in Nat \ {0} /\ FALSE \in BOOLEAN
          OBVIOUS
        <4>2. [r0 |-> None, stable |-> 0] \in [r0: Resistances \union {None}, stable: Nat]
          BY <4>1
        <4>3. QED
          BY <2>1, <2>3, <4>1, <4>2
      <3>4. QED
        BY <3>1, <3>2, <3>3, ValidationAssumption DEF ValidationTypeOK, ActiveWindows
    <2>5. ActiveWindow
      BY <2>3 DEF ActiveWindow, EmptyWindow
    <2>6. WindowsAreSound
      BY <2>3 DEF WindowsAreSound
    <2>7. QED
      BY <2>4, <2>5, <2>6
  <1>4. DiagnosticsTypeOK /\ ClassifierFollows
    BY FreshDiagnosis DEF Cleared
  <1>5. AuditorFollows
    BY DEF Cleared, ValidationInit, AuditorFollows
  <1>6. EnginesTypeOK
    <2>1. <<>> \in Seq(SUBSET Hypotheses)
      OBVIOUS
    <2>2. QED
      BY <1>1, <1>2, <1>3, <1>4, <2>1 DEF Cleared, EnginesTypeOK, Unpublished, Times
  <1>7. QED
    BY <1>2, <1>3, <1>4, <1>5, <1>6 DEF EnginesInv

LEMMA InitCleared ==
  Init => Cleared
  BY DEF Init, Cleared, CalibrationInit, NoExcitation, Resistances, Secondaries, Regressors

LEMMA ClearAllClears ==
  ASSUME EnginesInv, ClearAll, totalSteps' \in Nat
  PROVE  Cleared'
  <1>1. /\ rls \in [r0: Resistances, secondary: Secondaries, confident: BOOLEAN,
                    samples: Nat, rejections: Nat, prev: Regressors]
        /\ fitting \in Fittings
    BY DEF EnginesInv, EnginesTypeOK, CalibrationTypeOK
  <1>2. <<>> \in Regressors
    BY DEF Regressors
  <1>3. rls' = [rls EXCEPT !.confident = FALSE, !.samples = 0, !.rejections = 0, !.prev = <<>>]
    BY DEF ClearAll, ResetCalibration
  <1>4. /\ rls'.prev = <<>>
        /\ rls' \in [r0: Resistances, secondary: Secondaries, confident: BOOLEAN,
                     samples: Nat, rejections: Nat, prev: Regressors]
    BY <1>1, <1>2, <1>3
  <1>5. QED
    BY <1>1, <1>4
       DEF ClearAll, Cleared, ClearDetector, DetectorInit, ResetCalibration, ClearValidation,
           ValidationInit, ClearDiagnostics, DiagnosticsInit

LEMMA EnginesInvKept ==
  EnginesInv /\ [Next]_vars => EnginesInv'
  <1> SUFFICES ASSUME EnginesInv, [Next]_vars
               PROVE  EnginesInv'
    OBVIOUS
  <1>1. Cleared' => EnginesInv'
    BY ClearedInv, PTL
  <1>2. CASE Step
    BY <1>2, ObserveKeeps DEF Step
  <1>3. CASE Initialize \/ Reset
    <2>1. totalSteps' \in Nat /\ ClearAll
      BY <1>3 DEF Initialize, Reset, EnginesInv, EnginesTypeOK
    <2>2. QED
      BY <1>1, <2>1, ClearAllClears
  <1>4. CASE ResetDiagnostics
    <2>1. DiagnosticsInit' => DiagnosticsTypeOK' /\ ClassifierFollows'
      BY FreshDiagnosis, PTL
    <2>2. DiagnosticsTypeOK' /\ ClassifierFollows'
      BY <1>4, <2>1 DEF ResetDiagnostics, ClearDiagnostics, DiagnosticsInit
    <2>3. UNCHANGED <<detectorVars, calibrationVars, validationVars, fitting, synced,
                      totalSteps, missed>>
      BY <1>4 DEF ResetDiagnostics
    <2>4. DetectorTypeOK' /\ CalibrationTypeOK' /\ ValidationTypeOK'
      BY <2>3
         DEF EnginesInv, EnginesTypeOK, DetectorTypeOK, CalibrationTypeOK, ValidationTypeOK,
             detectorVars, calibrationVars, validationVars
    <2>5. EnginesTypeOK'
      <3>1. verdicts' = <<>> /\ verdicts' \in Seq(SUBSET Hypotheses) /\ events' = {}
        BY <1>4 DEF ResetDiagnostics
      <3>2. published' = [published EXCEPT !.lifecycle = "None", !.critical = FALSE]
        BY <1>4 DEF ResetDiagnostics
      <3>3. QED
        BY <2>2, <2>3, <2>4, <3>1, <3>2 DEF EnginesInv, EnginesTypeOK
    <2>6. CalibrationFollows' /\ AuditorFollows' /\ ActiveWindow' /\ WindowsAreSound'
      BY <2>3
         DEF EnginesInv, CalibrationFollows, RegressorsFresh, AuditorFollows, Fitted, ActiveWindow,
             WindowsAreSound, calibrationVars, validationVars
    <2>7. QED
      BY <2>2, <2>5, <2>6 DEF EnginesInv
  <1>5. CASE UNCHANGED vars
    <2>1. UNCHANGED <<detectorVars, calibrationVars, validationVars, diagnosticsVars, engineVars>>
      BY <1>5 DEF vars
    <2>2. EnginesTypeOK'
      BY <2>1
         DEF EnginesInv, EnginesTypeOK, DetectorTypeOK, CalibrationTypeOK, ValidationTypeOK,
             DiagnosticsTypeOK, detectorVars, calibrationVars, validationVars, diagnosticsVars,
             engineVars
    <2>3. CalibrationFollows' /\ ClassifierFollows' /\ AuditorFollows'
      BY <2>1
         DEF EnginesInv, CalibrationFollows, RegressorsFresh, ClassifierFollows, AuditorFollows,
             Fitted, calibrationVars, validationVars, diagnosticsVars, engineVars
    <2>4. ActiveWindow' /\ WindowsAreSound'
      BY <2>1 DEF EnginesInv, ActiveWindow, WindowsAreSound, validationVars
    <2>5. QED
      BY <2>2, <2>3, <2>4 DEF EnginesInv
  <1>6. QED
    BY <1>2, <1>3, <1>4, <1>5 DEF Next

\* The variables of the engines keep their types and the buffers their
\* bounds, and the engines' clocks follow the synchronizer's.
THEOREM EnginesInvariant ==
  Spec => []EnginesInv
  <1>1. Init => EnginesInv
    BY InitCleared, ClearedInv
  <1>2. QED
    BY <1>1, EnginesInvKept, PTL DEF Spec

\* The identifier never pairs two samples across a gap: its regressors are the
\* last sample the excitation detector has accepted, unless a reading was
\* missing since they were taken, for any window, limit and scenes.
THEOREM RegressorsFollow ==
  Spec => []RegressorsFresh
  BY EnginesInvariant, PTL DEF EnginesInv, CalibrationFollows

\* A window judged on its residuals has enough samples and no gap between
\* them, is not longer than a window may be, and begins after the windows
\* sealed before it, for any length, number of samples and history.
THEOREM WindowsSound ==
  Spec => []WindowsAreSound
  BY EnginesInvariant, PTL DEF EnginesInv

\* After an interval longer than the limit no engine keeps a sample from
\* before it.
THEOREM NothingAcrossGaps ==
  Spec => GapsForgotten
  <1> DEFINE Late == synced # None /\ totalSteps' > totalSteps /\ synced' > synced + MaxInterval
  <1>1. ASSUME EnginesInv, [Next]_vars, Late
        PROVE  Forgotten(synced')
    <2>1. totalSteps \in Nat
      BY <1>1 DEF EnginesInv, EnginesTypeOK
    <2>2. CASE Step
      BY <1>1, <2>2, ObserveKeeps DEF Step
    <2>3. CASE Initialize \/ Reset \/ ResetDiagnostics \/ UNCHANGED vars
      BY <1>1, <2>1, <2>3 DEF Initialize, Reset, ResetDiagnostics, vars, engineVars
    <2>4. QED
      BY <1>1, <2>2, <2>3 DEF Next
  <1>2. EnginesInv /\ [Next]_vars => [Late => Forgotten(synced')]_vars
    BY <1>1
  <1>3. Spec => [][Late => Forgotten(synced')]_vars
    BY <1>2, EnginesInvariant, PTL DEF Spec
  <1>4. QED
    BY <1>3 DEF GapsForgotten, Forgotten

-----------------------------------------------------------------------------
(* The persistence trackers of Diagnostics count what the verdicts since   *)
(* the last reset say, for any debounce, hysteresis and evidence.          *)

\* What a sequence of verdicts v says of h.
Supports(v, h, from, to) == \A k \in from..to : h \in v[k]
Lacks(v, h, from, to) == \A k \in from..to : h \notin v[k]
PersistsIn(v, h, n) ==
  \E i \in Debounce..n :
    /\ Supports(v, h, i - Debounce + 1, i)
    /\ \A j \in i..n - Hysteresis : ~Lacks(v, h, j + 1, j + Hysteresis)

\* A tracker t after the verdicts v on h: it counts the support that ends v
\* and, while the hypothesis persists, the absence that ends v.
Follows(t, v, h) ==
  LET n == Len(v)
  IN /\ t.support \in 0..n /\ Supports(v, h, n - t.support + 1, n)
     /\ t.support < n => h \notin v[n - t.support]
     /\ t.persisted =>
          /\ t.recovery \in 0..n - 1 /\ t.recovery < Hysteresis
          /\ Lacks(v, h, n - t.recovery + 1, n)
          /\ h \in v[n - t.recovery]
     /\ t.persisted <=> PersistsIn(v, h, n)
     /\ t.recovered <=> (n > 0 /\ PersistsIn(v, h, n - 1) /\ ~PersistsIn(v, h, n))

TrackersFollow == \A h \in Hypotheses : Follows(trackers[h], verdicts, h)

TrackersInv == EnginesInv /\ TrackersFollow

-----------------------------------------------------------------------------
(* Persistence over one more verdict.                                      *)

\* The earlier verdicts are what they were.
LEMMA PersistsBefore ==
  ASSUME NEW v \in Seq(SUBSET Hypotheses), NEW x \in SUBSET Hypotheses, NEW h,
         NEW n \in Nat, n <= Len(v)
  PROVE  PersistsIn(Append(v, x), h, n) <=> PersistsIn(v, h, n)
  <1> DEFINE u == Append(v, x)
  <1>1. Debounce \in Nat \ {0} /\ Hysteresis \in Nat \ {0} /\ Len(v) \in Nat
    BY DiagnosticsAssumption
  <1>2. \A k \in 1..n : u[k] = v[k]
    OBVIOUS
  <1> HIDE DEF u
  <1>3. ASSUME NEW i \in Debounce..n
        PROVE  Supports(u, h, i - Debounce + 1, i) <=> Supports(v, h, i - Debounce + 1, i)
    <2>1. i - Debounce + 1..i \subseteq 1..n
      BY <1>1
    <2>2. QED
      BY <1>2, <2>1 DEF Supports
  <1>4. ASSUME NEW i \in Debounce..n, NEW j \in i..n - Hysteresis
        PROVE  Lacks(u, h, j + 1, j + Hysteresis) <=> Lacks(v, h, j + 1, j + Hysteresis)
    <2>1. j + 1..j + Hysteresis \subseteq 1..n
      BY <1>1
    <2>2. QED
      BY <1>2, <2>1 DEF Lacks
  <1>5. PersistsIn(u, h, n) <=> PersistsIn(v, h, n)
    BY <1>3, <1>4 DEF PersistsIn
  <1>6. QED
    BY <1>5 DEF u

\* One more verdict makes a hypothesis persist when it completes Debounce times
\* of support, and ends its persistence when it completes Hysteresis times
\* of absence.
LEMMA PersistsStep ==
  ASSUME NEW u \in Seq(SUBSET Hypotheses), NEW h, NEW m \in Nat, NEW n \in Nat, n = m + 1
  PROVE  PersistsIn(u, h, n) <=>
           \/ Debounce <= n /\ Supports(u, h, n - Debounce + 1, n)
           \/ /\ PersistsIn(u, h, m)
              /\ ~(Hysteresis <= n /\ Lacks(u, h, n - Hysteresis + 1, n))
  <1>1. Debounce \in Nat \ {0} /\ Hysteresis \in Nat \ {0}
    BY DiagnosticsAssumption
  <1>2. ASSUME Debounce <= n, Supports(u, h, n - Debounce + 1, n)
        PROVE  PersistsIn(u, h, n)
    <2>1. n \in Debounce..n
      BY <1>1, <1>2
    <2>2. \A j \in n..n - Hysteresis : FALSE
      BY <1>1
    <2>3. QED
      BY <1>2, <2>1, <2>2 DEF PersistsIn
  <1>3. ASSUME PersistsIn(u, h, m), ~(Hysteresis <= n /\ Lacks(u, h, n - Hysteresis + 1, n))
        PROVE  PersistsIn(u, h, n)
    <2>1. PICK i \in Debounce..m : /\ Supports(u, h, i - Debounce + 1, i)
                                   /\ \A j \in i..m - Hysteresis : ~Lacks(u, h, j + 1, j + Hysteresis)
      BY <1>3 DEF PersistsIn
    <2>2. i \in Debounce..n
      BY <1>1
    <2>3. ASSUME NEW j \in i..n - Hysteresis
          PROVE  ~Lacks(u, h, j + 1, j + Hysteresis)
      <3>1. CASE j = n - Hysteresis
        <4>1. j + 1 = n - Hysteresis + 1 /\ j + Hysteresis = n /\ Hysteresis <= n
          BY <1>1, <2>1, <3>1
        <4>2. QED
          BY <1>3, <4>1
      <3>2. CASE j # n - Hysteresis
        <4>1. j \in i..m - Hysteresis
          BY <1>1, <2>1, <3>2
        <4>2. QED
          BY <2>1, <4>1
      <3>3. QED
        BY <3>1, <3>2
    <2>4. QED
      BY <2>1, <2>2, <2>3 DEF PersistsIn
  <1>4. ASSUME PersistsIn(u, h, n), ~(Debounce <= n /\ Supports(u, h, n - Debounce + 1, n))
        PROVE  /\ PersistsIn(u, h, m)
               /\ ~(Hysteresis <= n /\ Lacks(u, h, n - Hysteresis + 1, n))
    <2>1. PICK i \in Debounce..n :
            /\ Supports(u, h, i - Debounce + 1, i)
            /\ \A j \in i..n - Hysteresis : ~Lacks(u, h, j + 1, j + Hysteresis)
      BY <1>4 DEF PersistsIn
    <2>2. i # n
      BY <1>1, <1>4, <2>1
    <2>3. i \in Debounce..m
      BY <1>1, <2>2
    <2>4. PersistsIn(u, h, m)
      <3>1. \A j \in i..m - Hysteresis : j \in i..n - Hysteresis
        BY <1>1
      <3>2. QED
        BY <2>1, <2>3, <3>1 DEF PersistsIn
    <2>5. ASSUME Hysteresis <= n, Lacks(u, h, n - Hysteresis + 1, n)
          PROVE  FALSE
      <3>1. h \in u[i]
        BY <1>1, <2>1, <2>3 DEF Supports
      <3>2. i <= n - Hysteresis
        BY <1>1, <2>3, <2>5, <3>1 DEF Lacks
      <3>3. PICK j \in Nat : j = n - Hysteresis
        BY <1>1, <2>5
      <3>4. j \in i..n - Hysteresis /\ j + 1 = n - Hysteresis + 1 /\ j + Hysteresis = n
        BY <1>1, <2>3, <3>2, <3>3
      <3>5. QED
        BY <2>1, <2>5, <3>4
    <2>6. QED
      BY <2>4, <2>5
  <1>5. QED
    BY <1>2, <1>3, <1>4

Trackers == [support: Nat, recovery: Nat, persisted: BOOLEAN, recovered: BOOLEAN]

\* A tracker follows one more verdict.
LEMMA TrackedFollows ==
  ASSUME NEW v \in Seq(SUBSET Hypotheses), NEW x \in SUBSET Hypotheses, NEW h,
         NEW t \in Trackers, Follows(t, v, h)
  PROVE  Follows(Tracked(t, h \in x), Append(v, x), h)
  <1> DEFINE u == Append(v, x)
             m == Len(v)
             n == m + 1
             k == t.support
             r == t.recovery
             persists == PersistsIn(u, h, m)
             supported == Debounce <= n /\ Supports(u, h, n - Debounce + 1, n)
             absent == Hysteresis <= n /\ Lacks(u, h, n - Hysteresis + 1, n)
  <1>1. Debounce \in Nat \ {0} /\ Hysteresis \in Nat \ {0}
    BY DiagnosticsAssumption
  <1>2. /\ u \in Seq(SUBSET Hypotheses) /\ Len(u) = n /\ m \in Nat /\ n \in Nat /\ n = m + 1
        /\ u[n] = x /\ \A i \in 1..m : u[i] = v[i]
    OBVIOUS
  <1>3. persists <=> PersistsIn(v, h, m)
    BY PersistsBefore
  <1> HIDE DEF u, m
  <1>4. PersistsIn(u, h, n) <=> supported \/ (persists /\ ~absent)
    BY <1>2, PersistsStep
  <1>5. /\ k \in 0..m /\ Supports(v, h, m - k + 1, m)
        /\ k < m => h \notin v[m - k]
        /\ t.persisted =>
             /\ r \in 0..m - 1 /\ r < Hysteresis
             /\ Lacks(v, h, m - r + 1, m) /\ h \in v[m - r]
        /\ t.persisted <=> persists
        /\ t.recovered <=> (m > 0 /\ PersistsIn(v, h, m - 1) /\ ~persists)
    BY <1>3 DEF Follows, m
  <1>6. ASSUME NEW s,
               s.support \in 0..n, Supports(u, h, n - s.support + 1, n),
               s.support < n => h \notin u[n - s.support],
               s.persisted =>
                 /\ s.recovery \in 0..m /\ s.recovery < Hysteresis
                 /\ Lacks(u, h, n - s.recovery + 1, n) /\ h \in u[n - s.recovery],
               s.persisted <=> PersistsIn(u, h, n),
               s.recovered <=> (persists /\ ~PersistsIn(u, h, n))
        PROVE  Follows(s, u, h)
    <2>1. n - 1 = m /\ n > 0
      BY <1>2
    <2> HIDE DEF n
    <2>2. QED
      BY <1>2, <1>6, <2>1 DEF Follows
  <1> HIDE DEF n, k, r, persists
  <1>7. CASE h \in x
    <2> DEFINE lasting == t.persisted \/ k + 1 >= Debounce
               s == [support |-> k + 1, recovery |-> 0, persisted |-> lasting, recovered |-> FALSE]
    <2>1. Tracked(t, h \in x) = s
      BY <1>7 DEF Tracked, k
    <2>2. k + 1 \in 0..n /\ Supports(u, h, n - (k + 1) + 1, n)
      <3>1. \A i \in m - k + 1..n : h \in u[i]
        BY <1>2, <1>5, <1>7 DEF Supports
      <3>2. k + 1 \in 0..n /\ n - (k + 1) + 1 = m - k + 1
        BY <1>2, <1>5
      <3>3. QED
        BY <3>1, <3>2 DEF Supports
    <2>3. k + 1 < n => h \notin u[n - (k + 1)]
      <3>1. k + 1 < n => n - (k + 1) = m - k /\ m - k \in 1..m /\ k < m
        BY <1>2, <1>5
      <3>2. QED
        BY <1>2, <1>5, <3>1
    <2>4. 0 \in 0..m /\ 0 < Hysteresis /\ Lacks(u, h, n - 0 + 1, n) /\ h \in u[n - 0]
      BY <1>1, <1>2, <1>7 DEF Lacks
    <2>5. ~absent
      BY <1>1, <1>2, <1>7 DEF Lacks
    <2>6. supported <=> k + 1 >= Debounce
      <3>1. ASSUME k + 1 >= Debounce
            PROVE  supported
        BY <1>1, <1>2, <2>2, <3>1 DEF Supports
      <3>2. ASSUME supported, ~(k + 1 >= Debounce)
            PROVE  FALSE
        <4>1. k + 1 < n /\ n - (k + 1) \in n - Debounce + 1..n
          BY <1>1, <1>2, <1>5, <3>2
        <4>2. QED
          BY <2>3, <3>2, <4>1 DEF Supports
      <3>3. QED
        BY <3>1, <3>2
    <2>7. lasting <=> PersistsIn(u, h, n)
      BY <1>4, <1>5, <2>5, <2>6
    <2>8. ~(persists /\ ~PersistsIn(u, h, n))
      BY <1>4, <2>5
    <2>9. /\ s.support = k + 1 /\ s.recovery = 0 /\ (s.persisted <=> lasting) /\ ~s.recovered
      OBVIOUS
    <2> HIDE DEF s, lasting
    <2>10. Follows(s, u, h)
      BY <1>6, <2>2, <2>3, <2>4, <2>7, <2>8, <2>9
    <2>11. QED
      BY <2>1, <2>10 DEF u
  <1>8. CASE h \notin x
    <2>1. ~supported
      BY <1>1, <1>2, <1>8 DEF Supports
    <2>2. 0 \in 0..n /\ Supports(u, h, n - 0 + 1, n) /\ h \notin u[n - 0]
      BY <1>2, <1>8 DEF Supports
    <2>3. CASE ~t.persisted
      <3>1. Tracked(t, h \in x) = FreshTracker
        BY <1>8, <2>3 DEF Tracked
      <3>2. /\ FreshTracker.support = 0 /\ ~FreshTracker.persisted /\ ~FreshTracker.recovered
        BY DEF FreshTracker
      <3>3. ~PersistsIn(u, h, n) /\ ~persists
        BY <1>4, <1>5, <2>1, <2>3
      <3>4. Follows(FreshTracker, u, h)
        BY <1>6, <2>2, <3>2, <3>3
      <3>5. QED
        BY <3>1, <3>4 DEF u
    <2>4. CASE t.persisted /\ r + 1 >= Hysteresis
      <3> DEFINE s == [FreshTracker EXCEPT !.recovered = TRUE]
      <3>1. Tracked(t, h \in x) = s
        BY <1>8, <2>4 DEF Tracked, r
      <3>2. s.support = 0 /\ ~s.persisted /\ s.recovered
        BY DEF FreshTracker
      <3>3. r \in 0..m - 1 /\ r + 1 = Hysteresis /\ Lacks(v, h, m - r + 1, m)
        BY <1>1, <1>2, <1>5, <2>4
      <3>4. absent
        <4>1. Hysteresis <= n /\ n - Hysteresis + 1 = m - r + 1
          BY <1>1, <1>2, <3>3
        <4>2. \A i \in m - r + 1..n : h \notin u[i]
          BY <1>2, <1>8, <3>3 DEF Lacks
        <4>3. QED
          BY <4>1, <4>2 DEF Lacks
      <3>5. ~PersistsIn(u, h, n) /\ persists
        BY <1>4, <1>5, <2>1, <2>4, <3>4
      <3> HIDE DEF s
      <3>6. Follows(s, u, h)
        BY <1>6, <2>2, <3>2, <3>5
      <3>7. QED
        BY <3>1, <3>6 DEF u
    <2>5. CASE t.persisted /\ ~(r + 1 >= Hysteresis)
      <3> DEFINE s == [t EXCEPT !.support = 0, !.recovery = r + 1]
      <3>1. Tracked(t, h \in x) = s
        BY <1>8, <2>5 DEF Tracked, r
      <3>2. s.support = 0 /\ s.recovery = r + 1 /\ s.persisted = t.persisted /\ s.recovered = t.recovered
        BY DEF Trackers
      <3>3. r \in 0..m - 1 /\ r + 1 < Hysteresis /\ Lacks(v, h, m - r + 1, m) /\ h \in v[m - r]
        BY <1>1, <1>2, <1>5, <2>5
      <3>4. /\ r + 1 \in 0..m /\ n - (r + 1) = m - r /\ m - r \in 1..m
        BY <1>2, <3>3
      <3>5. h \in u[n - (r + 1)]
        BY <1>2, <3>3, <3>4
      <3>6. Lacks(u, h, n - (r + 1) + 1, n)
        <4>1. \A i \in m - r + 1..n : h \notin u[i]
          BY <1>2, <1>8, <3>3 DEF Lacks
        <4>2. n - (r + 1) + 1 = m - r + 1
          BY <1>2, <3>3
        <4>3. QED
          BY <4>1, <4>2 DEF Lacks
      <3>7. ~absent
        <4>1. Hysteresis <= n => n - (r + 1) \in n - Hysteresis + 1..n
          BY <1>1, <1>2, <3>3
        <4>2. QED
          BY <3>5, <4>1 DEF Lacks
      <3>8. persists /\ PersistsIn(u, h, n) /\ ~t.recovered
        BY <1>4, <1>5, <2>5, <3>7
      <3> HIDE DEF s
      <3>9. Follows(s, u, h)
        BY <1>6, <2>2, <2>5, <3>2, <3>3, <3>4, <3>5, <3>6, <3>8
      <3>10. QED
        BY <3>1, <3>9 DEF u
    <2>6. QED
      BY <2>3, <2>4, <2>5
  <1>9. QED
    BY <1>7, <1>8

-----------------------------------------------------------------------------
(* The trackers and the verdicts over the steps of a twin.                 *)

\* A diagnosis tracks exactly the verdicts that are remembered.
LEMMA DiagnosisTracks ==
  ASSUME NEW o, Remember(o),
         IF Fitted("diagnostics") THEN Diagnose(o, parameters', report')
         ELSE UNCHANGED diagnosticsVars
  PROVE  \/ trackers' = trackers /\ verdicts' = verdicts
         \/ \E x \in SUBSET Hypotheses :
              /\ verdicts' = Append(verdicts, x)
              /\ trackers' = [h \in Hypotheses |-> Tracked(trackers[h], h \in x)]
  <1>1. CASE ~Fitted("diagnostics")
    BY <1>1 DEF Remember, diagnosticsVars
  <1>2. CASE Fitted("diagnostics")
    <2> DEFINE x == {h \in Hypotheses : Supported(h, Usable(o, parameters', report'),
                                                 Supporting(o, parameters'))}
    <2>1. verdicts' = IF ~o.invalid /\ assessment'.context # "DATA_GAPPED"
                      THEN Append(verdicts, x) ELSE verdicts
      BY <1>2 DEF Remember
    <2>2. \/ o.invalid /\ trackers' = trackers
          \/ ~o.invalid /\ assessment'.context = "DATA_GAPPED" /\ trackers' = trackers
          \/ /\ ~o.invalid /\ assessment'.context # "DATA_GAPPED"
             /\ trackers' = [h \in Hypotheses |-> Tracked(trackers[h], h \in x)]
      <3>1. Diagnose(o, parameters', report')
        BY <1>2
      <3>2. \/ o.invalid /\ trackers' = trackers
            \/ /\ ~o.invalid /\ Classified(o)[2] = "DATA_GAPPED" /\ trackers' = trackers
               /\ Conclude(o, "INSUFFICIENT_EVIDENCE", Classified(o)[2], "none", 0)
            \/ /\ ~o.invalid /\ Classified(o)[2] # "DATA_GAPPED"
               /\ trackers' = [h \in Hypotheses |-> Tracked(trackers[h], h \in x)]
               /\ \E state, leading, anomalous :
                    Conclude(o, state, Classified(o)[2], leading, anomalous)
        BY <3>1 DEF Diagnose
      <3>3. ASSUME NEW state, NEW context, NEW leading, NEW anomalous,
                   Conclude(o, state, context, leading, anomalous)
            PROVE  assessment'.context = context
        BY <3>3 DEF Conclude
      <3> HIDE DEF x
      <3>4. QED
        BY <3>2, <3>3
    <2>3. x \in SUBSET Hypotheses
      OBVIOUS
    <2> HIDE DEF x
    <2>4. QED
      BY <2>1, <2>2, <2>3
  <1>3. QED
    BY <1>1, <1>2

\* The trackers of a cleared diagnosis follow no verdict.
LEMMA FreshFollows ==
  DiagnosticsInit /\ verdicts = <<>> => TrackersFollow
  <1> SUFFICES ASSUME DiagnosticsInit, verdicts = <<>>, NEW h \in Hypotheses
               PROVE  Follows(trackers[h], verdicts, h)
    BY DEF TrackersFollow
  <1>1. Len(verdicts) = 0 /\ Debounce \in Nat \ {0}
    BY DiagnosticsAssumption
  <1>2. trackers[h].support = 0 /\ ~trackers[h].persisted /\ ~trackers[h].recovered
    BY DEF DiagnosticsInit, FreshTracker
  <1>3. ~PersistsIn(verdicts, h, 0)
    BY <1>1 DEF PersistsIn
  <1>4. QED
    BY <1>1, <1>2, <1>3 DEF Follows, Supports

LEMMA TrackersInvKept ==
  TrackersInv /\ [Next]_vars => TrackersInv'
  <1> SUFFICES ASSUME TrackersInv, [Next]_vars
               PROVE  TrackersInv'
    OBVIOUS
  <1>1. EnginesInv'
    BY EnginesInvKept DEF TrackersInv, TrackersFollow
  <1>2. /\ trackers \in [Hypotheses -> Trackers] /\ verdicts \in Seq(SUBSET Hypotheses)
        /\ \A h \in Hypotheses : Follows(trackers[h], verdicts, h)
    BY DEF TrackersInv, TrackersFollow, EnginesInv, EnginesTypeOK, DiagnosticsTypeOK, Trackers
  <1>3. CASE trackers' = trackers /\ verdicts' = verdicts
    BY <1>1, <1>2, <1>3 DEF TrackersInv, TrackersFollow
  <1>4. CASE Step
    <2>1. PICK scene \in fitting.scenes, time \in Arrivals : Observe(ObservedAt(scene, time))
      BY <1>4 DEF Step
    <2> DEFINE o == ObservedAt(scene, time)
    <2>2. /\ Remember(o)
          /\ IF Fitted("diagnostics") THEN Diagnose(o, parameters', report')
             ELSE UNCHANGED diagnosticsVars
      BY <2>1 DEF Observe
    <2> HIDE DEF o
    <2>3. ASSUME NEW x \in SUBSET Hypotheses, verdicts' = Append(verdicts, x),
                 trackers' = [h \in Hypotheses |-> Tracked(trackers[h], h \in x)]
          PROVE  TrackersInv'
      <3>1. ASSUME NEW h \in Hypotheses
            PROVE  Follows(trackers'[h], verdicts', h)
        <4>1. trackers[h] \in Trackers /\ Follows(trackers[h], verdicts, h)
          BY <1>2
        <4>2. Follows(Tracked(trackers[h], h \in x), Append(verdicts, x), h)
          BY <1>2, <4>1, TrackedFollows
        <4>3. QED
          BY <2>3, <4>2
      <3>2. QED
        BY <1>1, <3>1 DEF TrackersInv, TrackersFollow
    <2>4. QED
      BY <1>3, <2>2, <2>3, DiagnosisTracks
  <1>5. CASE Initialize \/ Reset \/ ResetDiagnostics
    <2>1. DiagnosticsInit' /\ verdicts' = <<>>
      BY <1>5
         DEF Initialize, Reset, ResetDiagnostics, ClearAll, ClearDiagnostics, DiagnosticsInit
    <2>2. DiagnosticsInit' /\ (verdicts = <<>>)' => TrackersFollow'
      BY FreshFollows, PTL
    <2>3. QED
      BY <1>1, <2>1, <2>2 DEF TrackersInv, TrackersFollow
  <1>6. CASE UNCHANGED vars
    BY <1>3, <1>6 DEF vars, diagnosticsVars, engineVars
  <1>7. QED
    BY <1>4, <1>5, <1>6 DEF Next

\* The support that ends a sequence of verdicts begins after the last verdict
\* that lacks it.
LEMMA SupportBegins ==
  ASSUME NEW v, NEW h, NEW n \in Nat, NEW k \in 0..n,
         Supports(v, h, n - k + 1, n), k < n => h \notin v[n - k],
         NEW i \in 1..n
  PROVE  Supports(v, h, i, n) <=> i >= n - k + 1
  <1>1. ASSUME i >= n - k + 1
        PROVE  Supports(v, h, i, n)
    <2>1. i..n \subseteq n - k + 1..n
      BY <1>1
    <2>2. QED
      BY <2>1 DEF Supports
  <1>2. ASSUME Supports(v, h, i, n), i < n - k + 1
        PROVE  FALSE
    <2>1. k < n /\ n - k \in i..n
      BY <1>2
    <2>2. QED
      BY <1>2, <2>1 DEF Supports
  <1>3. QED
    BY <1>1, <1>2

\* The support that ends the verdicts is a suffix of them.
LEMMA SupportCounted ==
  ASSUME NEW h \in Hypotheses, Follows(trackers[h], verdicts, h),
         verdicts \in Seq(SUBSET Hypotheses)
  PROVE  SupportRun(h) = trackers[h].support
  <1> DEFINE n == Len(verdicts)
             k == trackers[h].support
             run == {i \in 1..n : Runs(h, i, n, TRUE)}
  <1>1. /\ n \in Nat /\ k \in 0..n
        /\ Supports(verdicts, h, n - k + 1, n)
        /\ k < n => h \notin verdicts[n - k]
    BY DEF Follows
  <1>2. SupportRun(h) = Cardinality(run)
    BY DEF SupportRun
  <1>3. \A i : Runs(h, i, n, TRUE) <=> Supports(verdicts, h, i, n)
    BY DEF Runs, Supports
  <1>4. \A i \in 1..n : Supports(verdicts, h, i, n) <=> i >= n - k + 1
    <2> HIDE DEF n, k
    <2>1. QED
      BY <1>1, SupportBegins
  <1>5. \A i : i \in run <=> i \in 1..n /\ i >= n - k + 1
    BY <1>3, <1>4
  <1> HIDE DEF n, k, run
  <1>6. \A i : i \in run <=> i \in n - k + 1..n
    BY <1>1, <1>5
  <1>7. run = n - k + 1..n
    BY <1>6
  <1>8. /\ n - k + 1 \in Int /\ n \in Int
        /\ k = 0 => n - k + 1 > n
        /\ k # 0 => ~(n - k + 1 > n) /\ n - (n - k + 1) + 1 = k
    BY <1>1
  <1>9. Cardinality(n - k + 1..n) = IF n - k + 1 > n THEN 0 ELSE n - (n - k + 1) + 1
    BY <1>8, FS_Interval
  <1>10. Cardinality(run) = k
    <2>1. Cardinality(n - k + 1..n) = k
      BY <1>8, <1>9
    <2>2. QED
      BY <1>7, <2>1
  <1>11. QED
    BY <1>2, <1>10 DEF k

LEMMA PersistenceIsIn ==
  ASSUME NEW h, NEW n
  PROVE  PersistsAfter(h, n) <=> PersistsIn(verdicts, h, n)
  BY DEF PersistsAfter, PersistsIn, Runs, Supports, Lacks

\* Every counter of every tracker is what the verdicts since the last reset
\* make it, however support and its absence alternate.
THEOREM TrackersCorrect ==
  Spec => []TrackersMatchEvidence
  <1>1. Init => TrackersInv
    <2>1. Init => EnginesInv
      BY InitCleared, ClearedInv
    <2>2. QED
      BY <2>1, FreshFollows DEF Init, TrackersInv
  <1>2. TrackersInv => TrackersMatchEvidence
    <2> SUFFICES ASSUME TrackersInv, NEW h \in Hypotheses
                 PROVE  LET n == Len(verdicts)
                        IN /\ trackers[h].support = SupportRun(h)
                           /\ trackers[h].persisted = PersistsAfter(h, n)
                           /\ trackers[h].recovered =
                                (n > 0 /\ PersistsAfter(h, n - 1) /\ ~PersistsAfter(h, n))
      BY DEF TrackersMatchEvidence
    <2>1. /\ trackers[h] \in Trackers /\ verdicts \in Seq(SUBSET Hypotheses)
          /\ Follows(trackers[h], verdicts, h)
      BY DEF TrackersInv, TrackersFollow, EnginesInv, EnginesTypeOK, DiagnosticsTypeOK, Trackers
    <2>2. trackers[h].support = SupportRun(h)
      BY <2>1, SupportCounted
    <2>3. trackers[h].persisted \in BOOLEAN /\ trackers[h].recovered \in BOOLEAN
      BY <2>1 DEF Trackers
    <2>4. trackers[h].persisted <=> PersistsAfter(h, Len(verdicts))
      BY <2>1, PersistenceIsIn DEF Follows
    <2>5. trackers[h].recovered <=>
            (/\ Len(verdicts) > 0 /\ PersistsAfter(h, Len(verdicts) - 1)
             /\ ~PersistsAfter(h, Len(verdicts)))
      BY <2>1, PersistenceIsIn DEF Follows
    <2>6. PersistsAfter(h, Len(verdicts)) \in BOOLEAN
      BY DEF PersistsAfter
    <2>7. trackers[h].persisted = PersistsAfter(h, Len(verdicts))
      <3>1. CASE trackers[h].persisted = TRUE
        <4>1. PersistsAfter(h, Len(verdicts)) = TRUE
          BY <2>4, <2>6, <3>1
        <4>2. QED
          BY <3>1, <4>1
      <3>2. CASE trackers[h].persisted = FALSE
        <4>1. PersistsAfter(h, Len(verdicts)) = FALSE
          BY <2>4, <2>6, <3>2
        <4>2. QED
          BY <3>2, <4>1
      <3>3. QED
        BY <2>3, <3>1, <3>2
    <2>8. trackers[h].recovered =
            (/\ Len(verdicts) > 0 /\ PersistsAfter(h, Len(verdicts) - 1)
             /\ ~PersistsAfter(h, Len(verdicts)))
      BY <2>3, <2>5, Zenon
    <2>9. QED
      BY <2>2, <2>7, <2>8
  <1>3. QED
    BY <1>1, <1>2, TrackersInvKept, PTL DEF Spec
=============================================================================
