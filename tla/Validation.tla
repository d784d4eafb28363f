------------------------------ MODULE Validation ------------------------------
(***************************************************************************)
(* validation/: how well the model follows the battery.  An auditor flags  *)
(* the steps that are not sound, the residuals are gathered in windows,    *)
(* and a window that is complete, or that a gap interrupts, is sealed with *)
(* a verdict on the model and one on the parameters identified online.     *)
(*                                                                         *)
(* A sample of the window stands for what its accumulators keep of it.     *)
(***************************************************************************)
EXTENDS Calibration

CONSTANTS
  WindowDuration,   \* window_duration_s: 60 s in the code
  MinSamples,       \* min_samples_per_window: 10 in the code
  MaxSamples,       \* max_samples_per_window: 600 in the code
  WindowHistory     \* history_capacity: 50 in the code

ASSUME ValidationAssumption ==
  /\ WindowDuration \in Nat \ {0}
  /\ MinSamples \in Nat /\ MinSamples > 1
  /\ MaxSamples \in Nat /\ MaxSamples >= MinSamples
  /\ WindowHistory \in Nat \ {0}

VARIABLES
  audited,     \* the auditor's _last_timestamp_ns
  window,      \* the active window: its times, samples and flags
  windows,     \* _history: the sealed windows
  windowIndex, \* _window_index
  evaluator,   \* the parameter evaluator: the last resistance, stable windows
  shadow,      \* whether the shadow simulator has been initialized
  report       \* _latest_report

validationVars == <<audited, window, windows, windowIndex, evaluator, shadow, report>>

Flags == {"INVALID_TELEMETRY_QUALITY", "MISSING_VOLTAGE", "MISSING_CURRENT",
          "DUPLICATE_TIMESTAMP", "RETROGRADE_TIMESTAMP", "TELEMETRY_GAP"}
Times == Nat \union {None}
Tiers == {"STRONG", "MODERATE", "WEAK", "REJECTED"}
Verdicts == {"DATA_QUALITY_FAILED", "INSUFFICIENT_DATA", "EXCITATION_STEADY_STATE_ONLY",
             "VALIDATED", "DEGRADED"}
Sealed == [index: Nat, start: Times, last: Times, count: Nat, state: Verdicts,
           flags: SUBSET Flags, evidence: Tiers \union {"none"}]

ValidationTypeOK ==
  /\ audited \in Times
  /\ window \in [start: Times, last: Times, flags: SUBSET Flags,
                 samples: Seq([current: Values, vres: Values])]
  /\ Len(window.samples) < MaxSamples
  /\ windows \in Seq(Sealed) /\ Len(windows) <= WindowHistory
  /\ windowIndex \in Nat \ {0}
  /\ evaluator \in [r0: Resistances \union {None}, stable: Nat]
  /\ shadow \in BOOLEAN
  /\ report \in {<<>>} \union [active: {"VALIDATING", "INSUFFICIENT_DATA"}, completed: Seq(Sealed)]

\* _reset_accumulators()
EmptyWindow == [start |-> None, last |-> None, flags |-> {}, samples |-> <<>>]

ClearValidation ==
  /\ audited' = None /\ window' = EmptyWindow /\ windows' = <<>> /\ windowIndex' = 1
  /\ evaluator' = [r0 |-> None, stable |-> 0] /\ shadow' = FALSE /\ report' = <<>>

ValidationInit ==
  /\ audited = None /\ window = EmptyWindow /\ windows = <<>> /\ windowIndex = 1
  /\ evaluator = [r0 |-> None, stable |-> 0] /\ shadow = FALSE /\ report = <<>>

FlagIf(condition, flag) == IF condition THEN {flag} ELSE {}

\* Faulty variant: the duration of a window is taken for the limit of a gap.
AuditLax(o) ==
  UNION {FlagIf(o.invalid, "INVALID_TELEMETRY_QUALITY"),
         FlagIf(~o.voltage, "MISSING_VOLTAGE"),
         FlagIf(o.current = None, "MISSING_CURRENT"),
         FlagIf(audited # None /\ o.time = audited, "DUPLICATE_TIMESTAMP"),
         FlagIf(audited # None /\ o.time < audited, "RETROGRADE_TIMESTAMP"),
         FlagIf(audited # None /\ o.time > audited + WindowDuration, "TELEMETRY_GAP")}

\* audit_step()
Audit(o) ==
  UNION {FlagIf(o.invalid, "INVALID_TELEMETRY_QUALITY"),
         FlagIf(~o.voltage, "MISSING_VOLTAGE"),
         FlagIf(o.current = None, "MISSING_CURRENT"),
         FlagIf(audited # None /\ o.time = audited, "DUPLICATE_TIMESTAMP"),
         FlagIf(audited # None /\ o.time < audited, "RETROGRADE_TIMESTAMP"),
         FlagIf(audited # None /\ o.time > audited + MaxInterval, "TELEMETRY_GAP")}

Unsound == Flags \ {"TELEMETRY_GAP"}   \* a step with one of these is not valid

Field(samples, f) == [i \in DOMAIN samples |-> samples[i][f]]

\* The verdict of _seal_window() on a window without flags: its residuals
\* are within 30 mV RMS and 80 mV at the most.
Judged(samples) ==
  LET n == Len(samples)
      residual == Field(samples, "vres")
  IN IF n < MinSamples THEN "INSUFFICIENT_DATA"
     ELSE IF ScaledVariance(Field(samples, "current")) < n * (n - 1)
     THEN "EXCITATION_STEADY_STATE_ONLY"
     ELSE IF /\ Total(Squares(residual)) <= 900 * n
             /\ \A i \in 1..n : Magnitude(residual[i]) <= 80
     THEN "VALIDATED"
     ELSE "DEGRADED"

\* evaluate() of the identified parameters p.  Whether they predict the
\* voltage better than the nominal ones depends on the shadow simulation.
Tiered(p, improved) ==
  LET stable == evaluator.r0 = None \/ 20 * Magnitude(p.r0 - evaluator.r0) <= evaluator.r0
  IN CASE p.secondary = "extreme" -> "REJECTED"
       [] p.secondary # "extreme" /\ (p.status \notin Observing \/ ~stable \/ ~p.confident) -> "WEAK"
       [] OTHER -> IF improved THEN "STRONG" ELSE "MODERATE"

Evaluated(p) ==
  evaluator' =
    [r0 |-> p.r0,
     stable |-> IF evaluator.r0 = None THEN evaluator.stable
                ELSE IF 20 * Magnitude(p.r0 - evaluator.r0) <= evaluator.r0
                THEN evaluator.stable + 1 ELSE 0]

\* _seal_window() of w: its report goes to the history, which is bounded.
Sealing(w, state, evidence) ==
  Pushed(windows,
         [index |-> windowIndex, start |-> w.start, last |-> w.last, count |-> Len(w.samples),
          state |-> state, flags |-> w.flags, evidence |-> evidence],
         WindowHistory)

\* The window a step is audited into: a gap has sealed the one before.
AuditedInto(o) ==
  LET base == IF "TELEMETRY_GAP" \in Audit(o) THEN EmptyWindow ELSE window
  IN [base EXCEPT !.flags = @ \union Audit(o)]

Ingested(w, o) ==
  [w EXCEPT !.start = IF @ = None THEN o.time ELSE @, !.last = o.time,
            !.samples = Append(@, [current |-> o.current, vres |-> o.vres])]

Full(w) == w.last - w.start >= WindowDuration \/ Len(w.samples) >= MaxSamples

\* _build_active_report()
ActiveReport ==
  report' = [active |-> IF window'.samples # <<>> THEN "VALIDATING" ELSE "INSUFFICIENT_DATA",
             completed |-> IF windows' = <<>> THEN <<>> ELSE <<Last(windows')>>]

\* A gap seals the window whatever it holds, even nothing.
Interrupted == Sealing(window, "DATA_QUALITY_FAILED", "none")

\* A gap resets the shadow simulator of the identified branch; a sound step
\* initializes it, unless it is, and advances it.  Its voltage is abstract.
ShadowRuns(gap, sound, p) == (shadow /\ ~gap) \/ (sound /\ p # <<>>)

\* update() with the identified parameters p (<<>> without calibration)
Validate(o, p) ==
  LET flags == Audit(o)
      gap == "TELEMETRY_GAP" \in flags
      sound == flags \intersect Unsound = {}
      w == Ingested(AuditedInto(o), o)
      verdict == IF w.flags # {} THEN "DATA_QUALITY_FAILED" ELSE Judged(w.samples)
  IN /\ audited' = o.time
     /\ shadow' = ShadowRuns(gap, sound, p)
     /\ IF sound /\ ~gap /\ Full(w)
        THEN \E improved \in BOOLEAN :
               /\ windows' = Sealing(w, verdict, IF p = <<>> THEN "none" ELSE Tiered(p, improved))
               /\ IF p = <<>> THEN UNCHANGED evaluator ELSE Evaluated(p)
               /\ window' = EmptyWindow /\ windowIndex' = windowIndex + 1
        ELSE /\ windows' = IF gap THEN Interrupted ELSE windows
             /\ windowIndex' = IF gap THEN windowIndex + 1 ELSE windowIndex
             /\ window' = IF sound THEN w ELSE AuditedInto(o)
             /\ UNCHANGED evaluator
     /\ ActiveReport
=============================================================================
