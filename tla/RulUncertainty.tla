----------------------------- MODULE RulUncertainty -----------------------------
(***************************************************************************)
(* The uncertainty of a prediction, and the strength of the evidence for   *)
(* it: the trend statistics, the uncertainty of the last measurement, how  *)
(* far the line is extrapolated, and what can be propagated of them.       *)
(*                                                                         *)
(* What is modelled of a standard uncertainty is whether there is one, and *)
(* its degrees of freedom; sizes are not.                                  *)
(***************************************************************************)
EXTENDS RulEstimation

CONSTANT ShortSpan    \* a history shorter than this is weak evidence: 10 in the code

ASSUME UncertaintyAssumption == ShortSpan \in Nat

\* The strengths of evidence, from the weakest.
Strengths == <<"INSUFFICIENT", "VERY_WEAK", "WEAK", "MODERATE", "STRONG", "VERY_STRONG">>
Rank(strength) == CHOOSE i \in DOMAIN Strengths : Strengths[i] = strength

\* A criterion the engine does not know is about the capacity.
FieldOf(criterion) == IF Supported(criterion) THEN FieldOfType[criterion.type] ELSE "capacity"

\* An engine of its own extracts the pairs again: there is no cutoff here, and
\* a discharge of zero is taken for none.
PositionAgain(o, domain) ==
  IF domain = "AMPERE_HOUR_THROUGHPUT" /\ o.of.discharge = 0 THEN o.of.charge
  ELSE Position(o, domain)
ObservationsWeighed(traj, criterion, domain) ==
  Chosen(traj.obs, LAMBDA o :
    Absent \notin {Level(o, criterion, FieldOf(criterion)), PositionAgain(o, domain)})
PairsWeighed(obs, criterion, domain) ==
  [i \in DOMAIN obs |-> <<PositionAgain(obs[i], domain),
                          Level(obs[i], criterion, FieldOf(criterion))>>]

\* A component: is there a standard uncertainty, of how many degrees of freedom.
Component(status, known, df) == [status |-> status, known |-> known, df |-> df]

TrendStatus(pairs) ==
  IF ~HasSlope(pairs) THEN "INSUFFICIENT_EVIDENCE"
  ELSE IF Len(pairs) = 2 THEN "DETERMINISTIC_ONLY"
  ELSE "STATISTICALLY_SUPPORTED"
TrendOf(pairs) ==
  LET status == TrendStatus(pairs) IN
  Component(status, status = "STATISTICALLY_SUPPORTED",
            IF Len(pairs) >= 2 THEN Len(pairs) - 2 ELSE 0)

\* There is neither a last measurement of the field nor a provenance in the
\* metadata, as when a ratio is worked out from a resistance.  What is to stand
\* for the uncertainty then is of two types the engine does not import
\* (engine.py:255-257): a NameError.
Unmeasured(obs, field) ==
  obs = <<>> \/ (Last(obs).of[field] = Absent /\ Last(obs).sigma = Absent)
UncertaintyRaises(prediction, traj, criterion) ==
  /\ prediction.status = "VALID"
  /\ Unmeasured(ObservationsWeighed(traj, criterion, prediction.domain), FieldOf(criterion))

\* The measurement of the last pair, when it is measured.  A relative
\* uncertainty needs a value to be relative to; a named one is provided, but
\* has no size.
NoMeasurement == Component("UNDEFINED", FALSE, Absent)
MeasurementOf(obs, field) ==
  IF obs = <<>> \/ Last(obs).sigma \in {"none", Absent} THEN NoMeasurement
  ELSE LET o == Last(obs) IN
       Component(IF o.sigma = "standard_df" THEN "STATISTICALLY_SUPPORTED" ELSE "ESTIMATED",
                 \/ o.sigma \in {"standard", "standard_df"}
                 \/ o.sigma = "relative" /\ o.of[field] # Absent,
                 IF o.sigma = "standard_df" THEN 1 ELSE Absent)

SpanOfPairs(pairs) == IF Len(pairs) >= 2 THEN Last(pairs)[1] - Head(pairs)[1] ELSE 0

-----------------------------------------------------------------------------
(* The evidence: a strength for each dimension that is evaluated.          *)

\* The strongest grade whose bound holds, of bounds from the strongest.
CountEvidence(n, ev) ==
  IF n < 2 THEN "INSUFFICIENT" ELSE IF n = 2 THEN "VERY_WEAK"
  ELSE IF n < ev.moderate THEN "WEAK" ELSE IF n < ev.strong THEN "MODERATE"
  ELSE IF n < ev.veryStrong THEN "STRONG" ELSE "VERY_STRONG"

SpanEvidence(span) ==
  IF span <= 0 THEN "INSUFFICIENT" ELSE IF span < ShortSpan THEN "WEAK" ELSE "STRONG"

FitEvidence(pairs) ==
  LET AtLeast(percent) == AtMost(<<percent, 100>>, RSquared(pairs)) IN
  IF Len(pairs) = 2 THEN "WEAK" ELSE IF AtLeast(90) THEN "STRONG"
  ELSE IF AtLeast(70) THEN "MODERATE" ELSE IF AtLeast(40) THEN "WEAK" ELSE "VERY_WEAK"

\* The ratio of what is extrapolated to what was observed.
RatioEvidence(rul, span) ==
  LET Within(halves) == AtMost(Times(2, rul), Whole(halves * span)) IN
  IF span <= 0 THEN IF SameAs(rul, Zero) THEN "VERY_STRONG" ELSE "INSUFFICIENT"
  ELSE IF Within(1) THEN "VERY_STRONG" ELSE IF Within(2) THEN "STRONG"
  ELSE IF Within(4) THEN "MODERATE" ELSE IF Within(10) THEN "WEAK" ELSE "VERY_WEAK"

ContextEvidence(context) ==
  LET n == Cardinality({c \in Contexts : context[c] # Absent}) IN
  IF n >= 3 THEN "STRONG" ELSE IF n >= 1 THEN "MODERATE" ELSE "WEAK"

Evidence(prediction, pairs, measurement, ev) ==
  <<CountEvidence(Len(pairs), ev),
    SpanEvidence(SpanOfPairs(pairs)),
    RatioEvidence(prediction.rul, SpanOfPairs(pairs)),
    IF measurement = NoMeasurement THEN "WEAK" ELSE "STRONG">>
  \o (IF HasSlope(pairs) THEN <<FitEvidence(pairs)>> ELSE <<>>)
  \o (IF prediction.context # Absent THEN <<ContextEvidence(prediction.context)>> ELSE <<>>)

\* The weakest dimension, or the average of them rounded to the nearest, half
\* to the even index (indices are from 0 in the code).
Average(ranks) ==
  LET sum == Total([i \in DOMAIN ranks |-> ranks[i] - 1])
      n == Len(ranks)
      low == sum \div n
      rest == 2 * (sum % n)
  IN 1 + IF rest > n \/ (rest = n /\ low % 2 = 1) THEN low + 1 ELSE low
Overall(dimensions, ev) ==
  LET ranks == [i \in DOMAIN dimensions |-> Rank(dimensions[i])]
      least == CHOOSE r \in ToSet(ranks) : \A s \in ToSet(ranks) : r <= s
  IN IF least = 1 \/ ev.minimum THEN Strengths[least] ELSE Strengths[Average(ranks)]

-----------------------------------------------------------------------------
(* The propagation, and the whole of the engine.                           *)

Propagated(rate, trend, measurement, independent) ==
  IF ~Less(Zero, rate) THEN "INSUFFICIENT_EVIDENCE"
  ELSE IF ~trend.known /\ ~measurement.known THEN "DETERMINISTIC_ONLY"
  ELSE IF trend.known /\ measurement.known /\ ~independent THEN "COMBINATION_UNAVAILABLE"
  ELSE IF trend.known \/ measurement.df # Absent THEN "STATISTICALLY_SUPPORTED"
  ELSE "ESTIMATED"

Sized == {"STATISTICALLY_SUPPORTED", "ESTIMATED"}
TypeOfUncertainty(status, level) ==
  IF status \in Sized THEN IF level THEN "CONFIDENCE_BOUNDS" ELSE "STANDARD_DEVIATION"
  ELSE IF status = "DETERMINISTIC_ONLY" THEN "DETERMINISTIC_NO_UNCERTAINTY" ELSE "UNDEFINED"

Uncertainty(status, type, strength) == [status |-> status, type |-> type, strength |-> strength]

\* cfg.interval asks for a prediction interval, which there never is.
EvaluateUncertainty(prediction, traj, criterion, cfg) ==
  IF prediction.status # "VALID" THEN Uncertainty("INSUFFICIENT_EVIDENCE", "UNDEFINED", Absent)
  ELSE LET obs == ObservationsWeighed(traj, criterion, prediction.domain)
           pairs == PairsWeighed(obs, criterion, prediction.domain)
           measurement == MeasurementOf(obs, FieldOf(criterion))
           strength == Overall(Evidence(prediction, pairs, measurement, cfg.evidence), cfg.evidence)
           status == Propagated(prediction.rate, TrendOf(pairs), measurement, cfg.independent)
       IN IF SameAs(prediction.rul, Zero)
          THEN Uncertainty("DETERMINISTIC_ONLY", "DETERMINISTIC_NO_UNCERTAINTY", strength)
          ELSE IF cfg.interval THEN Uncertainty("UNDEFINED", "UNDEFINED", strength)
          ELSE Uncertainty(status, TypeOfUncertainty(status, cfg.level), strength)
===============================================================================
