------------------------------- MODULE Features -------------------------------
(***************************************************************************)
(* The descriptive features of a trajectory: how much each quantity has    *)
(* changed, at which rate over each domain, along which line, and under    *)
(* which conditions.  A feature set is a set of named, graded values.      *)
(***************************************************************************)
EXTENDS Trajectory, Fractions

CONSTANTS
  MinObservations,   \* min_observations of the extractor
  RollingWindow      \* rolling_window_size

ASSUME FeaturesAssumption == MinObservations \in Nat \ {0} /\ RollingWindow \in Nat \ {0, 1}

SecondsPerDay == 86400

Feature(of, name, status, value) ==
  [of |-> of, name |-> name, status |-> status, value |-> value]
Valid(of, name, value) == Feature(of, name, "VALID", value)
When(condition, features) == IF condition THEN features ELSE {}

Fades(quantity) == quantity \in {"capacity", "retention"}

\* A change over a span of its domain, or a span that is none.
Rate(quantity, name, delta, span, scale) ==
  IF span > 0 THEN {Valid(quantity, name, Over(delta, scale * span))}
  ELSE {Feature(quantity, name, "ZERO_DENOMINATOR", Absent)}

SpanOf(series) == Last(series)[2] - Head(series)[2]

\* Throughput is what was discharged, or charged when nothing was.
AmpereHourSeries(traj) ==
  IF Series(traj, "discharge") # <<>> THEN Series(traj, "discharge") ELSE Series(traj, "charge")

Windows(series) ==
  [i \in 1..(Len(series) - RollingWindow + 1) |-> SubSeq(series, i, i + RollingWindow - 1)]
Sloped(windows) == SelectSeq(windows, HasSlope)

\* The sample variance of slopes; its root is the feature.
Mean(s) == LET sum == FoldLeft(Plus, Zero, s) IN Over(sum[1], sum[2] * Len(s))
Square(a) == <<a[1] * a[1], a[2] * a[2]>>
Variance(s) ==
  LET m == Mean(s)
      sum == FoldLeft(LAMBDA a, x : Plus(a, Square(Plus(x, Minus(m)))), Zero, s)
  IN Over(sum[1], sum[2] * (Len(s) - 1))

\* Faulty variant: the line through the ends.
TrendOfEnds(quantity, series, days) ==
  When(Len(series) >= 2 /\ days > 0,
       {Valid(quantity, "ols_slope_per_day", Over(SpanOf(series), days))})

Trend(quantity, series, days) ==
  When(Len(series) >= 2 /\ days > 0 /\ HasSlope(series),
       {Valid(quantity, "ols_slope_per_day", Slope(series)),
        Valid(quantity, "ols_r_squared", RSquared(series))})

Rolling(quantity, series) ==
  When(Len(series) >= RollingWindow /\ HasSlope(Last(Windows(series))),
       LET slopes == [i \in DOMAIN Sloped(Windows(series)) |-> Slope(Sloped(Windows(series))[i])]
       IN {Valid(quantity, "rolling_slope_recent_per_day", Slope(Last(Windows(series))))}
          \union When(Len(slopes) >= 2,
                      {Valid(quantity, "rolling_slope_variance", Variance(slopes))}))

\* What is lost, or what is grown, is positive.
QuantityFeatures(traj, quantity) ==
  LET series == Series(traj, quantity)
      days == Last(series)[1] - Head(series)[1]
      delta == IF Fades(quantity) THEN -SpanOf(series) ELSE SpanOf(series)
      cycles == Series(traj, "efc")
      hours == AmpereHourSeries(traj)
  IN IF Len(series) < MinObservations
     THEN {Feature(quantity, "delta",
                   IF series = <<>> THEN "UNAVAILABLE" ELSE "INSUFFICIENT_DATA", Absent)}
     ELSE UNION {
       {Valid(quantity, "delta", Whole(delta)),
        Valid(quantity, "initial_value", Whole(Head(series)[2])),
        Valid(quantity, "latest_value", Whole(Last(series)[2]))},
       Rate(quantity, "rate_per_second", delta, days, SecondsPerDay),
       When(days > 0, Rate(quantity, "rate_per_day", delta, days, 1)),
       When(Len(cycles) >= 2, Rate(quantity, "rate_per_efc", delta, SpanOf(cycles), 1)),
       When(Len(hours) >= 2, Rate(quantity, "rate_per_ah", delta, SpanOf(hours), 1)),
       Trend(quantity, series, days),
       Rolling(quantity, series)}

-----------------------------------------------------------------------------
(* The conditions under which the battery was observed.                    *)

ConditionsOf(traj, name) ==
  LET seen == Chosen(traj.obs, LAMBDA o : o.context # Absent /\ o.context[name] # Absent)
  IN [i \in DOMAIN seen |-> seen[i].context[name]]

Highest(s) == FoldLeft(LAMBDA a, b : IF a < b THEN b ELSE a, Head(s), s)
Lowest(s) == FoldLeft(LAMBDA a, b : IF b < a THEN b ELSE a, Head(s), s)
MeanOf(s) == Over(Total(s), Len(s))
RangeOf(s) == Whole(Highest(s) - Lowest(s))

ContextFeatures(traj) ==
  UNION {LET s == ConditionsOf(traj, name) IN When(s # <<>>,
    CASE name = "cell" -> {Valid(name, "mean", MeanOf(s)), Valid(name, "range", RangeOf(s)),
                           Valid(name, "max", Whole(Highest(s))),
                           Valid(name, "min", Whole(Lowest(s)))}
      [] name = "ambient" -> {Valid(name, "mean", MeanOf(s))}
      [] name = "current" -> {Valid(name, "mean_absolute", MeanOf([i \in DOMAIN s |-> Abs(s[i])])),
                              Valid(name, "max_discharge", Whole(Highest(<<0>> \o s))),
                              Valid(name, "max_charge", Whole(-Lowest(<<0>> \o s)))}
      [] OTHER -> {Valid(name, "mean", MeanOf(s)), Valid(name, "range", RangeOf(s))})
    : name \in Contexts}

ExtractFeatures(traj) ==
  {Valid("trajectory", "total_observations", Whole(Len(traj.obs))),
   Valid("trajectory", "elapsed_time_days", Whole(IF Duration(traj) > 0 THEN Duration(traj) ELSE 0)),
   Valid("trajectory", "elapsed_time_seconds", Whole(SecondsPerDay * Duration(traj))),
   Feature("trajectory", "ordering_status", Ordering(traj), Absent)}
  \union ContextFeatures(traj)
  \union UNION {QuantityFeatures(traj, q) : q \in Quantities}

\* The features of a quantity that have a value.
Grade(features, quantity, name) ==
  {f.value : f \in {g \in features : g.of = quantity /\ g.name = name /\ g.status = "VALID"}}
===============================================================================
