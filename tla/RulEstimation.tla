----------------------------- MODULE RulEstimation -----------------------------
(***************************************************************************)
(* The remaining useful life of a battery as the historical linear         *)
(* estimator computes it: the line through the observations, and where it  *)
(* crosses the end of life.                                                *)
(***************************************************************************)
EXTENDS Trajectory, Fractions

CONSTANTS
  FlatSlope,    \* slope_threshold: 1e-9 in the code
  LostRate      \* the greatest rate round(rate, 8) makes zero of: 5e-9

ASSUME EstimationAssumption ==
  FlatSlope \in Nat \X (Nat \ {0}) /\ LostRate \in Nat \X (Nat \ {0})

\* The criteria the estimator knows, and their quantity; capacity fades,
\* resistance grows.
FieldOfType ==
  [CAPACITY_RETENTION_THRESHOLD |-> "retention", ABSOLUTE_CAPACITY_THRESHOLD |-> "capacity",
   RESISTANCE_GROWTH_RATIO_THRESHOLD |-> "ratio", ABSOLUTE_RESISTANCE_THRESHOLD |-> "r0"]
Supported(criterion) == criterion.type \in DOMAIN FieldOfType
Decreasing(criterion) == FieldOfType[criterion.type] \in {"retention", "capacity"}

UnitOf == [CYCLE |-> "cycles", TIME |-> "days",
           AMPERE_HOUR_THROUGHPUT |-> "Ah", WATT_HOUR_THROUGHPUT |-> "Wh"]

ASSUME DomainsAreNoMarks == Absent \notin DOMAIN UnitOf

\* The configured domain, else the first one the trajectory has the channel
\* of: the whole trajectory, whatever the cutoff.
ResolvedDomain(traj, cfg) ==
  IF cfg.domain # Absent THEN cfg.domain
  ELSE IF Len(Series(traj, "efc")) >= 2 THEN "CYCLE"
  ELSE IF Duration(traj) > 0 THEN "TIME"
  ELSE IF Len(Series(traj, "discharge")) >= 2 THEN "AMPERE_HOUR_THROUGHPUT"
  ELSE IF Len(Series(traj, "energy")) >= 2 THEN "WATT_HOUR_THROUGHPUT"
  ELSE "CYCLE"

\* A ratio that is not observed is the resistance over a baseline, in
\* hundredths; the criterion's baseline comes before the observation's.
Baseline(o, criterion) == IF criterion.baseline # Absent THEN criterion.baseline ELSE o.baseline
Level(o, criterion, field) ==
  IF field # "ratio" \/ o.of.ratio # Absent THEN o.of[field]
  ELSE IF Absent \in {o.of.r0, Baseline(o, criterion)} THEN Absent
  ELSE (100 * o.of.r0) \div Baseline(o, criterion)

\* Where an observation is on the domain.
Position(o, domain) ==
  CASE domain = "CYCLE" -> o.of.efc
    [] domain = "TIME" -> o.at
    [] domain = "AMPERE_HOUR_THROUGHPUT" ->
         IF o.of.discharge # Absent THEN o.of.discharge ELSE o.of.charge
    [] domain = "WATT_HOUR_THROUGHPUT" -> o.of.energy

\* Faulty variant: the cutoff is one later.
KnownLate(o, cfg) == cfg.cutoff = Absent \/ o.at <= cfg.cutoff + 1

Known(o, cfg) == cfg.cutoff = Absent \/ o.at <= cfg.cutoff

\* The observations of the estimator, and the pairs they make.
ObservationsUsed(traj, criterion, domain, cfg) ==
  Chosen(traj.obs, LAMBDA o :
    /\ Known(o, cfg)
    /\ Absent \notin {Level(o, criterion, FieldOfType[criterion.type]), Position(o, domain)})
PairsOf(obs, criterion, field, domain) ==
  [i \in DOMAIN obs |-> <<Position(obs[i], domain), Level(obs[i], criterion, field)>>]

Prediction(status, domain, rul, rate, context) ==
  [status |-> status, domain |-> domain, unit |-> UnitOf[domain], rul |-> rul,
   rate |-> rate, context |-> context]
NoPrediction(status, domain) == Prediction(status, domain, Absent, Absent, Absent)

BeyondEol(criterion, y) ==
  IF Decreasing(criterion) THEN y <= criterion.threshold ELSE y >= criterion.threshold

EndpointSlope(pairs) ==
  Over(Last(pairs)[2] - Head(pairs)[2], Last(pairs)[1] - Head(pairs)[1])

\* The rate at which the quantity nears its threshold, and what is left of it.
RateTowardsEol(criterion, slope) == IF Decreasing(criterion) THEN Minus(slope) ELSE slope
MarginOf(criterion, y) ==
  IF Decreasing(criterion) THEN y - criterion.threshold ELSE criterion.threshold - y

\* The rate is rounded in the metadata of the result.
Rounded(rate) == IF AtMost(rate, LostRate) THEN Zero ELSE rate

\* What the line through the pairs says, given that there are enough.
Extrapolated(pairs, criterion, domain, cfg, context) ==
  LET y == Last(pairs)[2]
      slope == IF cfg.ols /\ Len(pairs) >= 2 THEN Slope(pairs) ELSE EndpointSlope(pairs)
      rate == RateTowardsEol(criterion, slope)
  IN IF BeyondEol(criterion, y) THEN Prediction("VALID", domain, Zero, Absent, context)
     ELSE IF cfg.ols /\ Len(pairs) >= 2 /\ ~HasSlope(pairs)
     THEN NoPrediction("DATA_QUALITY_FAILED", domain)
     ELSE IF AtMost(rate, FlatSlope) THEN NoPrediction("OUT_OF_DOMAIN", domain)
     ELSE Prediction("VALID", domain, Over(MarginOf(criterion, y) * rate[2], rate[1]),
                     Rounded(rate), context)

Estimate(traj, criterion, cfg) ==
  IF ~Supported(criterion) THEN NoPrediction("INSUFFICIENT_DATA", "CYCLE")
  ELSE LET domain == ResolvedDomain(traj, cfg)
           obs == ObservationsUsed(traj, criterion, domain, cfg)
           pairs == PairsOf(obs, criterion, FieldOfType[criterion.type], domain)
       IN IF pairs = <<>> THEN NoPrediction("INSUFFICIENT_DATA", domain)
          ELSE IF Len(pairs) < cfg.minObs THEN NoPrediction("INSUFFICIENT_HISTORY", domain)
          ELSE IF Last(pairs)[1] <= Head(pairs)[1] THEN NoPrediction("DATA_QUALITY_FAILED", domain)
          ELSE Extrapolated(pairs, criterion, domain, cfg, Last(obs).context)
===============================================================================
