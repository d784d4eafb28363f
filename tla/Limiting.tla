-------------------------------- MODULE Limiting --------------------------------
(***************************************************************************)
(* Which of the criteria of a portfolio limits the life of the battery.    *)
(*                                                                         *)
(* A bundle holds a criterion, its evaluation and its decision.  The ids   *)
(* of criteria are compared as strings: a criterion has its place in that  *)
(* order, which breaks the ties.                                           *)
(***************************************************************************)
EXTENDS Evaluation

\* From the least to the greatest.
Priorities == <<"INFORMATIONAL", "LOW", "MEDIUM", "HIGH", "CRITICAL">>
Classes == <<"NO_ACTION", "CONTINUE_MONITORING", "INSUFFICIENT_EVIDENCE", "OUT_OF_DOMAIN",
             "INCREASE_MONITORING", "SCHEDULE_INSPECTION", "DATA_QUALITY_ACTION_REQUIRED",
             "PLAN_MAINTENANCE", "APPROACHING_EOL", "EOL_REACHED">>

\* What has no place is the least of all: an indeterminate state, for one.
PlaceIn(ranking, x) == SelectInSeq(ranking, LAMBDA y : y = x)
Urgency(c) ==
  10 * PlaceIn(Priorities, c.decision.verdict.priority)
    + PlaceIn(Classes, c.decision.verdict.class)

RulOf(c) == c.evaluation.prediction.rul
DistanceOf(c) == c.evaluation.eol.distance
Comparable(c, d) ==
  /\ Absent \notin {RulOf(c), RulOf(d)}
  /\ c.evaluation.prediction.domain = d.evaluation.prediction.domain
  /\ c.evaluation.prediction.unit = d.evaluation.prediction.unit

Strategies == {"SHORTEST_RUL", "HIGHEST_DECISION_PRIORITY", "NEAREST_EOL_DISTANCE",
               "EXPLICIT_POLICY_ORDER"}
Unresolved(status, strategy) ==
  [status |-> status, strategy |-> strategy, limiting |-> Absent,
   secondary |-> Absent, margin |-> Absent]

\* The first of an order limits, and the second is what it is compared with.
Resolved(strategy, order, Margin(_, _)) ==
  [status |-> "RESOLVED", strategy |-> strategy, limiting |-> order[1].criterion.id,
   secondary |-> IF Len(order) > 1 THEN order[2].criterion.id ELSE Absent,
   margin |-> IF Len(order) > 1 THEN Margin(order[1], order[2]) ELSE Absent]

NotNegative(a) == IF Less(a, Zero) THEN Zero ELSE a
MarginOfRul(c, d) ==
  IF Comparable(c, d) THEN NotNegative(Plus(RulOf(d), Minus(RulOf(c)))) ELSE Absent
MarginOfDistance(c, d) == Whole(DistanceOf(d) - DistanceOf(c))

\* Faulty variant: ties are left to the order of the portfolio.
NoTieBreak(c, d) == FALSE

TieBreak(c, d) == c.criterion.alpha < d.criterion.alpha

ByPriority(candidates) ==
  Resolved("HIGHEST_DECISION_PRIORITY",
           SortedBy(candidates, LAMBDA c, d :
             \/ Urgency(d) < Urgency(c)
             \/ Urgency(d) = Urgency(c) /\ TieBreak(c, d)),
           MarginOfRul)

\* Only candidates with a life are compared; one whose end of life is reached,
\* but has no prediction, is not among them.
WithRul(candidates) == Chosen(candidates, LAMBDA c : RulOf(c) # Absent)
Shortest(candidates, fallback) ==
  LET lives == WithRul(candidates)
      OneValue(key) == Cardinality({c.evaluation.prediction[key] : c \in ToSet(lives)}) = 1
      Otherwise(status) ==
        IF fallback THEN ByPriority(candidates) ELSE Unresolved(status, "SHORTEST_RUL")
  IN IF lives = <<>> THEN Otherwise("ALL_CRITERIA_UNAVAILABLE")
     ELSE IF ~OneValue("domain") THEN Otherwise("INCOMPATIBLE_DOMAINS")
     ELSE IF ~OneValue("unit") THEN Otherwise("INCOMPATIBLE_UNITS")
     ELSE Resolved("SHORTEST_RUL",
                   SortedBy(lives, LAMBDA c, d :
                     \/ Less(RulOf(c), RulOf(d))
                     \/ SameAs(RulOf(c), RulOf(d)) /\ TieBreak(c, d)),
                   MarginOfRul)

\* Distances of one unit are compared, whatever the quantities.
Nearest(candidates) ==
  LET near == Chosen(candidates, LAMBDA c : DistanceOf(c) # Absent) IN
  IF Cardinality({c.criterion.unit : c \in ToSet(near)}) # 1 THEN ByPriority(candidates)
  ELSE Resolved("NEAREST_EOL_DISTANCE",
                SortedBy(near, LAMBDA c, d :
                  \/ DistanceOf(c) < DistanceOf(d)
                  \/ DistanceOf(c) = DistanceOf(d) /\ TieBreak(c, d)),
                MarginOfDistance)

Evaluated(c) == c.evaluation.usable \/ c.evaluation.eol.state \in
                  {"ALREADY_REACHED", "PROJECTED", "NOT_REACHED"}
Determinate(c) == c.decision.verdict.class # "INDETERMINATE_STATE"
Candidates(bundles) ==
  IF \E c \in ToSet(bundles) : Evaluated(c) THEN Chosen(bundles, Evaluated)
  ELSE Chosen(bundles, Determinate)

Resolve(bundles, strategy, fallback) ==
  LET candidates == Candidates(bundles) IN
  IF candidates = <<>> THEN Unresolved("ALL_CRITERIA_UNAVAILABLE", strategy)
  ELSE CASE strategy = "SHORTEST_RUL" -> Shortest(candidates, fallback)
         [] strategy = "HIGHEST_DECISION_PRIORITY" -> ByPriority(candidates)
         [] strategy = "NEAREST_EOL_DISTANCE" -> Nearest(candidates)
         [] strategy = "EXPLICIT_POLICY_ORDER" ->
              Resolved("EXPLICIT_POLICY_ORDER", candidates, MarginOfRul)
===============================================================================
