------------------------------- MODULE Evaluation -------------------------------
(***************************************************************************)
(* One criterion against one trajectory: the prediction, where the battery *)
(* is relative to its end of life, the uncertainty and the evidence, and   *)
(* what of it all can be used; and the decision a policy makes of it.      *)
(***************************************************************************)
EXTENDS RulUncertainty

CONSTANT MaxRetention     \* the greatest threshold of a retention: 1.5

ASSUME EvaluationAssumption == MaxRetention \in Nat

-----------------------------------------------------------------------------
(* The end of life.                                                        *)

ThresholdInvalid(criterion) ==
  \/ criterion.type \in (DOMAIN FieldOfType \union {"PEAK_POWER_THRESHOLD"})
     /\ criterion.threshold <= 0
  \/ criterion.type = "CAPACITY_RETENTION_THRESHOLD" /\ criterion.threshold > MaxRetention

Satisfies(value, op, threshold) ==
  CASE op = "LESS_THAN_OR_EQUAL" -> value <= threshold
    [] op = "GREATER_THAN_OR_EQUAL" -> value >= threshold
    [] op = "LESS_THAN" -> value < threshold
    [] op = "GREATER_THAN" -> value > threshold
    [] op = "EQUALS" -> value = threshold

Eol(state, distance) == [state |-> state, distance |-> distance]

\* Faulty variant: the first observation decides.
EarliestValue(traj, criterion) == Level(Head(traj.obs), criterion, FieldOf(criterion))

CurrentValue(traj, criterion) == Level(Last(traj.obs), criterion, FieldOf(criterion))

\* The last observation decides, whatever the cutoff and whether or not it is
\* one of the pairs.  The unit it is compared in is the criterion's own, so
\* the test for incompatible units never fails.
EolAssessment(traj, criterion, prediction) ==
  LET value == CurrentValue(traj, criterion) IN
  IF traj.obs = <<>> THEN Eol("INDETERMINATE", Absent)
  ELSE IF ThresholdInvalid(criterion) THEN Eol("INVALID", Absent)
  ELSE IF value = Absent THEN Eol("INDETERMINATE", Absent)
  ELSE Eol(IF Satisfies(value, criterion.op, criterion.threshold) THEN "ALREADY_REACHED"
           ELSE IF prediction.rul # Absent THEN "PROJECTED" ELSE "NOT_REACHED",
           Abs(value - criterion.threshold))

-----------------------------------------------------------------------------
(* The validity of an evaluation.                                          *)

UsableStatuses == {"VALID", "VALID_WITH_LIMITATIONS"}

\* A sound prediction is limited by an unknown state, by an uncertainty that
\* is none, and by weak evidence.
Limited(eol, uncertainty) ==
  \/ eol.state = "INDETERMINATE"
  \/ uncertainty.status \in {"UNDEFINED", "INSUFFICIENT_EVIDENCE", "COMBINATION_UNAVAILABLE"}
  \/ uncertainty.strength \in {Absent, "INSUFFICIENT", "VERY_WEAK", "WEAK"}

EvaluationStatus(prediction, eol, uncertainty) ==
  IF eol.state = "INVALID" THEN "INVALID_EOL_CRITERION"
  ELSE IF prediction.status # "VALID" THEN prediction.status
  ELSE IF Limited(eol, uncertainty) THEN "VALID_WITH_LIMITATIONS" ELSE "VALID"

\* Of the three dimensions of validity, what the decisions read: the quality.
DataQuality(prediction) ==
  IF prediction.status \in {"DATA_QUALITY_FAILED", "INSUFFICIENT_DATA"} THEN prediction.status
  ELSE "VALID"

Evaluation(prediction, eol, uncertainty) ==
  LET status == EvaluationStatus(prediction, eol, uncertainty)
  IN [status |-> status, prediction |-> prediction, eol |-> eol, uncertainty |-> uncertainty,
      quality |-> DataQuality(prediction), usable |-> status \in UsableStatuses]

Evaluate(traj, criterion, cfg) ==
  LET Of(prediction) == Evaluation(prediction, EolAssessment(traj, criterion, prediction),
                                   EvaluateUncertainty(prediction, traj, criterion, cfg))
  IN Of(Estimate(traj, criterion, cfg))

\* A criterion no trajectory is about.
MissingData ==
  [status |-> "INSUFFICIENT_DATA",
   prediction |-> [NoPrediction("INSUFFICIENT_DATA", "CYCLE") EXCEPT !.unit = "cycle"],
   eol |-> Eol("INDETERMINATE", Absent),
   uncertainty |-> Uncertainty("UNDEFINED", "UNDEFINED", Absent),
   quality |-> "INSUFFICIENT_DATA", usable |-> FALSE]

-----------------------------------------------------------------------------
(* The decision.  A rule holds a condition, what is absent of which is no  *)
(* constraint, and a decision.                                             *)

Constrains(constraint, value) == constraint # Absent => value \in constraint
StrengthOf(e) ==
  IF e.uncertainty.strength = Absent THEN "INSUFFICIENT" ELSE e.uncertainty.strength

RulWithin(e, limit) ==
  /\ e.prediction.rul # Absent
  /\ limit.domain \in {Absent, e.prediction.domain}
  /\ limit.unit \in {Absent, e.prediction.unit}
  /\ LET r == e.prediction.rul
         l == Whole(limit.value)
     IN CASE limit.op = "LESS_THAN_OR_EQUAL" -> AtMost(r, l)
          [] limit.op = "LESS_THAN" -> Less(r, l)
          [] limit.op = "GREATER_THAN_OR_EQUAL" -> AtMost(l, r)
          [] limit.op = "GREATER_THAN" -> Less(l, r)
          [] limit.op = "EQUALS" -> SameAs(r, l)

Matches(e, c) ==
  /\ Constrains(c.statuses, e.status)
  /\ c.forbidden # Absent => e.status \notin c.forbidden
  /\ c.usable => e.usable
  /\ c.quality => e.quality = "VALID"
  /\ Constrains(c.eol, e.eol.state)
  /\ Constrains(c.uncertainty, e.uncertainty.status)
  /\ c.least # Absent => Rank(c.least) <= Rank(StrengthOf(e))
  /\ c.most # Absent => Rank(StrengthOf(e)) <= Rank(c.most)
  /\ c.rul # Absent => RulWithin(e, c.rul)

\* A policy is refused when it is made, and again when it is used: ids and
\* ranks are unique, and every rule is about the policy's domain.
PolicyValid(policy) ==
  /\ \A i, j \in DOMAIN policy.rules : i # j =>
       policy.rules[i].id # policy.rules[j].id /\ policy.rules[i].rank # policy.rules[j].rank
  /\ \A i \in DOMAIN policy.rules : LET limit == policy.rules[i].condition.rul IN
       policy.domain # Absent /\ limit # Absent /\ limit.domain # Absent
         => limit.domain = policy.domain

Verdict(class, priority, actionability) ==
  [class |-> class, priority |-> priority, actionability |-> actionability]
Decision(status, verdict, rule, secondary) ==
  [status |-> status, verdict |-> verdict, rule |-> rule, secondary |-> secondary]

\* What is decided of an evaluation that cannot be used, when no rule matches.
Blocked(status) ==
  CASE status = "DATA_QUALITY_FAILED" ->
         Verdict("DATA_QUALITY_ACTION_REQUIRED", "CRITICAL", "INVESTIGATION_REQUIRED")
    [] status = "OUT_OF_DOMAIN" -> Verdict("OUT_OF_DOMAIN", "HIGH", "INVESTIGATION_REQUIRED")
    [] status \in {"INSUFFICIENT_DATA", "INVALID_EOL_CRITERION"} ->
         Verdict("DATA_QUALITY_ACTION_REQUIRED", "HIGH", "INVESTIGATION_REQUIRED")
    [] status = "INSUFFICIENT_HISTORY" ->
         Verdict("INSUFFICIENT_EVIDENCE", "MEDIUM", "ADVISORY_ONLY")
    [] OTHER -> Verdict("INDETERMINATE_STATE", "MEDIUM", "NON_ACTIONABLE")

\* The rules that match, by rank: the first decides, the others advise.
MatchedRules(e, policy) ==
  SortedBy(Chosen(policy.rules, LAMBDA r : Matches(e, r.condition)),
           LAMBDA a, b : a.rank < b.rank)

DecisionOf(e, policy, matched) ==
  IF policy.domain # Absent /\ e.prediction.status = "VALID" /\ e.prediction.domain # policy.domain
  THEN Decision("INCOMPATIBLE_EVALUATION",
                Verdict("INDETERMINATE_STATE", "MEDIUM", "NON_ACTIONABLE"), Absent, <<>>)
  ELSE IF matched # <<>>
  THEN Decision("EVALUATED", Head(matched).verdict, Head(matched).id,
                [i \in DOMAIN Tail(matched) |-> Tail(matched)[i].verdict])
  ELSE IF ~e.usable THEN Decision("BLOCKED_BY_VALIDITY", Blocked(e.status), Absent, <<>>)
  ELSE Decision("DEFAULT_RULE_APPLIED", policy.default, Absent, <<>>)

Decide(e, policy) == DecisionOf(e, policy, MatchedRules(e, policy))

Actionable(decision) ==
  decision.verdict.actionability \in {"ACTIONABLE", "MAINTENANCE_RECOMMENDATION",
                                      "DATA_QUALITY_ACTION"}
===============================================================================
