------------------------------- MODULE Prognosis -------------------------------
(***************************************************************************)
(* The prognostic pipeline: a history of states arrives record by record,  *)
(* and at any time an assessment turns it into trajectories, evaluates the *)
(* criteria of a portfolio against them, and makes one report of it.       *)
(*                                                                         *)
(* A job is a way to use the pipeline: form is "history" when the pipeline *)
(* extracts the trajectory, "quantities" when each part is extracted by    *)
(* name, "observations" when the history already is one of observations.   *)
(***************************************************************************)
EXTENDS Limiting, Features

CONSTANT Jobs      \* the jobs of an instance, by name

\* The criteria of a portfolio differ in their ids.
IsPortfolio(p) ==
  /\ p \in Seq(ToSet(p)) \ {<<>>}
  /\ \A i \in DOMAIN p :
       /\ p[i].id # Absent /\ {p[i].alpha, p[i].threshold} \subseteq Int
       /\ p[i].baseline \in (Nat \ {0}) \union {Absent}
       /\ \A k \in DOMAIN p : k # i => p[k].id # p[i].id /\ p[k].alpha # p[i].alpha

IsPart(part, form) ==
  form = "quantities" => part.quantity \in Quantities /\ part.domain \in DOMAIN UnitOf

ASSUME JobsAssumption ==
  \A j \in DOMAIN Jobs : LET x == Jobs[j] IN
    /\ x.form \in {"history", "quantities", "observations"} /\ x.mapping \in BOOLEAN
    /\ x.parts \in Seq(ToSet(x.parts)) \ {<<>>}
    /\ \A i \in DOMAIN x.parts : IsPart(x.parts[i], x.form)
    /\ IsPortfolio(x.portfolio)
    /\ \A c \in DOMAIN x.policies : PolicyValid(x.policies[c])
    /\ \A r \in x.alphabet : IF x.form = "observations" THEN IsObservation(r) ELSE IsRecord(r)
    /\ x.config.domain \in DOMAIN UnitOf \union {Absent}
    /\ x.config.cutoff \in Nat \union {Absent} /\ x.config.minObs \in Nat
    /\ {x.config.ols, x.config.fallback} \subseteq BOOLEAN
    /\ x.config.strategy \in Strategies

VARIABLES
  job,        \* the job at hand
  history,    \* its records, in order of arrival
  report      \* the last report; its status is NONE before one is made, and
              \* RAISED when the assessment raised

vars == <<job, history, report>>

-----------------------------------------------------------------------------
(* The trajectories of a job.                                              *)

Extracts(part, records) ==
  CASE job.form = "history" -> MultivariateExtractable(records)
    [] job.form = "quantities" -> Extractable(records, part.quantity, part.domain)
    [] job.form = "observations" -> TRUE

\* An observation of a part has the fields the part is about.
Observed(records, fields) ==
  [i \in DOMAIN records |->
     [records[i] EXCEPT !.of = [f \in Fields |-> IF f \in fields THEN @[f] ELSE Absent]]]
TypeOfPart(part) ==
  CASE job.form = "history" -> "MULTIVARIATE"
    [] job.form = "quantities" -> TypeOfQuantity[part.quantity]
    [] job.form = "observations" -> part.type
TrajectoryOf(part, records) ==
  CASE job.form = "history" -> ExtractMultivariate(records)
    [] job.form = "quantities" -> Extract(records, part.quantity)
    [] job.form = "observations" -> Build(part.type, Observed(records, part.fields), part.sorted)

\* A list is filed under the type and the id of each trajectory, a mapping
\* under its own keys: what is filed under a key again takes its place.  (With
\* the concatenation, each trajectory is worked out once.)
Put ==
  IF job.mapping THEN [i \in DOMAIN job.parts |-> [key |-> job.parts[i].key, part |-> job.parts[i]]]
  ELSE [i \in 1..2 * Len(job.parts) |->
          LET part == job.parts[(i + 1) \div 2]
          IN [key |-> IF i % 2 = 0 THEN part.key ELSE TypeOfPart(part), part |-> part]]
Filed(records) ==
  LET put == Put
      Same(i) == {j \in DOMAIN put : put[j].key = put[i].key}
      Under(i) == [key |-> put[i].key, traj |-> TrajectoryOf(put[Max(Same(i))].part, records)]
  IN <<>> \o Picked([i \in DOMAIN put |-> Under(i)], {i \in DOMAIN put : i = Min(Same(i))})

TypeExpected(criterion) ==
  IF Supported(criterion) THEN TypeOfQuantity[FieldOfType[criterion.type]] ELSE "CUSTOM"
Holds(traj, field) == With(traj, field) # <<>>
Serves(traj, criterion) ==
  /\ traj.type = "MULTIVARIATE"
  /\ \/ Holds(traj, FieldOf(criterion))
     \/ FieldOf(criterion) = "ratio" /\ Holds(traj, "r0")

\* The place of the trajectory a criterion is evaluated against: the first filed
\* under its id, under its type, one of many channels that has its own, one of
\* its type, and 0 when there is none.
Match(filed, criterion) ==
  LET First(Test(_)) == SelectInSeq(filed, Test)
      places == <<First(LAMBDA f : f.key = criterion.id),
                  First(LAMBDA f : f.key = TypeExpected(criterion)),
                  First(LAMBDA f : Serves(f.traj, criterion)),
                  First(LAMBDA f : f.traj.type = TypeExpected(criterion))>>
      found == SelectInSeq(places, LAMBDA i : i # 0)
  IN IF found = 0 THEN 0 ELSE places[found]

\* One policy for all, or one by the id of the criterion or the default one.
PolicyOf(criterion) ==
  LET of == job.policies IN
  IF criterion.id \in DOMAIN of THEN of[criterion.id]
  ELSE IF "default" \in DOMAIN of THEN of["default"] ELSE Absent

-----------------------------------------------------------------------------
(* The report.                                                             *)

EvaluationOf(filed, criterion) ==
  LET place == Match(filed, criterion) IN
  IF place = 0 \/ filed[place].traj.obs = <<>> THEN MissingData
  ELSE Evaluate(filed[place].traj, criterion, job.config)

Bundle(criterion, evaluation) ==
  [criterion |-> criterion, evaluation |-> evaluation,
   decision |-> Decide(evaluation, PolicyOf(criterion))]

BundleOf(filed, criterion) == Bundle(criterion, EvaluationOf(filed, criterion))

\* What is not limiting, but can be acted upon, becomes an advisory.
AdvisoriesOf(bundles, limiting) ==
  FlattenSeq([i \in DOMAIN bundles |-> LET c == bundles[i] IN
    c.decision.secondary \o
      (IF c.criterion.id # limiting.limiting /\ Actionable(c.decision)
       THEN <<c.decision.verdict>> ELSE <<>>)])

IndeterminateDecision ==
  Decision("INDETERMINATE", Verdict("INDETERMINATE_STATE", "INFORMATIONAL", "NON_ACTIONABLE"),
           Absent, <<>>)
PrimaryDecision(bundles, limiting) ==
  IF limiting.status # "RESOLVED" THEN IndeterminateDecision
  ELSE bundles[SelectInSeq(bundles, LAMBDA c : c.criterion.id = limiting.limiting)].decision

PipelineStatus(bundles, limiting) ==
  LET statuses == {c.evaluation.status : c \in ToSet(bundles)} IN
  IF limiting.status \in {"INCOMPATIBLE_DOMAINS", "INCOMPATIBLE_UNITS"}
  THEN "INDETERMINATE_LIMITING"
  ELSE IF statuses = {"VALID"} THEN "SUCCESS"
  ELSE IF statuses \subseteq UsableStatuses THEN "SUCCESS_WITH_LIMITATIONS"
  ELSE IF statuses \intersect UsableStatuses # {} THEN "PARTIAL_EVALUATION"
  ELSE "BLOCKED_BY_VALIDITY"

\* The features are those of the trajectory that is filed first.
FeaturesOf(primary) ==
  IF job.config.features /\ Len(primary.obs) >= 2 THEN ExtractFeatures(primary) ELSE {}

Report(filed, bundles, limiting) ==
  [at |-> Max({0} \union {EndTime(filed[i].traj) : i \in DOMAIN filed}),
   bundles |-> bundles, limiting |-> limiting,
   decision |-> PrimaryDecision(bundles, limiting),
   advisories |-> AdvisoriesOf(bundles, limiting),
   status |-> PipelineStatus(bundles, limiting),
   features |-> FeaturesOf(filed[1].traj)]

ReportOn(filed, bundles) ==
  Report(filed, bundles, Resolve(bundles, job.config.strategy, job.config.fallback))

Assessment(records) ==
  LET Of(filed) ==
        ReportOn(filed, [i \in DOMAIN job.portfolio |-> BundleOf(filed, job.portfolio[i])])
  IN Of(Filed(records))

\* The uncertainty engine raises in the evaluation of a criterion, which nothing
\* catches on the way to the caller of assess().
EvaluationRaises(filed, criterion) ==
  LET place == Match(filed, criterion)
      traj == filed[place].traj
  IN place # 0 /\ traj.obs # <<>>
       /\ UncertaintyRaises(Estimate(traj, criterion, job.config), traj, criterion)

\* There is a trajectory of each part, and a policy for each criterion.
Prepared(records) ==
  /\ \A i \in DOMAIN job.parts : Extracts(job.parts[i], records)
  /\ \A i \in DOMAIN job.portfolio : PolicyOf(job.portfolio[i]) # Absent

Raises(records) ==
  \/ ~Prepared(records)
  \/ LET filed == Filed(records) IN
     \E i \in DOMAIN job.portfolio : EvaluationRaises(filed, job.portfolio[i])

-----------------------------------------------------------------------------
(* The actions.                                                            *)

Init ==
  /\ \E name \in DOMAIN Jobs : job = Jobs[name]
  /\ history = <<>>
  /\ report = [status |-> "NONE"]

\* A state of the twin is recorded; job.depth bounds the history.
Record ==
  /\ Len(history) < job.depth
  /\ \E r \in job.alphabet : history' = Append(history, r)
  /\ report' = [status |-> "NONE"]
  /\ UNCHANGED job

\* The history so far is assessed.
Assess ==
  /\ report.status = "NONE"
  /\ report' = IF Raises(history) THEN [status |-> "RAISED"] ELSE Assessment(history)
  /\ UNCHANGED <<job, history>>

Next == Record \/ Assess

Spec == Init /\ [][Next]_vars

-----------------------------------------------------------------------------
(* Properties.                                                             *)

Reported == report.status \notin {"NONE", "RAISED"}
BundlesOf == {report.bundles[i] : i \in DOMAIN report.bundles}
TimeOf(r) == IF job.form = "observations" THEN r.at ELSE r.t

\* What the estimator foresees of a criterion at a cutoff, whether or not its
\* uncertainty can then be evaluated.
Foreseen(records) ==
  [i \in DOMAIN job.portfolio |->
     LET p == BundleOf(Filed(records), job.portfolio[i]).evaluation.prediction
     IN [status |-> p.status, rul |-> p.rul]]

\* A record that is later than the cutoff changes no valid prediction: the
\* estimator's guarantee of causality.
NoFutureLeak ==
  [][ \/ history' = history \/ job.config.cutoff = Absent
      \/ TimeOf(Last(history')) <= job.config.cutoff
      \/ ~Prepared(history) \/ ~Prepared(history')
      \/ \A i \in DOMAIN job.portfolio :
           Foreseen(history)[i].status = "VALID" => Foreseen(history')[i] = Foreseen(history)[i]]_vars

\* No prediction at all is changed by it when the domain is configured, and not
\* resolved from the history, unless it can change which of several trajectories
\* a criterion is matched with: one of many channels is matched for what it has
\* at any time.
OneSource ==
  \/ job.form # "observations" \/ Len(job.parts) = 1
  \/ \A i \in DOMAIN job.parts : job.parts[i].type # "MULTIVARIATE"
CutoffHidesTheFuture ==
  [][ \/ history' = history \/ Absent \in {job.config.cutoff, job.config.domain} \/ ~OneSource
      \/ TimeOf(Last(history')) <= job.config.cutoff
      \/ ~Prepared(history) \/ ~Prepared(history')
      \/ Foreseen(history') = Foreseen(history)]_vars

\* The estimator and the evaluator of the end of life agree, when the operator
\* of the criterion is the one of its quantity and nothing hides the last
\* observation: no life remains exactly when the end of life is reached.
Aligned(c) ==
  /\ Supported(c) /\ ~ThresholdInvalid(c)
  /\ c.op = IF Decreasing(c) THEN "LESS_THAN_OR_EQUAL" ELSE "GREATER_THAN_OR_EQUAL"
EolAgreesWithRul ==
  (Reported /\ job.config.cutoff = Absent) =>
    \A b \in BundlesOf :
      LET e == b.evaluation
          traj == Filed(history)[Match(Filed(history), b.criterion)].traj
          used == ObservationsUsed(traj, b.criterion, e.prediction.domain, job.config)
      IN (Aligned(b.criterion) /\ e.prediction.status = "VALID" /\ Last(used) = Last(traj.obs))
           => (SameAs(e.prediction.rul, Zero) <=> e.eol.state = "ALREADY_REACHED")

Reordered(s) == {[i \in DOMAIN s |-> s[p[i]]] : p \in Bijection(DOMAIN s, DOMAIN s)}

\* The report names the worst, whatever the order of the portfolio: when the
\* shortest life limits, no criterion that can be used has a shorter one, the
\* decision is the limiting criterion's, a success always has a limiting
\* criterion, and another order names the same, unless order is the strategy.
LimitingIsTheWorst ==
  Reported =>
    LET l == report.limiting
        limiting == {b \in BundlesOf : b.criterion.id = l.limiting} IN
    /\ (report.status = "SUCCESS" /\ job.config.strategy = "SHORTEST_RUL") => limiting # {}
    /\ \A b \in limiting :
         /\ report.decision = b.decision
         /\ l.strategy = "SHORTEST_RUL" =>
              \A c \in BundlesOf : c.evaluation.usable => AtMost(RulOf(b), RulOf(c))
    /\ job.config.strategy # "EXPLICIT_POLICY_ORDER" =>
         \A s \in Reordered(report.bundles) :
           Resolve(s, job.config.strategy, job.config.fallback).limiting = l.limiting

\* A history of distinct times is assessed as if it had come in their order.
InOrder(records) == SortedBy(records, LAMBDA r, s : r.t < s.t)
ArrivalOrderDoesNotMatter ==
  (Reported /\ job.form # "observations"
     /\ \A i, j \in DOMAIN history : i # j => history[i].t # history[j].t) =>
    ~Raises(InOrder(history)) /\ Assessment(InOrder(history)) = report

\* The line of the features is the line of the estimator, which of the ratio
\* alone also has values that are not observed.
FeaturesAgreeWithEstimate ==
  (Reported /\ job.config.cutoff = Absent /\ job.config.ols /\ job.config.domain = "TIME"
     /\ Len(job.parts) = 1) =>
    \A b \in BundlesOf :
      LET rate == b.evaluation.prediction.rate
          slopes == Grade(report.features, FieldOf(b.criterion), "ols_slope_per_day") IN
      (rate # Absent /\ Less(Zero, rate) /\ FieldOf(b.criterion) # "ratio") =>
        \A slope \in slopes : SameAs(slope, IF Decreasing(b.criterion) THEN Minus(rate) ELSE rate)
===============================================================================
