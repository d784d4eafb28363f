------------------------------ MODULE Benchmark -------------------------------
(***************************************************************************)
(* The benchmark service: datasets are registered, a copy of a twin is     *)
(* stepped through one, its answers are aligned with the dataset and       *)
(* scored, and the results are kept, by id, per system and over all.       *)
(*                                                                         *)
(* An examination says what is asked: the dataset, the configuration, and  *)
(* what the copy of the twin answers to each frame, whatever that is.  The *)
(* live twin takes no part in it, so it is not in this module.             *)
(***************************************************************************)
EXTENDS Scoring, TimeIndex

CONSTANTS
  Systems,       \* the twins there are
  Exams,         \* the examinations of an instance
  Routine,       \* the one that is repeated: bound
  MaxHistory,    \* max_result_history
  MaxFrames,     \* max_batch_samples of the service
  MaxRuns        \* bound on the runs

ASSUME BenchmarkAssumption ==
  /\ IsFiniteSet(Systems)
  /\ Missing \notin Int \union Rejections /\ Missing \notin Int \X Int
  /\ Routine \in Exams /\ {MaxHistory, MaxFrames} \subseteq Nat \ {0}
  /\ \A x \in Exams :
       /\ x # Missing /\ IsPolicy(x.policy) /\ IsDataset(x.dataset)
       /\ \A i \in DOMAIN x.dataset.events : IsEvent(x.dataset.events[i])
       /\ x.reports \in Seq({r \in ToSet(x.reports) : IsReport(r)})
       /\ DOMAIN x.answers = DOMAIN x.dataset.frames
       /\ \A i \in DOMAIN x.answers, s \in Signals : x.answers[i][s] \in Int

VARIABLES
  datasets,    \* the datasets that are registered
  results,     \* the results that can be fetched, by id
  histories,   \* per system its results, oldest first, as far as they are kept
  everything,  \* the results of all systems in the same way
  announced,   \* the events published: benchmarks started and completed
  last         \* the last benchmark that was completed: examination and score

vars == <<datasets, results, histories, everything, announced, last>>

NoScore == [exam |-> Missing, signals |-> Missing, diagnosis |-> Missing]

-----------------------------------------------------------------------------
(* One execution.                                                          *)

\* The pairs of an examination.
Aligned(x) == AlignFrames(x.answers, x.dataset.frames, x.policy)

SignalReport(x) ==
  IF x.evaluateSignals /\ x.answers # <<>>
  THEN Stratified(Aligned(x), x.answers, x.contexts) ELSE Missing

DiagnosisReport(x) ==
  IF x.evaluateDiagnostics /\ x.dataset.events # <<>>
  THEN EvaluateDiagnosis(x.reports, x.dataset.events) ELSE Missing

\* A target is met when there is nothing to compare with it; a diagnostic
\* minimum is not.
IsPassing(x, signals, diagnosis) ==
  LET Meets(s) ==
        \/ x.targets[s] = Missing \/ signals.overall[s].mse = Missing
        \/ AtMost(signals.overall[s].mse, Whole(x.targets[s] * x.targets[s]))
      Reaches(rate, minimum) ==
        minimum = Missing \/ (rate # Missing /\ AtMost(minimum, rate)) IN
  /\ signals # Missing => \A s \in Signals : Meets(s)
  /\ diagnosis # Missing =>
       /\ Reaches(Precision(diagnosis.matrix), x.precision)
       /\ Reaches(Recall(diagnosis.matrix), x.recall)

-----------------------------------------------------------------------------
(* The service.                                                            *)

Init ==
  /\ datasets = {} /\ results = << >>
  /\ histories = << >> /\ everything = <<>>
  /\ announced = [started |-> 0, completed |-> 0]
  /\ last = NoScore

\* A dataset whose id is taken is refused.
RegisterDataset(d) ==
  /\ \A e \in datasets : e.id # d.id
  /\ datasets' = datasets \union {d}
  /\ UNCHANGED <<results, histories, everything, announced, last>>

\* deque(maxlen): the oldest falls out.
Kept(s) == IF Len(s) > MaxHistory THEN Tail(s) ELSE s

HistoryOf(hs, system) == IF system \in DOMAIN hs THEN hs[system] ELSE <<>>

IdsOf(s) == {r.id : r \in ToSet(s)}

\* The results with one more, by its id.
WithResult(rs, r) == [id \in DOMAIN rs \union {r.id} |-> IF id = r.id THEN r ELSE rs[id]]

\* Faulty variant: only what the history of all systems lists is retained.
PrunedToRecent(rs, hs, all) ==
  IF Cardinality(DOMAIN rs) > 5 * MaxHistory THEN Restrict(rs, DOMAIN rs \intersect IdsOf(all)) ELSE rs

\* Beyond five times the length of a history, the results no history lists are
\* dropped.
Pruned(rs, hs, all) ==
  IF Cardinality(DOMAIN rs) > 5 * MaxHistory
  THEN Restrict(rs, DOMAIN rs \intersect
                      (IdsOf(all) \union UNION {IdsOf(hs[s]) : s \in DOMAIN hs}))
  ELSE rs

\* Bounds: the first run is of any examination, the others of the routine one.
Runnable ==
  IF announced.started = 0 THEN Exams
  ELSE IF announced.started < MaxRuns /\ last.exam \in {Missing, Routine} THEN {Routine}
  ELSE {}

\* An examination may be run: it is of a registered dataset, not too long.
MayRun(x) ==
  /\ x.dataset \in datasets
  /\ Len(x.dataset.frames) <= Min({x.maxFrames, MaxFrames})

\* The result is recorded: of the system, of all, and by its id.
RecordResult(system, x, signals, diagnosis) ==
  /\ LET result == [id |-> announced.started + 1, system |-> system,
                    dataset |-> x.dataset.id, passing |-> IsPassing(x, signals, diagnosis)]
         hs == [s \in DOMAIN histories \union {system} |->
                  IF s = system THEN Kept(Append(HistoryOf(histories, system), result))
                  ELSE histories[s]]
         all == Kept(Append(everything, result)) IN
     /\ histories' = hs
     /\ everything' = all
     /\ results' = Pruned(WithResult(results, result), hs, all)
  /\ announced' = [started |-> announced.started + 1, completed |-> announced.completed + 1]
  /\ last' = [exam |-> x, signals |-> signals, diagnosis |-> diagnosis]
  /\ UNCHANGED datasets

\* The copy is stepped through the frames, the answers are scored, and the
\* result is recorded.
RunBenchmark(system, x) ==
  /\ MayRun(x)
  /\ RecordResult(system, x, SignalReport(x), DiagnosisReport(x))

\* A step of the copy raises: the start was announced, and nothing else.
RunFails(x) ==
  /\ MayRun(x)
  /\ announced' = [announced EXCEPT !.started = @ + 1]
  /\ UNCHANGED <<datasets, results, histories, everything, last>>

\* What a system's history lists is forgotten, here and in the one of all.
ResetSystem(system) ==
  /\ results' = Restrict(results, DOMAIN results \ IdsOf(HistoryOf(histories, system)))
  /\ histories' = Restrict(histories, DOMAIN histories \ {system})
  /\ everything' = Picked(everything, {i \in DOMAIN everything : everything[i].system # system})
  /\ UNCHANGED <<datasets, announced, last>>

ResetAll ==
  /\ results' = << >> /\ histories' = << >> /\ everything' = <<>>
  /\ UNCHANGED <<datasets, announced, last>>

Next ==
  \/ \E d \in {x.dataset : x \in Exams} : RegisterDataset(d)
  \/ \E x \in Runnable : RunFails(x) \/ \E system \in Systems : RunBenchmark(system, x)
  \/ \E system \in Systems : ResetSystem(system)
  \/ ResetAll

Spec == Init /\ [][Next]_vars

\* What the queries answer.
GetLatestResult(system) ==
  IF HistoryOf(histories, system) = <<>> THEN Missing ELSE Last(HistoryOf(histories, system))
GetHistory(s, limit) ==
  LET newest == Reverse(s) IN
  IF limit > 0 /\ limit < Len(newest) THEN SubSeq(newest, 1, limit) ELSE newest

-----------------------------------------------------------------------------
(* Properties.                                                             *)

InOrder(s) == \A i, j \in DOMAIN s : i < j => s[i].at <= s[j].at

\* A measurement the policy may pair with a time.
Eligible(r, at, policy) ==
  r.at <= at \/ (policy.mode = "NON_CAUSAL_BATCH" /\ policy.resampling = "BIDIRECTIONAL_NEAREST")

IsNearest(pair, known, policy) ==
  LET Distance(r) == Abs(r.at - pair.eval.at)
      others == {r \in ToSet(known) : Eligible(r, pair.eval.at, policy)} IN
  \E r \in ToSet(known) :
    /\ r.at = pair.at /\ Whole(r.value) = pair.ref
    /\ Eligible(r, pair.eval.at, policy)
    /\ Distance(r) <= policy.gap /\ Distance(r) <= policy.tolerance
    /\ InOrder(known) => \A q \in others : Distance(r) <= Distance(q)

IsBetween(pair, known, policy) ==
  \E a, b \in ToSet(known) :
    /\ a.at < pair.eval.at /\ pair.eval.at < b.at /\ b.at - a.at <= policy.gap
    /\ AtMost(Whole(Min({a.value, b.value})), pair.ref)
    /\ AtMost(pair.ref, Whole(Max({a.value, b.value})))
    /\ InOrder(known) => \A r \in ToSet(known) : r.at <= a.at \/ b.at <= r.at

IsFound(pair, known, policy) ==
  IF ~pair.valid THEN InOrder(known) => \A r \in ToSet(known) : r.at # pair.eval.at
  ELSE IF pair.status = "INTERPOLATED_LINEAR" THEN IsBetween(pair, known, policy)
  ELSE IsNearest(pair, known, policy)

\* A series rejects only what is no newer than a sample it took before, and all
\* that is not in order; it pairs every other sample as its frame does.
SeriesAgrees(series, aligned, policy) ==
  LET taken == {i \in DOMAIN series : series[i].status \notin Rejections} IN
  /\ \A i \in taken : series[i] = aligned[i]
  /\ \A i \in DOMAIN series \ taken :
       \E j \in taken : j < i /\ series[i].eval.at <= series[j].eval.at
  /\ \A i, j \in taken :
       i < j /\ policy.rejectsRetrograde =>
         \/ series[i].eval.at < series[j].eval.at
         \/ policy.duplicates /\ series[i].eval.at = series[j].eval.at

\* What the twin is compared with is the nearest measurement the policy admits,
\* never one from the future when it is causal, or lies between two neighbours
\* that no gap separates; when it is compared with nothing, nothing was measured
\* at that time.  Aligned as a series, the samples that are in order are paired
\* in the same way.  (TemporalAlignmentEngine takes the last of the frames that
\* are not in the future: that this is the nearest one needs frames in the order
\* of the times it uses, which observed_at_ns need not respect.)
PairsAreTheNearest ==
  last.exam # Missing =>
    LET x == last.exam
        frames == x.dataset.frames
        aligned == Aligned(x) IN
    \A s \in Signals :
      LET mine == [i \in DOMAIN aligned |-> aligned[i][s]]
          evals == [i \in DOMAIN mine |-> mine[i].eval] IN
      /\ \A i \in DOMAIN mine : IsFound(mine[i], Measured(frames, s, x.policy), x.policy)
      /\ SeriesAgrees(AlignTimeSeries(evals, s, frames, x.policy), mine, x.policy)

\* The sum of w over some keys.
SumOver(K, w) == Total([i \in 1..Cardinality(K) |-> w[SetToSeq(K)[i]]])

\* The operating regimes share the samples out: what they count and sum is what
\* the overall summary does, and no other dimension counts a sample twice
\* (NumericRangeBucket is closed at both ends).  The mean error is no larger
\* than the root mean square, nor that than the worst, and what Welford's
\* recurrence leaves is the variance of the references.
StrataAddUp ==
  last.signals # Missing =>
    LET report == last.signals
        In(d) == {k \in DOMAIN report.sliced : k[1] = d} IN
    \A s \in Signals :
      LET all == report.overall[s]
          acc == all.acc IN
      /\ SumOver(In("REGIME"), [k \in In("REGIME") |-> report.sliced[k][s].total]) = all.total
      /\ SumOver(In("REGIME"), [k \in In("REGIME") |-> report.sliced[k][s].paired]) = all.paired
      /\ SumOver(In("REGIME"), [k \in In("REGIME") |-> report.sliced[k][s].acc.consistent])
           = acc.consistent
      /\ \A d \in {"SOC", "TEMPERATURE", "CURRENT", "VOLTAGE"} :
           SumOver(In(d), [k \in In(d) |-> report.sliced[k][s].total]) <= all.total
      /\ all.total = all.paired + SumOver(DOMAIN all.excluded, all.excluded)
      /\ all.paired > 0 =>
           /\ AtMost(Scaled(all.mae, all.mae), all.mse)
           /\ AtMost(Scaled(all.bias, all.bias), all.mse)
           /\ AtMost(all.mse, Scaled(acc.worst, acc.worst))
           /\ LET pairs == Chosen([i \in DOMAIN Aligned(last.exam) |-> Aligned(last.exam)[i][s]],
                                  LAMBDA p : p.valid)
                  sum == SumUp([i \in DOMAIN pairs |-> pairs[i].ref])
                  squares == SumUp([i \in DOMAIN pairs |-> Scaled(pairs[i].ref, pairs[i].ref)]) IN
              SameAs(Times(all.paired, acc.refM2),
                     Plus(Times(all.paired, squares), Minus(Scaled(sum, sum))))

\* The two views of the diagnosis agree: some report is a true positive exactly
\* when some event was detected as expected; before and during a missed event no
\* fault was reported; every report is counted once.
VerdictsAgreeWithSamples ==
  last.diagnosis # Missing /\ last.exam.reports # <<>> =>
    LET d == last.diagnosis
        events == last.exam.dataset.events
        reports == last.exam.reports IN
    /\ d.matrix.tp > 0 <=> \E i \in DOMAIN events : d.verdicts[i].status = "DETECTED_MATCH"
    /\ \A i \in DOMAIN events : d.verdicts[i].status = "MISSED_EVENT" =>
         \A r \in ToSet(reports) :
           r.state \in Active => r.at >= events[i].start /\ ~Within(events[i], r.at)
    /\ d.matrix.tp + d.matrix.fp + d.matrix.tn + d.matrix.fn + d.matrix.unknown = d.reports

\* Every result some history lists can be fetched by its id, whatever was
\* pruned or reset; histories are in order, the newest of all is the latest of
\* its system, and what is kept is bounded.
ListedResultsAreKept ==
  LET lists == {everything} \union {histories[s] : s \in DOMAIN histories} IN
  /\ \A list \in lists :
       /\ Len(list) <= MaxHistory
       /\ \A i \in DOMAIN list :
            /\ list[i].id \in DOMAIN results /\ results[list[i].id] = list[i]
            /\ \A j \in DOMAIN list : i < j => list[i].id < list[j].id
  /\ everything # <<>> =>
       GetHistory(everything, 1) = <<GetLatestResult(Last(everything).system)>>
  /\ Cardinality(DOMAIN results)
       <= Max({5 * MaxHistory, MaxHistory * (1 + Cardinality(Systems))})
===============================================================================
