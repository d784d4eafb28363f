------------------------------- MODULE Scoring --------------------------------
(***************************************************************************)
(* What a benchmark makes of its pairs: metrics over all of them and over  *)
(* those of each operating context, and of the diagnostic reports: a       *)
(* verdict on each event that was injected and a confusion matrix of the   *)
(* reports.                                                                *)
(***************************************************************************)
EXTENDS Alignment, FiniteSets

-----------------------------------------------------------------------------
(* Operating contexts.  A bucket is a closed range with a name; a value on *)
(* the edge of two belongs to the first of them.                           *)

InBucket(bucket, v) == bucket.min <= v /\ v <= bucket.max

Containing(buckets, v) == SelectSeq(buckets, LAMBDA b : InBucket(b, v))

\* Faulty variant: the search goes on after the first bucket that contains it.
EveryBucket(buckets, v) == {b.name : b \in ToSet(Containing(buckets, v))}

BucketsOf(buckets, v) ==
  IF Containing(buckets, v) = <<>> THEN {} ELSE {Head(Containing(buckets, v)).name}

Regime(current, rest) ==
  IF Abs(current) <= rest THEN "REST" ELSE IF current < 0 THEN "CHARGE" ELSE "DISCHARGE"

\* The slices of a sample, besides the one of all samples.  A bucket of rates
\* is given in currents, the capacity times the rate.
Slices(sample, contexts) ==
  LET Of(dimension, v) == {<<dimension, n>> : n \in BucketsOf(contexts.buckets[dimension], v)} IN
  {<<"REGIME", Regime(sample.current, contexts.rest)>>}
    \union Of("SOC", sample.soc_fraction) \union Of("TEMPERATURE", sample.temperature_c)
    \union Of("CURRENT", Abs(sample.current)) \union Of("VOLTAGE", sample.voltage_v)

-----------------------------------------------------------------------------
(* Metrics: the accumulator and what it yields.                            *)

Nought == [count |-> 0, errors |-> Zero, absolute |-> Zero, squares |-> Zero, worst |-> Zero,
           refMean |-> Zero, refM2 |-> Zero, refMin |-> Missing, refMax |-> Missing,
           consistent |-> 0]

Scaled(a, b) == Over(a[1] * b[1], a[2] * b[2])
Magnitude(a) == <<Abs(a[1]), a[2]>>
Greater(a, b) == IF b = Missing \/ Less(b, a) THEN a ELSE b
Lesser(a, b) == IF b = Missing \/ Less(a, b) THEN a ELSE b

\* Welford's recurrence for the mean of the references and the sum of the
\* squares of their distances to it.
Update(acc, pair) ==
  LET n == acc.count + 1
      delta == Plus(pair.ref, Minus(acc.refMean))
      mean == Plus(acc.refMean, Over(delta[1], n * delta[2])) IN
  [count |-> n,
   errors |-> Plus(acc.errors, pair.error),
   absolute |-> Plus(acc.absolute, Magnitude(pair.error)),
   squares |-> Plus(acc.squares, Scaled(pair.error, pair.error)),
   worst |-> Greater(Magnitude(pair.error), acc.worst),
   refMean |-> mean,
   refM2 |-> Plus(acc.refM2, Scaled(delta, Plus(pair.ref, Minus(mean)))),
   refMin |-> Lesser(pair.ref, acc.refMin), refMax |-> Greater(pair.ref, acc.refMax),
   consistent |-> acc.consistent + (IF pair.consistent THEN 1 ELSE 0)]

\* Per sample; the root of a mean of squares is left as the mean.
Averaged(sum, acc) == IF acc.count = 0 THEN Missing ELSE Over(sum[1], acc.count * sum[2])

MinSamples == 2

Determination(acc) ==
  CASE acc.count = 0 -> "NO_PAIRED_SAMPLES"
    [] acc.count \in 1..MinSamples - 1 -> "INSUFFICIENT_SAMPLES"
    [] acc.count >= MinSamples /\ acc.refM2[1] = 0 -> "UNDEFINED_ZERO_REFERENCE_VARIANCE"
    [] OTHER -> "VALID"

\* The accumulator after a list of pairs.
Accumulated(pairs) ==
  LET acc[n \in 0..Len(pairs)] == IF n = 0 THEN Nought ELSE Update(acc[n - 1], pairs[n])
  IN acc[Len(pairs)]

\* A pair left out is counted under what the alignment said of it.
SummaryOf(pairs, members, left, acc) ==
  [total |-> Cardinality(members), paired |-> acc.count,
   excluded |-> [r \in {pairs[i].status : i \in left} |->
                   Cardinality({i \in left : pairs[i].status = r})],
   acc |-> acc,
   mae |-> Averaged(acc.absolute, acc), mse |-> Averaged(acc.squares, acc),
   bias |-> Averaged(acc.errors, acc),
   determination |-> Determination(acc),
   rSquared |-> IF Determination(acc) # "VALID" THEN Missing
                ELSE Plus(Whole(1), Minus(Over(acc.squares[1] * acc.refM2[2],
                                               acc.squares[2] * acc.refM2[1])))]

\* The summary of some of the pairs of a signal, by their indices.
Summary(pairs, members) ==
  LET paired == {i \in members : pairs[i].valid}
  IN SummaryOf(pairs, members, members \ paired, Accumulated(Picked(pairs, paired)))

\* The summaries of every signal over all frames, and of every slice some
\* frame is in over its frames.
Stratified(aligned, samples, contexts) ==
  LET SlicesAt(i) == Slices(samples[i], contexts)
      Gathered(s, members) == Summary([i \in DOMAIN aligned |-> aligned[i][s]], members)
  IN [overall |-> [s \in Signals |-> Gathered(s, DOMAIN aligned)],
      sliced |-> [k \in UNION {SlicesAt(i) : i \in DOMAIN aligned} |->
                    [s \in Signals |-> Gathered(s, {i \in DOMAIN aligned : k \in SlicesAt(i)})]],
      validFrames |-> Cardinality({i \in DOMAIN aligned : \E s \in Signals : aligned[i][s].valid})]

-----------------------------------------------------------------------------
(* Diagnosis against the events of the dataset.  An event starts, perhaps  *)
(* ends, and is expected to be diagnosed as a hypothesis, or as anything.  *)

Active == {"SUSPECTED", "DIAGNOSED", "DIAGNOSED_CRITICAL"}

IsEvent(e) == e.start \in Nat /\ (e.end = Missing \/ (e.end \in Nat /\ e.start <= e.end))
IsReport(r) == r # Missing /\ r.at \in Int

\* An end at time 0 is no end.
Within(e, t) == e.start <= t /\ (e.end = Missing \/ e.end = 0 \/ t <= e.end)
Expected(e, r) == e.expected = Missing \/ r.hypothesis = e.expected

\* Faulty variant: a detection before the event is over, but not in it, counts.
AnyActive(reports, e) ==
  {i \in DOMAIN reports : reports[i].state \in Active /\ (e.end = Missing \/ reports[i].at <= e.end)}

InWindow(reports, e) ==
  {i \in DOMAIN reports : reports[i].state \in Active /\ Within(e, reports[i].at)}
Early(reports, e) ==
  {i \in DOMAIN reports : reports[i].state \in Active /\ reports[i].at < e.start}

\* The report that detects an event: in its window the first as expected, or
\* else the first; before it the last as expected, or else the last.
Detection(reports, e) ==
  LET inside == InWindow(reports, e)
      early == Early(reports, e)
      AsExpected(S) == {i \in S : Expected(e, reports[i])} IN
  CASE AsExpected(inside) # {} -> reports[Min(AsExpected(inside))]
    [] inside # {} /\ AsExpected(inside) = {} -> reports[Min(inside)]
    [] inside = {} /\ e.expected # Missing /\ AsExpected(early) # {} -> reports[Max(AsExpected(early))]
    [] inside = {} /\ early # {} /\ (e.expected = Missing \/ AsExpected(early) = {})
         -> reports[Max(early)]
    [] OTHER -> Missing

Verdict(reports, e) ==
  LET r == Detection(reports, e) IN
  IF r = Missing THEN [status |-> "MISSED_EVENT", latency |-> Missing]
  ELSE [status |-> IF r.at < e.start THEN "DETECTED_EARLY"
                   ELSE IF ~Expected(e, r) THEN "DETECTED_WRONG_HYPOTHESIS"
                   ELSE "DETECTED_MATCH",
        latency |-> r.at - e.start]

\* A report of a time at which an event is active is judged by it, and every
\* other report is expected to be nominal.
SampleVerdict(r, events) ==
  LET active == {e \in ToSet(events) : Within(e, r.at)} IN
  CASE r.state = "DATA_QUALITY_FAILED" -> "unknown"
    [] r.state \in Active /\ active # {} /\ (\E e \in active : Expected(e, r)) -> "tp"
    [] r.state \in Active /\ active = {} -> "fp"
    [] r.state \notin Active \union {"DATA_QUALITY_FAILED"} /\ active = {} -> "tn"
    [] OTHER -> "fn"

Cells == {"tp", "fp", "tn", "fn", "unknown"}

\* Without a report every event is missed, and counts as a false negative.
EvaluateDiagnosis(reports, events) ==
  [verdicts |-> [i \in DOMAIN events |-> Verdict(reports, events[i])],
   matrix |->
     IF reports = <<>>
     THEN [c \in Cells |-> IF c = "fn" THEN Len(events) ELSE 0]
     ELSE [c \in Cells |->
             Cardinality({i \in DOMAIN reports : SampleVerdict(reports[i], events) = c})],
   reports |-> Len(reports)]

Rate(hits, others) == IF hits + others = 0 THEN Missing ELSE Over(hits, hits + others)
Precision(matrix) == Rate(matrix.tp, matrix.fp)
Recall(matrix) == Rate(matrix.tp, matrix.fn)
===============================================================================
