------------------------------ MODULE Alignment -------------------------------
(***************************************************************************)
(* How a benchmark pairs what the twin evaluated with what a dataset       *)
(* measured.  A frame of a dataset has its timestamp, perhaps the time it  *)
(* was observed at, and a measurement of some of the signals: a value and  *)
(* its uncertainty.  A measured value is an integer, a paired one is a     *)
(* fraction, because it may be interpolated.                               *)
(***************************************************************************)
EXTENDS Fractions, Selection

CONSTANT Missing

Signals == {"voltage_v", "temperature_c", "soc_fraction"}

Modes == {"CAUSAL_STREAMING", "NON_CAUSAL_BATCH"}
Interpolations == {"NONE", "SAMPLE_AND_HOLD", "LINEAR_PIECEWISE"}
Resamplings == {"EXACT_OR_DROP", "CAUSAL_NEAREST_PAST", "BIDIRECTIONAL_NEAREST"}

IsPolicy(p) ==
  /\ p.mode \in Modes /\ p.interpolation \in Interpolations /\ p.resampling \in Resamplings
  /\ {p.tolerance, p.gap} \subseteq Nat
  /\ {p.observed, p.rejectsRetrograde, p.duplicates} \subseteq BOOLEAN

IsFrame(f) ==
  /\ f.at \in Nat /\ f.observed \in Nat \union {Missing}
  /\ \A s \in Signals :
       f.refs[s] # Missing => f.refs[s].value \in Int /\ f.refs[s].sigma \in Nat

\* The frames of a dataset are in order of their timestamps, without
\* duplicates, unless the dataset says otherwise.
IsDataset(d) ==
  /\ d.frames \in Seq({f \in ToSet(d.frames) : IsFrame(f)})
  /\ \A i, j \in DOMAIN d.frames :
       i < j /\ d.monotonic =>
         \/ d.frames[i].at < d.frames[j].at
         \/ d.frames[i].at = d.frames[j].at /\ d.duplicates

TimeOf(frame, policy) ==
  IF policy.observed /\ frame.observed # Missing THEN frame.observed ELSE frame.at

\* The measurements of a signal, in the order of their frames.
Measured(frames, signal, policy) ==
  LET carrying == Chosen(frames, LAMBDA f : f.refs[signal] # Missing)
  IN [i \in DOMAIN carrying |->
        [at |-> TimeOf(carrying[i], policy), value |-> carrying[i].refs[signal].value,
         sigma |-> carrying[i].refs[signal].sigma]]

-----------------------------------------------------------------------------
(* Pairs.                                                                  *)

Unpaired(eval, status) ==
  [eval |-> eval, status |-> status, valid |-> FALSE, at |-> Missing, ref |-> Missing,
   sigma |-> 0, error |-> Missing, kind |-> "UNAVAILABLE", consistent |-> FALSE]

Paired(eval, status, kind, at, ref, sigma) ==
  LET error == Plus(ref, Whole(-eval.value)) IN
  [eval |-> eval, status |-> status, valid |-> TRUE, at |-> at, ref |-> ref, sigma |-> sigma,
   error |-> error, kind |-> kind, consistent |-> Abs(error[1]) <= sigma * error[2]]

PairedWith(eval, status, kind, r) == Paired(eval, status, kind, r.at, Whole(r.value), r.sigma)

Past(known, at) == Chosen(known, LAMBDA r : r.at <= at)

\* Faulty variant: the oldest measurement is taken for the nearest one.
OldestPast(known, at) == Head(Past(known, at))

\* The last of the frames that are not in the future.
NearestPast(known, at) == Last(Past(known, at))

AlignCausal(eval, known, policy) ==
  IF Past(known, eval.at) = <<>> THEN Unpaired(eval, "OUTSIDE_TOLERANCE")
  ELSE LET nearest == NearestPast(known, eval.at)
           distance == eval.at - nearest.at IN
       CASE distance > policy.gap -> Unpaired(eval, "DATA_GAPPED")
         [] distance = 0 -> PairedWith(eval, "EXACT_MATCH", "DIRECT_OBSERVATION", nearest)
         [] distance > 0 /\ distance <= policy.gap
            /\ (policy.resampling = "EXACT_OR_DROP" \/ distance > policy.tolerance)
              -> Unpaired(eval, "OUTSIDE_TOLERANCE")
         [] OTHER -> IF policy.interpolation = "SAMPLE_AND_HOLD"
                     THEN PairedWith(eval, "SAMPLE_AND_HOLD", "HELD_VALUE", nearest)
                     ELSE PairedWith(eval, "NEAREST_PAST_MATCH", "DIRECT_OBSERVATION", nearest)

\* The value at a time on the line between two measurements.
OnLine(before, after, at) ==
  LET span == after.at - before.at
  IN <<before.value * span + (at - before.at) * (after.value - before.value), span>>

\* On that line, with the larger of their uncertainties.
Interpolated(eval, before, after, policy) ==
  CASE after.at - before.at > policy.gap -> Unpaired(eval, "DATA_GAPPED")
    [] after.at - before.at <= policy.gap
       /\ Min({eval.at - before.at, after.at - eval.at}) > policy.tolerance
         -> Unpaired(eval, "OUTSIDE_TOLERANCE")
    [] OTHER -> Paired(eval, "INTERPOLATED_LINEAR", "INTERPOLATED_VALUE", eval.at,
                       OnLine(before, after, eval.at), Max({before.sigma, after.sigma}))

\* The nearest candidate, the earlier of two as near.
NearestOf(eval, candidates, policy) ==
  LET Distance(i) == Abs(candidates[i].at - eval.at)
      i == CHOOSE i \in DOMAIN candidates : \A j \in DOMAIN candidates :
             Distance(i) < Distance(j) \/ (Distance(i) = Distance(j) /\ i <= j)
      kind == IF policy.interpolation = "SAMPLE_AND_HOLD" THEN "HELD_VALUE"
              ELSE "DIRECT_OBSERVATION" IN
  CASE Distance(i) > policy.gap -> Unpaired(eval, "DATA_GAPPED")
    [] Distance(i) <= policy.gap /\ Distance(i) > policy.tolerance
         -> Unpaired(eval, "OUTSIDE_TOLERANCE")
    [] OTHER -> PairedWith(eval, IF candidates[i].at <= eval.at THEN "NEAREST_PAST_MATCH"
                                 ELSE "NEAREST_FUTURE_MATCH", kind, candidates[i])

AlignBatch(eval, known, policy) ==
  LET exact == Chosen(known, LAMBDA r : r.at = eval.at)
      past == Chosen(known, LAMBDA r : r.at < eval.at)
      future == Chosen(known, LAMBDA r : r.at > eval.at)
      searched == (IF past = <<>> THEN <<>> ELSE <<Last(past)>>)
                  \o (IF future # <<>> /\ policy.resampling = "BIDIRECTIONAL_NEAREST"
                      THEN <<Head(future)>> ELSE <<>>) IN
  IF exact # <<>>
  THEN PairedWith(eval, "EXACT_MATCH", "DIRECT_OBSERVATION", Head(exact))
  ELSE IF policy.interpolation = "LINEAR_PIECEWISE" /\ past # <<>> /\ future # <<>>
  THEN Interpolated(eval, Last(past), Head(future), policy)
  ELSE IF searched = <<>> THEN Unpaired(eval, "OUTSIDE_TOLERANCE")
  ELSE NearestOf(eval, searched, policy)

AlignSample(eval, signal, frames, policy) ==
  LET known == Measured(frames, signal, policy) IN
  CASE known = <<>> -> Unpaired(eval, "MISSING_REFERENCE")
    [] known # <<>> /\ policy.mode = "CAUSAL_STREAMING" -> AlignCausal(eval, known, policy)
    [] OTHER -> AlignBatch(eval, known, policy)

-----------------------------------------------------------------------------
(* A series is aligned sample by sample: one older than the last sample    *)
(* that was not rejected, or as old, is rejected first.  Frames are        *)
(* aligned without that test.                                              *)

Rejections == {"RETROGRADE_REJECTED", "DUPLICATE_REJECTED"}

\* Why a sample is rejected, by the time of the last one that was not.
Rejection(at, clock, policy) ==
  IF clock = Missing THEN Missing
  ELSE IF policy.rejectsRetrograde /\ at < clock THEN "RETROGRADE_REJECTED"
  ELSE IF ~policy.duplicates /\ at = clock THEN "DUPLICATE_REJECTED" ELSE Missing

\* The time of the last sample that was not rejected, of the first n.
Clocks(evals, policy) ==
  LET clock[n \in 0..Len(evals)] ==
        IF n = 0 THEN Missing
        ELSE IF Rejection(evals[n].at, clock[n - 1], policy) = Missing THEN evals[n].at
        ELSE clock[n - 1]
  IN clock

AlignTimeSeries(evals, signal, frames, policy) ==
  LET RejectionOf(i) == Rejection(evals[i].at, Clocks(evals, policy)[i - 1], policy)
  IN [i \in DOMAIN evals |->
        IF RejectionOf(i) # Missing THEN Unpaired(evals[i], RejectionOf(i))
        ELSE AlignSample(evals[i], signal, frames, policy)]

\* What the twin evaluated at a frame, signal by signal.
AlignFrames(answers, frames, policy) ==
  [i \in DOMAIN answers |->
     [s \in Signals |->
        AlignSample([at |-> frames[i].at, value |-> answers[i][s]], s, frames, policy)]]
===============================================================================
