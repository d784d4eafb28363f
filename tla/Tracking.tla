------------------------------- MODULE Tracking -------------------------------
(***************************************************************************)
(* The tracking metrics of a replay, replay/evaluator.py: how far what the *)
(* twin simulated is from what was observed.  A root of a mean square is   *)
(* represented by its square.                                              *)
(***************************************************************************)
EXTENDS Fractions, FiniteSetsExt

\* An output pairs what was observed, 0 for None, with what was simulated.
Observed(outputs) ==
  FlattenSeq([i \in DOMAIN outputs |-> IF outputs[i].observed = 0 THEN <<>> ELSE <<outputs[i]>>])

Deviations(pairs) == [i \in DOMAIN pairs |-> pairs[i].observed - pairs[i].simulated]
Squares(s) == [i \in DOMAIN s |-> s[i] * s[i]]
Mean(s) == Over(Total(s), Len(s))
MaxOf(s) == Max(ToSet(s))
RangeOf(s) == Max(ToSet(s)) - Min(ToSet(s))

\* Faulty variant: errors of both signs cancel.
CancellingError(d) == Mean(d)

AbsoluteError(d) == Mean([i \in DOMAIN d |-> Abs(d[i])])

\* Faulty variant: the mean of the squares over the sum of the reference's.
UnexplainedOfMean(residual, y) == Over(residual, Spread(y, y))

\* What is left of the variation of y: the residual sum of squares over the
\* total one.
Unexplained(residual, y) == Over(residual * Len(y), Spread(y, y))

\* compute_signal_metrics(): a constant signal is matched perfectly or not at
\* all, and its error is not normalized.
SignalMetrics(pairs) ==
  LET d == Deviations(pairs)
      y == [i \in DOMAIN pairs |-> pairs[i].observed]
      residual == Total(Squares(d))
  IN [count |-> Len(pairs),
      bias |-> Mean(d), mae |-> AbsoluteError(d), mse |-> Mean(Squares(d)),
      most |-> MaxOf([i \in DOMAIN d |-> Abs(d[i])]),
      rSquared |-> IF Spread(y, y) > 0
                   THEN Plus(Whole(1), Minus(Unexplained(residual, y)))
                   ELSE IF residual = 0 THEN Whole(1) ELSE Zero,
      nmse |-> IF RangeOf(y) = 0 THEN Zero
               ELSE Over(residual, Len(y) * RangeOf(y) * RangeOf(y))]

\* evaluate_from_sync_outputs(), for one of the three signals, which are
\* treated alike.  A signal that was never observed is not judged.
Passing(outputs, target) ==
  LET pairs == Observed(outputs) IN
  pairs # <<>> /\ target # 0 => AtMost(SignalMetrics(pairs).mse, Whole(target * target))
===============================================================================
