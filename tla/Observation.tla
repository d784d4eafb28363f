----------------------------- MODULE Observation -----------------------------
(***************************************************************************)
(* What one step of a twin hands to its engines: the telemetry snapshot    *)
(* and what the synchronizer has computed from it, as integers.  Times are *)
(* in seconds, voltages in mV, currents in 0.1 A (positive: discharge),    *)
(* temperatures in degrees Celsius, fractions in percent.                  *)
(*                                                                         *)
(* A snapshot has finite numbers only: its constructor refuses the others. *)
(***************************************************************************)
EXTENDS Integers, Sequences, FiniteSets, SequencesExt

None == -1000   \* a measurement or a result that is not there

Values == {None} \union -999..999

\* dt: the interval the synchronizer gives.  temperature: the average and the
\* maximum of the cells.  spread: between the cells' voltages.  vres, tres:
\* measured minus simulated.  socGap: simulated minus estimated.  cliff: the
\* simulated charge is under 10 % or over 90 %.  soh: the health estimator's.
Observed ==
  [time: Nat, dt: Nat, invalid: BOOLEAN, voltage: BOOLEAN, current: Values,
   temperature: Values, ambient: BOOLEAN, spread: Values, vres: Values,
   tres: Values, socGap: Values, cliff: BOOLEAN, soh: Values]

\* A scene is an observation at no time yet.
Scenes ==
  [invalid: BOOLEAN, voltage: BOOLEAN, current: Values,
   temperature: Values, ambient: BOOLEAN, spread: Values, vres: Values,
   tres: Values, socGap: Values, cliff: BOOLEAN, soh: Values]

Magnitude(x) == IF x < 0 THEN -x ELSE x

Total(s) == FoldLeft(+, 0, s)
Squares(s) == [i \in DOMAIN s |-> s[i] * s[i]]

\* n * n times the variance of s (Len(s) = n): no division.
ScaledVariance(s) == Len(s) * Total(Squares(s)) - Total(s) * Total(s)

\* list.append on a deque of bounded length, or append and pop(0).
Pushed(s, x, n) == LET t == Append(s, x) IN IF Len(t) > n THEN Tail(t) ELSE t
=============================================================================
