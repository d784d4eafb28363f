------------------------------- MODULE Fractions -------------------------------
(***************************************************************************)
(* Fractions in lowest terms with a positive denominator, for what the     *)
(* program computes in floating point: the outcomes that depend on         *)
(* rounding are not modelled where they are not named.                     *)
(***************************************************************************)
EXTENDS Integers, Sequences, SequencesExt

Abs(n) == IF n < 0 THEN -n ELSE n
Gcd[p \in Nat \X Nat] == IF p[2] = 0 THEN p[1] ELSE Gcd[<<p[2], p[1] % p[2]>>]

Over(n, d) ==
  LET g == Gcd[<<Abs(n), Abs(d)>>]
      sign == IF d < 0 THEN -1 ELSE 1
  IN <<(sign * n) \div g, (sign * d) \div g>>
Whole(n) == <<n, 1>>
Zero == Whole(0)
InLowestTerms == {a \in Int \X (Nat \ {0}) : Over(a[1], a[2]) = a}

Less(a, b) == a[1] * b[2] < b[1] * a[2]
AtMost(a, b) == ~Less(b, a)
SameAs(a, b) == a[1] * b[2] = b[1] * a[2]
Plus(a, b) == Over(a[1] * b[2] + b[1] * a[2], a[2] * b[2])
Minus(a) == <<-a[1], a[2]>>
Times(k, a) == Over(k * a[1], a[2])
SumUp(s) ==
  LET sum[n \in 0..Len(s)] == IF n = 0 THEN Zero ELSE Plus(sum[n - 1], s[n]) IN sum[Len(s)]

-----------------------------------------------------------------------------
(* Least squares over pairs <<x, y>> of integers, with every sum scaled by *)
(* the number of pairs.                                                    *)

Total(s) ==
  LET sum[n \in 0..Len(s)] == IF n = 0 THEN 0 ELSE sum[n - 1] + s[n] IN sum[Len(s)]
Xs(pairs) == [i \in DOMAIN pairs |-> pairs[i][1]]
Ys(pairs) == [i \in DOMAIN pairs |-> pairs[i][2]]
Product(s, t) == Total([i \in DOMAIN s |-> s[i] * t[i]])
Spread(s, t) == Len(s) * Product(s, t) - Total(s) * Total(t)

Sxx(pairs) == Spread(Xs(pairs), Xs(pairs))
Sxy(pairs) == Spread(Xs(pairs), Ys(pairs))
Syy(pairs) == Spread(Ys(pairs), Ys(pairs))

\* There is a slope when there are two pairs and their xs are not all equal.
HasSlope(pairs) == Len(pairs) >= 2 /\ Sxx(pairs) > 0
Slope(pairs) == Over(Sxy(pairs), Sxx(pairs))

\* The coefficient of determination: one when the values are all equal.
RSquared(pairs) ==
  IF Syy(pairs) <= 0 THEN Whole(1)
  ELSE Over(Sxy(pairs) * Sxy(pairs), Sxx(pairs) * Syy(pairs))
===============================================================================
