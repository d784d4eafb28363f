---------------------------- MODULE BenchmarkProof ----------------------------
(***************************************************************************)
(* Theorems about Benchmark, for any systems, examinations and lengths of  *)
(* the histories: what a history lists can be fetched and what is kept is  *)
(* bounded, the verdicts on the events and on the reports agree, what the  *)
(* twin evaluated is compared with the nearest measurement there is, and   *)
(* the slices of a report add up to the whole.                             *)
(*                                                                         *)
(* The accumulator of a signal's errors is followed pair by pair: over a   *)
(* common denominator its figures are sums of integers, so the means are   *)
(* ordered as those of integers are, and Welford's recurrence leaves at    *)
(* every pair the variance of the references up to it.                     *)
(***************************************************************************)
EXTENDS Benchmark, FractionsProof, FiniteSetTheorems

-----------------------------------------------------------------------------
(* The accumulator of the metrics.                                         *)

\* What the accumulator holds.
Accumulator ==
  [count: Nat, errors: Pairs, absolute: Pairs, squares: Pairs, worst: Pairs,
   refMean: Pairs, refM2: Pairs, refMin: Pairs \union {Missing}, refMax: Pairs \union {Missing},
   consistent: Nat]

\* A pair with a reference and an error.
IsScored(pair) == pair.error \in Pairs /\ pair.ref \in Pairs

\* What arithmetic makes of pairs are pairs.
LEMMA OverIsPair ==
  ASSUME NEW n \in Int, NEW d \in Int, d # 0
  PROVE  Over(n, d) \in Pairs
  <1>1. LET c == Over(n, d) IN c = <<c[1], c[2]>> /\ c[1] \in Int /\ c[2] \in Nat \ {0}
    BY OverIs
  <1>2. QED
    BY <1>1 DEF Pairs

LEMMA PairsAre ==
  ASSUME NEW a \in Pairs
  PROVE  a = <<a[1], a[2]>> /\ a[1] \in Int /\ a[2] \in Int /\ a[2] \in Nat \ {0} /\ a[2] > 0
  BY DEF Pairs

LEMMA MinusIsPair ==
  ASSUME NEW a \in Pairs
  PROVE  Minus(a) \in Pairs /\ Magnitude(a) \in Pairs
  <1>1. -a[1] \in Int /\ Abs(a[1]) \in Int
    BY PairsAre, AbsIs
  <1>2. QED
    BY <1>1, PairsAre DEF Minus, Magnitude, Pairs

LEMMA ScaledIsPair ==
  ASSUME NEW a \in Pairs, NEW b \in Pairs
  PROVE  Scaled(a, b) \in Pairs
  <1>1. /\ a[1] \in Int /\ b[1] \in Int /\ a[2] \in Int /\ b[2] \in Int
        /\ a[2] > 0 /\ b[2] > 0
    BY PairsAre
  <1> DEFINE p == a[1] * b[1]
             q == a[2] * b[2]
  <1>2. p \in Int /\ q \in Int /\ q # 0
    BY <1>1
  <1> HIDE DEF p, q
  <1>3. Over(p, q) \in Pairs
    BY <1>2, OverIsPair
  <1>4. QED
    BY <1>3 DEF Scaled, p, q

LEMMA PartIsPair ==
  ASSUME NEW a \in Pairs, NEW n \in Nat \ {0}
  PROVE  Over(a[1], n * a[2]) \in Pairs
  <1>1. a[1] \in Int /\ a[2] \in Int /\ a[2] > 0
    BY PairsAre
  <1> DEFINE q == n * a[2]
  <1>2. q \in Int /\ q # 0
    BY <1>1
  <1> HIDE DEF q
  <1>3. Over(a[1], q) \in Pairs
    BY <1>1, <1>2, OverIsPair
  <1>4. QED
    BY <1>3 DEF q

\* The accumulator stays one, pair by pair.
LEMMA UpdateTyped ==
  ASSUME NEW acc \in Accumulator, NEW pair, IsScored(pair)
  PROVE  Update(acc, pair) \in Accumulator
  <1> DEFINE n == acc.count + 1
             delta == Plus(pair.ref, Minus(acc.refMean))
             mean == Plus(acc.refMean, Over(delta[1], n * delta[2]))
  <1>1. /\ acc.count \in Nat /\ acc.errors \in Pairs /\ acc.absolute \in Pairs
        /\ acc.squares \in Pairs /\ acc.worst \in Pairs /\ acc.refMean \in Pairs
        /\ acc.refM2 \in Pairs /\ acc.refMin \in Pairs \union {Missing}
        /\ acc.refMax \in Pairs \union {Missing} /\ acc.consistent \in Nat
    BY DEF Accumulator
  <1>2. pair.error \in Pairs /\ pair.ref \in Pairs
    BY DEF IsScored
  <1>3. n \in Nat \ {0}
    BY <1>1
  <1>4. delta \in Pairs
    BY <1>1, <1>2, PlusIsPair, MinusIsPair
  <1> HIDE DEF n, delta
  <1>5. mean \in Pairs
    BY <1>1, <1>3, <1>4, PartIsPair, PlusIsPair
  <1> HIDE DEF mean
  <1>6. Plus(acc.errors, pair.error) \in Pairs
    BY <1>1, <1>2, PlusIsPair
  <1>7. Plus(acc.absolute, Magnitude(pair.error)) \in Pairs
    BY <1>1, <1>2, PlusIsPair, MinusIsPair
  <1>8. Plus(acc.squares, Scaled(pair.error, pair.error)) \in Pairs
    BY <1>1, <1>2, PlusIsPair, ScaledIsPair
  <1>9. Greater(Magnitude(pair.error), acc.worst) \in Pairs
    BY <1>1, <1>2, MinusIsPair DEF Greater
  <1>10. Plus(acc.refM2, Scaled(delta, Plus(pair.ref, Minus(mean)))) \in Pairs
    <2>1. Plus(pair.ref, Minus(mean)) \in Pairs
      BY <1>2, <1>5, PlusIsPair, MinusIsPair
    <2>2. Scaled(delta, Plus(pair.ref, Minus(mean))) \in Pairs
      BY <1>4, <2>1, ScaledIsPair
    <2>3. QED
      BY <1>1, <2>2, PlusIsPair
  <1>11. /\ Lesser(pair.ref, acc.refMin) \in Pairs \union {Missing}
         /\ Greater(pair.ref, acc.refMax) \in Pairs \union {Missing}
    BY <1>1, <1>2 DEF Lesser, Greater
  <1>12. acc.consistent + (IF pair.consistent THEN 1 ELSE 0) \in Nat
    BY <1>1
  <1>13. Update(acc, pair) =
           [count |-> n,
            errors |-> Plus(acc.errors, pair.error),
            absolute |-> Plus(acc.absolute, Magnitude(pair.error)),
            squares |-> Plus(acc.squares, Scaled(pair.error, pair.error)),
            worst |-> Greater(Magnitude(pair.error), acc.worst),
            refMean |-> mean,
            refM2 |-> Plus(acc.refM2, Scaled(delta, Plus(pair.ref, Minus(mean)))),
            refMin |-> Lesser(pair.ref, acc.refMin), refMax |-> Greater(pair.ref, acc.refMax),
            consistent |-> acc.consistent + (IF pair.consistent THEN 1 ELSE 0)]
    BY DEF Update, n, delta, mean
  <1>14. QED
    BY <1>3, <1>5, <1>6, <1>7, <1>8, <1>9, <1>10, <1>11, <1>12, <1>13 DEF Accumulator

LEMMA NoughtTyped == Nought \in Accumulator
  <1>1. Zero \in Pairs
    BY DEF Zero, Whole, Pairs
  <1>2. QED
    BY <1>1 DEF Nought, Accumulator

\* What is accumulated is updated pair by pair.
LEMMA AccumulatedIs ==
  ASSUME NEW n \in Nat, NEW pairs, Len(pairs) = n, \A i \in 1..n : IsScored(pairs[i])
  PROVE  \E f : /\ f[0] = Nought /\ \A i \in 1..n : f[i] = Update(f[i - 1], pairs[i])
                /\ \A i \in 0..n : f[i] \in Accumulator
                /\ Accumulated(pairs) = f[n]
  <1> DEFINE Body(f) == [i \in 0..n |-> IF i = 0 THEN Nought ELSE Update(f[i - 1], pairs[i])]
             step == [p \in (1..n) \X Accumulator |-> Update(p[2], pairs[p[1]])]
  <1>2. step \in [(1..n) \X Accumulator -> Accumulator]
    <2>1. \A p \in (1..n) \X Accumulator : Update(p[2], pairs[p[1]]) \in Accumulator
      <3> SUFFICES ASSUME NEW p \in (1..n) \X Accumulator
                   PROVE  Update(p[2], pairs[p[1]]) \in Accumulator
        OBVIOUS
      <3>1. p[1] \in 1..n /\ p[2] \in Accumulator
        OBVIOUS
      <3>2. QED
        BY <3>1, UpdateTyped
    <2>2. QED
      BY <2>1
  <1>3. PICK f \in [0..n -> Accumulator] : RunsFrom(f, Nought, step, n)
    <2> HIDE DEF step
    <2>1. QED
      BY <1>2, NoughtTyped, RunExists
  <1>4. ASSUME NEW i \in 0..n
        PROVE  f[i] = IF i = 0 THEN Nought ELSE Update(f[i - 1], pairs[i])
    <2>1. CASE i = 0
      BY <1>3, <2>1 DEF RunsFrom
    <2>2. CASE i # 0
      <3>1. i \in 1..n /\ i - 1 \in 0..n /\ f[i - 1] \in Accumulator
        BY <2>2
      <3>2. f[i] = step[<<i, f[i - 1]>>]
        BY <1>3, <3>1 DEF RunsFrom
      <3>3. <<i, f[i - 1]>> \in (1..n) \X Accumulator
        BY <3>1
      <3>4. step[<<i, f[i - 1]>>] = Update(f[i - 1], pairs[i])
        BY <3>3
      <3>5. QED
        BY <2>2, <3>2, <3>4
    <2>3. QED
      BY <2>1, <2>2
  <1>5. f = Body(f)
    <2> HIDE DEF step
    <2>1. QED
      BY <1>4
  <1> DEFINE g == CHOOSE h : h = Body(h)
  <1>6. Accumulated(pairs) = g[n]
    BY DEF Accumulated
  <1>7. g = Body(g)
    <2> HIDE DEF Body
    <2>1. \E h : h = Body(h)
      BY <1>5
    <2>2. QED
      BY <2>1
  <1> HIDE DEF g, step
  <1>8. \A i \in 0..n : g[i] = IF i = 0 THEN Nought ELSE Update(g[i - 1], pairs[i])
    <2>1. \A i \in 0..n : Body(g)[i] = IF i = 0 THEN Nought ELSE Update(g[i - 1], pairs[i])
      OBVIOUS
    <2> HIDE DEF Body
    <2>2. QED
      BY <1>7, <2>1
  <1>9. g[0] = Nought /\ \A i \in 1..n : g[i] = Update(g[i - 1], pairs[i])
    <2>1. 0 \in 0..n /\ \A i \in 1..n : i \in 0..n /\ i # 0
      OBVIOUS
    <2>2. QED
      BY <1>8, <2>1
  <1>10. \A i \in 0..n : g[i] \in Accumulator
    <2> DEFINE T == {i \in Nat : i <= n /\ g[i] \notin Accumulator}
    <2>1. T = {}
      <3> SUFFICES ASSUME T # {} PROVE FALSE
        OBVIOUS
      <3>1. PICK i \in T : \A j \in T : i <= j
        BY LeastNumber
      <3>2. i \in Nat /\ i <= n /\ g[i] \notin Accumulator
        OBVIOUS
      <3>3. i # 0
        BY <1>9, <3>2, NoughtTyped
      <3>4. i - 1 \notin T
        <4> HIDE DEF T
        <4>1. ASSUME i - 1 \in T PROVE FALSE
          <5>1. i <= i - 1
            BY <3>1, <4>1
          <5>2. QED
            BY <3>2, <5>1
        <4>2. QED
          BY <4>1
      <3>5. g[i - 1] \in Accumulator
        BY <3>2, <3>3, <3>4
      <3>6. i \in 1..n
        BY <3>2, <3>3
      <3>7. g[i] = Update(g[i - 1], pairs[i])
        BY <1>9, <3>6
      <3>8. QED
        BY <3>2, <3>5, <3>6, <3>7, UpdateTyped
    <2>2. QED
      BY <2>1
  <1>11. QED
    BY <1>6, <1>9, <1>10

\* f is the accumulator after each of the first n pairs.
Accumulates(f, pairs, n) ==
  /\ f[0] = Nought /\ \A i \in 1..n : f[i] = Update(f[i - 1], pairs[i])
  /\ \A i \in 0..n : f[i] \in Accumulator

\* Fractions of one denominator compare as their numerators do.
LEMMA StandCompare ==
  ASSUME NEW x \in Int, NEW y \in Int, NEW d \in Nat \ {0}, NEW a, NEW b,
         StandsFor(a, x, d), StandsFor(b, y, d)
  PROVE  AtMost(a, b) <=> x <= y
  <1> DEFINE p == a[1]
             q == a[2]
             r == b[1]
             s == b[2]
             u == p * s
             v == r * q
             w == q * s
  <1>1. /\ p \in Int /\ q \in Nat \ {0} /\ p * d = x * q
        /\ r \in Int /\ s \in Nat \ {0} /\ r * d = y * s
    BY DEF StandsFor
  <1> HIDE DEF p, q, r, s
  <1>2. u \in Int /\ v \in Int /\ w \in Nat \ {0}
    BY <1>1
  <1>3. u * d = x * w
    <2>1. u * d = (p * d) * s
      BY <1>1
    <2>2. (x * q) * s = x * w
      BY <1>1
    <2>3. QED
      BY <1>1, <2>1, <2>2
  <1>4. v * d = y * w
    <2>1. v * d = (r * d) * q
      BY <1>1
    <2>2. (y * s) * q = y * w
      BY <1>1
    <2>3. QED
      BY <1>1, <2>1, <2>2
  <1>5. AtMost(a, b) <=> u <= v
    BY <1>2 DEF AtMost, Less, u, v, p, q, r, s
  <1> HIDE DEF u, v, w
  <1>6. u <= v <=> u * d <= v * d
    BY <1>2, Cancelled
  <1>7. x <= y <=> x * w <= y * w
    BY <1>2, Cancelled
  <1>8. QED
    BY <1>3, <1>4, <1>5, <1>6, <1>7

\* What is done with one pair, over a common denominator.
LEMMA MagnitudeStands ==
  ASSUME NEW x \in Int, NEW d \in Nat \ {0}, NEW a, StandsFor(a, x, d)
  PROVE  StandsFor(Magnitude(a), Abs(x), d) /\ Abs(x) \in Nat
  <1> DEFINE p == a[1]
             q == a[2]
  <1>1. p \in Int /\ q \in Nat \ {0} /\ p * d = x * q
    BY DEF StandsFor
  <1> HIDE DEF p, q
  <1>2. (-p) * d = -(p * d) /\ (-x) * q = -(x * q) /\ p * d \in Int
    BY <1>1, Negated
  <1>3. CASE p < 0
    <2>1. x < 0
      <3>1. ASSUME x >= 0 PROVE FALSE
        <4>1. x * q >= 0
          BY <1>1, <3>1
        <4>2. p * d < 0
          BY <1>1, <1>3
        <4>3. QED
          BY <1>1, <1>2, <4>1, <4>2
      <3>2. QED
        BY <3>1
    <2>2. Abs(p) = -p /\ Abs(x) = -x /\ -p \in Int /\ -x \in Nat
      BY <1>1, <1>3, <2>1 DEF Abs
    <2>3. (-p) * d = (-x) * q
      BY <1>1, <1>2
    <2>4. QED
      BY <1>1, <2>2, <2>3 DEF StandsFor, Magnitude, p, q
  <1>4. CASE ~(p < 0)
    <2>1. ~(x < 0)
      <3>1. ASSUME x < 0 PROVE FALSE
        <4>1. x * q < 0
          BY <1>1, <3>1
        <4>2. p * d >= 0
          BY <1>1, <1>4
        <4>3. QED
          BY <1>1, <1>2, <4>1, <4>2
      <3>2. QED
        BY <3>1
    <2>2. Abs(p) = p /\ Abs(x) = x /\ x \in Nat
      BY <1>1, <1>4, <2>1 DEF Abs
    <2>3. QED
      BY <1>1, <2>2 DEF StandsFor, Magnitude, p, q
  <1>5. QED
    BY <1>3, <1>4

\* What an update leaves of each figure.
LEMMA UpdateIs ==
  ASSUME NEW acc, NEW pair
  PROVE  LET n == acc.count + 1
             delta == Plus(pair.ref, Minus(acc.refMean))
             mean == Plus(acc.refMean, Over(delta[1], n * delta[2]))
             new == Update(acc, pair) IN
         /\ new.count = n
         /\ new.errors = Plus(acc.errors, pair.error)
         /\ new.absolute = Plus(acc.absolute, Magnitude(pair.error))
         /\ new.squares = Plus(acc.squares, Scaled(pair.error, pair.error))
         /\ new.worst = Greater(Magnitude(pair.error), acc.worst)
         /\ new.refMean = mean
         /\ new.refM2 = Plus(acc.refM2, Scaled(delta, Plus(pair.ref, Minus(mean))))
         /\ new.consistent = acc.consistent + (IF pair.consistent THEN 1 ELSE 0)
  BY DEF Update

\* The pairs among the first k that are consistent.
ConsistentOf(pairs, k) == {i \in 1..k : pairs[i].consistent}

\* It counts the pairs and those that are consistent.
LEMMA CountsAccumulate ==
  ASSUME NEW n \in Nat, NEW pairs, NEW f, Accumulates(f, pairs, n), NEW k \in 0..n
  PROVE  f[k].count = k /\ f[k].consistent = Cardinality(ConsistentOf(pairs, k))
  <1> DEFINE C(j) == {i \in 1..j : pairs[i].consistent}
             Fits(j) == f[j].count = j /\ f[j].consistent = Cardinality(C(j))
             T == {j \in Nat : j <= n /\ ~Fits(j)}
  <1>1. T = {}
    <2> SUFFICES ASSUME T # {} PROVE FALSE
      OBVIOUS
    <2>1. PICK j \in T : \A l \in T : j <= l
      BY LeastNumber
    <2>2. j \in Nat /\ j <= n /\ ~Fits(j)
      OBVIOUS
    <2>3. CASE j = 0
      <3>1. f[0] = Nought
        BY DEF Accumulates
      <3>2. f[0].count = 0 /\ f[0].consistent = 0
        BY <3>1 DEF Nought
      <3>3. C(0) = {}
        OBVIOUS
      <3>4. Cardinality(C(0)) = 0
        BY <3>3, FS_EmptySet
      <3>5. QED
        BY <2>2, <2>3, <3>2, <3>4
    <2>4. CASE j # 0
      <3>1. j - 1 \in Nat /\ j - 1 < j /\ j \in 1..n /\ j - 1 <= n
        BY <2>2, <2>4
      <3>2. j - 1 \notin T
        <4> HIDE DEF T
        <4>1. ASSUME j - 1 \in T PROVE FALSE
          <5>1. j <= j - 1
            BY <2>1, <4>1
          <5>2. QED
            BY <2>2, <5>1
        <4>2. QED
          BY <4>1
      <3>3. f[j - 1].count = j - 1 /\ f[j - 1].consistent = Cardinality(C(j - 1))
        BY <3>1, <3>2
      <3>4. f[j] = Update(f[j - 1], pairs[j])
        BY <3>1 DEF Accumulates
      <3>5. f[j].count = j
        BY <2>2, <3>3, <3>4, UpdateIs
      <3>6. f[j].consistent = f[j - 1].consistent + (IF pairs[j].consistent THEN 1 ELSE 0)
        BY <3>4, UpdateIs
      <3>7. IsFiniteSet(C(j - 1))
        <4>1. C(j - 1) \subseteq 1..j - 1
          OBVIOUS
        <4> HIDE DEF C, T
        <4>2. 1 \in Int /\ j - 1 \in Int
          BY <3>1
        <4>3. IsFiniteSet(1..j - 1)
          BY <4>2, FS_Interval
        <4>4. QED
          BY <4>1, <4>3, FS_Subset
      <3>8. C(j) = IF pairs[j].consistent THEN C(j - 1) \union {j} ELSE C(j - 1)
        <4>1. 1..j = (1..j - 1) \union {j}
          BY <2>2, <2>4
        <4>2. CASE pairs[j].consistent
          <5>1. C(j) = C(j - 1) \union {j}
            BY ONLY <4>1, <4>2
          <5>2. QED
            BY <4>2, <5>1
        <4>3. CASE ~pairs[j].consistent
          <5>1. C(j) = C(j - 1)
            BY ONLY <4>1, <4>3
          <5>2. QED
            BY <4>3, <5>1
        <4>4. QED
          BY <4>2, <4>3
      <3>9. j \notin C(j - 1) /\ Cardinality(C(j - 1)) \in Nat
        <4>1. j \notin 1..j - 1
          BY <2>2
        <4>2. QED
          BY <3>7, <4>1, FS_CardinalityType
      <3> HIDE DEF C
      <3>10. Cardinality(C(j)) = Cardinality(C(j - 1)) + (IF pairs[j].consistent THEN 1 ELSE 0)
        <4>1. CASE pairs[j].consistent
          <5>1. Cardinality(C(j - 1) \union {j}) = Cardinality(C(j - 1)) + 1
            BY <3>7, <3>9, FS_AddElement
          <5>2. QED
            BY <3>8, <4>1, <5>1
        <4>2. CASE ~pairs[j].consistent
          BY <3>8, <3>9, <4>2
        <4>3. QED
          BY <4>1, <4>2
      <3>11. QED
        BY <2>2, <3>3, <3>5, <3>6, <3>10
    <2>5. QED
      BY <2>3, <2>4
  <1>2. Fits(k)
    <2> HIDE DEF Fits
    <2>1. k \in Nat /\ k <= n /\ k \notin T
      <3> HIDE DEF T
      <3>1. QED
        BY <1>1
    <2>2. QED
      BY <2>1
  <1>3. QED
    BY <1>2 DEF ConsistentOf

-----------------------------------------------------------------------------
(* The figures of error, over a common denominator.                        *)

\* The figures of error stand for sums of the numerators of the errors.
ErrorsStand(acc, x, n, k, d) ==
  LET a == [i \in 1..n |-> Abs(x[i])]
      q == [i \in 1..n |-> x[i] * x[i]] IN
  /\ StandsFor(acc.errors, SumOf(x, k), d)
  /\ StandsFor(acc.absolute, SumOf(a, k), d)
  /\ StandsFor(acc.squares, SumOf(q, k), d * d)
  /\ \E w \in Nat : StandsFor(acc.worst, w, d) /\ \A i \in 1..k : a[i] <= w

\* The greater of two magnitudes is at least either.
LEMMA WorstStands ==
  ASSUME Missing \notin Int \X Int, NEW d \in Nat \ {0}, NEW y \in Nat, NEW w \in Nat, NEW a, NEW b \in Pairs,
         StandsFor(a, y, d), StandsFor(b, w, d)
  PROVE  \E v \in Nat : StandsFor(Greater(a, b), v, d) /\ y <= v /\ w <= v
  <1>1. b # Missing
    BY DEF Pairs
  <1>2. CASE Less(b, a)
    <2>1. ~AtMost(a, b)
      BY <1>2 DEF AtMost
    <2>2. ~(y <= w)
      BY <2>1, StandCompare
    <2>3. Greater(a, b) = a
      BY <1>2 DEF Greater
    <2>4. QED
      BY <2>2, <2>3
  <1>3. CASE ~Less(b, a)
    <2>1. AtMost(a, b)
      BY <1>3 DEF AtMost
    <2>2. y <= w
      BY <2>1, StandCompare
    <2>3. Greater(a, b) = b
      BY <1>1, <1>3 DEF Greater
    <2>4. QED
      BY <2>2, <2>3
  <1>4. QED
    BY <1>2, <1>3

\* After k pairs they are sums over the first k.
LEMMA ErrorsAccumulate ==
  ASSUME Missing \notin Int \X Int,
         NEW n \in Nat, NEW pairs, NEW f, Accumulates(f, pairs, n),
         NEW d \in Nat \ {0}, NEW x, \A i \in 1..n : x[i] \in Int /\ StandsFor(pairs[i].error, x[i], d)
  PROVE  \A k \in 0..n : ErrorsStand(f[k], x, n, k, d)
  <1> DEFINE a == [i \in 1..n |-> Abs(x[i])]
             q == [i \in 1..n |-> x[i] * x[i]]
             T == {k \in Nat : k <= n /\ ~ErrorsStand(f[k], x, n, k, d)}
  <1>1. d * d \in Nat \ {0}
    OBVIOUS
  <1>2. \A i \in 1..n : a[i] \in Nat /\ q[i] \in Int /\ a[i] = Abs(x[i]) /\ q[i] = x[i] * x[i]
    <2> SUFFICES ASSUME NEW i \in 1..n
                 PROVE  a[i] \in Nat /\ q[i] \in Int /\ a[i] = Abs(x[i]) /\ q[i] = x[i] * x[i]
      OBVIOUS
    <2>1. x[i] \in Int
      OBVIOUS
    <2>2. Abs(x[i]) \in Nat
      BY <2>1, AbsIs
    <2>3. QED
      BY <2>1, <2>2
  <1>3. \A k \in 0..n : SumOf(x, k) \in Int /\ SumOf(a, k) \in Int /\ SumOf(q, k) \in Int
    <2>1. \A i \in 1..n : x[i] \in Int /\ a[i] \in Int /\ q[i] \in Int
      BY <1>2
    <2> HIDE DEF a, q
    <2>2. QED
      BY <2>1, SumsAreNumbers
  <1>4. ErrorsStand(f[0], x, n, 0, d)
    <2>1. f[0] = Nought
      BY DEF Accumulates
    <2>2. /\ f[0].errors = Zero /\ f[0].absolute = Zero /\ f[0].squares = Zero /\ f[0].worst = Zero
      BY <2>1 DEF Nought
    <2>3. SumOf(x, 0) = 0 /\ SumOf(a, 0) = 0 /\ SumOf(q, 0) = 0
      BY SumIs
    <2>4. StandsFor(Zero, 0, d) /\ StandsFor(Zero, 0, d * d)
      BY <1>1, ZeroStands
    <2>5. 0 \in Nat /\ \A i \in 1..0 : FALSE
      OBVIOUS
    <2> HIDE DEF a, q
    <2>6. \E w \in Nat : StandsFor(f[0].worst, w, d) /\ \A i \in 1..0 : a[i] <= w
      BY <2>2, <2>4, <2>5
    <2>7. QED
      BY <2>2, <2>3, <2>4, <2>6 DEF ErrorsStand, a, q
  <1>5. T = {}
    <2> SUFFICES ASSUME T # {} PROVE FALSE
      OBVIOUS
    <2>1. PICK k \in T : \A l \in T : k <= l
      BY LeastNumber
    <2>2. k \in Nat /\ k <= n /\ ~ErrorsStand(f[k], x, n, k, d)
      OBVIOUS
    <2>3. k # 0
      BY <1>4, <2>2
    <2>4. k - 1 \in Nat /\ k - 1 < k /\ k \in 1..n /\ k - 1 <= n /\ k \in 0..n /\ k - 1 \in 0..n
      BY <2>2, <2>3
    <2>5. k - 1 \notin T
      <3> HIDE DEF T
      <3>1. ASSUME k - 1 \in T PROVE FALSE
        <4>1. k <= k - 1
          BY <2>1, <3>1
        <4>2. QED
          BY <2>2, <4>1
      <3>2. QED
        BY <3>1
    <2>6. ErrorsStand(f[k - 1], x, n, k - 1, d)
      BY <2>4, <2>5
    <2> DEFINE acc == f[k - 1]
               e == pairs[k].error
    <2>7. acc \in Accumulator /\ f[k] = Update(acc, pairs[k])
      BY <2>4 DEF Accumulates
    <2>8. /\ f[k].errors = Plus(acc.errors, e)
          /\ f[k].absolute = Plus(acc.absolute, Magnitude(e))
          /\ f[k].squares = Plus(acc.squares, Scaled(e, e))
          /\ f[k].worst = Greater(Magnitude(e), acc.worst)
      BY <2>7, UpdateIs
    <2>9. x[k] \in Int /\ StandsFor(e, x[k], d) /\ a[k] = Abs(x[k]) /\ q[k] = x[k] * x[k]
          /\ a[k] \in Nat /\ q[k] \in Int
      BY <1>2, <2>4
    <2>10. acc.worst \in Pairs
      BY <2>7 DEF Accumulator
    <2> HIDE DEF a, q, acc, e, T
    <2>11. /\ SumOf(x, k) = SumOf(x, k - 1) + x[k]
           /\ SumOf(a, k) = SumOf(a, k - 1) + a[k]
           /\ SumOf(q, k) = SumOf(q, k - 1) + q[k]
      BY <2>2, <2>3, SumIs
    <2>12. /\ StandsFor(acc.errors, SumOf(x, k - 1), d)
           /\ StandsFor(acc.absolute, SumOf(a, k - 1), d)
           /\ StandsFor(acc.squares, SumOf(q, k - 1), d * d)
           /\ \E w \in Nat : StandsFor(acc.worst, w, d) /\ \A i \in 1..k - 1 : a[i] <= w
      BY <2>6 DEF ErrorsStand, a, q, acc
    <2>13. StandsFor(f[k].errors, SumOf(x, k), d)
      BY <1>3, <2>4, <2>8, <2>9, <2>11, <2>12, PlusStands
    <2>14. StandsFor(f[k].absolute, SumOf(a, k), d)
      <3>1. StandsFor(Magnitude(e), a[k], d)
        BY <2>9, MagnitudeStands
      <3>2. QED
        BY <1>3, <2>4, <2>8, <2>9, <2>11, <2>12, <3>1, PlusStands
    <2>15. StandsFor(f[k].squares, SumOf(q, k), d * d)
      <3>1. StandsFor(Scaled(e, e), x[k] * x[k], d * d)
        BY <2>9, ScaledStands DEF Scaled
      <3>2. QED
        BY <1>1, <1>3, <2>4, <2>8, <2>9, <2>11, <2>12, <3>1, PlusStands
    <2>16. \E w \in Nat : StandsFor(f[k].worst, w, d) /\ \A i \in 1..k : a[i] <= w
      <3>1. PICK w \in Nat : StandsFor(acc.worst, w, d) /\ \A i \in 1..k - 1 : a[i] <= w
        BY <2>12
      <3>2. StandsFor(Magnitude(e), a[k], d)
        BY <2>9, MagnitudeStands
      <3>3. PICK v \in Nat : StandsFor(f[k].worst, v, d) /\ a[k] <= v /\ w <= v
        BY <2>8, <2>9, <2>10, <3>1, <3>2, WorstStands
      <3>4. ASSUME NEW i \in 1..k PROVE a[i] <= v
        <4>1. i = k \/ i \in 1..k - 1
          BY <2>2
        <4>2. CASE i = k
          BY <3>3, <4>2
        <4>3. CASE i \in 1..k - 1
          <5>1. a[i] <= w /\ a[i] \in Nat
            BY <1>2, <2>4, <3>1, <4>3
          <5>2. QED
            BY <3>3, <5>1
        <4>4. QED
          BY <4>1, <4>2, <4>3
      <3>5. QED
        BY <3>3, <3>4
    <2>17. ErrorsStand(f[k], x, n, k, d)
      BY <2>13, <2>14, <2>15, <2>16 DEF ErrorsStand, a, q
    <2>18. QED
      BY <2>2, <2>17
  <1>6. SUFFICES ASSUME NEW k \in 0..n PROVE ErrorsStand(f[k], x, n, k, d)
    OBVIOUS
  <1>7. k \in Nat /\ k <= n /\ k \notin T
    <2> HIDE DEF T
    <2>1. QED
      BY <1>5
  <1>8. QED
    BY <1>7

\* The mean error is no larger than the mean absolute one, whose square is no
\* larger than the mean square one, nor that than the worst.
LEMMA MeansFit ==
  ASSUME Missing \notin Int \X Int,
         NEW n \in Nat \ {0}, NEW pairs, NEW f, Accumulates(f, pairs, n), \A i \in 1..n : IsScored(pairs[i])
  PROVE  LET acc == f[n]
             mae == Averaged(acc.absolute, acc)
             mse == Averaged(acc.squares, acc)
             bias == Averaged(acc.errors, acc) IN
         /\ AtMost(Scaled(mae, mae), mse)
         /\ AtMost(Scaled(bias, bias), mse)
         /\ AtMost(mse, Scaled(acc.worst, acc.worst))
  <1> DEFINE acc == f[n]
             mae == Averaged(acc.absolute, acc)
             mse == Averaged(acc.squares, acc)
             bias == Averaged(acc.errors, acc)
             errors == [i \in 1..n |-> pairs[i].error]
  <1>1. \A i \in 1..n : errors[i] \in Pairs
    BY DEF IsScored
  <1>2. PICK d \in Nat \ {0} : \E x \in [1..n -> Int] : \A i \in 1..n : StandsFor(errors[i], x[i], d)
    <2> HIDE DEF errors
    <2>1. QED
      BY <1>1, CommonDenominator
  <1>3. PICK x \in [1..n -> Int] : \A i \in 1..n : StandsFor(errors[i], x[i], d)
    BY <1>2
  <1>4. \A i \in 1..n : x[i] \in Int /\ StandsFor(pairs[i].error, x[i], d)
    BY <1>3
  <1>5. n \in 0..n
    OBVIOUS
  <1>6. acc.count = n
    <2>1. n \in Nat
      OBVIOUS
    <2>2. f[n].count = n
      BY <1>5, <2>1, CountsAccumulate
    <2>3. QED
      BY <2>2
  <1>7. ErrorsStand(acc, x, n, n, d)
    BY <1>4, <1>5, ErrorsAccumulate
  <1> DEFINE a == [i \in 1..n |-> Abs(x[i])]
             q == [i \in 1..n |-> x[i] * x[i]]
             S == SumOf(x, n)
             A == SumOf(a, n)
             Q == SumOf(q, n)
  <1>8. /\ StandsFor(acc.errors, S, d)
        /\ StandsFor(acc.absolute, A, d)
        /\ StandsFor(acc.squares, Q, d * d)
        /\ \E w \in Nat : StandsFor(acc.worst, w, d) /\ \A i \in 1..n : a[i] <= w
    BY <1>7 DEF ErrorsStand
  <1>9. PICK w \in Nat : StandsFor(acc.worst, w, d) /\ \A i \in 1..n : a[i] <= w
    BY <1>8
  <1>10. /\ S \in Int /\ A \in Int /\ Q \in Nat
         /\ S <= A /\ -S <= A
         /\ A * A <= n * Q
         /\ Q <= n * (w * w)
    <2>1. \A i \in 1..n : x[i] \in Int /\ a[i] = Abs(x[i]) /\ q[i] = x[i] * x[i] /\ a[i] <= w
      BY <1>4, <1>9
    <2>2. n \in Nat /\ w \in Int
      OBVIOUS
    <2> HIDE DEF a, q, S, A, Q
    <2>3. QED
      BY <2>1, <2>2, SumsFit DEF S, A, Q
  <1> HIDE DEF acc, a, q, S, A, Q, errors
  <1>11. /\ mae = Over(acc.absolute[1], n * acc.absolute[2])
         /\ mse = Over(acc.squares[1], n * acc.squares[2])
         /\ bias = Over(acc.errors[1], n * acc.errors[2])
    BY <1>6 DEF Averaged
  <1> DEFINE nd == n * d
             dd == d * d
  <1>12. nd \in Nat \ {0} /\ dd \in Nat \ {0}
    OBVIOUS
  <1>13. StandsFor(mae, A, nd) /\ StandsFor(bias, S, nd)
    BY <1>8, <1>10, <1>11, PartStands
  <1> HIDE DEF mae, mse, bias, dd
  <1>14. StandsFor(mse, Q, n * dd)
    <2>1. StandsFor(acc.squares, Q, dd)
      BY <1>8 DEF dd
    <2>2. Q \in Int
      BY <1>10
    <2>3. StandsFor(Over(acc.squares[1], n * acc.squares[2]), Q, n * dd)
      BY <1>12, <2>1, <2>2, PartStands
    <2>4. QED
      BY <1>11, <2>3
  <1>15. StandsFor(Scaled(acc.worst, acc.worst), w * w, dd)
    BY <1>9, ScaledStands DEF Scaled, dd
  <1> HIDE DEF nd
  <1>16. StandsFor(Scaled(mae, mae), A * A, nd * nd) /\ StandsFor(Scaled(bias, bias), S * S, nd * nd)
    BY <1>10, <1>12, <1>13, ScaledStands DEF Scaled
  <1> DEFINE ndd == n * dd
             nnd == nd * nd
             AA == A * A
             SS == S * S
             ww == w * w
  <1>17. ndd \in Nat \ {0} /\ nnd \in Nat \ {0} /\ nnd = n * ndd /\ AA \in Int /\ SS \in Int /\ ww \in Int
    <2>1. nnd = n * (n * (d * d))
      BY DEF nd
    <2>2. QED
      BY <1>10, <1>12, <2>1 DEF dd
  <1>18. SS <= AA
    <2>1. CASE S >= 0
      <3>1. S * S <= A * S /\ A * S <= A * A
        BY <1>10, <2>1
      <3>2. A * S \in Int
        BY <1>10
      <3>3. QED
        BY <1>17, <3>1, <3>2
    <2>2. CASE S < 0
      <3> DEFINE R == -S
      <3>1. R \in Nat /\ R <= A /\ R * R = S * S
        BY <1>10, <2>2
      <3> HIDE DEF R
      <3>2. R * R <= A * R /\ A * R <= A * A /\ A * R \in Int /\ R * R \in Int
        BY <1>10, <3>1
      <3>3. QED
        BY <1>17, <3>1, <3>2
    <2>3. QED
      BY <1>10, <2>1, <2>2
  <1>19. AtMost(Scaled(mae, mae), mse) /\ AtMost(Scaled(bias, bias), mse)
    <2>1. StandsFor(mse, Q * n, ndd * n)
      BY <1>10, <1>14, <1>17, Expanded
    <2>2. ndd * n = nnd /\ Q * n = n * Q /\ Q * n \in Int
      BY <1>10, <1>17
    <2>3. AA <= Q * n /\ SS <= Q * n
      BY <1>10, <1>17, <1>18, <2>2
    <2> DEFINE nQ == Q * n
    <2>4. StandsFor(mse, nQ, nnd) /\ nQ \in Int /\ AA <= nQ /\ SS <= nQ
      BY <2>1, <2>2, <2>3
    <2>5. StandsFor(Scaled(mae, mae), AA, nnd) /\ StandsFor(Scaled(bias, bias), SS, nnd)
      BY <1>16
    <2> HIDE DEF nQ, AA, SS, nnd
    <2>6. QED
      BY <1>17, <2>4, <2>5, StandCompare
  <1>20. AtMost(mse, Scaled(acc.worst, acc.worst))
    <2>1. StandsFor(Scaled(acc.worst, acc.worst), ww * n, dd * n)
      BY <1>12, <1>15, <1>17, Expanded
    <2>2. dd * n = ndd /\ ww * n = n * ww /\ ww * n \in Int
      BY <1>12, <1>17
    <2> DEFINE wn == ww * n
    <2>3. StandsFor(Scaled(acc.worst, acc.worst), wn, ndd) /\ wn \in Int /\ Q <= wn /\ StandsFor(mse, Q, ndd)
      BY <1>10, <1>14, <2>1, <2>2
    <2> HIDE DEF wn, ndd, ww
    <2>4. QED
      BY <1>10, <1>17, <2>3, StandCompare
  <1>21. QED
    BY <1>19, <1>20 DEF mae, mse, bias, acc

-----------------------------------------------------------------------------
(* The variance of the references: Welford's recurrence.                   *)

LEMMA DifferenceStands ==
  ASSUME NEW x \in Int, NEW y \in Int, NEW d \in Nat \ {0}, NEW a, NEW b,
         StandsFor(a, x, d), StandsFor(b, y, d)
  PROVE  StandsFor(Plus(a, Minus(b)), x - y, d)
  <1>1. -y \in Int /\ StandsFor(Minus(b), -y, d)
    BY MinusStands
  <1>2. StandsFor(Plus(a, Minus(b)), x + (-y), d)
    BY <1>1, PlusStands
  <1>3. x + (-y) = x - y
    OBVIOUS
  <1>4. QED
    BY <1>2, <1>3

\* One step of the recurrence: m and k numbers of samples, r and w the sums of
\* their values and of the squares of these, x the value that comes.
LEMMA WelfordStep ==
  ASSUME NEW m \in Nat \ {0}, NEW k \in Nat \ {0}, k = m + 1, NEW r \in Int, NEW w \in Int, NEW x \in Int
  PROVE  /\ r * k + (x * m - r) = (r + x) * m
         /\ x * k - (r + x) = x * m - r
         /\ (m * w - r * r) * k + (x * m - r) * (x * m - r)
              = (k * (w + x * x) - (r + x) * (r + x)) * m
  <1>1. r * k = r * m + r /\ x * k = x * m + x /\ (r + x) * m = r * m + x * m
    OBVIOUS
  <1>2. r * m \in Int /\ x * m \in Int
    OBVIOUS
  <1>3. /\ r * k + (x * m - r) = (r + x) * m
        /\ x * k - (r + x) = x * m - r
    BY <1>1, <1>2
  <1>4. (m * w - r * r) * k + (x * m - r) * (x * m - r)
              = (k * (w + x * x) - (r + x) * (r + x)) * m
    OBVIOUS
  <1>5. QED
    BY <1>3, <1>4

\* The numerators of the mean and of the sum of squares, over k * d and k * d * d.
WelfordStands(acc, k, r, w, d) ==
  /\ StandsFor(acc.refMean, r, k * d)
  /\ StandsFor(acc.refM2, k * w - r * r, k * (d * d))

\* The first pair, one pair more, and so every number of pairs.
LEMMA WelfordStarts ==
  ASSUME Missing \notin Int \X Int, NEW pair, NEW x \in Int, NEW d \in Nat \ {0}, StandsFor(pair.ref, x, d)
  PROVE  WelfordStands(Update(Nought, pair), 1, x, x * x, d)
  <1> DEFINE delta == Plus(pair.ref, Minus(Zero))
             mean == Plus(Zero, Over(delta[1], 1 * delta[2]))
             new == Update(Nought, pair)
             dd == d * d
             xx == x * x
  <1>1. /\ new.refMean = mean
        /\ new.refM2 = Plus(Zero, Scaled(delta, Plus(pair.ref, Minus(mean))))
    <2>1. Nought.refMean = Zero /\ Nought.refM2 = Zero /\ Nought.count + 1 = 1
      BY DEF Nought
    <2> HIDE DEF delta, mean, new
    <2>2. QED
      BY <2>1, UpdateIs DEF delta, mean, new
  <1>2. dd \in Nat \ {0} /\ xx \in Int
    OBVIOUS
  <1> HIDE DEF delta, mean, new, dd, xx
  <1>3. StandsFor(delta, x, d)
    <2>1. StandsFor(delta, x - 0, d)
      BY ZeroStands, DifferenceStands DEF delta
    <2>2. QED
      BY <2>1
  <1>4. StandsFor(mean, x, d)
    <2>1. StandsFor(Over(delta[1], 1 * delta[2]), x, 1 * d)
      BY <1>3, PartStands
    <2>2. 1 * d = d
      OBVIOUS
    <2>3. StandsFor(mean, 0 + x, d)
      BY <2>1, <2>2, ZeroStands, PlusStands DEF mean
    <2>4. QED
      BY <2>3
  <1>5. StandsFor(Plus(pair.ref, Minus(mean)), 0, d)
    <2>1. StandsFor(Plus(pair.ref, Minus(mean)), x - x, d)
      BY <1>4, DifferenceStands
    <2>2. QED
      BY <2>1
  <1>6. StandsFor(Scaled(delta, Plus(pair.ref, Minus(mean))), 0, dd)
    <2>1. StandsFor(Scaled(delta, Plus(pair.ref, Minus(mean))), x * 0, d * d)
      BY <1>3, <1>5, ScaledStands DEF Scaled
    <2>2. QED
      BY <2>1 DEF dd
  <1>7. StandsFor(new.refM2, 0, dd)
    <2>1. StandsFor(new.refM2, 0 + 0, dd)
      BY <1>1, <1>2, <1>6, ZeroStands, PlusStands
    <2>2. QED
      BY <2>1
  <1>8. 1 * xx - xx = 0 /\ 1 * d = d /\ 1 * dd = dd
    BY <1>2
  <1>9. QED
    BY <1>1, <1>4, <1>7, <1>8 DEF WelfordStands, new, xx, dd

LEMMA WelfordGoesOn ==
  ASSUME Missing \notin Int \X Int, NEW acc \in Accumulator, NEW pair, NEW m \in Nat \ {0}, acc.count = m,
         NEW r \in Int, NEW w \in Int, NEW x \in Int, NEW d \in Nat \ {0},
         WelfordStands(acc, m, r, w, d), StandsFor(pair.ref, x, d)
  PROVE  WelfordStands(Update(acc, pair), m + 1, r + x, w + x * x, d)
  <1> DEFINE k == m + 1
             delta == Plus(pair.ref, Minus(acc.refMean))
             part == Over(delta[1], k * delta[2])
             mean == Plus(acc.refMean, part)
             rest == Plus(pair.ref, Minus(mean))
             new == Update(acc, pair)
             md == m * d
             kd == k * d
             kmd == k * md
             dd == d * d
             y == x * m - r
             z == r + x
             v == m * w - r * r
             u == k * (w + x * x) - z * z
  <1>1. new.refMean = mean /\ new.refM2 = Plus(acc.refM2, Scaled(delta, rest))
    <2> HIDE DEF new, mean, part, rest, delta
    <2>1. QED
      BY UpdateIs DEF new, mean, part, rest, delta
  <1>2. /\ k \in Nat \ {0} /\ md \in Nat \ {0} /\ kd \in Nat \ {0} /\ kmd \in Nat \ {0} /\ dd \in Nat \ {0}
        /\ y \in Int /\ z \in Int /\ v \in Int /\ u \in Int
    OBVIOUS
  <1>3. r * k + y = z * m /\ x * k - z = y /\ v * k + y * y = u * m
    <2> HIDE DEF k
    <2>1. k = m + 1
      BY DEF k
    <2>2. QED
      BY <1>2, <2>1, WelfordStep
  <1>4. /\ kmd = md * k /\ kd * m = kmd /\ d * m = md /\ d * k = kd
        /\ md * kd = (k * dd) * m /\ (m * dd) * k = (k * dd) * m
    <2> HIDE DEF k
    <2>1. k \in Int
      BY <1>2
    <2>2. QED
      BY <2>1
  <1>5. m * dd \in Nat \ {0} /\ k * dd \in Nat \ {0} /\ (k * dd) * m \in Nat \ {0}
        /\ z * m \in Int /\ y * y \in Int /\ r * k \in Int /\ x * k \in Int /\ v * k \in Int /\ u * m \in Int
        /\ x * m \in Int
    <2> HIDE DEF k, y, z, v, u, dd
    <2>1. QED
      BY <1>2
  <1>6. StandsFor(acc.refMean, r, md) /\ StandsFor(acc.refM2, v, m * dd)
    BY DEF WelfordStands
  <1>7. StandsFor(pair.ref, x * m, md) /\ StandsFor(pair.ref, x * k, kd)
    <2>1. StandsFor(pair.ref, x * m, d * m) /\ StandsFor(pair.ref, x * k, d * k)
      BY <1>2, Expanded
    <2>2. QED
      BY <1>4, <2>1
  <1> HIDE DEF k, delta, part, mean, rest, new, md, kd, kmd, dd, y, z, v, u
  <1>8. StandsFor(delta, y, md)
    BY <1>2, <1>5, <1>6, <1>7, DifferenceStands DEF delta, y
  <1>9. StandsFor(part, y, kmd)
    BY <1>2, <1>8, PartStands DEF part, kmd
  <1>10. StandsFor(mean, z, kd)
    <2>1. StandsFor(acc.refMean, r * k, kmd)
      <3>1. StandsFor(acc.refMean, r * k, md * k)
        BY <1>2, <1>6, Expanded
      <3>2. QED
        BY <1>4, <3>1
    <2>2. StandsFor(mean, r * k + y, kmd)
      BY <1>2, <1>5, <1>9, <2>1, PlusStands DEF mean
    <2>3. StandsFor(mean, z * m, kd * m)
      BY <1>3, <1>4, <2>2
    <2>4. QED
      BY <1>2, <2>3, Expanded
  <1>11. StandsFor(rest, y, kd)
    <2>1. StandsFor(rest, x * k - z, kd)
      BY <1>2, <1>5, <1>7, <1>10, DifferenceStands DEF rest
    <2>2. QED
      BY <1>3, <2>1
  <1>12. StandsFor(new.refM2, u, k * dd)
    <2>1. StandsFor(Scaled(delta, rest), y * y, (k * dd) * m)
      <3>1. StandsFor(Scaled(delta, rest), y * y, md * kd)
        BY <1>2, <1>8, <1>11, ScaledStands DEF Scaled
      <3>2. QED
        BY <1>4, <3>1
    <2>2. StandsFor(acc.refM2, v * k, (k * dd) * m)
      <3>1. StandsFor(acc.refM2, v * k, (m * dd) * k)
        BY <1>2, <1>5, <1>6, Expanded
      <3>2. QED
        BY <1>4, <3>1
    <2>3. StandsFor(new.refM2, v * k + y * y, (k * dd) * m)
      BY <1>1, <1>5, <2>1, <2>2, PlusStands
    <2>4. StandsFor(new.refM2, u * m, (k * dd) * m)
      BY <1>3, <2>3
    <2>5. QED
      BY <1>2, <1>5, <2>4, Expanded
  <1>13. QED
    BY <1>1, <1>10, <1>12 DEF WelfordStands, new, k, kd, dd, z, u

LEMMA WelfordAccumulates ==
  ASSUME Missing \notin Int \X Int,
         NEW n \in Nat, NEW pairs, NEW f, Accumulates(f, pairs, n),
         NEW d \in Nat \ {0}, NEW x, \A i \in 1..n : x[i] \in Int /\ StandsFor(pairs[i].ref, x[i], d),
         NEW q, \A i \in 1..n : q[i] = x[i] * x[i],
         NEW k \in 1..n
  PROVE  WelfordStands(f[k], k, SumOf(x, k), SumOf(q, k), d)
  <1> DEFINE Fits(j) == WelfordStands(f[j], j, SumOf(x, j), SumOf(q, j), d)
             T == {j \in Nat : 1 <= j /\ j <= n /\ ~Fits(j)}
  <1>1. \A j \in 0..n : SumOf(x, j) \in Int /\ SumOf(q, j) \in Int
    <2>1. \A i \in 1..n : x[i] \in Int /\ q[i] \in Int
      OBVIOUS
    <2>2. QED
      BY <2>1, SumsAreNumbers
  <1>2. T = {}
    <2> SUFFICES ASSUME T # {} PROVE FALSE
      OBVIOUS
    <2>1. PICK j \in T : \A l \in T : j <= l
      BY LeastNumber
    <2>2. j \in Nat /\ 1 <= j /\ j <= n /\ ~Fits(j) /\ j \in 1..n
      OBVIOUS
    <2> HIDE DEF Fits
    <2>3. f[j] = Update(f[j - 1], pairs[j]) /\ f[j - 1] \in Accumulator
      BY <2>2 DEF Accumulates
    <2>4. x[j] \in Int /\ StandsFor(pairs[j].ref, x[j], d) /\ q[j] = x[j] * x[j]
      BY <2>2
    <2>5. SumOf(x, j) = SumOf(x, j - 1) + x[j] /\ SumOf(q, j) = SumOf(q, j - 1) + x[j] * x[j]
      BY <2>2, <2>4, SumIs
    <2>6. CASE j = 1
      <3>1. f[0] = Nought
        BY DEF Accumulates
      <3>2. WelfordStands(f[1], 1, x[1], x[1] * x[1], d)
        BY <2>3, <2>4, <2>6, <3>1, WelfordStarts
      <3>3. SumOf(x, 1) = x[1] /\ SumOf(q, 1) = x[1] * x[1]
        <4>1. SumOf(x, 0) = 0 /\ SumOf(q, 0) = 0
          BY SumIs
        <4>2. x[1] * x[1] \in Int
          BY <2>4, <2>6
        <4>3. QED
          BY <2>4, <2>5, <2>6, <4>1, <4>2
      <3>4. QED
        BY <2>2, <2>6, <3>2, <3>3 DEF Fits
    <2>7. CASE j # 1
      <3> DEFINE m == j - 1
      <3>1. m \in Nat \ {0} /\ m < j /\ m <= n /\ 1 <= m /\ m \in 0..n /\ m + 1 = j
        BY <2>2, <2>7
      <3> HIDE DEF m
      <3>2. m \notin T
        <4> HIDE DEF T
        <4>1. ASSUME m \in T PROVE FALSE
          <5>1. j <= m
            BY <2>1, <4>1
          <5>2. QED
            BY <2>2, <3>1, <5>1
        <4>2. QED
          BY <4>1
      <3>3. WelfordStands(f[m], m, SumOf(x, m), SumOf(q, m), d)
        BY <3>1, <3>2 DEF Fits
      <3>4. f[m].count = m
        BY <3>1, CountsAccumulate
      <3>5. /\ f[j] = Update(f[m], pairs[j]) /\ f[m] \in Accumulator
            /\ SumOf(x, j) = SumOf(x, m) + x[j] /\ SumOf(q, j) = SumOf(q, m) + x[j] * x[j]
        BY <2>3, <2>5 DEF m
      <3>6. WelfordStands(Update(f[m], pairs[j]), m + 1, SumOf(x, m) + x[j], SumOf(q, m) + x[j] * x[j], d)
        BY <1>1, <2>4, <3>1, <3>3, <3>4, <3>5, WelfordGoesOn
      <3>7. QED
        BY <2>2, <3>1, <3>5, <3>6 DEF Fits
    <2>8. QED
      BY <2>6, <2>7
  <1>3. Fits(k)
    <2> HIDE DEF Fits
    <2>1. k \in Nat /\ 1 <= k /\ k <= n /\ k \notin T
      <3> HIDE DEF T
      <3>1. QED
        BY <1>2
    <2>2. QED
      BY <2>1
  <1>4. QED
    BY <1>3

\* What the recurrence leaves is the variance.
LEMMA VarianceFits ==
  ASSUME Missing \notin Int \X Int,
         NEW n \in Nat \ {0}, NEW pairs, NEW f, Accumulates(f, pairs, n), \A i \in 1..n : IsScored(pairs[i]),
         NEW s, Len(s) = n, \A i \in 1..n : s[i] = pairs[i].ref,
         NEW t, Len(t) = n, \A i \in 1..n : t[i] = Scaled(pairs[i].ref, pairs[i].ref)
  PROVE  SameAs(Times(n, f[n].refM2), Plus(Times(n, SumUp(t)), Minus(Scaled(SumUp(s), SumUp(s)))))
  <1>1. \A i \in 1..n : s[i] \in Pairs
    BY DEF IsScored
  <1>2. PICK d \in Nat \ {0} : \E x \in [1..n -> Int] : \A i \in 1..n : StandsFor(s[i], x[i], d)
    <2>1. n \in Nat
      OBVIOUS
    <2>2. QED
      BY <1>1, <2>1, CommonDenominator
  <1>3. PICK x \in [1..n -> Int] : \A i \in 1..n : StandsFor(s[i], x[i], d)
    BY <1>2
  <1> DEFINE q == [i \in 1..n |-> x[i] * x[i]]
             dd == d * d
  <1>4. /\ \A i \in 1..n : x[i] \in Int /\ StandsFor(pairs[i].ref, x[i], d)
        /\ \A i \in 1..n : q[i] \in Int /\ q[i] = x[i] * x[i]
        /\ dd \in Nat \ {0} /\ n \in Nat /\ n \in 1..n
    BY <1>3
  <1> HIDE DEF q
  <1> DEFINE r == SumOf(x, n)
             w == SumOf(q, n)
             nw == n * w
             rr == r * r
             v == nw - rr
  <1>5. WelfordStands(f[n], n, r, w, d)
    BY <1>4, WelfordAccumulates
  <1>6. StandsFor(SumUp(s), r, d) /\ r \in Int
    BY <1>1, <1>3, <1>4, SumUpStands
  <1>7. StandsFor(SumUp(t), w, dd) /\ w \in Int
    <2>1. \A i \in 1..n : t[i] \in Pairs
      BY ScaledIsPair DEF IsScored
    <2>2. ASSUME NEW i \in 1..n PROVE StandsFor(t[i], q[i], dd)
      <3>1. StandsFor(Scaled(pairs[i].ref, pairs[i].ref), x[i] * x[i], d * d)
        BY <1>4, ScaledStands DEF Scaled
      <3>2. QED
        BY <1>4, <3>1
    <2>3. QED
      BY <1>4, <2>1, <2>2, SumUpStands
  <1>8. nw \in Int /\ rr \in Int /\ v \in Int /\ n * v = v * n /\ v * n \in Int /\ n * dd = dd * n /\ dd * n \in Nat \ {0}
    <2> HIDE DEF r, w
    <2>1. QED
      BY <1>4, <1>6, <1>7
  <1>9. StandsFor(f[n].refM2, v, n * dd)
    BY <1>5 DEF WelfordStands
  <1>10. StandsFor(Scaled(SumUp(s), SumUp(s)), rr, dd)
    BY <1>6, ScaledStands DEF Scaled
  <1> HIDE DEF r, w, nw, rr, v, dd
  <1>11. StandsFor(Times(n, f[n].refM2), v * n, dd * n)
    <2>1. StandsFor(Times(n, f[n].refM2), n * v, n * dd)
      BY <1>8, <1>9, TimesStands
    <2>2. QED
      BY <1>8, <2>1
  <1> DEFINE far == Plus(Times(n, SumUp(t)), Minus(Scaled(SumUp(s), SumUp(s))))
  <1>12. StandsFor(far, v, dd)
    <2>1. StandsFor(Times(n, SumUp(t)), nw, dd)
      BY <1>4, <1>7, TimesStands DEF nw
    <2>2. StandsFor(far, nw - rr, dd)
      BY <1>4, <1>8, <1>10, <2>1, DifferenceStands
    <2>3. QED
      BY <2>2 DEF v
  <1>13. StandsFor(far, v * n, dd * n)
    BY <1>4, <1>8, <1>12, Expanded
  <1>14. QED
    BY <1>8, <1>11, <1>13, StandForTheSame

-----------------------------------------------------------------------------
(* The least and the greatest of some indices.                             *)

LEMMA LeastOf ==
  ASSUME NEW n \in Nat, NEW S \in SUBSET (1..n), S # {}
  PROVE  Min(S) \in S /\ \A k \in S : Min(S) <= k
  <1>1. S \in SUBSET Nat
    OBVIOUS
  <1>2. \E m \in S : \A k \in S : m <= k
    BY <1>1, LeastNumber
  <1>3. QED
    BY <1>2 DEF Min

LEMMA GreatestOf ==
  ASSUME NEW n \in Nat, NEW S \in SUBSET (1..n), S # {}
  PROVE  Max(S) \in S /\ \A k \in S : k <= Max(S)
  <1> DEFINE T == {n - k : k \in S}
  <1>1. \A k \in S : k \in Nat /\ n - k \in Nat
    OBVIOUS
  <1>2. T \in SUBSET Nat
    BY <1>1
  <1>3. T # {}
    OBVIOUS
  <1>4. PICK m \in T : \A k \in T : m <= k
    BY <1>2, <1>3, LeastNumber
  <1>5. PICK x \in S : m = n - x
    OBVIOUS
  <1>6. ASSUME NEW k \in S
        PROVE  x >= k
    <2>1. n - x <= n - k
      BY <1>4, <1>5
    <2>2. QED
      BY <1>1, <2>1
  <1>7. \E y \in S : \A k \in S : y >= k
    BY <1>6
  <1>8. Max(S) \in S /\ \A k \in S : Max(S) >= k
    BY <1>7 DEF Max
  <1>9. QED
    BY <1>1, <1>8

LEMMA GreaterOf ==
  ASSUME NEW a \in Int, NEW b \in Int
  PROVE  a <= Max({a, b}) /\ b <= Max({a, b})
  <1>1. \E x \in {a, b} : \A y \in {a, b} : x >= y
    OBVIOUS
  <1>2. QED
    BY <1>1 DEF Max

-----------------------------------------------------------------------------
(* What a diagnosis says of the events and of the reports.                 *)

\* The reports of an examination and the events of its dataset.
Reported(reports) ==
  DOMAIN reports = 1..Len(reports) /\ Len(reports) \in Nat /\ \A i \in DOMAIN reports : IsReport(reports[i])

\* What detects an event is one of the reports: in its window if there is one
\* there, an expected one if there is one.
LEMMA DetectionIs ==
  ASSUME NEW reports, Reported(reports), NEW e, IsEvent(e)
  PROVE  LET r == Detection(reports, e)
             inside == InWindow(reports, e)
             early == Early(reports, e)
         IN /\ r = Missing <=> inside = {} /\ early = {}
            /\ inside # {} =>
                 \E i \in inside :
                   /\ r = reports[i]
                   /\ Expected(e, r) <=> \E k \in inside : Expected(e, reports[k])
            /\ inside = {} /\ early # {} => \E i \in early : r = reports[i]
  <1> DEFINE r == Detection(reports, e)
             inside == InWindow(reports, e)
             early == Early(reports, e)
             expectedIn(S) == {i \in S : Expected(e, reports[i])}
             n == Len(reports)
  <1>1. n \in Nat /\ inside \in SUBSET (1..n) /\ early \in SUBSET (1..n)
    BY DEF Reported, InWindow, Early
  <1>2. \A i \in 1..n : reports[i] # Missing
    BY DEF Reported, IsReport
  <1>3. r = CASE expectedIn(inside) # {} -> reports[Min(expectedIn(inside))]
              [] inside # {} /\ expectedIn(inside) = {} -> reports[Min(inside)]
              [] inside = {} /\ e.expected # Missing /\ expectedIn(early) # {} -> reports[Max(expectedIn(early))]
              [] inside = {} /\ early # {} /\ (e.expected = Missing \/ expectedIn(early) = {})
                   -> reports[Max(early)]
              [] OTHER -> Missing
    BY DEF Detection
  <1> HIDE DEF r, inside, early, n
  <1>4. CASE expectedIn(inside) # {}
    <2>1. expectedIn(inside) \in SUBSET (1..n) /\ inside # {}
      BY <1>1, <1>4
    <2>2. Min(expectedIn(inside)) \in expectedIn(inside)
      BY <1>1, <1>4, <2>1, LeastOf
    <2>3. r = reports[Min(expectedIn(inside))]
      BY <1>3, <1>4, <2>1
    <2>4. QED
      BY <1>1, <1>2, <2>1, <2>2, <2>3 DEF r, inside, early
  <1>5. CASE inside # {} /\ expectedIn(inside) = {}
    <2>1. Min(inside) \in inside
      BY <1>1, <1>5, LeastOf
    <2>2. r = reports[Min(inside)]
      BY <1>3, <1>5
    <2>3. QED
      BY <1>1, <1>2, <1>5, <2>1, <2>2 DEF r, inside, early
  <1>6. CASE inside = {} /\ e.expected # Missing /\ expectedIn(early) # {}
    <2>1. expectedIn(early) \in SUBSET (1..n) /\ early # {} /\ expectedIn(inside) = {}
      BY <1>1, <1>6
    <2>2. Max(expectedIn(early)) \in expectedIn(early)
      BY <1>1, <1>6, <2>1, GreatestOf
    <2>3. r = reports[Max(expectedIn(early))]
      BY <1>3, <1>6, <2>1
    <2>4. QED
      BY <1>1, <1>2, <1>6, <2>1, <2>2, <2>3 DEF r, inside, early
  <1>7. CASE inside = {} /\ early # {} /\ (e.expected = Missing \/ expectedIn(early) = {})
    <2>1. Max(early) \in early /\ expectedIn(inside) = {}
      BY <1>1, <1>7, GreatestOf
    <2>2. r = reports[Max(early)]
      BY <1>3, <1>7, <2>1
    <2>3. QED
      BY <1>1, <1>2, <1>7, <2>1, <2>2 DEF r, inside, early
  <1>8. CASE inside = {} /\ early = {}
    <2>1. expectedIn(inside) = {} /\ expectedIn(early) = {}
      BY <1>8
    <2>2. r = Missing
      BY <1>3, <1>8, <2>1
    <2>3. QED
      BY <1>8, <2>2 DEF r, inside, early
  <1>9. QED
    BY <1>4, <1>5, <1>6, <1>7, <1>8

\* A report is a true positive if an event that is active expects it.
LEMMA TruePositiveIs ==
  ASSUME NEW r, NEW events
  PROVE  /\ SampleVerdict(r, events) \in Cells
         /\ SampleVerdict(r, events) = "tp" <=>
              r.state \in Active /\ \E e \in ToSet(events) : Within(e, r.at) /\ Expected(e, r)
  <1> DEFINE active == {e \in ToSet(events) : Within(e, r.at)}
  <1>1. SampleVerdict(r, events) =
          CASE r.state = "DATA_QUALITY_FAILED" -> "unknown"
            [] r.state \in Active /\ active # {} /\ (\E e \in active : Expected(e, r)) -> "tp"
            [] r.state \in Active /\ active = {} -> "fp"
            [] r.state \notin Active \union {"DATA_QUALITY_FAILED"} /\ active = {} -> "tn"
            [] OTHER -> "fn"
    BY DEF SampleVerdict
  <1>2. "DATA_QUALITY_FAILED" \notin Active
    BY DEF Active
  <1>3. (\E e \in active : Expected(e, r)) <=> \E e \in ToSet(events) : Within(e, r.at) /\ Expected(e, r)
    OBVIOUS
  <1> HIDE DEF active
  <1>4. (\E e \in active : Expected(e, r)) => active # {}
    OBVIOUS
  <1> DEFINE expected == \E e \in active : Expected(e, r)
  <1>5. expected => active # {}
    BY <1>4
  <1>6. /\ SampleVerdict(r, events) \in Cells
        /\ SampleVerdict(r, events) = "tp" <=> r.state \in Active /\ expected
    <2> HIDE DEF expected
    <2>1. SampleVerdict(r, events) =
            CASE r.state = "DATA_QUALITY_FAILED" -> "unknown"
              [] r.state \in Active /\ active # {} /\ expected -> "tp"
              [] r.state \in Active /\ active = {} -> "fp"
              [] r.state \notin Active \union {"DATA_QUALITY_FAILED"} /\ active = {} -> "tn"
              [] OTHER -> "fn"
      BY <1>1 DEF expected
    <2>2. CASE r.state = "DATA_QUALITY_FAILED"
      BY <1>2, <2>1, <2>2 DEF Cells
    <2>3. CASE r.state \in Active /\ active # {} /\ expected
      BY <1>2, <2>1, <2>3 DEF Cells
    <2>4. CASE r.state \in Active /\ active = {}
      BY <1>2, <1>5, <2>1, <2>4 DEF Cells
    <2>5. CASE r.state \notin Active \union {"DATA_QUALITY_FAILED"} /\ active = {}
      BY <1>2, <2>1, <2>5 DEF Cells
    <2>6. CASE \/ r.state \in Active /\ active # {} /\ ~expected
               \/ r.state \notin Active \union {"DATA_QUALITY_FAILED"} /\ active # {}
      BY <1>2, <2>1, <2>6 DEF Cells
    <2>7. QED
      BY <2>2, <2>3, <2>4, <2>5, <2>6
  <1>7. QED
    BY <1>3, <1>6

LEMMA TwoParts ==
  ASSUME NEW S, NEW T, IsFiniteSet(S), IsFiniteSet(T), S \intersect T = {}
  PROVE  /\ IsFiniteSet(S \union T)
         /\ Cardinality(S \union T) = Cardinality(S) + Cardinality(T)
  <1>1. /\ IsFiniteSet(S \union T)
        /\ Cardinality(S \union T) = Cardinality(S) + Cardinality(T) - Cardinality(S \intersect T)
    BY FS_Union
  <1>2. Cardinality(S \intersect T) = 0
    BY FS_EmptySet
  <1>3. Cardinality(S) \in Nat /\ Cardinality(T) \in Nat
    BY FS_CardinalityType
  <1>4. QED
    BY <1>1, <1>2, <1>3

\* Five sets without a common element count what their union does.
LEMMA FiveParts ==
  ASSUME NEW A, NEW B, NEW C, NEW D, NEW E,
         IsFiniteSet(A), IsFiniteSet(B), IsFiniteSet(C), IsFiniteSet(D), IsFiniteSet(E),
         A \intersect B = {}, (A \union B) \intersect C = {}, (A \union B \union C) \intersect D = {},
         (A \union B \union C \union D) \intersect E = {}
  PROVE  Cardinality(A) + Cardinality(B) + Cardinality(C) + Cardinality(D) + Cardinality(E)
           = Cardinality(A \union B \union C \union D \union E)
  <1> DEFINE AB == A \union B
             ABC == AB \union C
             ABCD == ABC \union D
  <1>1. AB \intersect C = {} /\ ABC \intersect D = {} /\ ABCD \intersect E = {}
    OBVIOUS
  <1>2. IsFiniteSet(AB) /\ Cardinality(AB) = Cardinality(A) + Cardinality(B)
    BY TwoParts
  <1> HIDE DEF AB
  <1>3. IsFiniteSet(ABC) /\ Cardinality(ABC) = Cardinality(AB) + Cardinality(C)
    BY <1>1, <1>2, TwoParts
  <1> HIDE DEF ABC
  <1>4. IsFiniteSet(ABCD) /\ Cardinality(ABCD) = Cardinality(ABC) + Cardinality(D)
    BY <1>1, <1>3, TwoParts
  <1> HIDE DEF ABCD
  <1>5. Cardinality(ABCD \union E) = Cardinality(ABCD) + Cardinality(E)
    BY <1>1, <1>4, TwoParts
  <1>6. QED
    BY <1>2, <1>3, <1>4, <1>5 DEF AB, ABC, ABCD

\* diagnostic_evaluator.py: the verdicts on the events and the matrix of the
\* reports fit each other.
LEMMA VerdictsFit ==
  ASSUME NEW reports, Reported(reports), reports # <<>>,
         NEW events, \A i \in DOMAIN events : IsEvent(events[i])
  PROVE  LET d == EvaluateDiagnosis(reports, events)
         IN /\ d.matrix.tp > 0 <=> \E i \in DOMAIN events : d.verdicts[i].status = "DETECTED_MATCH"
            /\ \A i \in DOMAIN events : d.verdicts[i].status = "MISSED_EVENT" =>
                 \A r \in ToSet(reports) :
                   r.state \in Active => r.at >= events[i].start /\ ~Within(events[i], r.at)
            /\ d.matrix.tp + d.matrix.fp + d.matrix.tn + d.matrix.fn + d.matrix.unknown = d.reports
  <1> DEFINE n == Len(reports)
             cell(c) == {i \in DOMAIN reports : SampleVerdict(reports[i], events) = c}
             d == EvaluateDiagnosis(reports, events)
             verdict(i) == Verdict(reports, events[i])
  <1>1. /\ d.matrix.tp = Cardinality(cell("tp")) /\ d.matrix.fp = Cardinality(cell("fp"))
        /\ d.matrix.tn = Cardinality(cell("tn")) /\ d.matrix.fn = Cardinality(cell("fn"))
        /\ d.matrix.unknown = Cardinality(cell("unknown"))
    <2>1. d.matrix = [c \in Cells |-> Cardinality(cell(c))]
      BY DEF EvaluateDiagnosis
    <2> HIDE DEF d, cell
    <2>2. QED
      BY <2>1 DEF Cells
  <1>2. d.reports = n /\ \A i \in DOMAIN events : d.verdicts[i] = verdict(i)
    BY DEF EvaluateDiagnosis
  <1>3. n \in Nat /\ DOMAIN reports = 1..n /\ IsFiniteSet(1..n) /\ Cardinality(1..n) = n
    BY FS_Interval DEF Reported
  <1>4. \A c : IsFiniteSet(cell(c))
    <2>1. \A c : cell(c) \in SUBSET (1..n)
      BY <1>3
    <2> HIDE DEF cell
    <2>2. QED
      BY <1>3, <2>1, FS_Subset
  <1>5. \A i \in 1..n : reports[i] # Missing /\ reports[i].at \in Int
    BY <1>3 DEF Reported, IsReport
  <1>6. ASSUME NEW i \in DOMAIN events
        PROVE  verdict(i).status = "DETECTED_MATCH" <=>
                 \E k \in 1..n : /\ reports[k].state \in Active /\ Within(events[i], reports[k].at)
                                /\ Expected(events[i], reports[k])
    <2> DEFINE e == events[i]
               r == Detection(reports, e)
               inside == InWindow(reports, e)
               early == Early(reports, e)
    <2>1. IsEvent(e) /\ e.start \in Nat
      BY DEF IsEvent
    <2>2. /\ r = Missing <=> inside = {} /\ early = {}
          /\ inside # {} =>
               \E k \in inside : /\ r = reports[k]
                                 /\ Expected(e, r) <=> \E m \in inside : Expected(e, reports[m])
          /\ inside = {} /\ early # {} => \E k \in early : r = reports[k]
      BY <2>1, DetectionIs
    <2>3. \A k : k \in inside <=> k \in 1..n /\ reports[k].state \in Active /\ Within(e, reports[k].at)
      BY <1>3 DEF InWindow
    <2>4. \A k \in early : k \in 1..n /\ reports[k].at < e.start
      BY <1>3 DEF Early
    <2>5. \A k \in inside : ~(reports[k].at < e.start)
      BY <1>5, <2>1, <2>3 DEF Within
    <2>6. verdict(i).status = IF r = Missing THEN "MISSED_EVENT"
                              ELSE IF r.at < e.start THEN "DETECTED_EARLY"
                              ELSE IF ~Expected(e, r) THEN "DETECTED_WRONG_HYPOTHESIS"
                              ELSE "DETECTED_MATCH"
      BY DEF Verdict
    <2> HIDE DEF e, r, inside, early, verdict
    <2>7. CASE inside # {}
      <3>1. PICK k \in inside : /\ r = reports[k]
                                /\ Expected(e, r) <=> \E m \in inside : Expected(e, reports[m])
        BY <2>2, <2>7
      <3>2. r # Missing /\ ~(r.at < e.start)
        BY <2>2, <2>5, <2>7, <3>1
      <3>3. verdict(i).status = "DETECTED_MATCH" <=> Expected(e, r)
        BY <2>6, <3>2
      <3>4. QED
        BY <2>3, <3>1, <3>3 DEF e
    <2>8. CASE inside = {}
      <3>1. r = Missing \/ r.at < e.start
        BY <2>2, <2>4, <2>8
      <3>2. verdict(i).status # "DETECTED_MATCH"
        BY <2>6, <3>1
      <3>3. QED
        BY <2>3, <2>8, <3>2 DEF e
    <2>9. QED
      BY <2>7, <2>8
  <1>7. ASSUME NEW i \in DOMAIN events, verdict(i).status = "MISSED_EVENT"
        PROVE  \A r \in ToSet(reports) :
                 r.state \in Active => r.at >= events[i].start /\ ~Within(events[i], r.at)
    <2> DEFINE e == events[i]
    <2>1. IsEvent(e) /\ e.start \in Nat
      BY DEF IsEvent
    <2>2. Detection(reports, e) = Missing
      BY <1>7 DEF Verdict
    <2>3. InWindow(reports, e) = {} /\ Early(reports, e) = {}
      BY <2>1, <2>2, DetectionIs
    <2>4. ASSUME NEW k \in 1..n, reports[k].state \in Active
          PROVE  reports[k].at >= e.start /\ ~Within(e, reports[k].at)
      <3>1. ~Within(e, reports[k].at)
        BY <1>3, <2>3, <2>4 DEF InWindow
      <3>2. ~(reports[k].at < e.start)
        BY <1>3, <2>3, <2>4 DEF Early
      <3>3. QED
        BY <1>5, <2>1, <3>1, <3>2
    <2>5. QED
      BY <1>3, <2>4 DEF ToSet
  <1>8. d.matrix.tp > 0 <=> \E i \in DOMAIN events : d.verdicts[i].status = "DETECTED_MATCH"
    <2>1. Cardinality(cell("tp")) > 0 <=> cell("tp") # {}
      BY <1>4, FS_CardinalityType, FS_EmptySet
    <2>2. cell("tp") # {} <=>
            \E k \in 1..n : /\ reports[k].state \in Active
                           /\ \E e \in ToSet(events) : Within(e, reports[k].at) /\ Expected(e, reports[k])
      BY <1>3, TruePositiveIs
    <2>3. ToSet(events) = {events[i] : i \in DOMAIN events}
      BY DEF ToSet
    <2> HIDE DEF d, cell, verdict
    <2>4. QED
      BY <1>1, <1>2, <1>6, <2>1, <2>2, <2>3
  <1>9. d.matrix.tp + d.matrix.fp + d.matrix.tn + d.matrix.fn + d.matrix.unknown = d.reports
    <2>1. cell("tp") \union cell("fp") \union cell("tn") \union cell("fn") \union cell("unknown") = 1..n
      <3>1. \A i \in 1..n : SampleVerdict(reports[i], events) \in {"tp", "fp", "tn", "fn", "unknown"}
        BY TruePositiveIs DEF Cells
      <3>2. QED
        BY <1>3, <3>1
    <2>2. /\ cell("tp") \intersect cell("fp") = {}
          /\ (cell("tp") \union cell("fp")) \intersect cell("tn") = {}
          /\ (cell("tp") \union cell("fp") \union cell("tn")) \intersect cell("fn") = {}
          /\ (cell("tp") \union cell("fp") \union cell("tn") \union cell("fn"))
               \intersect cell("unknown") = {}
      OBVIOUS
    <2> HIDE DEF d, cell
    <2>3. QED
      BY <1>1, <1>2, <1>3, <1>4, <2>1, <2>2, FiveParts
  <1>10. QED
    BY <1>2, <1>7, <1>8, <1>9

\* The last score is that of an examination.
LastIsScored ==
  last.diagnosis # Missing =>
    /\ last.exam \in Exams
    /\ last.diagnosis = EvaluateDiagnosis(last.exam.reports, last.exam.dataset.events)

LEMMA RunnableAreExams == Runnable \subseteq Exams
  BY BenchmarkAssumption DEF Runnable

LEMMA ScoreKept ==
  ASSUME LastIsScored, [Next]_vars
  PROVE  LastIsScored'
  <1>1. ASSUME NEW x \in Runnable, NEW system \in Systems, RunBenchmark(system, x)
        PROVE  LastIsScored'
    <2>1. last' = [exam |-> x, signals |-> SignalReport(x), diagnosis |-> DiagnosisReport(x)]
      BY <1>1 DEF RunBenchmark, RecordResult
    <2>2. last'.exam = x /\ last'.diagnosis = DiagnosisReport(x)
      BY <2>1
    <2>3. DiagnosisReport(x) # Missing =>
            DiagnosisReport(x) = EvaluateDiagnosis(x.reports, x.dataset.events)
      BY DEF DiagnosisReport
    <2>4. x \in Exams
      BY RunnableAreExams
    <2>5. QED
      BY <2>2, <2>3, <2>4 DEF LastIsScored
  <1>2. CASE UNCHANGED last
    BY <1>2 DEF LastIsScored
  <1>3. QED
    BY <1>1, <1>2 DEF Next, RegisterDataset, RunFails, ResetSystem, ResetAll, vars

\* Some report is a true positive exactly when some event was detected as
\* expected, before and during a missed event no fault was reported, and every
\* report is counted once: for any reports and any events.
THEOREM VerdictsAgree == Spec => []VerdictsAgreeWithSamples
  <1>1. Init => LastIsScored
    BY DEF Init, NoScore, LastIsScored
  <1>2. LastIsScored => VerdictsAgreeWithSamples
    <2>1. SUFFICES ASSUME LastIsScored, last.diagnosis # Missing, last.exam.reports # <<>>
                   PROVE  VerdictsAgreeWithSamples
      BY DEF VerdictsAgreeWithSamples
    <2> DEFINE x == last.exam
    <2>2. /\ x \in Exams
          /\ last.diagnosis = EvaluateDiagnosis(x.reports, x.dataset.events)
      BY <2>1 DEF LastIsScored
    <2>3. /\ \A i \in DOMAIN x.dataset.events : IsEvent(x.dataset.events[i])
          /\ x.reports \in Seq({r \in ToSet(x.reports) : IsReport(r)})
      BY <2>2, BenchmarkAssumption
    <2>4. Reported(x.reports)
      <3> DEFINE R == {r \in ToSet(x.reports) : IsReport(r)}
      <3> HIDE DEF x
      <3>1. x.reports \in Seq(R)
        BY <2>3
      <3>2. \A r \in R : IsReport(r)
        OBVIOUS
      <3> HIDE DEF R
      <3>3. QED
        BY <3>1, <3>2 DEF Reported
    <2>5. QED
      BY <2>1, <2>2, <2>3, <2>4, VerdictsFit DEF VerdictsAgreeWithSamples
  <1>3. QED
    BY <1>1, <1>2, ScoreKept, PTL DEF Spec

-----------------------------------------------------------------------------
(* What is kept of the results.                                            *)

Result == [id: Nat, system: Systems, dataset: {x.dataset.id : x \in Exams}, passing: BOOLEAN]

\* A list of results that can be fetched, the oldest first, among rs.
Fetchable(list, rs) ==
  /\ list \in Seq(Result)
  /\ Len(list) <= MaxHistory
  /\ \A i \in 1..Len(list) : list[i].id \in DOMAIN rs /\ rs[list[i].id] = list[i]
  /\ \A i, j \in 1..Len(list) : i < j => list[i].id < list[j].id

\* The last result of a system among all is the last of its own history.
NewestAgree(hs, all) ==
  \A i \in 1..Len(all) :
    (\A j \in i + 1..Len(all) : all[j].system # all[i].system) =>
      LET mine == hs[all[i].system]
      IN all[i].system \in DOMAIN hs /\ mine # <<>> /\ mine[Len(mine)] = all[i]

\* What the histories list at most, and what may be kept until it is pruned.
Bounded(rs) ==
  \/ Cardinality(DOMAIN rs) <= 5 * MaxHistory
  \/ Cardinality(DOMAIN rs) <= MaxHistory * (1 + Cardinality(Systems))

\* What the histories hold, of started benchmarks.
Listed(rs, hs, all, started) ==
  /\ DOMAIN rs \subseteq 1..started
  /\ DOMAIN hs \subseteq Systems
  /\ Fetchable(all, rs)
  /\ \A s \in DOMAIN hs :
       /\ Fetchable(hs[s], rs)
       /\ \A i \in 1..Len(hs[s]) : hs[s][i].system = s
  /\ NewestAgree(hs, all)

StoreInv ==
  /\ announced \in [started: Nat, completed: Nat]
  /\ Listed(results, histories, everything, announced.started)
  /\ Bounded(results)

LEMMA ElementOfSeq ==
  ASSUME NEW S, NEW s \in Seq(S), NEW i \in 1..Len(s)
  PROVE  s[i] \in S
  OBVIOUS

\* m is l with r at its end, and without its first if it would be too long.
Newer(m, l, r) ==
  /\ m \in Seq(Result) /\ Len(m) \in 1..MaxHistory
  /\ \E d \in {0, 1} :
       /\ Len(m) = Len(l) + 1 - d
       /\ \A k \in 1..Len(m) : m[k] = IF k + d = Len(l) + 1 THEN r ELSE l[k + d]

\* A bounded list takes what is appended, and loses its oldest if it is full.
LEMMA KeptIs ==
  ASSUME NEW l \in Seq(Result), Len(l) <= MaxHistory, NEW r \in Result
  PROVE  Newer(Kept(Append(l, r)), l, r)
  <1> DEFINE a == Append(l, r)
             m == Kept(a)
  <1>1. MaxHistory \in Nat \ {0}
    BY BenchmarkAssumption
  <1>2. /\ a \in Seq(Result) /\ Len(a) = Len(l) + 1 /\ Len(l) \in Nat /\ a # <<>>
        /\ \A k \in 1..Len(l) + 1 : a[k] = IF k = Len(l) + 1 THEN r ELSE l[k]
    OBVIOUS
  <1>3. m = IF Len(a) > MaxHistory THEN Tail(a) ELSE a
    BY DEF Kept
  <1> HIDE DEF a, m
  <1>4. CASE Len(a) > MaxHistory
    <2>1. m = Tail(a)
      BY <1>3, <1>4
    <2>2. m \in Seq(Result) /\ Len(m) = Len(a) - 1
      BY <1>2, <2>1
    <2>3. \A k \in 1..Len(m) : m[k] = a[k + 1]
      BY <1>2, <2>1, <2>2
    <2>4. Len(m) = Len(l) + 1 - 1 /\ Len(m) \in 1..MaxHistory
      BY <1>1, <1>2, <1>4, <2>2
    <2>5. \A k \in 1..Len(m) : m[k] = IF k + 1 = Len(l) + 1 THEN r ELSE l[k + 1]
      BY <1>2, <2>3, <2>4
    <2>6. QED
      BY <2>2, <2>4, <2>5 DEF a, m, Newer
  <1>5. CASE ~(Len(a) > MaxHistory)
    <2>1. m = a
      BY <1>3, <1>5
    <2>2. Len(m) = Len(l) + 1 - 0 /\ Len(m) \in 1..MaxHistory
      BY <1>1, <1>2, <1>5, <2>1
    <2>3. \A k \in 1..Len(m) : m[k] = IF k + 0 = Len(l) + 1 THEN r ELSE l[k + 0]
      BY <1>2, <2>1, <2>2
    <2>4. QED
      BY <1>2, <2>1, <2>2, <2>3 DEF a, m, Newer
  <1>6. QED
    BY <1>4, <1>5

\* The last of a list is the result it got, each other one was there.
LEMMA NewerIs ==
  ASSUME NEW l \in Seq(Result), NEW m, NEW r, Newer(m, l, r)
  PROVE  /\ Len(m) \in Nat /\ Len(m) \in 1..Len(m) /\ m # <<>> /\ m[Len(m)] = r
         /\ \A i \in 1..Len(m) : m[i] \in Result
         /\ \A i \in 1..Len(m) : i # Len(m) =>
              \E n \in 1..Len(l) :
                /\ m[i] = l[n]
                /\ \A j \in i + 1..Len(m) : j # Len(m) => \E k \in n + 1..Len(l) : m[j] = l[k]
                /\ \A k \in n + 1..Len(l) : \E j \in i + 1..Len(m) : m[j] = l[k]
  <1>1. Len(l) \in Nat /\ MaxHistory \in Nat
    BY BenchmarkAssumption
  <1>2. m \in Seq(Result) /\ Len(m) \in 1..MaxHistory /\ Len(m) \in Nat
    BY <1>1 DEF Newer
  <1>3. PICK d \in {0, 1} : /\ Len(m) = Len(l) + 1 - d
                            /\ \A k \in 1..Len(m) : m[k] = IF k + d = Len(l) + 1 THEN r ELSE l[k + d]
    BY DEF Newer
  <1>4. Len(m) \in 1..Len(m) /\ m # <<>> /\ Len(m) + d = Len(l) + 1
    BY <1>1, <1>2, <1>3
  <1>5. m[Len(m)] = r
    BY <1>3, <1>4
  <1>6. \A i \in 1..Len(m) : m[i] \in Result
    BY <1>2, ElementOfSeq
  <1>7. ASSUME NEW i \in 1..Len(m), i # Len(m)
        PROVE  \E n \in 1..Len(l) :
                 /\ m[i] = l[n]
                 /\ \A j \in i + 1..Len(m) : j # Len(m) => \E k \in n + 1..Len(l) : m[j] = l[k]
                 /\ \A k \in n + 1..Len(l) : \E j \in i + 1..Len(m) : m[j] = l[k]
    <2>1. \A j \in 1..Len(m) : j # Len(m) => j + d \in 1..Len(l) /\ m[j] = l[j + d]
      <3>1. ASSUME NEW j \in 1..Len(m), j # Len(m)
            PROVE  j + d \in 1..Len(l) /\ j + d # Len(l) + 1
        BY <1>1, <1>2, <1>3, <3>1
      <3>2. QED
        BY <1>3, <3>1
    <2>2. ASSUME NEW j \in i + 1..Len(m), j # Len(m)
          PROVE  j + d \in i + d + 1..Len(l) /\ m[j] = l[j + d]
      <3>1. j \in 1..Len(m) /\ j + d >= i + d + 1
        BY <1>2
      <3>2. QED
        BY <1>1, <2>1, <2>2, <3>1
    <2>3. ASSUME NEW k \in i + d + 1..Len(l)
          PROVE  k - d \in i + 1..Len(m) /\ m[k - d] = l[k]
      <3>1. k - d \in i + 1..Len(m) /\ k - d \in 1..Len(m) /\ k - d # Len(m) /\ (k - d) + d = k
        BY <1>1, <1>2, <1>3
      <3>2. QED
        BY <2>1, <3>1
    <2>4. i + d \in 1..Len(l) /\ m[i] = l[i + d]
      BY <1>7, <2>1
    <2>5. \A j \in i + 1..Len(m) : j # Len(m) => \E k \in i + d + 1..Len(l) : m[j] = l[k]
      BY <2>2
    <2>6. \A k \in i + d + 1..Len(l) : \E j \in i + 1..Len(m) : m[j] = l[k]
      BY <2>3
    <2>7. QED
      BY <2>4, <2>5, <2>6
  <1>8. QED
    BY <1>2, <1>4, <1>5, <1>6, <1>7

\* A list can still be fetched when there are more results, and when only
\* results it does not list are dropped.
LEMMA FetchableStays ==
  ASSUME NEW l, NEW rs, Fetchable(l, rs), NEW other,
         \A i \in 1..Len(l) : l[i].id \in DOMAIN other /\ other[l[i].id] = rs[l[i].id]
  PROVE  Fetchable(l, other)
  BY DEF Fetchable

\* A list with the newest result.
LEMMA FetchableAppended ==
  ASSUME NEW l, NEW rs, Fetchable(l, rs), NEW started \in Nat, DOMAIN rs \subseteq 1..started,
         NEW r \in Result, r.id = started + 1, NEW m, Newer(m, l, r)
  PROVE  Fetchable(m, WithResult(rs, r))
  <1> DEFINE more == WithResult(rs, r)
  <1>1. /\ l \in Seq(Result) /\ Len(l) <= MaxHistory /\ Len(l) \in Nat
        /\ \A i \in 1..Len(l) : l[i].id \in DOMAIN rs /\ rs[l[i].id] = l[i]
        /\ \A i, j \in 1..Len(l) : i < j => l[i].id < l[j].id
    BY DEF Fetchable
  <1>2. /\ Len(m) \in Nat /\ Len(m) \in 1..Len(m) /\ m[Len(m)] = r
        /\ \A i \in 1..Len(m) : i # Len(m) =>
             \E n \in 1..Len(l) :
               /\ m[i] = l[n]
               /\ \A j \in i + 1..Len(m) : j # Len(m) => \E k \in n + 1..Len(l) : m[j] = l[k]
    <2>1. l \in Seq(Result) /\ Newer(m, l, r)
      BY <1>1
    <2>2. Len(m) \in Nat /\ Len(m) \in 1..Len(m) /\ m[Len(m)] = r
      BY ONLY <2>1, NewerIs
    <2>3. ASSUME NEW i \in 1..Len(m), i # Len(m)
          PROVE  \E n \in 1..Len(l) :
                   /\ m[i] = l[n]
                   /\ \A j \in i + 1..Len(m) : j # Len(m) => \E k \in n + 1..Len(l) : m[j] = l[k]
      BY ONLY <2>1, <2>3, NewerIs
    <2>4. QED
      BY <2>2, <2>3
  <1>3. r.id \notin DOMAIN rs
    OBVIOUS
  <1>4. more[r.id] = r /\ DOMAIN more = DOMAIN rs \union {r.id} /\ \A k \in DOMAIN rs : more[k] = rs[k]
    BY <1>3 DEF WithResult
  <1> HIDE DEF more
  <1>5. ASSUME NEW i \in 1..Len(m)
        PROVE  m[i].id \in DOMAIN more /\ more[m[i].id] = m[i]
    <2>1. CASE i = Len(m)
      BY <1>2, <1>4, <2>1
    <2>2. CASE i # Len(m)
      <3>1. PICK n \in 1..Len(l) : m[i] = l[n]
        BY <1>2, <2>2
      <3>2. l[n].id \in DOMAIN rs /\ rs[l[n].id] = l[n]
        BY <1>1
      <3>3. QED
        BY <1>4, <3>1, <3>2
    <2>3. QED
      BY <2>1, <2>2
  <1>6. ASSUME NEW i \in 1..Len(m), NEW j \in 1..Len(m), i < j
        PROVE  m[i].id < m[j].id
    <2>1. i # Len(m) /\ j \in i + 1..Len(m)
      BY <1>2, <1>6
    <2>2. PICK n \in 1..Len(l) :
            /\ m[i] = l[n]
            /\ \A h \in i + 1..Len(m) : h # Len(m) => \E k \in n + 1..Len(l) : m[h] = l[k]
      BY <1>2, <2>1
    <2>3. l[n].id \in 1..started
      BY <1>1
    <2>4. CASE j = Len(m)
      BY <1>2, <2>2, <2>3, <2>4
    <2>5. CASE j # Len(m)
      <3>1. PICK k \in n + 1..Len(l) : m[j] = l[k]
        BY <2>1, <2>2, <2>5
      <3>2. k \in 1..Len(l) /\ n < k
        BY <1>1
      <3>3. QED
        BY <1>1, <2>2, <3>1, <3>2
    <2>6. QED
      BY <2>4, <2>5
  <1>7. m \in Seq(Result) /\ Len(m) <= MaxHistory
    BY BenchmarkAssumption DEF Newer
  <1>8. QED
    BY <1>5, <1>6, <1>7 DEF Fetchable, more

\* The histories with another one for a system.
Replaced(others, hs, system, own) ==
  /\ DOMAIN others = DOMAIN hs \union {system} /\ others[system] = own
  /\ \A s \in DOMAIN hs : s # system => others[s] = hs[s]

\* The newest result is the last of its system's history and of all.
LEMMA NewestRecorded ==
  ASSUME NEW hs, NEW all \in Seq(Result), NewestAgree(hs, all), NEW r, NEW m, Newer(m, all, r),
         NEW own, own # <<>>, own[Len(own)] = r, NEW others, Replaced(others, hs, r.system, own)
  PROVE  NewestAgree(others, m)
  <1>1. /\ Len(m) \in Nat /\ Len(m) \in 1..Len(m) /\ m[Len(m)] = r
        /\ \A i \in 1..Len(m) : i # Len(m) =>
             \E n \in 1..Len(all) :
               /\ m[i] = all[n]
               /\ \A k \in n + 1..Len(all) : \E j \in i + 1..Len(m) : m[j] = all[k]
    BY NewerIs
  <1>2. ASSUME NEW i \in 1..Len(m), \A j \in i + 1..Len(m) : m[j].system # m[i].system
        PROVE  LET mine == others[m[i].system]
               IN m[i].system \in DOMAIN others /\ mine # <<>> /\ mine[Len(mine)] = m[i]
    <2>1. CASE i = Len(m)
      <3>1. m[i] = r
        BY <1>1, <2>1
      <3>2. QED
        BY <3>1 DEF Replaced
    <2>2. CASE i # Len(m)
      <3>1. PICK n \in 1..Len(all) :
              /\ m[i] = all[n]
              /\ \A k \in n + 1..Len(all) : \E j \in i + 1..Len(m) : m[j] = all[k]
        BY <1>1, <2>2
      <3>2. Len(m) \in i + 1..Len(m)
        BY <1>1, <2>2
      <3>3. m[i].system # r.system
        BY <1>1, <1>2, <3>2
      <3>4. \A k \in n + 1..Len(all) : all[k].system # all[n].system
        BY <1>2, <3>1
      <3>5. LET mine == hs[all[n].system]
            IN all[n].system \in DOMAIN hs /\ mine # <<>> /\ mine[Len(mine)] = all[n]
        BY <3>4 DEF NewestAgree
      <3>6. m[i].system \in DOMAIN others /\ others[m[i].system] = hs[m[i].system]
        BY <3>1, <3>3, <3>5 DEF Replaced
      <3>7. QED
        BY <3>1, <3>5, <3>6
    <2>3. QED
      BY <2>1, <2>2
  <1>3. QED
    BY <1>2 DEF NewestAgree

-----------------------------------------------------------------------------
(* Picking the elements of a list out by their indices.                    *)

\* The place of i among the indices.
Rank(S, i) == Cardinality({j \in S : j <= i})

LEMMA RankGrows ==
  ASSUME NEW S \in SUBSET Nat, IsFiniteSet(S), NEW i \in S, NEW j \in S, i < j
  PROVE  Rank(S, i) < Rank(S, j)
  <1> DEFINE low == {m \in S : m <= i}
             high == {m \in S : m <= j}
  <1>1. low \in SUBSET S /\ high \in SUBSET S
    OBVIOUS
  <1>2. ASSUME NEW m \in S, m <= i
        PROVE  m <= j
    <2>1. m \in Nat /\ i \in Nat /\ j \in Nat
      OBVIOUS
    <2>2. QED
      BY <1>2, <2>1
  <1>3. low \in SUBSET high
    BY <1>2
  <1>4. j \in high /\ j \notin low
    OBVIOUS
  <1> HIDE DEF low, high
  <1>5. IsFiniteSet(high) /\ IsFiniteSet(low)
    BY <1>1, FS_Subset
  <1>6. /\ Cardinality(low) <= Cardinality(high)
        /\ Cardinality(high) = Cardinality(low) => high = low
    BY <1>3, <1>5, FS_Subset
  <1>7. Cardinality(low) \in Nat /\ Cardinality(high) \in Nat
    BY <1>5, FS_CardinalityType
  <1>8. Cardinality(low) < Cardinality(high)
    BY <1>4, <1>6, <1>7
  <1>9. QED
    BY <1>8 DEF Rank, low, high

\* The ranks of the indices are 1 to their number.
LEMMA RankIsOnto ==
  ASSUME NEW S \in SUBSET Nat, IsFiniteSet(S)
  PROVE  /\ \A i \in S : Rank(S, i) \in 1..Cardinality(S)
         /\ \A k \in 1..Cardinality(S) : \E i \in S : Rank(S, i) = k
  <1> DEFINE n == Cardinality(S)
             f == [i \in S |-> Rank(S, i)]
  <1>1. n \in Nat
    BY FS_CardinalityType
  <1>2. ASSUME NEW i \in S
        PROVE  Rank(S, i) \in 1..n
    <2> DEFINE upTo == {m \in S : m <= i}
    <2>1. upTo \in SUBSET S /\ i \in upTo
      OBVIOUS
    <2> HIDE DEF upTo
    <2>2. IsFiniteSet(upTo) /\ Cardinality(upTo) <= n
      BY <2>1, FS_Subset
    <2>3. Cardinality(upTo) \in Nat /\ Cardinality(upTo) # 0
      BY <2>1, <2>2, FS_CardinalityType, FS_EmptySet
    <2>4. Cardinality(upTo) \in 1..n
      BY <1>1, <2>2, <2>3
    <2>5. QED
      BY <2>4 DEF Rank, upTo
  <1>3. ASSUME NEW i \in S, NEW j \in S, Rank(S, i) = Rank(S, j)
        PROVE  i = j
    <2>1. Rank(S, i) \in Nat /\ i \in Nat /\ j \in Nat
      BY <1>1, <1>2
    <2>2. ~(i < j) /\ ~(j < i)
      BY <1>3, <2>1, RankGrows
    <2>3. QED
      BY <2>1, <2>2
  <1> HIDE DEF n
  <1>4. f \in Injection(S, 1..n)
    BY <1>2, <1>3 DEF Injection, IsInjective
  <1>5. IsFiniteSet(1..n) /\ Cardinality(1..n) = n
    BY <1>1, FS_Interval
  <1>6. f \in Surjection(S, 1..n)
    <2> HIDE DEF f
    <2>1. Cardinality(S) = Cardinality(1..n)
      BY <1>5 DEF n
    <2>2. QED
      BY <1>4, <1>5, <2>1, FS_Injection
  <1>7. \A k \in 1..n : \E i \in S : f[i] = k
    BY <1>6 DEF Surjection
  <1>8. QED
    BY <1>2, <1>7 DEF n

\* m is what s has at the indices, in the same order, and all of it.
PicksOut(m, s, S) ==
  /\ DOMAIN m = 1..Cardinality(S)
  /\ \E at \in [1..Cardinality(S) -> S] :
       /\ m = [k \in 1..Cardinality(S) |-> s[at[k]]]
       /\ \A j, k \in 1..Cardinality(S) : j < k => at[j] < at[k]
       /\ \A k \in 1..Cardinality(S), i \in S :
            at[k] < i => \E j \in 1..Cardinality(S) : k < j /\ at[j] = i

LEMMA PickedInOrder ==
  ASSUME NEW s, NEW S \in SUBSET Nat, IsFiniteSet(S)
  PROVE  Cardinality(S) \in Nat /\ PicksOut(Picked(s, S), s, S)
  <1> DEFINE n == Cardinality(S)
             index(k) == CHOOSE i \in S : Rank(S, i) = k
             at == [k \in 1..n |-> index(k)]
  <1>1. n \in Nat
    BY FS_CardinalityType
  <1>2. ASSUME NEW k \in 1..n
        PROVE  index(k) \in S /\ Rank(S, index(k)) = k
    <2>1. \E i \in S : Rank(S, i) = k
      BY RankIsOnto
    <2>2. QED
      BY <2>1
  <1>3. Picked(s, S) = [k \in 1..n |-> s[index(k)]]
    BY DEF Picked, Rank
  <1> HIDE DEF index, n
  <1>4. at \in [1..n -> S] /\ \A k \in 1..n : at[k] = index(k)
    BY <1>2
  <1>5. Picked(s, S) = [k \in 1..n |-> s[at[k]]]
    BY <1>3
  <1> HIDE DEF at
  <1>6. \A k \in 1..n : at[k] \in S /\ at[k] \in Nat /\ Rank(S, at[k]) = k
    BY <1>2, <1>4
  <1>7. ASSUME NEW j \in 1..n, NEW k \in 1..n, j < k
        PROVE  at[j] < at[k]
    <2>1. at[j] # at[k]
      BY <1>6, <1>7
    <2>2. ~(at[k] < at[j])
      <3>1. ASSUME at[k] < at[j]
            PROVE  FALSE
        <4>1. Rank(S, at[k]) < Rank(S, at[j])
          BY <1>6, <3>1, RankGrows
        <4>2. k < j
          BY <1>6, <4>1
        <4>3. QED
          BY <1>1, <1>7, <4>2
      <3>2. QED
        BY <3>1
    <2>3. QED
      BY <1>6, <2>1, <2>2
  <1>8. ASSUME NEW k \in 1..n, NEW i \in S, at[k] < i
        PROVE  \E j \in 1..n : k < j /\ at[j] = i
    <2>1. Rank(S, i) \in 1..n
      BY RankIsOnto DEF n
    <2>2. Rank(S, at[k]) < Rank(S, i)
      BY <1>6, <1>8, RankGrows
    <2>3. k < Rank(S, i)
      BY <1>6, <2>2
    <2>4. at[Rank(S, i)] = i
      <3> DEFINE h == at[Rank(S, i)]
      <3>1. h \in S /\ h \in Nat /\ i \in Nat /\ Rank(S, h) = Rank(S, i)
        BY <1>6, <2>1
      <3> HIDE DEF h
      <3>2. Rank(S, i) \in Nat
        BY <1>1, <2>1
      <3>3. ~(h < i) /\ ~(i < h)
        BY <3>1, <3>2, RankGrows
      <3>4. h = i
        BY <3>1, <3>3
      <3>5. QED
        BY <3>4 DEF h
    <2>5. QED
      BY <2>1, <2>3, <2>4
  <1>9. DOMAIN Picked(s, S) = 1..n
    BY <1>5
  <1>10. QED
    BY <1>1, <1>4, <1>5, <1>7, <1>8, <1>9 DEF n, PicksOut

-----------------------------------------------------------------------------
(* What pruning leaves.                                                    *)

\* What the histories of the systems list.
OwnIds(hs) == UNION {IdsOf(hs[s]) : s \in DOMAIN hs}

LEMMA IdsOfIs ==
  ASSUME NEW l \in Seq(Result)
  PROVE  IdsOf(l) = {l[i].id : i \in 1..Len(l)}
  <1>1. DOMAIN l = 1..Len(l)
    OBVIOUS
  <1>2. ToSet(l) = {l[i] : i \in 1..Len(l)}
    BY <1>1 DEF ToSet
  <1>3. QED
    BY <1>2 DEF IdsOf

LEMMA IdsAreFew ==
  ASSUME NEW l \in Seq(Result), Len(l) <= MaxHistory
  PROVE  IsFiniteSet(IdsOf(l)) /\ Cardinality(IdsOf(l)) <= MaxHistory
  <1> DEFINE f == [i \in 1..Len(l) |-> l[i].id]
             ids == IdsOf(l)
  <1>1. ids = {l[i].id : i \in 1..Len(l)}
    BY IdsOfIs
  <1> HIDE DEF ids
  <1>2. f \in Surjection(1..Len(l), ids)
    BY <1>1 DEF Surjection
  <1>3. Len(l) \in Nat /\ MaxHistory \in Nat
    BY BenchmarkAssumption
  <1>4. IsFiniteSet(1..Len(l)) /\ Cardinality(1..Len(l)) = Len(l)
    <2> DEFINE n == Len(l)
    <2>1. n \in Nat
      BY <1>3
    <2> HIDE DEF n
    <2>2. IsFiniteSet(1..n) /\ Cardinality(1..n) = n
      BY <2>1, FS_Interval
    <2>3. QED
      BY <2>2 DEF n
  <1> HIDE DEF f
  <1>5. IsFiniteSet(ids) /\ Cardinality(ids) <= Cardinality(1..Len(l))
    BY <1>2, <1>4, FS_Surjection
  <1>6. Cardinality(ids) \in Nat
    BY <1>5, FS_CardinalityType
  <1>7. Cardinality(ids) <= MaxHistory
    BY <1>3, <1>4, <1>5, <1>6
  <1>8. QED
    BY <1>5, <1>7 DEF ids

LEMMA HistoriesListFew ==
  ASSUME NEW hs, DOMAIN hs \subseteq Systems,
         \A s \in DOMAIN hs : hs[s] \in Seq(Result) /\ Len(hs[s]) <= MaxHistory
  PROVE  IsFiniteSet(OwnIds(hs)) /\ Cardinality(OwnIds(hs)) <= Cardinality(Systems) * MaxHistory
  <1> DEFINE P == {p \in Systems \X (1..MaxHistory) : p[1] \in DOMAIN hs /\ p[2] <= Len(hs[p[1]])}
             f == [p \in P |-> hs[p[1]][p[2]].id]
             ids == OwnIds(hs)
             C == Cardinality(Systems)
  <1>1. MaxHistory \in Nat /\ IsFiniteSet(Systems) /\ C \in Nat
    BY BenchmarkAssumption, FS_CardinalityType
  <1>2. IsFiniteSet(1..MaxHistory) /\ Cardinality(1..MaxHistory) = MaxHistory
    BY <1>1, FS_Interval
  <1>3. /\ IsFiniteSet(Systems \X (1..MaxHistory))
        /\ Cardinality(Systems \X (1..MaxHistory)) = C * MaxHistory
    BY <1>1, <1>2, FS_Product
  <1>4. P \in SUBSET (Systems \X (1..MaxHistory))
    OBVIOUS
  <1>5. IsFiniteSet(P) /\ Cardinality(P) <= C * MaxHistory
    <2> HIDE DEF P, C
    <2>1. QED
      BY <1>3, <1>4, FS_Subset
  <1>6. \A id : id \in ids <=> \E s \in DOMAIN hs : \E i \in 1..Len(hs[s]) : id = hs[s][i].id
    <2>1. \A id : id \in ids <=> \E s \in DOMAIN hs : id \in IdsOf(hs[s])
      BY DEF OwnIds
    <2>2. \A s \in DOMAIN hs : IdsOf(hs[s]) = {hs[s][i].id : i \in 1..Len(hs[s])}
      BY IdsOfIs
    <2> HIDE DEF ids
    <2>3. QED
      BY <2>1, <2>2
  <1>7. ASSUME NEW s \in DOMAIN hs, NEW i \in 1..Len(hs[s])
        PROVE  <<s, i>> \in P /\ f[<<s, i>>] = hs[s][i].id
    <2>1. Len(hs[s]) \in Nat /\ Len(hs[s]) <= MaxHistory /\ s \in Systems
      OBVIOUS
    <2>2. i \in 1..MaxHistory /\ i <= Len(hs[s])
      BY <1>1, <2>1
    <2>3. <<s, i>> \in P
      BY <2>1, <2>2
    <2> HIDE DEF P
    <2>4. QED
      BY <2>3
  <1>8. ASSUME NEW p \in P
        PROVE  f[p] \in ids
    <2>1. p[1] \in DOMAIN hs /\ p[2] \in 1..MaxHistory /\ p[2] <= Len(hs[p[1]])
      OBVIOUS
    <2>2. Len(hs[p[1]]) \in Nat
      BY <2>1
    <2>3. p[2] \in 1..Len(hs[p[1]])
      BY <1>1, <2>1, <2>2
    <2>4. f[p] = hs[p[1]][p[2]].id
      OBVIOUS
    <2> HIDE DEF f, ids, P
    <2>5. QED
      BY <1>6, <2>1, <2>3, <2>4
  <1>9. f \in Surjection(P, ids)
    <2>1. DOMAIN f = P /\ f = [p \in P |-> f[p]]
      OBVIOUS
    <2> HIDE DEF f, P, ids
    <2>2. f \in [P -> ids]
      BY <1>8, <2>1
    <2>3. ASSUME NEW id \in ids
          PROVE  \E p \in P : f[p] = id
      <3>1. PICK s \in DOMAIN hs : \E i \in 1..Len(hs[s]) : id = hs[s][i].id
        BY <1>6
      <3>2. PICK i \in 1..Len(hs[s]) : id = hs[s][i].id
        BY <3>1
      <3>3. <<s, i>> \in P /\ f[<<s, i>>] = id
        BY <1>7, <3>2
      <3>4. QED
        BY <3>3
    <2>4. QED
      BY <2>2, <2>3 DEF Surjection
  <1> HIDE DEF f, P, ids
  <1>10. IsFiniteSet(ids) /\ Cardinality(ids) <= Cardinality(P)
    BY <1>5, <1>9, FS_Surjection
  <1>11. Cardinality(ids) \in Nat /\ Cardinality(P) \in Nat /\ C * MaxHistory \in Nat
    BY <1>1, <1>5, <1>10, FS_CardinalityType
  <1>12. Cardinality(ids) <= C * MaxHistory
    BY <1>5, <1>10, <1>11
  <1>13. QED
    BY <1>10, <1>12 DEF ids, C

\* Pruning drops nothing that is listed, and leaves a bounded number.
LEMMA PrunedIs ==
  ASSUME NEW rs, IsFiniteSet(DOMAIN rs), NEW hs, DOMAIN hs \subseteq Systems,
         \A s \in DOMAIN hs : hs[s] \in Seq(Result) /\ Len(hs[s]) <= MaxHistory,
         NEW all \in Seq(Result), Len(all) <= MaxHistory
  PROVE  LET left == Pruned(rs, hs, all)
         IN /\ DOMAIN left \subseteq DOMAIN rs
            /\ \A id \in DOMAIN left : left[id] = rs[id]
            /\ DOMAIN rs \intersect (IdsOf(all) \union OwnIds(hs)) \subseteq DOMAIN left
            /\ Bounded(left)
  <1> DEFINE left == Pruned(rs, hs, all)
             ids == IdsOf(all) \union OwnIds(hs)
             kept == DOMAIN rs \intersect ids
             C == Cardinality(Systems)
  <1>1. /\ MaxHistory \in Nat /\ IsFiniteSet(Systems) /\ C \in Nat
        /\ Cardinality(DOMAIN rs) \in Nat
    BY BenchmarkAssumption, FS_CardinalityType
  <1>2. left = IF Cardinality(DOMAIN rs) > 5 * MaxHistory THEN [id \in kept |-> rs[id]] ELSE rs
    BY DEF Pruned, Restrict, OwnIds
  <1>3. CASE ~(Cardinality(DOMAIN rs) > 5 * MaxHistory)
    <2>1. left = rs
      BY <1>2, <1>3
    <2>2. Cardinality(DOMAIN rs) <= 5 * MaxHistory
      BY <1>1, <1>3
    <2> HIDE DEF left
    <2>3. Bounded(left)
      BY <2>1, <2>2 DEF Bounded
    <2>4. QED
      BY <2>1, <2>3 DEF left
  <1>4. CASE Cardinality(DOMAIN rs) > 5 * MaxHistory
    <2>1. left = [id \in kept |-> rs[id]]
      BY <1>2, <1>4
    <2> HIDE DEF left
    <2>2. DOMAIN left = kept /\ \A id \in kept : left[id] = rs[id]
      BY <2>1
    <2>3. /\ IsFiniteSet(IdsOf(all)) /\ Cardinality(IdsOf(all)) <= MaxHistory
          /\ IsFiniteSet(OwnIds(hs)) /\ Cardinality(OwnIds(hs)) <= C * MaxHistory
      BY IdsAreFew, HistoriesListFew
    <2>4. IsFiniteSet(ids) /\ Cardinality(ids) <= Cardinality(IdsOf(all)) + Cardinality(OwnIds(hs))
      <3> DEFINE both == IdsOf(all) \intersect OwnIds(hs)
      <3>1. /\ IsFiniteSet(ids)
            /\ Cardinality(ids) = Cardinality(IdsOf(all)) + Cardinality(OwnIds(hs)) - Cardinality(both)
        BY <2>3, FS_Union
      <3>2. IsFiniteSet(both)
        BY <2>3, FS_Intersection
      <3>3. /\ Cardinality(both) \in Nat /\ Cardinality(IdsOf(all)) \in Nat
            /\ Cardinality(OwnIds(hs)) \in Nat
        BY <2>3, <3>2, FS_CardinalityType
      <3> HIDE DEF both, ids
      <3>4. QED
        BY <3>1, <3>3
    <2>5. kept \in SUBSET ids
      OBVIOUS
    <2> HIDE DEF kept, ids
    <2>6. IsFiniteSet(kept) /\ Cardinality(kept) <= Cardinality(ids)
      BY <2>4, <2>5, FS_Subset
    <2>7. /\ Cardinality(kept) \in Nat /\ Cardinality(ids) \in Nat
          /\ Cardinality(IdsOf(all)) \in Nat /\ Cardinality(OwnIds(hs)) \in Nat
      BY <2>3, <2>4, <2>6, FS_CardinalityType
    <2>8. C * MaxHistory \in Nat /\ MaxHistory + C * MaxHistory = MaxHistory * (1 + C)
      BY <1>1
    <2>9. Cardinality(kept) <= MaxHistory * (1 + C)
      <3>1. Cardinality(kept) <= MaxHistory + C * MaxHistory
        <4> DEFINE k == C * MaxHistory
        <4>1. Cardinality(OwnIds(hs)) <= k /\ k \in Nat
          BY <2>3, <2>8
        <4> HIDE DEF k
        <4>2. Cardinality(kept) <= MaxHistory + k
          BY <1>1, <2>3, <2>4, <2>6, <2>7, <4>1
        <4>3. QED
          BY <4>2 DEF k
      <3>2. QED
        BY <2>8, <3>1
    <2>10. Bounded(left)
      BY <2>2, <2>9 DEF Bounded
    <2>11. QED
      BY <2>2, <2>10 DEF left, kept, ids
  <1>5. QED
    BY <1>3, <1>4

-----------------------------------------------------------------------------
(* The steps of the service.                                               *)

LEMMA EmptyIsFetchable ==
  ASSUME NEW rs
  PROVE  Fetchable(<<>>, rs)
  <1>1. /\ <<>> \in Seq(Result) /\ Len(<<>>) = 0 /\ 0 <= MaxHistory
        /\ \A i : ~(i \in 1..0)
    BY BenchmarkAssumption
  <1>2. QED
    BY <1>1 DEF Fetchable

\* What is listed stays so when what is dropped is not listed.
LEMMA ListedStays ==
  ASSUME NEW rs, NEW hs, NEW all, NEW started, Listed(rs, hs, all, started), NEW left,
         DOMAIN left \subseteq DOMAIN rs, \A id \in DOMAIN left : left[id] = rs[id],
         DOMAIN rs \intersect (IdsOf(all) \union OwnIds(hs)) \subseteq DOMAIN left
  PROVE  Listed(left, hs, all, started)
  <1>1. ASSUME NEW l, Fetchable(l, rs), IdsOf(l) \subseteq IdsOf(all) \union OwnIds(hs)
        PROVE  Fetchable(l, left)
    <2>1. IdsOf(l) = {l[i].id : i \in 1..Len(l)}
      BY <1>1, IdsOfIs DEF Fetchable
    <2>2. \A i \in 1..Len(l) : l[i].id \in DOMAIN rs
      BY <1>1 DEF Fetchable
    <2>3. \A i \in 1..Len(l) : l[i].id \in DOMAIN left
      BY <1>1, <2>1, <2>2
    <2>4. QED
      BY <1>1, <2>3, FetchableStays
  <1>2. Fetchable(all, left)
    BY <1>1 DEF Listed
  <1>3. ASSUME NEW s \in DOMAIN hs
        PROVE  Fetchable(hs[s], left)
    <2>1. IdsOf(hs[s]) \subseteq OwnIds(hs)
      BY DEF OwnIds
    <2>2. QED
      BY <1>1, <2>1 DEF Listed
  <1>4. QED
    BY <1>2, <1>3 DEF Listed

\* BenchmarkService.run_benchmark: a result more, and pruned if there are many.
LEMMA RecordKeeps ==
  ASSUME StoreInv, NEW system \in Systems, NEW x \in Exams, NEW signals, NEW diagnosis,
         RecordResult(system, x, signals, diagnosis)
  PROVE  StoreInv'
  <1> DEFINE started == announced.started
             r == [id |-> started + 1, system |-> system,
                   dataset |-> x.dataset.id, passing |-> IsPassing(x, signals, diagnosis)]
             h == HistoryOf(histories, system)
             own == Kept(Append(h, r))
             m == Kept(Append(everything, r))
             hs == [s \in DOMAIN histories \union {system} |-> IF s = system THEN own ELSE histories[s]]
             more == WithResult(results, r)
             left == Pruned(more, hs, m)
  <1>1. /\ histories' = hs /\ everything' = m /\ results' = left
        /\ announced' = [started |-> started + 1, completed |-> announced.completed + 1]
    BY DEF RecordResult
  <1>2. /\ announced \in [started: Nat, completed: Nat] /\ started \in Nat
        /\ Listed(results, histories, everything, started)
    BY DEF StoreInv
  <1>3. r \in Result /\ r.id = started + 1 /\ r.system = system
    <2>1. IsPassing(x, signals, diagnosis) \in BOOLEAN
      BY DEF IsPassing
    <2>2. QED
      BY <1>2, <2>1 DEF Result
  <1>4. announced' \in [started: Nat, completed: Nat] /\ announced'.started = started + 1
    BY <1>1, <1>2
  <1> HIDE DEF r, started
  <1>5. /\ Fetchable(everything, results) /\ everything \in Seq(Result) /\ Len(everything) <= MaxHistory
        /\ DOMAIN results \subseteq 1..started /\ NewestAgree(histories, everything)
        /\ DOMAIN histories \subseteq Systems
    BY <1>2 DEF Listed, Fetchable
  <1>6. \A s \in DOMAIN histories :
          Fetchable(histories[s], results) /\ \A i \in 1..Len(histories[s]) : histories[s][i].system = s
    BY <1>2 DEF Listed
  <1>7. /\ Fetchable(h, results) /\ h \in Seq(Result) /\ Len(h) <= MaxHistory
        /\ \A i \in 1..Len(h) : h[i].system = system
    <2>1. CASE system \in DOMAIN histories
      BY <1>6, <2>1 DEF HistoryOf, Fetchable
    <2>2. CASE system \notin DOMAIN histories
      <3>1. h = <<>>
        BY <2>2 DEF HistoryOf
      <3>2. Fetchable(<<>>, results) /\ \A i \in 1..Len(<<>>) : <<>>[i].system = system
        BY EmptyIsFetchable
      <3>3. QED
        BY <3>1, <3>2 DEF Fetchable
    <2>3. QED
      BY <2>1, <2>2
  <1> HIDE DEF h
  <1>8. Newer(own, h, r) /\ Newer(m, everything, r)
    BY <1>3, <1>5, <1>7, KeptIs
  <1> HIDE DEF own, m
  <1>9. Fetchable(own, more) /\ Fetchable(m, more)
    BY <1>2, <1>3, <1>5, <1>7, <1>8, FetchableAppended
  <1>10. /\ DOMAIN more = DOMAIN results \union {started + 1}
         /\ \A id \in DOMAIN results : more[id] = results[id]
    <2>1. started + 1 \notin DOMAIN results
      BY <1>2, <1>5
    <2>2. QED
      BY <1>3, <2>1 DEF WithResult
  <1> HIDE DEF more
  <1>11. \A s \in DOMAIN histories : Fetchable(histories[s], more)
    <2>1. ASSUME NEW s \in DOMAIN histories
          PROVE  Fetchable(histories[s], more)
      <3> DEFINE l == histories[s]
      <3>1. Fetchable(l, results)
        BY <1>6
      <3> HIDE DEF l
      <3>2. \A i \in 1..Len(l) : l[i].id \in DOMAIN results
        BY <3>1 DEF Fetchable
      <3>3. Fetchable(l, more)
        BY <1>10, <3>1, <3>2, FetchableStays
      <3>4. QED
        BY <3>3 DEF l
    <2>2. QED
      BY <2>1
  <1>12. own # <<>> /\ own[Len(own)] = r /\ \A i \in 1..Len(own) : own[i].system = system
    <2>1. /\ own # <<>> /\ own[Len(own)] = r
          /\ \A i \in 1..Len(own) : i # Len(own) => \E n \in 1..Len(h) : own[i] = h[n]
      <3>1. own # <<>> /\ own[Len(own)] = r
        BY <1>7, <1>8, NewerIs
      <3>2. ASSUME NEW i \in 1..Len(own), i # Len(own)
            PROVE  \E n \in 1..Len(h) : own[i] = h[n]
        BY <1>7, <1>8, <3>2, NewerIs
      <3>3. QED
        BY <3>1, <3>2
    <2>2. QED
      BY <1>3, <1>7, <2>1
  <1>13. \A s \in DOMAIN hs :
           Fetchable(hs[s], more) /\ \A i \in 1..Len(hs[s]) : hs[s][i].system = s
    <2>1. ASSUME NEW s \in DOMAIN hs
          PROVE  Fetchable(hs[s], more) /\ \A i \in 1..Len(hs[s]) : hs[s][i].system = s
      <3>1. CASE s = system
        <4>1. hs[s] = own
          BY <3>1
        <4> HIDE DEF hs
        <4>2. QED
          BY <1>9, <1>12, <3>1, <4>1
      <3>2. CASE s # system
        <4>1. s \in DOMAIN histories /\ hs[s] = histories[s]
          BY <3>2
        <4> HIDE DEF hs
        <4>2. QED
          BY <1>6, <1>11, <4>1
      <3>3. QED
        BY <3>1, <3>2
    <2>2. QED
      BY <2>1
  <1>14. NewestAgree(hs, m)
    <2>1. Replaced(hs, histories, system, own)
      BY DEF Replaced
    <2> HIDE DEF hs
    <2>2. Replaced(hs, histories, r.system, own)
      BY <1>3, <2>1
    <2>3. everything \in Seq(Result) /\ NewestAgree(histories, everything) /\ Newer(m, everything, r)
      BY <1>5, <1>8
    <2>4. own # <<>> /\ own[Len(own)] = r
      BY <1>12
    <2>5. QED
      BY ONLY <2>2, <2>3, <2>4, NewestRecorded
  <1>15. DOMAIN hs \subseteq Systems
    BY <1>5
  <1>16. DOMAIN more \subseteq 1..started + 1
    BY <1>2, <1>5, <1>10
  <1> HIDE DEF hs
  <1>17. Listed(more, hs, m, started + 1)
    BY <1>9, <1>13, <1>14, <1>15, <1>16 DEF Listed
  <1>18. IsFiniteSet(DOMAIN more)
    <2>1. IsFiniteSet(1..started + 1)
      BY <1>2, FS_Interval
    <2>2. QED
      BY <1>16, <2>1, FS_Subset
  <1>19. /\ \A s \in DOMAIN hs : hs[s] \in Seq(Result) /\ Len(hs[s]) <= MaxHistory
         /\ m \in Seq(Result) /\ Len(m) <= MaxHistory
    BY <1>9, <1>13 DEF Fetchable
  <1>20. /\ DOMAIN left \subseteq DOMAIN more /\ \A id \in DOMAIN left : left[id] = more[id]
         /\ DOMAIN more \intersect (IdsOf(m) \union OwnIds(hs)) \subseteq DOMAIN left
         /\ Bounded(left)
    BY <1>15, <1>18, <1>19, PrunedIs
  <1> HIDE DEF left
  <1>21. Listed(left, hs, m, started + 1)
    BY <1>17, <1>20, ListedStays
  <1>22. QED
    BY <1>1, <1>4, <1>20, <1>21 DEF StoreInv

\* What a list has of other systems is left.
OthersLeft(l, rs, system, left) ==
  \A i \in 1..Len(l) : l[i].system # system =>
    l[i].id \in DOMAIN left /\ left[l[i].id] = rs[l[i].id]

\* A list without the results of a system keeps its order.
\* The indices of the results of the other systems.
OthersIn(l, system) == {i \in DOMAIN l : l[i].system # system}

LEMMA FetchableFiltered ==
  ASSUME NEW l, NEW rs, Fetchable(l, rs), NEW system, NEW left, OthersLeft(l, rs, system, left)
  PROVE  Fetchable(Picked(l, OthersIn(l, system)), left)
  <1> DEFINE S == OthersIn(l, system)
             m == Picked(l, S)
             n == Cardinality(S)
  <1>1. /\ l \in Seq(Result) /\ Len(l) \in Nat /\ Len(l) <= MaxHistory /\ DOMAIN l = 1..Len(l)
        /\ \A i \in 1..Len(l) : l[i].id \in DOMAIN rs /\ rs[l[i].id] = l[i]
        /\ \A i, j \in 1..Len(l) : i < j => l[i].id < l[j].id
    BY DEF Fetchable
  <1>2. S \in SUBSET (1..Len(l)) /\ \A i \in S : l[i].system # system
    BY <1>1 DEF OthersIn
  <1> HIDE DEF S
  <1>3. IsFiniteSet(S) /\ n <= Len(l) /\ S \in SUBSET Nat
    <2> DEFINE k == Len(l)
    <2>1. k \in Nat /\ S \in SUBSET (1..k)
      BY <1>1, <1>2
    <2> HIDE DEF k
    <2>2. IsFiniteSet(1..k) /\ Cardinality(1..k) = k
      BY <2>1, FS_Interval
    <2>3. IsFiniteSet(S) /\ n <= k
      BY <2>1, <2>2, FS_Subset
    <2>4. QED
      BY <2>1, <2>3 DEF k
  <1>4. n \in Nat /\ PicksOut(m, l, S)
    BY <1>3, PickedInOrder
  <1> HIDE DEF m
  <1>5. PICK at \in [1..n -> S] :
          /\ m = [k \in 1..n |-> l[at[k]]]
          /\ \A j, k \in 1..n : j < k => at[j] < at[k]
          /\ \A k \in 1..n, i \in S : at[k] < i => \E j \in 1..n : k < j /\ at[j] = i
    BY <1>4 DEF PicksOut
  <1> HIDE DEF n
  <1>6. m \in Seq(Result) /\ Len(m) = n
    <2>1. \A k \in 1..n : l[at[k]] \in Result
      BY <1>1, <1>2, <1>5, ElementOfSeq
    <2>2. m \in [1..n -> Result]
      BY <1>5, <2>1
    <2> HIDE DEF n
    <2>3. QED
      BY <1>4, <2>2
  <1>7. \A k \in 1..n : at[k] \in 1..Len(l) /\ m[k] = l[at[k]] /\ l[at[k]].system # system
    BY <1>2, <1>5
  <1>8. \A k \in 1..n : m[k].id \in DOMAIN left /\ left[m[k].id] = m[k]
    BY <1>1, <1>7 DEF OthersLeft
  <1>9. \A j, k \in 1..n : j < k => m[j].id < m[k].id
    BY <1>1, <1>5, <1>7
  <1>10. Len(m) <= MaxHistory
    BY <1>1, <1>3, <1>4, <1>6, BenchmarkAssumption
  <1>11. QED
    BY <1>6, <1>8, <1>9, <1>10 DEF Fetchable, m, S

\* The newest of another system remains the newest of its system.
LEMMA NewestFiltered ==
  ASSUME NEW hs, NEW all \in Seq(Result), NewestAgree(hs, all), NEW system, NEW others,
         DOMAIN others = DOMAIN hs \ {system}, \A s \in DOMAIN others : others[s] = hs[s]
  PROVE  NewestAgree(others, Picked(all, OthersIn(all, system)))
  <1> DEFINE S == OthersIn(all, system)
             m == Picked(all, S)
             n == Cardinality(S)
  <1>1. Len(all) \in Nat /\ S \in SUBSET (1..Len(all)) /\ \A i \in 1..Len(all) : i \in S <=> all[i].system # system
    BY DEF OthersIn
  <1> HIDE DEF S
  <1>2. IsFiniteSet(S) /\ S \in SUBSET Nat
    <2> DEFINE k == Len(all)
    <2>1. k \in Nat /\ S \in SUBSET (1..k)
      BY <1>1
    <2> HIDE DEF k
    <2>2. IsFiniteSet(1..k)
      BY <2>1, FS_Interval
    <2>3. S \in SUBSET Nat
      BY <2>1
    <2>4. QED
      BY <2>1, <2>2, <2>3, FS_Subset
  <1>3. n \in Nat /\ PicksOut(m, all, S)
    BY <1>2, PickedInOrder
  <1> HIDE DEF m
  <1>4. PICK at \in [1..n -> S] :
          /\ m = [k \in 1..n |-> all[at[k]]]
          /\ \A j, k \in 1..n : j < k => at[j] < at[k]
          /\ \A k \in 1..n, i \in S : at[k] < i => \E j \in 1..n : k < j /\ at[j] = i
    BY <1>3 DEF PicksOut
  <1> HIDE DEF n
  <1>5. Len(m) = n
    BY <1>3, <1>4
  <1>6. \A k \in 1..n : at[k] \in S /\ at[k] \in 1..Len(all) /\ m[k] = all[at[k]]
    BY <1>1, <1>4
  <1>7. ASSUME NEW k \in 1..n, \A j \in k + 1..n : m[j].system # m[k].system
        PROVE  LET mine == others[m[k].system]
               IN m[k].system \in DOMAIN others /\ mine # <<>> /\ mine[Len(mine)] = m[k]
    <2> DEFINE i == at[k]
    <2>1. i \in S /\ i \in 1..Len(all) /\ m[k] = all[i] /\ all[i].system # system
      BY <1>1, <1>6
    <2> HIDE DEF i
    <2>2. ASSUME NEW h \in i + 1..Len(all), all[h].system = all[i].system
          PROVE  FALSE
      <3>1. h \in 1..Len(all) /\ i < h
        BY <1>1, <2>1
      <3>2. h \in S
        BY <1>1, <2>1, <2>2, <3>1
      <3>3. PICK j \in 1..n : k < j /\ at[j] = h
        BY <1>4, <3>1, <3>2 DEF i
      <3>4. j \in k + 1..n /\ m[j] = all[h]
        BY <1>3, <1>6, <3>3
      <3>5. QED
        BY <1>7, <2>1, <2>2, <3>4
    <2>3. LET mine == hs[all[i].system]
          IN all[i].system \in DOMAIN hs /\ mine # <<>> /\ mine[Len(mine)] = all[i]
      BY <2>1, <2>2 DEF NewestAgree
    <2>4. m[k].system \in DOMAIN others /\ others[m[k].system] = hs[all[i].system]
      BY <2>1, <2>3
    <2>5. QED
      BY <2>1, <2>3, <2>4
  <1>8. NewestAgree(others, m)
    BY <1>5, <1>7 DEF NewestAgree
  <1>9. QED
    BY <1>8 DEF m, S

LEMMA FewerIsBounded ==
  ASSUME NEW rs, IsFiniteSet(DOMAIN rs), Bounded(rs), NEW left, DOMAIN left \subseteq DOMAIN rs
  PROVE  Bounded(left)
  <1>1. /\ Cardinality(DOMAIN rs) \in Nat /\ Cardinality(DOMAIN left) \in Nat
        /\ Cardinality(DOMAIN left) <= Cardinality(DOMAIN rs)
    BY FS_Subset, FS_CardinalityType
  <1>2. MaxHistory \in Nat /\ Cardinality(Systems) \in Nat
    BY BenchmarkAssumption, FS_CardinalityType
  <1>3. MaxHistory * (1 + Cardinality(Systems)) \in Nat
    BY <1>2
  <1> DEFINE most == MaxHistory * (1 + Cardinality(Systems))
  <1>4. most \in Nat /\ (Cardinality(DOMAIN rs) <= 5 * MaxHistory \/ Cardinality(DOMAIN rs) <= most)
    BY <1>3 DEF Bounded
  <1> HIDE DEF most
  <1>5. Cardinality(DOMAIN left) <= 5 * MaxHistory \/ Cardinality(DOMAIN left) <= most
    BY <1>1, <1>2, <1>4
  <1>6. QED
    BY <1>5 DEF Bounded, most

\* BenchmarkService.reset of one system.
LEMMA ResetKeeps ==
  ASSUME StoreInv, NEW system \in Systems, ResetSystem(system)
  PROVE  StoreInv'
  <1> DEFINE started == announced.started
             h == HistoryOf(histories, system)
             left == Restrict(results, DOMAIN results \ IdsOf(h))
             hs == Restrict(histories, DOMAIN histories \ {system})
             m == Picked(everything, OthersIn(everything, system))
  <1>1. histories' = hs /\ everything' = m /\ results' = left /\ announced' = announced
    BY DEF ResetSystem, OthersIn
  <1>2. /\ announced \in [started: Nat, completed: Nat] /\ started \in Nat
        /\ Listed(results, histories, everything, started) /\ Bounded(results)
    BY DEF StoreInv
  <1> HIDE DEF started
  <1>3. /\ Fetchable(everything, results) /\ everything \in Seq(Result)
        /\ DOMAIN results \subseteq 1..started /\ NewestAgree(histories, everything)
        /\ DOMAIN histories \subseteq Systems
    BY <1>2 DEF Listed, Fetchable
  <1>4. \A s \in DOMAIN histories :
          Fetchable(histories[s], results) /\ \A i \in 1..Len(histories[s]) : histories[s][i].system = s
    BY <1>2 DEF Listed
  <1>5. \A id \in IdsOf(h) : id \in DOMAIN results /\ results[id].system = system
    <2>1. CASE system \in DOMAIN histories
      <3>1. h = histories[system]
        BY <2>1 DEF HistoryOf
      <3>2. Fetchable(h, results) /\ \A i \in 1..Len(h) : h[i].system = system
        BY <1>4, <2>1, <3>1
      <3> HIDE DEF h
      <3>3. IdsOf(h) = {h[i].id : i \in 1..Len(h)}
        BY <3>2, IdsOfIs DEF Fetchable
      <3>4. \A i \in 1..Len(h) : h[i].id \in DOMAIN results /\ results[h[i].id] = h[i]
        BY <3>2 DEF Fetchable
      <3>5. QED
        BY <3>2, <3>3, <3>4
    <2>2. CASE system \notin DOMAIN histories
      <3>1. h = <<>>
        BY <2>2 DEF HistoryOf
      <3>2. <<>> \in Seq(Result) /\ 1..Len(<<>>) = {}
        OBVIOUS
      <3>3. IdsOf(<<>>) = {}
        BY <3>2, IdsOfIs
      <3>4. QED
        BY <3>1, <3>3
    <2>3. QED
      BY <2>1, <2>2
  <1> HIDE DEF h
  <1>6. DOMAIN left = DOMAIN results \ IdsOf(h) /\ \A id \in DOMAIN left : left[id] = results[id]
    BY DEF Restrict
  <1>7. DOMAIN hs = DOMAIN histories \ {system} /\ \A s \in DOMAIN hs : hs[s] = histories[s]
    BY DEF Restrict
  <1> HIDE DEF left, hs
  <1>8. ASSUME NEW l, Fetchable(l, results)
        PROVE  OthersLeft(l, results, system, left)
    <2>1. \A i \in 1..Len(l) : l[i].id \in DOMAIN results /\ results[l[i].id] = l[i]
      BY <1>8 DEF Fetchable
    <2>2. QED
      BY <1>5, <1>6, <2>1 DEF OthersLeft
  <1>9. Fetchable(m, left)
    <2>1. OthersLeft(everything, results, system, left)
      BY <1>3, <1>8
    <2>2. QED
      BY <1>3, <2>1, FetchableFiltered
  <1>10. NewestAgree(hs, m)
    <2>1. NewestAgree(histories, everything) /\ everything \in Seq(Result)
      BY <1>3
    <2>2. DOMAIN hs = DOMAIN histories \ {system} /\ \A s \in DOMAIN hs : hs[s] = histories[s]
      BY <1>7
    <2>3. QED
      BY ONLY <2>1, <2>2, NewestFiltered
  <1> HIDE DEF m
  <1>11. ASSUME NEW s \in DOMAIN hs
         PROVE  Fetchable(hs[s], left) /\ \A i \in 1..Len(hs[s]) : hs[s][i].system = s
    <2> DEFINE l == hs[s]
    <2>1. s # system /\ Fetchable(l, results) /\ \A i \in 1..Len(l) : l[i].system = s
      BY <1>4, <1>7
    <2> HIDE DEF l
    <2>2. \A i \in 1..Len(l) : l[i].id \in DOMAIN left /\ left[l[i].id] = results[l[i].id]
      BY <1>8, <2>1 DEF OthersLeft
    <2>3. Fetchable(l, left)
      BY <2>1, <2>2, FetchableStays
    <2>4. QED
      BY <2>1, <2>3 DEF l
  <1>12. DOMAIN left \subseteq 1..started /\ DOMAIN hs \subseteq Systems
    BY <1>3, <1>6, <1>7
  <1>13. Listed(left, hs, m, started)
    BY <1>9, <1>10, <1>11, <1>12 DEF Listed
  <1>14. IsFiniteSet(DOMAIN results)
    <2>1. IsFiniteSet(1..started)
      BY <1>2, FS_Interval
    <2>2. QED
      BY <1>3, <2>1, FS_Subset
  <1>15. Bounded(left)
    BY <1>2, <1>6, <1>14, FewerIsBounded
  <1>16. QED
    BY <1>1, <1>2, <1>13, <1>15 DEF StoreInv, started

\* Nothing is kept at first, and after all was reset.
LEMMA NothingStored ==
  ASSUME NEW started \in Nat
  PROVE  Listed(<< >>, << >>, <<>>, started) /\ Bounded(<< >>)
  <1>1. DOMAIN << >> = {} /\ Len(<<>>) = 0 /\ \A i : ~(i \in 1..0)
    OBVIOUS
  <1>2. Cardinality(DOMAIN << >>) = 0 /\ MaxHistory \in Nat
    BY <1>1, FS_EmptySet, BenchmarkAssumption
  <1>3. Bounded(<< >>)
    BY <1>2 DEF Bounded
  <1>4. Fetchable(<<>>, << >>)
    BY EmptyIsFetchable
  <1>5. NewestAgree(<< >>, <<>>)
    BY <1>1 DEF NewestAgree
  <1>6. QED
    BY <1>1, <1>3, <1>4, <1>5 DEF Listed

LEMMA StoreKept ==
  ASSUME StoreInv, [Next]_vars
  PROVE  StoreInv'
  <1>1. ASSUME NEW x \in Runnable, NEW system \in Systems, RunBenchmark(system, x)
        PROVE  StoreInv'
    BY <1>1, RunnableAreExams, RecordKeeps DEF RunBenchmark
  <1>2. ASSUME NEW x \in Runnable, RunFails(x)
        PROVE  StoreInv'
    <2> DEFINE started == announced.started
    <2>1. /\ announced \in [started: Nat, completed: Nat] /\ started \in Nat
          /\ Listed(results, histories, everything, started) /\ Bounded(results)
      BY DEF StoreInv
    <2>2. /\ announced' = [announced EXCEPT !.started = @ + 1]
          /\ results' = results /\ histories' = histories /\ everything' = everything
      BY <1>2 DEF RunFails
    <2>3. announced' \in [started: Nat, completed: Nat] /\ announced'.started = started + 1
      BY <2>1, <2>2
    <2> HIDE DEF started
    <2>4. DOMAIN results \subseteq 1..started + 1
      BY <2>1 DEF Listed
    <2>5. Listed(results, histories, everything, started + 1)
      BY <2>1, <2>4 DEF Listed
    <2>6. QED
      BY <2>1, <2>2, <2>3, <2>5 DEF StoreInv
  <1>3. ASSUME NEW system \in Systems, ResetSystem(system)
        PROVE  StoreInv'
    BY <1>3, ResetKeeps
  <1>4. CASE ResetAll
    <2>1. \A started \in Nat : Listed(<< >>, << >>, <<>>, started) /\ Bounded(<< >>)
      BY NothingStored
    <2>2. /\ results' = << >> /\ histories' = << >> /\ everything' = <<>> /\ announced' = announced
      BY <1>4 DEF ResetAll
    <2>3. announced \in [started: Nat, completed: Nat] /\ announced.started \in Nat
      BY DEF StoreInv
    <2>4. QED
      BY <2>1, <2>2, <2>3 DEF StoreInv
  <1>5. CASE UNCHANGED <<results, histories, everything, announced>>
    BY <1>5 DEF StoreInv
  <1>6. QED
    BY <1>1, <1>2, <1>3, <1>4, <1>5 DEF Next, RegisterDataset, vars

\* The newest of a list that is not empty.
LEMMA NewestIs ==
  ASSUME NEW l \in Seq(Result), l # <<>>
  PROVE  GetHistory(l, 1) = <<l[Len(l)]>>
  <1> DEFINE newest == Reverse(l)
  <1>1. Len(l) \in Nat \ {0} /\ Len(l) \in 1..Len(l)
    OBVIOUS
  <1>2. newest = [i \in 1..Len(l) |-> l[(Len(l) - i) + 1]]
    BY DEF Reverse
  <1>3. \A i \in 1..Len(l) : l[(Len(l) - i) + 1] \in Result
    <2>1. \A i \in 1..Len(l) : (Len(l) - i) + 1 \in 1..Len(l)
      BY <1>1
    <2>2. QED
      BY <2>1, ElementOfSeq
  <1>4. newest \in Seq(Result) /\ Len(newest) = Len(l)
    BY <1>1, <1>2, <1>3
  <1>5. newest[1] = l[Len(l)]
    BY <1>1, <1>2
  <1>6. GetHistory(l, 1) = IF 1 < Len(newest) THEN SubSeq(newest, 1, 1) ELSE newest
    BY DEF GetHistory
  <1> HIDE DEF newest
  <1>7. CASE 1 < Len(newest)
    <2>1. SubSeq(newest, 1, 1) = <<newest[1]>>
      <3> DEFINE first == SubSeq(newest, 1, 1)
      <3>1. first \in Seq(Result) /\ Len(first) = 1 /\ first[1] = newest[1]
        BY <1>4, <1>7
      <3> HIDE DEF first
      <3>2. first = <<newest[1]>>
        BY <3>1
      <3>3. QED
        BY <3>2 DEF first
    <2>2. QED
      BY <1>5, <1>6, <1>7, <2>1
  <1>8. CASE ~(1 < Len(newest))
    <2>1. Len(newest) = 1
      BY <1>1, <1>4, <1>8
    <2>2. newest = <<newest[1]>>
      BY <1>4, <2>1
    <2>3. QED
      BY <1>5, <1>6, <1>8, <2>2
  <1>9. QED
    BY <1>7, <1>8

\* Every result a history lists can be fetched by its id, whatever was pruned
\* or reset, the newest of all is the latest of its system, and what is kept is
\* bounded: for any number of systems and any length of a history.
THEOREM ListedAreKept == Spec => []ListedResultsAreKept
  <1>1. Init => StoreInv
    <2>1. \A started \in Nat : Listed(<< >>, << >>, <<>>, started) /\ Bounded(<< >>)
      BY NothingStored
    <2>2. [started |-> 0, completed |-> 0] \in [started: Nat, completed: Nat]
      OBVIOUS
    <2>3. QED
      BY <2>1, <2>2 DEF Init, StoreInv
  <1>2. StoreInv => ListedResultsAreKept
    <2> SUFFICES ASSUME StoreInv
                 PROVE  ListedResultsAreKept
      OBVIOUS
    <2> DEFINE lists == {everything} \union {histories[s] : s \in DOMAIN histories}
    <2>1. /\ Listed(results, histories, everything, announced.started) /\ Bounded(results)
          /\ announced.started \in Nat
      BY DEF StoreInv
    <2>2. \A list \in lists : Fetchable(list, results)
      BY <2>1 DEF Listed
    <2>3. ASSUME NEW list \in lists
          PROVE  /\ Len(list) <= MaxHistory
                 /\ \A i \in DOMAIN list :
                      /\ list[i].id \in DOMAIN results /\ results[list[i].id] = list[i]
                      /\ \A j \in DOMAIN list : i < j => list[i].id < list[j].id
      <3>1. Fetchable(list, results)
        BY <2>2
      <3>2. DOMAIN list = 1..Len(list)
        BY <3>1 DEF Fetchable
      <3>3. QED
        BY <3>1, <3>2 DEF Fetchable
    <2>4. ASSUME everything # <<>>
          PROVE  GetHistory(everything, 1) = <<GetLatestResult(Last(everything).system)>>
      <3> DEFINE n == Len(everything)
                 newest == everything[n]
      <3>1. everything \in Seq(Result) /\ NewestAgree(histories, everything)
        BY <2>1 DEF Listed, Fetchable
      <3>2. n \in 1..n /\ n + 1..n = {}
        BY <2>4, <3>1
      <3>3. LET mine == histories[newest.system]
            IN newest.system \in DOMAIN histories /\ mine # <<>> /\ mine[Len(mine)] = newest
        BY <3>1, <3>2 DEF NewestAgree
      <3>4. GetLatestResult(newest.system) = newest
        BY <3>3 DEF GetLatestResult, HistoryOf, Last
      <3>5. GetHistory(everything, 1) = <<newest>> /\ Last(everything) = newest
        BY <2>4, <3>1, NewestIs DEF Last
      <3>6. QED
        BY <3>4, <3>5
    <2>5. Cardinality(DOMAIN results) <= Max({5 * MaxHistory, MaxHistory * (1 + Cardinality(Systems))})
      <3> DEFINE many == 5 * MaxHistory
                 most == MaxHistory * (1 + Cardinality(Systems))
                 size == Cardinality(DOMAIN results)
      <3>1. IsFiniteSet(DOMAIN results)
        <4>1. IsFiniteSet(1..announced.started)
          BY <2>1, FS_Interval
        <4>2. QED
          BY <2>1, <4>1, FS_Subset DEF Listed
      <3>2. size \in Nat /\ MaxHistory \in Nat /\ Cardinality(Systems) \in Nat
        BY <3>1, BenchmarkAssumption, FS_CardinalityType
      <3>3. many \in Int /\ most \in Int
        BY <3>2
      <3>4. size <= many \/ size <= most
        BY <2>1 DEF Bounded
      <3> HIDE DEF many, most, size
      <3>5. many <= Max({many, most}) /\ most <= Max({many, most}) /\ Max({many, most}) \in Int
        <4>1. \E a \in {many, most} : \A b \in {many, most} : a >= b
          BY <3>3
        <4>2. Max({many, most}) \in {many, most}
          BY <4>1 DEF Max
        <4>3. QED
          BY <3>3, <4>2, GreaterOf
      <3>6. size <= Max({many, most})
        BY <3>2, <3>3, <3>4, <3>5
      <3>7. QED
        BY <3>6 DEF many, most, size
    <2>6. QED
      BY <2>3, <2>4, <2>5 DEF ListedResultsAreKept
  <1>3. QED
    BY <1>1, <1>2, StoreKept, PTL DEF Spec

-----------------------------------------------------------------------------
(* What is found first and last among the measurements.                    *)

\* A measurement of one signal.
Reference == [at: Int, value: Int, sigma: Nat]

\* A list by its elements.
LEMMA ListIs ==
  ASSUME NEW m \in Nat \ {0}, NEW t, t = [k \in 1..m |-> t[k]]
  PROVE  t # <<>> /\ Len(t) = m /\ Head(t) = t[1] /\ Last(t) = t[m]
  <1> DEFINE R == {t[k] : k \in 1..m}
  <1>1. [k \in 1..m |-> t[k]] \in Seq(R)
    OBVIOUS
  <1> HIDE DEF R
  <1>2. t \in Seq(R)
    BY <1>1
  <1>3. DOMAIN t = 1..m
    OBVIOUS
  <1>4. Len(t) = m
    BY <1>2, <1>3
  <1>5. t # <<>> /\ Head(t) = t[1]
    BY ONLY m \in Nat \ {0}, <1>2, <1>4
  <1>6. QED
    BY <1>4, <1>5 DEF Last

\* t is empty when the indices are none; else it begins with what s has at the
\* least of them and ends with what s has at the greatest.
HasEnds(t, s, S) ==
  IF S = {} THEN t = <<>>
  ELSE /\ t # <<>>
       /\ \E i \in S : Head(t) = s[i] /\ \A j \in S : i <= j
       /\ \E i \in S : Last(t) = s[i] /\ \A j \in S : j <= i

LEMMA PickedHasEnds ==
  ASSUME NEW s, NEW n \in Nat, NEW S \in SUBSET (1..n)
  PROVE  HasEnds(Picked(s, S), s, S)
  <1> DEFINE m == Cardinality(S)
             t == Picked(s, S)
  <1>1. S \in SUBSET Nat /\ IsFiniteSet(S)
    <2>1. IsFiniteSet(1..n) /\ (1..n) \in SUBSET Nat
      BY FS_Interval
    <2>2. QED
      BY <2>1, FS_Subset
  <1>2. m \in Nat /\ (m = 0 <=> S = {})
    BY <1>1, FS_CardinalityType, FS_EmptySet
  <1>3. \A k \in 1..m : \E i \in S : Rank(S, i) = k
    BY <1>1, RankIsOnto
  <1>4. \A i \in S : Rank(S, i) \in 1..m
    BY <1>1, RankIsOnto
  <1> DEFINE at(k) == CHOOSE i \in S : Rank(S, i) = k
  <1>5. t = [k \in 1..m |-> s[at(k)]]
    BY DEF Picked, Rank
  <1>6. \A k \in 1..m : at(k) \in S /\ Rank(S, at(k)) = k
    BY <1>3
  <1> HIDE DEF at, t
  <1>7. ASSUME NEW i \in S, NEW j \in S, Rank(S, i) <= Rank(S, j)
        PROVE  i <= j
    <2>1. i \in Nat /\ j \in Nat /\ Rank(S, i) \in Nat /\ Rank(S, j) \in Nat
      BY <1>1, <1>2, <1>4
    <2>2. ~(j < i)
      <3>1. ASSUME j < i PROVE FALSE
        <4>1. Rank(S, j) < Rank(S, i)
          BY <1>1, <3>1, RankGrows
        <4>2. QED
          BY <1>7, <2>1, <4>1
      <3>2. QED
        BY <3>1
    <2>3. QED
      BY <2>1, <2>2
  <1> HIDE DEF m
  <1>8. CASE S = {}
    <2>1. t = <<>>
      BY <1>2, <1>5, <1>8
    <2>2. QED
      BY <1>8, <2>1 DEF HasEnds, t
  <1>9. CASE S # {}
    <2>1. 1 \in 1..m /\ m \in 1..m
      <3>1. m \in Nat /\ m # 0
        BY ONLY <1>2, <1>9
      <3>2. QED
        BY ONLY <3>1
    <2>2. Len(t) = m /\ t # <<>> /\ Head(t) = s[at(1)] /\ Last(t) = s[at(m)]
      <3>1. m \in Nat \ {0}
        BY <1>2, <1>9
      <3>2. DOMAIN t = 1..m /\ \A k \in 1..m : t[k] = s[at(k)]
        BY <1>5
      <3>3. t = [k \in 1..m |-> t[k]]
        BY <1>5, <3>2
      <3>4. t # <<>> /\ Len(t) = m /\ Head(t) = t[1] /\ Last(t) = t[m]
        BY <3>1, <3>3, ListIs
      <3>5. QED
        BY <2>1, <3>2, <3>4
    <2>3. \A j \in S : at(1) <= j
      <3> SUFFICES ASSUME NEW j \in S PROVE at(1) <= j
        OBVIOUS
      <3>1. Rank(S, at(1)) <= Rank(S, j)
        BY <1>4, <1>6, <2>1
      <3>2. QED
        BY <1>6, <1>7, <2>1, <3>1
    <2>4. \A j \in S : j <= at(m)
      <3> SUFFICES ASSUME NEW j \in S PROVE j <= at(m)
        OBVIOUS
      <3>1. Rank(S, j) <= Rank(S, at(m))
        BY <1>4, <1>6, <2>1
      <3>2. QED
        BY <1>6, <1>7, <2>1, <3>1
    <2>5. at(1) \in S /\ at(m) \in S
      BY <1>6, <2>1
    <2>6. QED
      BY <1>9, <2>2, <2>3, <2>4, <2>5 DEF HasEnds, t
  <1>10. QED
    BY <1>8, <1>9

\* The frames measure what the references say.
LEMMA MeasuredIs ==
  ASSUME NEW frames, frames \in Seq({f \in ToSet(frames) : IsFrame(f)}),
         NEW s \in Signals, NEW policy, Missing \notin Int
  PROVE  Measured(frames, s, policy) \in Seq(Reference)
  <1> DEFINE S == {i \in DOMAIN frames : frames[i].refs[s] # Missing}
             c == Picked(frames, S)
             n == Len(frames)
  <1>1. n \in Nat /\ DOMAIN frames = 1..n /\ \A i \in 1..n : IsFrame(frames[i])
    OBVIOUS
  <1>2. S \in SUBSET Nat /\ IsFiniteSet(S)
    <2>1. IsFiniteSet(1..n) /\ (1..n) \in SUBSET Nat
      BY <1>1, FS_Interval
    <2>2. S \in SUBSET (1..n)
      BY <1>1
    <2> HIDE DEF S, n
    <2>3. QED
      BY <2>1, <2>2, FS_Subset
  <1>3. Chosen(frames, LAMBDA f : f.refs[s] # Missing) = c
    BY DEF Chosen
  <1>4. \A i \in S : i \in 1..n /\ frames[i].refs[s] # Missing
    BY <1>1
  <1> HIDE DEF S
  <1>5. Cardinality(S) \in Nat /\ PicksOut(c, frames, S)
    BY <1>2, PickedInOrder
  <1> DEFINE m == Cardinality(S)
  <1>6. PICK at \in [1..m -> S] : c = [k \in 1..m |-> frames[at[k]]]
    BY <1>5 DEF PicksOut
  <1> HIDE DEF c, m
  <1>7. DOMAIN c = 1..m /\ \A k \in 1..m : IsFrame(c[k]) /\ c[k].refs[s] # Missing
    BY <1>1, <1>4, <1>6
  <1> DEFINE ref(k) == [at |-> TimeOf(c[k], policy), value |-> c[k].refs[s].value,
                        sigma |-> c[k].refs[s].sigma]
  <1>8. Measured(frames, s, policy) = [k \in DOMAIN c |-> ref(k)]
    BY <1>3 DEF Measured
  <1>9. \A k \in 1..m : ref(k) \in Reference
    <2> SUFFICES ASSUME NEW k \in 1..m PROVE ref(k) \in Reference
      OBVIOUS
    <2>1. IsFrame(c[k]) /\ c[k].refs[s] # Missing
      BY <1>7
    <2>2. TimeOf(c[k], policy) \in Int
      BY <2>1 DEF TimeOf, IsFrame
    <2>3. c[k].refs[s].value \in Int /\ c[k].refs[s].sigma \in Nat
      BY <2>1 DEF IsFrame
    <2>4. QED
      BY <2>2, <2>3 DEF Reference
  <1> HIDE DEF ref
  <1>10. m \in Nat
    BY <1>5 DEF m
  <1>11. [k \in DOMAIN c |-> ref(k)] \in Seq(Reference)
    BY <1>7, <1>9, <1>10
  <1>12. QED
    BY <1>8, <1>11

-----------------------------------------------------------------------------
(* One pair.                                                               *)

\* Nothing was found for eval, or the measurement r was.
IsUnpaired(pair, eval) == pair.eval = eval /\ pair.valid = FALSE
IsPairedWith(pair, eval, r) ==
  /\ pair.eval = eval /\ pair.valid = TRUE /\ pair.status # "INTERPOLATED_LINEAR"
  /\ pair.at = r.at /\ pair.ref = Whole(r.value)
  /\ pair.error = Plus(Whole(r.value), Whole(-eval.value))

\* A pair that is valid has a reference and an error.
IsPair(pair) == pair.valid \in BOOLEAN /\ (pair.valid => IsScored(pair))

LEMMA UnpairedIs ==
  \A eval, status : /\ IsUnpaired(Unpaired(eval, status), eval)
                    /\ Unpaired(eval, status).status = status
  BY DEF Unpaired, IsUnpaired

LEMMA PairedIs ==
  \A eval, status, kind, at, ref, sigma :
    LET p == Paired(eval, status, kind, at, ref, sigma) IN
    p.eval = eval /\ p.status = status /\ p.valid = TRUE /\ p.at = at /\ p.ref = ref
    /\ p.error = Plus(ref, Whole(-eval.value))
  BY DEF Paired

LEMMA WholeIsPair ==
  ASSUME NEW n \in Int
  PROVE  Whole(n) \in Pairs
  BY DEF Whole, Pairs

LEMMA ScoredIs ==
  ASSUME NEW pair, NEW ref \in Pairs, NEW value \in Int, pair.valid = TRUE, pair.ref = ref,
         pair.error = Plus(ref, Whole(-value))
  PROVE  IsPair(pair)
  <1>1. Whole(-value) \in Pairs
    BY WholeIsPair
  <1>2. pair.error \in Pairs
    BY <1>1, PlusIsPair
  <1>3. QED
    BY <1>2 DEF IsPair, IsScored

LEMMA PairedWithIs ==
  \A eval, status, kind, r :
    status # "INTERPOLATED_LINEAR" => IsPairedWith(PairedWith(eval, status, kind, r), eval, r)
  BY PairedIs DEF PairedWith, IsPairedWith

\* How far a measurement is from what was evaluated.
Off(r, eval) == Abs(r.at - eval.at)

LEMMA OffIs ==
  ASSUME NEW r \in Reference, NEW eval, eval.at \in Int
  PROVE  /\ r.at \in Int /\ Off(r, eval) \in Nat
         /\ r.at <= eval.at => Off(r, eval) = eval.at - r.at
         /\ r.at >= eval.at => Off(r, eval) = r.at - eval.at
  BY DEF Reference, Off, Abs

LEMMA FoundNothing ==
  ASSUME NEW known \in Seq(Reference), NEW policy, NEW eval, NEW pair, IsUnpaired(pair, eval),
         InOrder(known) => \A j \in 1..Len(known) : known[j].at # eval.at
  PROVE  pair.eval = eval /\ IsFound(pair, known, policy) /\ IsPair(pair)
  <1>1. pair.eval = eval /\ pair.valid = FALSE
    BY DEF IsUnpaired
  <1>2. InOrder(known) => \A r \in ToSet(known) : r.at # eval.at
    BY DEF ToSet
  <1>3. QED
    BY <1>1, <1>2 DEF IsFound, IsPair

LEMMA FoundNearest ==
  ASSUME NEW known \in Seq(Reference), NEW policy, NEW eval, NEW pair, NEW k \in 1..Len(known),
         eval.value \in Int, IsPairedWith(pair, eval, known[k]), Eligible(known[k], eval.at, policy),
         Off(known[k], eval) <= policy.gap, Off(known[k], eval) <= policy.tolerance,
         InOrder(known) => \A j \in 1..Len(known) :
           Eligible(known[j], eval.at, policy) => Off(known[k], eval) <= Off(known[j], eval)
  PROVE  pair.eval = eval /\ IsFound(pair, known, policy) /\ IsPair(pair)
  <1> DEFINE r == known[k]
             others == {q \in ToSet(known) : Eligible(q, pair.eval.at, policy)}
  <1>1. /\ pair.eval = eval /\ pair.valid = TRUE /\ pair.status # "INTERPOLATED_LINEAR"
        /\ pair.at = r.at /\ pair.ref = Whole(r.value)
        /\ pair.error = Plus(Whole(r.value), Whole(-eval.value))
    BY DEF IsPairedWith
  <1>2. r \in ToSet(known)
    BY DEF ToSet
  <1>3. ASSUME InOrder(known), NEW q \in others
        PROVE  Off(r, eval) <= Off(q, eval)
    <2>1. PICK j \in 1..Len(known) : q = known[j]
      BY DEF ToSet
    <2>2. QED
      BY <1>1, <1>3, <2>1
  <1>4. /\ r.at = pair.at /\ Whole(r.value) = pair.ref
        /\ Eligible(r, pair.eval.at, policy)
        /\ Off(r, pair.eval) <= policy.gap /\ Off(r, pair.eval) <= policy.tolerance
        /\ InOrder(known) => \A q \in others : Off(r, pair.eval) <= Off(q, pair.eval)
    BY <1>1, <1>3
  <1> HIDE DEF r
  <1>5. IsNearest(pair, known, policy)
    BY <1>2, <1>4 DEF IsNearest, Off
  <1>6. IsPair(pair)
    <2>1. known[k] \in Reference
      OBVIOUS
    <2>2. r.value \in Int
      BY <2>1 DEF Reference, r
    <2>3. QED
      BY <1>1, <2>2, WholeIsPair, ScoredIs
  <1>7. QED
    BY <1>1, <1>5, <1>6 DEF IsFound

\* What is picked out of the measurements is among them.
LEMMA ChosenHasEnds ==
  ASSUME NEW known \in Seq(Reference), NEW S \in SUBSET (1..Len(known)), S # {}
  PROVE  /\ Picked(known, S) # <<>>
         /\ \E i \in S : Head(Picked(known, S)) = known[i] /\ \A j \in S : i <= j
         /\ \E i \in S : Last(Picked(known, S)) = known[i] /\ \A j \in S : j <= i
  <1>1. Len(known) \in Nat
    OBVIOUS
  <1>2. HasEnds(Picked(known, S), known, S)
    BY <1>1, PickedHasEnds
  <1>3. QED
    BY <1>2 DEF HasEnds

LEMMA NothingChosen ==
  ASSUME NEW known \in Seq(Reference)
  PROVE  Picked(known, {}) = <<>>
  <1>1. Len(known) \in Nat /\ {} \in SUBSET (1..Len(known))
    OBVIOUS
  <1>2. HasEnds(Picked(known, {}), known, {})
    BY <1>1, PickedHasEnds
  <1>3. QED
    BY <1>2 DEF HasEnds

LEMMA CausalIsFound ==
  ASSUME NEW known \in Seq(Reference), NEW policy, IsPolicy(policy),
         policy.mode = "CAUSAL_STREAMING", NEW eval, eval.at \in Int,
         eval.value \in Int
  PROVE  LET pair == AlignCausal(eval, known, policy)
         IN pair.eval = eval /\ IsFound(pair, known, policy) /\ IsPair(pair)
  <1> DEFINE n == Len(known)
             S == {i \in 1..n : known[i].at <= eval.at}
             pair == AlignCausal(eval, known, policy)
  <1>1. n \in Nat /\ DOMAIN known = 1..n /\ \A i \in 1..n : known[i] \in Reference
    OBVIOUS
  <1>2. Past(known, eval.at) = Picked(known, S)
    BY <1>1 DEF Past, Chosen
  <1>3. policy.gap \in Nat /\ policy.tolerance \in Nat
    BY DEF IsPolicy
  <1>4. S \in SUBSET (1..n) /\ \A i \in 1..n : i \in S <=> known[i].at <= eval.at
    OBVIOUS
  <1> HIDE DEF S, n
  <1>5. CASE S = {}
    <2>1. pair = Unpaired(eval, "OUTSIDE_TOLERANCE")
      BY <1>2, <1>5, NothingChosen DEF AlignCausal
    <2>2. \A j \in 1..n : known[j].at # eval.at
      <3> SUFFICES ASSUME NEW j \in 1..n, known[j].at = eval.at PROVE FALSE
        OBVIOUS
      <3>1. ~(known[j].at <= eval.at)
        BY <1>4, <1>5
      <3>2. QED
        BY <3>1
    <2> HIDE DEF pair
    <2>3. IsUnpaired(pair, eval)
      BY <2>1, UnpairedIs
    <2>4. pair.eval = eval /\ IsFound(pair, known, policy) /\ IsPair(pair)
      BY <2>2, <2>3, FoundNothing DEF n
    <2>5. QED
      BY <2>4 DEF pair
  <1>6. CASE S # {}
    <2>1. Picked(known, S) # <<>> /\ \E i \in S : Last(Picked(known, S)) = known[i] /\ \A j \in S : j <= i
      BY <1>4, <1>6, ChosenHasEnds DEF n
    <2>2. PICK m \in S : Last(Picked(known, S)) = known[m] /\ \A j \in S : j <= m
      BY <2>1
    <2> DEFINE r == known[m]
               d == eval.at - r.at
    <2>3. m \in 1..n /\ r \in Reference /\ r.at <= eval.at
      BY <1>1, <1>4
    <2>4. r.at \in Int /\ d \in Nat /\ Off(r, eval) = d
      <3> HIDE DEF r
      <3>1. r.at \in Int /\ Off(r, eval) = d
        BY <2>3, OffIs
      <3>2. QED
        BY <2>3, <3>1
    <2>5. NearestPast(known, eval.at) = r
      BY <1>2, <2>2 DEF NearestPast
    <2>6. \/ /\ d > 0
             /\ \/ pair = Unpaired(eval, "DATA_GAPPED")
                \/ pair = Unpaired(eval, "OUTSIDE_TOLERANCE")
          \/ /\ d = 0 \/ (d <= policy.gap /\ d <= policy.tolerance)
             /\ \/ pair = PairedWith(eval, "EXACT_MATCH", "DIRECT_OBSERVATION", r)
                \/ pair = PairedWith(eval, "SAMPLE_AND_HOLD", "HELD_VALUE", r)
                \/ pair = PairedWith(eval, "NEAREST_PAST_MATCH", "DIRECT_OBSERVATION", r)
      <3>1. Past(known, eval.at) # <<>>
        BY <1>2, <2>1
      <3> HIDE DEF r
      <3>2. pair = CASE d > policy.gap -> Unpaired(eval, "DATA_GAPPED")
         [] d = 0 -> PairedWith(eval, "EXACT_MATCH", "DIRECT_OBSERVATION", r)
         [] d > 0 /\ d <= policy.gap
            /\ (policy.resampling = "EXACT_OR_DROP" \/ d > policy.tolerance)
              -> Unpaired(eval, "OUTSIDE_TOLERANCE")
         [] OTHER -> IF policy.interpolation = "SAMPLE_AND_HOLD"
                     THEN PairedWith(eval, "SAMPLE_AND_HOLD", "HELD_VALUE", r)
                     ELSE PairedWith(eval, "NEAREST_PAST_MATCH", "DIRECT_OBSERVATION", r)
        BY <2>5, <3>1 DEF AlignCausal
      <3> HIDE DEF d, pair
      <3>3. CASE d > policy.gap
        <4>1. d # 0 /\ ~(d <= policy.gap)
          BY <1>3, <2>4, <3>3
        <4>2. pair = Unpaired(eval, "DATA_GAPPED")
          BY <3>2, <3>3, <4>1
        <4>3. d > 0
          BY <2>4, <4>1
        <4>4. QED
          BY <4>2, <4>3
      <3>4. CASE ~(d > policy.gap)
        <4>1. d <= policy.gap
          BY <1>3, <2>4, <3>4
        <4>2. CASE d = 0
          <5>1. ~(d > 0)
            BY <4>2
          <5>2. pair = PairedWith(eval, "EXACT_MATCH", "DIRECT_OBSERVATION", r)
            BY <3>2, <3>4, <4>2, <5>1
          <5>3. QED
            BY <4>2, <5>2
        <4>3. CASE d # 0 /\ (policy.resampling = "EXACT_OR_DROP" \/ d > policy.tolerance)
          <5>1. d > 0
            BY <2>4, <4>3
          <5>2. pair = Unpaired(eval, "OUTSIDE_TOLERANCE")
            BY <3>2, <3>4, <4>1, <4>3, <5>1
          <5>3. QED
            BY <5>1, <5>2
        <4>4. CASE d # 0 /\ policy.resampling # "EXACT_OR_DROP" /\ ~(d > policy.tolerance)
          <5>1. d <= policy.tolerance
            BY <1>3, <2>4, <4>4
          <5>2. pair = IF policy.interpolation = "SAMPLE_AND_HOLD"
                       THEN PairedWith(eval, "SAMPLE_AND_HOLD", "HELD_VALUE", r)
                       ELSE PairedWith(eval, "NEAREST_PAST_MATCH", "DIRECT_OBSERVATION", r)
            BY <3>2, <3>4, <4>4
          <5>3. QED
            BY <4>1, <5>1, <5>2
        <4>5. QED
          BY <4>2, <4>3, <4>4
      <3>5. QED
        BY <3>3, <3>4
    <2>7. ASSUME InOrder(known), NEW j \in 1..n, known[j].at <= eval.at
          PROVE  known[j].at <= r.at
      <3>1. j \in S /\ j <= m
        BY <1>4, <2>2, <2>7
      <3>2. j \in DOMAIN known /\ m \in DOMAIN known /\ j \in Int /\ m \in Int
        BY <1>1, <2>3
      <3>3. CASE j = m
        BY <2>4, <3>3
      <3>4. CASE j # m
        <4>1. j < m
          BY <3>1, <3>2, <3>4
        <4>2. QED
          BY <2>7, <3>2, <4>1 DEF InOrder
      <3>5. QED
        BY <3>3, <3>4
    <2> HIDE DEF pair
    <2>8. CASE /\ d > 0
               /\ \/ pair = Unpaired(eval, "DATA_GAPPED")
                  \/ pair = Unpaired(eval, "OUTSIDE_TOLERANCE")
      <3>1. IsUnpaired(pair, eval)
        BY <2>8, UnpairedIs
      <3>2. ASSUME InOrder(known), NEW j \in 1..n, known[j].at = eval.at
            PROVE  FALSE
        <4> HIDE DEF r
        <4>1. eval.at <= eval.at
          OBVIOUS
        <4>2. eval.at <= r.at
          BY <2>7, <3>2, <4>1
        <4>3. QED
          BY <2>4, <2>8, <4>2
      <3>3. InOrder(known) => \A j \in 1..n : known[j].at # eval.at
        BY <3>2
      <3>4. pair.eval = eval /\ IsFound(pair, known, policy) /\ IsPair(pair)
        BY <3>1, <3>3, FoundNothing DEF n
      <3>5. QED
        BY <3>4 DEF pair
    <2>9. CASE /\ d = 0 \/ (d <= policy.gap /\ d <= policy.tolerance)
               /\ \/ pair = PairedWith(eval, "EXACT_MATCH", "DIRECT_OBSERVATION", r)
                  \/ pair = PairedWith(eval, "SAMPLE_AND_HOLD", "HELD_VALUE", r)
                  \/ pair = PairedWith(eval, "NEAREST_PAST_MATCH", "DIRECT_OBSERVATION", r)
      <3>1. IsPairedWith(pair, eval, r)
        BY <2>9, PairedWithIs
      <3>2. Eligible(r, eval.at, policy)
        BY <2>3 DEF Eligible
      <3>3. Off(r, eval) <= policy.gap /\ Off(r, eval) <= policy.tolerance
        BY <1>3, <2>4, <2>9
      <3>4. ASSUME InOrder(known), NEW j \in 1..n, Eligible(known[j], eval.at, policy)
            PROVE  Off(r, eval) <= Off(known[j], eval)
        <4>1. known[j].at <= eval.at
          BY <3>4 DEF Eligible
        <4>2. known[j].at <= r.at
          BY <2>7, <3>4, <4>1
        <4>3. known[j].at \in Int /\ Off(known[j], eval) = eval.at - known[j].at
          BY <1>1, <4>1, OffIs
        <4>4. QED
          BY <2>4, <4>2, <4>3
      <3>5. InOrder(known) => \A j \in 1..n : Eligible(known[j], eval.at, policy) =>
              Off(r, eval) <= Off(known[j], eval)
        BY <3>4
      <3>6. pair.eval = eval /\ IsFound(pair, known, policy) /\ IsPair(pair)
        BY <2>3, <3>1, <3>2, <3>3, <3>5, FoundNearest DEF n
      <3>7. QED
        BY <3>6 DEF pair
    <2>10. QED
      BY <2>6, <2>8, <2>9
  <1>7. QED
    BY <1>5, <1>6

\* The line between two measurements stays between their values.
LEMMA Mixed ==
  ASSUME NEW a \in Int, NEW b \in Int, NEW low \in Int, NEW high \in Int,
         low <= a, low <= b, a <= high, b <= high, NEW d \in Nat, NEW e \in Nat
  PROVE  /\ low * (d + e) <= a * (d + e) + d * (b - a)
         /\ a * (d + e) + d * (b - a) <= high * (d + e)
  <1>1. a * (d + e) + d * (b - a) = a * e + b * d
    OBVIOUS
  <1>2. low * (d + e) = low * e + low * d /\ high * (d + e) = high * e + high * d
    OBVIOUS
  <1>3. \A x \in Int, y \in Int, n \in Nat : x <= y => x * n <= y * n
    <2> SUFFICES ASSUME NEW x \in Int, NEW y \in Int, NEW n \in Nat, x <= y
                 PROVE  x * n <= y * n
      OBVIOUS
    <2>1. y - x \in Nat
      OBVIOUS
    <2>2. (y - x) * n \in Nat
      BY <2>1
    <2>3. (y - x) * n = y * n - x * n
      OBVIOUS
    <2>4. x * n \in Int /\ y * n \in Int
      OBVIOUS
    <2>5. QED
      BY <2>2, <2>3, <2>4
  <1>4. low * e <= a * e /\ low * d <= b * d /\ a * e <= high * e /\ b * d <= high * d
    BY <1>3
  <1>5. /\ low * e \in Int /\ low * d \in Int /\ a * e \in Int /\ b * d \in Int
        /\ high * e \in Int /\ high * d \in Int
    OBVIOUS
  <1>6. low * e + low * d <= a * e + b * d /\ a * e + b * d <= high * e + high * d
    BY ONLY <1>4, <1>5
  <1>7. QED
    BY <1>1, <1>2, <1>6

LEMMA MinAndMax ==
  ASSUME NEW a \in Int, NEW b \in Int
  PROVE  /\ Min({a, b}) \in Int /\ Min({a, b}) <= a /\ Min({a, b}) <= b
         /\ Max({a, b}) \in Int /\ a <= Max({a, b}) /\ b <= Max({a, b})
  <1>1. \E x \in {a, b} : \A y \in {a, b} : x <= y
    OBVIOUS
  <1>2. Min({a, b}) \in {a, b} /\ \A y \in {a, b} : Min({a, b}) <= y
    BY <1>1 DEF Min
  <1>3. \E x \in {a, b} : \A y \in {a, b} : x >= y
    OBVIOUS
  <1>4. Max({a, b}) \in {a, b} /\ \A y \in {a, b} : Max({a, b}) >= y
    BY <1>3 DEF Max
  <1>5. QED
    BY <1>2, <1>4

LEMMA OnLineIsBetween ==
  ASSUME NEW a \in Reference, NEW b \in Reference, NEW at \in Int, a.at < at, at < b.at
  PROVE  /\ AtMost(Whole(Min({a.value, b.value})), OnLine(a, b, at))
         /\ AtMost(OnLine(a, b, at), Whole(Max({a.value, b.value})))
  <1> DEFINE low == Min({a.value, b.value})
             high == Max({a.value, b.value})
             d == at - a.at
             e == b.at - at
             N == a.value * (d + e) + d * (b.value - a.value)
  <1>1. a.value \in Int /\ b.value \in Int /\ a.at \in Int /\ b.at \in Int
    BY DEF Reference
  <1>2. /\ low \in Int /\ low <= a.value /\ low <= b.value
        /\ high \in Int /\ a.value <= high /\ b.value <= high
    BY <1>1, MinAndMax
  <1>3. d \in Nat /\ e \in Nat /\ d + e = b.at - a.at
    BY <1>1
  <1>4. OnLine(a, b, at) = <<N, d + e>>
    BY <1>3 DEF OnLine
  <1> HIDE DEF low, high, d, e
  <1>5. low * (d + e) <= N /\ N <= high * (d + e)
    BY <1>1, <1>2, <1>3, Mixed
  <1>6. N \in Int /\ low * (d + e) \in Int /\ high * (d + e) \in Int
    BY <1>1, <1>2, <1>3
  <1>7. N * 1 = N
    BY <1>6
  <1> HIDE DEF N
  <1>8. ~(N * 1 < low * (d + e)) /\ ~(high * (d + e) < N * 1)
    BY ONLY <1>5, <1>6, <1>7
  <1>9. Whole(low) = <<low, 1>> /\ Whole(high) = <<high, 1>>
    BY DEF Whole
  <1>10. AtMost(Whole(low), <<N, d + e>>) /\ AtMost(<<N, d + e>>, Whole(high))
    BY <1>8, <1>9 DEF AtMost, Less
  <1>11. QED
    BY <1>4, <1>10 DEF low, high

LEMMA LineIsPair ==
  ASSUME NEW a \in Reference, NEW b \in Reference, NEW at \in Int, a.at < at, at < b.at
  PROVE  OnLine(a, b, at) \in Pairs
  <1> DEFINE span == b.at - a.at
             here == a.value * span + (at - a.at) * (b.value - a.value)
  <1>1. a.value \in Int /\ b.value \in Int /\ a.at \in Int /\ b.at \in Int
    BY DEF Reference
  <1>2. span \in Nat \ {0}
    BY <1>1
  <1> HIDE DEF span
  <1>3. here \in Int
    BY <1>1, <1>2
  <1> HIDE DEF here
  <1>4. <<here, span>> \in Pairs
    BY <1>2, <1>3 DEF Pairs
  <1>5. QED
    BY <1>4 DEF OnLine, here, span

\* The line is drawn between the last measurement before and the first after.
LEMMA InterpolatedIsFound ==
  ASSUME NEW known \in Seq(Reference), NEW policy, IsPolicy(policy), NEW eval, eval.at \in Int,
         eval.value \in Int,
         NEW p \in 1..Len(known), NEW q \in 1..Len(known),
         known[p].at < eval.at, eval.at < known[q].at,
         \A j \in 1..Len(known) : known[j].at # eval.at,
         \A j \in 1..Len(known) : known[j].at < eval.at => j <= p,
         \A j \in 1..Len(known) : eval.at < known[j].at => q <= j
  PROVE  LET pair == Interpolated(eval, known[p], known[q], policy)
         IN pair.eval = eval /\ IsFound(pair, known, policy) /\ IsPair(pair)
  <1> DEFINE n == Len(known)
             a == known[p]
             b == known[q]
             pair == Interpolated(eval, a, b, policy)
  <1>1. n \in Nat /\ DOMAIN known = 1..n /\ \A i \in 1..n : known[i] \in Reference
    OBVIOUS
  <1>2. a \in Reference /\ b \in Reference /\ a.at < eval.at /\ eval.at < b.at
    BY <1>1
  <1>3. a \in ToSet(known) /\ b \in ToSet(known)
    BY <1>1 DEF ToSet
  <1>4. policy.gap \in Nat /\ policy.tolerance \in Nat
    BY DEF IsPolicy
  <1>5. ASSUME InOrder(known), NEW r \in ToSet(known)
        PROVE  r.at <= a.at \/ b.at <= r.at
    <2>1. PICK j \in 1..n : r = known[j]
      BY <1>1 DEF ToSet
    <2>2. r \in Reference /\ r.at \in Int /\ r.at # eval.at
      BY <1>1, <2>1 DEF Reference
    <2>3. j \in Int /\ p \in Int /\ q \in Int
      BY <1>1
    <2>4. CASE r.at < eval.at
      <3>1. j <= p
        BY <2>1, <2>4
      <3>2. CASE j = p
        BY <2>1, <2>2, <3>2
      <3>3. CASE j # p
        <4>1. j < p
          BY <2>3, <3>1, <3>3
        <4>2. QED
          BY <1>1, <1>5, <2>1, <4>1 DEF InOrder
      <3>4. QED
        BY <3>2, <3>3
    <2>5. CASE eval.at < r.at
      <3>1. q <= j
        BY <2>1, <2>5
      <3>2. CASE j = q
        BY <2>1, <2>2, <3>2
      <3>3. CASE j # q
        <4>1. q < j
          BY <2>3, <3>1, <3>3
        <4>2. QED
          BY <1>1, <1>5, <2>1, <4>1 DEF InOrder
      <3>4. QED
        BY <3>2, <3>3
    <2>6. QED
      BY <2>2, <2>4, <2>5
  <1> HIDE DEF a, b
  <1>6. a.at \in Int /\ b.at \in Int
    BY <1>2 DEF Reference
  <1> DEFINE line == OnLine(a, b, eval.at)
             sigma == Max({a.sigma, b.sigma})
             near == Min({eval.at - a.at, b.at - eval.at})
  <1>7. \/ pair = Unpaired(eval, "DATA_GAPPED") \/ pair = Unpaired(eval, "OUTSIDE_TOLERANCE")
        \/ /\ b.at - a.at <= policy.gap
           /\ pair = Paired(eval, "INTERPOLATED_LINEAR", "INTERPOLATED_VALUE", eval.at, line, sigma)
    <2>1. pair = CASE b.at - a.at > policy.gap -> Unpaired(eval, "DATA_GAPPED")
                   [] b.at - a.at <= policy.gap /\ near > policy.tolerance
                        -> Unpaired(eval, "OUTSIDE_TOLERANCE")
                   [] OTHER -> Paired(eval, "INTERPOLATED_LINEAR", "INTERPOLATED_VALUE", eval.at,
                                      line, sigma)
      BY DEF Interpolated
    <2>2. (b.at - a.at > policy.gap) <=> ~(b.at - a.at <= policy.gap)
      BY <1>4, <1>6
    <2> HIDE DEF pair, line, sigma, near
    <2>3. QED
      BY <2>1, <2>2
  <1> HIDE DEF pair
  <1>8. CASE pair = Unpaired(eval, "DATA_GAPPED") \/ pair = Unpaired(eval, "OUTSIDE_TOLERANCE")
    <2>1. IsUnpaired(pair, eval)
      BY <1>8, UnpairedIs
    <2>2. pair.eval = eval /\ IsFound(pair, known, policy) /\ IsPair(pair)
      BY <2>1, FoundNothing
    <2>3. QED
      BY <2>2 DEF pair, a, b
  <1>9. CASE /\ b.at - a.at <= policy.gap
             /\ pair = Paired(eval, "INTERPOLATED_LINEAR", "INTERPOLATED_VALUE", eval.at, line, sigma)
    <2> HIDE DEF line, sigma
    <2>1. /\ pair.eval = eval /\ pair.valid = TRUE /\ pair.status = "INTERPOLATED_LINEAR"
          /\ pair.ref = line /\ pair.error = Plus(line, Whole(-eval.value))
      BY <1>9, PairedIs
    <2>2. AtMost(Whole(Min({a.value, b.value})), line) /\ AtMost(line, Whole(Max({a.value, b.value})))
      BY <1>2, OnLineIsBetween DEF line
    <2>3. IsBetween(pair, known, policy)
      <3>1. /\ a.at < pair.eval.at /\ pair.eval.at < b.at /\ b.at - a.at <= policy.gap
            /\ AtMost(Whole(Min({a.value, b.value})), pair.ref)
            /\ AtMost(pair.ref, Whole(Max({a.value, b.value})))
            /\ InOrder(known) => \A r \in ToSet(known) : r.at <= a.at \/ b.at <= r.at
        BY <1>2, <1>5, <1>9, <2>1, <2>2
      <3>2. QED
        BY ONLY <1>3, <3>1 DEF IsBetween
    <2>4. line \in Pairs
      BY <1>2, LineIsPair DEF line
    <2>5. IsPair(pair)
      BY <2>1, <2>4, ScoredIs
    <2>6. pair.eval = eval /\ IsFound(pair, known, policy) /\ IsPair(pair)
      BY <2>1, <2>3, <2>5 DEF IsFound
    <2>7. QED
      BY <2>6 DEF pair, a, b
  <1>10. QED
    BY <1>7, <1>8, <1>9

LEMMA Ordered ==
  ASSUME NEW known \in Seq(Reference), InOrder(known),
         NEW i \in 1..Len(known), NEW j \in 1..Len(known), i <= j
  PROVE  known[i].at <= known[j].at
  <1>1. /\ i \in DOMAIN known /\ j \in DOMAIN known /\ i \in Int /\ j \in Int
        /\ known[i] \in Reference /\ known[j] \in Reference
    OBVIOUS
  <1>2. known[i].at \in Int /\ known[j].at \in Int
    BY <1>1 DEF Reference
  <1>3. CASE i = j
    BY <1>2, <1>3
  <1>4. CASE i # j
    <2>1. i < j
      BY <1>1, <1>4
    <2>2. QED
      BY <1>1, <2>1 DEF InOrder
  <1>5. QED
    BY <1>3, <1>4

\* What is found among one or two candidates.
LEMMA NearestOfIs ==
  ASSUME NEW c, NEW m \in {1, 2}, DOMAIN c = 1..m, \A i \in 1..m : c[i] \in Reference,
         NEW policy, IsPolicy(policy), NEW eval, eval.at \in Int
  PROVE  LET pair == NearestOf(eval, c, policy) IN
         \E i \in 1..m :
           /\ \A j \in 1..m : Off(c[i], eval) <= Off(c[j], eval)
           /\ \/ IsUnpaired(pair, eval)
              \/ /\ IsPairedWith(pair, eval, c[i])
                 /\ Off(c[i], eval) <= policy.gap /\ Off(c[i], eval) <= policy.tolerance
  <1> DEFINE Nearest(i) == \A j \in DOMAIN c :
               Off(c[i], eval) < Off(c[j], eval) \/ (Off(c[i], eval) = Off(c[j], eval) /\ i <= j)
             i == CHOOSE k \in DOMAIN c : Nearest(k)
             d == Off(c[i], eval)
             pair == NearestOf(eval, c, policy)
             kind == IF policy.interpolation = "SAMPLE_AND_HOLD" THEN "HELD_VALUE"
                     ELSE "DIRECT_OBSERVATION"
             side == IF c[i].at <= eval.at THEN "NEAREST_PAST_MATCH" ELSE "NEAREST_FUTURE_MATCH"
  <1>1. \A k \in 1..m : Off(c[k], eval) \in Nat
    BY OffIs
  <1>2. \E k \in DOMAIN c : Nearest(k)
    <2>1. CASE m = 1
      <3>1. DOMAIN c = {1}
        BY <2>1
      <3>2. Nearest(1)
        BY <1>1, <2>1, <3>1
      <3>3. QED
        BY <3>1, <3>2
    <2>2. CASE m = 2
      <3>1. DOMAIN c = {1, 2}
        BY <2>2
      <3>2. Off(c[1], eval) \in Nat /\ Off(c[2], eval) \in Nat
        BY <1>1, <2>2
      <3>3. CASE Off(c[1], eval) <= Off(c[2], eval)
        <4>1. Nearest(1)
          BY <3>1, <3>2, <3>3
        <4>2. QED
          BY <3>1, <4>1
      <3>4. CASE Off(c[2], eval) < Off(c[1], eval)
        <4>1. Nearest(2)
          BY <3>1, <3>2, <3>4
        <4>2. QED
          BY <3>1, <4>1
      <3>5. QED
        BY <3>2, <3>3, <3>4
    <2>3. QED
      BY <2>1, <2>2
  <1>3. i \in DOMAIN c /\ Nearest(i)
    BY <1>2
  <1>4. pair = CASE d > policy.gap -> Unpaired(eval, "DATA_GAPPED")
                 [] d <= policy.gap /\ d > policy.tolerance -> Unpaired(eval, "OUTSIDE_TOLERANCE")
                 [] OTHER -> PairedWith(eval, side, kind, c[i])
    BY DEF NearestOf, Off
  <1> HIDE DEF i
  <1>5. i \in 1..m /\ d \in Nat
    BY <1>1, <1>3
  <1>6. \A j \in 1..m : d <= Off(c[j], eval)
    <2> SUFFICES ASSUME NEW j \in 1..m PROVE d <= Off(c[j], eval)
      OBVIOUS
    <2>1. d < Off(c[j], eval) \/ d = Off(c[j], eval)
      BY <1>3
    <2>2. d \in Nat /\ Off(c[j], eval) \in Nat
      BY <1>1, <1>5
    <2> HIDE DEF d
    <2>3. QED
      BY <2>1, <2>2
  <1>7. policy.gap \in Nat /\ policy.tolerance \in Nat
    BY DEF IsPolicy
  <1>8. side # "INTERPOLATED_LINEAR"
    OBVIOUS
  <1> HIDE DEF d, pair, kind, side, Nearest
  <1>9. \/ pair = Unpaired(eval, "DATA_GAPPED") \/ pair = Unpaired(eval, "OUTSIDE_TOLERANCE")
        \/ pair = PairedWith(eval, side, kind, c[i]) /\ d <= policy.gap /\ d <= policy.tolerance
    <2>1. (d > policy.gap <=> ~(d <= policy.gap)) /\ (d > policy.tolerance <=> ~(d <= policy.tolerance))
      BY <1>5, <1>7
    <2>2. QED
      BY <1>4, <2>1
  <1>10. \/ IsUnpaired(pair, eval)
         \/ /\ IsPairedWith(pair, eval, c[i]) /\ d <= policy.gap /\ d <= policy.tolerance
    BY <1>8, <1>9, UnpairedIs, PairedWithIs
  <1>11. QED
    BY <1>5, <1>6, <1>10 DEF d, pair

\* The candidates are measurements the policy admits, and when these are in
\* order no other it admits is nearer.
LEMMA SearchIsFound ==
  ASSUME NEW known \in Seq(Reference), NEW policy, IsPolicy(policy), NEW eval, eval.at \in Int,
         eval.value \in Int,
         \A j \in 1..Len(known) : known[j].at # eval.at,
         NEW c, NEW m \in {1, 2}, DOMAIN c = 1..m,
         \A i \in 1..m : \E k \in 1..Len(known) :
           c[i] = known[k] /\ Eligible(known[k], eval.at, policy),
         InOrder(known) => \A j \in 1..Len(known) : Eligible(known[j], eval.at, policy) =>
           \E i \in 1..m : Off(c[i], eval) <= Off(known[j], eval)
  PROVE  LET pair == NearestOf(eval, c, policy)
         IN pair.eval = eval /\ IsFound(pair, known, policy) /\ IsPair(pair)
  <1> DEFINE pair == NearestOf(eval, c, policy)
             n == Len(known)
  <1>1. \A k \in 1..n : known[k] \in Reference
    OBVIOUS
  <1>2. \A i \in 1..m : c[i] \in Reference
    BY <1>1
  <1>3. PICK i \in 1..m :
           /\ \A j \in 1..m : Off(c[i], eval) <= Off(c[j], eval)
           /\ \/ IsUnpaired(pair, eval)
              \/ /\ IsPairedWith(pair, eval, c[i])
                 /\ Off(c[i], eval) <= policy.gap /\ Off(c[i], eval) <= policy.tolerance
    BY <1>2, NearestOfIs
  <1>4. PICK k \in 1..n : c[i] = known[k] /\ Eligible(known[k], eval.at, policy)
    OBVIOUS
  <1> HIDE DEF pair
  <1>5. CASE IsUnpaired(pair, eval)
    BY <1>5, FoundNothing DEF pair
  <1>6. CASE /\ IsPairedWith(pair, eval, c[i])
             /\ Off(c[i], eval) <= policy.gap /\ Off(c[i], eval) <= policy.tolerance
    <2>1. ASSUME InOrder(known), NEW j \in 1..n, Eligible(known[j], eval.at, policy)
          PROVE  Off(known[k], eval) <= Off(known[j], eval)
      <3>1. PICK h \in 1..m : Off(c[h], eval) <= Off(known[j], eval)
        BY <2>1
      <3>2. Off(c[i], eval) <= Off(c[h], eval)
        BY <1>3
      <3>3. Off(c[i], eval) \in Nat /\ Off(c[h], eval) \in Nat /\ Off(known[j], eval) \in Nat
        BY <1>1, <1>2, OffIs
      <3>4. Off(c[i], eval) <= Off(known[j], eval)
        BY ONLY <3>1, <3>2, <3>3
      <3>5. QED
        BY <1>4, <3>4
    <2>2. InOrder(known) => \A j \in 1..n : Eligible(known[j], eval.at, policy) =>
            Off(known[k], eval) <= Off(known[j], eval)
      BY <2>1
    <2>3. /\ IsPairedWith(pair, eval, known[k])
          /\ Off(known[k], eval) <= policy.gap /\ Off(known[k], eval) <= policy.tolerance
      BY <1>4, <1>6
    <2>4. pair.eval = eval /\ IsFound(pair, known, policy) /\ IsPair(pair)
      BY <1>4, <2>2, <2>3, FoundNearest
    <2>5. QED
      BY <2>4 DEF pair
  <1>7. QED
    BY <1>3, <1>5, <1>6

LEMMA Joined ==
  ASSUME NEW x \in Reference, NEW y \in Reference
  PROVE  /\ <<>> \o <<>> = <<>> /\ <<x>> \o <<>> = <<x>>
         /\ <<>> \o <<y>> = <<y>> /\ <<x>> \o <<y>> = <<x, y>>
  <1>1. \A s \in Seq(Reference) : <<>> \o s = s /\ s \o <<>> = s
    OBVIOUS
  <1>2. <<>> \in Seq(Reference) /\ <<x>> \in Seq(Reference) /\ <<y>> \in Seq(Reference)
    OBVIOUS
  <1>3. <<x>> \o <<y>> = <<x, y>>
    <2> DEFINE t == <<x>> \o <<y>>
    <2>1. t \in Seq(Reference) /\ Len(t) = 2 /\ t[1] = x /\ t[2] = y
      BY <1>2
    <2> HIDE DEF t
    <2>2. t = <<x, y>>
      BY <2>1
    <2>3. QED
      BY <2>2 DEF t
  <1>4. QED
    BY <1>1, <1>2, <1>3

LEMMA OneOrTwo ==
  \A x, y : /\ DOMAIN <<x>> = 1..1 /\ <<x>>[1] = x /\ <<x>> # <<>>
           /\ DOMAIN <<x, y>> = 1..2 /\ <<x, y>>[1] = x /\ <<x, y>>[2] = y /\ <<x, y>> # <<>>
  OBVIOUS

\* The last of the times before and the first of those after, of what is known.
IsLastBefore(p, known, at) ==
  /\ p \in 1..Len(known) /\ known[p].at < at
  /\ \A j \in 1..Len(known) : known[j].at < at => j <= p
IsFirstAfter(q, known, at) ==
  /\ q \in 1..Len(known) /\ known[q].at > at
  /\ \A j \in 1..Len(known) : known[j].at > at => q <= j

\* The nearest before, and the nearest after when it may be taken.
SearchedOf(known, P, F, policy) ==
  (IF Picked(known, P) = <<>> THEN <<>> ELSE <<Last(Picked(known, P))>>)
  \o (IF Picked(known, F) # <<>> /\ policy.resampling = "BIDIRECTIONAL_NEAREST"
      THEN <<Head(Picked(known, F))>> ELSE <<>>)

LEMMA NearerBefore ==
  ASSUME NEW known \in Seq(Reference), InOrder(known), NEW eval, eval.at \in Int,
         NEW p, IsLastBefore(p, known, eval.at),
         NEW j \in 1..Len(known), known[j].at < eval.at
  PROVE  Off(known[p], eval) <= Off(known[j], eval)
  <1>1. p \in 1..Len(known) /\ known[p].at < eval.at /\ j <= p
    BY DEF IsLastBefore
  <1>2. known[p] \in Reference /\ known[j] \in Reference
    BY <1>1
  <1>3. known[j].at <= known[p].at
    BY <1>1, Ordered
  <1>4. known[p].at \in Int /\ known[j].at \in Int
    BY <1>2, OffIs
  <1>4a. known[p].at <= eval.at /\ known[j].at <= eval.at
    BY <1>1, <1>4
  <1>5. Off(known[p], eval) = eval.at - known[p].at /\ Off(known[j], eval) = eval.at - known[j].at
    BY <1>2, <1>4a, OffIs
  <1>6. QED
    BY <1>3, <1>4, <1>5

LEMMA NearerAfter ==
  ASSUME NEW known \in Seq(Reference), InOrder(known), NEW eval, eval.at \in Int,
         NEW q, IsFirstAfter(q, known, eval.at),
         NEW j \in 1..Len(known), known[j].at > eval.at
  PROVE  Off(known[q], eval) <= Off(known[j], eval)
  <1>1. q \in 1..Len(known) /\ known[q].at > eval.at /\ q <= j
    BY DEF IsFirstAfter
  <1>2. known[q] \in Reference /\ known[j] \in Reference
    BY <1>1
  <1>3. known[q].at <= known[j].at
    BY <1>1, Ordered
  <1>4. known[q].at \in Int /\ known[j].at \in Int
    BY <1>2, OffIs
  <1>4a. known[q].at >= eval.at /\ known[j].at >= eval.at
    BY <1>1, <1>4
  <1>5. Off(known[q], eval) = known[q].at - eval.at /\ Off(known[j], eval) = known[j].at - eval.at
    BY <1>2, <1>4a, OffIs
  <1>6. QED
    BY <1>3, <1>4, <1>5

\* What is searched of the times before alone, the times after alone, and both.
LEMMA SearchBefore ==
  ASSUME NEW known \in Seq(Reference), NEW policy, IsPolicy(policy), NEW eval, eval.at \in Int,
         eval.value \in Int,
         \A j \in 1..Len(known) : known[j].at # eval.at,
         NEW p, IsLastBefore(p, known, eval.at),
         \A j \in 1..Len(known) : Eligible(known[j], eval.at, policy) => known[j].at < eval.at
  PROVE  LET pair == NearestOf(eval, <<known[p]>>, policy)
         IN pair.eval = eval /\ IsFound(pair, known, policy) /\ IsPair(pair)
  <1> DEFINE c == <<known[p]>>
  <1>1. p \in 1..Len(known) /\ known[p].at < eval.at
    BY DEF IsLastBefore
  <1>2. known[p] \in Reference /\ known[p].at \in Int
    <2>1. known[p] \in Reference
      BY <1>1
    <2>2. QED
      BY <2>1, OffIs
  <1>3. DOMAIN c = 1..1 /\ c[1] = known[p]
    BY OneOrTwo
  <1> HIDE DEF c
  <1>4. Eligible(known[p], eval.at, policy)
    BY <1>1, <1>2 DEF Eligible
  <1>5. \A i \in 1..1 : \E k \in 1..Len(known) : c[i] = known[k] /\ Eligible(known[k], eval.at, policy)
    BY <1>1, <1>3, <1>4
  <1>6. InOrder(known) => \A j \in 1..Len(known) : Eligible(known[j], eval.at, policy) =>
          \E i \in 1..1 : Off(c[i], eval) <= Off(known[j], eval)
    BY <1>3, NearerBefore
  <1>7. LET pair == NearestOf(eval, c, policy)
        IN pair.eval = eval /\ IsFound(pair, known, policy) /\ IsPair(pair)
    BY <1>3, <1>5, <1>6, SearchIsFound
  <1>8. QED
    BY <1>7 DEF c

LEMMA SearchAfter ==
  ASSUME NEW known \in Seq(Reference), NEW policy, IsPolicy(policy), NEW eval, eval.at \in Int,
         eval.value \in Int,
         \A j \in 1..Len(known) : known[j].at # eval.at,
         NEW q, IsFirstAfter(q, known, eval.at), Eligible(known[q], eval.at, policy),
         \A j \in 1..Len(known) : known[j].at > eval.at
  PROVE  LET pair == NearestOf(eval, <<known[q]>>, policy)
         IN pair.eval = eval /\ IsFound(pair, known, policy) /\ IsPair(pair)
  <1> DEFINE c == <<known[q]>>
  <1>1. q \in 1..Len(known) /\ known[q] \in Reference
    BY DEF IsFirstAfter
  <1>2. DOMAIN c = 1..1 /\ c[1] = known[q]
    BY OneOrTwo
  <1> HIDE DEF c
  <1>3. \A i \in 1..1 : \E k \in 1..Len(known) : c[i] = known[k] /\ Eligible(known[k], eval.at, policy)
    BY <1>1, <1>2
  <1>4. InOrder(known) => \A j \in 1..Len(known) : Eligible(known[j], eval.at, policy) =>
          \E i \in 1..1 : Off(c[i], eval) <= Off(known[j], eval)
    BY <1>2, NearerAfter
  <1>5. LET pair == NearestOf(eval, c, policy)
        IN pair.eval = eval /\ IsFound(pair, known, policy) /\ IsPair(pair)
    BY <1>2, <1>3, <1>4, SearchIsFound
  <1>6. QED
    BY <1>5 DEF c

LEMMA SearchBoth ==
  ASSUME NEW known \in Seq(Reference), NEW policy, IsPolicy(policy), NEW eval, eval.at \in Int,
         eval.value \in Int,
         \A j \in 1..Len(known) : known[j].at # eval.at,
         NEW p, IsLastBefore(p, known, eval.at), NEW q, IsFirstAfter(q, known, eval.at),
         Eligible(known[q], eval.at, policy)
  PROVE  LET pair == NearestOf(eval, <<known[p], known[q]>>, policy)
         IN pair.eval = eval /\ IsFound(pair, known, policy) /\ IsPair(pair)
  <1> DEFINE c == <<known[p], known[q]>>
  <1>1. /\ p \in 1..Len(known) /\ known[p].at < eval.at
        /\ q \in 1..Len(known) /\ known[q].at > eval.at
    BY DEF IsLastBefore, IsFirstAfter
  <1>2. known[p] \in Reference /\ known[q] \in Reference /\ known[p].at \in Int
    <2>1. known[p] \in Reference /\ known[q] \in Reference
      BY <1>1
    <2>2. QED
      BY <2>1, OffIs
  <1>3. DOMAIN c = 1..2 /\ c[1] = known[p] /\ c[2] = known[q]
    BY OneOrTwo
  <1> HIDE DEF c
  <1>4. Eligible(known[p], eval.at, policy)
    BY <1>1, <1>2 DEF Eligible
  <1>5. \A i \in 1..2 : \E k \in 1..Len(known) : c[i] = known[k] /\ Eligible(known[k], eval.at, policy)
    <2> SUFFICES ASSUME NEW i \in 1..2
                 PROVE  \E k \in 1..Len(known) : c[i] = known[k] /\ Eligible(known[k], eval.at, policy)
      OBVIOUS
    <2>1. i = 1 \/ i = 2
      OBVIOUS
    <2>2. QED
      BY <1>1, <1>3, <1>4, <2>1
  <1>6. ASSUME InOrder(known), NEW j \in 1..Len(known)
        PROVE  \E i \in 1..2 : Off(c[i], eval) <= Off(known[j], eval)
    <2>1. known[j].at \in Int /\ known[j].at # eval.at
      <3>1. known[j] \in Reference
        OBVIOUS
      <3>2. QED
        BY <3>1, OffIs
    <2>2. CASE known[j].at < eval.at
      <3>1. Off(known[p], eval) <= Off(known[j], eval)
        BY <1>6, <2>2, NearerBefore
      <3>2. QED
        BY <1>3, <3>1
    <2>3. CASE known[j].at > eval.at
      <3>1. Off(known[q], eval) <= Off(known[j], eval)
        BY <1>6, <2>3, NearerAfter
      <3>2. QED
        BY <1>3, <3>1
    <2>4. QED
      BY <2>1, <2>2, <2>3
  <1>7. LET pair == NearestOf(eval, c, policy)
        IN pair.eval = eval /\ IsFound(pair, known, policy) /\ IsPair(pair)
    BY <1>3, <1>5, <1>6, SearchIsFound
  <1>8. QED
    BY <1>7 DEF c

LEMMA BatchIsFound ==
  ASSUME NEW known \in Seq(Reference), NEW policy, IsPolicy(policy),
         policy.mode = "NON_CAUSAL_BATCH", NEW eval, eval.at \in Int,
         eval.value \in Int
  PROVE  LET pair == AlignBatch(eval, known, policy)
         IN pair.eval = eval /\ IsFound(pair, known, policy) /\ IsPair(pair)
  <1> DEFINE E == {i \in DOMAIN known : known[i].at = eval.at}
             P == {i \in DOMAIN known : known[i].at < eval.at}
             F == {i \in DOMAIN known : known[i].at > eval.at}
             exact == Picked(known, E)
             past == Picked(known, P)
             future == Picked(known, F)
             searched == SearchedOf(known, P, F, policy)
             linear == policy.interpolation = "LINEAR_PIECEWISE" /\ past # <<>> /\ future # <<>>
             n == Len(known)
             pair == AlignBatch(eval, known, policy)
  <1>1. n \in Nat /\ DOMAIN known = 1..n /\ \A i \in 1..n : known[i] \in Reference
    OBVIOUS
  <1>2. pair = IF exact # <<>>
               THEN PairedWith(eval, "EXACT_MATCH", "DIRECT_OBSERVATION", Head(exact))
               ELSE IF linear THEN Interpolated(eval, Last(past), Head(future), policy)
               ELSE IF searched = <<>> THEN Unpaired(eval, "OUTSIDE_TOLERANCE")
               ELSE NearestOf(eval, searched, policy)
    BY DEF AlignBatch, Chosen, SearchedOf
  <1>3. /\ E \in SUBSET (1..n) /\ P \in SUBSET (1..n) /\ F \in SUBSET (1..n)
        /\ \A i \in 1..n : /\ i \in E <=> known[i].at = eval.at
                           /\ i \in P <=> known[i].at < eval.at
                           /\ i \in F <=> known[i].at > eval.at
    BY <1>1
  <1>4. \A i \in 1..n : known[i].at \in Int
    BY <1>1, OffIs
  <1>5. policy.gap \in Nat /\ policy.tolerance \in Nat
    BY DEF IsPolicy
  <1> HIDE DEF E, P, F, pair, n
  <1>6. CASE E # {}
    <2>1. exact # <<>> /\ \E i \in E : Head(exact) = known[i] /\ \A j \in E : i <= j
      BY <1>3, <1>6, ChosenHasEnds DEF n
    <2>2. PICK i \in E : Head(exact) = known[i]
      BY <2>1
    <2>3. i \in 1..n /\ known[i] \in Reference /\ known[i].at = eval.at
      BY <1>1, <1>3
    <2>4. pair = PairedWith(eval, "EXACT_MATCH", "DIRECT_OBSERVATION", known[i])
      BY <1>2, <2>1, <2>2
    <2>5. IsPairedWith(pair, eval, known[i])
      BY <2>4, PairedWithIs
    <2>6. Off(known[i], eval) = 0
      BY <2>3 DEF Off, Abs
    <2>7. Off(known[i], eval) <= policy.gap /\ Off(known[i], eval) <= policy.tolerance
      BY <1>5, <2>6
    <2>8. known[i].at <= eval.at
      BY <2>3
    <2>9. Eligible(known[i], eval.at, policy)
      BY <2>8 DEF Eligible
    <2>10. \A j \in 1..n : Off(known[i], eval) <= Off(known[j], eval)
      BY <1>1, <2>6, OffIs
    <2>11. pair.eval = eval /\ IsFound(pair, known, policy) /\ IsPair(pair)
      BY <2>3, <2>5, <2>7, <2>9, <2>10, FoundNearest DEF n
    <2>12. QED
      BY <2>11 DEF pair
  <1>7. CASE E = {}
    <2>1. exact = <<>>
      BY <1>7, NothingChosen
    <2>2. \A j \in 1..n : known[j].at # eval.at
      BY <1>3, <1>7
    <2>3. P # {} => past # <<>> /\ \E p : IsLastBefore(p, known, eval.at) /\ Last(past) = known[p]
      <3> SUFFICES ASSUME P # {}
                   PROVE  past # <<>> /\ \E p : IsLastBefore(p, known, eval.at) /\ Last(past) = known[p]
        OBVIOUS
      <3>1. past # <<>> /\ \E p \in P : Last(past) = known[p] /\ \A j \in P : j <= p
        BY <1>3, ChosenHasEnds DEF n
      <3>2. PICK p \in P : Last(past) = known[p] /\ \A j \in P : j <= p
        BY <3>1
      <3>3. IsLastBefore(p, known, eval.at)
        BY <1>3, <3>2 DEF IsLastBefore, n
      <3>4. QED
        BY <3>1, <3>2, <3>3
    <2>4. F # {} => future # <<>> /\ \E q : IsFirstAfter(q, known, eval.at) /\ Head(future) = known[q]
      <3> SUFFICES ASSUME F # {}
                   PROVE  future # <<>> /\ \E q : IsFirstAfter(q, known, eval.at) /\ Head(future) = known[q]
        OBVIOUS
      <3>1. future # <<>> /\ \E q \in F : Head(future) = known[q] /\ \A j \in F : q <= j
        BY <1>3, ChosenHasEnds DEF n
      <3>2. PICK q \in F : Head(future) = known[q] /\ \A j \in F : q <= j
        BY <3>1
      <3>3. IsFirstAfter(q, known, eval.at)
        BY <1>3, <3>2 DEF IsFirstAfter, n
      <3>4. QED
        BY <3>1, <3>2, <3>3
    <2>5. (P = {} => past = <<>>) /\ (F = {} => future = <<>>)
      BY NothingChosen
    <2> HIDE DEF exact, past, future
    <2>6. CASE linear
      <3>1. PICK p : IsLastBefore(p, known, eval.at) /\ Last(past) = known[p]
        BY <2>3, <2>5, <2>6
      <3>2. PICK q : IsFirstAfter(q, known, eval.at) /\ Head(future) = known[q]
        BY <2>4, <2>5, <2>6
      <3>3. pair = Interpolated(eval, known[p], known[q], policy)
        BY <1>2, <2>1, <2>6, <3>1, <3>2
      <3>4. /\ p \in 1..n /\ known[p].at < eval.at /\ \A j \in 1..n : known[j].at < eval.at => j <= p
        BY <3>1 DEF IsLastBefore, n
      <3>5. /\ q \in 1..n /\ eval.at < known[q].at /\ \A j \in 1..n : eval.at < known[j].at => q <= j
        BY <1>4, <3>2 DEF IsFirstAfter, n
      <3>6. LET found == Interpolated(eval, known[p], known[q], policy)
            IN found.eval = eval /\ IsFound(found, known, policy) /\ IsPair(found)
        BY <2>2, <3>4, <3>5, InterpolatedIsFound DEF n
      <3>7. QED
        BY <3>3, <3>6 DEF pair
    <2>7. CASE ~linear
      <3>1. pair = IF searched = <<>> THEN Unpaired(eval, "OUTSIDE_TOLERANCE")
                   ELSE NearestOf(eval, searched, policy)
        BY <1>2, <2>1, <2>7
      <3>2. searched = (IF past = <<>> THEN <<>> ELSE <<Last(past)>>)
                       \o (IF future # <<>> /\ policy.resampling = "BIDIRECTIONAL_NEAREST"
                           THEN <<Head(future)>> ELSE <<>>)
        BY DEF SearchedOf, past, future
      <3> HIDE DEF searched
      <3> DEFINE both == policy.resampling = "BIDIRECTIONAL_NEAREST"
      <3>3. \A j \in 1..n : Eligible(known[j], eval.at, policy) <=> known[j].at <= eval.at \/ both
        BY DEF Eligible
      <3>4. CASE P = {} /\ (F = {} \/ ~both)
        <4>1. searched = <<>>
          BY <2>5, <3>2, <3>4, Joined
        <4>2. pair = Unpaired(eval, "OUTSIDE_TOLERANCE")
          BY <3>1, <4>1
        <4>3. IsUnpaired(pair, eval)
          BY <4>2, UnpairedIs
        <4>4. pair.eval = eval /\ IsFound(pair, known, policy) /\ IsPair(pair)
          BY <2>2, <4>3, FoundNothing DEF n
        <4>5. QED
          BY <4>4 DEF pair
      <3>5. CASE P # {} /\ (F = {} \/ ~both)
        <4>1. PICK p : IsLastBefore(p, known, eval.at) /\ Last(past) = known[p]
          BY <2>3, <3>5
        <4>2. known[p] \in Reference
          BY <1>1, <4>1 DEF IsLastBefore, n
        <4>3. searched = <<known[p]>> \o <<>>
          BY <2>3, <2>5, <3>2, <3>5, <4>1
        <4>4. searched = <<known[p]>> /\ searched # <<>>
          BY <4>2, <4>3, Joined, OneOrTwo
        <4>5. \A j \in 1..n : Eligible(known[j], eval.at, policy) => known[j].at < eval.at
          <5> SUFFICES ASSUME NEW j \in 1..n, Eligible(known[j], eval.at, policy)
                       PROVE  known[j].at < eval.at
            OBVIOUS
          <5>1. known[j].at <= eval.at \/ both
            BY <3>3
          <5>2. ~(known[j].at > eval.at) \/ ~both
            BY <1>3, <3>5
          <5>3. QED
            BY <1>4, <2>2, <5>1, <5>2
        <4>6. pair = NearestOf(eval, <<known[p]>>, policy)
          BY <3>1, <4>4
        <4>7. pair.eval = eval /\ IsFound(pair, known, policy) /\ IsPair(pair)
          <5>1. LET found == NearestOf(eval, <<known[p]>>, policy)
                IN found.eval = eval /\ IsFound(found, known, policy) /\ IsPair(found)
            BY <2>2, <4>1, <4>5, SearchBefore DEF n
          <5>2. QED
            BY <4>6, <5>1
        <4>8. QED
          BY <4>7 DEF pair
      <3>6. CASE P = {} /\ F # {} /\ both
        <4>1. PICK q : IsFirstAfter(q, known, eval.at) /\ Head(future) = known[q]
          BY <2>4, <3>6
        <4>2. q \in 1..n /\ known[q] \in Reference
          BY <1>1, <4>1 DEF IsFirstAfter, n
        <4>3. searched = <<>> \o <<known[q]>>
          BY <2>4, <2>5, <3>2, <3>6, <4>1
        <4>4. searched = <<known[q]>> /\ searched # <<>>
          BY <4>2, <4>3, Joined, OneOrTwo
        <4>5. \A j \in 1..n : known[j].at > eval.at
          BY <1>3, <1>4, <2>2, <3>6
        <4>6. Eligible(known[q], eval.at, policy)
          BY <3>3, <3>6, <4>2
        <4>7. pair = NearestOf(eval, <<known[q]>>, policy)
          BY <3>1, <4>4
        <4>8. pair.eval = eval /\ IsFound(pair, known, policy) /\ IsPair(pair)
          <5>1. LET found == NearestOf(eval, <<known[q]>>, policy)
                IN found.eval = eval /\ IsFound(found, known, policy) /\ IsPair(found)
            BY <2>2, <4>1, <4>5, <4>6, SearchAfter DEF n
          <5>2. QED
            BY <4>7, <5>1
        <4>9. QED
          BY <4>8 DEF pair
      <3>7. CASE P # {} /\ F # {} /\ both
        <4>1. PICK p : IsLastBefore(p, known, eval.at) /\ Last(past) = known[p]
          BY <2>3, <3>7
        <4>2. PICK q : IsFirstAfter(q, known, eval.at) /\ Head(future) = known[q]
          BY <2>4, <3>7
        <4>3. q \in 1..n /\ known[p] \in Reference /\ known[q] \in Reference
          BY <1>1, <4>1, <4>2 DEF IsLastBefore, IsFirstAfter, n
        <4>4. searched = <<known[p]>> \o <<known[q]>>
          BY <2>3, <2>4, <3>2, <3>7, <4>1, <4>2
        <4>5. searched = <<known[p], known[q]>> /\ searched # <<>>
          BY <4>3, <4>4, Joined, OneOrTwo
        <4>6. Eligible(known[q], eval.at, policy)
          BY <3>3, <3>7, <4>3
        <4>7. pair = NearestOf(eval, <<known[p], known[q]>>, policy)
          BY <3>1, <4>5
        <4>8. pair.eval = eval /\ IsFound(pair, known, policy) /\ IsPair(pair)
          <5>1. LET found == NearestOf(eval, <<known[p], known[q]>>, policy)
                IN found.eval = eval /\ IsFound(found, known, policy) /\ IsPair(found)
            BY <2>2, <4>1, <4>2, <4>6, SearchBoth DEF n
          <5>2. QED
            BY <4>7, <5>1
        <4>9. QED
          BY <4>8 DEF pair
      <3>8. QED
        BY <3>4, <3>5, <3>6, <3>7
    <2>8. QED
      BY <2>6, <2>7
  <1>8. QED
    BY <1>6, <1>7

\* A sample is paired by what was measured of its signal.
LEMMA SampleIsFound ==
  ASSUME NEW frames, frames \in Seq({f \in ToSet(frames) : IsFrame(f)}), NEW s \in Signals,
         NEW policy, IsPolicy(policy), Missing \notin Int, NEW eval, eval.at \in Int,
         eval.value \in Int
  PROVE  LET pair == AlignSample(eval, s, frames, policy)
         IN pair.eval = eval /\ IsFound(pair, Measured(frames, s, policy), policy) /\ IsPair(pair)
  <1> DEFINE known == Measured(frames, s, policy)
             pair == AlignSample(eval, s, frames, policy)
  <1>1. known \in Seq(Reference)
    BY MeasuredIs
  <1>2. pair = CASE known = <<>> -> Unpaired(eval, "MISSING_REFERENCE")
                 [] known # <<>> /\ policy.mode = "CAUSAL_STREAMING" -> AlignCausal(eval, known, policy)
                 [] OTHER -> AlignBatch(eval, known, policy)
    BY DEF AlignSample
  <1>3. policy.mode \in {"CAUSAL_STREAMING", "NON_CAUSAL_BATCH"}
    BY DEF IsPolicy, Modes
  <1> HIDE DEF known, pair
  <1>4. CASE known = <<>>
    <2>1. pair = Unpaired(eval, "MISSING_REFERENCE")
      BY <1>2, <1>4
    <2>2. IsUnpaired(pair, eval)
      BY <2>1, UnpairedIs
    <2>3. \A j \in 1..Len(known) : known[j].at # eval.at
      BY <1>4
    <2>4. pair.eval = eval /\ IsFound(pair, known, policy) /\ IsPair(pair)
      BY <1>1, <2>2, <2>3, FoundNothing
    <2>5. QED
      BY <2>4 DEF pair, known
  <1>5. CASE known # <<>> /\ policy.mode = "CAUSAL_STREAMING"
    <2>1. pair = AlignCausal(eval, known, policy)
      BY <1>2, <1>5
    <2>2. pair.eval = eval /\ IsFound(pair, known, policy) /\ IsPair(pair)
      BY <1>1, <1>5, <2>1, CausalIsFound
    <2>3. QED
      BY <2>2 DEF pair, known
  <1>6. CASE known # <<>> /\ policy.mode = "NON_CAUSAL_BATCH"
    <2>1. pair = AlignBatch(eval, known, policy)
      BY <1>2, <1>6
    <2>2. pair.eval = eval /\ IsFound(pair, known, policy) /\ IsPair(pair)
      BY <1>1, <1>6, <2>1, BatchIsFound
    <2>3. QED
      BY <2>2 DEF pair, known
  <1>7. QED
    BY <1>3, <1>4, <1>5, <1>6

-----------------------------------------------------------------------------
(* A series: the clock is the latest time so far.                          *)

\* evals are n samples with times.
AreTimed(evals, n) ==
  n \in Nat /\ Len(evals) = n /\ DOMAIN evals = 1..n /\ \A i \in 1..n : evals[i].at \in Int

IsLatest(t, evals, k) ==
  t \in Int /\ (\E i \in 1..k : t = evals[i].at) /\ \A i \in 1..k : evals[i].at <= t

\* Nothing older than the clock is accepted, nor as old without duplicates.
Rejecting(policy) ==
  /\ policy.rejectsRetrograde = TRUE /\ policy.duplicates \in BOOLEAN
  /\ Missing \notin Int \union Rejections

LEMMA RejectionIs ==
  ASSUME NEW policy, Rejecting(policy), NEW at \in Int, NEW c \in Int
  PROVE  Rejection(at, c, policy) = Missing <=> c <= at /\ (policy.duplicates \/ at # c)
  <1>1. c # Missing /\ Missing # "RETROGRADE_REJECTED" /\ Missing # "DUPLICATE_REJECTED"
    BY DEF Rejecting, Rejections
  <1>2. Rejection(at, c, policy) =
          IF at < c THEN "RETROGRADE_REJECTED"
          ELSE IF ~policy.duplicates /\ at = c THEN "DUPLICATE_REJECTED" ELSE Missing
    BY <1>1 DEF Rejection, Rejecting
  <1>3. at < c <=> ~(c <= at)
    OBVIOUS
  <1>4. QED
    BY <1>1, <1>2, <1>3 DEF Rejecting

\* The clock after sample k, by the one before it.
Tick(evals, policy, k, c) == IF Rejection(evals[k].at, c, policy) = Missing THEN evals[k].at ELSE c

LEMMA FirstTick ==
  ASSUME NEW policy, NEW evals, NEW n, AreTimed(evals, n), 1 \in 1..n
  PROVE  IsLatest(Tick(evals, policy, 1, Missing), evals, 1)
  <1>1. Tick(evals, policy, 1, Missing) = evals[1].at
    BY DEF Tick, Rejection
  <1>2. evals[1].at \in Int
    BY DEF AreTimed
  <1>3. QED
    BY <1>1, <1>2 DEF IsLatest

LEMMA NextTick ==
  ASSUME NEW policy, Rejecting(policy), NEW evals, NEW n, AreTimed(evals, n),
         NEW k \in 1..n, k # 1, NEW c, IsLatest(c, evals, k - 1)
  PROVE  IsLatest(Tick(evals, policy, k, c), evals, k)
  <1> DEFINE at == evals[k].at
             t == Tick(evals, policy, k, c)
  <1>1. n \in Nat /\ at \in Int /\ c \in Int /\ k \in Nat /\ k - 1 \in Nat
    BY DEF AreTimed, IsLatest
  <1>2. Rejection(at, c, policy) = Missing <=> c <= at /\ (policy.duplicates \/ at # c)
    BY <1>1, RejectionIs
  <1>3. (t = at /\ c <= at) \/ (t = c /\ at <= c)
    <2>1. t = IF Rejection(at, c, policy) = Missing THEN at ELSE c
      BY DEF Tick
    <2> HIDE DEF t, at
    <2>2. CASE c <= at /\ (policy.duplicates \/ at # c)
      BY <1>2, <2>1, <2>2
    <2>3. CASE ~(c <= at /\ (policy.duplicates \/ at # c))
      <3>1. t = c
        BY <1>2, <2>1, <2>3
      <3>2. at <= c
        BY <1>1, <2>3
      <3>3. QED
        BY <3>1, <3>2
    <2>4. QED
      BY <2>2, <2>3
  <1> HIDE DEF t
  <1>4. PICK i \in 1..k - 1 : c = evals[i].at
    BY DEF IsLatest
  <1>5. i \in 1..k /\ k \in 1..k
    BY <1>1, <1>4
  <1>6. t \in Int /\ \E j \in 1..k : t = evals[j].at
    BY <1>1, <1>3, <1>4, <1>5
  <1>7. ASSUME NEW j \in 1..k
        PROVE  evals[j].at <= t
    <2>1. j \in 1..k - 1 \/ j = k
      BY <1>1
    <2>2. CASE j = k
      BY <1>1, <1>3, <2>2
    <2>3. CASE j \in 1..k - 1
      <3>1. evals[j].at <= c
        BY <2>3 DEF IsLatest
      <3>2. j \in 1..n
        BY <1>1, <2>3
      <3>3. evals[j].at \in Int
        BY <3>2 DEF AreTimed
      <3> HIDE DEF at
      <3>4. QED
        BY <1>1, <1>3, <3>1, <3>3
    <2>4. QED
      BY <2>1, <2>2, <2>3
  <1>8. QED
    BY <1>6, <1>7 DEF IsLatest, t

\* What the clocks of a series are, as a recursive function.
AreClocks(clock, evals, policy) ==
  clock = [k \in 0..Len(evals) |->
             IF k = 0 THEN Missing
             ELSE IF Rejection(evals[k].at, clock[k - 1], policy) = Missing THEN evals[k].at
             ELSE clock[k - 1]]

LEMMA ClockTicks ==
  ASSUME NEW policy, NEW evals, NEW n, AreTimed(evals, n), NEW clock, AreClocks(clock, evals, policy)
  PROVE  clock[0] = Missing /\ \A k \in 1..n : clock[k] = Tick(evals, policy, k, clock[k - 1])
  <1>1. n \in Nat /\ Len(evals) = n
    BY DEF AreTimed
  <1>2. clock = [k \in 0..n |-> IF k = 0 THEN Missing ELSE Tick(evals, policy, k, clock[k - 1])]
    BY <1>1 DEF AreClocks, Tick
  <1>3. 0 \in 0..n /\ \A k \in 1..n : k \in 0..n /\ k # 0
    BY <1>1
  <1>4. QED
    BY <1>2, <1>3

LEMMA ClocksAreLatest ==
  ASSUME NEW policy, Rejecting(policy), NEW evals, NEW n, AreTimed(evals, n),
         NEW clock, AreClocks(clock, evals, policy), NEW k \in 1..n
  PROVE  IsLatest(clock[k], evals, k)
  <1>1. n \in Nat /\ clock[0] = Missing /\ \A j \in 1..n : clock[j] = Tick(evals, policy, j, clock[j - 1])
    <2>1. n \in Nat
      BY DEF AreTimed
    <2>2. clock[0] = Missing /\ \A j \in 1..n : clock[j] = Tick(evals, policy, j, clock[j - 1])
      BY ClockTicks
    <2>3. QED
      BY <2>1, <2>2
  <1> DEFINE T == {j \in 1..n : ~IsLatest(clock[j], evals, j)}
  <1>2. SUFFICES ASSUME T # {} PROVE FALSE
    OBVIOUS
  <1>3. T \in SUBSET Nat
    BY <1>1
  <1>4. PICK j \in T : \A i \in T : j <= i
    BY <1>2, <1>3, LeastNumber
  <1>5. j \in 1..n /\ j \in Nat /\ ~IsLatest(clock[j], evals, j)
    BY <1>1, <1>4
  <1>6. CASE j = 1
    <2>1. clock[1] = Tick(evals, policy, 1, Missing)
      <3>1. clock[1] = Tick(evals, policy, 1, clock[1 - 1])
        BY <1>1, <1>5, <1>6
      <3>2. 1 - 1 = 0
        OBVIOUS
      <3>3. QED
        BY <1>1, <3>1, <3>2
    <2>2. QED
      BY <1>5, <1>6, <2>1, FirstTick
  <1>7. CASE j # 1
    <2>1. j - 1 \in 1..n /\ ~(j <= j - 1)
      BY <1>1, <1>5, <1>7
    <2>2. IsLatest(clock[j - 1], evals, j - 1)
      BY <1>4, <2>1
    <2>3. IsLatest(Tick(evals, policy, j, clock[j - 1]), evals, j)
      BY <1>5, <1>7, <2>2, NextTick
    <2>4. QED
      BY <1>1, <1>5, <2>3
  <1>8. QED
    BY <1>6, <1>7

LEMMA LatestExists ==
  ASSUME NEW policy, Rejecting(policy), NEW evals, NEW n, AreTimed(evals, n), NEW k \in 1..n
  PROVE  \E t : IsLatest(t, evals, k)
  <1>1. n \in Nat
    BY DEF AreTimed
  <1> DEFINE T == {j \in 1..n : ~\E t : IsLatest(t, evals, j)}
  <1>2. SUFFICES ASSUME T # {} PROVE FALSE
    OBVIOUS
  <1>3. T \in SUBSET Nat
    BY <1>1
  <1>4. PICK j \in T : \A i \in T : j <= i
    BY <1>2, <1>3, LeastNumber
  <1>5. j \in 1..n /\ j \in Nat /\ ~\E t : IsLatest(t, evals, j)
    BY <1>1, <1>4
  <1>6. CASE j = 1
    BY <1>5, <1>6, FirstTick
  <1>7. CASE j # 1
    <2>1. j - 1 \in 1..n /\ ~(j <= j - 1)
      BY <1>1, <1>5, <1>7
    <2>2. PICK c : IsLatest(c, evals, j - 1)
      BY <1>4, <2>1
    <2>3. IsLatest(Tick(evals, policy, j, c), evals, j)
      BY <1>5, <1>7, <2>2, NextTick
    <2>4. QED
      BY <1>5, <2>3
  <1>8. QED
    BY <1>6, <1>7

LEMMA ClocksExist ==
  ASSUME NEW policy, Rejecting(policy), NEW evals, NEW n, AreTimed(evals, n)
  PROVE  AreClocks(Clocks(evals, policy), evals, policy)
  <1> DEFINE latest(k) == CHOOSE t : IsLatest(t, evals, k)
             g == [k \in 0..n |-> IF k = 0 THEN Missing ELSE latest(k)]
  <1>1. n \in Nat /\ Len(evals) = n
    BY DEF AreTimed
  <1>2. \A k \in 1..n : IsLatest(latest(k), evals, k)
    BY LatestExists
  <1> HIDE DEF latest
  <1>3. g[0] = Missing /\ \A k \in 1..n : g[k] = latest(k)
    BY <1>1
  <1>4. \A k \in 0..n : g[k] = IF k = 0 THEN Missing ELSE Tick(evals, policy, k, g[k - 1])
    <2> SUFFICES ASSUME NEW k \in 1..n PROVE g[k] = Tick(evals, policy, k, g[k - 1])
      <3>1. \A k \in 0..n : k = 0 \/ k \in 1..n
        BY <1>1
      <3> HIDE DEF g
      <3>2. \A k \in 1..n : k # 0
        BY <1>1
      <3>3. QED
        BY <1>3, <3>1, <3>2
    <2> HIDE DEF g
    <2>1. IsLatest(Tick(evals, policy, k, g[k - 1]), evals, k)
      <3>1. CASE k = 1
        <4>1. g[k - 1] = Missing
          BY <1>3, <3>1
        <4>2. QED
          BY <3>1, <4>1, FirstTick
      <3>2. CASE k # 1
        <4>1. k - 1 \in 1..n
          BY <1>1, <3>2
        <4>2. IsLatest(g[k - 1], evals, k - 1)
          BY <1>2, <1>3, <4>1
        <4>3. QED
          BY <3>2, <4>2, NextTick
      <3>3. QED
        BY <3>1, <3>2
    <2>2. IsLatest(g[k], evals, k)
      BY <1>2, <1>3
    <2>3. \A t, u : IsLatest(t, evals, k) /\ IsLatest(u, evals, k) => t = u
      <3> SUFFICES ASSUME NEW t, NEW u, IsLatest(t, evals, k), IsLatest(u, evals, k) PROVE t = u
        OBVIOUS
      <3>1. t \in Int /\ u \in Int /\ t <= u /\ u <= t
        BY DEF IsLatest
      <3>2. QED
        BY <3>1
    <2>4. QED
      BY <2>1, <2>2, <2>3
  <1>5. g = [k \in 0..n |-> g[k]]
    OBVIOUS
  <1> HIDE DEF g
  <1>6. g = [k \in 0..n |-> IF k = 0 THEN Missing ELSE Tick(evals, policy, k, g[k - 1])]
    BY <1>4, <1>5
  <1>7. AreClocks(g, evals, policy)
    BY <1>1, <1>6 DEF AreClocks, Tick
  <1>8. Clocks(evals, policy) = CHOOSE clock : AreClocks(clock, evals, policy)
    BY Zenon DEF Clocks, AreClocks
  <1>9. QED
    BY <1>7, <1>8

\* No sample is rejected but by its time.
LEMMA NotRejected ==
  ASSUME NEW eval, NEW s, NEW frames, NEW policy
  PROVE  AlignSample(eval, s, frames, policy).status \notin Rejections
  <1> DEFINE Taken(pair) == pair.status \notin Rejections
             Some == {"MISSING_REFERENCE", "OUTSIDE_TOLERANCE", "DATA_GAPPED", "EXACT_MATCH",
                      "SAMPLE_AND_HOLD", "NEAREST_PAST_MATCH", "NEAREST_FUTURE_MATCH",
                      "INTERPOLATED_LINEAR"}
  <1>1. \A status \in Some : status \notin Rejections
    BY DEF Rejections
  <1>2. \A status \in Some : Taken(Unpaired(eval, status))
    BY <1>1, UnpairedIs
  <1>3. \A status \in Some : \A kind, at, ref, sigma : Taken(Paired(eval, status, kind, at, ref, sigma))
    BY <1>1, PairedIs
  <1>4. \A status \in Some : \A kind, r : Taken(PairedWith(eval, status, kind, r))
    BY <1>3 DEF PairedWith
  <1> HIDE DEF Taken
  <1>5. ASSUME NEW known
        PROVE  Taken(AlignCausal(eval, known, policy))
    BY <1>2, <1>4 DEF AlignCausal
  <1>6. ASSUME NEW a, NEW b
        PROVE  Taken(Interpolated(eval, a, b, policy))
    BY <1>2, <1>3 DEF Interpolated
  <1>7. ASSUME NEW candidates
        PROVE  Taken(NearestOf(eval, candidates, policy))
    BY <1>2, <1>4 DEF NearestOf
  <1>8. ASSUME NEW known
        PROVE  Taken(AlignBatch(eval, known, policy))
    BY <1>2, <1>4, <1>6, <1>7 DEF AlignBatch
  <1>9. Taken(AlignSample(eval, s, frames, policy))
    BY <1>2, <1>5, <1>8 DEF AlignSample
  <1>10. QED
    BY <1>9 DEF Taken

\* Where older samples are taken, the clock is the time of the sample before.
LEMMA FollowingClocks ==
  ASSUME NEW policy, policy.rejectsRetrograde = FALSE, Missing \notin Int \union Rejections,
         NEW evals, NEW n, AreTimed(evals, n)
  PROVE  AreClocks(Clocks(evals, policy), evals, policy)
  <1> DEFINE g == [k \in 0..n |-> IF k = 0 THEN Missing ELSE evals[k].at]
  <1>1. n \in Nat /\ Len(evals) = n /\ \A k \in 1..n : evals[k].at \in Int
    BY DEF AreTimed
  <1>2. g[0] = Missing /\ \A k \in 1..n : g[k] = evals[k].at
    BY <1>1
  <1>3. ASSUME NEW k \in 1..n
        PROVE  Tick(evals, policy, k, g[k - 1]) = evals[k].at
    <2> DEFINE at == evals[k].at
               c == g[k - 1]
    <2> HIDE DEF at, c
    <2>1. Rejection(at, c, policy) = Missing \/ at = c
      BY DEF Rejection
    <2>2. QED
      BY <2>1 DEF Tick, at, c
  <1>4. g = [k \in 0..n |-> g[k]]
    OBVIOUS
  <1> HIDE DEF g
  <1>5. \A k \in 0..n : k = 0 \/ k \in 1..n
    BY <1>1
  <1>6. \A k \in 0..n : g[k] = IF k = 0 THEN Missing ELSE Tick(evals, policy, k, g[k - 1])
    BY <1>2, <1>3, <1>5
  <1>7. g = [k \in 0..n |-> IF k = 0 THEN Missing ELSE Tick(evals, policy, k, g[k - 1])]
    BY <1>4, <1>6
  <1>8. AreClocks(g, evals, policy)
    BY <1>1, <1>7 DEF AreClocks, Tick
  <1>9. Clocks(evals, policy) = CHOOSE clock : AreClocks(clock, evals, policy)
    BY Zenon DEF Clocks, AreClocks
  <1>10. QED
    BY <1>8, <1>9

LEMMA SeriesHasClocks ==
  ASSUME NEW policy, IsPolicy(policy), Missing \notin Int \union Rejections,
         NEW evals, NEW n, AreTimed(evals, n)
  PROVE  AreClocks(Clocks(evals, policy), evals, policy)
  <1>1. CASE policy.rejectsRetrograde = TRUE
    <2>1. Rejecting(policy)
      BY <1>1 DEF Rejecting, IsPolicy
    <2>2. QED
      BY <2>1, ClocksExist
  <1>2. CASE policy.rejectsRetrograde = FALSE
    BY <1>2, FollowingClocks
  <1>3. QED
    BY <1>1, <1>2 DEF IsPolicy

\* The clock is the time of a sample that was taken.
LEMMA ClockWasTaken ==
  ASSUME NEW policy, NEW evals, NEW n, AreTimed(evals, n),
         NEW clock, AreClocks(clock, evals, policy), NEW k \in 1..n
  PROVE  \E i \in 1..k : /\ clock[k] = evals[i].at
                         /\ Rejection(evals[i].at, clock[i - 1], policy) = Missing
  <1> DEFINE was(j) == \E i \in 1..j : /\ clock[j] = evals[i].at
                                       /\ Rejection(evals[i].at, clock[i - 1], policy) = Missing
             T == {j \in 1..n : ~was(j)}
  <1>1. n \in Nat /\ clock[0] = Missing /\ \A j \in 1..n : clock[j] = Tick(evals, policy, j, clock[j - 1])
    <2>1. n \in Nat
      BY DEF AreTimed
    <2>2. clock[0] = Missing /\ \A j \in 1..n : clock[j] = Tick(evals, policy, j, clock[j - 1])
      BY ClockTicks
    <2>3. QED
      BY <2>1, <2>2
  <1>2. SUFFICES ASSUME T # {} PROVE FALSE
    OBVIOUS
  <1>3. T \in SUBSET Nat
    BY <1>1
  <1>4. PICK j \in T : \A i \in T : j <= i
    BY <1>2, <1>3, LeastNumber
  <1>5. j \in 1..n /\ j \in Nat /\ j \in 1..j /\ ~was(j)
    BY <1>1, <1>4
  <1>6. CASE Rejection(evals[j].at, clock[j - 1], policy) = Missing
    <2>1. clock[j] = evals[j].at
      BY <1>1, <1>5, <1>6 DEF Tick
    <2>2. QED
      BY <1>5, <1>6, <2>1
  <1>7. CASE Rejection(evals[j].at, clock[j - 1], policy) # Missing
    <2>1. clock[j] = clock[j - 1]
      BY <1>1, <1>5, <1>7 DEF Tick
    <2>2. clock[j - 1] # Missing
      BY <1>7 DEF Rejection
    <2>3. j # 1
      <3>1. CASE j = 1
        <4>1. j - 1 = 0
          BY <3>1
        <4>2. QED
          BY <1>1, <2>2, <4>1
      <3>2. QED
        BY <3>1
    <2>4. j - 1 \in 1..n /\ ~(j <= j - 1)
      BY <1>1, <1>5, <2>3
    <2>5. was(j - 1)
      BY <1>4, <2>4
    <2>6. PICK i \in 1..(j - 1) : /\ clock[j - 1] = evals[i].at
                                  /\ Rejection(evals[i].at, clock[i - 1], policy) = Missing
      BY <2>5
    <2>7. i \in 1..j
      BY <1>5, <2>6
    <2>8. QED
      BY <1>5, <2>1, <2>6, <2>7
  <1>8. QED
    BY <1>6, <1>7

\* What a series takes is what its frames take, it only moves forward, and what
\* it rejects is no newer than what it took.
LEMMA SeriesFits ==
  ASSUME NEW policy, IsPolicy(policy), Missing \notin Int \union Rejections,
         NEW evals, NEW n, AreTimed(evals, n), NEW s, NEW frames, NEW mine,
         DOMAIN mine = 1..n, \A i \in 1..n : mine[i] = AlignSample(evals[i], s, frames, policy),
         \A i \in 1..n : mine[i].eval = evals[i]
  PROVE  SeriesAgrees(AlignTimeSeries(evals, s, frames, policy), mine, policy)
  <1> DEFINE series == AlignTimeSeries(evals, s, frames, policy)
             clock == Clocks(evals, policy)
             rejection(i) == Rejection(evals[i].at, clock[i - 1], policy)
             taken == {i \in DOMAIN series : series[i].status \notin Rejections}
  <1>1. n \in Nat /\ DOMAIN evals = 1..n /\ \A i \in 1..n : evals[i].at \in Int
    BY DEF AreTimed
  <1>2. series = [i \in 1..n |-> IF rejection(i) # Missing THEN Unpaired(evals[i], rejection(i))
                                 ELSE mine[i]]
    <2>1. series = [i \in DOMAIN evals |->
                      IF rejection(i) # Missing THEN Unpaired(evals[i], rejection(i))
                      ELSE AlignSample(evals[i], s, frames, policy)]
      BY DEF AlignTimeSeries
    <2> HIDE DEF series, rejection
    <2>2. QED
      BY <1>1, <2>1
  <1>3. \A i \in 1..n : rejection(i) # Missing => rejection(i) \in Rejections
    BY DEF Rejection, Rejections
  <1> HIDE DEF series, rejection
  <1>4. DOMAIN series = 1..n
    BY <1>2
  <1>5. ASSUME NEW i \in taken
        PROVE  i \in 1..n /\ rejection(i) = Missing /\ series[i] = mine[i]
    <2>1. i \in 1..n /\ series[i].status \notin Rejections
      BY <1>4
    <2>2. series[i] = IF rejection(i) # Missing THEN Unpaired(evals[i], rejection(i)) ELSE mine[i]
      BY <1>2, <2>1
    <2>3. rejection(i) = Missing
      BY <1>3, <2>1, <2>2, UnpairedIs
    <2>4. QED
      BY <2>1, <2>2, <2>3
  <1>6. ASSUME NEW i \in taken, NEW j \in taken, i < j, policy.rejectsRetrograde
        PROVE  \/ series[i].eval.at < series[j].eval.at
               \/ policy.duplicates /\ series[i].eval.at = series[j].eval.at
    <2>1. Rejecting(policy)
      BY <1>6 DEF Rejecting, IsPolicy
    <2>2. AreClocks(clock, evals, policy)
      BY <2>1, ClocksExist
    <2> HIDE DEF clock
    <2>3. i \in 1..n /\ j \in 1..n /\ j - 1 \in 1..n /\ i \in 1..j - 1
      <3>1. i \in 1..n /\ j \in 1..n
        BY <1>5
      <3>2. QED
        BY <1>1, <1>6, <3>1
    <2>4. IsLatest(clock[j - 1], evals, j - 1)
      BY <2>1, <2>2, <2>3, ClocksAreLatest
    <2>5. clock[j - 1] \in Int /\ evals[i].at <= clock[j - 1]
      BY <2>3, <2>4 DEF IsLatest
    <2>6. Rejection(evals[j].at, clock[j - 1], policy) = Missing
      BY <1>5 DEF rejection
    <2>7. evals[i].at \in Int /\ evals[j].at \in Int
      BY <1>1, <2>3
    <2>8. clock[j - 1] <= evals[j].at /\ (policy.duplicates \/ evals[j].at # clock[j - 1])
      BY <2>1, <2>5, <2>6, <2>7, RejectionIs
    <2>9. series[i].eval = evals[i] /\ series[j].eval = evals[j]
      BY <1>5, <2>3
    <2> DEFINE a == evals[i].at
               b == evals[j].at
               c == clock[j - 1]
    <2>10. a \in Int /\ b \in Int /\ c \in Int /\ a <= c /\ c <= b /\ (policy.duplicates \/ b # c)
      BY <2>5, <2>7, <2>8
    <2> HIDE DEF a, b, c
    <2>11. a < b \/ (policy.duplicates /\ a = b)
      BY <2>10
    <2>12. QED
      BY <2>9, <2>11 DEF a, b
  <1>7. ASSUME NEW i \in (DOMAIN series) \ taken
        PROVE  \E j \in taken : j < i /\ series[i].eval.at <= series[j].eval.at
    <2>1. i \in 1..n /\ series[i].status \in Rejections
      BY <1>4
    <2>2. AreClocks(clock, evals, policy)
      BY SeriesHasClocks
    <2> HIDE DEF clock
    <2>3. rejection(i) # Missing
      <3>1. CASE rejection(i) = Missing
        <4>1. series[i] = mine[i]
          BY <1>2, <2>1, <3>1
        <4>2. mine[i].status \notin Rejections
          BY <2>1, NotRejected
        <4>3. QED
          BY <2>1, <4>1, <4>2
      <3>2. QED
        BY <3>1
    <2>4. clock[i - 1] # Missing
      BY <2>3 DEF rejection, Rejection
    <2>5. clock[0] = Missing
      BY <2>2, ClockTicks
    <2>6. i # 1
      <3>1. CASE i = 1
        <4>1. i - 1 = 0
          BY <3>1
        <4>2. QED
          BY <2>4, <2>5, <4>1
      <3>2. QED
        BY <3>1
    <2>7. i - 1 \in 1..n
      BY <1>1, <2>1, <2>6
    <2>8. PICK j \in 1..(i - 1) : /\ clock[i - 1] = evals[j].at
                                 /\ Rejection(evals[j].at, clock[j - 1], policy) = Missing
      BY <2>2, <2>7, ClockWasTaken
    <2>9. j \in 1..n /\ j < i
      BY <1>1, <2>1, <2>8
    <2>10. series[j] = mine[j] /\ mine[j].status \notin Rejections
      <3>1. rejection(j) = Missing
        BY <2>8 DEF rejection
      <3>2. series[j] = mine[j]
        BY <1>2, <2>9, <3>1
      <3>3. QED
        BY <2>9, <3>2, NotRejected
    <2>11. j \in taken
      BY <1>4, <2>9, <2>10
    <2>12. evals[i].at <= evals[j].at
      <3> DEFINE a == evals[i].at
                 b == evals[j].at
      <3>1. a \in Int /\ b \in Int
        BY <1>1, <2>1, <2>9
      <3>2. Rejection(a, b, policy) # Missing
        BY <2>3, <2>8 DEF rejection
      <3> HIDE DEF a, b
      <3>3. a < b \/ a = b
        BY <3>2 DEF Rejection
      <3>4. QED
        BY <3>1, <3>3 DEF a, b
    <2>13. series[i].eval = evals[i] /\ series[j].eval = evals[j]
      <3>1. series[i] = Unpaired(evals[i], rejection(i))
        BY <1>2, <2>1, <2>3
      <3>2. IsUnpaired(series[i], evals[i])
        BY <3>1, UnpairedIs
      <3>3. QED
        BY <2>9, <2>10, <3>2 DEF IsUnpaired
    <2>14. QED
      BY <2>9, <2>11, <2>12, <2>13
  <1>8. QED
    BY <1>5, <1>6, <1>7 DEF SeriesAgrees, series

-----------------------------------------------------------------------------
(* The pairs of an examination.                                            *)

LastIsExam == last.exam # Missing => last.exam \in Exams

LEMMA ExamKept ==
  ASSUME LastIsExam, [Next]_vars
  PROVE  LastIsExam'
  <1>1. ASSUME NEW x \in Runnable, NEW system \in Systems, RunBenchmark(system, x)
        PROVE  LastIsExam'
    <2>1. last'.exam = x
      BY <1>1 DEF RunBenchmark, RecordResult
    <2>2. x \in Exams
      BY RunnableAreExams
    <2>3. QED
      BY <2>1, <2>2 DEF LastIsExam
  <1>2. CASE UNCHANGED last
    BY <1>2 DEF LastIsExam
  <1>3. QED
    BY <1>1, <1>2 DEF Next, RegisterDataset, RunFails, ResetSystem, ResetAll, vars

\* What the twin evaluates of a signal at frame i.
SampleAt(x, i, s) == [at |-> x.dataset.frames[i].at, value |-> x.answers[i][s]]

LEMMA FramesAreTimed ==
  ASSUME NEW x \in Exams
  PROVE  LET frames == x.dataset.frames
             n == Len(frames) IN
         /\ frames \in Seq({f \in ToSet(frames) : IsFrame(f)})
         /\ n \in Nat /\ DOMAIN x.answers = 1..n
         /\ \A i \in 1..n : \A s \in Signals :
              SampleAt(x, i, s).at \in Int /\ SampleAt(x, i, s).value \in Int
         /\ IsPolicy(x.policy) /\ Missing \notin Int \union Rejections
  <1> DEFINE frames == x.dataset.frames
             n == Len(frames)
             Frames == {f \in ToSet(frames) : IsFrame(f)}
  <1>1. /\ IsPolicy(x.policy) /\ IsDataset(x.dataset) /\ Missing \notin Int \union Rejections
        /\ DOMAIN x.answers = DOMAIN frames
        /\ \A i \in DOMAIN x.answers, s \in Signals : x.answers[i][s] \in Int
    BY BenchmarkAssumption
  <1>2. frames \in Seq(Frames)
    BY <1>1 DEF IsDataset
  <1>3. \A f \in Frames : f.at \in Int
    BY DEF IsFrame
  <1> HIDE DEF Frames
  <1> HIDE DEF frames
  <1>4. n \in Nat /\ DOMAIN frames = 1..n /\ \A i \in 1..n : frames[i] \in Frames
    BY <1>2
  <1>5. \A i \in 1..n : \A s : SampleAt(x, i, s).at = frames[i].at
    BY DEF SampleAt, frames
  <1>6. \A i \in 1..n : \A s : SampleAt(x, i, s).at \in Int
    BY <1>3, <1>4, <1>5
  <1>7. DOMAIN x.answers = 1..n
    BY <1>1, <1>4
  <1>8. \A i \in 1..n : \A s \in Signals : SampleAt(x, i, s).value \in Int
    BY <1>1, <1>7 DEF SampleAt
  <1>9. QED
    BY <1>1, <1>2, <1>4, <1>6, <1>7, <1>8 DEF frames, Frames

LEMMA SignalIsPaired ==
  ASSUME NEW x \in Exams, NEW s \in Signals
  PROVE  LET frames == x.dataset.frames
             aligned == Aligned(x)
             mine == [i \in DOMAIN aligned |-> aligned[i][s]]
             evals == [i \in DOMAIN mine |-> mine[i].eval] IN
         /\ \A i \in DOMAIN mine : IsFound(mine[i], Measured(frames, s, x.policy), x.policy)
         /\ SeriesAgrees(AlignTimeSeries(evals, s, frames, x.policy), mine, x.policy)
  <1> DEFINE frames == x.dataset.frames
             n == Len(frames)
             aligned == Aligned(x)
             mine == [i \in DOMAIN aligned |-> aligned[i][s]]
             evals == [i \in DOMAIN mine |-> mine[i].eval]
             known == Measured(frames, s, x.policy)
  <1>1. /\ frames \in Seq({f \in ToSet(frames) : IsFrame(f)})
        /\ n \in Nat /\ DOMAIN x.answers = 1..n
        /\ \A i \in 1..n : SampleAt(x, i, s).at \in Int /\ SampleAt(x, i, s).value \in Int
        /\ IsPolicy(x.policy) /\ Missing \notin Int \union Rejections
    BY FramesAreTimed
  <1>2. aligned = [i \in DOMAIN x.answers |->
          [z \in Signals |-> AlignSample(SampleAt(x, i, z), z, frames, x.policy)]]
    BY DEF Aligned, AlignFrames, SampleAt
  <1> HIDE DEF aligned, frames, n
  <1>3. DOMAIN mine = 1..n /\ \A i \in 1..n : mine[i] = AlignSample(SampleAt(x, i, s), s, frames, x.policy)
    BY <1>1, <1>2
  <1> HIDE DEF mine
  <1>4. \A i \in 1..n : mine[i].eval = SampleAt(x, i, s) /\ IsFound(mine[i], known, x.policy)
    <2> SUFFICES ASSUME NEW i \in 1..n
                 PROVE  mine[i].eval = SampleAt(x, i, s) /\ IsFound(mine[i], known, x.policy)
      OBVIOUS
    <2> DEFINE e == SampleAt(x, i, s)
    <2>1. e.at \in Int /\ e.value \in Int
      BY <1>1
    <2> HIDE DEF e
    <2>2. LET pair == AlignSample(e, s, frames, x.policy)
          IN pair.eval = e /\ IsFound(pair, known, x.policy) /\ IsPair(pair)
      BY <1>1, <2>1, SampleIsFound
    <2>3. mine[i] = AlignSample(e, s, frames, x.policy)
      BY <1>3 DEF e
    <2>4. QED
      BY <2>2, <2>3 DEF e
  <1>5. evals = [i \in 1..n |-> SampleAt(x, i, s)]
    BY <1>3, <1>4
  <1> HIDE DEF evals
  <1>6. DOMAIN evals = 1..n /\ \A i \in 1..n : evals[i] = SampleAt(x, i, s)
    BY <1>5
  <1>7. Len(evals) = n
    <2> DEFINE R == {SampleAt(x, i, s) : i \in 1..n}
    <2>1. [i \in 1..n |-> SampleAt(x, i, s)] \in Seq(R)
      BY <1>1
    <2> HIDE DEF R
    <2>2. QED
      BY <1>1, <1>5, <1>6, <2>1
  <1>8. AreTimed(evals, n)
    BY <1>1, <1>6, <1>7 DEF AreTimed
  <1>9. /\ \A i \in 1..n : mine[i] = AlignSample(evals[i], s, frames, x.policy)
        /\ \A i \in 1..n : mine[i].eval = evals[i]
    BY <1>3, <1>4, <1>6
  <1>10. SeriesAgrees(AlignTimeSeries(evals, s, frames, x.policy), mine, x.policy)
    BY <1>1, <1>3, <1>8, <1>9, SeriesFits
  <1>11. \A i \in DOMAIN mine : IsFound(mine[i], known, x.policy)
    BY <1>3, <1>4
  <1>12. QED
    BY <1>10, <1>11 DEF evals, mine, aligned, frames

\* Whatever a dataset measured and the twin answers, it is compared with the
\* nearest measurement its policy admits or a value between two neighbours, and
\* with nothing only when nothing was measured at that time; a series rejects
\* what is no newer than a sample it took, and pairs the rest in the same way.
THEOREM PairsAreNearest == Spec => []PairsAreTheNearest
  <1>1. Init => LastIsExam
    BY DEF Init, NoScore, LastIsExam
  <1>2. LastIsExam => PairsAreTheNearest
    <2> SUFFICES ASSUME LastIsExam, last.exam # Missing PROVE PairsAreTheNearest
      BY DEF PairsAreTheNearest
    <2>1. last.exam \in Exams
      BY DEF LastIsExam
    <2>2. QED
      BY <2>1, SignalIsPaired DEF PairsAreTheNearest
  <1>3. QED
    BY <1>1, <1>2, ExamKept, PTL DEF Spec

-----------------------------------------------------------------------------
(* What is shared out adds up.                                             *)

\* A finite set in some order, each element once.
LEMMA ListedOnce ==
  ASSUME NEW K, IsFiniteSet(K)
  PROVE  LET s == SetToSeq(K)
             m == Cardinality(K) IN
         /\ m \in Nat /\ \A i \in 1..m : s[i] \in K
         /\ \A i, j \in 1..m : s[i] = s[j] => i = j
         /\ \A k \in K : \E i \in 1..m : s[i] = k
  <1> DEFINE m == Cardinality(K)
             Fits(f) == IsInjective(f)
             s == CHOOSE f \in [1..m -> K] : IsInjective(f)
  <1>1. m \in Nat /\ ExistsBijection(1..m, K)
    BY FS_CardinalityType
  <1>2. \E f \in [1..m -> K] : IsInjective(f)
    BY <1>1 DEF ExistsBijection, Bijection, Injection
  <1>3. s \in [1..m -> K] /\ IsInjective(s)
    BY <1>2
  <1>4. SetToSeq(K) = s
    BY DEF SetToSeq
  <1> HIDE DEF s
  <1>5. s \in Injection(1..m, K)
    BY <1>3 DEF Injection
  <1>6. IsFiniteSet(1..m) /\ Cardinality(1..m) = m
    BY <1>1, FS_Interval
  <1>7. s \in Surjection(1..m, K)
    BY <1>5, <1>6, FS_Injection
  <1>8. \A k \in K : \E i \in 1..m : s[i] = k
    BY <1>7 DEF Surjection
  <1>9. \A i, j \in 1..m : s[i] = s[j] => i = j
    BY <1>3 DEF IsInjective
  <1>10. QED
    BY <1>1, <1>3, <1>4, <1>8, <1>9

\* Parts of a finite set that have nothing in common count what their union does.
LEMMA PartsAddUp ==
  ASSUME NEW n \in Nat, NEW U, IsFiniteSet(U), NEW c, \A i \in 1..n : c[i] \in SUBSET U,
         \A i, j \in 1..n : i # j => c[i] \intersect c[j] = {},
         NEW v, \A i \in 1..n : v[i] = Cardinality(c[i])
  PROVE  SumOf(v, n) = Cardinality(UNION {c[i] : i \in 1..n})
  <1> DEFINE Up(k) == UNION {c[i] : i \in 1..k}
             Fits(k) == SumOf(v, k) = Cardinality(Up(k))
             T == {k \in Nat : k <= n /\ ~Fits(k)}
  <1>1. T = {}
    <2> SUFFICES ASSUME T # {} PROVE FALSE
      OBVIOUS
    <2>1. PICK k \in T : \A l \in T : k <= l
      BY LeastNumber
    <2>2. k \in Nat /\ k <= n /\ ~Fits(k)
      OBVIOUS
    <2>3. CASE k = 0
      <3>1. Up(0) = {}
        OBVIOUS
      <3>2. Cardinality(Up(0)) = 0 /\ SumOf(v, 0) = 0
        BY <3>1, FS_EmptySet, SumIs
      <3>3. QED
        BY <2>2, <2>3, <3>2
    <2>4. CASE k # 0
      <3> DEFINE l == k - 1
      <3>1. l \in Nat /\ l < k /\ l <= n /\ k \in 1..n /\ 1..k = (1..l) \union {k} /\ 1..l \in SUBSET (1..n) /\ k \notin 1..l
        BY <2>2, <2>4
      <3>2. l \notin T
        <4> HIDE DEF T
        <4>1. ASSUME l \in T PROVE FALSE
          <5>1. k <= l
            BY <2>1, <4>1
          <5>2. QED
            BY <2>2, <3>1, <5>1
        <4>2. QED
          BY <4>1
      <3>3. SumOf(v, l) = Cardinality(Up(l))
        BY <3>1, <3>2
      <3>4. SumOf(v, k) = SumOf(v, l) + v[k]
        BY <2>2, <2>4, SumIs
      <3> HIDE DEF l
      <3>5. Up(k) = Up(l) \union c[k]
        BY <3>1
      <3>6. Up(l) \in SUBSET U /\ c[k] \in SUBSET U
        BY <3>1
      <3>7. Up(l) \intersect c[k] = {}
        <4>1. \A i \in 1..l : i \in 1..n /\ i # k
          BY <3>1
        <4>2. \A i \in 1..l : c[i] \intersect c[k] = {}
          BY <3>1, <4>1
        <4>3. QED
          BY <4>2
      <3> HIDE DEF Up
      <3>8. IsFiniteSet(Up(l)) /\ IsFiniteSet(c[k])
        BY <3>6, FS_Subset
      <3>9. Cardinality(Up(k)) = Cardinality(Up(l)) + Cardinality(c[k])
        BY <3>5, <3>7, <3>8, TwoParts
      <3>10. v[k] = Cardinality(c[k])
        BY <3>1
      <3>11. QED
        BY <2>2, <3>3, <3>4, <3>9, <3>10
    <2>5. QED
      BY <2>3, <2>4
  <1>2. Fits(n)
    <2> HIDE DEF Fits
    <2>1. n \in Nat /\ n <= n /\ n \notin T
      <3> HIDE DEF T
      <3>1. QED
        BY <1>1
    <2>2. QED
      BY <2>1
  <1>3. QED
    BY <1>2

\* As long as its domain.
LEMMA LengthIs ==
  ASSUME NEW m \in Nat, NEW R, NEW t \in [1..m -> R]
  PROVE  t \in Seq(R) /\ Len(t) = m /\ DOMAIN t = 1..m
  <1>1. t \in Seq(R) /\ DOMAIN t = 1..m
    OBVIOUS
  <1>2. QED
    BY <1>1

\* The same, by the keys the parts are kept under.
LEMMA SharedOut ==
  ASSUME NEW K, IsFiniteSet(K), NEW U, IsFiniteSet(U), NEW C, \A k \in K : C[k] \in SUBSET U,
         \A k, l \in K : k # l => C[k] \intersect C[l] = {},
         NEW w, \A k \in K : w[k] = Cardinality(C[k])
  PROVE  Total([i \in 1..Cardinality(K) |-> w[SetToSeq(K)[i]]]) = Cardinality(UNION {C[k] : k \in K})
  <1> DEFINE m == Cardinality(K)
             s == SetToSeq(K)
             c == [i \in 1..m |-> C[s[i]]]
             v == [i \in 1..m |-> w[s[i]]]
  <1>1. /\ m \in Nat /\ \A i \in 1..m : s[i] \in K
        /\ \A i, j \in 1..m : s[i] = s[j] => i = j
        /\ \A k \in K : \E i \in 1..m : s[i] = k
    BY ListedOnce
  <1> HIDE DEF s, m
  <1>2. \A i \in 1..m : c[i] = C[s[i]] /\ v[i] = w[s[i]]
    OBVIOUS
  <1>3. Len(v) = m
    <2> DEFINE R == {w[s[i]] : i \in 1..m}
    <2>1. v \in [1..m -> R]
      OBVIOUS
    <2> HIDE DEF R, v
    <2>2. QED
      BY <1>1, <2>1, LengthIs
  <1> HIDE DEF c, v
  <1>4. \A i \in 1..m : c[i] \in SUBSET U /\ v[i] = Cardinality(c[i])
    <2> SUFFICES ASSUME NEW i \in 1..m PROVE c[i] \in SUBSET U /\ v[i] = Cardinality(c[i])
      OBVIOUS
    <2>1. s[i] \in K /\ c[i] = C[s[i]] /\ v[i] = w[s[i]]
      BY <1>1, <1>2
    <2>2. C[s[i]] \in SUBSET U /\ w[s[i]] = Cardinality(C[s[i]])
      BY <2>1
    <2>3. QED
      BY <2>1, <2>2
  <1>5. ASSUME NEW i \in 1..m, NEW j \in 1..m, i # j PROVE c[i] \intersect c[j] = {}
    <2>1. s[i] \in K /\ s[j] \in K
      BY <1>1
    <2>2. s[i] # s[j]
      BY <1>1, <1>5
    <2>3. C[s[i]] \intersect C[s[j]] = {}
      BY <2>1, <2>2
    <2>4. QED
      BY <1>2, <2>3
  <1>6. UNION {c[i] : i \in 1..m} = UNION {C[k] : k \in K}
    <2>1. {c[i] : i \in 1..m} = {C[k] : k \in K}
      BY <1>1, <1>2
    <2>2. QED
      BY <2>1
  <1>7. SumOf(v, m) = Cardinality(UNION {c[i] : i \in 1..m})
    BY <1>1, <1>4, <1>5, PartsAddUp
  <1>8. Total(v) = SumOf(v, m)
    BY <1>1, <1>3, TotalIs
  <1>9. QED
    BY <1>6, <1>7, <1>8 DEF v, s, m

\* t is what s has at the indices, each once.
OneToOne(at, m, t, s, S) ==
  /\ at \in [1..m -> S] /\ t = [k \in 1..m |-> s[at[k]]]
  /\ \A j, k \in 1..m : at[j] = at[k] => j = k
  /\ \A i \in S : \E k \in 1..m : at[k] = i

\* Picking is one to one: a test passes as often among what is picked.
LEMMA PickedOneToOne ==
  ASSUME NEW s, NEW n \in Nat, NEW S \in SUBSET (1..n)
  PROVE  LET m == Cardinality(S) IN
         /\ m \in Nat /\ IsFiniteSet(S) /\ Len(Picked(s, S)) = m
         /\ \E at : OneToOne(at, m, Picked(s, S), s, S)
  <1> DEFINE m == Cardinality(S)
  <1>1. S \in SUBSET Nat /\ IsFiniteSet(S)
    <2>1. IsFiniteSet(1..n) /\ (1..n) \in SUBSET Nat
      BY FS_Interval
    <2>2. QED
      BY <2>1, FS_Subset
  <1>2. m \in Nat /\ PicksOut(Picked(s, S), s, S)
    BY <1>1, PickedInOrder
  <1>3. PICK at \in [1..m -> S] :
           /\ Picked(s, S) = [k \in 1..m |-> s[at[k]]]
           /\ \A j, k \in 1..m : j < k => at[j] < at[k]
    BY <1>2 DEF PicksOut
  <1> HIDE DEF m
  <1>4. \A k \in 1..m : at[k] \in S /\ at[k] \in Nat
    BY <1>1, <1>3
  <1>5. ASSUME NEW j \in 1..m, NEW k \in 1..m, at[j] = at[k] PROVE j = k
    <2>1. ~(at[j] < at[k]) /\ ~(at[k] < at[j])
      BY <1>4, <1>5
    <2>2. ~(j < k) /\ ~(k < j)
      BY <1>3, <2>1
    <2>3. QED
      BY <1>2, <2>2
  <1>6. at \in Injection(1..m, S)
    BY <1>3, <1>5 DEF Injection, IsInjective
  <1>7. IsFiniteSet(1..m) /\ Cardinality(1..m) = m
    BY <1>2, FS_Interval
  <1>8. at \in Surjection(1..m, S)
    BY <1>1, <1>6, <1>7, FS_Injection DEF m
  <1>9. \A i \in S : \E k \in 1..m : at[k] = i
    BY <1>8 DEF Surjection
  <1>10. Len(Picked(s, S)) = m
    <2> DEFINE R == {s[at[k]] : k \in 1..m}
               t == [k \in 1..m |-> s[at[k]]]
    <2>1. t \in [1..m -> R]
      OBVIOUS
    <2> HIDE DEF R, t
    <2>2. Len(t) = m
      BY <1>2, <2>1, LengthIs
    <2>3. QED
      BY <1>3, <2>2 DEF t
  <1>11. OneToOne(at, m, Picked(s, S), s, S)
    BY <1>3, <1>5, <1>9 DEF OneToOne
  <1>12. QED
    BY <1>1, <1>2, <1>10, <1>11 DEF m

\* As many of some indices as of the places where they are.
LEMMA CountedOnce ==
  ASSUME NEW m \in Nat, NEW S, NEW at, NEW t, NEW s, OneToOne(at, m, t, s, S),
         NEW A \in SUBSET (1..m), NEW B \in SUBSET S, \A k \in 1..m : k \in A <=> at[k] \in B
  PROVE  Cardinality(A) = Cardinality(B)
  <1> DEFINE f == [k \in A |-> at[k]]
  <1>9. /\ at \in [1..m -> S] /\ \A j, k \in 1..m : at[j] = at[k] => j = k
        /\ \A i \in S : \E k \in 1..m : at[k] = i
    BY DEF OneToOne
  <1>1. \A k \in A : f[k] = at[k] /\ at[k] \in B /\ k \in 1..m
    OBVIOUS
  <1>2. f \in [A -> B]
    BY <1>1
  <1> HIDE DEF f
  <1>3. DOMAIN f = A /\ \A j, k \in A : f[j] = f[k] => j = k
    BY <1>1, <1>2, <1>9
  <1>4. \A i \in B : \E k \in A : f[k] = i
    BY <1>1, <1>9
  <1>5. f \in Injection(A, B) /\ f \in Surjection(A, B)
    BY <1>2, <1>3, <1>4 DEF Injection, IsInjective, Surjection
  <1>6. ExistsBijection(A, B)
    BY <1>5 DEF ExistsBijection, Bijection
  <1>7. IsFiniteSet(A)
    <2>1. IsFiniteSet(1..m)
      BY FS_Interval
    <2>2. QED
      BY <2>1, FS_Subset
  <1>8. QED
    BY <1>6, <1>7, FS_Bijection

\* What the metrics say of some pairs.
MetricsFit(acc, pairs, n) ==
  LET mae == Averaged(acc.absolute, acc)
      mse == Averaged(acc.squares, acc)
      bias == Averaged(acc.errors, acc)
      sum == SumUp([i \in DOMAIN pairs |-> pairs[i].ref])
      squares == SumUp([i \in DOMAIN pairs |-> Scaled(pairs[i].ref, pairs[i].ref)]) IN
  /\ AtMost(Scaled(mae, mae), mse)
  /\ AtMost(Scaled(bias, bias), mse)
  /\ AtMost(mse, Scaled(acc.worst, acc.worst))
  /\ SameAs(Times(n, acc.refM2), Plus(Times(n, squares), Minus(Scaled(sum, sum))))

\* The accumulator after n pairs counts them, and its figures fit together.
LEMMA AccumulatedFits ==
  ASSUME Missing \notin Int \X Int,
         NEW n \in Nat, NEW pairs, Len(pairs) = n, DOMAIN pairs = 1..n, \A i \in 1..n : IsScored(pairs[i])
  PROVE  LET acc == Accumulated(pairs) IN
         /\ acc.count = n /\ acc.consistent = Cardinality(ConsistentOf(pairs, n))
         /\ n > 0 => MetricsFit(acc, pairs, n)
  <1> DEFINE acc == Accumulated(pairs)
  <1>1. PICK f : Accumulates(f, pairs, n) /\ acc = f[n]
    BY AccumulatedIs DEF Accumulates
  <1> HIDE DEF acc
  <1>2. acc.count = n /\ acc.consistent = Cardinality(ConsistentOf(pairs, n))
    <2>1. n \in 0..n
      OBVIOUS
    <2>2. QED
      BY <1>1, <2>1, CountsAccumulate
  <1>3. ASSUME n > 0 PROVE MetricsFit(acc, pairs, n)
    <2> DEFINE s == [i \in 1..n |-> pairs[i].ref]
               t == [i \in 1..n |-> Scaled(pairs[i].ref, pairs[i].ref)]
               R == {s[i] : i \in 1..n}
               Q == {t[i] : i \in 1..n}
    <2>1. n \in Nat \ {0}
      BY <1>3
    <2>2. s \in [1..n -> R] /\ t \in [1..n -> Q]
      OBVIOUS
    <2>3. \A i \in 1..n : s[i] = pairs[i].ref /\ t[i] = Scaled(pairs[i].ref, pairs[i].ref)
      OBVIOUS
    <2>4. /\ s = [i \in DOMAIN pairs |-> pairs[i].ref]
          /\ t = [i \in DOMAIN pairs |-> Scaled(pairs[i].ref, pairs[i].ref)]
      OBVIOUS
    <2> HIDE DEF s, t, R, Q
    <2>5. Len(s) = n /\ Len(t) = n
      BY <2>2, LengthIs
    <2>6. SameAs(Times(n, acc.refM2), Plus(Times(n, SumUp(t)), Minus(Scaled(SumUp(s), SumUp(s)))))
      BY <1>1, <2>1, <2>3, <2>5, VarianceFits
    <2> DEFINE mae == Averaged(acc.absolute, acc)
               mse == Averaged(acc.squares, acc)
               bias == Averaged(acc.errors, acc)
    <2>7. /\ AtMost(Scaled(mae, mae), mse)
          /\ AtMost(Scaled(bias, bias), mse)
          /\ AtMost(mse, Scaled(acc.worst, acc.worst))
      BY <1>1, <2>1, MeansFit
    <2> HIDE DEF mae, mse, bias
    <2>8. QED
      BY <2>4, <2>6, <2>7 DEF MetricsFit, mae, mse, bias
  <1>4. QED
    BY <1>2, <1>3 DEF acc

\* The pairs of a summary, and those of them that were compared.
ValidOf(pairs, members) == {i \in members : pairs[i].valid}
ConsistentOnes(pairs, members) == {i \in ValidOf(pairs, members) : pairs[i].consistent}
StatusesOf(pairs, left) == {pairs[i].status : i \in left}
OfStatus(pairs, left, r) == {i \in left : pairs[i].status = r}

ExcludedOf(pairs, left) ==
  [r \in StatusesOf(pairs, left) |-> Cardinality(OfStatus(pairs, left, r))]

\* What a summary says of some pairs.
SummaryOn(sum, pairs, members) ==
  LET valid == ValidOf(pairs, members)
      acc == sum.acc IN
  /\ sum.total = Cardinality(members)
  /\ sum.paired = Cardinality(valid)
  /\ acc.consistent = Cardinality(ConsistentOnes(pairs, members))
  /\ sum.excluded = ExcludedOf(pairs, members \ valid)
  /\ sum.paired > 0 => MetricsFit(acc, Picked(pairs, valid), sum.paired)
  /\ sum.mae = Averaged(acc.absolute, acc) /\ sum.mse = Averaged(acc.squares, acc)
  /\ sum.bias = Averaged(acc.errors, acc)

\* So does a summary, whichever of the pairs it is of.
LEMMA SummaryFits ==
  ASSUME Missing \notin Int \X Int, NEW n \in Nat, NEW pairs, \A i \in 1..n : IsPair(pairs[i]),
         NEW members \in SUBSET (1..n)
  PROVE  SummaryOn(Summary(pairs, members), pairs, members)
  <1> DEFINE valid == ValidOf(pairs, members)
             left == members \ valid
             picked == Picked(pairs, valid)
             acc == Accumulated(picked)
             m == Cardinality(valid)
             sum == Summary(pairs, members)
  <1>1. sum = SummaryOf(pairs, members, left, acc)
    <2>1. valid = {i \in members : pairs[i].valid}
      BY DEF ValidOf
    <2> HIDE DEF valid
    <2>2. QED
      BY <2>1 DEF Summary
  <1>2. valid \in SUBSET (1..n) /\ \A i \in valid : i \in 1..n /\ pairs[i].valid /\ i \in members
    BY DEF ValidOf
  <1> HIDE DEF valid
  <1>3. /\ m \in Nat /\ Len(picked) = m
        /\ \E at : OneToOne(at, m, picked, pairs, valid)
    BY <1>2, PickedOneToOne
  <1> HIDE DEF m, picked
  <1>4. PICK at : OneToOne(at, m, picked, pairs, valid)
    BY <1>3
  <1>5. DOMAIN picked = 1..m /\ \A k \in 1..m : picked[k] = pairs[at[k]] /\ at[k] \in valid
    BY <1>4 DEF OneToOne
  <1>6. \A k \in 1..m : IsScored(picked[k])
    <2> SUFFICES ASSUME NEW k \in 1..m PROVE IsScored(picked[k])
      OBVIOUS
    <2>1. picked[k] = pairs[at[k]] /\ at[k] \in 1..n /\ pairs[at[k]].valid
      BY <1>2, <1>5
    <2>2. IsPair(pairs[at[k]])
      BY <2>1
    <2>3. QED
      BY <2>1, <2>2 DEF IsPair
  <1>7. /\ acc.count = m /\ acc.consistent = Cardinality(ConsistentOf(picked, m))
        /\ m > 0 => MetricsFit(acc, picked, m)
    BY <1>3, <1>5, <1>6, AccumulatedFits
  <1>8. Cardinality(ConsistentOf(picked, m)) = Cardinality(ConsistentOnes(pairs, members))
    <2> DEFINE A == ConsistentOf(picked, m)
               B == ConsistentOnes(pairs, members)
    <2>1. A \in SUBSET (1..m) /\ \A k \in 1..m : k \in A <=> picked[k].consistent
      BY DEF ConsistentOf
    <2>2. B \in SUBSET valid /\ \A i \in valid : i \in B <=> pairs[i].consistent
      <3>1. B = {i \in valid : pairs[i].consistent}
        BY DEF ConsistentOnes, valid
      <3> HIDE DEF B
      <3>2. QED
        BY <3>1
    <2> HIDE DEF A, B
    <2>3. \A k \in 1..m : k \in A <=> at[k] \in B
      BY <1>5, <2>1, <2>2
    <2>4. Cardinality(A) = Cardinality(B)
      BY <1>3, <1>4, <2>1, <2>2, <2>3, CountedOnce
    <2>5. QED
      BY <2>4 DEF A, B
  <1> HIDE DEF acc, left, sum
  <1>9. /\ sum.total = Cardinality(members) /\ sum.paired = acc.count /\ sum.acc = acc
        /\ sum.excluded = [r \in {pairs[i].status : i \in left} |-> Cardinality({i \in left : pairs[i].status = r})]
        /\ sum.mae = Averaged(acc.absolute, acc) /\ sum.mse = Averaged(acc.squares, acc)
        /\ sum.bias = Averaged(acc.errors, acc)
    BY <1>1 DEF SummaryOf
  <1>10. sum.excluded = ExcludedOf(pairs, left)
    BY <1>9 DEF ExcludedOf, StatusesOf, OfStatus
  <1>11. QED
    BY <1>7, <1>8, <1>9, <1>10 DEF SummaryOn, sum, left, valid, picked, m

\* w counts what of A is kept under each key, and nothing is under two.
Counts(w, M, K, A) ==
  /\ IsFiniteSet(K) /\ IsFiniteSet(A)
  /\ \A k, l \in K : k # l => M[k] \intersect M[l] = {}
  /\ \A k \in K : w[k] = Cardinality(M[k] \intersect A)

\* What is kept under different keys is no more than there is, and all of it
\* when nothing is left out.
LEMMA DimensionShares ==
  ASSUME NEW K, NEW A, NEW M, NEW w, Counts(w, M, K, A)
  PROVE  /\ SumOver(K, w) <= Cardinality(A)
         /\ (\A i \in A : \E k \in K : i \in M[k]) => SumOver(K, w) = Cardinality(A)
  <1> DEFINE C == [k \in K |-> M[k] \intersect A]
             all == UNION {C[k] : k \in K}
             sum == SumOver(K, w)
  <1>8. /\ IsFiniteSet(K) /\ IsFiniteSet(A)
        /\ \A k, l \in K : k # l => M[k] \intersect M[l] = {}
        /\ \A k \in K : w[k] = Cardinality(M[k] \intersect A)
    BY DEF Counts
  <1>1. \A k \in K : C[k] = M[k] \intersect A /\ C[k] \in SUBSET A /\ w[k] = Cardinality(C[k])
    BY <1>8
  <1>2. \A k, l \in K : k # l => C[k] \intersect C[l] = {}
    BY <1>1, <1>8
  <1>3. all \in SUBSET A
    BY <1>1
  <1>4. (\A i \in A : \E k \in K : i \in M[k]) => all = A
    BY <1>1, <1>3
  <1> HIDE DEF C
  <1>5. sum = Cardinality(all)
    BY <1>1, <1>2, <1>8, SharedOut DEF SumOver
  <1> HIDE DEF all, sum
  <1>6. Cardinality(all) <= Cardinality(A)
    BY <1>3, <1>8, FS_Subset
  <1>7. QED
    BY <1>4, <1>5, <1>6 DEF sum

-----------------------------------------------------------------------------
(* The slices of a sample.                                                 *)

\* A value is in at most one bucket of a dimension.
LEMMA OneBucket ==
  ASSUME NEW buckets, NEW v
  PROVE  /\ IsFiniteSet(BucketsOf(buckets, v))
         /\ \A m, n \in BucketsOf(buckets, v) : m = n
  <1>1. CASE Containing(buckets, v) = <<>>
    <2>1. BucketsOf(buckets, v) = {}
      BY <1>1 DEF BucketsOf
    <2>2. QED
      BY <2>1, FS_EmptySet
  <1>2. CASE Containing(buckets, v) # <<>>
    <2> DEFINE b == Head(Containing(buckets, v)).name
    <2>1. BucketsOf(buckets, v) = {b}
      BY <1>2 DEF BucketsOf
    <2> HIDE DEF b
    <2>2. QED
      BY <2>1, FS_Singleton
  <1>3. QED
    BY <1>1, <1>2

\* The names of some buckets with a dimension.
Named(d, names) == {<<d, n>> : n \in names}

LEMMA NamedIs ==
  ASSUME NEW d, NEW names, IsFiniteSet(names), \A m, n \in names : m = n
  PROVE  /\ IsFiniteSet(Named(d, names)) /\ \A k, l \in Named(d, names) : k = l
         /\ \A k \in Named(d, names) : k[1] = d
  <1>1. CASE names = {}
    <2>1. Named(d, names) = {}
      BY <1>1 DEF Named
    <2>2. QED
      BY <2>1, FS_EmptySet
  <1>2. CASE names # {}
    <2>1. PICK m \in names : TRUE
      BY <1>2
    <2>2. Named(d, names) = {<<d, m>>}
      BY <2>1 DEF Named
    <2>3. \A k \in Named(d, names) : k = <<d, m>>
      BY <2>2
    <2>4. \A k \in Named(d, names) : k[1] = d
      BY <2>3
    <2>5. IsFiniteSet(Named(d, names))
      BY <2>2, FS_Singleton
    <2>6. QED
      BY <2>3, <2>4, <2>5
  <1>3. QED
    BY <1>1, <1>2

\* A sample is in one slice of its regime and at most one of each other dimension.
LEMMA SlicesAre ==
  ASSUME NEW sample, NEW contexts
  PROVE  LET S == Slices(sample, contexts) IN
         /\ IsFiniteSet(S)
         /\ \A k, l \in S : k[1] = l[1] => k = l
         /\ \E k \in S : k[1] = "REGIME"
  <1> DEFINE N(d, v) == Named(d, BucketsOf(contexts.buckets[d], v))
             R == {<<"REGIME", Regime(sample.current, contexts.rest)>>}
             A == N("SOC", sample.soc_fraction)
             B == N("TEMPERATURE", sample.temperature_c)
             C == N("CURRENT", Abs(sample.current))
             D == N("VOLTAGE", sample.voltage_v)
  <1>1. Slices(sample, contexts) = R \union A \union B \union C \union D
    BY DEF Slices, Named
  <1>3. IsFiniteSet(R) /\ \A k \in R : k[1] = "REGIME"
    <2> DEFINE r == Regime(sample.current, contexts.rest)
    <2> HIDE DEF r
    <2>1. R = {<<"REGIME", r>>}
      BY DEF r
    <2> HIDE DEF R
    <2>2. \A k \in R : k[1] = "REGIME"
      BY <2>1
    <2>3. IsFiniteSet(R)
      BY <2>1, FS_Singleton
    <2>4. QED
      BY <2>2, <2>3
  <1>4. R # {} /\ \A k, l \in R : k = l
    OBVIOUS
  <1>5. /\ IsFiniteSet(A) /\ (\A k, l \in A : k = l) /\ \A k \in A : k[1] = "SOC"
        /\ IsFiniteSet(B) /\ (\A k, l \in B : k = l) /\ \A k \in B : k[1] = "TEMPERATURE"
        /\ IsFiniteSet(C) /\ (\A k, l \in C : k = l) /\ \A k \in C : k[1] = "CURRENT"
        /\ IsFiniteSet(D) /\ (\A k, l \in D : k = l) /\ \A k \in D : k[1] = "VOLTAGE"
    <2> HIDE DEF R
    <2>1. IsFiniteSet(A) /\ (\A k, l \in A : k = l) /\ \A k \in A : k[1] = "SOC"
      BY OneBucket, NamedIs
    <2>2. IsFiniteSet(B) /\ (\A k, l \in B : k = l) /\ \A k \in B : k[1] = "TEMPERATURE"
      BY OneBucket, NamedIs
    <2>3. IsFiniteSet(C) /\ (\A k, l \in C : k = l) /\ \A k \in C : k[1] = "CURRENT"
      BY OneBucket, NamedIs
    <2>4. IsFiniteSet(D) /\ (\A k, l \in D : k = l) /\ \A k \in D : k[1] = "VOLTAGE"
      BY OneBucket, NamedIs
    <2> HIDE DEF A, B, C, D
    <2>5. QED
      BY <2>1, <2>2, <2>3, <2>4
  <1> HIDE DEF R, A, B, C, D
  <1> DEFINE S == R \union A \union B \union C \union D
  <1>6. IsFiniteSet(S)
    <2>1. IsFiniteSet(R \union A)
      BY <1>3, <1>5, FS_Union
    <2>2. IsFiniteSet((R \union A) \union B)
      BY <1>5, <2>1, FS_Union
    <2>3. IsFiniteSet(((R \union A) \union B) \union C)
      BY <1>5, <2>2, FS_Union
    <2>4. QED
      BY <1>5, <2>3, FS_Union
  <1>7. ASSUME NEW k \in S, NEW l \in S, k[1] = l[1] PROVE k = l
    BY <1>3, <1>4, <1>5, <1>7
  <1>8. \E k \in S : k[1] = "REGIME"
    BY <1>3, <1>4
  <1>9. QED
    BY <1>1, <1>6, <1>7, <1>8

-----------------------------------------------------------------------------
(* The report of an examination.                                           *)

\* The pairs of a signal, and the frames of a slice.
PairsOf(x, s) == [i \in DOMAIN Aligned(x) |-> Aligned(x)[i][s]]
FramesIn(x, k) == {i \in DOMAIN Aligned(x) : k \in Slices(x.answers[i], x.contexts)}
KeysOf(x) == UNION {Slices(x.answers[i], x.contexts) : i \in DOMAIN Aligned(x)}
KeysIn(x, d) == {k \in KeysOf(x) : k[1] = d}

\* A frame has a pair of every signal, and a frame of the dataset.
LEMMA PairsOfAre ==
  ASSUME NEW x \in Exams, NEW s \in Signals
  PROVE  LET n == Len(x.dataset.frames) IN
         /\ n \in Nat /\ DOMAIN Aligned(x) = 1..n /\ DOMAIN x.answers = 1..n
         /\ \A i \in 1..n : IsPair(PairsOf(x, s)[i])
  <1> DEFINE frames == x.dataset.frames
             n == Len(frames)
             aligned == Aligned(x)
  <1>1. /\ frames \in Seq({f \in ToSet(frames) : IsFrame(f)})
        /\ n \in Nat /\ DOMAIN x.answers = 1..n
        /\ \A i \in 1..n : SampleAt(x, i, s).at \in Int /\ SampleAt(x, i, s).value \in Int
        /\ IsPolicy(x.policy) /\ Missing \notin Int
    BY FramesAreTimed
  <1>2. aligned = [i \in DOMAIN x.answers |->
          [z \in Signals |-> AlignSample(SampleAt(x, i, z), z, frames, x.policy)]]
    BY DEF Aligned, AlignFrames, SampleAt
  <1> HIDE DEF aligned, frames, n
  <1>3. DOMAIN aligned = 1..n /\ \A i \in 1..n : aligned[i][s] = AlignSample(SampleAt(x, i, s), s, frames, x.policy)
    BY <1>1, <1>2
  <1>4. ASSUME NEW i \in 1..n PROVE IsPair(PairsOf(x, s)[i])
    <2> DEFINE e == SampleAt(x, i, s)
    <2>1. e.at \in Int /\ e.value \in Int
      BY <1>1
    <2>2. PairsOf(x, s)[i] = AlignSample(e, s, frames, x.policy)
      BY <1>3 DEF PairsOf, aligned
    <2> HIDE DEF e
    <2>3. IsPair(AlignSample(e, s, frames, x.policy))
      BY <1>1, <2>1, SampleIsFound
    <2>4. QED
      BY <2>2, <2>3
  <1>5. QED
    BY <1>1, <1>3, <1>4 DEF aligned, frames, n

\* A report summarizes the pairs of a signal over all frames and over slices.
LEMMA ReportIs ==
  ASSUME NEW x, NEW s \in Signals
  PROVE  LET report == Stratified(Aligned(x), x.answers, x.contexts) IN
         /\ report.overall[s] = Summary(PairsOf(x, s), DOMAIN Aligned(x))
         /\ DOMAIN report.sliced = KeysOf(x)
         /\ \A k \in KeysOf(x) : report.sliced[k][s] = Summary(PairsOf(x, s), FramesIn(x, k))
  BY DEF Stratified, PairsOf, FramesIn, KeysOf

\* A dimension has finitely many slices, none with a frame of another.
LEMMA KeysAre ==
  ASSUME NEW x, NEW n \in Nat, DOMAIN Aligned(x) = 1..n, NEW d
  PROVE  /\ IsFiniteSet(KeysIn(x, d))
         /\ \A k \in KeysIn(x, d) : k \in KeysOf(x) /\ FramesIn(x, k) \in SUBSET (1..n)
         /\ \A k, l \in KeysIn(x, d) : k # l => FramesIn(x, k) \intersect FramesIn(x, l) = {}
         /\ d = "REGIME" => \A i \in 1..n : \E k \in KeysIn(x, d) : i \in FramesIn(x, k)
  <1> DEFINE S == [i \in 1..n |-> Slices(x.answers[i], x.contexts)]
  <1>1. \A i \in 1..n : /\ IsFiniteSet(S[i])
                        /\ \A k, l \in S[i] : k[1] = l[1] => k = l
                        /\ \E k \in S[i] : k[1] = "REGIME"
    <2> SUFFICES ASSUME NEW i \in 1..n
                 PROVE  /\ IsFiniteSet(S[i])
                        /\ \A k, l \in S[i] : k[1] = l[1] => k = l
                        /\ \E k \in S[i] : k[1] = "REGIME"
      OBVIOUS
    <2>1. S[i] = Slices(x.answers[i], x.contexts)
      OBVIOUS
    <2> HIDE DEF S
    <2>2. QED
      BY <2>1, SlicesAre
  <1>2. /\ KeysOf(x) = UNION {S[i] : i \in 1..n}
        /\ \A k : FramesIn(x, k) = {i \in 1..n : k \in S[i]}
    BY DEF KeysOf, FramesIn
  <1> DEFINE all == {S[i] : i \in 1..n}
  <1> HIDE DEF S
  <1>3. IsFiniteSet(KeysIn(x, d))
    <2> DEFINE f == [i \in 1..n |-> S[i]]
    <2>1. IsFiniteSet(1..n)
      BY FS_Interval
    <2>2. f \in Surjection(1..n, all)
      <3>1. f \in [1..n -> all] /\ \A t \in all : \E i \in 1..n : f[i] = t
        OBVIOUS
      <3> HIDE DEF f, all
      <3>2. QED
        BY <3>1 DEF Surjection
    <2>3. \A t \in all : IsFiniteSet(t)
      BY <1>1
    <2> HIDE DEF f
    <2>4. IsFiniteSet(all)
      BY <2>1, <2>2, FS_Surjection
    <2>5. IsFiniteSet(UNION all)
      BY <2>3, <2>4, FS_UNION
    <2>6. KeysIn(x, d) \in SUBSET (UNION all)
      BY <1>2 DEF KeysIn
    <2>7. QED
      BY <2>5, <2>6, FS_Subset
  <1>4. \A k \in KeysIn(x, d) : k \in KeysOf(x) /\ k[1] = d
    BY DEF KeysIn
  <1>5. \A k : FramesIn(x, k) \in SUBSET (1..n)
    BY <1>2
  <1>6. ASSUME NEW k \in KeysIn(x, d), NEW l \in KeysIn(x, d), k # l,
               NEW i \in FramesIn(x, k), i \in FramesIn(x, l)
        PROVE  FALSE
    <2>1. i \in 1..n /\ k \in S[i] /\ l \in S[i]
      BY <1>2, <1>6
    <2>2. k[1] = l[1]
      BY <1>4
    <2>3. QED
      BY <1>1, <1>6, <2>1, <2>2
  <1>7. ASSUME d = "REGIME", NEW i \in 1..n PROVE \E k \in KeysIn(x, d) : i \in FramesIn(x, k)
    <2>1. PICK k \in S[i] : k[1] = "REGIME"
      BY <1>1
    <2>2. k \in KeysOf(x)
      BY <1>2, <2>1
    <2>3. k \in KeysIn(x, d)
      BY <1>7, <2>1, <2>2 DEF KeysIn
    <2>4. i \in FramesIn(x, k)
      BY <1>2, <2>1
    <2>5. QED
      BY <2>3, <2>4
  <1>8. QED
    BY <1>3, <1>4, <1>5, <1>6, <1>7

\* What the slices of a dimension count.
LEMMA SlicesCount ==
  ASSUME NEW x \in Exams, NEW s \in Signals, NEW d, NEW w
  PROVE  LET K == KeysIn(x, d)
             n == Len(x.dataset.frames)
             pairs == PairsOf(x, s) IN
         /\ IsFiniteSet(K)
         /\ (\A k \in K : w[k] = Cardinality(FramesIn(x, k))) =>
              /\ SumOver(K, w) <= n
              /\ d = "REGIME" => SumOver(K, w) = n
         /\ (\A k \in K : w[k] = Cardinality(ValidOf(pairs, FramesIn(x, k)))) /\ d = "REGIME" =>
              SumOver(K, w) = Cardinality(ValidOf(pairs, 1..n))
         /\ (\A k \in K : w[k] = Cardinality(ConsistentOnes(pairs, FramesIn(x, k)))) /\ d = "REGIME" =>
              SumOver(K, w) = Cardinality(ConsistentOnes(pairs, 1..n))
  <1> DEFINE K == KeysIn(x, d)
             n == Len(x.dataset.frames)
             pairs == PairsOf(x, s)
             M == [k \in K |-> FramesIn(x, k)]
             V == ValidOf(pairs, 1..n)
             C == ConsistentOnes(pairs, 1..n)
  <1>1. n \in Nat /\ DOMAIN Aligned(x) = 1..n
    BY PairsOfAre
  <1>2. /\ IsFiniteSet(K)
        /\ \A k \in K : FramesIn(x, k) \in SUBSET (1..n)
        /\ \A k, l \in K : k # l => FramesIn(x, k) \intersect FramesIn(x, l) = {}
        /\ d = "REGIME" => \A i \in 1..n : \E k \in K : i \in FramesIn(x, k)
    <2> HIDE DEF n
    <2>1. QED
      BY <1>1, KeysAre
  <1> HIDE DEF K, n, pairs
  <1>3. \A k \in K : M[k] = FramesIn(x, k)
    OBVIOUS
  <1> HIDE DEF M
  <1>4. /\ \A k, l \in K : k # l => M[k] \intersect M[l] = {}
        /\ d = "REGIME" => \A i \in 1..n : \E k \in K : i \in M[k]
    BY <1>2, <1>3
  <1>5. IsFiniteSet(1..n) /\ Cardinality(1..n) = n
    BY <1>1, FS_Interval
  <1>6. V \in SUBSET (1..n) /\ C \in SUBSET (1..n)
    BY DEF ValidOf, ConsistentOnes
  <1>7. \A k \in K : /\ FramesIn(x, k) = M[k] \intersect (1..n)
                     /\ ValidOf(pairs, FramesIn(x, k)) = M[k] \intersect V
                     /\ ConsistentOnes(pairs, FramesIn(x, k)) = M[k] \intersect C
    BY <1>2, <1>3 DEF ValidOf, ConsistentOnes
  <1> HIDE DEF V, C
  <1>8. IsFiniteSet(V) /\ IsFiniteSet(C)
    BY <1>5, <1>6, FS_Subset
  <1>9. ASSUME \A k \in K : w[k] = Cardinality(FramesIn(x, k))
        PROVE  SumOver(K, w) <= n /\ (d = "REGIME" => SumOver(K, w) = n)
    <2>1. \A k \in K : w[k] = Cardinality(M[k] \intersect (1..n))
      BY <1>7, <1>9
    <2>9. Counts(w, M, K, 1..n)
      BY <1>2, <1>4, <1>5, <2>1 DEF Counts
    <2>2. /\ SumOver(K, w) <= Cardinality(1..n)
          /\ (\A i \in 1..n : \E k \in K : i \in M[k]) => SumOver(K, w) = Cardinality(1..n)
      BY <2>9, DimensionShares
    <2>3. QED
      BY <1>4, <1>5, <2>2
  <1>10. ASSUME \A k \in K : w[k] = Cardinality(ValidOf(pairs, FramesIn(x, k))), d = "REGIME"
         PROVE  SumOver(K, w) = Cardinality(V)
    <2>1. \A k \in K : w[k] = Cardinality(M[k] \intersect V)
      BY <1>7, <1>10
    <2>9. Counts(w, M, K, V)
      BY <1>2, <1>4, <1>8, <2>1 DEF Counts
    <2>2. (\A i \in V : \E k \in K : i \in M[k]) => SumOver(K, w) = Cardinality(V)
      BY <2>9, DimensionShares
    <2>3. \A i \in V : \E k \in K : i \in M[k]
      BY <1>4, <1>6, <1>10
    <2>4. QED
      BY <2>2, <2>3
  <1>11. ASSUME \A k \in K : w[k] = Cardinality(ConsistentOnes(pairs, FramesIn(x, k))), d = "REGIME"
         PROVE  SumOver(K, w) = Cardinality(C)
    <2>1. \A k \in K : w[k] = Cardinality(M[k] \intersect C)
      BY <1>7, <1>11
    <2>9. Counts(w, M, K, C)
      BY <1>2, <1>4, <1>8, <2>1 DEF Counts
    <2>2. (\A i \in C : \E k \in K : i \in M[k]) => SumOver(K, w) = Cardinality(C)
      BY <2>9, DimensionShares
    <2>3. \A i \in C : \E k \in K : i \in M[k]
      BY <1>4, <1>6, <1>11
    <2>4. QED
      BY <2>2, <2>3
  <1>12. QED
    BY <1>2, <1>9, <1>10, <1>11 DEF K, n, pairs, V, C

\* The frames that were not compared are counted once, by what was said of them.
LEMMA ExcludedAddUp ==
  ASSUME NEW n \in Nat, NEW pairs, NEW excluded,
         excluded = ExcludedOf(pairs, (1..n) \ ValidOf(pairs, 1..n))
  PROVE  n = Cardinality(ValidOf(pairs, 1..n)) + SumOver(DOMAIN excluded, excluded)
  <1> DEFINE valid == ValidOf(pairs, 1..n)
             left == (1..n) \ valid
             K == StatusesOf(pairs, left)
             M == [r \in K |-> OfStatus(pairs, left, r)]
  <1>1. excluded = [r \in K |-> Cardinality(OfStatus(pairs, left, r))]
    BY DEF ExcludedOf
  <1>2. valid \in SUBSET (1..n) /\ left \in SUBSET (1..n) /\ valid \intersect left = {} /\ valid \union left = 1..n
    BY DEF ValidOf
  <1>3. IsFiniteSet(1..n) /\ Cardinality(1..n) = n
    BY FS_Interval
  <1> HIDE DEF valid, left
  <1>4. IsFiniteSet(valid) /\ IsFiniteSet(left)
    BY <1>2, <1>3, FS_Subset
  <1>5. IsFiniteSet(K)
    <2> DEFINE f == [i \in left |-> pairs[i].status]
    <2>1. f \in [left -> K] /\ \A r \in K : \E i \in left : f[i] = r
      BY DEF StatusesOf
    <2> HIDE DEF f, K
    <2>2. f \in Surjection(left, K)
      BY <2>1 DEF Surjection
    <2>3. QED
      BY <1>4, <2>2, FS_Surjection
  <1>6. \A r \in K : M[r] = {i \in left : pairs[i].status = r}
    BY DEF OfStatus
  <1>7. \A i \in left : pairs[i].status \in K
    BY DEF StatusesOf
  <1>8. DOMAIN excluded = K /\ \A r \in K : excluded[r] = Cardinality(M[r])
    BY <1>1
  <1> HIDE DEF K, M
  <1>9. /\ \A k, l \in K : k # l => M[k] \intersect M[l] = {}
        /\ \A i \in left : \E r \in K : i \in M[r]
        /\ \A r \in K : M[r] \intersect left = M[r]
    BY <1>6, <1>7
  <1>10. \A r \in K : excluded[r] = Cardinality(M[r] \intersect left)
    BY <1>8, <1>9
  <1>11. SumOver(K, excluded) = Cardinality(left)
    <2>1. Counts(excluded, M, K, left)
      BY <1>4, <1>5, <1>9, <1>10 DEF Counts
    <2>2. QED
      BY <1>9, <2>1, DimensionShares
  <1>12. Cardinality(valid \union left) = Cardinality(valid) + Cardinality(left)
    BY <1>2, <1>4, TwoParts
  <1>13. QED
    BY <1>2, <1>3, <1>8, <1>11, <1>12 DEF valid

\* What a report says of a signal: its slices share the samples out, and its
\* figures are those of the pairs.
AddsUp(report, x, s) ==
  LET In(d) == {k \in DOMAIN report.sliced : k[1] = d}
      all == report.overall[s]
      acc == all.acc IN
  /\ SumOver(In("REGIME"), [k \in In("REGIME") |-> report.sliced[k][s].total]) = all.total
  /\ SumOver(In("REGIME"), [k \in In("REGIME") |-> report.sliced[k][s].paired]) = all.paired
  /\ SumOver(In("REGIME"), [k \in In("REGIME") |-> report.sliced[k][s].acc.consistent])
       = acc.consistent
  /\ \A d : SumOver(In(d), [k \in In(d) |-> report.sliced[k][s].total]) <= all.total
  /\ all.total = all.paired + SumOver(DOMAIN all.excluded, all.excluded)
  /\ all.paired > 0 =>
       MetricsFit(acc, Picked(PairsOf(x, s), {i \in DOMAIN PairsOf(x, s) : PairsOf(x, s)[i].valid}),
                  all.paired)
  /\ all.mae = Averaged(acc.absolute, acc) /\ all.mse = Averaged(acc.squares, acc)
  /\ all.bias = Averaged(acc.errors, acc)

\* metrics.py and stratification.py: what the report says of a signal fits together.
LEMMA ReportFits ==
  ASSUME NEW x \in Exams, NEW s \in Signals
  PROVE  AddsUp(Stratified(Aligned(x), x.answers, x.contexts), x, s)
  <1> DEFINE n == Len(x.dataset.frames)
             pairs == PairsOf(x, s)
             report == Stratified(Aligned(x), x.answers, x.contexts)
             In(d) == {k \in DOMAIN report.sliced : k[1] = d}
             all == report.overall[s]
             of(k) == report.sliced[k][s]
             valid == ValidOf(pairs, 1..n)
  <1>1. /\ n \in Nat /\ DOMAIN Aligned(x) = 1..n
        /\ \A i \in 1..n : IsPair(pairs[i])
    BY PairsOfAre
  <1>2. Missing \notin Int \X Int
    BY BenchmarkAssumption
  <1>3. /\ all = Summary(pairs, 1..n)
        /\ DOMAIN report.sliced = KeysOf(x)
        /\ \A k \in KeysOf(x) : of(k) = Summary(pairs, FramesIn(x, k))
    <2> HIDE DEF pairs
    <2>1. /\ all = Summary(pairs, DOMAIN Aligned(x))
          /\ DOMAIN report.sliced = KeysOf(x)
          /\ \A k \in KeysOf(x) : of(k) = Summary(pairs, FramesIn(x, k))
      <3> HIDE DEF report
      <3>1. QED
        BY ReportIs DEF report, pairs
    <2>2. QED
      BY <1>1, <2>1
  <1>4. DOMAIN pairs = 1..n
    BY <1>1 DEF PairsOf
  <1> HIDE DEF n, pairs
  <1>5. \A d : In(d) = KeysIn(x, d)
    BY <1>3 DEF KeysIn
  <1> HIDE DEF report
  <1>6. ASSUME NEW d, NEW k \in In(d)
        PROVE  /\ of(k).total = Cardinality(FramesIn(x, k))
               /\ of(k).paired = Cardinality(ValidOf(pairs, FramesIn(x, k)))
               /\ of(k).acc.consistent = Cardinality(ConsistentOnes(pairs, FramesIn(x, k)))
    <2>1. of(k) = Summary(pairs, FramesIn(x, k))
      BY <1>3
    <2>2. FramesIn(x, k) \in SUBSET (1..n)
      BY <1>1 DEF FramesIn
    <2> HIDE DEF of
    <2>3. SummaryOn(Summary(pairs, FramesIn(x, k)), pairs, FramesIn(x, k))
      BY <1>1, <1>2, <2>2, SummaryFits
    <2>4. QED
      BY <2>1, <2>3 DEF SummaryOn
  <1> HIDE DEF of, all, In
  <1>7. n = Cardinality(1..n) /\ SummaryOn(all, pairs, 1..n)
    <2> DEFINE whole == 1..n
    <2>1. whole \in SUBSET (1..n) /\ Cardinality(whole) = n
      BY <1>1, FS_Interval
    <2>2. all = Summary(pairs, whole)
      BY <1>3
    <2> HIDE DEF whole
    <2>3. SummaryOn(Summary(pairs, whole), pairs, whole)
      BY <1>1, <1>2, <2>1, SummaryFits
    <2>4. QED
      BY <2>1, <2>2, <2>3 DEF whole
  <1>8. valid = {i \in DOMAIN pairs : pairs[i].valid}
    BY <1>4 DEF ValidOf
  <1>9. ASSUME NEW d
        PROVE  LET w == [k \in In(d) |-> of(k).total] IN
               SumOver(In(d), w) <= n /\ (d = "REGIME" => SumOver(In(d), w) = n)
    <2> DEFINE w == [k \in In(d) |-> of(k).total]
    <2>1. \A k \in KeysIn(x, d) : w[k] = Cardinality(FramesIn(x, k))
      BY <1>5, <1>6
    <2> HIDE DEF w
    <2>2. SumOver(KeysIn(x, d), w) <= n /\ (d = "REGIME" => SumOver(KeysIn(x, d), w) = n)
      BY <2>1, SlicesCount DEF n
    <2>3. QED
      BY <1>5, <2>2 DEF w
  <1>10. LET d == "REGIME"
             w == [k \in In(d) |-> of(k).paired] IN SumOver(In(d), w) = Cardinality(valid)
    <2> DEFINE d == "REGIME"
               w == [k \in In(d) |-> of(k).paired]
    <2>1. \A k \in KeysIn(x, d) : w[k] = Cardinality(ValidOf(pairs, FramesIn(x, k)))
      BY <1>5, <1>6
    <2> HIDE DEF w
    <2>2. SumOver(KeysIn(x, d), w) = Cardinality(ValidOf(pairs, 1..n))
      BY <2>1, SlicesCount DEF n, pairs
    <2>3. QED
      BY <1>5, <2>2 DEF w, valid
  <1>11. LET d == "REGIME"
             w == [k \in In(d) |-> of(k).acc.consistent]
         IN SumOver(In(d), w) = Cardinality(ConsistentOnes(pairs, 1..n))
    <2> DEFINE d == "REGIME"
               w == [k \in In(d) |-> of(k).acc.consistent]
    <2>1. \A k \in KeysIn(x, d) : w[k] = Cardinality(ConsistentOnes(pairs, FramesIn(x, k)))
      BY <1>5, <1>6
    <2> HIDE DEF w
    <2>2. SumOver(KeysIn(x, d), w) = Cardinality(ConsistentOnes(pairs, 1..n))
      BY <2>1, SlicesCount DEF n, pairs
    <2>3. QED
      BY <1>5, <2>2 DEF w
  <1>12. n = Cardinality(valid) + SumOver(DOMAIN all.excluded, all.excluded)
    <2>1. all.excluded = ExcludedOf(pairs, (1..n) \ ValidOf(pairs, 1..n))
      BY <1>7 DEF SummaryOn
    <2>2. QED
      BY <1>1, <2>1, ExcludedAddUp DEF valid
  <1> DEFINE acc == all.acc
  <1>13. /\ all.total = n /\ all.paired = Cardinality(valid)
         /\ acc.consistent = Cardinality(ConsistentOnes(pairs, 1..n))
         /\ all.paired > 0 => MetricsFit(acc, Picked(pairs, valid), all.paired)
         /\ all.mae = Averaged(acc.absolute, acc) /\ all.mse = Averaged(acc.squares, acc)
         /\ all.bias = Averaged(acc.errors, acc)
    BY <1>7 DEF SummaryOn, valid
  <1> HIDE DEF valid
  <1>14. QED
    BY <1>13, <1>8, <1>9, <1>10, <1>11, <1>12 DEF AddsUp, pairs, report, In, all, of

-----------------------------------------------------------------------------
(* The score of an examination.                                            *)

\* The last score is the report of an examination.
LastIsReported ==
  last.signals # Missing =>
    /\ last.exam \in Exams
    /\ last.signals = Stratified(Aligned(last.exam), last.exam.answers, last.exam.contexts)

\* Only a run changes the last score, and it stores what it reports.
LEMMA ReportKept ==
  ASSUME LastIsReported, [Next]_vars
  PROVE  LastIsReported'
  <1>1. ASSUME NEW x \in Runnable, NEW system \in Systems, RunBenchmark(system, x)
        PROVE  LastIsReported'
    <2>1. last' = [exam |-> x, signals |-> SignalReport(x), diagnosis |-> DiagnosisReport(x)]
      BY <1>1 DEF RunBenchmark, RecordResult
    <2>2. last'.exam = x /\ last'.signals = SignalReport(x)
      BY <2>1
    <2>3. SignalReport(x) # Missing =>
            SignalReport(x) = Stratified(Aligned(x), x.answers, x.contexts)
      BY DEF SignalReport
    <2>4. x \in Exams
      BY RunnableAreExams
    <2>5. QED
      BY <2>2, <2>3, <2>4 DEF LastIsReported
  <1>2. CASE UNCHANGED last
    BY <1>2 DEF LastIsReported
  <1>3. QED
    BY <1>1, <1>2 DEF Next, RegisterDataset, RunFails, ResetSystem, ResetAll, vars

\* Whatever a dataset measured and the twin answers, the operating regimes share
\* the samples of every signal out, no dimension counts a sample twice, every
\* sample is paired or counted as excluded, the mean error is at most the root
\* mean square and that at most the worst, and Welford's recurrence gives the
\* variance of the references.
THEOREM StrataAdd == Spec => []StrataAddUp
  <1>1. Init => LastIsReported
    BY DEF Init, NoScore, LastIsReported
  <1>2. LastIsReported => StrataAddUp
    <2> SUFFICES ASSUME LastIsReported, last.signals # Missing PROVE StrataAddUp
      BY DEF StrataAddUp
    <2> DEFINE x == last.exam
    <2>1. x \in Exams /\ last.signals = Stratified(Aligned(x), x.answers, x.contexts)
      BY DEF LastIsReported
    <2> DEFINE report == last.signals
               In(d) == {k \in DOMAIN report.sliced : k[1] = d}
               valid(s) == Picked(PairsOf(x, s), {i \in DOMAIN PairsOf(x, s) : PairsOf(x, s)[i].valid})
    <2>2. ASSUME NEW s \in Signals
          PROVE  AddsUp(report, x, s)
      BY <2>1, ReportFits
    <2>3. ASSUME NEW s \in Signals
          PROVE  Chosen([i \in DOMAIN Aligned(x) |-> Aligned(x)[i][s]], LAMBDA p : p.valid) = valid(s)
      BY DEF Chosen, PairsOf
    <2> HIDE DEF valid
    <2>4. ASSUME NEW s \in Signals
          PROVE  LET all == report.overall[s]
                     acc == all.acc
                     pairs == valid(s)
                     sum == SumUp([i \in DOMAIN pairs |-> pairs[i].ref])
                     squares == SumUp([i \in DOMAIN pairs |-> Scaled(pairs[i].ref, pairs[i].ref)]) IN
                 all.paired > 0 =>
                   /\ AtMost(Scaled(all.mae, all.mae), all.mse)
                   /\ AtMost(Scaled(all.bias, all.bias), all.mse)
                   /\ AtMost(all.mse, Scaled(acc.worst, acc.worst))
                   /\ SameAs(Times(all.paired, acc.refM2),
                             Plus(Times(all.paired, squares), Minus(Scaled(sum, sum))))
      BY <2>2 DEF AddsUp, MetricsFit, valid
    <2>5. QED
      BY <2>2, <2>3, <2>4 DEF StrataAddUp, AddsUp
  <1>3. QED
    BY <1>1, <1>2, ReportKept, PTL DEF Spec
===============================================================================
