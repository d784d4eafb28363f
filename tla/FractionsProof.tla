---------------------------- MODULE FractionsProof ----------------------------
(***************************************************************************)
(* Theorems about numbers: what greatest common divisors, sums of numbers  *)
(* and of fractions and flattened lists are.                               *)
(*                                                                         *)
(* Every recursive function here is of numbers up to a bound.  That such a *)
(* function exists and is the only one is shown by the least number at     *)
(* which it would not be.  Fractions of one denominator are compared and   *)
(* summed by their numerators: StandsFor.                                  *)
(***************************************************************************)
EXTENDS Fractions, WellFoundedInduction, TLAPS

-----------------------------------------------------------------------------
(* The least number of a set.                                              *)

\* A set of numbers has a least one.
LEMMA LeastNumber ==
  ASSUME NEW T \in SUBSET Nat, T # {}
  PROVE  \E m \in T : \A k \in T : m <= k
  <1> DEFINE R == OpToRel(<, Nat)
  <1>1. IsWellFoundedOn(R, Nat)
    BY NatLessThanWellFounded
  <1>2. \A p \in Nat, q \in Nat : <<p, q>> \in R <=> p < q
    BY DEF OpToRel
  <1> HIDE DEF R
  <1>3. PICK m \in T : \A k \in T : ~(<<k, m>> \in R)
    BY <1>1, WFMin
  <1>4. ASSUME NEW k \in T
        PROVE  m <= k
    <2>1. m \in Nat /\ k \in Nat /\ ~(k < m)
      BY <1>2, <1>3
    <2>2. QED
      BY <2>1
  <1>5. QED
    BY <1>4

-----------------------------------------------------------------------------
(* Division.                                                               *)

\* Division by a positive number, and what is left.
LEMMA Divided ==
  ASSUME NEW a \in Int, NEW b \in Nat \ {0}
  PROVE  /\ a \div b \in Int /\ a % b \in Int
         /\ a = (b * (a \div b)) + (a % b)
         /\ 0 <= a % b /\ a % b < b
  OBVIOUS

\* The quotient and the rest are the only ones of their kind.
LEMMA Quotient ==
  ASSUME NEW b \in Nat \ {0}, NEW q \in Int, NEW r \in 0..b - 1
  PROVE  ((b * q) + r) \div b = q /\ ((b * q) + r) % b = r
  OBVIOUS

-----------------------------------------------------------------------------
(* The greatest common divisor: the recursive function exists, and divides. *)

GcdStep(f, x, y) == IF y = 0 THEN x ELSE f[<<y, x % y>>]

\* What Gcd is for second arguments up to k.
IsGcdTo(f, k) == f = [p \in Nat \X (0..k) |-> GcdStep(f, p[1], p[2])]

\* Euclid's steps, as far as a function has them.
LEMMA GcdToSteps ==
  ASSUME NEW k \in Nat, NEW f, IsGcdTo(f, k), NEW x \in Nat, NEW y \in 0..k
  PROVE  f[<<x, y>>] = GcdStep(f, x, y)
  <1>1. f = [p \in Nat \X (0..k) |-> GcdStep(f, p[1], p[2])]
    BY DEF IsGcdTo
  <1>2. <<x, y>> \in Nat \X (0..k)
    OBVIOUS
  <1>3. f[<<x, y>>] = GcdStep(f, <<x, y>>[1], <<x, y>>[2])
    BY <1>1, <1>2
  <1>4. QED
    BY <1>3

\* Euclid's steps can be taken as far as wanted.
LEMMA GcdToExists ==
  ASSUME NEW n \in Nat
  PROVE  \E f : IsGcdTo(f, n)
  <1> DEFINE T == {k \in Nat : ~\E f : IsGcdTo(f, k)}
  <1>1. SUFFICES ASSUME T # {} PROVE FALSE
    OBVIOUS
  <1>2. T \in SUBSET Nat
    OBVIOUS
  <1>3. PICK k \in T : \A i \in T : k <= i
    BY <1>1, <1>2, LeastNumber
  <1>4. k \in Nat /\ ~\E f : IsGcdTo(f, k)
    OBVIOUS
  <1>5. CASE k = 0
    <2> DEFINE f == [p \in Nat \X (0..0) |-> p[1]]
    <2>1. \A p \in Nat \X (0..0) : p[2] = 0
      OBVIOUS
    <2> DEFINE g == [p \in Nat \X (0..0) |-> GcdStep(f, p[1], p[2])]
    <2>2. \A p \in Nat \X (0..0) : GcdStep(f, p[1], p[2]) = p[1]
      BY <2>1 DEF GcdStep
    <2>3. f = g
      BY <2>2
    <2>4. IsGcdTo(f, 0)
      BY <2>3 DEF IsGcdTo
    <2>5. QED
      BY <1>4, <1>5, <2>4
  <1>6. CASE k # 0
    <2>1. k - 1 \in Nat /\ ~(k <= k - 1)
      BY <1>4, <1>6
    <2>2. PICK h : IsGcdTo(h, k - 1)
      BY <1>3, <2>1
    <2> DEFINE f == [p \in Nat \X (0..k) |-> IF p[2] = k THEN h[<<k, p[1] % k>>] ELSE h[p]]
    <2>3. ASSUME NEW p \in Nat \X (0..k)
          PROVE  f[p] = GcdStep(f, p[1], p[2])
      <3> DEFINE x == p[1]
                 y == p[2]
      <3>1. x \in Nat /\ y \in 0..k /\ p = <<x, y>> /\ y \in Nat
        BY <1>4
      <3> HIDE DEF x, y
      <3>2. f[p] = IF y = k THEN h[<<k, x % k>>] ELSE h[p]
        BY DEF x, y
      <3>3. \A u \in Nat, v \in 0..k - 1 : f[<<u, v>>] = h[<<u, v>>]
        <4>1. \A u \in Nat, v \in 0..k - 1 : <<u, v>> \in Nat \X (0..k) /\ v # k
          BY <1>4
        <4>2. QED
          BY <4>1
      <3> HIDE DEF f
      <3>4. CASE y = k
        <4>1. x % k \in 0..k - 1
          BY <1>4, <1>6, <3>1, Divided
        <4>2. f[<<y, x % y>>] = h[<<k, x % k>>]
          BY <1>4, <3>3, <3>4, <4>1
        <4>3. QED
          BY <1>6, <3>2, <3>4, <4>2 DEF GcdStep, x, y
      <3>5. CASE y # k
        <4>1. y \in 0..k - 1
          BY <1>4, <3>1, <3>5
        <4>2. h[p] = GcdStep(h, x, y)
          BY <2>1, <2>2, <3>1, <4>1, GcdToSteps
        <4>3. y = 0 \/ f[<<y, x % y>>] = h[<<y, x % y>>]
          <5>1. y = 0 \/ x % y \in 0..k - 1
            <6>1. CASE y # 0
              <7>1. 0 <= x % y /\ x % y < y /\ x % y \in Int
                BY <3>1, <6>1, Divided
              <7>2. QED
                BY <1>4, <4>1, <7>1
            <6>2. QED
              BY <6>1
          <5>2. QED
            BY <3>1, <3>3, <5>1
        <4>4. QED
          BY <3>2, <3>5, <4>2, <4>3 DEF GcdStep, x, y
      <3>6. QED
        BY <3>4, <3>5
    <2>4. f = [p \in Nat \X (0..k) |-> f[p]]
      OBVIOUS
    <2> HIDE DEF f
    <2>5. IsGcdTo(f, k)
      BY <2>3, <2>4 DEF IsGcdTo
    <2>6. QED
      BY <1>4, <2>5
  <1>7. QED
    BY <1>5, <1>6

\* Euclid's steps lead to one value, however far they are taken.
LEMMA GcdToUnique ==
  ASSUME NEW k \in Nat, NEW l \in Nat, NEW f, NEW h, IsGcdTo(f, k), IsGcdTo(h, l),
         NEW x \in Nat, NEW y \in Nat, y <= k, y <= l
  PROVE  f[<<x, y>>] = h[<<x, y>>]
  <1> DEFINE T == {v \in Nat : v <= k /\ v <= l /\ \E u \in Nat : f[<<u, v>>] # h[<<u, v>>]}
  <1>1. SUFFICES ASSUME T # {} PROVE FALSE
    OBVIOUS
  <1>2. T \in SUBSET Nat
    OBVIOUS
  <1>3. PICK v \in T : \A i \in T : v <= i
    BY <1>1, <1>2, LeastNumber
  <1>4. v \in Nat /\ v <= k /\ v <= l /\ v \in 0..k /\ v \in 0..l
    OBVIOUS
  <1>5. PICK u \in Nat : f[<<u, v>>] # h[<<u, v>>]
    BY <1>3
  <1>6. f[<<u, v>>] = GcdStep(f, u, v) /\ h[<<u, v>>] = GcdStep(h, u, v)
    BY <1>4, GcdToSteps
  <1>7. v # 0 /\ f[<<v, u % v>>] # h[<<v, u % v>>]
    BY <1>5, <1>6 DEF GcdStep
  <1>8. u % v \in Nat /\ u % v < v
    BY <1>4, <1>7, Divided
  <1>9. u % v \in T
    BY <1>4, <1>7, <1>8
  <1>10. v <= u % v
    BY <1>3, <1>9
  <1>11. QED
    BY <1>4, <1>8, <1>10

\* The greatest common divisor satisfies the equation it is defined by.
LEMMA GcdIs ==
  ASSUME NEW x \in Nat, NEW y \in Nat
  PROVE  Gcd[<<x, y>>] = IF y = 0 THEN x ELSE Gcd[<<y, x % y>>]
  <1> DEFINE upTo(k) == CHOOSE f : IsGcdTo(f, k)
             IsGcd(g) == g = [p \in Nat \X Nat |-> GcdStep(g, p[1], p[2])]
             f == [p \in Nat \X Nat |-> upTo(p[2])[p]]
  <1>1. \A k \in Nat : IsGcdTo(upTo(k), k)
    BY GcdToExists
  <1> HIDE DEF upTo
  <1>2. \A u \in Nat, v \in Nat : f[<<u, v>>] = upTo(v)[<<u, v>>]
    OBVIOUS
  <1>3. ASSUME NEW u \in Nat, NEW v \in Nat
        PROVE  f[<<u, v>>] = GcdStep(f, u, v)
    <2> HIDE DEF f
    <2>1. IsGcdTo(upTo(v), v) /\ v \in 0..v
      BY <1>1
    <2>2. upTo(v)[<<u, v>>] = GcdStep(upTo(v), u, v)
      BY <2>1, GcdToSteps
    <2>3. CASE v = 0
      BY <1>2, <2>2, <2>3 DEF GcdStep
    <2>4. CASE v # 0
      <3> DEFINE w == u % v
      <3>1. w \in Nat /\ w < v /\ w <= v /\ w <= w
        BY <2>4, Divided
      <3> HIDE DEF w
      <3>2. IsGcdTo(upTo(w), w)
        BY <1>1, <3>1
      <3>3. upTo(v)[<<v, w>>] = upTo(w)[<<v, w>>]
        BY <2>1, <3>1, <3>2, GcdToUnique
      <3>4. f[<<v, w>>] = upTo(w)[<<v, w>>]
        BY <1>2, <3>1
      <3>5. f[<<u, v>>] = upTo(v)[<<v, w>>]
        BY <1>2, <2>2, <2>4 DEF GcdStep, w
      <3>6. QED
        BY <2>4, <3>3, <3>4, <3>5 DEF GcdStep, w
    <2>5. QED
      BY <2>3, <2>4
  <1>4. IsGcd(f)
    <2>1. f = [p \in Nat \X Nat |-> f[p]]
      OBVIOUS
    <2> HIDE DEF f
    <2>2. \A p \in Nat \X Nat : f[p] = GcdStep(f, p[1], p[2])
      <3> SUFFICES ASSUME NEW p \in Nat \X Nat PROVE f[p] = GcdStep(f, p[1], p[2])
        OBVIOUS
      <3>1. p[1] \in Nat /\ p[2] \in Nat /\ p = <<p[1], p[2]>>
        OBVIOUS
      <3>2. f[<<p[1], p[2]>>] = GcdStep(f, p[1], p[2])
        BY <1>3, <3>1
      <3>3. QED
        BY <3>1, <3>2
    <2>3. QED
      BY <2>1, <2>2
  <1>5. Gcd = CHOOSE g : IsGcd(g)
    BY Zenon DEF Gcd, GcdStep
  <1> HIDE DEF f, IsGcd
  <1>6. IsGcd(Gcd)
    BY <1>4, <1>5
  <1>7. Gcd = [p \in Nat \X Nat |-> GcdStep(Gcd, p[1], p[2])]
    BY <1>6 DEF IsGcd
  <1>8. <<x, y>> \in Nat \X Nat
    OBVIOUS
  <1>9. Gcd[<<x, y>>] = GcdStep(Gcd, x, y)
    <2> DEFINE p == <<x, y>>
    <2>1. p \in Nat \X Nat /\ p[1] = x /\ p[2] = y
      OBVIOUS
    <2> HIDE DEF p
    <2>2. Gcd[p] = GcdStep(Gcd, p[1], p[2])
      BY <1>7, <2>1
    <2>3. QED
      BY <2>1, <2>2 DEF p
  <1>10. QED
    BY <1>9 DEF GcdStep

\* It divides both.
LEMMA GcdDivides ==
  ASSUME NEW x \in Nat, NEW y \in Nat, x # 0 \/ y # 0
  PROVE  /\ Gcd[<<x, y>>] \in Nat \ {0}
         /\ \E a, b \in Nat : x = Gcd[<<x, y>>] * a /\ y = Gcd[<<x, y>>] * b
  <1> DEFINE Divides(u, v) == /\ Gcd[<<u, v>>] \in Nat \ {0}
                              /\ \E a, b \in Nat : u = Gcd[<<u, v>>] * a /\ v = Gcd[<<u, v>>] * b
             T == {v \in Nat : \E u \in Nat : (u # 0 \/ v # 0) /\ ~Divides(u, v)}
  <1>1. SUFFICES ASSUME T # {} PROVE FALSE
    OBVIOUS
  <1>2. T \in SUBSET Nat
    OBVIOUS
  <1>3. PICK v \in T : \A i \in T : v <= i
    BY <1>1, <1>2, LeastNumber
  <1>4. v \in Nat
    OBVIOUS
  <1>5. PICK u \in Nat : (u # 0 \/ v # 0) /\ ~Divides(u, v)
    BY <1>3
  <1>6. CASE v = 0
    <2>1. Gcd[<<u, v>>] = u
      BY <1>4, <1>6, GcdIs
    <2>2. u \in Nat \ {0} /\ u = u * 1 /\ v = u * 0
      BY <1>5, <1>6
    <2>3. QED
      BY <1>5, <2>1, <2>2
  <1>7. CASE v # 0
    <2> DEFINE w == u % v
               q == u \div v
               g == Gcd[<<v, w>>]
    <2>1. w \in Nat /\ w < v /\ q \in Nat /\ u = (v * q) + w
      <3>1. u \div v \in Int /\ u % v \in Int /\ u = (v * (u \div v)) + (u % v) /\ 0 <= u % v /\ u % v < v
        BY <1>4, <1>7, Divided
      <3>2. u \div v >= 0
        BY <1>4, <1>7
      <3>3. QED
        BY <3>1, <3>2
    <2>2. Gcd[<<u, v>>] = g
      BY <1>4, <1>7, GcdIs
    <2> HIDE DEF w, q
    <2>3. w \notin T
      <3> HIDE DEF T
      <3>1. ASSUME w \in T PROVE FALSE
        <4>1. v <= w
          BY <1>3, <3>1
        <4>2. QED
          BY <1>4, <2>1, <4>1
      <3>2. QED
        BY <3>1
    <2>4. Divides(v, w)
      BY <1>4, <1>7, <2>1, <2>3
    <2>5. PICK a \in Nat, b \in Nat : v = g * a /\ w = g * b
      BY <2>4
    <2>6. g \in Nat
      BY <2>4
    <2> HIDE DEF g
    <2>7. u = g * ((a * q) + b) /\ (a * q) + b \in Nat
      <3>1. (g * a) * q = g * (a * q) /\ a * q \in Nat
        BY <2>1, <2>5, <2>6
      <3> DEFINE c == a * q
      <3> HIDE DEF c
      <3>2. g * (c + b) = (g * c) + (g * b)
        BY <2>5, <2>6, <3>1 DEF c
      <3>3. v * q = g * c
        BY <2>5, <3>1 DEF c
      <3>4. u = g * (c + b) /\ c + b \in Nat
        BY <2>1, <2>5, <3>1, <3>2, <3>3 DEF c
      <3>5. QED
        BY <3>4 DEF c
    <2>8. Gcd[<<u, v>>] \in Nat \ {0}
      BY <2>2, <2>4 DEF g
    <2>9. QED
      BY <1>5, <2>2, <2>5, <2>7, <2>8
  <1>8. QED
    BY <1>6, <1>7

-----------------------------------------------------------------------------
(* Fractions.                                                              *)

\* The absolute value is not less than the number or its opposite.
LEMMA AbsIs ==
  ASSUME NEW n \in Int
  PROVE  /\ Abs(n) \in Nat /\ (Abs(n) = n \/ Abs(n) = -n) /\ n <= Abs(n) /\ -n <= Abs(n)
         /\ Abs(n) * Abs(n) = n * n
  BY DEF Abs

\* What Over makes is that fraction.
LEMMA OverIs ==
  ASSUME NEW n \in Int, NEW d \in Int, d # 0
  PROVE  LET a == Over(n, d) IN
         a = <<a[1], a[2]>> /\ a[1] \in Int /\ a[2] \in Nat \ {0} /\ a[1] * d = n * a[2]
  <1> DEFINE x == Abs(n)
             y == Abs(d)
             g == Gcd[<<x, y>>]
             sign == IF d < 0 THEN -1 ELSE 1
  <1>1. x \in Nat /\ y \in Nat /\ y # 0 /\ (x = n \/ x = -n) /\ y = sign * d /\ sign * sign = 1
        /\ sign \in {-1, 1}
    BY DEF Abs
  <1>2. Over(n, d) = <<(sign * n) \div g, (sign * d) \div g>>
    BY DEF Over
  <1>3. g \in Nat \ {0} /\ \E a, b \in Nat : x = g * a /\ y = g * b
    BY <1>1, GcdDivides
  <1> HIDE DEF sign, x, y, g
  <1>4. PICK a \in Nat, b \in Nat : x = g * a /\ y = g * b
    BY <1>3
  <1>5. PICK s \in {-1, 1} : n = s * x
    BY <1>1
  <1>6. PICK t \in {-1, 1} : t = sign * s
    BY <1>1, <1>5
  <1>7. sign * n = g * (t * a)
    BY <1>1, <1>3, <1>4, <1>5, <1>6
  <1>8. (sign * n) \div g = t * a
    <2>1. t * a \in Int /\ 0 \in 0..g - 1
      BY <1>3, <1>4, <1>6
    <2>2. ((g * (t * a)) + 0) \div g = t * a
      BY <1>3, <2>1, Quotient
    <2>3. (g * (t * a)) + 0 = g * (t * a)
      BY <1>3, <2>1
    <2>4. QED
      BY <1>7, <2>2, <2>3
  <1>9. (sign * d) \div g = b
    <2>1. ((g * b) + 0) \div g = b
      BY <1>3, <1>4, Quotient
    <2>2. (g * b) + 0 = g * b
      BY <1>3, <1>4
    <2>3. QED
      BY <1>1, <1>4, <2>1, <2>2
  <1>10. b # 0
    BY <1>1, <1>3, <1>4
  <1>11. Over(n, d) = <<t * a, b>> /\ t * a \in Int
    BY <1>2, <1>4, <1>6, <1>8, <1>9
  <1>12. (t * a) * d = n * b
    <2>1. d = sign * y
      BY <1>1
    <2>2. (t * a) * d = (t * sign) * (a * y)
      BY <1>1, <1>4, <1>6, <2>1
    <2>3. t * sign = s
      BY <1>1, <1>5, <1>6
    <2>4. a * y = x * b
      BY <1>3, <1>4
    <2>5. s * (x * b) = (s * x) * b
      BY <1>1, <1>4, <1>5
    <2>6. QED
      BY <1>5, <2>2, <2>3, <2>4, <2>5
  <1>13. QED
    BY <1>4, <1>10, <1>11, <1>12

\* Nothing, over anything, is zero.
LEMMA OverOfNothing ==
  ASSUME NEW d \in Int, d # 0
  PROVE  Over(0, d) = Zero
  <1> DEFINE y == Abs(d)
             g == Gcd[<<Abs(0), y>>]
             sign == IF d < 0 THEN -1 ELSE 1
  <1>1. Abs(0) = 0 /\ y \in Nat \ {0} /\ y = sign * d /\ sign * 0 = 0
    BY DEF Abs
  <1>2. Over(0, d) = <<(sign * 0) \div g, (sign * d) \div g>>
    BY DEF Over
  <1> HIDE DEF y, sign
  <1>3. g = y
    <2>1. g = Gcd[<<y, 0 % y>>]
      BY <1>1, GcdIs
    <2>2. 0 % y = 0
      BY <1>1
    <2>3. Gcd[<<y, 0>>] = y
      BY <1>1, GcdIs
    <2>4. QED
      BY <2>1, <2>2, <2>3
  <1>4. 0 \div y = 0 /\ y \div y = 1
    BY <1>1
  <1>5. QED
    BY <1>1, <1>2, <1>3, <1>4 DEF Zero, Whole

-----------------------------------------------------------------------------
(* The sums of the first elements of a sequence.                            *)

SumStep(f, s, i) == IF i = 0 THEN 0 ELSE f[i - 1] + s[i]

\* f is defined by that up to k.
SumTo(f, s, k) == f = [i \in 0..k |-> SumStep(f, s, i)]

\* The first elements can be summed as far as wanted.
LEMMA SumToExists ==
  ASSUME NEW s, NEW n \in Nat, n >= 0
  PROVE  \E f : SumTo(f, s, n)
  <1> DEFINE T == {k \in Nat : k >= 0 /\ ~\E f : SumTo(f, s, k)}
  <1>1. SUFFICES ASSUME T # {} PROVE FALSE
    OBVIOUS
  <1>2. T \in SUBSET Nat
    OBVIOUS
  <1>3. PICK k \in T : \A i \in T : k <= i
    BY <1>1, <1>2, LeastNumber
  <1>4. k \in Nat /\ k >= 0 /\ ~\E f : SumTo(f, s, k)
    OBVIOUS
  <1>5. CASE k = 0
    <2> DEFINE f == [i \in 0..0 |-> 0]
    <2>1. \A i \in 0..0 : SumStep(f, s, i) = 0
      BY DEF SumStep
    <2>2. f = [i \in 0..0 |-> SumStep(f, s, i)]
      BY <2>1
    <2>3. SumTo(f, s, 0)
      BY <2>2 DEF SumTo
    <2>4. QED
      BY <1>4, <1>5, <2>3
  <1>6. CASE k # 0
    <2>1. k - 1 \in Nat /\ k - 1 >= 0 /\ ~(k <= k - 1)
      BY <1>4, <1>6
    <2>2. PICK h : SumTo(h, s, k - 1)
      <3> HIDE DEF T
      <3>1. k - 1 \notin T
        BY <1>3, <2>1
      <3>2. QED
        BY <2>1, <3>1 DEF T
    <2> DEFINE f == [i \in 0..k |-> SumStep(h, s, i)]
    <2>3. ASSUME NEW i \in 0..k
          PROVE  f[i] = SumStep(f, s, i)
      <3>1. f[i] = SumStep(h, s, i)
        OBVIOUS
      <3>2. CASE i = 0
        BY <3>1, <3>2 DEF SumStep
      <3>3. CASE i # 0
        <4>1. i - 1 \in 0..k - 1 /\ i - 1 \in 0..k
          BY <1>4, <3>3
        <4>2. h[i - 1] = SumStep(h, s, i - 1)
          <5>1. h = [j \in 0..k - 1 |-> SumStep(h, s, j)]
            BY <2>2 DEF SumTo
          <5>2. QED
            BY <4>1, <5>1
        <4>3. f[i - 1] = SumStep(h, s, i - 1)
          BY <4>1
        <4> HIDE DEF f
        <4>4. QED
          BY <3>1, <3>3, <4>2, <4>3 DEF SumStep
      <3>4. QED
        BY <3>2, <3>3
    <2>4. f = [i \in 0..k |-> f[i]]
      OBVIOUS
    <2> HIDE DEF f
    <2>5. SumTo(f, s, k)
      BY <2>3, <2>4 DEF SumTo
    <2>6. QED
      BY <1>4, <2>5
  <1>7. QED
    BY <1>5, <1>6

\* The sum of the first elements is one number, and depends on them alone.
LEMMA SumToUnique ==
  ASSUME NEW s, NEW t, NEW k \in Nat, NEW l \in Nat, NEW f, NEW h, SumTo(f, s, k), SumTo(h, t, l),
         NEW m \in Nat, 0 <= m, m <= k, m <= l, \A i \in 1..m : s[i] = t[i]
  PROVE  f[m] = h[m]
  <1> DEFINE T == {i \in Nat : 0 <= i /\ i <= m /\ f[i] # h[i]}
  <1>1. SUFFICES ASSUME T # {} PROVE FALSE
    OBVIOUS
  <1>2. T \in SUBSET Nat
    OBVIOUS
  <1>3. PICK i \in T : \A j \in T : i <= j
    BY <1>1, <1>2, LeastNumber
  <1>4. i \in Nat /\ 0 <= i /\ i <= m /\ f[i] # h[i]
    OBVIOUS
  <1>5. i \in 0..k /\ i \in 0..l
    BY <1>4
  <1>6. f[i] = SumStep(f, s, i) /\ h[i] = SumStep(h, t, i)
    <2>1. f = [j \in 0..k |-> SumStep(f, s, j)] /\ h = [j \in 0..l |-> SumStep(h, t, j)]
      BY DEF SumTo
    <2>2. QED
      BY <1>5, <2>1
  <1>7. i = 0 \/ s[i] = t[i]
    BY <1>4
  <1>8. i # 0 /\ f[i - 1] # h[i - 1]
    BY <1>4, <1>6, <1>7 DEF SumStep
  <1>9. i - 1 \in T /\ ~(i <= i - 1)
    BY <1>4, <1>8
  <1>10. QED
    BY <1>3, <1>9

-----------------------------------------------------------------------------
(* The first sequences of a sequence of them, one after the other.          *)

FlatStep(f, s, i) == IF i = 1 THEN s[i] ELSE f[i - 1] \o s[i]

\* f is defined by that up to k.
FlatTo(f, s, k) == f = [i \in 1..k |-> FlatStep(f, s, i)]

\* The first sequences can be joined as far as wanted.
LEMMA FlatToExists ==
  ASSUME NEW s, NEW n \in Nat, n >= 1
  PROVE  \E f : FlatTo(f, s, n)
  <1> DEFINE T == {k \in Nat : k >= 1 /\ ~\E f : FlatTo(f, s, k)}
  <1>1. SUFFICES ASSUME T # {} PROVE FALSE
    OBVIOUS
  <1>2. T \in SUBSET Nat
    OBVIOUS
  <1>3. PICK k \in T : \A i \in T : k <= i
    BY <1>1, <1>2, LeastNumber
  <1>4. k \in Nat /\ k >= 1 /\ ~\E f : FlatTo(f, s, k)
    OBVIOUS
  <1>5. CASE k = 1
    <2> DEFINE f == [i \in 1..1 |-> s[1]]
    <2>1. \A i \in 1..1 : FlatStep(f, s, i) = s[1]
      BY DEF FlatStep
    <2>2. f = [i \in 1..1 |-> FlatStep(f, s, i)]
      BY <2>1
    <2>3. FlatTo(f, s, 1)
      BY <2>2 DEF FlatTo
    <2>4. QED
      BY <1>4, <1>5, <2>3
  <1>6. CASE k # 1
    <2>1. k - 1 \in Nat /\ k - 1 >= 1 /\ ~(k <= k - 1)
      BY <1>4, <1>6
    <2>2. PICK h : FlatTo(h, s, k - 1)
      <3> HIDE DEF T
      <3>1. k - 1 \notin T
        BY <1>3, <2>1
      <3>2. QED
        BY <2>1, <3>1 DEF T
    <2> DEFINE f == [i \in 1..k |-> FlatStep(h, s, i)]
    <2>3. ASSUME NEW i \in 1..k
          PROVE  f[i] = FlatStep(f, s, i)
      <3>1. f[i] = FlatStep(h, s, i)
        OBVIOUS
      <3>2. CASE i = 1
        BY <3>1, <3>2 DEF FlatStep
      <3>3. CASE i # 1
        <4>1. i - 1 \in 1..k - 1 /\ i - 1 \in 1..k
          BY <1>4, <3>3
        <4>2. h[i - 1] = FlatStep(h, s, i - 1)
          <5>1. h = [j \in 1..k - 1 |-> FlatStep(h, s, j)]
            BY <2>2 DEF FlatTo
          <5>2. QED
            BY <4>1, <5>1
        <4>3. f[i - 1] = FlatStep(h, s, i - 1)
          BY <4>1
        <4> HIDE DEF f
        <4>4. QED
          BY <3>1, <3>3, <4>2, <4>3 DEF FlatStep
      <3>4. QED
        BY <3>2, <3>3
    <2>4. f = [i \in 1..k |-> f[i]]
      OBVIOUS
    <2> HIDE DEF f
    <2>5. FlatTo(f, s, k)
      BY <2>3, <2>4 DEF FlatTo
    <2>6. QED
      BY <1>4, <2>5
  <1>7. QED
    BY <1>5, <1>6

\* The first sequences joined are one sequence, and depend on them alone.
LEMMA FlatToUnique ==
  ASSUME NEW s, NEW t, NEW k \in Nat, NEW l \in Nat, NEW f, NEW h, FlatTo(f, s, k), FlatTo(h, t, l),
         NEW m \in Nat, 1 <= m, m <= k, m <= l, \A i \in 1..m : s[i] = t[i]
  PROVE  f[m] = h[m]
  <1> DEFINE T == {i \in Nat : 1 <= i /\ i <= m /\ f[i] # h[i]}
  <1>1. SUFFICES ASSUME T # {} PROVE FALSE
    OBVIOUS
  <1>2. T \in SUBSET Nat
    OBVIOUS
  <1>3. PICK i \in T : \A j \in T : i <= j
    BY <1>1, <1>2, LeastNumber
  <1>4. i \in Nat /\ 1 <= i /\ i <= m /\ f[i] # h[i]
    OBVIOUS
  <1>5. i \in 1..k /\ i \in 1..l
    BY <1>4
  <1>6. f[i] = FlatStep(f, s, i) /\ h[i] = FlatStep(h, t, i)
    <2>1. f = [j \in 1..k |-> FlatStep(f, s, j)] /\ h = [j \in 1..l |-> FlatStep(h, t, j)]
      BY DEF FlatTo
    <2>2. QED
      BY <1>5, <2>1
  <1>7. i = 0 \/ s[i] = t[i]
    BY <1>4
  <1>8. i # 1 /\ f[i - 1] # h[i - 1]
    BY <1>4, <1>6, <1>7 DEF FlatStep
  <1>9. i - 1 \in T /\ ~(i <= i - 1)
    BY <1>4, <1>8
  <1>10. QED
    BY <1>3, <1>9

-----------------------------------------------------------------------------
(* Sums and concatenations.                                                *)

\* The sum of the first k.
SumOf(s, k) == (CHOOSE f : SumTo(f, s, k))[k]

\* A sum depends on nothing but the elements summed.
LEMMA SumAgrees ==
  ASSUME NEW s, NEW t, NEW k \in Nat, \A i \in 1..k : s[i] = t[i]
  PROVE  SumOf(s, k) = SumOf(t, k)
  <1> DEFINE f == CHOOSE g : SumTo(g, s, k)
             h == CHOOSE g : SumTo(g, t, k)
  <1>1. SumTo(f, s, k) /\ SumTo(h, t, k)
    BY SumToExists
  <1> HIDE DEF f, h
  <1>2. f[k] = h[k]
    <2>1. 0 <= k /\ k <= k
      OBVIOUS
    <2>2. ASSUME NEW u, NEW v, SumTo(u, s, k), SumTo(v, t, k)
          PROVE  u[k] = v[k]
      BY <2>1, <2>2, SumToUnique, SMTT(60)
    <2>3. QED
      BY <1>1, <2>2, Zenon
  <1>3. QED
    BY <1>2 DEF f, h, SumOf

\* The sum of the first k is that of those before and the k-th.
LEMMA SumIs ==
  ASSUME NEW s, NEW k \in Nat
  PROVE  SumOf(s, k) = IF k = 0 THEN 0 ELSE SumOf(s, k - 1) + s[k]
  <1> DEFINE f == CHOOSE g : SumTo(g, s, k)
             h == CHOOSE g : SumTo(g, s, k - 1)
  <1>1. SumTo(f, s, k)
    BY SumToExists
  <1> HIDE DEF f
  <1>2. f[k] = SumStep(f, s, k)
    <2>1. f = [i \in 0..k |-> SumStep(f, s, i)] /\ k \in 0..k
      BY <1>1 DEF SumTo
    <2>2. QED
      BY <2>1
  <1>3. CASE k = 0
    BY <1>2, <1>3 DEF SumStep, SumOf, f
  <1>4. CASE k # 0
    <2>1. k - 1 \in Nat /\ k - 1 <= k
      BY <1>4
    <2>2. SumTo(h, s, k - 1)
      BY <2>1, SumToExists
    <2> HIDE DEF h
    <2>3. f[k - 1] = h[k - 1]
      BY <1>1, <2>1, <2>2, SumToUnique
    <2>4. QED
      BY <1>2, <1>4, <2>3 DEF SumStep, SumOf, f, h
  <1>5. QED
    BY <1>3, <1>4

\* What the model sums with a fold is the sum of all the elements.
LEMMA TotalIs ==
  ASSUME NEW s, Len(s) \in Nat
  PROVE  Total(s) = SumOf(s, Len(s))
  BY Zenon DEF Total, SumOf, SumTo, SumStep

\* What holds of the sum of the first k for the first and from one to the next.
LEMMA SumsAreNumbers ==
  ASSUME NEW s, NEW n \in Nat, \A i \in 1..n : s[i] \in Int, NEW k \in 0..n
  PROVE  SumOf(s, k) \in Int
  <1> DEFINE T == {i \in Nat : i <= n /\ SumOf(s, i) \notin Int}
  <1>1. SUFFICES ASSUME T # {} PROVE FALSE
    OBVIOUS
  <1>2. PICK i \in T : \A j \in T : i <= j
    BY <1>1, LeastNumber
  <1>3. i \in Nat /\ i <= n /\ SumOf(s, i) \notin Int
    OBVIOUS
  <1>4. SumOf(s, i) = IF i = 0 THEN 0 ELSE SumOf(s, i - 1) + s[i]
    BY <1>3, SumIs
  <1>5. i # 0 /\ i \in 1..n
    BY <1>3, <1>4
  <1>6. i - 1 \in T
    BY <1>3, <1>4, <1>5
  <1>7. i <= i - 1
    <2> HIDE DEF T
    <2>1. QED
      BY <1>2, <1>6
  <1>8. QED
    BY <1>3, <1>7

\* The sums of numbers that are not negative grow.
LEMMA SumsGrow ==
  ASSUME NEW s, NEW n \in Nat, \A i \in 1..n : s[i] \in Nat, NEW k \in 0..n, NEW l \in 0..n, k <= l
  PROVE  SumOf(s, k) \in Nat /\ SumOf(s, l) \in Nat /\ SumOf(s, k) <= SumOf(s, l)
  <1> DEFINE T == {i \in Nat : k <= i /\ i <= n /\ ~(SumOf(s, k) <= SumOf(s, i))}
             U == {i \in Nat : i <= n /\ ~(0 <= SumOf(s, i))}
  <1>1. \A i \in 0..n : SumOf(s, i) \in Int
    <2>1. \A i \in 1..n : s[i] \in Int
      OBVIOUS
    <2>2. QED
      BY <2>1, SumsAreNumbers
  <1>2. \A i \in 1..n : SumOf(s, i) = SumOf(s, i - 1) + s[i] /\ i - 1 \in 0..n
    <2> SUFFICES ASSUME NEW i \in 1..n PROVE SumOf(s, i) = SumOf(s, i - 1) + s[i] /\ i - 1 \in 0..n
      OBVIOUS
    <2>1. i \in Nat /\ i # 0
      OBVIOUS
    <2>2. QED
      BY <2>1, SumIs
  <1>3. SumOf(s, 0) = 0
    BY SumIs
  <1>4. T = {}
    <2> SUFFICES ASSUME T # {} PROVE FALSE
      OBVIOUS
    <2>1. PICK i \in T : \A j \in T : i <= j
      BY LeastNumber
    <2>2. i \in Nat /\ k <= i /\ i <= n /\ ~(SumOf(s, k) <= SumOf(s, i))
      OBVIOUS
    <2>3. i # k /\ i \in 1..n /\ i - 1 \in 0..n /\ k <= i - 1
      BY <1>1, <2>2
    <2>4. s[i] \in Nat /\ SumOf(s, i - 1) \in Int /\ SumOf(s, i) = SumOf(s, i - 1) + s[i]
      BY <1>1, <1>2, <2>3
    <2>5. ~(SumOf(s, k) <= SumOf(s, i - 1))
      BY <1>1, <2>2, <2>4
    <2>6. i - 1 \in T
      BY <2>3, <2>5
    <2>7. i <= i - 1
      <3> HIDE DEF T
      <3>1. QED
        BY <2>1, <2>6
    <2>8. QED
      BY <2>2, <2>7
  <1>5. U = {}
    <2> SUFFICES ASSUME U # {} PROVE FALSE
      OBVIOUS
    <2>1. PICK i \in U : \A j \in U : i <= j
      BY LeastNumber
    <2>2. i \in Nat /\ i <= n /\ ~(0 <= SumOf(s, i))
      OBVIOUS
    <2>3. i \in 1..n /\ i - 1 \in 0..n
      BY <1>3, <2>2
    <2>4. s[i] \in Nat /\ SumOf(s, i - 1) \in Int /\ SumOf(s, i) = SumOf(s, i - 1) + s[i]
      BY <1>1, <1>2, <2>3
    <2>5. ~(0 <= SumOf(s, i - 1))
      BY <2>2, <2>4
    <2>6. i - 1 \in U
      BY <2>3, <2>5
    <2>7. i <= i - 1
      <3> HIDE DEF U
      <3>1. QED
        BY <2>1, <2>6
    <2>8. QED
      BY <2>2, <2>7
  <1>6. l \notin T /\ k \notin U /\ l \notin U
    BY <1>4, <1>5
  <1>7. QED
    BY <1>1, <1>6

-----------------------------------------------------------------------------
\* The first k of some sequences, one after the other.
FlatOf(s, k) == (CHOOSE f : FlatTo(f, s, k))[k]

\* The first k sequences joined are those before and the k-th.
LEMMA FlatIs ==
  ASSUME NEW s, NEW k \in Nat, k >= 1
  PROVE  FlatOf(s, k) = IF k = 1 THEN s[1] ELSE FlatOf(s, k - 1) \o s[k]
  <1> DEFINE f == CHOOSE g : FlatTo(g, s, k)
             h == CHOOSE g : FlatTo(g, s, k - 1)
  <1>1. FlatTo(f, s, k)
    BY FlatToExists
  <1> HIDE DEF f
  <1>2. f[k] = FlatStep(f, s, k)
    <2>1. f = [i \in 1..k |-> FlatStep(f, s, i)] /\ k \in 1..k
      BY <1>1 DEF FlatTo
    <2>2. QED
      BY <2>1
  <1>3. CASE k = 1
    BY <1>2, <1>3 DEF FlatStep, FlatOf, f
  <1>4. CASE k # 1
    <2>1. k - 1 \in Nat /\ k - 1 >= 1 /\ k - 1 <= k
      BY <1>4
    <2>2. FlatTo(h, s, k - 1)
      BY <2>1, FlatToExists
    <2> HIDE DEF h
    <2>3. f[k - 1] = h[k - 1]
      BY <1>1, <2>1, <2>2, FlatToUnique
    <2>4. FlatOf(s, k) = f[k] /\ FlatOf(s, k - 1) = h[k - 1]
      BY Zenon DEF FlatOf, f, h
    <2>5. f[k] = f[k - 1] \o s[k]
      BY <1>2, <1>4 DEF FlatStep
    <2>6. QED
      BY <1>4, <2>3, <2>4, <2>5
  <1>5. QED
    BY <1>3, <1>4

\* What the library flattens is all of the sequences joined.
LEMMA FlattenIs ==
  ASSUME NEW s, Len(s) # 0
  PROVE  FlattenSeq(s) = FlatOf(s, Len(s))
  BY Zenon DEF FlattenSeq, FlatOf, FlatTo, FlatStep

\* Sequences joined have the elements of the sequences.
LEMMA FlattenTyped ==
  ASSUME NEW A, NEW s, NEW n \in Nat, n # 0, Len(s) = n, \A i \in 1..n : s[i] \in Seq(A)
  PROVE  FlattenSeq(s) \in Seq(A) /\ (Len(s[1]) # 0 => Len(FlattenSeq(s)) # 0)
  <1> DEFINE Good(i) == FlatOf(s, i) \in Seq(A) /\ (Len(s[1]) # 0 => Len(FlatOf(s, i)) # 0)
             T == {i \in Nat : 1 <= i /\ i <= n /\ ~Good(i)}
  <1>1. T = {}
    <2> SUFFICES ASSUME T # {} PROVE FALSE
      OBVIOUS
    <2>1. PICK i \in T : \A j \in T : i <= j
      BY LeastNumber
    <2>2. i \in Nat /\ 1 <= i /\ i <= n /\ i \in 1..n /\ ~Good(i)
      OBVIOUS
    <2>3. FlatOf(s, i) = IF i = 1 THEN s[1] ELSE FlatOf(s, i - 1) \o s[i]
      BY <2>2, FlatIs
    <2>4. i # 1
      BY <2>2, <2>3
    <2>5. ~Good(i - 1)
      <3> SUFFICES ASSUME Good(i - 1) PROVE FALSE
        OBVIOUS
      <3> DEFINE p == FlatOf(s, i - 1)
                 q == s[i]
      <3>1. p \in Seq(A) /\ (Len(s[1]) # 0 => Len(p) # 0) /\ q \in Seq(A)
        BY <2>2
      <3>2. FlatOf(s, i) = p \o q
        BY <2>3, <2>4
      <3> HIDE DEF p, q
      <3>3. p \o q \in Seq(A) /\ Len(p \o q) = Len(p) + Len(q) /\ Len(p) \in Nat /\ Len(q) \in Nat
        BY <3>1
      <3>4. QED
        BY <2>2, <3>1, <3>2, <3>3
    <2> HIDE DEF Good
    <2>6. i - 1 \in T
      BY <2>2, <2>4, <2>5
    <2>7. i <= i - 1
      <3> HIDE DEF T
      <3>1. QED
        BY <2>1, <2>6
    <2>8. QED
      BY <2>2, <2>7
  <1>2. Good(n)
    <2> HIDE DEF Good
    <2>1. n \notin T
      BY <1>1
    <2>2. QED
      BY <2>1
  <1>3. QED
    BY <1>2, FlattenIs

-----------------------------------------------------------------------------
(* The arithmetic of the figures of error.                                 *)

\* A positive factor can be cancelled.
LEMMA Cancelled ==
  ASSUME NEW x \in Int, NEW y \in Int, NEW k \in Nat \ {0}
  PROVE  (x * k <= y * k <=> x <= y) /\ (x * k = y * k <=> x = y)
  OBVIOUS

\* The sign of a product.
LEMMA Negated ==
  ASSUME NEW x \in Int, NEW y \in Int
  PROVE  (-x) * y = -(x * y)
  OBVIOUS

\* The pair a stands for x / d.
StandsFor(a, x, d) == a[1] \in Int /\ a[2] \in Nat \ {0} /\ a[1] * d = x * a[2]

\* Fractions compare as the products of their terms do.
LEMMA FractionsCompare ==
  ASSUME NEW x \in Int, NEW y \in Int, NEW d \in Nat \ {0}, NEW e \in Nat \ {0},
         NEW a, NEW b, StandsFor(a, x, d), StandsFor(b, y, e)
  PROVE  AtMost(a, b) <=> x * e <= y * d
  <1> DEFINE p == a[1]
             q == a[2]
             r == b[1]
             s == b[2]
  <1>1. /\ p \in Int /\ q \in Nat \ {0} /\ p * d = x * q
        /\ r \in Int /\ s \in Nat \ {0} /\ r * e = y * s
    BY DEF StandsFor
  <1> HIDE DEF p, q, r, s
  <1>2. p * s \in Int /\ r * q \in Int /\ q * s \in Nat \ {0} /\ d * e \in Nat \ {0}
        /\ x * e \in Int /\ y * d \in Int
    BY <1>1
  <1>3. (p * s) * (d * e) = (x * e) * (q * s)
    <2>1. (p * s) * (d * e) = ((p * d) * s) * e
      BY <1>1
    <2>2. ((x * q) * s) * e = (x * e) * (q * s)
      BY <1>1
    <2>3. QED
      BY <1>1, <2>1, <2>2
  <1>4. (r * q) * (d * e) = (y * d) * (q * s)
    <2>1. (r * q) * (d * e) = ((r * e) * q) * d
      BY <1>1
    <2>2. ((y * s) * q) * d = (y * d) * (q * s)
      BY <1>1
    <2>3. QED
      BY <1>1, <2>1, <2>2
  <1>5. (x * e) * (q * s) <= (y * d) * (q * s) <=> x * e <= y * d
    <2> DEFINE u == x * e
               v == y * d
               w == q * s
    <2>1. u \in Int /\ v \in Int /\ w \in Nat \ {0}
      BY <1>2
    <2> HIDE DEF u, v, w
    <2>2. u * w <= v * w <=> u <= v
      BY <2>1, Cancelled
    <2>3. QED
      BY <2>2 DEF u, v, w
  <1>6. p * s <= r * q <=> (p * s) * (d * e) <= (r * q) * (d * e)
    <2> DEFINE u == p * s
               v == r * q
               w == d * e
    <2>1. u \in Int /\ v \in Int /\ w \in Nat \ {0}
      BY <1>2
    <2> HIDE DEF u, v, w
    <2>2. u * w <= v * w <=> u <= v
      BY <2>1, Cancelled
    <2>3. QED
      BY <2>2 DEF u, v, w
  <1>7. p * s <= r * q <=> x * e <= y * d
    BY <1>3, <1>4, <1>5, <1>6
  <1>8. AtMost(a, b) <=> p * s <= r * q
    BY <1>2 DEF AtMost, Less, p, q, r, s
  <1>9. QED
    BY <1>7, <1>8

\* Of errors, that are e: the sum is within the sum of their sizes, whose
\* square is within the number of them times the sum of the squares, which is
\* within the number of them times the square of the largest.
LEMMA SumsFit ==
  ASSUME NEW n \in Nat, NEW e, NEW a, NEW q, NEW most \in Int,
         \A i \in 1..n : /\ e[i] \in Int /\ a[i] = Abs(e[i]) /\ q[i] = e[i] * e[i]
                         /\ a[i] <= most
  PROVE  LET S == SumOf(e, n)
             A == SumOf(a, n)
             Q == SumOf(q, n) IN
         /\ S \in Int /\ A \in Int /\ Q \in Nat
         /\ S <= A /\ -S <= A
         /\ A * A <= n * Q
         /\ Q <= n * (most * most)
  <1> DEFINE S(k) == SumOf(e, k)
             A(k) == SumOf(a, k)
             Q(k) == SumOf(q, k)
             Fit(k) == /\ S(k) \in Int /\ A(k) \in Int /\ Q(k) \in Nat
                       /\ S(k) <= A(k) /\ -S(k) <= A(k)
                       /\ A(k) * A(k) <= k * Q(k)
                       /\ Q(k) <= k * (most * most)
             T == {k \in Nat : k <= n /\ ~Fit(k)}
  <1>1. S(0) = 0 /\ A(0) = 0 /\ Q(0) = 0
    BY SumIs
  <1>2. Fit(0)
    <2> DEFINE m == most * most
    <2>1. m \in Int
      OBVIOUS
    <2> HIDE DEF m, S, A, Q
    <2>2. 0 * m = 0
      BY <2>1
    <2>3. QED
      BY <1>1, <2>2 DEF m
  <1>3. ASSUME NEW k \in 1..n, Fit(k - 1)
        PROVE  Fit(k)
    <2> DEFINE x == e[k]
               y == a[k]
               s == S(k - 1)
               b == A(k - 1)
               c == Q(k - 1)
               l == k - 1
    <2>1. x \in Int /\ y = Abs(x) /\ q[k] = x * x /\ y <= most
      OBVIOUS
    <2>2. y \in Nat /\ x <= y /\ -x <= y /\ y * y = x * x
      BY <2>1, AbsIs
    <2>3. k \in Nat /\ k # 0 /\ l \in Nat /\ k = l + 1
      OBVIOUS
    <2>4. S(k) = s + x /\ A(k) = b + y /\ Q(k) = c + (y * y)
      BY <2>1, <2>2, <2>3, SumIs
    <2>5. /\ s \in Int /\ b \in Int /\ c \in Nat /\ s <= b /\ -s <= b
          /\ b * b <= l * c /\ c <= l * (most * most)
      BY <1>3
    <2> HIDE DEF s, b, c, x, y, l, S, A, Q
    <2>6. S(k) \in Int /\ A(k) \in Int /\ S(k) <= A(k) /\ -S(k) <= A(k)
      BY <2>1, <2>2, <2>4, <2>5
    <2> DEFINE yy == y * y
               mm == most * most
    <2>7. yy \in Nat /\ mm \in Int /\ yy <= mm
      <3>1. y * y <= y * most
        BY <2>1, <2>2
      <3>2. most \in Nat
        BY <2>1, <2>2
      <3>3. y * most <= most * most
        BY <2>1, <2>2, <3>2
      <3>4. y * y \in Nat /\ y * most \in Int /\ most * most \in Int
        BY <2>2, <3>2
      <3>5. QED
        BY <3>1, <3>3, <3>4
    <2>8. Q(k) \in Nat
      BY <2>4, <2>5, <2>7
    <2>9. Q(k) <= k * mm
      <3>1. k * mm = (l * mm) + mm
        BY <2>3, <2>7
      <3>2. l * mm \in Int /\ c <= l * mm
        BY <2>3, <2>5, <2>7
      <3> HIDE DEF yy, mm
      <3>3. Q(k) = c + yy
        BY <2>4 DEF yy
      <3>4. QED
        BY <2>5, <2>7, <3>1, <3>2, <3>3
    <2>10. A(k) * A(k) <= k * Q(k)
      <3> DEFINE bb == b * b
                 by == b * y
                 lc == l * c
                 ly == l * yy
      <3>1. bb \in Int /\ by \in Int /\ lc \in Nat /\ ly \in Nat /\ bb <= lc
        BY <2>2, <2>3, <2>5, <2>7
      <3>2. A(k) * A(k) = bb + by + by + yy
        BY <2>2, <2>4, <2>5
      <3>3. k * Q(k) = lc + ly + c + yy
        <4>1. k * Q(k) = (l + 1) * (c + yy)
          BY <2>3, <2>4
        <4>2. (l + 1) * (c + yy) = (l * c) + (l * yy) + c + yy
          <5> HIDE DEF yy
          <5>1. QED
            BY <2>3, <2>5, <2>7
        <4>3. QED
          BY <4>1, <4>2
      <3>4. by + by <= ly + c
        <4>1. CASE l = 0
          <5>1. lc = 0 /\ ly = 0
            BY <2>5, <2>7, <4>1
          <5>2. b = 0
            <6>1. b * b <= 0
              BY <3>1, <5>1
            <6>2. QED
              BY <2>5, <6>1
          <5>3. by = 0
            BY <2>2, <5>2
          <5>4. QED
            BY <2>5, <5>1, <5>3
        <4>2. CASE l # 0
          <5> DEFINE z == b - (l * y)
          <5>1. z \in Int /\ z * z >= 0
            BY <2>2, <2>3, <2>5
          <5>2. z * z = (bb - (l * (by + by))) + (l * ly)
            <6> DEFINE w == l * y
            <6>1. w \in Int
              BY <2>2, <2>3
            <6>2. z * z = ((b * b) - ((b * w) + (b * w))) + (w * w)
              <7>1. z = b - w
                OBVIOUS
              <7> HIDE DEF w, z
              <7>2. (b - w) * (b - w) = ((b * b) - ((b * w) + (b * w))) + (w * w)
                BY <2>5, <6>1
              <7>3. QED
                BY <7>1, <7>2
            <6>3. b * w = l * by
              BY <2>2, <2>3, <2>5
            <6>4. w * w = l * ly
              BY <2>2, <2>3
            <6>5. l * (by + by) = (l * by) + (l * by)
              <7> HIDE DEF by
              <7>1. QED
                BY <2>3, <3>1
            <6>6. QED
              BY <6>2, <6>3, <6>4, <6>5
          <5> DEFINE u == by + by
                     v == ly + c
          <5>3. l * v = (l * ly) + lc
            <6> HIDE DEF ly
            <6>1. QED
              BY <2>3, <2>5, <3>1
          <5>4. u \in Int /\ v \in Int
            BY <2>5, <3>1
          <5> HIDE DEF z, u, v, bb, ly, lc, by
          <5>5. l * u <= l * v
            <6>1. l * u \in Int /\ l * ly \in Int /\ z * z = (bb - (l * u)) + (l * ly)
              BY <2>3, <3>1, <5>2, <5>4 DEF u
            <6>2. z * z \in Int
              BY <5>1
            <6>3. QED
              BY <3>1, <5>1, <5>3, <6>1, <6>2
          <5>6. u * l <= v * l /\ l \in Nat \ {0}
            BY <2>3, <4>2, <5>4, <5>5
          <5>7. u <= v
            BY <5>4, <5>6, Cancelled
          <5>8. QED
            BY <5>7 DEF u, v
        <4>3. QED
          BY <4>1, <4>2
      <3> HIDE DEF bb, by, lc, ly, yy
      <3>5. QED
        BY <2>5, <2>7, <3>1, <3>2, <3>3, <3>4
    <2>11. QED
      BY <2>6, <2>8, <2>9, <2>10 DEF mm
  <1>4. T = {}
    <2> SUFFICES ASSUME T # {} PROVE FALSE
      OBVIOUS
    <2>1. PICK k \in T : \A l \in T : k <= l
      BY LeastNumber
    <2>2. k \in Nat /\ k <= n /\ ~Fit(k)
      OBVIOUS
    <2> HIDE DEF Fit
    <2>3. k # 0
      BY <1>2, <2>2
    <2>4. k \in 1..n /\ k - 1 \in Nat /\ k - 1 <= n
      BY <2>2, <2>3
    <2>5. ~Fit(k - 1)
      BY <1>3, <2>2, <2>4
    <2>6. k - 1 \in T
      BY <2>4, <2>5
    <2>7. k <= k - 1
      <3> HIDE DEF T
      <3>1. QED
        BY <2>1, <2>6
    <2>8. QED
      BY <2>2, <2>7
  <1>5. Fit(n)
    <2> HIDE DEF Fit
    <2>1. n \notin T
      BY <1>4
    <2>2. QED
      BY <2>1
  <1>6. QED
    BY <1>5

\* What is subtracted from one, or nothing: it is one exactly when that is zero.
LEMMA OneIs ==
  ASSUME NEW x \in Int, NEW d \in Nat \ {0}
  PROVE  SameAs(Plus(Whole(1), Minus(Over(x, d))), Whole(1)) <=> x = 0
  <1> DEFINE a == Over(x, d)
             p == a[1]
             q == a[2]
             c == Over(q - p, q)
             u == c[1]
             v == c[2]
  <1>1. p \in Int /\ q \in Nat \ {0} /\ p * d = x * q
    BY OverIs
  <1>2. Plus(Whole(1), Minus(a)) = c
    <2>1. (1 * q) + ((-p) * 1) = q - p /\ 1 * q = q
      BY <1>1
    <2>2. Whole(1)[1] = 1 /\ Whole(1)[2] = 1 /\ Minus(a)[1] = -p /\ Minus(a)[2] = q
      BY DEF Whole, Minus
    <2> HIDE DEF p, q
    <2>3. Plus(Whole(1), Minus(a)) = Over((1 * q) + ((-p) * 1), 1 * q)
      BY <2>2 DEF Plus
    <2>4. QED
      BY <2>1, <2>3
  <1> HIDE DEF a, p, q
  <1>3. u \in Int /\ v \in Nat \ {0} /\ u * q = (q - p) * v
    <2>1. q - p \in Int /\ q \in Int /\ q # 0
      BY <1>1
    <2>2. QED
      BY <2>1, OverIs
  <1>4. SameAs(c, Whole(1)) <=> u = v
    <2> HIDE DEF c
    <2>1. u * 1 = u /\ 1 * v = v
      BY <1>3
    <2>2. QED
      BY <2>1 DEF SameAs, Whole
  <1> HIDE DEF c, u, v
  <1>5. (q - p) * v = (q * v) - (p * v) /\ u * q \in Int /\ p * v \in Int /\ q * v = v * q
    BY <1>1, <1>3
  <1>6. u = v <=> p = 0
    <2>1. ASSUME u = v PROVE p = 0
      <3>1. p * v = 0
        BY <1>3, <1>5, <2>1
      <3>2. QED
        BY <1>1, <1>3, <3>1
    <2>2. ASSUME p = 0 PROVE u = v
      <3>1. p * v = 0
        BY <1>3, <2>2
      <3>2. u * q = v * q
        BY <1>1, <1>3, <1>5, <3>1
      <3>3. QED
        BY <1>1, <1>3, <3>2, Cancelled
    <2>3. QED
      BY <2>1, <2>2
  <1>7. p = 0 <=> x = 0
    <2>1. ASSUME p = 0 PROVE x = 0
      <3>1. x * q = 0
        BY <1>1, <2>1
      <3>2. QED
        BY <1>1, <3>1
    <2>2. ASSUME x = 0 PROVE p = 0
      <3>1. p * d = 0
        BY <1>1, <2>2
      <3>2. QED
        BY <1>1, <3>1
    <2>3. QED
      BY <2>1, <2>2
  <1>8. QED
    BY <1>2, <1>4, <1>6, <1>7 DEF a

\* A fraction is zero when its numerator is.
LEMMA NothingIs ==
  ASSUME NEW x \in Int, NEW d \in Nat \ {0}
  PROVE  Over(x, d) = Zero <=> x = 0
  <1>1. ASSUME x = 0 PROVE Over(x, d) = Zero
    BY <1>1, OverOfNothing
  <1>2. ASSUME Over(x, d) = Zero PROVE x = 0
    <2> DEFINE a == Over(x, d)
    <2>1. a[1] * d = x * a[2]
      BY OverIs
    <2>2. a[1] = 0 /\ a[2] = 1
      BY <1>2 DEF Zero, Whole
    <2> HIDE DEF a
    <2>3. 0 * d = x * 1
      BY <2>1, <2>2
    <2>4. QED
      BY <2>3
  <1>3. QED
    BY <1>1, <1>2

-----------------------------------------------------------------------------
(* What is computed with pairs that stand for fractions.                   *)

\* In lowest terms, a pair stands for what it stood for.
LEMMA OverStands ==
  ASSUME NEW x \in Int, NEW d \in Nat \ {0}, NEW p \in Int, NEW q \in Nat \ {0}, p * d = x * q
  PROVE  StandsFor(Over(p, q), x, d)
  <1> DEFINE c == Over(p, q)
             u == c[1]
             v == c[2]
  <1>1. u \in Int /\ v \in Nat \ {0} /\ u * q = p * v
    BY OverIs
  <1> HIDE DEF u, v
  <1>2. u * d \in Int /\ x * v \in Int /\ u * q \in Int /\ p * d \in Int
    BY <1>1
  <1>3. (u * d) * q = (u * q) * d
    BY <1>1
  <1>4. (p * v) * d = (p * d) * v
    BY <1>1
  <1>5. (x * q) * v = (x * v) * q
    BY <1>1
  <1>6. (u * d) * q = (x * v) * q
    BY <1>1, <1>3, <1>4, <1>5
  <1>7. u * d = x * v
    <2> DEFINE f == u * d
               g == x * v
    <2>1. f \in Int /\ g \in Int /\ f * q = g * q
      BY <1>2, <1>6
    <2> HIDE DEF f, g
    <2>2. f = g
      BY <2>1, Cancelled
    <2>3. QED
      BY <2>2 DEF f, g
  <1>8. QED
    BY <1>1, <1>7 DEF StandsFor, u, v

\* A sum, a difference and a product over a common denominator.
LEMMA PlusStands ==
  ASSUME NEW x \in Int, NEW y \in Int, NEW d \in Nat \ {0}, NEW a, NEW b,
         StandsFor(a, x, d), StandsFor(b, y, d)
  PROVE  StandsFor(Plus(a, b), x + y, d)
  <1> DEFINE p == a[1]
             q == a[2]
             r == b[1]
             s == b[2]
  <1>1. /\ p \in Int /\ q \in Nat \ {0} /\ p * d = x * q
        /\ r \in Int /\ s \in Nat \ {0} /\ r * d = y * s
    BY DEF StandsFor
  <1> HIDE DEF p, q, r, s
  <1>2. p * s \in Int /\ r * q \in Int /\ q * s \in Nat \ {0} /\ p * s + r * q \in Int
    BY <1>1
  <1>3. (p * s + r * q) * d = (p * d) * s + (r * d) * q
    BY <1>1
  <1>4. (x * q) * s + (y * s) * q = (x + y) * (q * s)
    BY <1>1
  <1>5. (p * s + r * q) * d = (x + y) * (q * s)
    BY <1>1, <1>3, <1>4
  <1>6. StandsFor(Over(p * s + r * q, q * s), x + y, d)
    <2> DEFINE m == p * s + r * q
               n == q * s
               z == x + y
    <2>1. m \in Int /\ n \in Nat \ {0} /\ z \in Int /\ m * d = z * n
      BY <1>2, <1>5
    <2> HIDE DEF m, n, z
    <2>2. StandsFor(Over(m, n), z, d)
      BY <2>1, OverStands
    <2>3. QED
      BY <2>2 DEF m, n, z
  <1>7. QED
    BY <1>6 DEF Plus, p, q, r, s

LEMMA MinusStands ==
  ASSUME NEW x \in Int, NEW d \in Nat \ {0}, NEW a, StandsFor(a, x, d)
  PROVE  StandsFor(Minus(a), -x, d)
  <1> DEFINE p == a[1]
             q == a[2]
  <1>1. p \in Int /\ q \in Nat \ {0} /\ p * d = x * q
    BY DEF StandsFor
  <1> HIDE DEF p, q
  <1>2. (-p) * d = -(p * d) /\ (-x) * q = -(x * q)
    BY <1>1, Negated
  <1>3. -p \in Int /\ (-p) * d = (-x) * q
    BY <1>1, <1>2
  <1>4. QED
    BY <1>1, <1>3 DEF StandsFor, Minus, p, q

\* The product.
LEMMA ScaledStands ==
  ASSUME NEW x \in Int, NEW y \in Int, NEW d \in Nat \ {0}, NEW e \in Nat \ {0}, NEW a, NEW b,
         StandsFor(a, x, d), StandsFor(b, y, e)
  PROVE  StandsFor(Over(a[1] * b[1], a[2] * b[2]), x * y, d * e)
  <1> DEFINE p == a[1]
             q == a[2]
             r == b[1]
             s == b[2]
  <1>1. /\ p \in Int /\ q \in Nat \ {0} /\ p * d = x * q
        /\ r \in Int /\ s \in Nat \ {0} /\ r * e = y * s
    BY DEF StandsFor
  <1> HIDE DEF p, q, r, s
  <1> DEFINE m == p * r
             n == q * s
             z == x * y
             f == d * e
  <1>2. m \in Int /\ n \in Nat \ {0} /\ z \in Int /\ f \in Nat \ {0}
    BY <1>1
  <1>3. m * f = (p * d) * (r * e)
    BY <1>1
  <1>4. z * n = (x * q) * (y * s)
    BY <1>1
  <1>5. m * f = z * n
    BY <1>1, <1>3, <1>4
  <1> HIDE DEF m, n, z, f
  <1>6. StandsFor(Over(m, n), z, f)
    BY <1>2, <1>5, OverStands
  <1>7. QED
    BY <1>6 DEF m, n, z, f, p, q, r, s

\* A quotient by a number.
LEMMA PartStands ==
  ASSUME NEW x \in Int, NEW d \in Nat \ {0}, NEW n \in Nat \ {0}, NEW a, StandsFor(a, x, d)
  PROVE  StandsFor(Over(a[1], n * a[2]), x, n * d)
  <1> DEFINE p == a[1]
             q == a[2]
  <1>1. p \in Int /\ q \in Nat \ {0} /\ p * d = x * q
    BY DEF StandsFor
  <1> HIDE DEF p, q
  <1> DEFINE f == n * d
             g == n * q
  <1>2. f \in Nat \ {0} /\ g \in Nat \ {0}
    BY <1>1
  <1>3. p * f = (p * d) * n /\ x * g = (x * q) * n
    BY <1>1
  <1>4. p * f = x * g
    BY <1>1, <1>3
  <1> HIDE DEF f, g
  <1>5. StandsFor(Over(p, g), x, f)
    BY <1>1, <1>2, <1>4, OverStands
  <1>6. QED
    BY <1>5 DEF f, g, p, q

\* A multiple.
LEMMA TimesStands ==
  ASSUME NEW x \in Int, NEW d \in Nat \ {0}, NEW n \in Int, NEW a, StandsFor(a, x, d)
  PROVE  StandsFor(Times(n, a), n * x, d)
  <1> DEFINE p == a[1]
             q == a[2]
  <1>1. p \in Int /\ q \in Nat \ {0} /\ p * d = x * q
    BY DEF StandsFor
  <1> HIDE DEF p, q
  <1> DEFINE f == n * p
             g == n * x
  <1>2. f \in Int /\ g \in Int
    BY <1>1
  <1>3. f * d = n * (p * d) /\ g * q = n * (x * q)
    BY <1>1
  <1>4. f * d = g * q
    BY <1>1, <1>3
  <1> HIDE DEF f, g
  <1>5. StandsFor(Over(f, q), g, d)
    BY <1>1, <1>2, <1>4, OverStands
  <1>6. QED
    BY <1>5 DEF Times, f, g, p, q

\* Both terms by the same number.
LEMMA Expanded ==
  ASSUME NEW x \in Int, NEW d \in Nat \ {0}, NEW n \in Nat \ {0}, NEW a
  PROVE  StandsFor(a, x, d) <=> StandsFor(a, x * n, d * n)
  <1> DEFINE p == a[1]
             q == a[2]
  <1>1. SUFFICES ASSUME p \in Int, q \in Nat \ {0}
                 PROVE  p * d = x * q <=> p * (d * n) = (x * n) * q
    BY DEF StandsFor
  <1> HIDE DEF p, q
  <1> DEFINE f == p * d
             g == x * q
  <1>2. f \in Int /\ g \in Int
    BY <1>1
  <1>3. p * (d * n) = f * n /\ (x * n) * q = g * n
    BY <1>1
  <1> HIDE DEF f, g
  <1>4. f * n = g * n <=> f = g
    BY <1>2, Cancelled
  <1>5. QED
    BY <1>3, <1>4 DEF f, g

\* Of what two pairs stand for they are the same.
LEMMA StandForTheSame ==
  ASSUME NEW x \in Int, NEW d \in Nat \ {0}, NEW a, NEW b, StandsFor(a, x, d), StandsFor(b, x, d)
  PROVE  SameAs(a, b)
  <1>1. x * d <= x * d
    OBVIOUS
  <1>2. AtMost(a, b) /\ AtMost(b, a)
    BY <1>1, FractionsCompare
  <1>3. a[1] * b[2] \in Int /\ b[1] * a[2] \in Int
    BY DEF StandsFor
  <1>4. QED
    BY <1>2, <1>3 DEF AtMost, Less, SameAs

\* Nothing is nothing over every denominator.
LEMMA ZeroStands ==
  ASSUME NEW d \in Nat \ {0}
  PROVE  StandsFor(Zero, 0, d)
  BY DEF StandsFor, Zero, Whole

-----------------------------------------------------------------------------
(* What is accumulated over a sequence.                                    *)

\* The values from the first on, each from the one before.
RunsFrom(f, base, step, k) == f[0] = base /\ \A i \in 1..k : f[i] = step[<<i, f[i - 1]>>]

\* There are such values, of as many elements as wanted.
LEMMA RunExists ==
  ASSUME NEW n \in Nat, NEW A, NEW base \in A, NEW step \in [(1..n) \X A -> A]
  PROVE  \E f \in [0..n -> A] : RunsFrom(f, base, step, n)
  <1> DEFINE Has(k) == \E f \in [0..k -> A] : RunsFrom(f, base, step, k)
             T == {k \in Nat : k <= n /\ ~Has(k)}
  <1>1. T = {}
    <2> SUFFICES ASSUME T # {} PROVE FALSE
      OBVIOUS
    <2>1. PICK k \in T : \A l \in T : k <= l
      BY LeastNumber
    <2>2. k \in Nat /\ k <= n /\ ~Has(k)
      OBVIOUS
    <2>3. CASE k = 0
      <3> DEFINE f == [i \in 0..0 |-> base]
      <3>1. f \in [0..k -> A]
        BY <2>3
      <3>2. f[0] = base /\ \A i \in 1..k : FALSE
        BY <2>3
      <3>3. RunsFrom(f, base, step, k)
        BY <3>2 DEF RunsFrom
      <3>4. QED
        BY <2>2, <3>1, <3>3
    <2>4. CASE k # 0
      <3>1. k - 1 \in Nat /\ k - 1 < k /\ k \in 1..n
        BY <2>2, <2>4
      <3>2. k - 1 \notin T
        <4> HIDE DEF T
        <4>1. ASSUME k - 1 \in T PROVE FALSE
          <5>1. k <= k - 1
            BY <2>1, <4>1
          <5>2. QED
            BY <2>2, <5>1
        <4>2. QED
          BY <4>1
      <3>3. Has(k - 1)
        <4> HIDE DEF Has
        <4>1. k - 1 <= n
          BY <2>2
        <4>2. QED
          BY <3>1, <3>2, <4>1
      <3>4. PICK f \in [0..k - 1 -> A] : RunsFrom(f, base, step, k - 1)
        BY <3>3
      <3> DEFINE x == step[<<k, f[k - 1]>>]
                 g == [i \in 0..k |-> IF i = k THEN x ELSE f[i]]
      <3>5. x \in A
        <4>1. f[k - 1] \in A
          BY <3>1
        <4>2. <<k, f[k - 1]>> \in (1..n) \X A
          BY <3>1, <4>1
        <4>3. QED
          BY <4>2
      <3> HIDE DEF x
      <3>6. g \in [0..k -> A]
        <4>1. \A i \in 0..k : i # k => i \in 0..k - 1
          BY <2>2
        <4>2. \A i \in 0..k : g[i] \in A
          BY <3>5, <4>1
        <4>3. QED
          BY <4>2
      <3>7. g[0] = base
        BY <2>2, <2>4, <3>4 DEF RunsFrom
      <3>8. ASSUME NEW i \in 1..k PROVE g[i] = step[<<i, g[i - 1]>>]
        <4>1. i \in 0..k /\ i - 1 \in 0..k /\ i - 1 # k /\ g[i - 1] = f[i - 1]
          BY <2>2
        <4>2. CASE i = k
          BY <4>1, <4>2 DEF x
        <4>3. CASE i # k
          <5>1. i \in 1..k - 1 /\ g[i] = f[i]
            BY <2>2, <4>1, <4>3
          <5>2. f[i] = step[<<i, f[i - 1]>>]
            BY <3>4, <5>1 DEF RunsFrom
          <5>3. QED
            BY <4>1, <5>1, <5>2
        <4>4. QED
          BY <4>2, <4>3
      <3> HIDE DEF g
      <3>9. RunsFrom(g, base, step, k)
        BY <3>7, <3>8 DEF RunsFrom
      <3>10. QED
        BY <2>2, <3>6, <3>9
    <2>5. QED
      BY <2>3, <2>4
  <1>2. Has(n)
    <2> HIDE DEF Has
    <2>1. n \in Nat /\ n <= n /\ n \notin T
      <3> HIDE DEF T
      <3>1. QED
        BY <1>1
    <2>2. QED
      BY <2>1
  <1>3. QED
    BY <1>2

\* The pairs that are fractions.
Pairs == Int \X (Nat \ {0})

\* The sum of two pairs is one.
LEMMA PlusIsPair ==
  ASSUME NEW a \in Pairs, NEW b \in Pairs
  PROVE  Plus(a, b) \in Pairs
  <1> DEFINE p == a[1] * b[2] + b[1] * a[2]
             q == a[2] * b[2]
  <1>1. p \in Int /\ q \in Int /\ q # 0
    <2>1. a[1] \in Int /\ b[1] \in Int /\ a[2] \in Nat \ {0} /\ b[2] \in Nat \ {0}
      BY DEF Pairs
    <2>2. QED
      BY <2>1
  <1> HIDE DEF p, q
  <1>2. LET c == Over(p, q) IN c = <<c[1], c[2]>> /\ c[1] \in Int /\ c[2] \in Nat \ {0}
    BY <1>1, OverIs
  <1>3. Over(p, q) \in Pairs
    BY <1>2 DEF Pairs
  <1>4. QED
    BY <1>3 DEF Plus, p, q

\* The sum of fractions adds them one by one.
LEMMA SumUpIs ==
  ASSUME NEW n \in Nat, NEW s, Len(s) = n, \A i \in 1..n : s[i] \in Pairs
  PROVE  \E f : /\ f[0] = Zero /\ \A i \in 1..n : f[i] = Plus(f[i - 1], s[i])
                /\ SumUp(s) = f[n]
  <1> DEFINE Body(f) == [i \in 0..n |-> IF i = 0 THEN Zero ELSE Plus(f[i - 1], s[i])]
             step == [p \in (1..n) \X Pairs |-> Plus(p[2], s[p[1]])]
  <1>1. Zero \in Pairs
    BY DEF Zero, Whole, Pairs
  <1>2. step \in [(1..n) \X Pairs -> Pairs]
    <2>1. \A p \in (1..n) \X Pairs : Plus(p[2], s[p[1]]) \in Pairs
      <3> SUFFICES ASSUME NEW p \in (1..n) \X Pairs PROVE Plus(p[2], s[p[1]]) \in Pairs
        OBVIOUS
      <3>1. p[1] \in 1..n /\ p[2] \in Pairs
        OBVIOUS
      <3>2. QED
        BY <3>1, PlusIsPair
    <2>2. QED
      BY <2>1
  <1>3. PICK f \in [0..n -> Pairs] : RunsFrom(f, Zero, step, n)
    <2> HIDE DEF step
    <2>1. QED
      BY <1>1, <1>2, RunExists
  <1>4. ASSUME NEW i \in 0..n
        PROVE  f[i] = IF i = 0 THEN Zero ELSE Plus(f[i - 1], s[i])
    <2>1. CASE i = 0
      BY <1>3, <2>1 DEF RunsFrom
    <2>2. CASE i # 0
      <3>1. i \in 1..n /\ i - 1 \in 0..n /\ f[i - 1] \in Pairs
        BY <2>2
      <3>2. f[i] = step[<<i, f[i - 1]>>]
        BY <1>3, <3>1 DEF RunsFrom
      <3>3. <<i, f[i - 1]>> \in (1..n) \X Pairs
        BY <3>1
      <3>4. step[<<i, f[i - 1]>>] = Plus(f[i - 1], s[i])
        BY <3>3
      <3>5. QED
        BY <2>2, <3>2, <3>4
    <2>3. QED
      BY <2>1, <2>2
  <1>5. f = Body(f)
    <2> HIDE DEF step
    <2>1. QED
      BY <1>4
  <1> DEFINE g == CHOOSE h : h = Body(h)
  <1>6. SumUp(s) = g[n]
    BY DEF SumUp
  <1>7. g = Body(g)
    <2> HIDE DEF Body
    <2>1. \E h : h = Body(h)
      BY <1>5
    <2>2. QED
      BY <2>1
  <1> HIDE DEF g, step
  <1>8. \A i \in 0..n : g[i] = IF i = 0 THEN Zero ELSE Plus(g[i - 1], s[i])
    <2>1. \A i \in 0..n : Body(g)[i] = IF i = 0 THEN Zero ELSE Plus(g[i - 1], s[i])
      OBVIOUS
    <2> HIDE DEF Body
    <2>2. QED
      BY <1>7, <2>1
  <1>9. g[0] = Zero /\ \A i \in 1..n : g[i] = Plus(g[i - 1], s[i])
    <2>1. 0 \in 0..n /\ \A i \in 1..n : i \in 0..n /\ i # 0
      OBVIOUS
    <2>2. QED
      BY <1>8, <2>1
  <1>10. QED
    BY <1>6, <1>9

\* Some fractions have a denominator in common.
LEMMA CommonDenominator ==
  ASSUME NEW n \in Nat, NEW s, \A i \in 1..n : s[i] \in Pairs
  PROVE  \E d \in Nat \ {0} : \E x \in [1..n -> Int] : \A i \in 1..n : StandsFor(s[i], x[i], d)
  <1> DEFINE Has(k) == \E d \in Nat \ {0} : \A i \in 1..k : \E y \in Int : StandsFor(s[i], y, d)
             T == {k \in Nat : k <= n /\ ~Has(k)}
  <1>1. T = {}
    <2> SUFFICES ASSUME T # {} PROVE FALSE
      OBVIOUS
    <2>1. PICK k \in T : \A l \in T : k <= l
      BY LeastNumber
    <2>2. k \in Nat /\ k <= n /\ ~Has(k)
      OBVIOUS
    <2>3. CASE k = 0
      <3>1. 1 \in Nat \ {0} /\ \A i \in 1..k : FALSE
        BY <2>3
      <3>2. Has(k)
        BY <3>1
      <3>3. QED
        BY <2>2, <3>2
    <2>4. CASE k # 0
      <3>1. k - 1 \in Nat /\ k - 1 < k /\ k \in 1..n /\ k - 1 <= n
        BY <2>2, <2>4
      <3>2. k - 1 \notin T
        <4> HIDE DEF T
        <4>1. ASSUME k - 1 \in T PROVE FALSE
          <5>1. k <= k - 1
            BY <2>1, <4>1
          <5>2. QED
            BY <2>2, <5>1
        <4>2. QED
          BY <4>1
      <3>3. Has(k - 1)
        <4> HIDE DEF Has
        <4>1. QED
          BY <3>1, <3>2
      <3>4. PICK d \in Nat \ {0} : \A i \in 1..k - 1 : \E y \in Int : StandsFor(s[i], y, d)
        BY <3>3
      <3> DEFINE p == s[k][1]
                 q == s[k][2]
                 e == d * q
      <3>5. p \in Int /\ q \in Nat \ {0}
        BY <3>1 DEF Pairs
      <3> HIDE DEF p, q
      <3>6. e \in Nat \ {0}
        BY <3>5
      <3>7. ASSUME NEW i \in 1..k PROVE \E y \in Int : StandsFor(s[i], y, e)
        <4>1. CASE i = k
          <5>1. p * d \in Int /\ p * (d * q) = (p * d) * q
            BY <3>5
          <5>2. StandsFor(s[k], p * d, e)
            BY <3>5, <5>1 DEF StandsFor, p, q
          <5>3. QED
            BY <4>1, <5>1, <5>2
        <4>2. CASE i # k
          <5>1. i \in 1..k - 1
            BY <2>2, <4>2
          <5>2. PICK y \in Int : StandsFor(s[i], y, d)
            BY <3>4, <5>1
          <5>3. StandsFor(s[i], y * q, d * q)
            BY <3>5, <5>2, Expanded
          <5>4. y * q \in Int
            BY <3>5
          <5>5. QED
            BY <5>3, <5>4
        <4>3. QED
          BY <4>1, <4>2
      <3> HIDE DEF e
      <3>8. Has(k)
        BY <3>6, <3>7
      <3>9. QED
        BY <2>2, <3>8
    <2>5. QED
      BY <2>3, <2>4
  <1>2. Has(n)
    <2> HIDE DEF Has
    <2>1. n \in Nat /\ n <= n /\ n \notin T
      <3> HIDE DEF T
      <3>1. QED
        BY <1>1
    <2>2. QED
      BY <2>1
  <1>3. PICK d \in Nat \ {0} : \A i \in 1..n : \E y \in Int : StandsFor(s[i], y, d)
    BY <1>2
  <1> DEFINE x == [i \in 1..n |-> CHOOSE y \in Int : StandsFor(s[i], y, d)]
  <1>4. \A i \in 1..n : x[i] \in Int /\ StandsFor(s[i], x[i], d)
    BY <1>3
  <1>5. x \in [1..n -> Int]
    BY <1>4
  <1> HIDE DEF x
  <1>6. QED
    BY <1>4, <1>5

\* With a common denominator, fractions add up as their numerators do.
LEMMA SumUpStands ==
  ASSUME NEW n \in Nat, NEW s, Len(s) = n, \A i \in 1..n : s[i] \in Pairs,
         NEW x, NEW d \in Nat \ {0}, \A i \in 1..n : x[i] \in Int /\ StandsFor(s[i], x[i], d)
  PROVE  StandsFor(SumUp(s), SumOf(x, n), d) /\ SumOf(x, n) \in Int
  <1>1. PICK f : /\ f[0] = Zero /\ \A i \in 1..n : f[i] = Plus(f[i - 1], s[i])
                 /\ SumUp(s) = f[n]
    BY SumUpIs
  <1>2. \A k \in 0..n : SumOf(x, k) \in Int
    <2>1. \A i \in 1..n : x[i] \in Int
      OBVIOUS
    <2>2. QED
      BY <2>1, SumsAreNumbers
  <1> DEFINE Stands(k) == StandsFor(f[k], SumOf(x, k), d)
             T == {k \in Nat : k <= n /\ ~Stands(k)}
  <1>3. T = {}
    <2> SUFFICES ASSUME T # {} PROVE FALSE
      OBVIOUS
    <2>1. PICK k \in T : \A l \in T : k <= l
      BY LeastNumber
    <2>2. k \in Nat /\ k <= n /\ ~Stands(k)
      OBVIOUS
    <2>3. CASE k = 0
      <3>1. SumOf(x, 0) = 0
        BY SumIs
      <3>2. StandsFor(Zero, 0, d)
        BY ZeroStands
      <3>3. QED
        BY <1>1, <2>2, <2>3, <3>1, <3>2
    <2>4. CASE k # 0
      <3>1. k - 1 \in Nat /\ k - 1 < k /\ k \in 1..n /\ k - 1 <= n /\ k - 1 \in 0..n
        BY <2>2, <2>4
      <3>2. k - 1 \notin T
        <4> HIDE DEF T
        <4>1. ASSUME k - 1 \in T PROVE FALSE
          <5>1. k <= k - 1
            BY <2>1, <4>1
          <5>2. QED
            BY <2>2, <5>1
        <4>2. QED
          BY <4>1
      <3>3. StandsFor(f[k - 1], SumOf(x, k - 1), d)
        BY <3>1, <3>2
      <3>4. f[k] = Plus(f[k - 1], s[k]) /\ SumOf(x, k - 1) \in Int /\ x[k] \in Int
            /\ StandsFor(s[k], x[k], d)
        BY <1>1, <1>2, <3>1
      <3>5. StandsFor(f[k], SumOf(x, k - 1) + x[k], d)
        BY <3>3, <3>4, PlusStands
      <3>6. SumOf(x, k) = SumOf(x, k - 1) + x[k]
        BY <2>2, <2>4, SumIs
      <3>7. QED
        BY <2>2, <3>5, <3>6
    <2>5. QED
      BY <2>3, <2>4
  <1>4. Stands(n)
    <2> HIDE DEF Stands
    <2>1. n \in Nat /\ n <= n /\ n \notin T
      <3> HIDE DEF T
      <3>1. QED
        BY <1>3
    <2>2. QED
      BY <2>1
  <1>5. n \in 0..n
    OBVIOUS
  <1>6. QED
    BY <1>1, <1>2, <1>4, <1>5
===============================================================================
