---------------------------- MODULE PrognosisProof ----------------------------
(***************************************************************************)
(* Theorems about Prognosis, for any jobs.                                 *)
(***************************************************************************)
EXTENDS Prognosis, FractionsProof, FiniteSetTheorems

-----------------------------------------------------------------------------
(* Lists of a finite set in an order.                                      *)

StrictOrder(R, S) ==
  /\ \A i \in S : <<i, i>> \notin R
  /\ \A i, j \in S : i # j => <<i, j>> \in R \/ <<j, i>> \in R
  /\ \A i, j, k \in S : <<i, j>> \in R /\ <<j, k>> \in R => <<i, k>> \in R

\* q lists the n elements of S in the order R.
Lists(q, n, S, R) ==
  /\ n \in Nat /\ q \in [1..n -> S]
  /\ \A i \in S : \E k \in 1..n : q[k] = i
  /\ \A j, k \in 1..n : j < k => <<q[j], q[k]>> \in R

Ahead(R, S, i) == {j \in S : <<j, i>> \in R}
Place(R, S, i) == 1 + Cardinality(Ahead(R, S, i))

LEMMA PlaceIs ==
  ASSUME NEW S, IsFiniteSet(S), NEW R, StrictOrder(R, S), NEW i \in S
  PROVE  Place(R, S, i) \in 1..Cardinality(S)
  <1> DEFINE A == Ahead(R, S, i)
  <1>1. A \in SUBSET S /\ i \notin A
    BY DEF Ahead, StrictOrder
  <1>2. IsFiniteSet(A) /\ Cardinality(A) <= Cardinality(S)
        /\ (Cardinality(A) = Cardinality(S) => A = S)
    BY <1>1, FS_Subset
  <1>3. Cardinality(A) \in Nat /\ Cardinality(S) \in Nat
    BY <1>2, FS_CardinalityType
  <1>4. Place(R, S, i) = 1 + Cardinality(A)
    BY DEF Place
  <1> HIDE DEF A
  <1>5. Cardinality(A) < Cardinality(S)
    BY <1>1, <1>2, <1>3
  <1>6. QED
    BY <1>3, <1>4, <1>5

LEMMA PlaceGrows ==
  ASSUME NEW S, IsFiniteSet(S), NEW R, StrictOrder(R, S),
         NEW i \in S, NEW j \in S, <<i, j>> \in R
  PROVE  Place(R, S, i) < Place(R, S, j)
  <1> DEFINE A == Ahead(R, S, i)
             B == Ahead(R, S, j)
  <1>1. B \in SUBSET S /\ A \in SUBSET B /\ i \in B /\ i \notin A
    BY DEF Ahead, StrictOrder
  <1>2. IsFiniteSet(B)
    BY <1>1, FS_Subset
  <1>3. IsFiniteSet(A) /\ Cardinality(A) <= Cardinality(B)
        /\ (Cardinality(A) = Cardinality(B) => A = B)
    BY <1>1, <1>2, FS_Subset
  <1>4. Cardinality(A) \in Nat /\ Cardinality(B) \in Nat
    BY <1>2, <1>3, FS_CardinalityType
  <1>5. Place(R, S, i) = 1 + Cardinality(A) /\ Place(R, S, j) = 1 + Cardinality(B)
    BY DEF Place
  <1> HIDE DEF A, B
  <1>6. QED
    BY <1>1, <1>3, <1>4, <1>5

LEMMA PlaceIsOwn ==
  ASSUME NEW S, IsFiniteSet(S), NEW R, StrictOrder(R, S),
         NEW i \in S, NEW j \in S, Place(R, S, i) = Place(R, S, j)
  PROVE  i = j
  <1>1. Place(R, S, i) \in Int /\ Place(R, S, j) \in Int
    <2>1. Cardinality(S) \in Nat
      BY FS_CardinalityType
    <2>2. QED
      BY <2>1, PlaceIs
  <1>2. <<i, j>> \notin R
    <2>1. ASSUME <<i, j>> \in R PROVE FALSE
      BY <1>1, <2>1, PlaceGrows
    <2>2. QED
      BY <2>1
  <1>3. <<j, i>> \notin R
    <2>1. ASSUME <<j, i>> \in R PROVE FALSE
      BY <1>1, <2>1, PlaceGrows
    <2>2. QED
      BY <2>1
  <1>4. QED
    BY <1>2, <1>3 DEF StrictOrder

LEMMA PlacesAreAll ==
  ASSUME NEW S, IsFiniteSet(S), NEW R, StrictOrder(R, S), NEW k \in 1..Cardinality(S)
  PROVE  \E i \in S : Place(R, S, i) = k
  <1> DEFINE n == Cardinality(S)
             f == [i \in S |-> Place(R, S, i)]
  <1>1. n \in Nat
    BY FS_CardinalityType
  <1>2. \A i \in S : Place(R, S, i) \in 1..n
    BY PlaceIs
  <1>3. \A i, j \in S : Place(R, S, i) = Place(R, S, j) => i = j
    BY PlaceIsOwn
  <1>4. k \in 1..n
    OBVIOUS
  <1> HIDE DEF n
  <1>5. f \in Injection(S, 1..n)
    BY <1>2, <1>3 DEF Injection, IsInjective
  <1>6. IsFiniteSet(1..n) /\ Cardinality(1..n) = n
    BY <1>1, FS_Interval
  <1>7. f \in Surjection(S, 1..n)
    <2> HIDE DEF f
    <2>1. Cardinality(S) = Cardinality(1..n)
      BY <1>6 DEF n
    <2>2. QED
      BY <1>5, <1>6, <2>1, FS_Injection
  <1>8. \E i \in S : f[i] = k
    BY <1>4, <1>7 DEF Surjection
  <1>9. QED
    BY <1>8

\* The set by its places is listed in the order.
LEMMA PlacesList ==
  ASSUME NEW S, IsFiniteSet(S), NEW R, StrictOrder(R, S)
  PROVE  Lists([k \in 1..Cardinality(S) |-> CHOOSE i \in S : Place(R, S, i) = k],
               Cardinality(S), S, R)
  <1> DEFINE n == Cardinality(S)
             at(k) == CHOOSE i \in S : Place(R, S, i) = k
             q == [k \in 1..n |-> at(k)]
  <1>1. n \in Nat
    BY FS_CardinalityType
  <1>2. \A k \in 1..n : at(k) \in S /\ Place(R, S, at(k)) = k
    BY PlacesAreAll
  <1>3. \A i \in S : Place(R, S, i) \in 1..n
    BY PlaceIs
  <1> HIDE DEF n, at
  <1>4. q \in [1..n -> S]
    BY <1>2
  <1>5. ASSUME NEW i \in S
        PROVE  \E k \in 1..n : q[k] = i
    <2>1. at(Place(R, S, i)) = i
      BY <1>2, <1>3, PlaceIsOwn
    <2>2. QED
      BY <1>3, <2>1
  <1>6. ASSUME NEW j \in 1..n, NEW k \in 1..n, j < k
        PROVE  <<q[j], q[k]>> \in R
    <2>1. q[j] = at(j) /\ q[k] = at(k)
      OBVIOUS
    <2>2. at(j) \in S /\ at(k) \in S /\ Place(R, S, at(j)) = j /\ Place(R, S, at(k)) = k
      BY <1>2
    <2>3. at(j) # at(k)
      BY <1>6, <2>2
    <2>4. <<at(k), at(j)>> \notin R
      <3>1. ASSUME <<at(k), at(j)>> \in R PROVE FALSE
        <4>1. k < j
          BY <2>2, <3>1, PlaceGrows
        <4>2. QED
          BY <1>1, <1>6, <4>1
      <3>2. QED
        BY <3>1
    <2>5. <<at(j), at(k)>> \in R
      BY <2>2, <2>3, <2>4 DEF StrictOrder
    <2>6. QED
      BY <2>1, <2>5
  <1>7. QED
    BY <1>1, <1>4, <1>5, <1>6 DEF Lists, n, at

\* Each element is listed at its place.
LEMMA ListedAtPlace ==
  ASSUME NEW S, NEW R, StrictOrder(R, S), NEW n, NEW q, Lists(q, n, S, R), NEW k \in 1..n
  PROVE  Place(R, S, q[k]) = k
  <1> DEFINE A == Ahead(R, S, q[k])
             g == [j \in 1..k - 1 |-> q[j]]
  <1>1. n \in Nat /\ q \in [1..n -> S] /\ k \in Nat /\ k - 1 \in Nat
    BY DEF Lists
  <1>2. \A j \in 1..k - 1 : j \in 1..n /\ j < k
    BY <1>1
  <1>3. \A j \in 1..n : q[j] \in S
    BY <1>1
  <1>4. \A i, j \in 1..n : i < j => <<q[i], q[j]>> \in R /\ q[i] # q[j]
    <2>1. \A i, j \in 1..n : i < j => <<q[i], q[j]>> \in R
      BY DEF Lists
    <2>2. QED
      BY <1>3, <2>1 DEF StrictOrder
  <1>5. g \in [1..k - 1 -> A]
    BY <1>2, <1>3, <1>4 DEF Ahead
  <1>6. \A i, j \in 1..k - 1 : g[i] = g[j] => i = j
    <2> SUFFICES ASSUME NEW i \in 1..k - 1, NEW j \in 1..k - 1, q[i] = q[j]
                 PROVE  i = j
      OBVIOUS
    <2>1. i \in 1..n /\ j \in 1..n /\ ~(i < j) /\ ~(j < i)
      BY <1>2, <1>4
    <2>2. QED
      BY <1>1, <2>1
  <1>7. \A a \in A : \E j \in 1..k - 1 : g[j] = a
    <2> SUFFICES ASSUME NEW a \in S, <<a, q[k]>> \in R
                 PROVE  \E j \in 1..k - 1 : g[j] = a
      BY DEF Ahead
    <2>1. PICK j \in 1..n : q[j] = a
      BY DEF Lists
    <2>2. ~(k < j) /\ j # k
      BY <1>3, <1>4, <2>1 DEF StrictOrder
    <2>3. j \in 1..k - 1
      BY <1>1, <2>1, <2>2
    <2>4. QED
      BY <2>1, <2>3
  <1> HIDE DEF A, g
  <1>8. g \in Bijection(1..k - 1, A)
    BY <1>5, <1>6, <1>7 DEF Bijection, Injection, Surjection, IsInjective
  <1>9. Cardinality(A) = k - 1
    BY <1>1, <1>8, FS_CountingElements DEF ExistsBijection
  <1>10. QED
    BY <1>1, <1>9 DEF Place, A

LEMMA ListedFinite ==
  ASSUME NEW S, NEW R, StrictOrder(R, S), NEW n, NEW q, Lists(q, n, S, R)
  PROVE  IsFiniteSet(S) /\ Cardinality(S) = n
  <1>1. n \in Nat /\ q \in [1..n -> S]
    BY DEF Lists
  <1>2. \A i, j \in 1..n : q[i] = q[j] => i = j
    BY <1>1, ListedAtPlace
  <1>3. \A a \in S : \E j \in 1..n : q[j] = a
    BY DEF Lists
  <1>4. q \in Bijection(1..n, S)
    BY <1>1, <1>2, <1>3 DEF Bijection, Injection, Surjection, IsInjective
  <1>5. ExistsBijection(1..n, S)
    BY <1>4 DEF ExistsBijection
  <1>6. IsFiniteSet(1..n)
    BY <1>1, FS_Interval
  <1>7. IsFiniteSet(S)
    BY <1>5, <1>6, FS_Bijection
  <1>8. Cardinality(S) = n
    BY ONLY <1>1, <1>5, FS_CountingElements
  <1>9. QED
    BY <1>7, <1>8

\* There is one list of a set in an order.
LEMMA ListedOnce ==
  ASSUME NEW S, NEW R, StrictOrder(R, S), NEW n, NEW q, Lists(q, n, S, R),
         NEW m, NEW r, Lists(r, m, S, R)
  PROVE  m = n /\ q = r
  <1>1. m = n
    BY ListedFinite
  <1>2. Lists(r, n, S, R)
    BY <1>1
  <1>3. q \in [1..n -> S] /\ r \in [1..n -> S]
    BY <1>2 DEF Lists
  <1>4. ASSUME NEW k \in 1..n
        PROVE  q[k] = r[k]
    <2>1. Place(R, S, q[k]) = k /\ Place(R, S, r[k]) = k
      BY <1>2, ListedAtPlace
    <2>2. q[k] \in S /\ r[k] \in S /\ IsFiniteSet(S)
      BY <1>3, ListedFinite
    <2>3. QED
      BY <2>1, <2>2, PlaceIsOwn
  <1>5. q = r
    <2>1. q = [k \in 1..n |-> q[k]] /\ r = [k \in 1..n |-> r[k]]
      BY <1>3
    <2>2. [k \in 1..n |-> q[k]] = [k \in 1..n |-> r[k]]
      BY <1>4
    <2>3. QED
      BY <2>1, <2>2
  <1>6. QED
    BY <1>1, <1>5

-----------------------------------------------------------------------------
(* What the operators of Selection return.                                 *)

Upwards(S) == {p \in S \X S : p[1] < p[2]}

LEMMA UpwardsIsStrict ==
  ASSUME NEW S \in SUBSET Nat
  PROVE  StrictOrder(Upwards(S), S)
  <1>1. \A i \in S : i \in Nat
    OBVIOUS
  <1>2. \A i, j \in S : <<i, j>> \in Upwards(S) <=> i < j
    BY DEF Upwards
  <1>3. QED
    BY <1>1, <1>2 DEF StrictOrder

LEMMA RankIsPlace ==
  ASSUME NEW S \in SUBSET Nat, IsFiniteSet(S), NEW i \in S
  PROVE  Cardinality({j \in S : j <= i}) = Place(Upwards(S), S, i)
  <1> DEFINE A == Ahead(Upwards(S), S, i)
  <1>1. \A j \in S : j \in Nat /\ i \in Nat
    OBVIOUS
  <1>2. A = {j \in S : j < i}
    BY DEF Ahead, Upwards
  <1>5. Place(Upwards(S), S, i) = 1 + Cardinality(A)
    BY DEF Place
  <1> HIDE DEF A
  <1>4. A \in SUBSET S /\ i \notin A
    BY <1>1, <1>2
  <1>3. {j \in S : j <= i} = A \union {i}
    <2>1. \A j \in S : j <= i <=> j < i \/ j = i
      BY <1>1
    <2>2. QED
      BY <1>2, <2>1
  <1>6. IsFiniteSet(A) /\ Cardinality(A) \in Nat
    BY <1>4, FS_Subset, FS_CardinalityType
  <1>7. Cardinality(A \union {i}) = Cardinality(A) + 1
    BY <1>4, <1>6, FS_AddElement
  <1>8. Cardinality({j \in S : j <= i}) = Cardinality(A) + 1
    BY <1>3, <1>7
  <1>9. QED
    BY <1>5, <1>6, <1>8

\* What is picked of any sequence, by one list of the indices.
Picks(q, n, S) ==
  Lists(q, n, S, Upwards(S)) /\ \A s : Picked(s, S) = [k \in 1..n |-> s[q[k]]]

LEMMA PickedIs ==
  ASSUME NEW S \in SUBSET Nat, IsFiniteSet(S)
  PROVE  \E n, q : n \in Nat /\ Picks(q, n, S)
  <1> DEFINE n == Cardinality(S)
             at(k) == CHOOSE i \in S : Place(Upwards(S), S, i) = k
             q == [k \in 1..n |-> at(k)]
  <1>1. n \in Nat
    BY FS_CardinalityType
  <1>2. Lists(q, n, S, Upwards(S))
    BY UpwardsIsStrict, PlacesList
  <1>3. ASSUME NEW k \in 1..n
        PROVE  (CHOOSE i \in S : Cardinality({j \in S : j <= i}) = k) = at(k)
    <2>1. \A i \in S : Cardinality({j \in S : j <= i}) = Place(Upwards(S), S, i)
      BY RankIsPlace
    <2>2. \A i \in S : Cardinality({j \in S : j <= i}) = k <=> Place(Upwards(S), S, i) = k
      BY <2>1
    <2>3. QED
      BY <2>2
  <1>4. ASSUME NEW s
        PROVE  Picked(s, S) = [k \in 1..n |-> s[q[k]]]
    <2>1. Picked(s, S) = [k \in 1..n |-> s[CHOOSE i \in S : Cardinality({j \in S : j <= i}) = k]]
      BY DEF Picked
    <2> HIDE DEF n, at
    <2>2. Picked(s, S) = [k \in 1..n |-> s[at(k)]]
      BY <1>3, <2>1
    <2>3. QED
      BY <2>2
  <1> HIDE DEF n, q
  <1>5. QED
    BY <1>1, <1>2, <1>4 DEF Picks

\* A relation that tells some apart, and the order a stable sort makes of it.
WeakOrder(B, S) ==
  /\ \A i, j \in S : <<i, j>> \in B => <<j, i>> \notin B
  /\ \A i, j, k \in S : <<i, k>> \in B => <<i, j>> \in B \/ <<j, k>> \in B
Stable(B, S) ==
  {p \in S \X S : p \in B \/ (<<p[2], p[1]>> \notin B /\ p[1] < p[2])}

LEMMA StableIs ==
  ASSUME NEW B, NEW S, NEW i \in S, NEW j \in S
  PROVE  <<i, j>> \in Stable(B, S) <=> <<i, j>> \in B \/ (<<j, i>> \notin B /\ i < j)
  BY DEF Stable

LEMMA StableIsStrict ==
  ASSUME NEW S \in SUBSET Nat, NEW B, WeakOrder(B, S)
  PROVE  StrictOrder(Stable(B, S), S)
  <1>1. \A i \in S : i \in Nat
    OBVIOUS
  <1>2. \A i, j \in S :
          <<i, j>> \in Stable(B, S) <=> <<i, j>> \in B \/ (<<j, i>> \notin B /\ i < j)
    BY StableIs
  <1>3. \A i \in S : <<i, i>> \notin Stable(B, S)
    BY <1>1, <1>2 DEF WeakOrder
  <1>4. \A i, j \in S : i # j => <<i, j>> \in Stable(B, S) \/ <<j, i>> \in Stable(B, S)
    BY <1>1, <1>2
  <1>5. ASSUME NEW i \in S, NEW j \in S, NEW k \in S,
               <<i, j>> \in Stable(B, S), <<j, k>> \in Stable(B, S)
        PROVE  <<i, k>> \in Stable(B, S)
    <2>1. <<j, i>> \notin B /\ <<k, j>> \notin B
      BY <1>2, <1>5 DEF WeakOrder
    <2>2. <<k, i>> \notin B
      BY <2>1 DEF WeakOrder
    <2>3. CASE <<i, j>> \in B \/ <<j, k>> \in B
      <3>1. <<i, k>> \in B
        BY <2>1, <2>3 DEF WeakOrder
      <3>2. QED
        BY <3>1, <1>2
    <2>4. CASE i < j /\ j < k
      <3>1. i < k
        BY <1>1, <2>4
      <3>2. QED
        BY <2>2, <3>1, <1>2
    <2>5. QED
      BY <1>2, <1>5, <2>3, <2>4
  <1>6. QED
    BY <1>3, <1>4, <1>5 DEF StrictOrder

\* t is s in the order q lists its indices in, which is B's and then their own.
Sorts(q, t, s, B, n) ==
  Lists(q, n, 1..n, Stable(B, 1..n)) /\ t = [k \in 1..n |-> s[q[k]]]

LEMMA RankedIs ==
  ASSUME NEW n \in Nat, NEW s, DOMAIN s = 1..n, NEW B, WeakOrder(B, 1..n)
  PROVE  StrictOrder(Stable(B, 1..n), 1..n) /\ \E q : Sorts(q, Ranked(s, B), s, B, n)
  <1> DEFINE S == 1..n
             R == Stable(B, S)
             at(k) == CHOOSE i \in S : Place(R, S, i) = k
             q == [k \in 1..n |-> at(k)]
  <1>1. IsFiniteSet(S) /\ Cardinality(S) = n /\ S \in SUBSET Nat
    BY FS_Interval
  <1>2. StrictOrder(R, S)
    BY <1>1, StableIsStrict
  <1>3. Lists(q, n, S, R)
    BY <1>1, <1>2, PlacesList
  <1>4. \A i, j \in S : <<j, i>> \in R <=> <<j, i>> \in B \/ (<<i, j>> \notin B /\ j < i)
    BY StableIs
  <1>5. Ranked(s, B) = [k \in S |-> s[CHOOSE i \in S :
           1 + Cardinality({j \in S : <<j, i>> \in B \/ (<<i, j>> \notin B /\ j < i)}) = k]]
    BY DEF Ranked
  <1> HIDE DEF R, S
  <1>6. \A i \in S : {j \in S : <<j, i>> \in B \/ (<<i, j>> \notin B /\ j < i)} = Ahead(R, S, i)
    BY <1>4 DEF Ahead
  <1>7. ASSUME NEW k \in S
        PROVE  (CHOOSE i \in S :
                  1 + Cardinality({j \in S : <<j, i>> \in B \/ (<<i, j>> \notin B /\ j < i)}) = k)
                 = at(k)
    <2>1. \A i \in S :
            1 + Cardinality({j \in S : <<j, i>> \in B \/ (<<i, j>> \notin B /\ j < i)}) = k
              <=> Place(R, S, i) = k
      BY <1>6 DEF Place
    <2>2. QED
      BY <2>1
  <1> HIDE DEF at
  <1>8. Ranked(s, B) = [k \in S |-> s[at(k)]]
    BY <1>5, <1>7
  <1>9. Ranked(s, B) = [k \in 1..n |-> s[q[k]]]
    BY <1>8 DEF S
  <1> HIDE DEF q
  <1>10. Sorts(q, Ranked(s, B), s, B, n)
    BY <1>3, <1>9 DEF R, S, Sorts
  <1>11. QED
    BY <1>2, <1>10 DEF R, S

-----------------------------------------------------------------------------
(* Fractions.                                                              *)

Fraction == Int \X (Nat \ {0})

\* A quotient is a fraction, and positive when both of its terms are.
LEMMA QuotientIs ==
  ASSUME NEW n \in Int, NEW d \in Int, d # 0
  PROVE  /\ Over(n, d) \in Fraction
         /\ n > 0 /\ d > 0 => Over(n, d)[1] > 0
  <1> DEFINE a == Over(n, d)
  <1>1. a = <<a[1], a[2]>> /\ a[1] \in Int /\ a[2] \in Nat \ {0} /\ a[1] * d = n * a[2]
    BY OverIs
  <1> HIDE DEF a
  <1>2. a \in Fraction
    BY <1>1 DEF Fraction
  <1>3. ASSUME n > 0, d > 0 PROVE a[1] > 0
    <2> DEFINE p == a[1]
               q == a[2]
    <2>1. p \in Int /\ q \in Nat \ {0} /\ p * d = n * q
      BY <1>1
    <2> HIDE DEF p, q
    <2>2. n * q > 0
      BY <1>3, <2>1
    <2>3. p > 0
      BY <1>3, <2>1, <2>2
    <2>4. QED
      BY <2>3 DEF p
  <1>4. QED
    BY <1>2, <1>3 DEF a

\* The order of fractions.
LEMMA FractionIs ==
  ASSUME NEW a \in Fraction
  PROVE  a[1] \in Int /\ a[2] \in Int /\ a[2] > 0
  BY DEF Fraction

LEMMA Scaled ==
  ASSUME NEW x \in Int, NEW y \in Int, NEW k \in Int, k > 0
  PROVE  (x * k < y * k <=> x < y) /\ (x * k <= y * k <=> x <= y)
  OBVIOUS

LEMMA Rearranged ==
  ASSUME NEW a \in Int, NEW b \in Int, NEW c \in Int
  PROVE  (a * b) * c = (a * c) * b
  OBVIOUS

LEMMA FractionsAreOrdered ==
  ASSUME NEW a \in Fraction, NEW b \in Fraction
  PROVE  /\ Less(a, b) \/ SameAs(a, b) \/ Less(b, a)
         /\ ~(Less(a, b) /\ SameAs(a, b)) /\ ~(Less(a, b) /\ Less(b, a))
         /\ (SameAs(a, b) <=> SameAs(b, a)) /\ SameAs(a, a) /\ ~Less(a, a)
         /\ (Less(a, b) \/ SameAs(a, b) => AtMost(a, b))
  <1>1. a[1] * b[2] \in Int /\ b[1] * a[2] \in Int /\ a[1] * a[2] \in Int
    BY FractionIs
  <1>2. QED
    BY <1>1 DEF Less, SameAs, AtMost

LEMMA FractionsFollow ==
  ASSUME NEW a \in Fraction, NEW b \in Fraction, NEW c \in Fraction
  PROVE  /\ (Less(a, b) \/ SameAs(a, b)) /\ Less(b, c) => Less(a, c)
         /\ Less(a, b) /\ (Less(b, c) \/ SameAs(b, c)) => Less(a, c)
         /\ SameAs(a, b) /\ SameAs(b, c) => SameAs(a, c)
  <1> DEFINE p == a[1] * b[2]
             q == b[1] * a[2]
             s == b[1] * c[2]
             t == c[1] * b[2]
             x == a[1] * c[2]
             y == c[1] * a[2]
  <1>1. /\ a[1] \in Int /\ a[2] \in Int /\ a[2] > 0
        /\ b[1] \in Int /\ b[2] \in Int /\ b[2] > 0
        /\ c[1] \in Int /\ c[2] \in Int /\ c[2] > 0
    BY FractionIs
  <1>2. /\ p \in Int /\ q \in Int /\ s \in Int /\ t \in Int /\ x \in Int /\ y \in Int
        /\ p * c[2] \in Int /\ q * c[2] \in Int /\ s * a[2] \in Int /\ t * a[2] \in Int
    BY <1>1
  <1>3. p * c[2] = x * b[2] /\ q * c[2] = s * a[2] /\ t * a[2] = y * b[2]
    BY <1>1, Rearranged
  <1>4. /\ Less(a, b) <=> p < q
        /\ SameAs(a, b) <=> p = q
        /\ Less(b, c) <=> s < t
        /\ SameAs(b, c) <=> s = t
        /\ Less(a, c) <=> x < y
        /\ SameAs(a, c) <=> x = y
    BY DEF Less, SameAs
  <1> HIDE DEF p, q, s, t, x, y
  <1>5. /\ p < q <=> p * c[2] < q * c[2]
        /\ p <= q <=> p * c[2] <= q * c[2]
    BY <1>1, <1>2, Scaled
  <1>6. /\ s < t <=> s * a[2] < t * a[2]
        /\ s <= t <=> s * a[2] <= t * a[2]
    BY <1>1, <1>2, Scaled
  <1>7. /\ x < y <=> x * b[2] < y * b[2]
        /\ x <= y <=> x * b[2] <= y * b[2]
        /\ y <= x <=> y * b[2] <= x * b[2]
    BY <1>1, <1>2, Scaled
  <1>8. /\ p <= q /\ s < t => x < y
        /\ p < q /\ s <= t => x < y
    BY <1>2, <1>3, <1>5, <1>6, <1>7
  <1>9. p = q /\ s = t => x = y
    BY <1>2, <1>3, <1>7
  <1>10. QED
    BY <1>2, <1>4, <1>8, <1>9

LEMMA ZeroIs == Zero \in Fraction /\ Zero[1] = 0
  BY DEF Zero, Whole, Fraction

LEMMA MoreThanZero ==
  ASSUME NEW a \in Fraction
  PROVE  (Less(Zero, a) <=> a[1] > 0) /\ (SameAs(a, Zero) <=> a[1] = 0)
  <1>1. a[1] \in Int /\ a[2] \in Int /\ a[2] > 0
    BY FractionIs
  <1>2. QED
    BY <1>1 DEF Less, SameAs, Zero, Whole

LEMMA MinusIs ==
  ASSUME NEW a \in Fraction
  PROVE  Minus(a) \in Fraction /\ Minus(Minus(a)) = a
  BY DEF Minus, Fraction

LEMMA SameAsItself ==
  ASSUME NEW a \in Fraction
  PROVE  SameAs(a, a)
  BY DEF SameAs

-----------------------------------------------------------------------------
(* The sum of a sequence of integers is an integer.                        *)

LEMMA TotalIsInt ==
  ASSUME NEW s, NEW n \in Nat, n = Len(s), \A i \in 1..n : s[i] \in Int
  PROVE  Total(s) \in Int
  <1>1. n \in 0..n
    OBVIOUS
  <1>2. SumOf(s, n) \in Int
    BY <1>1, SumsAreNumbers
  <1>3. QED
    BY <1>2, TotalIs

\* Pairs of integers.
ArePairs(pairs, n) ==
  /\ n \in Nat /\ DOMAIN pairs = 1..n /\ Len(pairs) = n
  /\ \A i \in 1..n : pairs[i][1] \in Int /\ pairs[i][2] \in Int

LEMMA SpreadIsInt ==
  ASSUME NEW s, NEW t, NEW n \in Nat, s \in [1..n -> Int], t \in [1..n -> Int]
  PROVE  Spread(s, t) \in Int
  <1> DEFINE p == [i \in DOMAIN s |-> s[i] * t[i]]
  <1>1. DOMAIN s = 1..n /\ Len(s) = n /\ Len(t) = n
    OBVIOUS
  <1>2. p \in [1..n -> Int]
    BY <1>1
  <1>3. Product(s, t) = Total(p)
    BY DEF Product
  <1> HIDE DEF p
  <1>4. Len(p) = n
    BY <1>2
  <1>5. Total(p) \in Int
    BY <1>2, <1>4, TotalIsInt
  <1>6. Total(s) \in Int /\ Total(t) \in Int
    BY <1>1, TotalIsInt
  <1>7. QED
    BY <1>1, <1>3, <1>5, <1>6 DEF Spread

LEMMA SlopeIs ==
  ASSUME NEW pairs, NEW n, ArePairs(pairs, n)
  PROVE  Sxx(pairs) \in Int /\ Sxy(pairs) \in Int
         /\ (HasSlope(pairs) => Slope(pairs) \in Fraction)
  <1>1. n \in Nat /\ Xs(pairs) \in [1..n -> Int] /\ Ys(pairs) \in [1..n -> Int]
    BY DEF ArePairs, Xs, Ys
  <1>2. Sxx(pairs) \in Int /\ Sxy(pairs) \in Int
    BY <1>1, SpreadIsInt DEF Sxx, Sxy
  <1>3. ASSUME HasSlope(pairs) PROVE Slope(pairs) \in Fraction
    <2>1. Sxx(pairs) # 0
      BY <1>2, <1>3 DEF HasSlope
    <2>2. QED
      BY <1>2, <2>1, QuotientIs DEF Slope
  <1>4. QED
    BY <1>2, <1>3

-----------------------------------------------------------------------------
(* Sequences of a size, and what is chosen from them.                      *)

HasSize(m, n) == n \in Nat /\ m = [k \in 1..n |-> m[k]]

LEMMA SizeIs ==
  ASSUME NEW m, NEW n, HasSize(m, n)
  PROVE  /\ n \in Nat /\ DOMAIN m = 1..n /\ Len(m) = n
         /\ m = <<>> <=> n = 0
         /\ n # 0 => Head(m) = m[1] /\ Last(m) = m[n] /\ 1 \in 1..n /\ n \in 1..n
  <1> DEFINE w == [k \in 1..n |-> m[k]]
  <1>1. n \in Nat /\ m = w
    BY DEF HasSize
  <1>2. DOMAIN w = 1..n /\ Len(w) = n /\ (w = <<>> <=> n = 0)
    BY <1>1
  <1>3. n # 0 => Head(w) = w[1] /\ 1 \in 1..n /\ n \in 1..n
    BY <1>1
  <1> HIDE DEF w
  <1>4. QED
    BY <1>1, <1>2, <1>3 DEF Last

LEMMA LeastOf ==
  ASSUME NEW T \in SUBSET Nat, T # {}
  PROVE  Min(T) \in T /\ \A k \in T : Min(T) <= k
  <1>1. \E m \in T : \A k \in T : m <= k
    BY LeastNumber
  <1>2. QED
    BY <1>1 DEF Min

\* t has what s has at the indices S.
IsPartOf(t, m, s, S) ==
  /\ HasSize(t, m)
  /\ \A k \in 1..m : \E i \in S : t[k] = s[i]
  /\ \A i \in S : \E k \in 1..m : t[k] = s[i]

LEMMA PickedHas ==
  ASSUME NEW s, NEW S \in SUBSET Nat, IsFiniteSet(S)
  PROVE  IsPartOf(Picked(s, S), Cardinality(S), s, S)
  <1>1. PICK n, q : n \in Nat /\ Lists(q, n, S, Upwards(S)) /\ Picked(s, S) = [k \in 1..n |-> s[q[k]]]
    <2>1. PICK n, q : n \in Nat /\ Picks(q, n, S)
      BY PickedIs
    <2>2. n \in Nat /\ Lists(q, n, S, Upwards(S)) /\ Picked(s, S) = [k \in 1..n |-> s[q[k]]]
      BY <2>1 DEF Picks
    <2>3. QED
      BY <2>2
  <1>2. Cardinality(S) = n
    BY <1>1, UpwardsIsStrict, ListedFinite
  <1>3. HasSize(Picked(s, S), n)
    BY <1>1 DEF HasSize
  <1>4. q \in [1..n -> S] /\ \A i \in S : \E k \in 1..n : q[k] = i
    BY <1>1 DEF Lists
  <1>5. \A k \in 1..n : q[k] \in S /\ Picked(s, S)[k] = s[q[k]]
    BY <1>1, <1>4
  <1>6. \A k \in 1..n : \E i \in S : Picked(s, S)[k] = s[i]
    BY <1>5
  <1>7. \A i \in S : \E k \in 1..n : Picked(s, S)[k] = s[i]
    BY <1>4, <1>5
  <1>8. QED
    BY <1>2, <1>3, <1>6, <1>7 DEF IsPartOf

LEMMA PartOfSize ==
  ASSUME NEW s, NEW n, HasSize(s, n), NEW S \in SUBSET (1..n)
  PROVE  S \in SUBSET Nat /\ IsFiniteSet(S) /\ Cardinality(S) \in 0..n /\ (Cardinality(S) = 0 <=> S = {})
  <1>1. n \in Nat
    BY SizeIs
  <1>2. IsFiniteSet(1..n) /\ Cardinality(1..n) = n /\ (1..n) \in SUBSET Nat
    BY <1>1, FS_Interval
  <1>3. IsFiniteSet(S) /\ Cardinality(S) <= n
    BY <1>2, FS_Subset
  <1>4. Cardinality(S) \in Nat
    BY <1>3, FS_CardinalityType
  <1>5. Cardinality(S) = 0 <=> S = {}
    BY <1>3, FS_EmptySet
  <1>6. QED
    BY <1>1, <1>2, <1>3, <1>4, <1>5

\* The part is empty when the indices are none.
LEMMA PartHas ==
  ASSUME NEW s, NEW n, HasSize(s, n), NEW S \in SUBSET (1..n)
  PROVE  \E m \in 0..n : IsPartOf(Picked(s, S), m, s, S) /\ (m = 0 <=> S = {})
  <1>1. S \in SUBSET Nat /\ IsFiniteSet(S) /\ Cardinality(S) \in 0..n
        /\ (Cardinality(S) = 0 <=> S = {})
    BY PartOfSize
  <1>2. IsPartOf(Picked(s, S), Cardinality(S), s, S)
    BY <1>1, PickedHas
  <1>3. QED
    BY <1>1, <1>2

\* t has what s has.
Rearranges(t, s, n) ==
  /\ HasSize(t, n)
  /\ \A k \in 1..n : \E i \in 1..n : t[k] = s[i]
  /\ \A i \in 1..n : \E k \in 1..n : t[k] = s[i]

LEMMA RankedHas ==
  ASSUME NEW s, NEW n, HasSize(s, n), NEW B, WeakOrder(B, 1..n)
  PROVE  Rearranges(Ranked(s, B), s, n)
  <1>1. n \in Nat /\ DOMAIN s = 1..n /\ WeakOrder(B, 1..n)
    BY SizeIs
  <1>1a. PICK q : Sorts(q, Ranked(s, B), s, B, n)
    BY ONLY <1>1, RankedIs
  <1>2. Lists(q, n, 1..n, Stable(B, 1..n)) /\ Ranked(s, B) = [k \in 1..n |-> s[q[k]]]
    BY ONLY <1>1a DEF Sorts
  <1>3. q \in [1..n -> 1..n] /\ \A i \in 1..n : \E k \in 1..n : q[k] = i
    BY <1>2 DEF Lists
  <1>4. \A k \in 1..n : q[k] \in 1..n /\ Ranked(s, B)[k] = s[q[k]]
    BY <1>2, <1>3
  <1>5. HasSize(Ranked(s, B), n)
    BY <1>1, <1>2 DEF HasSize
  <1>6. \A k \in 1..n : \E i \in 1..n : Ranked(s, B)[k] = s[i]
    BY <1>4
  <1>7. \A i \in 1..n : \E k \in 1..n : Ranked(s, B)[k] = s[i]
    <2> SUFFICES ASSUME NEW i \in 1..n
                 PROVE  \E k \in 1..n : Ranked(s, B)[k] = s[i]
      OBVIOUS
    <2>1. PICK k \in 1..n : q[k] = i
      BY <1>3
    <2>2. Ranked(s, B)[k] = s[i]
      BY <1>4, <2>1
    <2>3. QED
      BY <2>2
  <1>8. QED
    BY <1>5, <1>6, <1>7 DEF Rearranges

\* What is first in a sort is an element no other is before.
LEMMA RankedFirst ==
  ASSUME NEW s, NEW n, HasSize(s, n), n # 0, NEW B, WeakOrder(B, 1..n)
  PROVE  \E i \in 1..n : Ranked(s, B)[1] = s[i] /\ \A j \in 1..n : <<j, i>> \notin B
  <1>1. n \in Nat /\ DOMAIN s = 1..n /\ 1 \in 1..n /\ WeakOrder(B, 1..n)
    BY SizeIs
  <1>2. StrictOrder(Stable(B, 1..n), 1..n)
    BY ONLY <1>1, RankedIs
  <1>2a. PICK q : Sorts(q, Ranked(s, B), s, B, n)
    BY ONLY <1>1, RankedIs
  <1>3. Lists(q, n, 1..n, Stable(B, 1..n)) /\ Ranked(s, B) = [k \in 1..n |-> s[q[k]]]
    BY ONLY <1>2a DEF Sorts
  <1>4. q \in [1..n -> 1..n] /\ \A i \in 1..n : \E k \in 1..n : q[k] = i
    BY <1>3 DEF Lists
  <1>5. q[1] \in 1..n /\ Ranked(s, B)[1] = s[q[1]]
    BY <1>1, <1>3, <1>4
  <1>6. ASSUME NEW j \in 1..n, <<j, q[1]>> \in B
        PROVE  FALSE
    <2>1. PICK k \in 1..n : q[k] = j
      BY <1>4
    <2>2. <<j, q[1]>> \in Stable(B, 1..n)
      BY <1>5, <1>6, StableIs
    <2>3. k # 1
      BY <1>2, <1>5, <2>1, <2>2 DEF StrictOrder
    <2>4. 1 < k
      BY <1>1, <2>1, <2>3
    <2>5. <<q[1], j>> \in Stable(B, 1..n)
      BY <1>1, <1>3, <2>1, <2>4 DEF Lists
    <2>6. <<q[1], q[1]>> \in Stable(B, 1..n)
      BY <1>2, <1>5, <2>2, <2>5 DEF StrictOrder
    <2>7. QED
      BY <1>2, <1>5, <2>6 DEF StrictOrder
  <1>7. QED
    BY <1>5, <1>6

-----------------------------------------------------------------------------
(* What the adapter and the builder make is observations.                  *)

Readable == Int \union {Absent, NaN, Junk}
Numeric == Int \union {Absent, NaN}

LEMMA FirstIs ==
  ASSUME NEW s, NEW n, HasSize(s, n), NEW T, T = {i \in 1..Len(s) : s[i] # Absent}
  PROVE  (IF T # {} THEN Min(T) ELSE 0) \in 0..n
         /\ (T # {} => Min(T) \in T)
  <1>1. n \in Nat /\ Len(s) = n
    BY SizeIs
  <1>2. T \in SUBSET (1..n)
    BY <1>1
  <1>3. ASSUME T # {} PROVE Min(T) \in T
    <2>1. T \in SUBSET Nat
      BY <1>2
    <2>2. QED
      BY ONLY <1>3, <2>1, LeastOf
  <1>4. QED
    BY <1>1, <1>2, <1>3

LEMMA FirstOfIs ==
  ASSUME NEW s, NEW n, HasSize(s, n), \A i \in 1..n : s[i] \in Readable
  PROVE  FirstOf(s) \in Numeric
  <1> DEFINE T == {i \in 1..Len(s) : s[i] # Absent}
             first == IF T # {} THEN Min(T) ELSE 0
  <1>1. first \in 0..n
    BY FirstIs
  <1>2. FirstOf(s) = IF first = 0 \/ s[first] = Junk THEN Absent ELSE s[first]
    BY DEF FirstOf, SelectInSeq
  <1>3. n \in Nat
    BY SizeIs
  <1> HIDE DEF first
  <1>4. first # 0 => s[first] \in Readable
    BY <1>1, <1>3
  <1>5. QED
    BY <1>2, <1>4 DEF Readable, Numeric

LEMMA FirstOfTwo ==
  ASSUME NEW a \in Readable, NEW b \in Readable
  PROVE  FirstOf(<<a, b>>) \in Numeric
  <1>1. HasSize(<<a, b>>, 2) /\ \A i \in 1..2 : <<a, b>>[i] \in Readable
    BY DEF HasSize
  <1>2. QED
    BY ONLY <1>1, FirstOfIs

LEMMA FirstOfThree ==
  ASSUME NEW a \in Readable, NEW b \in Readable, NEW c \in Readable
  PROVE  FirstOf(<<a, b, c>>) \in Numeric
  <1>1. HasSize(<<a, b, c>>, 3) /\ \A i \in 1..3 : <<a, b, c>>[i] \in Readable
    BY DEF HasSize
  <1>2. QED
    BY ONLY <1>1, FirstOfIs

LEMMA FirstOfFour ==
  ASSUME NEW a \in Readable, NEW b \in Readable, NEW c \in Readable, NEW d \in Readable
  PROVE  FirstOf(<<a, b, c, d>>) \in Numeric
  <1>1. HasSize(<<a, b, c, d>>, 4) /\ \A i \in 1..4 : <<a, b, c, d>>[i] \in Readable
    BY DEF HasSize
  <1>2. QED
    BY ONLY <1>1, FirstOfIs

LEMMA SourcesAreReadable ==
  ASSUME NEW r, IsRecord(r), NEW key
  PROVE  /\ Meta(r, key) \in Readable /\ Custom(r, key) \in Readable
         /\ EstSoh(r) \in Readable /\ EstMohm(r) \in Readable /\ ModelSoh(r) \in Readable
  BY DEF IsRecord, Meta, Custom, EstSoh, EstMohm, ModelSoh, Readable

LEMMA ChannelsAreNumeric ==
  ASSUME NEW r, IsRecord(r)
  PROVE  /\ CycleOf(r) \in Numeric /\ AmpereHoursOf(r) \in Numeric /\ WattHoursOf(r) \in Numeric
         /\ RetentionOf(r) \in Numeric /\ RatioOf(r) \in Numeric
         /\ ResistanceOf(r) \in Numeric /\ CapacityOf(r) \in Numeric
         /\ ResistanceAmongAll(r) \in Numeric /\ CapacityAmongAll(r) \in Numeric
  <1>1. \A key : Meta(r, key) \in Readable /\ Custom(r, key) \in Readable
    BY SourcesAreReadable
  <1>2. EstSoh(r) \in Readable /\ EstMohm(r) \in Readable /\ ModelSoh(r) \in Readable
    BY SourcesAreReadable
  <1>3. CycleOf(r) \in Numeric /\ AmpereHoursOf(r) \in Numeric /\ WattHoursOf(r) \in Numeric
    BY ONLY <1>1, FirstOfTwo DEF CycleOf, AmpereHoursOf, WattHoursOf
  <1>4. RetentionOf(r) \in Numeric
    BY ONLY <1>1, <1>2, FirstOfThree DEF RetentionOf
  <1>5. RatioOf(r) \in Numeric
    BY ONLY <1>1, FirstOfTwo DEF RatioOf
  <1>6. ResistanceOf(r) \in Numeric
    BY ONLY <1>1, <1>2, FirstOfFour DEF ResistanceOf
  <1>7. CapacityOf(r) \in Numeric
    BY ONLY <1>1, FirstOfFour DEF CapacityOf
  <1>8. ResistanceAmongAll(r) \in Numeric
    BY ONLY <1>1, <1>2, FirstOfTwo DEF ResistanceAmongAll
  <1>9. CapacityAmongAll(r) \in Numeric
    BY ONLY <1>1, FirstOfTwo DEF CapacityAmongAll
  <1>10. QED
    BY <1>3, <1>4, <1>5, <1>6, <1>7, <1>8, <1>9

Observable == Int \union {Absent}

LEMMA ObsIs ==
  ASSUME NEW at \in Nat, NEW fields, \A f \in (DOMAIN fields) \intersect Fields : fields[f] \in Observable,
         NEW age, NEW context, NEW sigma
  PROVE  IsObservation(Obs(at, fields, age, context, Absent, sigma))
  <1> DEFINE of == [f \in Fields |-> IF f \in DOMAIN fields THEN fields[f] ELSE Absent]
  <1>1. of \in [Fields -> Int \union {Absent}]
    BY DEF Observable
  <1>2. Obs(at, fields, age, context, Absent, sigma) =
          [at |-> at, of |-> of, age |-> age, context |-> context, baseline |-> Absent, sigma |-> sigma]
    BY DEF Obs
  <1> HIDE DEF of
  <1>3. QED
    BY <1>1, <1>2 DEF IsObservation

AreObservations(obs, n) == HasSize(obs, n) /\ \A i \in 1..n : IsObservation(obs[i])

Sooner(obs) == {p \in (DOMAIN obs) \X (DOMAIN obs) : obs[p[1]].at < obs[p[2]].at}

LEMMA SoonerIsWeak ==
  ASSUME NEW obs, NEW n, AreObservations(obs, n)
  PROVE  WeakOrder(Sooner(obs), 1..n) /\ SortedByTime(obs) = Ranked(obs, Sooner(obs))
  <1>1. DOMAIN obs = 1..n
    BY SizeIs DEF AreObservations
  <1>2. \A i \in 1..n : obs[i].at \in Nat
    BY DEF AreObservations, IsObservation
  <1>3. \A i, j \in 1..n : <<i, j>> \in Sooner(obs) <=> obs[i].at < obs[j].at
    BY <1>1 DEF Sooner
  <1>4. WeakOrder(Sooner(obs), 1..n)
    BY <1>2, <1>3 DEF WeakOrder
  <1>5. SortedByTime(obs) = Ranked(obs, Sooner(obs))
    BY DEF SortedByTime, SortedBy, Sooner
  <1>6. QED
    BY <1>4, <1>5

LEMMA SortedByTimeHas ==
  ASSUME NEW obs, NEW n, AreObservations(obs, n)
  PROVE  AreObservations(SortedByTime(obs), n) /\ Rearranges(SortedByTime(obs), obs, n)
  <1>1. HasSize(obs, n) /\ \A i \in 1..n : IsObservation(obs[i])
    BY DEF AreObservations
  <1>2. WeakOrder(Sooner(obs), 1..n) /\ SortedByTime(obs) = Ranked(obs, Sooner(obs))
    BY SoonerIsWeak
  <1>3. Rearranges(SortedByTime(obs), obs, n)
    BY <1>1, <1>2, RankedHas
  <1>4. QED
    BY <1>1, <1>3 DEF AreObservations, Rearranges

\* The observations of the records, as they come.
Fieldwise(r) ==
  [retention |-> Finite(RetentionOf(r)), capacity |-> Finite(CapacityAmongAll(r)),
   r0 |-> Finite(ResistanceAmongAll(r)), ratio |-> Finite(RatioOf(r)),
   efc |-> Finite(CycleOf(r)), discharge |-> Finite(AmpereHoursOf(r)),
   energy |-> Finite(WattHoursOf(r))]
Named(r, quantity) ==
  [f \in {quantity, "efc", "discharge", "energy"} |->
     CASE f = quantity -> QuantityOf(r, quantity)
       [] f = "efc" -> CycleOf(r)
       [] f = "discharge" -> AmpereHoursOf(r)
       [] f = "energy" -> WattHoursOf(r)]
FieldsOf(part, r) == IF job.form = "history" THEN Fieldwise(r) ELSE Named(r, part.quantity)
AsTheyCome(part, records) ==
  IF job.form = "observations" THEN Observed(records, part.fields)
  ELSE [i \in DOMAIN records |->
          Obs(records[i].t, FieldsOf(part, records[i]), AgeOf(records, records[i]),
              ContextOf(records[i]), Absent, Absent)]
InTime(part) == job.form = "observations" => part.sorted

LEMMA TrajectoryIs ==
  ASSUME job.form \in {"history", "quantities", "observations"}, NEW part, NEW records
  PROVE  TrajectoryOf(part, records) =
           [type |-> TypeOfPart(part),
            obs |-> IF InTime(part) THEN SortedByTime(AsTheyCome(part, records))
                    ELSE AsTheyCome(part, records)]
  <1>1. CASE job.form = "history"
    <2>1. TrajectoryOf(part, records) = ExtractMultivariate(records)
      BY <1>1 DEF TrajectoryOf
    <2>2. AsTheyCome(part, records) =
            [i \in DOMAIN records |->
              Obs(records[i].t, Fieldwise(records[i]), AgeOf(records, records[i]),
                  ContextOf(records[i]), Absent, Absent)]
      BY <1>1 DEF AsTheyCome, FieldsOf
    <2>3. ExtractMultivariate(records) =
            [type |-> "MULTIVARIATE", obs |-> SortedByTime(AsTheyCome(part, records))]
      BY <2>2 DEF ExtractMultivariate, Adapt, Fieldwise
    <2>4. InTime(part) /\ TypeOfPart(part) = "MULTIVARIATE"
      BY <1>1 DEF InTime, TypeOfPart
    <2>5. QED
      BY <2>1, <2>3, <2>4
  <1>2. CASE job.form = "quantities"
    <2>1. TrajectoryOf(part, records) = Extract(records, part.quantity)
      BY <1>2 DEF TrajectoryOf
    <2>2. AsTheyCome(part, records) =
            [i \in DOMAIN records |->
              Obs(records[i].t, Named(records[i], part.quantity), AgeOf(records, records[i]),
                  ContextOf(records[i]), Absent, Absent)]
      BY <1>2 DEF AsTheyCome, FieldsOf
    <2>3. Extract(records, part.quantity) =
            [type |-> TypeOfQuantity[part.quantity],
             obs |-> SortedByTime(AsTheyCome(part, records))]
      BY <2>2 DEF Extract, Adapt, Named
    <2>4. InTime(part) /\ TypeOfPart(part) = TypeOfQuantity[part.quantity]
      BY <1>2 DEF InTime, TypeOfPart
    <2>5. QED
      BY <2>1, <2>3, <2>4
  <1>3. CASE job.form = "observations"
    <2>1. TrajectoryOf(part, records) = Build(part.type, Observed(records, part.fields), part.sorted)
      BY <1>3 DEF TrajectoryOf
    <2>2. AsTheyCome(part, records) = Observed(records, part.fields)
      BY <1>3 DEF AsTheyCome
    <2>3. (InTime(part) <=> part.sorted) /\ TypeOfPart(part) = part.type
      BY <1>3 DEF InTime, TypeOfPart
    <2>4. QED
      BY <2>1, <2>2, <2>3 DEF Build
  <1>4. QED
    BY <1>1, <1>2, <1>3

\* Records of the job at hand.
AreRecords(records, n) == HasSize(records, n) /\ \A i \in 1..n : records[i] \in job.alphabet

LEMMA FieldwiseIs ==
  ASSUME NEW r, IsRecord(r), NEW f \in DOMAIN Fieldwise(r)
  PROVE  Fieldwise(r)[f] \in Observable
  BY ChannelsAreNumeric, MarksAreNoNumbers, MarksAreDistinct
     DEF Fieldwise, Finite, Numeric, Observable

LEMMA NamedIs ==
  ASSUME NEW records, NEW quantity \in Quantities, NEW domain, Extractable(records, quantity, domain),
         NEW i \in DOMAIN records, IsRecord(records[i]), NEW f \in DOMAIN Named(records[i], quantity)
  PROVE  Named(records[i], quantity)[f] \in Observable
  <1> DEFINE r == records[i]
  <1>1. NaN \notin {QuantityOf(r, quantity), CycleOf(r), AmpereHoursOf(r), WattHoursOf(r)}
    BY DEF Extractable
  <1>2. CycleOf(r) \in Numeric /\ AmpereHoursOf(r) \in Numeric /\ WattHoursOf(r) \in Numeric
    BY ChannelsAreNumeric
  <1>3. QuantityOf(r, quantity) \in Numeric
    BY ChannelsAreNumeric DEF QuantityOf, Quantities
  <1>4. f \in {quantity, "efc", "discharge", "energy"}
    BY DEF Named
  <1>5. /\ CycleOf(r) \in Observable /\ AmpereHoursOf(r) \in Observable
        /\ WattHoursOf(r) \in Observable /\ QuantityOf(r, quantity) \in Observable
    BY <1>1, <1>2, <1>3 DEF Numeric, Observable
  <1>6. Named(r, quantity)[f] \in {QuantityOf(r, quantity), CycleOf(r), AmpereHoursOf(r), WattHoursOf(r)}
    BY <1>4 DEF Named
  <1>7. QED
    BY <1>5, <1>6

LEMMA RecordsAreObserved ==
  ASSUME NEW records, NEW n, HasSize(records, n), NEW part,
         job.form \in {"history", "quantities"}, IsPart(part, job.form), Extracts(part, records),
         \A i \in 1..n : IsRecord(records[i])
  PROVE  AreObservations(AsTheyCome(part, records), n)
  <1>1. n \in Nat /\ DOMAIN records = 1..n
    BY SizeIs
  <1>2. ASSUME NEW i \in 1..n, NEW f \in DOMAIN FieldsOf(part, records[i])
        PROVE  FieldsOf(part, records[i])[f] \in Observable
    <2>1. CASE job.form = "history"
      <3>1. FieldsOf(part, records[i]) = Fieldwise(records[i])
        BY <2>1 DEF FieldsOf
      <3>2. QED
        BY <1>2, <3>1, FieldwiseIs
    <2>2. CASE job.form = "quantities"
      <3>1. FieldsOf(part, records[i]) = Named(records[i], part.quantity)
        BY <2>2 DEF FieldsOf
      <3>2. part.quantity \in Quantities
        BY <2>2 DEF IsPart
      <3>3. Extractable(records, part.quantity, part.domain)
        BY <2>2 DEF Extracts
      <3>4. IsRecord(records[i]) /\ i \in DOMAIN records
        BY <1>1
      <3>5. QED
        BY <1>2, <3>1, <3>2, <3>3, <3>4, NamedIs
    <2>3. QED
      BY <2>1, <2>2
  <1>3. AsTheyCome(part, records) =
          [i \in 1..n |->
             Obs(records[i].t, FieldsOf(part, records[i]), AgeOf(records, records[i]),
                 ContextOf(records[i]), Absent, Absent)]
    BY <1>1 DEF AsTheyCome
  <1>4. ASSUME NEW i \in 1..n
        PROVE  IsObservation(Obs(records[i].t, FieldsOf(part, records[i]),
                                 AgeOf(records, records[i]), ContextOf(records[i]), Absent, Absent))
    <2>1. records[i].t \in Nat
      BY DEF IsRecord
    <2>2. \A f \in (DOMAIN FieldsOf(part, records[i])) \intersect Fields :
            FieldsOf(part, records[i])[f] \in Observable
      BY <1>2
    <2>3. QED
      BY <2>1, <2>2, ObsIs
  <1>5. QED
    BY <1>1, <1>3, <1>4 DEF AreObservations, HasSize

LEMMA ObservedAreObservations ==
  ASSUME NEW records, NEW n, AreObservations(records, n), NEW fields
  PROVE  AreObservations(Observed(records, fields), n)
  <1>1. n \in Nat /\ DOMAIN records = 1..n
    BY SizeIs DEF AreObservations
  <1> DEFINE e(i) == [records[i] EXCEPT !.of = [f \in Fields |-> IF f \in fields THEN @[f] ELSE Absent]]
  <1>2. Observed(records, fields) = [i \in 1..n |-> e(i)]
    BY <1>1 DEF Observed
  <1>3. ASSUME NEW i \in 1..n PROVE IsObservation(e(i))
    <2>1. IsObservation(records[i])
      BY DEF AreObservations
    <2>2. QED
      BY <2>1 DEF IsObservation
  <1>4. QED
    BY <1>1, <1>2, <1>3 DEF AreObservations, HasSize

Typed == \E name \in DOMAIN Jobs : job = Jobs[name]

LEMMA JobIs ==
  ASSUME Typed
  PROVE  /\ job.form \in {"history", "quantities", "observations"}
         /\ job.mapping \in BOOLEAN
         /\ \A i \in DOMAIN job.parts : IsPart(job.parts[i], job.form)
         /\ \A r \in job.alphabet : IF job.form = "observations" THEN IsObservation(r) ELSE IsRecord(r)
         /\ job.config.domain \in DOMAIN UnitOf \union {Absent}
         /\ job.config.cutoff \in Nat \union {Absent}
         /\ job.config.minObs \in Nat
         /\ job.config.ols \in BOOLEAN /\ job.config.fallback \in BOOLEAN
         /\ job.config.strategy \in Strategies
         /\ IsPortfolio(job.portfolio)
         /\ job.parts \in Seq(ToSet(job.parts)) \ {<<>>}
  BY JobsAssumption DEF Typed

LEMMA TrajectoryTyped ==
  ASSUME Typed, NEW records, NEW n, AreRecords(records, n), NEW part, IsPart(part, job.form),
         Extracts(part, records)
  PROVE  /\ AreObservations(AsTheyCome(part, records), n)
         /\ AreObservations(TrajectoryOf(part, records).obs, n)
  <1>1. job.form \in {"history", "quantities", "observations"}
    BY JobIs
  <1>2. HasSize(records, n) /\ \A i \in 1..n : records[i] \in job.alphabet
    BY DEF AreRecords
  <1>3. AreObservations(AsTheyCome(part, records), n)
    <2>1. CASE job.form = "observations"
      <3>1. \A i \in 1..n : IsObservation(records[i])
        BY <1>2, <2>1, JobIs
      <3>2. AreObservations(Observed(records, part.fields), n)
        BY <1>2, <3>1, ObservedAreObservations DEF AreObservations
      <3>3. QED
        BY <2>1, <3>2 DEF AsTheyCome
    <2>2. CASE job.form \in {"history", "quantities"}
      <3>1. \A i \in 1..n : IsRecord(records[i])
        BY <1>2, <2>2, JobIs
      <3>2. QED
        BY <1>2, <2>2, <3>1, RecordsAreObserved
    <2>3. QED
      BY <1>1, <2>1, <2>2
  <1>4. AreObservations(SortedByTime(AsTheyCome(part, records)), n)
    BY <1>3, SortedByTimeHas
  <1>5. QED
    BY <1>1, <1>3, <1>4, TrajectoryIs

-----------------------------------------------------------------------------
(* What the estimator says.                                                *)

IsCriterion(c) ==
  c.id # Absent /\ c.alpha \in Int /\ c.threshold \in Int /\ c.baseline \in (Nat \ {0}) \union {Absent}

LEMMA CriteriaAre ==
  ASSUME Typed, NEW i \in DOMAIN job.portfolio
  PROVE  IsCriterion(job.portfolio[i])
  BY JobIs DEF IsPortfolio, IsCriterion

LEMMA LevelIs ==
  ASSUME NEW o, IsObservation(o), NEW c, IsCriterion(c), NEW field \in Fields
  PROVE  Level(o, c, field) \in Observable
  <1>1. \A f \in Fields : o.of[f] \in Observable
    BY DEF IsObservation, Observable
  <1>2. "r0" \in Fields /\ "ratio" \in Fields
    BY DEF Fields, Quantities
  <1>3. o.of.ratio = o.of["ratio"] /\ o.of.r0 = o.of["r0"]
    OBVIOUS
  <1>4. Baseline(o, c) \in (Nat \ {0}) \union {Absent}
    BY DEF Baseline, IsObservation, IsCriterion
  <1>5. \A x \in Int, b \in Nat \ {0} : (100 * x) \div b \in Int
    OBVIOUS
  <1>6. ASSUME field = "ratio", o.of.ratio = Absent, Absent \notin {o.of.r0, Baseline(o, c)}
        PROVE  Level(o, c, field) \in Int
    <2>1. o.of.r0 \in Int
      BY <1>1, <1>2, <1>3, <1>6 DEF Observable
    <2>2. Baseline(o, c) \in Nat \ {0}
      BY <1>4, <1>6
    <2>3. Level(o, c, field) = (100 * o.of.r0) \div Baseline(o, c)
      BY <1>6 DEF Level
    <2>4. QED
      BY <1>5, <2>1, <2>2, <2>3
  <1>7. CASE field # "ratio" \/ o.of.ratio # Absent
    BY <1>1, <1>7 DEF Level
  <1>8. CASE field = "ratio" /\ o.of.ratio = Absent /\ Absent \in {o.of.r0, Baseline(o, c)}
    BY <1>8 DEF Level, Observable
  <1>9. QED
    BY <1>6, <1>7, <1>8 DEF Observable

LEMMA PositionIs ==
  ASSUME NEW o, IsObservation(o), NEW domain \in DOMAIN UnitOf
  PROVE  Position(o, domain) \in Observable
  <1>1. \A f \in Fields : o.of[f] \in Observable
    BY DEF IsObservation, Observable
  <1>2. {"efc", "charge", "discharge", "energy"} \subseteq Fields
    BY DEF Fields, Axes
  <1>3. o.of.efc \in Observable /\ o.of.charge \in Observable
        /\ o.of.discharge \in Observable /\ o.of.energy \in Observable /\ o.at \in Observable
    BY <1>1, <1>2 DEF IsObservation, Observable
  <1>4. domain \in {"CYCLE", "TIME", "AMPERE_HOUR_THROUGHPUT", "WATT_HOUR_THROUGHPUT"}
    BY DEF UnitOf
  <1>5. QED
    BY <1>3, <1>4 DEF Position

LEMMA FieldOfTypeIs ==
  ASSUME NEW c, Supported(c)
  PROVE  FieldOfType[c.type] \in Quantities /\ FieldOfType[c.type] \in Fields
         /\ FieldOf(c) = FieldOfType[c.type]
  BY DEF Supported, FieldOfType, Quantities, Fields, FieldOf

\* An observation the estimator uses.
Usable(o, c, domain, cfg) ==
  /\ Known(o, cfg)
  /\ Absent \notin {Level(o, c, FieldOfType[c.type]), Position(o, domain)}

LEMMA UsedAre ==
  ASSUME NEW traj, NEW n, AreObservations(traj.obs, n), NEW c, IsCriterion(c), Supported(c),
         NEW domain \in DOMAIN UnitOf, NEW cfg
  PROVE  \E m \in 0..n :
           /\ IsPartOf(ObservationsUsed(traj, c, domain, cfg), m, traj.obs,
                       {i \in 1..n : Usable(traj.obs[i], c, domain, cfg)})
           /\ ArePairs(PairsOf(ObservationsUsed(traj, c, domain, cfg), c, FieldOfType[c.type], domain), m)
           /\ HasSize(PairsOf(ObservationsUsed(traj, c, domain, cfg), c, FieldOfType[c.type], domain), m)
  <1> DEFINE S == {i \in 1..n : Usable(traj.obs[i], c, domain, cfg)}
             used == ObservationsUsed(traj, c, domain, cfg)
             field == FieldOfType[c.type]
             pairs == PairsOf(used, c, field, domain)
  <1>1. HasSize(traj.obs, n) /\ DOMAIN traj.obs = 1..n
    BY SizeIs DEF AreObservations
  <1>2. used = Picked(traj.obs, S)
    BY <1>1 DEF ObservationsUsed, Chosen, Usable
  <1>3. S \in SUBSET (1..n)
    OBVIOUS
  <1>4. \A i \in S : i \in 1..n /\ Usable(traj.obs[i], c, domain, cfg)
    OBVIOUS
  <1>5. field \in Fields
    BY FieldOfTypeIs
  <1> HIDE DEF S, used
  <1>6. PICK m \in 0..n : IsPartOf(used, m, traj.obs, S)
    BY <1>1, <1>2, <1>3, PartHas
  <1>7. HasSize(used, m) /\ m \in Nat /\ DOMAIN used = 1..m
    BY <1>6, SizeIs DEF IsPartOf
  <1>8. ASSUME NEW k \in 1..m
        PROVE  Level(used[k], c, field) \in Int /\ Position(used[k], domain) \in Int
    <2>1. PICK i \in S : used[k] = traj.obs[i]
      BY <1>6 DEF IsPartOf
    <2>2. IsObservation(used[k]) /\ Usable(used[k], c, domain, cfg)
      BY <1>4, <2>1 DEF AreObservations
    <2>3. Level(used[k], c, field) \in Observable /\ Position(used[k], domain) \in Observable
      BY <1>5, <2>2, LevelIs, PositionIs
    <2>4. QED
      BY <2>2, <2>3 DEF Usable, Observable
  <1> HIDE DEF field
  <1>9. pairs = [k \in 1..m |-> <<Position(used[k], domain), Level(used[k], c, field)>>]
    BY <1>7 DEF PairsOf
  <1> HIDE DEF pairs
  <1>10. HasSize(pairs, m)
    BY <1>7, <1>9 DEF HasSize
  <1>11. DOMAIN pairs = 1..m /\ Len(pairs) = m
    BY <1>10, SizeIs
  <1>12. \A k \in 1..m : pairs[k][1] \in Int /\ pairs[k][2] \in Int
    BY <1>8, <1>9
  <1>13. ArePairs(pairs, m)
    BY <1>7, <1>11, <1>12 DEF ArePairs
  <1>14. QED
    BY <1>6, <1>10, <1>13 DEF S, used, pairs, field

\* A prediction: it is valid when it has a life, and says what the line says.
IsPrediction(p) ==
  /\ p.domain \in DOMAIN UnitOf
  /\ p.rul \in Fraction \union {Absent} /\ (p.status = "VALID" <=> p.rul # Absent)
  /\ p.status # "VALID_WITH_LIMITATIONS"
  /\ p.rate \in Fraction \union {Absent}

LEMMA AbsentIsNoFraction ==
  /\ Absent \notin Fraction /\ Absent \notin Int
  /\ \A a \in Fraction : a # Absent
  BY MarksAreNoNumbers DEF Fraction

LEMMA PredictionIs ==
  ASSUME NEW status, NEW domain, NEW rul, NEW rate, NEW context
  PROVE  LET p == Prediction(status, domain, rul, rate, context) IN
         p.status = status /\ p.domain = domain /\ p.rul = rul /\ p.rate = rate
         /\ p.context = context
  BY DEF Prediction

LEMMA NoPredictionIs ==
  ASSUME NEW status, status \notin UsableStatuses, NEW domain \in DOMAIN UnitOf
  PROVE  LET p == NoPrediction(status, domain) IN
         IsPrediction(p) /\ p.status = status /\ p.rul = Absent /\ p.rate = Absent
         /\ p.domain = domain
  BY DEF NoPrediction, Prediction, IsPrediction, UsableStatuses

LEMMA SteepIsPositive ==
  ASSUME NEW rate \in Fraction, ~AtMost(rate, FlatSlope)
  PROVE  rate[1] > 0
  <1>1. FlatSlope[1] \in Nat /\ FlatSlope[2] \in Nat /\ FlatSlope[2] > 0
    BY EstimationAssumption
  <1>2. rate[1] \in Int /\ rate[2] \in Int /\ rate[2] > 0
    BY FractionIs
  <1>3. FlatSlope[1] * rate[2] < rate[1] * FlatSlope[2]
    BY DEF AtMost, Less
  <1>4. FlatSlope[1] * rate[2] >= 0
    BY <1>1, <1>2
  <1>5. rate[1] * FlatSlope[2] > 0
    <2>1. rate[1] * FlatSlope[2] \in Int /\ FlatSlope[1] * rate[2] \in Int
      BY <1>1, <1>2
    <2>2. QED
      BY <1>3, <1>4, <2>1
  <1>6. QED
    <2>1. ASSUME rate[1] <= 0 PROVE FALSE
      <3>1. rate[1] * FlatSlope[2] <= 0
        BY <1>1, <1>2, <2>1
      <3>2. QED
        BY <1>1, <1>2, <1>5, <3>1
    <2>2. QED
      BY <1>2, <2>1

LEMMA Positive ==
  ASSUME NEW x \in Int, NEW y \in Int, x > 0, y > 0
  PROVE  x * y \in Int /\ x * y > 0
  OBVIOUS

LEMMA RoundedIs ==
  ASSUME NEW rate \in Fraction
  PROVE  Rounded(rate) \in Fraction /\ (Less(Zero, Rounded(rate)) => Rounded(rate) = rate)
  <1>1. ~Less(Zero, Zero)
    BY DEF Less, Zero, Whole
  <1>2. QED
    BY <1>1, ZeroIs DEF Rounded

\* The life the line leaves, and when it is zero.
Leaves(p, c, y, domain) ==
  /\ IsPrediction(p) /\ p.domain = domain
  /\ p.status = "VALID" => (SameAs(p.rul, Zero) <=> BeyondEol(c, y))

\* The rate of a line is the slope of the line.
FollowsTheLine(p, c, pairs) ==
  p.rate # Absent =>
    /\ HasSlope(pairs) /\ Slope(pairs) \in Fraction
    /\ p.rate = Rounded(RateTowardsEol(c, Slope(pairs)))

LEMMA ExtrapolatedIs ==
  ASSUME NEW pairs, NEW m, ArePairs(pairs, m), HasSize(pairs, m), m # 0,
         pairs[m][1] > pairs[1][1], NEW c, IsCriterion(c), NEW domain \in DOMAIN UnitOf,
         NEW cfg, cfg.ols \in BOOLEAN, NEW context
  PROVE  /\ Leaves(Extrapolated(pairs, c, domain, cfg, context), c, pairs[m][2], domain)
         /\ cfg.ols => FollowsTheLine(Extrapolated(pairs, c, domain, cfg, context), c, pairs)
  <1> DEFINE y == pairs[m][2]
             slope == IF cfg.ols /\ Len(pairs) >= 2 THEN Slope(pairs) ELSE EndpointSlope(pairs)
             rate == RateTowardsEol(c, slope)
             rul == Over(MarginOf(c, y) * rate[2], rate[1])
             p == Extrapolated(pairs, c, domain, cfg, context)
  <1>1. Last(pairs) = pairs[m] /\ Head(pairs) = pairs[1] /\ Len(pairs) = m
        /\ m \in 1..m /\ 1 \in 1..m /\ m \in Nat
    BY SizeIs
  <1>2. \A i \in 1..m : pairs[i][1] \in Int /\ pairs[i][2] \in Int
    BY DEF ArePairs
  <1>3. pairs[m][1] \in Int /\ pairs[1][1] \in Int /\ y \in Int /\ pairs[1][2] \in Int
    BY <1>1, <1>2
  <1>4. m >= 2
    BY <1>1, <1>3
  <1>5. EndpointSlope(pairs) \in Fraction
    <2>1. EndpointSlope(pairs) = Over(y - pairs[1][2], pairs[m][1] - pairs[1][1])
      BY <1>1 DEF EndpointSlope
    <2>2. pairs[m][1] - pairs[1][1] \in Int /\ pairs[m][1] - pairs[1][1] # 0
          /\ y - pairs[1][2] \in Int
      BY <1>3
    <2>3. QED
      BY <2>1, <2>2, QuotientIs
  <1>6. p = IF BeyondEol(c, y) THEN Prediction("VALID", domain, Zero, Absent, context)
            ELSE IF cfg.ols /\ Len(pairs) >= 2 /\ ~HasSlope(pairs)
            THEN NoPrediction("DATA_QUALITY_FAILED", domain)
            ELSE IF AtMost(rate, FlatSlope) THEN NoPrediction("OUT_OF_DOMAIN", domain)
            ELSE Prediction("VALID", domain, rul, Rounded(rate), context)
    BY <1>1 DEF Extrapolated
  <1> HIDE DEF p, rul, rate, slope, y
  <1>7. CASE BeyondEol(c, y)
    <2>1. p.status = "VALID" /\ p.domain = domain /\ p.rul = Zero /\ p.rate = Absent
      BY <1>6, <1>7, PredictionIs
    <2>2. Zero \in Fraction /\ Zero # Absent /\ SameAs(Zero, Zero)
      BY ZeroIs, AbsentIsNoFraction, SameAsItself
    <2>3. QED
      BY <1>7, <2>1, <2>2 DEF Leaves, IsPrediction, FollowsTheLine, y, p
  <1>8. CASE ~BeyondEol(c, y) /\ cfg.ols /\ ~HasSlope(pairs)
    <2>1. p = NoPrediction("DATA_QUALITY_FAILED", domain)
      BY <1>1, <1>4, <1>6, <1>8
    <2>2. IsPrediction(p) /\ p.status # "VALID" /\ p.rate = Absent /\ p.domain = domain
      BY <2>1, NoPredictionIs DEF UsableStatuses
    <2>3. QED
      BY <2>2 DEF Leaves, FollowsTheLine, p
  <1>9. CASE ~BeyondEol(c, y) /\ ~(cfg.ols /\ ~HasSlope(pairs)) /\ AtMost(rate, FlatSlope)
    <2>1. p = NoPrediction("OUT_OF_DOMAIN", domain)
      BY <1>1, <1>4, <1>6, <1>9
    <2>2. IsPrediction(p) /\ p.status # "VALID" /\ p.rate = Absent /\ p.domain = domain
      BY <2>1, NoPredictionIs DEF UsableStatuses
    <2>3. QED
      BY <2>2 DEF Leaves, FollowsTheLine, p
  <1>10. CASE ~BeyondEol(c, y) /\ ~(cfg.ols /\ ~HasSlope(pairs)) /\ ~AtMost(rate, FlatSlope)
    <2>1. p = Prediction("VALID", domain, rul, Rounded(rate), context)
      BY <1>6, <1>10
    <2>2. p.status = "VALID" /\ p.domain = domain /\ p.rul = rul /\ p.rate = Rounded(rate)
      BY <2>1, PredictionIs
    <2>3. slope \in Fraction /\ (cfg.ols => slope = Slope(pairs) /\ HasSlope(pairs))
      BY <1>1, <1>4, <1>5, <1>10, SlopeIs DEF slope
    <2>4. rate \in Fraction
      BY <2>3, MinusIs DEF rate, RateTowardsEol
    <2>5. rate[1] \in Int /\ rate[1] > 0 /\ rate[2] \in Int /\ rate[2] > 0
      BY <1>10, <2>4, SteepIsPositive, FractionIs
    <2>6. MarginOf(c, y) \in Int /\ MarginOf(c, y) > 0
      BY <1>3, <1>10 DEF MarginOf, BeyondEol, IsCriterion
    <2>7. MarginOf(c, y) * rate[2] \in Int /\ MarginOf(c, y) * rate[2] > 0
      BY <2>5, <2>6, Positive
    <2>8. rul \in Fraction /\ rul[1] > 0
      BY <2>5, <2>7, QuotientIs DEF rul
    <2>9. rul # Absent /\ ~SameAs(rul, Zero)
      BY <2>8, AbsentIsNoFraction, MoreThanZero, FractionIs
    <2>10. Rounded(rate) \in Fraction
      BY <2>4, RoundedIs
    <2>11. Leaves(p, c, y, domain)
      BY <1>10, <2>2, <2>8, <2>9, <2>10 DEF Leaves, IsPrediction
    <2>12. cfg.ols => FollowsTheLine(p, c, pairs)
      BY <2>2, <2>3 DEF FollowsTheLine, rate
    <2>13. QED
      BY <2>11, <2>12 DEF p, y
  <1>11. QED
    BY <1>7, <1>8, <1>9, <1>10

IsConfig(cfg) == cfg.domain \in DOMAIN UnitOf \union {Absent} /\ cfg.ols \in BOOLEAN

LEMMA ConfigIs ==
  ASSUME Typed
  PROVE  IsConfig(job.config)
  BY JobIs DEF IsConfig

LEMMA DomainsAre ==
  /\ {"CYCLE", "TIME", "AMPERE_HOUR_THROUGHPUT", "WATT_HOUR_THROUGHPUT"} = DOMAIN UnitOf
  /\ "CYCLE" \in DOMAIN UnitOf
  BY DEF UnitOf

LEMMA ResolvedIs ==
  ASSUME NEW traj, NEW cfg, IsConfig(cfg)
  PROVE  ResolvedDomain(traj, cfg) \in DOMAIN UnitOf
  <1>1. ResolvedDomain(traj, cfg) \in
          {"CYCLE", "TIME", "AMPERE_HOUR_THROUGHPUT", "WATT_HOUR_THROUGHPUT"}
        \/ (cfg.domain # Absent /\ ResolvedDomain(traj, cfg) = cfg.domain)
    BY DEF ResolvedDomain
  <1>2. QED
    BY <1>1, DomainsAre DEF IsConfig

\* What the estimator uses of a trajectory, and the pairs it makes.
UsedOf(traj, c, cfg) == ObservationsUsed(traj, c, ResolvedDomain(traj, cfg), cfg)
LineOf(traj, c, cfg) ==
  PairsOf(UsedOf(traj, c, cfg), c, FieldOfType[c.type], ResolvedDomain(traj, cfg))

\* m observations are used.
UsesSome(traj, n, c, cfg, m) ==
  /\ m \in 0..n
  /\ IsPartOf(UsedOf(traj, c, cfg), m, traj.obs,
              {i \in 1..n : Usable(traj.obs[i], c, ResolvedDomain(traj, cfg), cfg)})
  /\ ArePairs(LineOf(traj, c, cfg), m) /\ HasSize(LineOf(traj, c, cfg), m)

LEMMA LineIs ==
  ASSUME NEW traj, NEW n, AreObservations(traj.obs, n), NEW c, IsCriterion(c), Supported(c),
         NEW cfg, IsConfig(cfg)
  PROVE  \E m : UsesSome(traj, n, c, cfg, m)
  <1> DEFINE domain == ResolvedDomain(traj, cfg)
  <1>1. domain \in DOMAIN UnitOf
    BY ResolvedIs
  <1>2. PICK m \in 0..n :
          /\ IsPartOf(UsedOf(traj, c, cfg), m, traj.obs, {i \in 1..n : Usable(traj.obs[i], c, domain, cfg)})
          /\ ArePairs(LineOf(traj, c, cfg), m)
          /\ HasSize(LineOf(traj, c, cfg), m)
    BY <1>1, UsedAre DEF UsedOf, LineOf
  <1>3. UsesSome(traj, n, c, cfg, m)
    BY <1>2 DEF UsesSome
  <1>4. QED
    BY <1>3

Estimates(p, traj, c, cfg) ==
  /\ IsPrediction(p)
  /\ p.status = "VALID" =>
       /\ Supported(c) /\ p.domain = ResolvedDomain(traj, cfg) /\ UsedOf(traj, c, cfg) # <<>>
       /\ SameAs(p.rul, Zero) <=>
            BeyondEol(c, Level(Last(UsedOf(traj, c, cfg)), c, FieldOfType[c.type]))
  /\ Supported(c) /\ cfg.ols => FollowsTheLine(p, c, LineOf(traj, c, cfg))

LEMMA EstimateIs ==
  ASSUME NEW traj, NEW n, AreObservations(traj.obs, n), NEW c, IsCriterion(c),
         NEW cfg, IsConfig(cfg)
  PROVE  Estimates(Estimate(traj, c, cfg), traj, c, cfg)
  <1> DEFINE p == Estimate(traj, c, cfg)
             domain == ResolvedDomain(traj, cfg)
             used == UsedOf(traj, c, cfg)
             field == FieldOfType[c.type]
             pairs == LineOf(traj, c, cfg)
  <1>1. CASE ~Supported(c)
    <2>1. p = NoPrediction("INSUFFICIENT_DATA", "CYCLE")
      BY <1>1 DEF Estimate
    <2>2. IsPrediction(p) /\ p.status # "VALID"
      BY <2>1, NoPredictionIs, DomainsAre DEF UsableStatuses
    <2>3. QED
      BY <1>1, <2>2 DEF Estimates
  <1>2. CASE Supported(c)
    <2>1. domain \in DOMAIN UnitOf
      BY ResolvedIs
    <2>20. PICK m : UsesSome(traj, n, c, cfg, m)
      BY <1>2, LineIs
    <2>2. m \in 0..n /\ ArePairs(pairs, m) /\ HasSize(pairs, m)
      BY <2>20 DEF UsesSome
    <2>3. HasSize(used, m)
      BY <2>20 DEF UsesSome, IsPartOf
    <2>4. p = IF pairs = <<>> THEN NoPrediction("INSUFFICIENT_DATA", domain)
              ELSE IF Len(pairs) < cfg.minObs THEN NoPrediction("INSUFFICIENT_HISTORY", domain)
              ELSE IF Last(pairs)[1] <= Head(pairs)[1] THEN NoPrediction("DATA_QUALITY_FAILED", domain)
              ELSE Extrapolated(pairs, c, domain, cfg, Last(used).context)
      BY <1>2 DEF Estimate, UsedOf, LineOf
    <2> HIDE DEF p, domain, used, pairs
    <2>5. ASSUME NEW status, status \notin UsableStatuses, p = NoPrediction(status, domain)
          PROVE  Estimates(p, traj, c, cfg)
      <3>1. IsPrediction(p) /\ p.status # "VALID" /\ p.rate = Absent
        BY <2>1, <2>5, NoPredictionIs DEF UsableStatuses
      <3>2. QED
        BY <3>1 DEF Estimates, FollowsTheLine
    <2>6. CASE p = Extrapolated(pairs, c, domain, cfg, Last(used).context) /\ pairs # <<>>
               /\ ~(Last(pairs)[1] <= Head(pairs)[1])
      <3>1. m # 0 /\ m \in 1..m /\ 1 \in 1..m /\ Last(pairs) = pairs[m] /\ Head(pairs) = pairs[1]
            /\ used # <<>> /\ Last(used) = used[m] /\ DOMAIN used = 1..m
        BY <2>2, <2>3, <2>6, SizeIs
      <3>2. pairs[m][1] > pairs[1][1]
        BY <2>2, <2>6, <3>1 DEF ArePairs
      <3>3. cfg.ols \in BOOLEAN
        BY DEF IsConfig
      <3>4. Leaves(p, c, pairs[m][2], domain) /\ (cfg.ols => FollowsTheLine(p, c, pairs))
        BY <2>1, <2>2, <2>6, <3>1, <3>2, <3>3, ExtrapolatedIs
      <3>5. pairs[m][2] = Level(Last(used), c, field)
        BY <3>1 DEF pairs, LineOf, PairsOf, used
      <3>6. IsPrediction(p) /\ p.domain = domain
            /\ (p.status = "VALID" => (SameAs(p.rul, Zero) <=> BeyondEol(c, Level(Last(used), c, field))))
        BY <3>4, <3>5 DEF Leaves
      <3>7. Estimates(p, traj, c, cfg) <=>
              /\ IsPrediction(p)
              /\ p.status = "VALID" =>
                   /\ Supported(c) /\ p.domain = domain /\ used # <<>>
                   /\ SameAs(p.rul, Zero) <=> BeyondEol(c, Level(Last(used), c, field))
              /\ Supported(c) /\ cfg.ols => FollowsTheLine(p, c, pairs)
        BY DEF Estimates, used, pairs, domain
      <3> HIDE DEF field
      <3>8. Estimates(p, traj, c, cfg)
        BY <1>2, <3>1, <3>4, <3>6, <3>7
      <3>9. QED
        BY <3>8 DEF p
    <2>7. QED
      BY <2>4, <2>5, <2>6 DEF p, UsableStatuses
  <1>3. QED
    BY <1>1, <1>2

-----------------------------------------------------------------------------
(* What is filed.                                                          *)

LEMMA GreatestOf ==
  ASSUME NEW n \in Nat, NEW T \in SUBSET (1..n), T # {}
  PROVE  Max(T) \in T
  <1> DEFINE U == {n - k : k \in T}
  <1>1. U \in SUBSET Nat /\ U # {}
    <2>1. \A k \in T : n - k \in Nat
      OBVIOUS
    <2>2. U \in SUBSET Nat
      BY ONLY <2>1
    <2>3. PICK k : k \in T
      OBVIOUS
    <2>4. n - k \in U
      BY ONLY <2>3
    <2>5. QED
      BY ONLY <2>2, <2>4
  <1>2. PICK u \in U : \A v \in U : u <= v
    BY <1>1, LeastNumber
  <1>3. PICK m \in T : u = n - m
    OBVIOUS
  <1>4. \A k \in T : n - m <= n - k
    BY <1>2, <1>3
  <1>5. \A k \in T : m >= k
    BY <1>4
  <1>6. \E x \in T : \A y \in T : x >= y
    BY <1>5
  <1>7. QED
    BY <1>6 DEF Max

LEMMA NothingBefore ==
  ASSUME NEW m, NEW n, HasSize(m, n)
  PROVE  <<>> \o m = m
  <1> DEFINE w == [k \in 1..n |-> m[k]]
  <1>1. n \in Nat /\ m = w
    BY DEF HasSize
  <1>2. w \in Seq({m[k] : k \in 1..n})
    BY <1>1
  <1> HIDE DEF w
  <1>3. <<>> \o w = w
    BY <1>2
  <1>4. QED
    BY <1>1, <1>3

LEMMA PartsAre ==
  ASSUME Typed
  PROVE  \E n \in Nat \ {0} : HasSize(job.parts, n)
  <1> DEFINE p == job.parts
             n == Len(p)
  <1>1. p \in Seq(ToSet(p)) \ {<<>>}
    BY JobIs
  <1> HIDE DEF p
  <1>2. n \in Nat /\ n # 0 /\ p = [k \in 1..n |-> p[k]]
    BY <1>1
  <1>3. QED
    BY <1>2 DEF HasSize, p

LEMMA PutIs ==
  ASSUME Typed
  PROVE  \E n \in Nat \ {0} :
           DOMAIN Put = 1..n /\ \A i \in 1..n : \E j \in DOMAIN job.parts : Put[i].part = job.parts[j]
  <1>1. PICK m \in Nat \ {0} : HasSize(job.parts, m)
    BY PartsAre
  <1>2. DOMAIN job.parts = 1..m /\ Len(job.parts) = m
    BY <1>1, SizeIs
  <1>3. CASE job.mapping
    <2>1. Put = [i \in 1..m |-> [key |-> job.parts[i].key, part |-> job.parts[i]]]
      BY <1>2, <1>3 DEF Put
    <2>2. QED
      BY <1>2, <2>1
  <1>4. CASE ~job.mapping
    <2>1. Put = [i \in 1..2 * m |->
                   LET part == job.parts[(i + 1) \div 2]
                   IN [key |-> IF i % 2 = 0 THEN part.key ELSE TypeOfPart(part), part |-> part]]
      BY <1>2, <1>4 DEF Put
    <2>2. \A i \in 1..2 * m : (i + 1) \div 2 \in 1..m
      OBVIOUS
    <2>3. \A i \in 1..2 * m : Put[i].part = job.parts[(i + 1) \div 2]
      BY <2>1
    <2>4. 2 * m \in Nat \ {0} /\ DOMAIN Put = 1..2 * m
      BY <2>1
    <2>5. QED
      BY <1>2, <2>2, <2>3, <2>4
  <1>5. QED
    BY <1>3, <1>4

SameKey(i) == {j \in DOMAIN Put : Put[j].key = Put[i].key}
Slots == {i \in DOMAIN Put : i = Min(SameKey(i))}

\* What is filed is what the list of the slots says, of any records.
FiledAs(q, n) ==
  /\ n \in Nat \ {0} /\ q \in [1..n -> DOMAIN Put]
  /\ \A k \in 1..n : \E j \in DOMAIN job.parts : Put[Max(SameKey(q[k]))].part = job.parts[j]
  /\ \A records :
       Filed(records) = [k \in 1..n |->
         [key |-> Put[q[k]].key, traj |-> TrajectoryOf(Put[Max(SameKey(q[k]))].part, records)]]

LEMMA SlotsAre ==
  ASSUME Typed
  PROVE  /\ Slots \in SUBSET Nat /\ IsFiniteSet(Slots) /\ Slots # {}
         /\ \A i \in DOMAIN Put : \E j \in DOMAIN job.parts : Put[Max(SameKey(i))].part = job.parts[j]
  <1>1. PICK n \in Nat \ {0} :
          DOMAIN Put = 1..n /\ \A i \in 1..n : \E j \in DOMAIN job.parts : Put[i].part = job.parts[j]
    BY PutIs
  <1>2. Slots \in SUBSET (1..n) /\ (1..n) \in SUBSET Nat
    BY <1>1 DEF Slots
  <1>3. IsFiniteSet(1..n)
    BY FS_Interval
  <1>4. IsFiniteSet(Slots)
    BY <1>2, <1>3, FS_Subset
  <1>5. \A i \in 1..n : SameKey(i) \in SUBSET (1..n) /\ i \in SameKey(i)
    BY <1>1 DEF SameKey
  <1>6. Slots # {}
    <2> DEFINE i == Min(SameKey(1))
    <2>1. 1 \in 1..n
      OBVIOUS
    <2>2. SameKey(1) \in SUBSET Nat /\ SameKey(1) # {}
      BY <1>2, <1>5, <2>1
    <2>3. i \in SameKey(1)
      BY <2>2, LeastOf
    <2> HIDE DEF i
    <2>4. i \in DOMAIN Put /\ Put[i].key = Put[1].key
      BY <2>3 DEF SameKey
    <2>5. SameKey(i) = SameKey(1)
      BY <2>4 DEF SameKey
    <2>6. i \in Slots
      BY <2>4, <2>5 DEF Slots, i
    <2>7. QED
      BY <2>6
  <1>7. ASSUME NEW i \in 1..n
        PROVE  \E j \in DOMAIN job.parts : Put[Max(SameKey(i))].part = job.parts[j]
    <2>1. SameKey(i) \in SUBSET (1..n) /\ SameKey(i) # {}
      BY <1>5
    <2>2. Max(SameKey(i)) \in 1..n
      BY <2>1, GreatestOf
    <2>3. QED
      BY <1>1, <2>2
  <1>8. QED
    BY <1>1, <1>2, <1>4, <1>6, <1>7

LEMMA FiledIs ==
  ASSUME Typed
  PROVE  \E n, q : FiledAs(q, n)
  <1>1. Slots \in SUBSET Nat /\ IsFiniteSet(Slots) /\ Slots # {}
    BY SlotsAre
  <1>2. PICK n, q : n \in Nat /\ Picks(q, n, Slots)
    BY <1>1, PickedIs
  <1>3. /\ Lists(q, n, Slots, Upwards(Slots))
        /\ \A s : Picked(s, Slots) = [k \in 1..n |-> s[q[k]]]
    BY <1>2 DEF Picks
  <1>4. q \in [1..n -> Slots] /\ \A i \in Slots : \E k \in 1..n : q[k] = i
    BY <1>3 DEF Lists
  <1>5. n # 0
    <2>1. PICK i \in Slots : TRUE
      BY <1>1
    <2>2. PICK k \in 1..n : q[k] = i
      BY <1>4
    <2>3. QED
      BY <1>2, <2>2
  <1>6. Slots \in SUBSET (DOMAIN Put)
    BY DEF Slots
  <1>7. q \in [1..n -> DOMAIN Put]
    BY <1>4, <1>6
  <1>8. ASSUME NEW records
        PROVE  Filed(records) = [k \in 1..n |->
                 [key |-> Put[q[k]].key, traj |-> TrajectoryOf(Put[Max(SameKey(q[k]))].part, records)]]
    <2> DEFINE Under(i) == [key |-> Put[i].key, traj |-> TrajectoryOf(Put[Max(SameKey(i))].part, records)]
               s == [i \in DOMAIN Put |-> Under(i)]
    <2>1. Filed(records) = <<>> \o Picked(s, Slots)
      BY DEF Filed, Slots, SameKey
    <2> HIDE DEF s
    <2>2. Picked(s, Slots) = [k \in 1..n |-> s[q[k]]]
      BY <1>3
    <2>3. HasSize(Picked(s, Slots), n)
      BY <1>2, <2>2 DEF HasSize
    <2>4. Filed(records) = [k \in 1..n |-> s[q[k]]]
      BY <2>1, <2>2, <2>3, NothingBefore
    <2>5. \A k \in 1..n : s[q[k]] = Under(q[k])
      BY <1>7 DEF s
    <2> HIDE DEF Under
    <2>6. Filed(records) = [k \in 1..n |-> Under(q[k])]
      BY <2>4, <2>5
    <2>7. QED
      BY <2>6 DEF Under
  <1>9. \A k \in 1..n : \E j \in DOMAIN job.parts : Put[Max(SameKey(q[k]))].part = job.parts[j]
    BY <1>7, SlotsAre
  <1>10. QED
    BY <1>2, <1>5, <1>7, <1>8, <1>9 DEF FiledAs

\* The first of some places, 0 when there is none.
FirstIn(T) == IF T # {} THEN Min(T) ELSE 0
WithId(filed, c) == FirstIn({k \in 1..Len(filed) : filed[k].key = c.id})
UnderType(filed, c) == FirstIn({k \in 1..Len(filed) : filed[k].key = TypeExpected(c)})
Serving(filed, c) == FirstIn({k \in 1..Len(filed) : Serves(filed[k].traj, c)})
OfType(filed, c) == FirstIn({k \in 1..Len(filed) : filed[k].traj.type = TypeExpected(c)})

LEMMA FirstInIs ==
  ASSUME NEW n \in Nat, NEW T \in SUBSET (1..n)
  PROVE  FirstIn(T) \in 0..n /\ (FirstIn(T) = 0 <=> T = {}) /\ (T # {} => FirstIn(T) \in T)
  <1>1. T \in SUBSET Nat
    OBVIOUS
  <1>2. T # {} => Min(T) \in T
    BY <1>1, LeastOf
  <1>3. CASE T = {}
    BY <1>3 DEF FirstIn
  <1>4. CASE T # {}
    <2>1. FirstIn(T) \in T
      BY <1>2, <1>4 DEF FirstIn
    <2>2. FirstIn(T) \in 1..n
      BY <2>1
    <2>3. QED
      BY <1>4, <2>1, <2>2
  <1>5. QED
    BY <1>3, <1>4

LEMMA FoundIs ==
  ASSUME NEW a \in Nat, NEW b \in Nat, NEW d \in Nat, NEW e \in Nat
  PROVE  FirstIn({i \in 1..4 : <<a, b, d, e>>[i] # 0}) =
           IF a # 0 THEN 1 ELSE IF b # 0 THEN 2 ELSE IF d # 0 THEN 3 ELSE IF e # 0 THEN 4 ELSE 0
  <1> DEFINE T == {i \in 1..4 : <<a, b, d, e>>[i] # 0}
  <1>1. /\ 1 \in T <=> a # 0
        /\ 2 \in T <=> b # 0
        /\ 3 \in T <=> d # 0
        /\ 4 \in T <=> e # 0
    OBVIOUS
  <1>2. T \in SUBSET Nat /\ \A i \in T : i = 1 \/ i = 2 \/ i = 3 \/ i = 4
    OBVIOUS
  <1> HIDE DEF T
  <1>3. T # {} => Min(T) \in T /\ \A k \in T : Min(T) <= k
    BY <1>2, LeastOf
  <1> DEFINE found == IF a # 0 THEN 1 ELSE IF b # 0 THEN 2 ELSE IF d # 0 THEN 3
                      ELSE IF e # 0 THEN 4 ELSE 0
  <1>4. CASE T = {}
    <2>1. FirstIn(T) = 0
      BY <1>4 DEF FirstIn
    <2>2. found = 0
      BY <1>1, <1>4
    <2>3. QED
      BY <2>1, <2>2 DEF T
  <1>5. CASE T # {}
    <2>1. FirstIn(T) = Min(T)
      BY <1>5 DEF FirstIn
    <2>2. Min(T) \in T /\ \A k \in T : Min(T) <= k
      BY <1>3, <1>5
    <2>3. Min(T) = 1 \/ Min(T) = 2 \/ Min(T) = 3 \/ Min(T) = 4
      BY <1>2, <2>2
    <2>4. /\ 1 \in T => Min(T) <= 1
          /\ 2 \in T => Min(T) <= 2
          /\ 3 \in T => Min(T) <= 3
      BY <2>2
    <2>5. found = Min(T)
      <3>1. CASE Min(T) = 1
        BY <1>1, <2>2, <3>1
      <3>2. CASE Min(T) = 2
        BY <1>1, <2>2, <2>4, <3>2
      <3>3. CASE Min(T) = 3
        BY <1>1, <2>2, <2>4, <3>3
      <3>4. CASE Min(T) = 4
        BY <1>1, <2>2, <2>4, <3>4
      <3>5. QED
        BY <2>3, <3>1, <3>2, <3>3, <3>4
    <2>6. QED
      BY <2>1, <2>5 DEF T
  <1>6. QED
    BY <1>4, <1>5

LEMMA MatchIs ==
  ASSUME NEW filed, NEW n, HasSize(filed, n), NEW c
  PROVE  /\ Match(filed, c) =
              IF WithId(filed, c) # 0 THEN WithId(filed, c)
              ELSE IF UnderType(filed, c) # 0 THEN UnderType(filed, c)
              ELSE IF Serving(filed, c) # 0 THEN Serving(filed, c)
              ELSE OfType(filed, c)
         /\ WithId(filed, c) \in 0..n /\ UnderType(filed, c) \in 0..n
         /\ Serving(filed, c) \in 0..n /\ OfType(filed, c) \in 0..n
  <1> DEFINE a == WithId(filed, c)
             b == UnderType(filed, c)
             d == Serving(filed, c)
             e == OfType(filed, c)
             places == <<a, b, d, e>>
             found == FirstIn({i \in 1..Len(places) : places[i] # 0})
  <1>1. n \in Nat /\ Len(filed) = n
    BY SizeIs
  <1>2. a \in 0..n /\ b \in 0..n /\ d \in 0..n /\ e \in 0..n
    BY <1>1, FirstInIs DEF WithId, UnderType, Serving, OfType
  <1>3. Match(filed, c) = IF found = 0 THEN 0 ELSE places[found]
    BY DEF Match, SelectInSeq, WithId, UnderType, Serving, OfType, FirstIn
  <1> HIDE DEF a, b, d, e
  <1>4. found = FirstIn({i \in 1..4 : <<a, b, d, e>>[i] # 0})
    OBVIOUS
  <1>5. a \in Nat /\ b \in Nat /\ d \in Nat /\ e \in Nat
    BY <1>1, <1>2
  <1>6. found = IF a # 0 THEN 1 ELSE IF b # 0 THEN 2 ELSE IF d # 0 THEN 3 ELSE IF e # 0 THEN 4 ELSE 0
    BY <1>4, <1>5, FoundIs
  <1>7. places[1] = a /\ places[2] = b /\ places[3] = d /\ places[4] = e
    OBVIOUS
  <1> HIDE DEF found, places
  <1>8. Match(filed, c) = IF a # 0 THEN a ELSE IF b # 0 THEN b ELSE IF d # 0 THEN d ELSE e
    BY <1>3, <1>6, <1>7
  <1>9. QED
    BY <1>2, <1>8 DEF a, b, d, e

-----------------------------------------------------------------------------
(* The invariant: a report is the assessment of the history at hand.       *)

Assessed ==
  \/ report.status = "NONE"
  \/ report.status = "RAISED"
  \/ report = Assessment(history) /\ ~Raises(history)

\* The induction hypothesis.
IInv == Typed /\ (\E n : AreRecords(history, n)) /\ Assessed

\* t is s and one more.
Extends(t, s, n, e) ==
  /\ HasSize(t, n + 1) /\ t[n + 1] = e /\ Last(t) = e
  /\ \A k \in 1..n : t[k] = s[k]

LEMMA AppendIs ==
  ASSUME NEW m, NEW n, HasSize(m, n), NEW e
  PROVE  Extends(Append(m, e), m, n, e)
  <1> DEFINE w == [k \in 1..n |-> m[k]]
             T == {m[k] : k \in 1..n} \union {e}
             a == Append(w, e)
  <1>1. n \in Nat /\ m = w
    BY DEF HasSize
  <1>2. w \in Seq(T) /\ e \in T /\ Len(w) = n
    BY <1>1
  <1>3. \A k \in 1..n : w[k] = m[k]
    OBVIOUS
  <1> HIDE DEF w, T
  <1>4. a \in Seq(T) /\ Len(a) = n + 1 /\ a[n + 1] = e /\ \A k \in 1..n : a[k] = w[k]
    BY <1>1, <1>2
  <1> HIDE DEF a
  <1>5. a = [k \in 1..n + 1 |-> a[k]]
    <2>1. a \in [1..n + 1 -> T]
      BY <1>4
    <2>2. QED
      BY <2>1
  <1>6. HasSize(a, n + 1) /\ Last(a) = e
    BY <1>1, <1>4, <1>5 DEF HasSize, Last
  <1>7. QED
    BY <1>1, <1>3, <1>4, <1>6 DEF a, Extends

LEMMA InitIsAssessed == Init => IInv
  <1> SUFFICES ASSUME Init PROVE IInv
    OBVIOUS
  <1>1. Typed /\ history = <<>> /\ report.status = "NONE"
    BY DEF Init, Typed
  <1>2. AreRecords(<<>>, 0)
    BY DEF AreRecords, HasSize
  <1>3. QED
    BY <1>1, <1>2 DEF IInv, Assessed

\* Without another record, the assessment is the same.
LEMMA SameAssessment ==
  ASSUME UNCHANGED <<job, history>>
  PROVE  Assessment(history)' = Assessment(history) /\ Raises(history)' = Raises(history)
  <1>1. job' = job /\ history' = history
    OBVIOUS
  <1>2. Put' = Put
    BY <1>1 DEF Put, TypeOfPart
  <1>3. \A part, records : TrajectoryOf(part, records)' = TrajectoryOf(part, records)
    BY <1>1 DEF TrajectoryOf
  <1>4. Filed(history)' = Filed(history)
    BY <1>1, <1>2, <1>3 DEF Filed
  <1>5. \A c : PolicyOf(c)' = PolicyOf(c)
    BY <1>1 DEF PolicyOf
  <1>6. \A filed, c : EvaluationOf(filed, c)' = EvaluationOf(filed, c)
    BY <1>1 DEF EvaluationOf
  <1>7. \A filed, c : BundleOf(filed, c)' = BundleOf(filed, c)
    BY <1>5, <1>6 DEF BundleOf, Bundle
  <1>8. \A primary : FeaturesOf(primary)' = FeaturesOf(primary)
    BY <1>1 DEF FeaturesOf
  <1>9. \A filed, bundles : ReportOn(filed, bundles)' = ReportOn(filed, bundles)
    BY <1>1, <1>8 DEF ReportOn, Report
  <1>10. Assessment(history)' = Assessment(history)
    BY <1>1, <1>4, <1>7, <1>9 DEF Assessment
  <1>11. \A part, records : Extracts(part, records)' = Extracts(part, records)
    BY <1>1 DEF Extracts
  <1>12. Prepared(history)' = Prepared(history)
    BY <1>1, <1>5, <1>11 DEF Prepared
  <1>13. \A filed, c : EvaluationRaises(filed, c)' = EvaluationRaises(filed, c)
    BY <1>1 DEF EvaluationRaises
  <1>14. Raises(history)' = Raises(history)
    BY <1>1, <1>4, <1>12, <1>13 DEF Raises
  <1>15. QED
    BY <1>10, <1>14

LEMMA StepIsAssessed == IInv /\ [Next]_vars => IInv'
  <1> SUFFICES ASSUME IInv, [Next]_vars PROVE IInv'
    OBVIOUS
  <1>1. CASE Record
    <2>1. Typed' /\ job' = job
      BY <1>1 DEF Record, IInv, Typed
    <2>2. report'.status = "NONE"
      BY <1>1 DEF Record
    <2>3. PICK n : AreRecords(history, n)
      BY DEF IInv
    <2>4. PICK r \in job.alphabet : history' = Append(history, r)
      BY <1>1 DEF Record
    <2>5. HasSize(history, n) /\ n \in Nat /\ \A i \in 1..n : history[i] \in job.alphabet
      BY <2>3, SizeIs DEF AreRecords
    <2>10. Extends(Append(history, r), history, n, r)
      BY <2>5, AppendIs
    <2>6. HasSize(history', n + 1) /\ history'[n + 1] = r /\ \A i \in 1..n : history'[i] = history[i]
      BY <2>4, <2>10 DEF Extends
    <2>7. \A i \in 1..n + 1 : history'[i] \in job'.alphabet
      BY <2>1, <2>5, <2>6
    <2>8. AreRecords(history, n + 1)'
      BY <2>6, <2>7 DEF AreRecords
    <2>9. QED
      BY <2>1, <2>2, <2>8 DEF IInv, Assessed
  <1>2. CASE Assess
    <2>1. job' = job /\ history' = history
      BY <1>2 DEF Assess
    <2>2. Typed' /\ (\E n : AreRecords(history, n))'
      BY <2>1 DEF IInv, Typed, AreRecords
    <2>3. Assessment(history)' = Assessment(history) /\ Raises(history)' = Raises(history)
      BY <2>1, SameAssessment
    <2>4. report' = IF Raises(history) THEN [status |-> "RAISED"] ELSE Assessment(history)
      BY <1>2 DEF Assess
    <2>5. Assessed'
      <3>1. CASE Raises(history)
        BY <2>4, <3>1 DEF Assessed
      <3>2. CASE ~Raises(history)
        BY <2>1, <2>3, <2>4, <3>2 DEF Assessed
      <3>3. QED
        BY <3>1, <3>2
    <2>6. QED
      BY <2>2, <2>5 DEF IInv
  <1>3. CASE UNCHANGED vars
    <2>1. job' = job /\ history' = history /\ report' = report
      BY <1>3 DEF vars
    <2>2. Typed' /\ (\E n : AreRecords(history, n))'
      BY <2>1 DEF IInv, Typed, AreRecords
    <2>3. Assessment(history)' = Assessment(history) /\ Raises(history)' = Raises(history)
      BY <2>1, SameAssessment
    <2>4. Assessed'
      BY <2>1, <2>3 DEF IInv, Assessed
    <2>5. QED
      BY <2>2, <2>4 DEF IInv
  <1>4. QED
    BY <1>1, <1>2, <1>3 DEF Next

\* What is reported is never of an older history: every record takes the report
\* away, and a report is the assessment of all the records, which raises neither
\* for what is missing nor in the uncertainty engine.
THEOREM ReportsAreOfTheHistory == Spec => []IInv
  <1>1. QED
    BY InitIsAssessed, StepIsAssessed, PTL DEF Spec

\* The parts of a report.
LEMMA ReportIs ==
  ASSUME IInv, Reported
  PROVE  /\ ~Raises(history) /\ Typed
         /\ report.bundles = [i \in DOMAIN job.portfolio |-> BundleOf(Filed(history), job.portfolio[i])]
         /\ report.limiting = Resolve(report.bundles, job.config.strategy, job.config.fallback)
         /\ report.decision = PrimaryDecision(report.bundles, report.limiting)
         /\ report.status = PipelineStatus(report.bundles, report.limiting)
         /\ report.features = FeaturesOf(Filed(history)[1].traj)
  <1>1. Typed /\ ~Raises(history) /\ report = Assessment(history)
    BY DEF IInv, Assessed, Reported
  <1> DEFINE filed == Filed(history)
             bundles == [i \in DOMAIN job.portfolio |-> BundleOf(filed, job.portfolio[i])]
             limiting == Resolve(bundles, job.config.strategy, job.config.fallback)
  <1>2. report = Report(filed, bundles, limiting)
    BY <1>1 DEF Assessment, ReportOn
  <1> HIDE DEF filed, bundles, limiting
  <1>3. /\ report.bundles = bundles /\ report.limiting = limiting
        /\ report.decision = PrimaryDecision(bundles, limiting)
        /\ report.status = PipelineStatus(bundles, limiting)
        /\ report.features = FeaturesOf(filed[1].traj)
    BY <1>2 DEF Report
  <1>4. QED
    BY <1>1, <1>3 DEF filed, bundles, limiting

LEMMA FiledTyped ==
  ASSUME Typed, NEW records, NEW n, AreRecords(records, n),
         \A i \in DOMAIN job.parts : Extracts(job.parts[i], records)
  PROVE  \E m \in Nat \ {0} :
           /\ HasSize(Filed(records), m)
           /\ \A k \in 1..m : AreObservations(Filed(records)[k].traj.obs, n)
           /\ \A c : Match(Filed(records), c) \in 0..m
  <1> DEFINE filed == Filed(records)
  <1>1. PICK m, q : FiledAs(q, m)
    BY FiledIs
  <1>2. m \in Nat \ {0} /\ q \in [1..m -> DOMAIN Put]
    BY <1>1 DEF FiledAs
  <1>3. filed = [k \in 1..m |->
          [key |-> Put[q[k]].key, traj |-> TrajectoryOf(Put[Max(SameKey(q[k]))].part, records)]]
    BY <1>1 DEF FiledAs
  <1>4. \A k \in 1..m : \E j \in DOMAIN job.parts : Put[Max(SameKey(q[k]))].part = job.parts[j]
    BY <1>1 DEF FiledAs
  <1> HIDE DEF filed
  <1>5. HasSize(filed, m)
    BY <1>2, <1>3 DEF HasSize
  <1>6. ASSUME NEW k \in 1..m
        PROVE  AreObservations(filed[k].traj.obs, n)
    <2>1. PICK j \in DOMAIN job.parts : Put[Max(SameKey(q[k]))].part = job.parts[j]
      BY <1>4
    <2>2. filed[k].traj = TrajectoryOf(job.parts[j], records)
      BY <1>3, <2>1
    <2>3. IsPart(job.parts[j], job.form)
      BY <2>1, JobIs
    <2>4. QED
      BY <2>2, <2>3, TrajectoryTyped
  <1>7. ASSUME NEW c
        PROVE  Match(filed, c) \in 0..m
    BY <1>5, MatchIs
  <1>8. QED
    BY <1>2, <1>5, <1>6, <1>7 DEF filed

\* A bundle is made of its criterion, and of the estimate of what it is matched with.
LEMMA BundleIs ==
  ASSUME NEW filed, NEW c
  PROVE  /\ BundleOf(filed, c).criterion = c
         /\ BundleOf(filed, c).evaluation = EvaluationOf(filed, c)
         /\ BundleOf(filed, c).decision = Decide(EvaluationOf(filed, c), PolicyOf(c))
  BY DEF BundleOf, Bundle

LEMMA EvaluationIs ==
  ASSUME NEW traj, NEW c, NEW cfg
  PROVE  LET e == Evaluate(traj, c, cfg)
             p == Estimate(traj, c, cfg) IN
         /\ e.prediction = p
         /\ e.eol = EolAssessment(traj, c, p)
         /\ e.status = EvaluationStatus(p, e.eol, e.uncertainty)
         /\ e.usable = (e.status \in UsableStatuses)
  <1> DEFINE p == Estimate(traj, c, cfg)
             l == EolAssessment(traj, c, p)
             u == EvaluateUncertainty(p, traj, c, cfg)
  <1>1. Evaluate(traj, c, cfg) = Evaluation(p, l, u)
    BY DEF Evaluate
  <1> HIDE DEF p, l, u
  <1>2. /\ Evaluation(p, l, u).prediction = p /\ Evaluation(p, l, u).eol = l
        /\ Evaluation(p, l, u).uncertainty = u
        /\ Evaluation(p, l, u).status = EvaluationStatus(p, l, u)
        /\ Evaluation(p, l, u).usable = (EvaluationStatus(p, l, u) \in UsableStatuses)
    BY DEF Evaluation
  <1>3. QED
    BY <1>1, <1>2 DEF p, l

LEMMA MissingIs ==
  /\ MissingData.status = "INSUFFICIENT_DATA" /\ MissingData.prediction.status = "INSUFFICIENT_DATA"
  /\ MissingData.prediction.rul = Absent /\ MissingData.prediction.rate = Absent
  /\ MissingData.eol = Eol("INDETERMINATE", Absent) /\ MissingData.usable = FALSE
  BY DEF MissingData, NoPrediction, Prediction

\* The end of life of a trajectory whose last observation is used.
LEMMA EolIs ==
  ASSUME NEW traj, NEW c, Aligned(c), NEW p, traj.obs # <<>>,
         NEW y, y = Level(Last(traj.obs), c, FieldOfType[c.type]), y # Absent
  PROVE  EolAssessment(traj, c, p).state = "ALREADY_REACHED" <=> BeyondEol(c, y)
  <1>1. Supported(c) /\ ~ThresholdInvalid(c)
        /\ c.op = IF Decreasing(c) THEN "LESS_THAN_OR_EQUAL" ELSE "GREATER_THAN_OR_EQUAL"
    BY DEF Aligned
  <1>2. CurrentValue(traj, c) = y
    BY <1>1, FieldOfTypeIs DEF CurrentValue
  <1>3. Satisfies(y, c.op, c.threshold) <=> BeyondEol(c, y)
    BY <1>1 DEF Satisfies, BeyondEol
  <1>4. EolAssessment(traj, c, p) =
          Eol(IF Satisfies(y, c.op, c.threshold) THEN "ALREADY_REACHED"
              ELSE IF p.rul # Absent THEN "PROJECTED" ELSE "NOT_REACHED", Abs(y - c.threshold))
    BY <1>1, <1>2 DEF EolAssessment
  <1>5. QED
    BY <1>3, <1>4 DEF Eol

\* In every report the end of life is reached exactly when no life remains: the
\* estimator, which reads a line, and the evaluator, which reads the last
\* observation, agree.  Criteria the uncertainty engine raises for are in none.
THEOREM EndsOfLifeAgree == Spec => []EolAgreesWithRul
  <1>1. ASSUME IInv PROVE EolAgreesWithRul
    <2> SUFFICES ASSUME Reported, job.config.cutoff = Absent, NEW b \in BundlesOf,
                        Aligned(b.criterion), b.evaluation.prediction.status = "VALID",
                        Last(ObservationsUsed(Filed(history)[Match(Filed(history), b.criterion)].traj,
                               b.criterion, b.evaluation.prediction.domain, job.config))
                          = Last(Filed(history)[Match(Filed(history), b.criterion)].traj.obs)
                 PROVE  SameAs(b.evaluation.prediction.rul, Zero)
                          <=> b.evaluation.eol.state = "ALREADY_REACHED"
      BY DEF EolAgreesWithRul
    <2> DEFINE c == b.criterion
               e == b.evaluation
               filed == Filed(history)
               traj == filed[Match(filed, c)].traj
               domain == ResolvedDomain(traj, job.config)
               used == UsedOf(traj, c, job.config)
    <2>1. PICK n : AreRecords(history, n)
      BY <1>1 DEF IInv
    <2>2. Typed /\ ~Raises(history)
          /\ report.bundles = [i \in DOMAIN job.portfolio |-> BundleOf(filed, job.portfolio[i])]
      BY <1>1, ReportIs
    <2>3. PICK i \in DOMAIN job.portfolio : b = BundleOf(filed, job.portfolio[i])
      BY <2>2 DEF BundlesOf
    <2>4. c = job.portfolio[i] /\ e = EvaluationOf(filed, c)
      BY <2>3, BundleIs
    <2>5. IsCriterion(c) /\ IsConfig(job.config)
      BY <2>2, <2>3, <2>4, CriteriaAre, ConfigIs
    <2>6. Match(filed, c) # 0 /\ traj.obs # <<>> /\ e = Evaluate(traj, c, job.config)
      BY <2>4, MissingIs DEF EvaluationOf
    <2>7. \A j \in DOMAIN job.parts : Extracts(job.parts[j], history)
      BY <2>2 DEF Raises, Prepared
    <2>8. AreObservations(traj.obs, n)
      <3>1. PICK m \in Nat \ {0} :
              /\ HasSize(filed, m)
              /\ \A k \in 1..m : AreObservations(filed[k].traj.obs, n)
              /\ \A d : Match(filed, d) \in 0..m
        BY <2>1, <2>2, <2>7, FiledTyped
      <3>2. Match(filed, c) \in 1..m
        BY <2>6, <3>1
      <3>3. QED
        BY <3>1, <3>2
    <2>9. e.prediction = Estimate(traj, c, job.config) /\ e.eol = EolAssessment(traj, c, e.prediction)
      BY <2>6, EvaluationIs
    <2>10. Estimates(e.prediction, traj, c, job.config)
      BY <2>5, <2>8, <2>9, EstimateIs
    <2>11. /\ Supported(c) /\ e.prediction.domain = domain /\ used # <<>>
           /\ SameAs(e.prediction.rul, Zero) <=> BeyondEol(c, Level(Last(used), c, FieldOfType[c.type]))
      BY <2>10 DEF Estimates
    <2>12. used = ObservationsUsed(traj, c, e.prediction.domain, job.config)
           /\ Last(used) = Last(traj.obs)
      BY <2>11 DEF UsedOf
    <2> HIDE DEF used
    <2>13. Level(Last(used), c, FieldOfType[c.type]) # Absent
      <3>1. PICK m : UsesSome(traj, n, c, job.config, m)
        BY <2>5, <2>8, <2>11, LineIs
      <3>2. IsPartOf(used, m, traj.obs, {k \in 1..n : Usable(traj.obs[k], c, domain, job.config)})
        BY <3>1 DEF used, UsesSome
      <3>3. HasSize(used, m)
        BY <3>2 DEF IsPartOf
      <3>4. m # 0 /\ m \in 1..m /\ Last(used) = used[m]
        BY <2>11, <3>3, SizeIs
      <3>5. PICK k \in {k \in 1..n : Usable(traj.obs[k], c, domain, job.config)} : used[m] = traj.obs[k]
        BY <3>2, <3>4 DEF IsPartOf
      <3>6. Usable(used[m], c, domain, job.config)
        BY <3>5
      <3>7. QED
        BY <3>4, <3>6 DEF Usable
    <2>14. e.eol.state = "ALREADY_REACHED" <=> BeyondEol(c, Level(Last(traj.obs), c, FieldOfType[c.type]))
      BY <2>6, <2>9, <2>12, <2>13, EolIs
    <2>15. QED
      BY <2>11, <2>12, <2>14
  <1>2. QED
    BY <1>1, InitIsAssessed, StepIsAssessed, PTL DEF Spec

-----------------------------------------------------------------------------
(* The limiting criterion.                                                 *)

IsBundle(b) ==
  /\ b.criterion.id # Absent /\ b.criterion.alpha \in Int
  /\ RulOf(b) \in Fraction \union {Absent} /\ DistanceOf(b) \in Int \union {Absent}
  /\ Urgency(b) \in Int
  /\ b.evaluation.usable <=> b.evaluation.status \in UsableStatuses
  /\ b.evaluation.usable => RulOf(b) # Absent

LEMMA PlaceInIs ==
  ASSUME NEW ranking, NEW n, HasSize(ranking, n), NEW x
  PROVE  PlaceIn(ranking, x) \in Int
  <1> DEFINE T == {i \in 1..Len(ranking) : ranking[i] = x}
  <1>1. n \in Nat /\ Len(ranking) = n
    BY SizeIs
  <1>2. PlaceIn(ranking, x) = FirstIn(T)
    BY DEF PlaceIn, SelectInSeq, FirstIn
  <1>3. FirstIn(T) \in 0..n
    BY <1>1, FirstInIs
  <1>4. QED
    BY <1>1, <1>2, <1>3

LEMMA UrgencyIs ==
  ASSUME NEW b
  PROVE  Urgency(b) \in Int
  <1>1. HasSize(Priorities, 5) /\ HasSize(Classes, 10)
    BY DEF Priorities, Classes, HasSize
  <1>2. \A x : PlaceIn(Priorities, x) \in Int /\ PlaceIn(Classes, x) \in Int
    BY <1>1, PlaceInIs
  <1>3. QED
    BY <1>2 DEF Urgency

LEMMA DistanceIs ==
  ASSUME NEW traj, NEW n, AreObservations(traj.obs, n), NEW c, IsCriterion(c), NEW p
  PROVE  EolAssessment(traj, c, p).distance \in Int \union {Absent}
  <1> DEFINE value == CurrentValue(traj, c)
  <1>1. CASE traj.obs = <<>> \/ ThresholdInvalid(c) \/ value = Absent
    BY <1>1 DEF EolAssessment, Eol
  <1>2. CASE ~(traj.obs = <<>> \/ ThresholdInvalid(c) \/ value = Absent)
    <2>1. n # 0 /\ Last(traj.obs) = traj.obs[n] /\ n \in 1..n
      BY <1>2, SizeIs DEF AreObservations
    <2>2. IsObservation(Last(traj.obs))
      BY <2>1 DEF AreObservations
    <2>3. FieldOf(c) \in Fields
      BY DEF FieldOf, Fields, Quantities, FieldOfType, Supported
    <2>4. value \in Observable
      BY <2>2, <2>3, LevelIs DEF CurrentValue
    <2>5. value \in Int /\ c.threshold \in Int
      BY <1>2, <2>4 DEF Observable, IsCriterion
    <2> HIDE DEF value
    <2>6. Abs(value - c.threshold) \in Int
      BY <2>5 DEF Abs
    <2>7. EolAssessment(traj, c, p).distance = Abs(value - c.threshold)
      BY <1>2 DEF EolAssessment, Eol, value
    <2>8. QED
      BY <2>6, <2>7
  <1>3. QED
    BY <1>1, <1>2

LEMMA StatusIs ==
  ASSUME NEW p, IsPrediction(p), NEW l, NEW u
  PROVE  EvaluationStatus(p, l, u) \in UsableStatuses => p.rul # Absent
  BY DEF EvaluationStatus, IsPrediction, UsableStatuses

LEMMA EvaluateTyped ==
  ASSUME NEW traj, NEW n, AreObservations(traj.obs, n), NEW c, IsCriterion(c), NEW cfg, IsConfig(cfg)
  PROVE  LET e == Evaluate(traj, c, cfg) IN
         /\ e.prediction.rul \in Fraction \union {Absent}
         /\ e.eol.distance \in Int \union {Absent}
         /\ e.usable <=> e.status \in UsableStatuses
         /\ e.usable => e.prediction.rul # Absent
  <1> DEFINE e == Evaluate(traj, c, cfg)
             p == Estimate(traj, c, cfg)
  <1>1. /\ e.prediction = p /\ e.eol = EolAssessment(traj, c, p)
        /\ e.status = EvaluationStatus(p, e.eol, e.uncertainty)
        /\ e.usable = (e.status \in UsableStatuses)
    BY EvaluationIs
  <1>2. IsPrediction(p)
    BY EstimateIs DEF Estimates
  <1> HIDE DEF e, p
  <1>3. e.eol.distance \in Int \union {Absent}
    BY <1>1, DistanceIs
  <1>4. e.usable => p.rul # Absent
    BY <1>1, <1>2, StatusIs
  <1>5. p.rul \in Fraction \union {Absent}
    BY <1>2 DEF IsPrediction
  <1>6. QED
    BY <1>1, <1>3, <1>4, <1>5 DEF e

\* The bundles of the criteria of the portfolio.
AreBundles(B) ==
  /\ \A b \in B : IsBundle(b)
  /\ \A b, d \in B : b # d => b.criterion.id # d.criterion.id /\ b.criterion.alpha # d.criterion.alpha

\* s has the elements of B.
Arranges(s, n, B) ==
  HasSize(s, n) /\ (\A k \in 1..n : s[k] \in B) /\ (\A b \in B : \E k \in 1..n : s[k] = b)

LEMMA BundleTyped ==
  ASSUME IInv, Reported, NEW i \in DOMAIN job.portfolio
  PROVE  IsBundle(BundleOf(Filed(history), job.portfolio[i]))
  <1> DEFINE c == job.portfolio[i]
             filed == Filed(history)
             e == EvaluationOf(filed, c)
             b == BundleOf(filed, c)
             place == Match(filed, c)
  <1>1. PICK n : AreRecords(history, n)
    BY DEF IInv
  <1>2. Typed /\ \A j \in DOMAIN job.parts : Extracts(job.parts[j], history)
    BY ReportIs DEF Raises, Prepared
  <1>3. IsCriterion(c) /\ IsConfig(job.config)
    BY <1>2, CriteriaAre, ConfigIs
  <1>4. PICK m \in Nat \ {0} :
          /\ HasSize(filed, m)
          /\ \A k \in 1..m : AreObservations(filed[k].traj.obs, n)
          /\ \A d : Match(filed, d) \in 0..m
    BY <1>1, <1>2, FiledTyped
  <1>5. b.criterion = c /\ b.evaluation = e
    BY BundleIs
  <1> HIDE DEF filed, c
  <1>6. /\ e.prediction.rul \in Fraction \union {Absent}
        /\ e.eol.distance \in Int \union {Absent}
        /\ e.usable <=> e.status \in UsableStatuses
        /\ e.usable => e.prediction.rul # Absent
    <2>1. CASE place = 0 \/ filed[place].traj.obs = <<>>
      <3>1. e = MissingData
        BY <2>1 DEF EvaluationOf
      <3>2. QED
        BY <3>1, MissingIs DEF Eol, UsableStatuses
    <2>2. CASE ~(place = 0 \/ filed[place].traj.obs = <<>>)
      <3>1. e = Evaluate(filed[place].traj, c, job.config)
        BY <2>2 DEF EvaluationOf
      <3>2. place \in 1..m
        BY <1>4, <2>2
      <3>3. AreObservations(filed[place].traj.obs, n)
        BY <1>4, <3>2
      <3> HIDE DEF place, e
      <3>4. QED
        BY <1>3, <3>1, <3>3, EvaluateTyped
    <2>3. QED
      BY <2>1, <2>2
  <1>7. Urgency(b) \in Int
    BY UrgencyIs
  <1> HIDE DEF e, b
  <1>8. IsBundle(b)
    BY <1>3, <1>5, <1>6, <1>7 DEF IsBundle, IsCriterion, RulOf, DistanceOf
  <1>9. QED
    BY <1>8 DEF b, filed, c

LEMMA BundlesAre ==
  ASSUME IInv, Reported
  PROVE  AreBundles(BundlesOf) /\ \E n \in Nat \ {0} : Arranges(report.bundles, n, BundlesOf)
  <1> DEFINE p == job.portfolio
             n == Len(p)
             bundles == report.bundles
  <1>1. Typed /\ bundles = [i \in DOMAIN p |-> BundleOf(Filed(history), p[i])]
    BY ReportIs
  <1>2. IsPortfolio(p)
    BY <1>1, JobIs
  <1>3. n \in Nat \ {0} /\ DOMAIN p = 1..n
    BY <1>2 DEF IsPortfolio
  <1>4. BundlesOf = {bundles[i] : i \in 1..n}
    BY <1>1, <1>3 DEF BundlesOf
  <1>5. \A i \in 1..n : bundles[i] = BundleOf(Filed(history), p[i])
    BY <1>1, <1>3
  <1>6. \A i \in 1..n : IsBundle(bundles[i])
    BY <1>3, <1>5, BundleTyped
  <1>7. \A i \in 1..n : bundles[i].criterion = p[i]
    BY <1>5, BundleIs
  <1>8. \A i, k \in 1..n : i # k => p[i].id # p[k].id /\ p[i].alpha # p[k].alpha
    BY <1>2, <1>3 DEF IsPortfolio
  <1>9. HasSize(bundles, n)
    BY <1>1, <1>3 DEF HasSize
  <1> HIDE DEF n, p, bundles
  <1>10. AreBundles(BundlesOf)
    BY <1>4, <1>6, <1>7, <1>8 DEF AreBundles
  <1>11. Arranges(bundles, n, BundlesOf)
    BY <1>4, <1>9 DEF Arranges
  <1>12. QED
    BY <1>3, <1>10, <1>11 DEF bundles

LEMMA ArrangedHas ==
  ASSUME NEW s, NEW n, NEW B, Arranges(s, n, B)
  PROVE  ToSet(s) = B /\ DOMAIN s = 1..n /\ n \in Nat /\ (s = <<>> <=> B = {}) /\ Len(s) = n
         /\ (n = 0 <=> B = {})
  <1>1. DOMAIN s = 1..n /\ n \in Nat /\ (s = <<>> <=> n = 0) /\ Len(s) = n
    BY SizeIs DEF Arranges
  <1>2. ToSet(s) = B
    BY <1>1 DEF Arranges, ToSet
  <1>3. n = 0 <=> B = {}
    <2>1. ASSUME n # 0 PROVE B # {}
      <3>1. 1 \in 1..n
        BY <1>1, <2>1
      <3>2. QED
        BY <3>1 DEF Arranges
    <2>2. ASSUME n = 0 PROVE B = {}
      <3>1. \A k \in 1..n : FALSE
        BY <2>2
      <3>2. QED
        BY <3>1 DEF Arranges
    <2>3. QED
      BY <2>1, <2>2
  <1>4. QED
    BY <1>1, <1>2, <1>3

LEMMA ChosenArranges ==
  ASSUME NEW s, NEW n, NEW B, Arranges(s, n, B), NEW T \in SUBSET B
  PROVE  \E m : Arranges(Picked(s, {i \in DOMAIN s : s[i] \in T}), m, T)
  <1> DEFINE S == {i \in DOMAIN s : s[i] \in T}
  <1>1. DOMAIN s = 1..n /\ HasSize(s, n)
    BY ArrangedHas DEF Arranges
  <1>2. S \in SUBSET (1..n) /\ \A i \in S : s[i] \in T
    BY <1>1
  <1>3. \A b \in T : \E i \in S : s[i] = b
    <2> SUFFICES ASSUME NEW b \in T PROVE \E i \in S : s[i] = b
      OBVIOUS
    <2>1. PICK i \in 1..n : s[i] = b
      BY DEF Arranges
    <2>2. QED
      BY <1>1, <2>1
  <1> HIDE DEF S
  <1>4. PICK m \in 0..n : IsPartOf(Picked(s, S), m, s, S)
    BY <1>1, <1>2, PartHas
  <1> DEFINE t == Picked(s, S)
  <1>5. HasSize(t, m) /\ (\A k \in 1..m : \E i \in S : t[k] = s[i])
        /\ (\A i \in S : \E k \in 1..m : t[k] = s[i])
    BY <1>4 DEF IsPartOf
  <1> HIDE DEF t
  <1>6. \A k \in 1..m : t[k] \in T
    BY <1>2, <1>5
  <1>7. \A b \in T : \E k \in 1..m : t[k] = b
    BY <1>3, <1>5
  <1>8. Arranges(t, m, T)
    BY <1>5, <1>6, <1>7 DEF Arranges
  <1>9. QED
    BY <1>8 DEF t, S

\* The first of a set in an order.
Leads(x, R, S) == x \in S /\ \A d \in S : <<d, x>> \notin R
First(R, S) == CHOOSE x \in S : \A d \in S : <<d, x>> \notin R

LEMMA OneLeads ==
  ASSUME NEW S, NEW R, StrictOrder(R, S), NEW x, Leads(x, R, S)
  PROVE  First(R, S) = x /\ \A y : Leads(y, R, S) => y = x
  <1>1. \A y : Leads(y, R, S) => y = x
    BY DEF Leads, StrictOrder
  <1>2. \E y \in S : \A d \in S : <<d, y>> \notin R
    BY DEF Leads
  <1>3. Leads(First(R, S), R, S)
    BY <1>2 DEF First, Leads
  <1>4. QED
    BY <1>1, <1>3

Before(s, R) == {p \in (DOMAIN s) \X (DOMAIN s) : <<s[p[1]], s[p[2]]>> \in R}

LEMMA SortedLeads ==
  ASSUME NEW s, NEW n, NEW S, Arranges(s, n, S), S # {}, NEW R, StrictOrder(R, S)
  PROVE  /\ Leads(Ranked(s, Before(s, R))[1], R, S)
         /\ Ranked(s, Before(s, R))[1] = First(R, S)
         /\ HasSize(Ranked(s, Before(s, R)), n)
  <1> DEFINE B == Before(s, R)
  <1>1. DOMAIN s = 1..n /\ HasSize(s, n) /\ n \in Nat /\ n # 0
    BY ArrangedHas DEF Arranges
  <1>2. \A i, j \in 1..n : <<i, j>> \in B <=> <<s[i], s[j]>> \in R
    BY <1>1 DEF Before
  <1>3. \A k \in 1..n : s[k] \in S
    BY DEF Arranges
  <1> HIDE DEF B
  <1>4. WeakOrder(B, 1..n)
    <2>1. ASSUME NEW i \in 1..n, NEW j \in 1..n, <<i, j>> \in B
          PROVE  <<j, i>> \notin B
      <3>1. <<s[i], s[j]>> \in R /\ s[i] \in S /\ s[j] \in S
        BY <1>2, <1>3, <2>1
      <3>2. <<s[j], s[i]>> \notin R
        BY <3>1 DEF StrictOrder
      <3>3. QED
        BY <1>2, <3>2
    <2>2. ASSUME NEW i \in 1..n, NEW j \in 1..n, NEW k \in 1..n, <<i, k>> \in B
          PROVE  <<i, j>> \in B \/ <<j, k>> \in B
      <3>1. <<s[i], s[k]>> \in R /\ s[i] \in S /\ s[j] \in S /\ s[k] \in S
        BY <1>2, <1>3, <2>2
      <3>2. <<s[i], s[j]>> \in R \/ <<s[j], s[k]>> \in R
        BY <3>1 DEF StrictOrder
      <3>3. QED
        BY <1>2, <3>2
    <2>3. QED
      BY <2>1, <2>2 DEF WeakOrder
  <1>5. PICK i \in 1..n : Ranked(s, B)[1] = s[i] /\ \A j \in 1..n : <<j, i>> \notin B
    BY <1>1, <1>4, RankedFirst
  <1>6. ASSUME NEW d \in S PROVE <<d, s[i]>> \notin R
    <2>1. PICK j \in 1..n : s[j] = d
      BY DEF Arranges
    <2>2. QED
      BY <1>2, <1>5, <2>1
  <1>7. Leads(s[i], R, S)
    BY <1>3, <1>6 DEF Leads
  <1>8. First(R, S) = s[i]
    BY <1>7, OneLeads
  <1>9. Rearranges(Ranked(s, B), s, n)
    BY <1>1, <1>4, RankedHas
  <1>10. QED
    BY <1>5, <1>7, <1>8, <1>9 DEF B, Rearranges

\* The three orders.
UrgencyOrder(S) ==
  {p \in S \X S : Urgency(p[2]) < Urgency(p[1])
                    \/ (Urgency(p[2]) = Urgency(p[1]) /\ TieBreak(p[1], p[2]))}
LifeOrder(S) ==
  {p \in S \X S : Less(RulOf(p[1]), RulOf(p[2]))
                    \/ (SameAs(RulOf(p[1]), RulOf(p[2])) /\ TieBreak(p[1], p[2]))}
DistanceOrder(S) ==
  {p \in S \X S : DistanceOf(p[1]) < DistanceOf(p[2])
                    \/ (DistanceOf(p[1]) = DistanceOf(p[2]) /\ TieBreak(p[1], p[2]))}

LEMMA UrgencyIsStrict ==
  ASSUME NEW S, AreBundles(S)
  PROVE  StrictOrder(UrgencyOrder(S), S)
  <1>1. \A c \in S : Urgency(c) \in Int /\ c.criterion.alpha \in Int
    BY DEF AreBundles, IsBundle
  <1>2. \A c, d \in S : c # d => c.criterion.alpha # d.criterion.alpha
    BY DEF AreBundles
  <1>3. \A c, d \in S : <<c, d>> \in UrgencyOrder(S) <=>
          \/ Urgency(d) < Urgency(c)
          \/ Urgency(d) = Urgency(c) /\ c.criterion.alpha < d.criterion.alpha
    BY DEF UrgencyOrder, TieBreak
  <1>4. QED
    BY <1>1, <1>2, <1>3 DEF StrictOrder

LEMMA DistanceIsStrict ==
  ASSUME NEW S, AreBundles(S), \A c \in S : DistanceOf(c) # Absent
  PROVE  StrictOrder(DistanceOrder(S), S)
  <1>1. \A c \in S : DistanceOf(c) \in Int /\ c.criterion.alpha \in Int
    BY DEF AreBundles, IsBundle
  <1>2. \A c, d \in S : c # d => c.criterion.alpha # d.criterion.alpha
    BY DEF AreBundles
  <1>3. \A c, d \in S : <<c, d>> \in DistanceOrder(S) <=>
          \/ DistanceOf(c) < DistanceOf(d)
          \/ DistanceOf(c) = DistanceOf(d) /\ c.criterion.alpha < d.criterion.alpha
    BY DEF DistanceOrder, TieBreak
  <1>4. QED
    BY <1>1, <1>2, <1>3 DEF StrictOrder

LEMMA LifeIsStrict ==
  ASSUME NEW S, AreBundles(S), \A c \in S : RulOf(c) # Absent
  PROVE  StrictOrder(LifeOrder(S), S)
  <1>1. \A c \in S : RulOf(c) \in Fraction /\ c.criterion.alpha \in Int
    BY DEF AreBundles, IsBundle
  <1>2. \A c, d \in S : c # d => c.criterion.alpha # d.criterion.alpha
    BY DEF AreBundles
  <1>3. \A c, d \in S : <<c, d>> \in LifeOrder(S) <=>
          \/ Less(RulOf(c), RulOf(d))
          \/ SameAs(RulOf(c), RulOf(d)) /\ c.criterion.alpha < d.criterion.alpha
    BY DEF LifeOrder, TieBreak
  <1>4. \A c \in S : <<c, c>> \notin LifeOrder(S)
    BY <1>1, <1>3, FractionsAreOrdered
  <1>5. \A c, d \in S : c # d => <<c, d>> \in LifeOrder(S) \/ <<d, c>> \in LifeOrder(S)
    <2> SUFFICES ASSUME NEW c \in S, NEW d \in S, c # d
                 PROVE  <<c, d>> \in LifeOrder(S) \/ <<d, c>> \in LifeOrder(S)
      OBVIOUS
    <2>1. /\ Less(RulOf(c), RulOf(d)) \/ SameAs(RulOf(c), RulOf(d)) \/ Less(RulOf(d), RulOf(c))
          /\ SameAs(RulOf(c), RulOf(d)) <=> SameAs(RulOf(d), RulOf(c))
      BY <1>1, FractionsAreOrdered
    <2>2. c.criterion.alpha < d.criterion.alpha \/ d.criterion.alpha < c.criterion.alpha
      BY <1>1, <1>2
    <2>3. QED
      BY <1>3, <2>1, <2>2
  <1>6. ASSUME NEW c \in S, NEW d \in S, NEW e \in S,
               <<c, d>> \in LifeOrder(S), <<d, e>> \in LifeOrder(S)
        PROVE  <<c, e>> \in LifeOrder(S)
    <2>1. RulOf(c) \in Fraction /\ RulOf(d) \in Fraction /\ RulOf(e) \in Fraction
      BY <1>1
    <2>2. CASE Less(RulOf(c), RulOf(d)) \/ Less(RulOf(d), RulOf(e))
      <3>1. Less(RulOf(c), RulOf(e))
        BY <1>3, <1>6, <2>1, <2>2, FractionsFollow
      <3>2. QED
        BY <1>3, <3>1
    <2>3. CASE ~(Less(RulOf(c), RulOf(d)) \/ Less(RulOf(d), RulOf(e)))
      <3>1. /\ SameAs(RulOf(c), RulOf(d)) /\ c.criterion.alpha < d.criterion.alpha
            /\ SameAs(RulOf(d), RulOf(e)) /\ d.criterion.alpha < e.criterion.alpha
        BY <1>3, <1>6, <2>3
      <3>2. SameAs(RulOf(c), RulOf(e))
        BY <2>1, <3>1, FractionsFollow
      <3>3. c.criterion.alpha < e.criterion.alpha
        BY <1>1, <3>1
      <3>4. QED
        BY <1>3, <3>2, <3>3
    <2>4. QED
      BY <2>2, <2>3
  <1>7. QED
    BY <1>4, <1>5, <1>6 DEF StrictOrder

\* What a strategy names, of a set of candidates.
CandidatesOf(B) ==
  IF \E c \in B : Evaluated(c) THEN {c \in B : Evaluated(c)} ELSE {c \in B : Determinate(c)}
LivesOf(S) == {c \in S : RulOf(c) # Absent}
NearOf(S) == {c \in S : DistanceOf(c) # Absent}
OneValueOf(S, key) == Cardinality({c.evaluation.prediction[key] : c \in S}) = 1
OneUnitOf(S) == Cardinality({c.criterion.unit : c \in S}) = 1
Comparables(S) == LivesOf(S) # {} /\ OneValueOf(LivesOf(S), "domain") /\ OneValueOf(LivesOf(S), "unit")

NamedByPriority(S) == First(UrgencyOrder(S), S).criterion.id
NamedByLife(S) == First(LifeOrder(LivesOf(S)), LivesOf(S)).criterion.id
NamedByDistance(S) == First(DistanceOrder(NearOf(S)), NearOf(S)).criterion.id

\* No life is shorter than its own.
Outlived(b, S) == \A d \in LivesOf(S) : AtMost(RulOf(b), RulOf(d))

LEMMA UnresolvedIs ==
  ASSUME NEW status, NEW strategy
  PROVE  LET l == Unresolved(status, strategy) IN
         l.status = status /\ l.strategy = strategy /\ l.limiting = Absent
  BY DEF Unresolved

LEMMA ByPriorityIs ==
  ASSUME NEW s, NEW n, NEW S, Arranges(s, n, S), AreBundles(S), S # {}
  PROVE  LET l == ByPriority(s) IN
         /\ l.status = "RESOLVED" /\ l.strategy = "HIGHEST_DECISION_PRIORITY"
         /\ l.limiting = NamedByPriority(S)
         /\ \E b \in S : b.criterion.id = l.limiting
  <1> DEFINE R == UrgencyOrder(S)
             later == {p \in (DOMAIN s) \X (DOMAIN s) :
                         \/ Urgency(s[p[2]]) < Urgency(s[p[1]])
                         \/ Urgency(s[p[2]]) = Urgency(s[p[1]]) /\ TieBreak(s[p[1]], s[p[2]])}
             order == Ranked(s, later)
  <1>1. \A k \in DOMAIN s : s[k] \in S
    BY ArrangedHas DEF Arranges
  <1>2. later = Before(s, R)
    BY <1>1 DEF Before, UrgencyOrder
  <1>3. ByPriority(s).status = "RESOLVED" /\ ByPriority(s).strategy = "HIGHEST_DECISION_PRIORITY"
        /\ ByPriority(s).limiting = order[1].criterion.id
    BY DEF ByPriority, SortedBy, Resolved
  <1> HIDE DEF later
  <1>4. order[1] = First(R, S) /\ Leads(order[1], R, S)
    <2>1. StrictOrder(R, S)
      BY UrgencyIsStrict
    <2> HIDE DEF R
    <2>2. QED
      BY <1>2, <2>1, SortedLeads
  <1>5. order[1] \in S
    BY <1>4 DEF Leads
  <1>6. QED
    BY <1>3, <1>4, <1>5 DEF NamedByPriority

LEMMA SelectedArranges ==
  ASSUME NEW s, NEW n, NEW S, Arranges(s, n, S)
  PROVE  /\ \E m : Arranges(WithRul(s), m, LivesOf(S))
         /\ \E m : Arranges(Chosen(s, LAMBDA c : DistanceOf(c) # Absent), m, NearOf(S))
         /\ \E m : Arranges(Chosen(s, Evaluated), m, {c \in S : Evaluated(c)})
         /\ \E m : Arranges(Chosen(s, Determinate), m, {c \in S : Determinate(c)})
  <1>1. \A k \in DOMAIN s : s[k] \in S
    BY ArrangedHas DEF Arranges
  <1>2. \A T \in SUBSET S : \E m : Arranges(Picked(s, {i \in DOMAIN s : s[i] \in T}), m, T)
    BY ChosenArranges
  <1>3. {i \in DOMAIN s : RulOf(s[i]) # Absent} = {i \in DOMAIN s : s[i] \in LivesOf(S)}
    BY <1>1 DEF LivesOf
  <1>4. {i \in DOMAIN s : DistanceOf(s[i]) # Absent} = {i \in DOMAIN s : s[i] \in NearOf(S)}
    BY <1>1 DEF NearOf
  <1>5. {i \in DOMAIN s : Evaluated(s[i])} = {i \in DOMAIN s : s[i] \in {c \in S : Evaluated(c)}}
    BY <1>1
  <1>6. {i \in DOMAIN s : Determinate(s[i])} = {i \in DOMAIN s : s[i] \in {c \in S : Determinate(c)}}
    BY <1>1
  <1>7. /\ LivesOf(S) \in SUBSET S /\ NearOf(S) \in SUBSET S
        /\ {c \in S : Evaluated(c)} \in SUBSET S /\ {c \in S : Determinate(c)} \in SUBSET S
    BY DEF LivesOf, NearOf
  <1>8. \E m : Arranges(WithRul(s), m, LivesOf(S))
    BY <1>2, <1>3, <1>7 DEF WithRul, Chosen
  <1>9. \E m : Arranges(Chosen(s, LAMBDA c : DistanceOf(c) # Absent), m, NearOf(S))
    BY <1>2, <1>4, <1>7 DEF Chosen
  <1>10. \E m : Arranges(Chosen(s, Evaluated), m, {c \in S : Evaluated(c)})
    BY <1>2, <1>5, <1>7 DEF Chosen
  <1>11. \E m : Arranges(Chosen(s, Determinate), m, {c \in S : Determinate(c)})
    BY <1>2, <1>6, <1>7 DEF Chosen
  <1>12. QED
    BY <1>8, <1>9, <1>10, <1>11

LEMMA SomeAreBundles ==
  ASSUME NEW S, AreBundles(S), NEW T \in SUBSET S
  PROVE  AreBundles(T)
  BY DEF AreBundles

\* What limits by life: the first of the lives, when they compare.
LEMMA ShortestIs ==
  ASSUME NEW s, NEW n, NEW S, Arranges(s, n, S), AreBundles(S), S # {}, NEW fallback \in BOOLEAN
  PROVE  LET l == Shortest(s, fallback) IN
         /\ Comparables(S) => /\ l.status = "RESOLVED" /\ l.strategy = "SHORTEST_RUL"
                             /\ l.limiting = NamedByLife(S)
                             /\ \E b \in S : Outlived(b, S) /\ b.criterion.id = l.limiting
         /\ ~Comparables(S) /\ fallback =>
              /\ l.status = "RESOLVED" /\ l.strategy = "HIGHEST_DECISION_PRIORITY"
              /\ l.limiting = NamedByPriority(S)
         /\ ~Comparables(S) /\ ~fallback =>
              /\ l.status \in (IF LivesOf(S) = {} THEN {"ALL_CRITERIA_UNAVAILABLE"}
                              ELSE {"INCOMPATIBLE_DOMAINS", "INCOMPATIBLE_UNITS"})
              /\ l.limiting = Absent
  <1> DEFINE lives == WithRul(s)
             L == LivesOf(S)
             R == LifeOrder(L)
             sooner == {p \in (DOMAIN lives) \X (DOMAIN lives) :
                          \/ Less(RulOf(lives[p[1]]), RulOf(lives[p[2]]))
                          \/ SameAs(RulOf(lives[p[1]]), RulOf(lives[p[2]]))
                               /\ TieBreak(lives[p[1]], lives[p[2]])}
             order == Ranked(lives, sooner)
             l == Shortest(s, fallback)
  <1>1. PICK m : Arranges(lives, m, L)
    BY SelectedArranges
  <1>2. ToSet(lives) = L /\ (lives = <<>> <=> L = {})
    BY <1>1, ArrangedHas
  <1>3. CASE Comparables(S)
    <2>1. lives # <<>> /\ OneValueOf(L, "domain") /\ OneValueOf(L, "unit")
      BY <1>2, <1>3 DEF Comparables
    <2>2. l.status = "RESOLVED" /\ l.strategy = "SHORTEST_RUL" /\ l.limiting = order[1].criterion.id
      BY <1>2, <2>1 DEF Shortest, SortedBy, Resolved, OneValueOf
    <2>3. \A k \in DOMAIN lives : lives[k] \in L
      <3> HIDE DEF lives, L
      <3>1. HasSize(lives, m) /\ \A k \in 1..m : lives[k] \in L
        BY <1>1 DEF Arranges
      <3>2. DOMAIN lives = 1..m
        BY <3>1, SizeIs
      <3>3. QED
        BY <3>1, <3>2
    <2> HIDE DEF lives
    <2>4. sooner = Before(lives, R)
      BY <2>3 DEF Before, LifeOrder
    <2> HIDE DEF sooner
    <2>5. L # {} /\ AreBundles(L) /\ \A c \in L : RulOf(c) # Absent
      BY <1>3, SomeAreBundles DEF Comparables, LivesOf
    <2> HIDE DEF L
    <2>6. StrictOrder(R, L)
      BY <2>5, LifeIsStrict
    <2> HIDE DEF R
    <2>7. order[1] = First(R, L) /\ Leads(order[1], R, L)
      BY <1>1, <2>4, <2>5, <2>6, SortedLeads
    <2>8. order[1] \in S /\ Outlived(order[1], S)
      <3>1. order[1] \in L /\ \A d \in L : <<d, order[1]>> \notin R
        BY <2>7 DEF Leads
      <3> HIDE DEF order
      <3>2. \A d \in L : d \in S /\ RulOf(d) \in Fraction
        BY <2>5 DEF AreBundles, IsBundle, L, LivesOf
      <3>3. ASSUME NEW d \in L PROVE AtMost(RulOf(order[1]), RulOf(d))
        <4>1. ~Less(RulOf(d), RulOf(order[1]))
          BY <3>1 DEF R, LifeOrder
        <4>2. QED
          BY <3>1, <3>2, <4>1, FractionsAreOrdered
      <3>4. QED
        BY <3>1, <3>2, <3>3 DEF Outlived, L
    <2> HIDE DEF order
    <2>9. \E b \in S : Outlived(b, S) /\ b.criterion.id = l.limiting
      BY <2>2, <2>8
    <2>10. QED
      BY <1>3, <2>2, <2>7, <2>9 DEF NamedByLife, R, L
  <1>4. CASE ~Comparables(S)
    <2>1. lives = <<>> \/ ~OneValueOf(L, "domain") \/ ~OneValueOf(L, "unit")
      BY <1>2, <1>4 DEF Comparables
    <2>2. CASE fallback
      <3>1. l = ByPriority(s)
        BY <1>2, <2>1, <2>2 DEF Shortest, OneValueOf
      <3> HIDE DEF l
      <3>2. ByPriority(s).status = "RESOLVED" /\ ByPriority(s).strategy = "HIGHEST_DECISION_PRIORITY"
            /\ ByPriority(s).limiting = NamedByPriority(S)
        BY ByPriorityIs
      <3>3. QED
        BY <1>4, <2>2, <3>1, <3>2 DEF l
    <2>3. CASE ~fallback
      <3>1. \E status \in (IF L = {} THEN {"ALL_CRITERIA_UNAVAILABLE"}
                           ELSE {"INCOMPATIBLE_DOMAINS", "INCOMPATIBLE_UNITS"}) :
              l = Unresolved(status, "SHORTEST_RUL")
        BY <1>2, <2>1, <2>3 DEF Shortest, OneValueOf
      <3> HIDE DEF l
      <3>2. QED
        BY <1>4, <2>3, <3>1, UnresolvedIs DEF l
    <2>4. QED
      BY <2>2, <2>3
  <1>5. QED
    BY <1>3, <1>4

LEMMA NearestIs ==
  ASSUME NEW s, NEW n, NEW S, Arranges(s, n, S), AreBundles(S), S # {}
  PROVE  LET l == Nearest(s) IN
         /\ l.status = "RESOLVED" /\ l.strategy # "SHORTEST_RUL"
         /\ l.limiting = IF OneUnitOf(NearOf(S)) THEN NamedByDistance(S) ELSE NamedByPriority(S)
  <1> DEFINE near == Chosen(s, LAMBDA c : DistanceOf(c) # Absent)
             D == NearOf(S)
             R == DistanceOrder(D)
             nearer == {p \in (DOMAIN near) \X (DOMAIN near) :
                          \/ DistanceOf(near[p[1]]) < DistanceOf(near[p[2]])
                          \/ DistanceOf(near[p[1]]) = DistanceOf(near[p[2]])
                               /\ TieBreak(near[p[1]], near[p[2]])}
             order == Ranked(near, nearer)
             l == Nearest(s)
  <1>1. PICK m : Arranges(near, m, D)
    BY SelectedArranges
  <1>2. ToSet(near) = D
    BY <1>1, ArrangedHas
  <1>3. CASE OneUnitOf(D)
    <2>1. l.status = "RESOLVED" /\ l.strategy = "NEAREST_EOL_DISTANCE"
          /\ l.limiting = order[1].criterion.id
      BY <1>2, <1>3 DEF Nearest, SortedBy, Resolved, OneUnitOf
    <2>2. \A k \in DOMAIN near : near[k] \in D
      BY <1>1, ArrangedHas DEF Arranges
    <2> HIDE DEF near
    <2>3. nearer = Before(near, R)
      BY <2>2 DEF Before, DistanceOrder
    <2> HIDE DEF nearer
    <2>4. AreBundles(D) /\ \A c \in D : DistanceOf(c) # Absent
      BY SomeAreBundles DEF NearOf
    <2>5. D # {}
      <3>1. Cardinality({}) = 0 /\ {c.criterion.unit : c \in {}} = {}
        BY FS_EmptySet
      <3>2. QED
        BY <1>3, <3>1 DEF OneUnitOf
    <2> HIDE DEF D
    <2>6. StrictOrder(R, D)
      BY <2>4, DistanceIsStrict
    <2> HIDE DEF R
    <2>7. order[1] = First(R, D)
      BY <1>1, <2>3, <2>5, <2>6, SortedLeads
    <2>8. QED
      BY <1>3, <2>1, <2>7 DEF NamedByDistance, R, D
  <1>4. CASE ~OneUnitOf(D)
    <2>1. l = ByPriority(s)
      BY <1>2, <1>4 DEF Nearest, OneUnitOf
    <2> HIDE DEF l
    <2>2. ByPriority(s).status = "RESOLVED" /\ ByPriority(s).strategy = "HIGHEST_DECISION_PRIORITY"
          /\ ByPriority(s).limiting = NamedByPriority(S)
      BY ByPriorityIs
    <2>3. QED
      BY <1>4, <2>1, <2>2 DEF l
  <1>5. QED
    BY <1>3, <1>4

LEMMA CandidatesAre ==
  ASSUME NEW s, NEW n, NEW B, Arranges(s, n, B)
  PROVE  \E m : Arranges(Candidates(s), m, CandidatesOf(B))
  <1>1. ToSet(s) = B
    BY ArrangedHas
  <1>2. /\ \E m : Arranges(Chosen(s, Evaluated), m, {c \in B : Evaluated(c)})
        /\ \E m : Arranges(Chosen(s, Determinate), m, {c \in B : Determinate(c)})
    BY SelectedArranges
  <1>3. CASE \E c \in B : Evaluated(c)
    <2>1. Candidates(s) = Chosen(s, Evaluated) /\ CandidatesOf(B) = {c \in B : Evaluated(c)}
      BY <1>1, <1>3 DEF Candidates, CandidatesOf
    <2>2. QED
      BY <1>2, <2>1
  <1>4. CASE ~\E c \in B : Evaluated(c)
    <2>1. Candidates(s) = Chosen(s, Determinate) /\ CandidatesOf(B) = {c \in B : Determinate(c)}
      BY <1>1, <1>4 DEF Candidates, CandidatesOf
    <2>2. QED
      BY <1>2, <2>1
  <1>5. QED
    BY <1>3, <1>4

\* What a strategy other than the order of the portfolio names.
NamedOf(S, strategy, fallback) ==
  CASE strategy = "SHORTEST_RUL" ->
         IF Comparables(S) THEN NamedByLife(S) ELSE IF fallback THEN NamedByPriority(S) ELSE Absent
    [] strategy = "HIGHEST_DECISION_PRIORITY" -> NamedByPriority(S)
    [] strategy = "NEAREST_EOL_DISTANCE" ->
         IF OneUnitOf(NearOf(S)) THEN NamedByDistance(S) ELSE NamedByPriority(S)

\* How a limiting criterion is resolved from the candidates S.
IsResolution(l, S, strategy, fallback) ==
  /\ l.status # "RESOLVED" => l.limiting = Absent
  /\ strategy # "EXPLICIT_POLICY_ORDER" =>
       l.limiting = IF S = {} THEN Absent ELSE NamedOf(S, strategy, fallback)
  /\ l.strategy = "SHORTEST_RUL" /\ l.limiting # Absent =>
       \E b \in S : Outlived(b, S) /\ b.criterion.id = l.limiting
  /\ strategy = "SHORTEST_RUL" =>
       \/ \E b \in S : b.criterion.id = l.limiting
       \/ LivesOf(S) = {}
       \/ l.status \in {"INCOMPATIBLE_DOMAINS", "INCOMPATIBLE_UNITS"}

LEMMA ResolutionIs ==
  ASSUME NEW s, NEW n, NEW B, Arranges(s, n, B), AreBundles(B),
         NEW strategy \in Strategies, NEW fallback \in BOOLEAN
  PROVE  IsResolution(Resolve(s, strategy, fallback), CandidatesOf(B), strategy, fallback)
  <1> DEFINE S == CandidatesOf(B)
             t == Candidates(s)
             l == Resolve(s, strategy, fallback)
  <1>1. PICK m : Arranges(t, m, S)
    BY CandidatesAre
  <1>2. t = <<>> <=> S = {}
    BY <1>1, ArrangedHas
  <1>3. AreBundles(S)
    BY SomeAreBundles DEF CandidatesOf
  <1>4. strategy \in {"SHORTEST_RUL", "HIGHEST_DECISION_PRIORITY", "NEAREST_EOL_DISTANCE",
                     "EXPLICIT_POLICY_ORDER"}
    BY DEF Strategies
  <1>5. CASE S = {}
    <2>1. l = Unresolved("ALL_CRITERIA_UNAVAILABLE", strategy)
      BY <1>2, <1>5 DEF Resolve
    <2>2. l.limiting = Absent
      BY <2>1, UnresolvedIs
    <2>3. LivesOf(S) = {}
      BY <1>5 DEF LivesOf
    <2> HIDE DEF l, S
    <2>4. QED
      BY <1>5, <2>2, <2>3 DEF IsResolution, l, S
  <1>6. CASE S # {} /\ strategy = "SHORTEST_RUL"
    <2>1. l = Shortest(t, fallback)
      BY <1>2, <1>6 DEF Resolve
    <2> HIDE DEF l, S, t
    <2>2. /\ Comparables(S) => /\ l.status = "RESOLVED" /\ l.limiting = NamedByLife(S)
                              /\ \E b \in S : Outlived(b, S) /\ b.criterion.id = l.limiting
          /\ ~Comparables(S) /\ fallback =>
               /\ l.status = "RESOLVED" /\ l.strategy = "HIGHEST_DECISION_PRIORITY"
               /\ l.limiting = NamedByPriority(S)
          /\ ~Comparables(S) /\ ~fallback =>
               /\ l.status \in (IF LivesOf(S) = {} THEN {"ALL_CRITERIA_UNAVAILABLE"}
                               ELSE {"INCOMPATIBLE_DOMAINS", "INCOMPATIBLE_UNITS"})
               /\ l.limiting = Absent
      BY <1>1, <1>3, <1>6, <2>1, ShortestIs
    <2>3. CASE Comparables(S)
      BY <1>6, <2>2, <2>3 DEF IsResolution, NamedOf, l, S
    <2>4. CASE ~Comparables(S) /\ fallback
      <3>1. \E b \in S : b.criterion.id = l.limiting
        <4>1. l.limiting = NamedByPriority(S)
          BY <2>2, <2>4
        <4>2. \E b \in S : b.criterion.id = NamedByPriority(S)
          BY <1>1, <1>3, <1>6, ByPriorityIs
        <4>3. QED
          BY <4>1, <4>2
      <3>2. QED
        BY <1>6, <2>2, <2>4, <3>1 DEF IsResolution, NamedOf, l, S
    <2>5. CASE ~Comparables(S) /\ ~fallback
      BY <1>6, <2>2, <2>5 DEF IsResolution, NamedOf, l, S
    <2>6. QED
      BY <2>3, <2>4, <2>5 DEF l, S
  <1>7. CASE S # {} /\ strategy = "HIGHEST_DECISION_PRIORITY"
    <2>1. l = ByPriority(t)
      BY <1>2, <1>7 DEF Resolve
    <2> HIDE DEF l, S, t
    <2>2. l.status = "RESOLVED" /\ l.strategy = "HIGHEST_DECISION_PRIORITY"
          /\ l.limiting = NamedByPriority(S)
      BY <1>1, <1>3, <1>7, <2>1, ByPriorityIs
    <2>3. QED
      BY <1>7, <2>2 DEF IsResolution, NamedOf, l, S
  <1>8. CASE S # {} /\ strategy = "NEAREST_EOL_DISTANCE"
    <2>1. l = Nearest(t)
      BY <1>2, <1>8 DEF Resolve
    <2> HIDE DEF l, S, t
    <2>2. l.status = "RESOLVED" /\ l.strategy # "SHORTEST_RUL"
          /\ l.limiting = IF OneUnitOf(NearOf(S)) THEN NamedByDistance(S) ELSE NamedByPriority(S)
      BY <1>1, <1>3, <1>8, <2>1, NearestIs
    <2>3. QED
      BY <1>8, <2>2 DEF IsResolution, NamedOf, l, S
  <1>9. CASE S # {} /\ strategy = "EXPLICIT_POLICY_ORDER"
    <2>1. l = Resolved("EXPLICIT_POLICY_ORDER", t, MarginOfRul)
      BY <1>2, <1>9 DEF Resolve
    <2>2. l.status = "RESOLVED" /\ l.strategy = "EXPLICIT_POLICY_ORDER"
      BY <2>1 DEF Resolved
    <2> HIDE DEF l, S, t
    <2>3. QED
      BY <1>9, <2>2 DEF IsResolution, l, S
  <1>10. QED
    BY <1>4, <1>5, <1>6, <1>7, <1>8, <1>9

LEMMA ReorderedArranges ==
  ASSUME NEW s, NEW n, NEW B, Arranges(s, n, B), NEW t \in Reordered(s)
  PROVE  Arranges(t, n, B)
  <1>1. DOMAIN s = 1..n /\ n \in Nat
    BY ArrangedHas
  <1>2. PICK p \in Bijection(DOMAIN s, DOMAIN s) : t = [i \in DOMAIN s |-> s[p[i]]]
    BY DEF Reordered
  <1>3. p \in [1..n -> 1..n] /\ \A j \in 1..n : \E i \in 1..n : p[i] = j
    BY <1>1 DEF Bijection, Surjection
  <1>4. t = [i \in 1..n |-> t[i]] /\ \A i \in 1..n : t[i] = s[p[i]]
    BY <1>1, <1>2
  <1>5. HasSize(t, n)
    BY <1>1, <1>4 DEF HasSize
  <1>6. \A i \in 1..n : t[i] \in B
    BY <1>3, <1>4 DEF Arranges
  <1>7. ASSUME NEW b \in B PROVE \E i \in 1..n : t[i] = b
    <2>1. PICK j \in 1..n : s[j] = b
      BY DEF Arranges
    <2>2. PICK i \in 1..n : p[i] = j
      BY <1>3
    <2>3. QED
      BY <1>4, <2>1, <2>2
  <1>8. QED
    BY <1>5, <1>6, <1>7 DEF Arranges

\* The decision of a report is the one of the criterion it names.
LEMMA PrimaryIs ==
  ASSUME NEW s, NEW n, NEW B, Arranges(s, n, B), AreBundles(B),
         NEW l, l.status = "RESOLVED", NEW b \in B, b.criterion.id = l.limiting
  PROVE  PrimaryDecision(s, l) = b.decision
  <1> DEFINE T == {k \in 1..Len(s) : s[k].criterion.id = l.limiting}
  <1>1. n \in Nat /\ Len(s) = n
    BY ArrangedHas
  <1>2. PrimaryDecision(s, l) = s[FirstIn(T)].decision
    BY DEF PrimaryDecision, SelectInSeq, FirstIn
  <1>3. PICK k \in 1..n : s[k] = b
    BY DEF Arranges
  <1>4. k \in T
    BY <1>1, <1>3
  <1>5. T # {} /\ T \in SUBSET Nat
    BY <1>1, <1>4
  <1>6. FirstIn(T) = Min(T) /\ Min(T) \in T
    BY <1>5, LeastOf DEF FirstIn
  <1>7. s[FirstIn(T)] \in B /\ s[FirstIn(T)].criterion.id = l.limiting
    BY <1>1, <1>6 DEF Arranges
  <1>8. s[FirstIn(T)] = b
    BY <1>7 DEF AreBundles
  <1>9. QED
    BY <1>2, <1>8

\* When all is well, every criterion can be used.
LEMMA SuccessIs ==
  ASSUME NEW s, NEW n, NEW B, Arranges(s, n, B), AreBundles(B), B # {}, NEW l,
         PipelineStatus(s, l) = "SUCCESS"
  PROVE  /\ l.status \notin {"INCOMPATIBLE_DOMAINS", "INCOMPATIBLE_UNITS"}
         /\ LivesOf(CandidatesOf(B)) # {}
  <1>1. ToSet(s) = B
    BY ArrangedHas
  <1>2. l.status \notin {"INCOMPATIBLE_DOMAINS", "INCOMPATIBLE_UNITS"}
        /\ {c.evaluation.status : c \in B} = {"VALID"}
    BY <1>1 DEF PipelineStatus
  <1>3. PICK b \in B : TRUE
    OBVIOUS
  <1>4. b.evaluation.status = "VALID"
    BY <1>2
  <1>5. b.evaluation.usable /\ RulOf(b) # Absent
    BY <1>4 DEF AreBundles, IsBundle, UsableStatuses
  <1>6. b \in CandidatesOf(B)
    BY <1>5 DEF CandidatesOf, Evaluated
  <1>7. QED
    BY <1>2, <1>5, <1>6 DEF LivesOf

\* A report, when the assessment raises for none of the portfolio's criteria,
\* names the worst: when lives are compared, none that can be used has a shorter
\* one; the decision is its own; a success has one; and the order of the
\* portfolio does not matter, unless the strategy is that order.
THEOREM TheWorstLimits == Spec => []LimitingIsTheWorst
  <1>1. ASSUME IInv PROVE LimitingIsTheWorst
    <2> SUFFICES ASSUME Reported PROVE LimitingIsTheWorst
      BY DEF LimitingIsTheWorst
    <2> DEFINE B == BundlesOf
               s == report.bundles
               l == report.limiting
               S == CandidatesOf(B)
               strategy == job.config.strategy
               fallback == job.config.fallback
               limiting == {b \in B : b.criterion.id = l.limiting}
    <2>1. Typed /\ l = Resolve(s, strategy, fallback) /\ report.decision = PrimaryDecision(s, l)
          /\ report.status = PipelineStatus(s, l)
      BY <1>1, ReportIs
    <2>2. strategy \in Strategies /\ fallback \in BOOLEAN
      BY <2>1, JobIs
    <2>3. AreBundles(B) /\ \E n \in Nat \ {0} : Arranges(s, n, B)
      BY <1>1, BundlesAre
    <2>4. PICK n \in Nat \ {0} : Arranges(s, n, B)
      BY <2>3
    <2>5. B # {}
      BY <2>4, ArrangedHas
    <2> HIDE DEF B, s, l, strategy, fallback
    <2>6. IsResolution(l, S, strategy, fallback)
      BY <2>1, <2>2, <2>3, <2>4, ResolutionIs
    <2>7. S \in SUBSET B
      BY DEF CandidatesOf
    <2> HIDE DEF S
    <2>8. ASSUME report.status = "SUCCESS", strategy = "SHORTEST_RUL"
          PROVE  limiting # {}
      <3>1. /\ l.status \notin {"INCOMPATIBLE_DOMAINS", "INCOMPATIBLE_UNITS"}
            /\ LivesOf(S) # {}
        BY <2>1, <2>3, <2>4, <2>5, <2>8, SuccessIs DEF S
      <3>2. \E b \in S : b.criterion.id = l.limiting
        BY <2>6, <2>8, <3>1 DEF IsResolution
      <3>3. QED
        BY <2>7, <3>2
    <2>9. ASSUME NEW b \in limiting
          PROVE  report.decision = b.decision
      <3>1. b \in B /\ b.criterion.id = l.limiting /\ l.limiting # Absent
        BY <2>3 DEF AreBundles, IsBundle
      <3>2. l.status = "RESOLVED"
        BY <2>6, <3>1 DEF IsResolution
      <3>3. QED
        BY <2>1, <2>3, <2>4, <3>1, <3>2, PrimaryIs
    <2>10. ASSUME NEW b \in limiting, l.strategy = "SHORTEST_RUL", NEW c \in B, c.evaluation.usable
           PROVE  AtMost(RulOf(b), RulOf(c))
      <3>1. b \in B /\ b.criterion.id = l.limiting /\ l.limiting # Absent
        BY <2>3 DEF AreBundles, IsBundle
      <3>2. PICK d \in S : Outlived(d, S) /\ d.criterion.id = l.limiting
        BY <2>6, <2>10, <3>1 DEF IsResolution
      <3>3. d = b
        BY <2>3, <2>7, <3>1, <3>2 DEF AreBundles
      <3>4. RulOf(c) # Absent
        BY <2>3, <2>10 DEF AreBundles, IsBundle
      <3>5. c \in LivesOf(S)
        BY <2>10, <3>4 DEF LivesOf, S, CandidatesOf, Evaluated
      <3>6. QED
        BY <3>2, <3>3, <3>5 DEF Outlived
    <2>11. ASSUME strategy # "EXPLICIT_POLICY_ORDER", NEW t \in Reordered(s)
           PROVE  Resolve(t, strategy, fallback).limiting = l.limiting
      <3>1. Arranges(t, n, B)
        BY <2>4, ReorderedArranges
      <3>2. IsResolution(Resolve(t, strategy, fallback), S, strategy, fallback)
        BY <2>2, <2>3, <3>1, ResolutionIs DEF S
      <3>3. QED
        BY <2>6, <2>11, <3>2 DEF IsResolution
    <2> HIDE DEF limiting
    <2>12. (report.status = "SUCCESS" /\ strategy = "SHORTEST_RUL") => limiting # {}
      BY <2>8
    <2>13. \A b \in limiting : report.decision = b.decision
      BY <2>9
    <2>14. \A b \in limiting : l.strategy = "SHORTEST_RUL" =>
             \A c \in B : c.evaluation.usable => AtMost(RulOf(b), RulOf(c))
      BY <2>10
    <2>15. strategy # "EXPLICIT_POLICY_ORDER" =>
             \A t \in Reordered(s) : Resolve(t, strategy, fallback).limiting = l.limiting
      BY <2>11
    <2> USE DEF B, s, l, strategy, fallback, limiting
    <2>16. LimitingIsTheWorst <=>
             /\ (report.status = "SUCCESS" /\ strategy = "SHORTEST_RUL") => limiting # {}
             /\ \A b \in limiting :
                  /\ report.decision = b.decision
                  /\ l.strategy = "SHORTEST_RUL" =>
                       \A c \in B : c.evaluation.usable => AtMost(RulOf(b), RulOf(c))
             /\ strategy # "EXPLICIT_POLICY_ORDER" =>
                  \A t \in Reordered(s) : Resolve(t, strategy, fallback).limiting = l.limiting
      BY DEF LimitingIsTheWorst
    <2> HIDE DEF B, s, l, strategy, fallback, limiting
    <2>17. QED
      BY <2>12, <2>13, <2>14, <2>15, <2>16
  <1>2. QED
    BY <1>1, InitIsAssessed, StepIsAssessed, PTL DEF Spec

-----------------------------------------------------------------------------
(* The features and the estimate.                                          *)

\* Over time, and with nothing hidden, the line of the estimator is the series
\* of the quantity.
LEMMA LineIsSeries ==
  ASSUME NEW traj, NEW n, AreObservations(traj.obs, n), NEW c, Supported(c),
         FieldOfType[c.type] # "ratio", NEW cfg, cfg.cutoff = Absent, cfg.domain = "TIME"
  PROVE  LineOf(traj, c, cfg) = Series(traj, FieldOfType[c.type])
  <1> DEFINE field == FieldOfType[c.type]
             used == UsedOf(traj, c, cfg)
  <1>1. ResolvedDomain(traj, cfg) = "TIME"
    BY DomainsAre, DomainsAreNoMarks DEF ResolvedDomain
  <1>2. \A o : Level(o, c, field) = o.of[field] /\ Position(o, "TIME") = o.at /\ Known(o, cfg)
    BY DEF Level, Position, Known
  <1>3. DOMAIN traj.obs = 1..n
    BY SizeIs DEF AreObservations
  <1>4. \A i \in 1..n : traj.obs[i].at \in Nat
    BY DEF AreObservations, IsObservation
  <1>5. \A i \in 1..n : traj.obs[i].at # Absent
    BY <1>4, AbsentIsNoFraction
  <1> HIDE DEF field
  <1>6. {i \in DOMAIN traj.obs : Known(traj.obs[i], cfg)
                /\ Absent \notin {Level(traj.obs[i], c, field), Position(traj.obs[i], "TIME")}}
          = {i \in DOMAIN traj.obs : traj.obs[i].of[field] # Absent}
    BY <1>2, <1>3, <1>5
  <1>7. used = With(traj, field)
    BY <1>1, <1>6 DEF UsedOf, ObservationsUsed, With, Chosen, field
  <1> HIDE DEF used
  <1>8. PairsOf(used, c, field, "TIME") = [i \in DOMAIN used |-> <<used[i].at, used[i].of[field]>>]
    BY <1>2 DEF PairsOf
  <1>9. LineOf(traj, c, cfg) = PairsOf(used, c, field, "TIME")
    BY <1>1 DEF LineOf, used, field
  <1>10. QED
    BY <1>7, <1>8, <1>9 DEF Series, field

LEMMA NoSlopeAmong ==
  ASSUME NEW traj, NEW f, f.name = "ols_slope_per_day"
  PROVE  f \notin ContextFeatures(traj)
  <1>1. SUFFICES ASSUME f \in ContextFeatures(traj) PROVE FALSE
    OBVIOUS
  <1>2. PICK name \in Contexts :
          f \in LET s == ConditionsOf(traj, name) IN When(s # <<>>,
            CASE name = "cell" -> {Valid(name, "mean", MeanOf(s)), Valid(name, "range", RangeOf(s)),
                                   Valid(name, "max", Whole(Highest(s))),
                                   Valid(name, "min", Whole(Lowest(s)))}
              [] name = "ambient" -> {Valid(name, "mean", MeanOf(s))}
              [] name = "current" -> {Valid(name, "mean_absolute", MeanOf([i \in DOMAIN s |-> Abs(s[i])])),
                                      Valid(name, "max_discharge", Whole(Highest(<<0>> \o s))),
                                      Valid(name, "max_charge", Whole(-Lowest(<<0>> \o s)))}
              [] OTHER -> {Valid(name, "mean", MeanOf(s)), Valid(name, "range", RangeOf(s))})
    BY <1>1 DEF ContextFeatures
  <1> DEFINE s == ConditionsOf(traj, name)
             a == MeanOf(s)
             b == RangeOf(s)
             h == Whole(Highest(s))
             l == Whole(Lowest(s))
             d == MeanOf([i \in DOMAIN s |-> Abs(s[i])])
             u == Whole(Highest(<<0>> \o s))
             v == Whole(-Lowest(<<0>> \o s))
  <1>3. f \in When(s # <<>>,
            CASE name = "cell" -> {Valid(name, "mean", a), Valid(name, "range", b),
                                   Valid(name, "max", h), Valid(name, "min", l)}
              [] name = "ambient" -> {Valid(name, "mean", a)}
              [] name = "current" -> {Valid(name, "mean_absolute", d),
                                      Valid(name, "max_discharge", u), Valid(name, "max_charge", v)}
              [] OTHER -> {Valid(name, "mean", a), Valid(name, "range", b)})
    BY <1>2
  <1> HIDE DEF s, a, b, h, l, d, u, v
  <1>4. name \in {"cell", "ambient", "current", "soc", "voltage"}
    BY DEF Contexts
  <1>5. \A x, value : Valid(name, x, value).name = x
    BY DEF Valid, Feature
  <1>6. QED
    BY <1>3, <1>4, <1>5 DEF When

\* The slope of a quantity is the slope of its series.
LEMMA SlopeOfQuantity ==
  ASSUME NEW traj, NEW q \in Quantities, NEW f \in QuantityFeatures(traj, q)
  PROVE  f.of = q /\ (f.name = "ols_slope_per_day" => f.value = Slope(Series(traj, q)))
  <1> DEFINE series == Series(traj, q)
             days == Last(series)[1] - Head(series)[1]
             delta == IF Fades(q) THEN -SpanOf(series) ELSE SpanOf(series)
             cycles == Series(traj, "efc")
             hours == AmpereHourSeries(traj)
  <1>1. QuantityFeatures(traj, q) =
          IF Len(series) < MinObservations
          THEN {Feature(q, "delta", IF series = <<>> THEN "UNAVAILABLE" ELSE "INSUFFICIENT_DATA", Absent)}
          ELSE UNION {
            {Valid(q, "delta", Whole(delta)),
             Valid(q, "initial_value", Whole(Head(series)[2])),
             Valid(q, "latest_value", Whole(Last(series)[2]))},
            Rate(q, "rate_per_second", delta, days, SecondsPerDay),
            When(days > 0, Rate(q, "rate_per_day", delta, days, 1)),
            When(Len(cycles) >= 2, Rate(q, "rate_per_efc", delta, SpanOf(cycles), 1)),
            When(Len(hours) >= 2, Rate(q, "rate_per_ah", delta, SpanOf(hours), 1)),
            Trend(q, series, days),
            Rolling(q, series)}
    BY DEF QuantityFeatures
  <1> HIDE DEF series, days, delta, cycles, hours
  <1>2. \A name, status, value : /\ Feature(q, name, status, value).of = q
                                /\ Feature(q, name, status, value).name = name
    BY DEF Feature
  <1>3. \A name, value : /\ Valid(q, name, value).of = q /\ Valid(q, name, value).name = name
                        /\ Valid(q, name, value).value = value
    BY DEF Valid, Feature
  <1>4. \A name, change, span, scale : \A g \in Rate(q, name, change, span, scale) :
          g.of = q /\ g.name = name
    BY <1>2, <1>3 DEF Rate
  <1>5. \A g \in Trend(q, series, days) :
          g.of = q /\ (g.name = "ols_slope_per_day" => g.value = Slope(series))
    BY <1>3 DEF Trend, When
  <1>6. \A g \in Rolling(q, series) : g.of = q /\ g.name # "ols_slope_per_day"
    BY <1>3 DEF Rolling, When
  <1>7. CASE Len(series) < MinObservations
    BY <1>1, <1>2, <1>7
  <1>8. CASE ~(Len(series) < MinObservations)
    <2>1. \/ f \in {Valid(q, "delta", Whole(delta)),
                    Valid(q, "initial_value", Whole(Head(series)[2])),
                    Valid(q, "latest_value", Whole(Last(series)[2]))}
          \/ f \in Rate(q, "rate_per_second", delta, days, SecondsPerDay)
          \/ f \in Rate(q, "rate_per_day", delta, days, 1)
          \/ f \in Rate(q, "rate_per_efc", delta, SpanOf(cycles), 1)
          \/ f \in Rate(q, "rate_per_ah", delta, SpanOf(hours), 1)
          \/ f \in Trend(q, series, days)
          \/ f \in Rolling(q, series)
      BY <1>1, <1>8 DEF When
    <2>2. QED
      BY <1>3, <1>4, <1>5, <1>6, <2>1 DEF series
  <1>9. QED
    BY <1>7, <1>8

LEMMA SlopesAre ==
  ASSUME NEW traj, NEW q \in Quantities, NEW slope \in Grade(ExtractFeatures(traj), q, "ols_slope_per_day")
  PROVE  slope = Slope(Series(traj, q))
  <1>1. PICK f \in ExtractFeatures(traj) : f.of = q /\ f.name = "ols_slope_per_day" /\ f.value = slope
    BY DEF Grade
  <1>2. f \notin ContextFeatures(traj)
    BY <1>1, NoSlopeAmong
  <1>3. f \in UNION {QuantityFeatures(traj, x) : x \in Quantities}
    BY <1>1, <1>2 DEF ExtractFeatures, Valid, Feature
  <1>4. PICK x \in Quantities : f \in QuantityFeatures(traj, x)
    BY <1>3
  <1>5. f.of = x /\ f.value = Slope(Series(traj, x))
    BY <1>1, <1>4, SlopeOfQuantity
  <1>6. QED
    BY <1>1, <1>5

\* All that is filed of one part is its trajectory.
LEMMA OnePartIs ==
  ASSUME Typed, Len(job.parts) = 1, NEW records
  PROVE  \E m \in Nat \ {0} :
           /\ HasSize(Filed(records), m)
           /\ \A k \in 1..m : Filed(records)[k].traj = TrajectoryOf(job.parts[1], records)
  <1> DEFINE filed == Filed(records)
  <1>1. PICK m, q : FiledAs(q, m)
    BY FiledIs
  <1>2. m \in Nat \ {0} /\ q \in [1..m -> DOMAIN Put]
        /\ filed = [k \in 1..m |->
             [key |-> Put[q[k]].key, traj |-> TrajectoryOf(Put[Max(SameKey(q[k]))].part, records)]]
        /\ \A k \in 1..m : \E j \in DOMAIN job.parts : Put[Max(SameKey(q[k]))].part = job.parts[j]
    BY <1>1 DEF FiledAs
  <1>3. DOMAIN job.parts = 1..1
    <2>1. PICK n \in Nat \ {0} : HasSize(job.parts, n)
      BY PartsAre
    <2>2. DOMAIN job.parts = 1..n /\ Len(job.parts) = n
      BY <2>1, SizeIs
    <2>3. QED
      BY <2>2
  <1>4. \A k \in 1..m : Put[Max(SameKey(q[k]))].part = job.parts[1]
    BY <1>2, <1>3
  <1> HIDE DEF filed
  <1>5. HasSize(filed, m)
    BY <1>2 DEF HasSize
  <1>6. \A k \in 1..m : filed[k].traj = TrajectoryOf(job.parts[1], records)
    BY <1>2, <1>4
  <1>7. QED
    BY <1>2, <1>5, <1>6 DEF filed

\* The rate of an estimate over time is the slope of the series, towards the
\* end of life.
LEMMA RateIsSlope ==
  ASSUME NEW traj, NEW n, AreObservations(traj.obs, n), NEW c, IsCriterion(c),
         NEW cfg, IsConfig(cfg), cfg.cutoff = Absent, cfg.ols, cfg.domain = "TIME",
         FieldOf(c) # "ratio", NEW p, p = Estimate(traj, c, cfg), p.rate # Absent, Less(Zero, p.rate)
  PROVE  /\ FieldOf(c) \in Quantities /\ Slope(Series(traj, FieldOf(c))) \in Fraction
         /\ p.rate = RateTowardsEol(c, Slope(Series(traj, FieldOf(c))))
  <1>1. Estimates(p, traj, c, cfg)
    BY EstimateIs
  <1>2. Supported(c)
    <2>1. ASSUME ~Supported(c) PROVE FALSE
      <3>1. p = NoPrediction("INSUFFICIENT_DATA", "CYCLE")
        BY <2>1 DEF Estimate
      <3>2. QED
        BY <3>1, NoPredictionIs, DomainsAre DEF UsableStatuses
    <2>2. QED
      BY <2>1
  <1>3. FieldOf(c) \in Quantities /\ FieldOf(c) = FieldOfType[c.type]
    BY <1>2, FieldOfTypeIs
  <1>4. LineOf(traj, c, cfg) = Series(traj, FieldOf(c))
    BY <1>2, <1>3, LineIsSeries
  <1> DEFINE slope == Slope(Series(traj, FieldOf(c)))
  <1>5. slope \in Fraction /\ p.rate = Rounded(RateTowardsEol(c, slope))
    BY <1>1, <1>2, <1>4 DEF Estimates, FollowsTheLine
  <1> HIDE DEF slope
  <1>6. RateTowardsEol(c, slope) \in Fraction
    BY <1>5, MinusIs DEF RateTowardsEol
  <1>7. p.rate = RateTowardsEol(c, slope)
    BY <1>5, <1>6, RoundedIs
  <1>8. QED
    BY <1>3, <1>5, <1>7 DEF slope

\* The features draw the line that the estimate draws: a user who reads both
\* is told one slope.
THEOREM FeaturesFollowTheEstimate == Spec => []FeaturesAgreeWithEstimate
  <1>1. ASSUME IInv PROVE FeaturesAgreeWithEstimate
    <2> SUFFICES ASSUME Reported, job.config.cutoff = Absent, job.config.ols,
                        job.config.domain = "TIME", Len(job.parts) = 1, NEW b \in BundlesOf,
                        b.evaluation.prediction.rate # Absent,
                        Less(Zero, b.evaluation.prediction.rate), FieldOf(b.criterion) # "ratio",
                        NEW slope \in Grade(report.features, FieldOf(b.criterion), "ols_slope_per_day")
                 PROVE  SameAs(slope, IF Decreasing(b.criterion) THEN Minus(b.evaluation.prediction.rate)
                                      ELSE b.evaluation.prediction.rate)
      BY DEF FeaturesAgreeWithEstimate
    <2> DEFINE c == b.criterion
               e == b.evaluation
               rate == e.prediction.rate
               filed == Filed(history)
               traj == TrajectoryOf(job.parts[1], history)
               line == Slope(Series(traj, FieldOf(c)))
    <2>1. PICK n : AreRecords(history, n)
      BY <1>1 DEF IInv
    <2>2. Typed /\ ~Raises(history) /\ report.features = FeaturesOf(filed[1].traj)
          /\ report.bundles = [i \in DOMAIN job.portfolio |-> BundleOf(filed, job.portfolio[i])]
      BY <1>1, ReportIs
    <2>3. PICK i \in DOMAIN job.portfolio : b = BundleOf(filed, job.portfolio[i])
      BY <2>2 DEF BundlesOf
    <2>4. c = job.portfolio[i] /\ e = EvaluationOf(filed, c)
      BY <2>3, BundleIs
    <2>5. IsCriterion(c) /\ IsConfig(job.config)
      BY <2>2, <2>3, <2>4, CriteriaAre, ConfigIs
    <2>6. \A j \in DOMAIN job.parts : Extracts(job.parts[j], history)
      BY <2>2 DEF Raises, Prepared
    <2>7. PICK m \in Nat \ {0} : HasSize(filed, m) /\ \A k \in 1..m : filed[k].traj = traj
      BY <2>2, OnePartIs
    <2>8. PICK l \in Nat \ {0} : /\ HasSize(filed, l)
                                 /\ \A k \in 1..l : AreObservations(filed[k].traj.obs, n)
                                 /\ \A d : Match(filed, d) \in 0..l
      BY <2>1, <2>2, <2>6, FiledTyped
    <2>9. l = m
      BY <2>7, <2>8, SizeIs
    <2>10. AreObservations(traj.obs, n) /\ filed[1].traj = traj
      <3>1. 1 \in 1..m
        OBVIOUS
      <3>2. QED
        BY <2>7, <2>8, <2>9, <3>1
    <2>11. Match(filed, c) # 0 /\ e = Evaluate(filed[Match(filed, c)].traj, c, job.config)
      BY <2>4, MissingIs DEF EvaluationOf
    <2>12. Match(filed, c) \in 1..m
      BY <2>8, <2>9, <2>11
    <2>13. e.prediction = Estimate(traj, c, job.config)
      BY <2>7, <2>11, <2>12, EvaluationIs
    <2> HIDE DEF c, e, traj, filed
    <2>14. FieldOf(c) \in Quantities /\ line \in Fraction /\ rate = RateTowardsEol(c, line)
      <3> DEFINE p == e.prediction
                 cfg == job.config
      <3>1. p = Estimate(traj, c, cfg) /\ p.rate # Absent /\ Less(Zero, p.rate)
            /\ FieldOf(c) # "ratio"
        BY <2>13 DEF c, e
      <3>2. IsConfig(cfg) /\ cfg.cutoff = Absent /\ cfg.ols /\ cfg.domain = "TIME"
        BY <2>5
      <3> HIDE DEF p, cfg
      <3>3. AreObservations(traj.obs, n) /\ IsCriterion(c)
        BY <2>5, <2>10
      <3>4. FieldOf(c) \in Quantities /\ line \in Fraction /\ p.rate = RateTowardsEol(c, line)
        BY ONLY <3>1, <3>2, <3>3, RateIsSlope
      <3>5. QED
        BY <3>4 DEF p
    <2>15. slope = line
      <3>1. slope \in Grade(FeaturesOf(traj), FieldOf(c), "ols_slope_per_day")
        BY <2>2, <2>10 DEF c, filed
      <3>2. FeaturesOf(traj) = ExtractFeatures(traj) \/ FeaturesOf(traj) = {}
        BY DEF FeaturesOf
      <3>3. Grade({}, FieldOf(c), "ols_slope_per_day") = {}
        BY DEF Grade
      <3>4. slope \in Grade(ExtractFeatures(traj), FieldOf(c), "ols_slope_per_day")
        BY <3>1, <3>2, <3>3
      <3>5. QED
        BY <2>14, <3>4, SlopesAre
    <2> HIDE DEF line, rate
    <2>16. (IF Decreasing(c) THEN Minus(rate) ELSE rate) = line
      BY <2>14, MinusIs DEF RateTowardsEol
    <2>17. SameAs(slope, line)
      BY <2>14, <2>15, SameAsItself
    <2>18. QED
      BY <2>16, <2>17 DEF c, e, rate
  <1>2. QED
    BY <1>1, InitIsAssessed, StepIsAssessed, PTL DEF Spec

-----------------------------------------------------------------------------
(* What is later than the cutoff.                                          *)

LEMMA StrictWithin ==
  ASSUME NEW R, NEW U, StrictOrder(R, U), NEW S \in SUBSET U
  PROVE  StrictOrder(R, S)
  BY DEF StrictOrder

LEMMA ListsWithin ==
  ASSUME NEW q, NEW n, NEW S, NEW R, Lists(q, n, S, R), NEW Q,
         \A i, j \in S : <<i, j>> \in R => <<i, j>> \in Q
  PROVE  Lists(q, n, S, Q)
  <1>1. q \in [1..n -> S] /\ \A j, k \in 1..n : j < k => <<q[j], q[k]>> \in R
    BY DEF Lists
  <1>2. \A j \in 1..n : q[j] \in S
    BY <1>1
  <1>3. \A j, k \in 1..n : j < k => <<q[j], q[k]>> \in Q
    BY <1>1, <1>2
  <1>4. QED
    BY <1>3 DEF Lists

\* What is picked of a list is a list.
LEMMA ListsCompose ==
  ASSUME NEW q, NEW n, NEW U, NEW R, Lists(q, n, U, R),
         NEW J \in SUBSET (1..n), NEW p, NEW m, Lists(p, m, J, Upwards(J)),
         NEW S, S = {q[k] : k \in J}
  PROVE  Lists([k \in 1..m |-> q[p[k]]], m, S, R)
  <1> DEFINE w == [k \in 1..m |-> q[p[k]]]
  <1>1. m \in Nat /\ p \in [1..m -> J] /\ \A i \in J : \E k \in 1..m : p[k] = i
    BY DEF Lists
  <1>2. \A k \in 1..m : p[k] \in J /\ w[k] = q[p[k]]
    BY <1>1
  <1>3. w \in [1..m -> S]
    BY <1>2
  <1>4. \A i \in S : \E k \in 1..m : w[k] = i
    BY <1>1, <1>2
  <1>5. ASSUME NEW j \in 1..m, NEW k \in 1..m, j < k
        PROVE  <<w[j], w[k]>> \in R
    <2>1. <<p[j], p[k]>> \in Upwards(J)
      BY <1>5 DEF Lists
    <2>2. p[j] \in 1..n /\ p[k] \in 1..n /\ p[j] < p[k]
      BY <1>2, <2>1 DEF Upwards
    <2>3. <<q[p[j]], q[p[k]]>> \in R
      BY <2>2 DEF Lists
    <2>4. QED
      BY <1>2, <2>3
  <1> HIDE DEF w
  <1>6. Lists(w, m, S, R)
    BY <1>1, <1>3, <1>4, <1>5 DEF Lists
  <1>7. QED
    BY <1>6 DEF w

\* What is picked after a sort is listed by time and, in one moment, as it came.
SortedPick(x, T) ==
  Picked(SortedByTime(x), {i \in DOMAIN SortedByTime(x) : SortedByTime(x)[i] \in T})
AsTimed(w, m, x, n, T) ==
  /\ Lists(w, m, {i \in 1..n : x[i] \in T}, Stable(Sooner(x), 1..n))
  /\ SortedPick(x, T) = [k \in 1..m |-> x[w[k]]]

LEMMA SortedPickIs ==
  ASSUME NEW x, NEW n, AreObservations(x, n), NEW T
  PROVE  \E m, w : AsTimed(w, m, x, n, T)
  <1> DEFINE B == Sooner(x)
             t == SortedByTime(x)
             J == {i \in 1..n : t[i] \in T}
             S == {i \in 1..n : x[i] \in T}
  <1>1. n \in Nat /\ DOMAIN x = 1..n /\ WeakOrder(B, 1..n) /\ t = Ranked(x, B)
    BY SizeIs, SoonerIsWeak DEF AreObservations
  <1> HIDE DEF B, t
  <1>1a. PICK q : Sorts(q, t, x, B, n)
    BY ONLY <1>1, RankedIs
  <1>2. Lists(q, n, 1..n, Stable(B, 1..n)) /\ t = [k \in 1..n |-> x[q[k]]]
    BY ONLY <1>1a DEF Sorts
  <1>3. DOMAIN t = 1..n /\ \A k \in 1..n : t[k] = x[q[k]]
    BY <1>2
  <1>4. q \in [1..n -> 1..n] /\ \A i \in 1..n : \E k \in 1..n : q[k] = i
    BY <1>2 DEF Lists
  <1>5. S = {q[k] : k \in J}
    <2>1. ASSUME NEW k \in J PROVE q[k] \in S
      BY <1>3, <1>4
    <2>2. ASSUME NEW i \in S PROVE \E k \in J : i = q[k]
      <3>1. PICK k \in 1..n : q[k] = i
        BY <1>4
      <3>2. QED
        BY <1>3, <3>1
    <2> HIDE DEF S, J
    <2>3. QED
      BY <2>1, <2>2
  <1>6. J \in SUBSET (1..n) /\ IsFiniteSet(1..n) /\ (1..n) \in SUBSET Nat
    BY <1>1, FS_Interval
  <1>7. J \in SUBSET Nat /\ IsFiniteSet(J)
    BY <1>6, FS_Subset
  <1> HIDE DEF S, J
  <1>8. PICK m, p : m \in Nat /\ Picks(p, m, J)
    BY <1>7, PickedIs
  <1>9. Lists(p, m, J, Upwards(J)) /\ Picked(t, J) = [k \in 1..m |-> t[p[k]]]
    BY <1>8 DEF Picks
  <1> DEFINE w == [k \in 1..m |-> q[p[k]]]
  <1>10. Lists(w, m, S, Stable(B, 1..n))
    BY <1>2, <1>5, <1>6, <1>9, ListsCompose
  <1>11. \A k \in 1..m : p[k] \in 1..n
    BY <1>6, <1>9 DEF Lists
  <1>12. Picked(t, J) = [k \in 1..m |-> x[w[k]]]
    BY <1>3, <1>9, <1>11
  <1>13. SortedPick(x, T) = Picked(t, J)
    BY <1>3 DEF SortedPick, J, t
  <1> HIDE DEF w
  <1>14. AsTimed(w, m, x, n, T)
    BY <1>10, <1>12, <1>13 DEF AsTimed, S, B
  <1>15. QED
    BY <1>14

\* One more observation, that is not picked, changes nothing.
LEMMA LaterIsNotPicked ==
  ASSUME NEW x, NEW n, AreObservations(x, n), NEW y, AreObservations(y, n + 1),
         \A k \in 1..n : y[k] = x[k], NEW T, y[n + 1] \notin T
  PROVE  /\ SortedPick(y, T) = SortedPick(x, T)
         /\ Picked(y, {i \in DOMAIN y : y[i] \in T}) = Picked(x, {i \in DOMAIN x : x[i] \in T})
  <1> DEFINE S == {i \in 1..n : x[i] \in T}
             Q == Stable(Sooner(x), 1..n)
             R == Stable(Sooner(y), 1..(n + 1))
  <1>1. n \in Nat /\ DOMAIN x = 1..n /\ DOMAIN y = 1..(n + 1)
    BY SizeIs DEF AreObservations
  <1>2. {i \in 1..(n + 1) : y[i] \in T} = S
    <2>1. \A i \in 1..(n + 1) : i \in 1..n \/ i = n + 1
      BY <1>1
    <2>2. \A i \in 1..n : i \in 1..(n + 1)
      BY <1>1
    <2>3. QED
      BY <2>1, <2>2
  <1>3. S \in SUBSET (1..n) /\ S \in SUBSET (1..(n + 1)) /\ S \in SUBSET Nat /\ IsFiniteSet(S)
    <2>1. S \in SUBSET (1..n) /\ IsFiniteSet(1..n)
      BY <1>1, FS_Interval
    <2>2. (1..n) \in SUBSET Nat /\ (1..n) \in SUBSET (1..(n + 1))
      BY <1>1
    <2> HIDE DEF S
    <2>3. QED
      BY <2>1, <2>2, FS_Subset
  <1>4. Picked(y, {i \in DOMAIN y : y[i] \in T}) = Picked(x, {i \in DOMAIN x : x[i] \in T})
    <2>1. {i \in DOMAIN y : y[i] \in T} = S /\ {i \in DOMAIN x : x[i] \in T} = S
      BY <1>1, <1>2
    <2> HIDE DEF S
    <2>2. PICK m, p : m \in Nat /\ Picks(p, m, S)
      BY <1>3, PickedIs
    <2>3. p \in [1..m -> S] /\ Picked(y, S) = [k \in 1..m |-> y[p[k]]]
          /\ Picked(x, S) = [k \in 1..m |-> x[p[k]]]
      BY <2>2 DEF Picks, Lists
    <2>4. \A k \in 1..m : y[p[k]] = x[p[k]]
      BY <1>3, <2>3
    <2>5. QED
      BY <2>1, <2>3, <2>4
  <1>5. SortedPick(y, T) = SortedPick(x, T)
    <2>1. PICK m, w : AsTimed(w, m, x, n, T)
      BY SortedPickIs
    <2>2. PICK l, v : AsTimed(v, l, y, n + 1, T)
      BY SortedPickIs
    <2>3. Lists(w, m, S, Q) /\ SortedPick(x, T) = [k \in 1..m |-> x[w[k]]]
      BY <2>1 DEF AsTimed
    <2>4. Lists(v, l, S, R) /\ SortedPick(y, T) = [k \in 1..l |-> y[v[k]]]
      BY <1>2, <2>2 DEF AsTimed
    <2>5. StrictOrder(Q, S)
      <3>1. WeakOrder(Sooner(x), 1..n) /\ (1..n) \in SUBSET Nat
        BY <1>1, SoonerIsWeak
      <3>2. StrictOrder(Q, 1..n)
        BY <3>1, StableIsStrict
      <3> HIDE DEF Q, S
      <3>3. QED
        BY <1>3, <3>2, StrictWithin
    <2>6. \A i, j \in S : <<i, j>> \in R => <<i, j>> \in Q
      <3>1. \A i, j \in 1..n : <<i, j>> \in Sooner(y) <=> <<i, j>> \in Sooner(x)
        <4>1. \A i \in 1..n : i \in 1..(n + 1)
          BY <1>1
        <4>2. QED
          BY <1>1, <4>1 DEF Sooner
      <3>2. \A i, j \in 1..n : <<i, j>> \in R => <<i, j>> \in Q
        <4> SUFFICES ASSUME NEW i \in 1..n, NEW j \in 1..n, <<i, j>> \in R PROVE <<i, j>> \in Q
          OBVIOUS
        <4>1. <<i, j>> \in Sooner(y) \/ (<<j, i>> \notin Sooner(y) /\ i < j)
          BY DEF Stable
        <4>2. <<i, j>> \in Sooner(x) \/ (<<j, i>> \notin Sooner(x) /\ i < j)
          BY <3>1, <4>1
        <4>3. QED
          BY <4>2, StableIs
      <3> HIDE DEF Q, R, S
      <3>3. QED
        BY <1>3, <3>2
    <2> HIDE DEF S, Q, R
    <2>7. Lists(v, l, S, Q)
      BY <2>4, <2>6, ListsWithin
    <2>8. l = m /\ w = v
      BY <2>3, <2>5, <2>7, ListedOnce
    <2>9. \A k \in 1..m : w[k] \in 1..n
      BY <1>3, <2>3 DEF Lists
    <2>10. \A k \in 1..m : y[w[k]] = x[w[k]]
      BY <2>9
    <2>11. QED
      BY <2>3, <2>4, <2>8, <2>10
  <1>6. QED
    BY <1>4, <1>5

Ordered(x, sorted) == IF sorted THEN SortedByTime(x) ELSE x
PickedOf(x, sorted, T) ==
  IF sorted THEN SortedPick(x, T) ELSE Picked(x, {i \in DOMAIN x : x[i] \in T})

LEMMA UsedIsPicked ==
  ASSUME NEW x, NEW n, AreObservations(x, n), NEW sorted \in BOOLEAN, NEW type,
         NEW c, NEW domain, NEW cfg, NEW T,
         \A i \in 1..n : Usable(x[i], c, domain, cfg) <=> x[i] \in T
  PROVE  ObservationsUsed([type |-> type, obs |-> Ordered(x, sorted)], c, domain, cfg)
           = PickedOf(x, sorted, T)
  <1> DEFINE obs == Ordered(x, sorted)
  <1>1. \A i \in DOMAIN obs : Usable(obs[i], c, domain, cfg) <=> obs[i] \in T
    <2>1. DOMAIN x = 1..n
      BY SizeIs DEF AreObservations
    <2>2. CASE ~sorted
      BY <2>1, <2>2 DEF Ordered
    <2>3. CASE sorted
      <3>1. obs = SortedByTime(x)
        BY <2>3 DEF Ordered
      <3> HIDE DEF obs
      <3>2. Rearranges(obs, x, n)
        BY <3>1, SortedByTimeHas
      <3>3. DOMAIN obs = 1..n /\ \A k \in 1..n : \E i \in 1..n : obs[k] = x[i]
        BY <3>2, SizeIs DEF Rearranges
      <3>4. \A i \in DOMAIN obs : Usable(obs[i], c, domain, cfg) <=> obs[i] \in T
        BY <3>3
      <3>5. QED
        BY <3>4 DEF obs
    <2>4. QED
      BY <2>2, <2>3
  <1> HIDE DEF obs
  <1>2. {i \in DOMAIN obs : Usable(obs[i], c, domain, cfg)} = {i \in DOMAIN obs : obs[i] \in T}
    BY <1>1
  <1>3. ObservationsUsed([type |-> type, obs |-> obs], c, domain, cfg) =
          Picked(obs, {i \in DOMAIN obs : Usable(obs[i], c, domain, cfg)})
    BY DEF ObservationsUsed, Chosen, Usable
  <1>4. QED
    BY <1>2, <1>3 DEF obs, Ordered, PickedOf, SortedPick

LEMMA LaterIsNotUsed ==
  ASSUME NEW x, NEW n, AreObservations(x, n), NEW y, AreObservations(y, n + 1),
         \A k \in 1..n : y[k] = x[k], NEW sorted \in BOOLEAN, NEW type,
         NEW c, NEW domain, NEW cfg, ~Usable(y[n + 1], c, domain, cfg)
  PROVE  ObservationsUsed([type |-> type, obs |-> Ordered(y, sorted)], c, domain, cfg)
           = ObservationsUsed([type |-> type, obs |-> Ordered(x, sorted)], c, domain, cfg)
  <1> DEFINE S == {k \in 1..n : Usable(x[k], c, domain, cfg)}
             T == {x[k] : k \in S}
  <1>1. n \in Nat
    BY SizeIs DEF AreObservations
  <1>2. \A o \in T : Usable(o, c, domain, cfg)
    OBVIOUS
  <1>3. \A i \in 1..n : Usable(x[i], c, domain, cfg) => x[i] \in T
    OBVIOUS
  <1> HIDE DEF T, S
  <1>4. \A i \in 1..n : Usable(x[i], c, domain, cfg) <=> x[i] \in T
    BY <1>2, <1>3
  <1>5. y[n + 1] \notin T
    BY <1>2
  <1>6. \A i \in 1..(n + 1) : Usable(y[i], c, domain, cfg) <=> y[i] \in T
    <2>1. \A i \in 1..(n + 1) : i \in 1..n \/ i = n + 1
      BY <1>1
    <2>2. QED
      BY <1>4, <1>5, <2>1
  <1>7. ObservationsUsed([type |-> type, obs |-> Ordered(x, sorted)], c, domain, cfg)
          = PickedOf(x, sorted, T)
    BY <1>4, UsedIsPicked
  <1>8. ObservationsUsed([type |-> type, obs |-> Ordered(y, sorted)], c, domain, cfg)
          = PickedOf(y, sorted, T)
    BY <1>6, UsedIsPicked
  <1>9. SortedPick(y, T) = SortedPick(x, T)
        /\ Picked(y, {i \in DOMAIN y : y[i] \in T}) = Picked(x, {i \in DOMAIN x : x[i] \in T})
    BY <1>5, LaterIsNotPicked
  <1>10. QED
    BY <1>7, <1>8, <1>9 DEF PickedOf

\* g is the records of h and a later one that a cutoff hides.
Hides(g, h, n) ==
  /\ AreRecords(h, n) /\ AreRecords(g, n + 1) /\ \A k \in 1..n : g[k] = h[k]
  /\ job.config.cutoff # Absent /\ ~(TimeOf(g[n + 1]) <= job.config.cutoff)

\* No criterion is estimated from what is later than the cutoff.
LEMMA LaterIsNotEstimated ==
  ASSUME Typed, NEW g, NEW h, NEW n, Hides(g, h, n), NEW part, IsPart(part, job.form),
         Extracts(part, g), Extracts(part, h), NEW c, NEW domain
  PROVE  ObservationsUsed(TrajectoryOf(part, g), c, domain, job.config)
           = ObservationsUsed(TrajectoryOf(part, h), c, domain, job.config)
  <1> DEFINE x == AsTheyCome(part, h)
             y == AsTheyCome(part, g)
             sorted == InTime(part)
             type == TypeOfPart(part)
  <1>1. AreRecords(h, n) /\ AreRecords(g, n + 1) /\ (\A k \in 1..n : g[k] = h[k])
        /\ job.config.cutoff # Absent /\ ~(TimeOf(g[n + 1]) <= job.config.cutoff)
    BY DEF Hides
  <1>2. AreObservations(x, n) /\ AreObservations(y, n + 1)
    BY <1>1, TrajectoryTyped
  <1>3. n \in Nat /\ DOMAIN h = 1..n /\ DOMAIN g = 1..(n + 1) /\ n + 1 \in 1..(n + 1)
        /\ \A k \in 1..n : k \in 1..(n + 1)
    BY <1>1, SizeIs DEF AreRecords
  <1>4. job.form \in {"history", "quantities", "observations"}
    BY JobIs
  <1>5. ASSUME NEW k \in 1..n
        PROVE  y[k] = x[k]
    <2>1. g[k] = h[k] /\ k \in DOMAIN g /\ k \in DOMAIN h
      BY <1>1, <1>3
    <2>2. CASE job.form = "observations"
      BY <2>1, <2>2 DEF AsTheyCome, Observed
    <2>3. CASE job.form # "observations"
      <3>1. n # 0 /\ 1 \in 1..n
        BY <1>3
      <3>2. Head(g) = g[1] /\ Head(h) = h[1]
        BY <1>1, <1>3, <3>1, SizeIs DEF AreRecords
      <3>3. Head(g) = Head(h)
        BY <1>1, <3>1, <3>2
      <3>4. AgeOf(g, g[k]) = AgeOf(h, h[k])
        BY <2>1, <3>3 DEF AgeOf
      <3>5. QED
        BY <2>1, <2>3, <3>4 DEF AsTheyCome
    <2>4. QED
      BY <2>2, <2>3
  <1>6. y[n + 1].at = TimeOf(g[n + 1])
    BY <1>3, <1>4 DEF AsTheyCome, Observed, Obs, TimeOf
  <1>7. TrajectoryOf(part, h) = [type |-> type, obs |-> Ordered(x, sorted)]
        /\ TrajectoryOf(part, g) = [type |-> type, obs |-> Ordered(y, sorted)]
    BY <1>4, TrajectoryIs DEF Ordered
  <1>8. ~Usable(y[n + 1], c, domain, job.config)
    BY <1>1, <1>6 DEF Usable, Known
  <1> DEFINE in == IF sorted THEN TRUE ELSE FALSE
  <1>9. in \in BOOLEAN /\ Ordered(x, sorted) = Ordered(x, in) /\ Ordered(y, sorted) = Ordered(y, in)
    BY DEF Ordered
  <1> HIDE DEF x, y, sorted, type, in
  <1>10. ObservationsUsed([type |-> type, obs |-> Ordered(y, in)], c, domain, job.config)
           = ObservationsUsed([type |-> type, obs |-> Ordered(x, in)], c, domain, job.config)
    BY <1>2, <1>5, <1>8, <1>9, LaterIsNotUsed
  <1>11. QED
    BY <1>7, <1>9, <1>10

\* What is foreseen, and what is foreseen of nothing.
Outlook(p) == [status |-> p.status, rul |-> p.rul]
NoOutlook == [status |-> "INSUFFICIENT_DATA", rul |-> Absent]

LEMMA EmptyPart ==
  ASSUME NEW s, NEW n, HasSize(s, n), NEW S \in SUBSET (1..n)
  PROVE  Picked(s, S) = <<>> <=> S = {}
  <1>1. PICK m \in 0..n : IsPartOf(Picked(s, S), m, s, S) /\ (m = 0 <=> S = {})
    BY PartHas
  <1>2. Picked(s, S) = <<>> <=> m = 0
    BY <1>1, SizeIs DEF IsPartOf
  <1>3. QED
    BY <1>1, <1>2

LEMMA NothingIsForeseen ==
  ASSUME NEW traj, NEW c, NEW cfg, cfg.domain \in DOMAIN UnitOf,
         Supported(c) => ObservationsUsed(traj, c, cfg.domain, cfg) = <<>>
  PROVE  Outlook(Estimate(traj, c, cfg)) = NoOutlook
  <1>1. \A domain : Outlook(NoPrediction("INSUFFICIENT_DATA", domain)) = NoOutlook
    BY DEF Outlook, NoOutlook, NoPrediction, Prediction
  <1>2. CASE ~Supported(c)
    <2>1. Estimate(traj, c, cfg) = NoPrediction("INSUFFICIENT_DATA", "CYCLE")
      BY <1>2 DEF Estimate
    <2>2. QED
      BY <1>1, <2>1
  <1>3. CASE Supported(c)
    <2>1. ResolvedDomain(traj, cfg) = cfg.domain
      BY DomainsAreNoMarks DEF ResolvedDomain
    <2>2. PairsOf(<<>>, c, FieldOfType[c.type], cfg.domain) = <<>>
      BY DEF PairsOf
    <2>3. Estimate(traj, c, cfg) = NoPrediction("INSUFFICIENT_DATA", cfg.domain)
      BY <1>3, <2>1, <2>2 DEF Estimate
    <2>4. QED
      BY <1>1, <2>3
  <1>4. QED
    BY <1>2, <1>3

LEMMA UsedIsAll ==
  ASSUME NEW traj, NEW other, NEW c, NEW cfg, cfg.domain \in DOMAIN UnitOf,
         ObservationsUsed(traj, c, cfg.domain, cfg) = ObservationsUsed(other, c, cfg.domain, cfg)
  PROVE  Estimate(traj, c, cfg) = Estimate(other, c, cfg)
  <1>1. ResolvedDomain(traj, cfg) = cfg.domain /\ ResolvedDomain(other, cfg) = cfg.domain
    BY DomainsAreNoMarks DEF ResolvedDomain
  <1>2. QED
    BY <1>1 DEF Estimate

\* What an evaluation foresees.
LEMMA OutlookIs ==
  ASSUME job.config.domain \in DOMAIN UnitOf, NEW filed, NEW c
  PROVE  Outlook(EvaluationOf(filed, c).prediction) =
           IF Match(filed, c) = 0 THEN NoOutlook
           ELSE Outlook(Estimate(filed[Match(filed, c)].traj, c, job.config))
  <1> DEFINE place == Match(filed, c)
             traj == filed[place].traj
  <1>1. Outlook(MissingData.prediction) = NoOutlook
    BY MissingIs DEF Outlook, NoOutlook
  <1>2. CASE place = 0
    BY <1>1, <1>2 DEF EvaluationOf
  <1>3. CASE place # 0 /\ traj.obs = <<>>
    <2>1. EvaluationOf(filed, c) = MissingData
      BY <1>3 DEF EvaluationOf
    <2>2. HasSize(traj.obs, 0)
      BY <1>3 DEF HasSize
    <2> HIDE DEF traj
    <2>3. {i \in DOMAIN traj.obs : Usable(traj.obs[i], c, job.config.domain, job.config)} = {}
      BY <1>3
    <2>4. Picked(traj.obs, {}) = <<>>
      BY <2>2, EmptyPart
    <2>5. ObservationsUsed(traj, c, job.config.domain, job.config) = <<>>
      BY <2>3, <2>4 DEF ObservationsUsed, Chosen, Usable
    <2>6. Outlook(Estimate(traj, c, job.config)) = NoOutlook
      BY <2>5, NothingIsForeseen
    <2>7. QED
      BY <1>1, <1>3, <2>1, <2>6 DEF traj
  <1>4. CASE place # 0 /\ traj.obs # <<>>
    <2>1. EvaluationOf(filed, c) = Evaluate(traj, c, job.config)
      BY <1>4 DEF EvaluationOf
    <2>2. EvaluationOf(filed, c).prediction = Estimate(traj, c, job.config)
      BY <2>1, EvaluationIs
    <2>3. QED
      BY <1>4, <2>2
  <1>5. QED
    BY <1>2, <1>3, <1>4

\* A trajectory of many channels without the one of a criterion foresees nothing.
LEMMA UnservedIs ==
  ASSUME job.config.domain \in DOMAIN UnitOf, NEW traj, NEW n, AreObservations(traj.obs, n),
         NEW c, traj.type = "MULTIVARIATE", ~Serves(traj, c)
  PROVE  Outlook(Estimate(traj, c, job.config)) = NoOutlook
  <1>1. HasSize(traj.obs, n) /\ DOMAIN traj.obs = 1..n
    BY SizeIs DEF AreObservations
  <1>2. SUFFICES ASSUME Supported(c)
                 PROVE  ObservationsUsed(traj, c, job.config.domain, job.config) = <<>>
    BY NothingIsForeseen
  <1> DEFINE field == FieldOfType[c.type]
  <1>3. field \in Fields /\ FieldOf(c) = field
    BY <1>2, FieldOfTypeIs
  <1>4. With(traj, field) = <<>> /\ (field = "ratio" => With(traj, "r0") = <<>>)
    BY <1>3 DEF Serves, Holds
  <1> HIDE DEF field
  <1>5. ASSUME NEW f, With(traj, f) = <<>>, NEW i \in 1..n
        PROVE  traj.obs[i].of[f] = Absent
    <2> DEFINE S == {k \in 1..n : traj.obs[k].of[f] # Absent}
    <2>1. Picked(traj.obs, S) = <<>>
      BY <1>1, <1>5 DEF With, Chosen
    <2>2. S \in SUBSET (1..n)
      OBVIOUS
    <2>3. S = {}
      <3> HIDE DEF S
      <3>1. QED
        BY <1>1, <2>1, <2>2, EmptyPart
    <2>4. QED
      BY <2>3
  <1>6. ASSUME NEW i \in 1..n
        PROVE  Level(traj.obs[i], c, field) = Absent
    <2>1. traj.obs[i].of[field] = Absent /\ (field = "ratio" => traj.obs[i].of["r0"] = Absent)
      BY <1>4, <1>5
    <2>2. QED
      BY <2>1 DEF Level
  <1>7. {i \in DOMAIN traj.obs : Usable(traj.obs[i], c, job.config.domain, job.config)} = {}
    BY <1>1, <1>6 DEF Usable, field
  <1>8. Picked(traj.obs, {}) = <<>>
    BY <1>1, EmptyPart
  <1>9. QED
    BY <1>7, <1>8 DEF ObservationsUsed, Chosen, Usable

\* Two ways the same parts are filed, which foresee the same of a criterion.
Corresponds(f, h, m, c) ==
  /\ HasSize(f, m) /\ HasSize(h, m)
  /\ \A k \in 1..m : /\ f[k].key = h[k].key /\ f[k].traj.type = h[k].traj.type
                     /\ Estimate(f[k].traj, c, job.config) = Estimate(h[k].traj, c, job.config)

LEMMA PlacesCorrespond ==
  ASSUME NEW f, NEW h, NEW m, NEW c, Corresponds(f, h, m, c)
  PROVE  WithId(f, c) = WithId(h, c) /\ UnderType(f, c) = UnderType(h, c) /\ OfType(f, c) = OfType(h, c)
  <1>1. Len(f) = m /\ Len(h) = m
    BY SizeIs DEF Corresponds
  <1>2. \A k \in 1..m : f[k].key = h[k].key /\ f[k].traj.type = h[k].traj.type
    BY DEF Corresponds
  <1>3. {k \in 1..Len(f) : f[k].key = c.id} = {k \in 1..Len(h) : h[k].key = c.id}
    BY <1>1, <1>2
  <1>4. {k \in 1..Len(f) : f[k].key = TypeExpected(c)} = {k \in 1..Len(h) : h[k].key = TypeExpected(c)}
    BY <1>1, <1>2
  <1>5. {k \in 1..Len(f) : f[k].traj.type = TypeExpected(c)} = {k \in 1..Len(h) : h[k].traj.type = TypeExpected(c)}
    BY <1>1, <1>2
  <1>6. QED
    BY <1>3, <1>4, <1>5 DEF WithId, UnderType, OfType

\* Where no trajectory has many channels, the match does not read them.
LEMMA PlainOutlooks ==
  ASSUME job.config.domain \in DOMAIN UnitOf, NEW f, NEW h, NEW m, NEW c, Corresponds(f, h, m, c),
         \A k \in 1..m : h[k].traj.type # "MULTIVARIATE"
  PROVE  Outlook(EvaluationOf(f, c).prediction) = Outlook(EvaluationOf(h, c).prediction)
  <1>1. Len(f) = m /\ Len(h) = m /\ m \in Nat /\ HasSize(f, m) /\ HasSize(h, m)
    BY SizeIs DEF Corresponds
  <1>2. \A k \in 1..m : ~Serves(f[k].traj, c) /\ ~Serves(h[k].traj, c)
    BY DEF Corresponds, Serves
  <1>3. {k \in 1..Len(f) : Serves(f[k].traj, c)} = {k \in 1..Len(h) : Serves(h[k].traj, c)}
    BY <1>1, <1>2
  <1>4. Serving(f, c) = Serving(h, c)
    BY <1>3 DEF Serving
  <1>5. WithId(f, c) = WithId(h, c) /\ UnderType(f, c) = UnderType(h, c) /\ OfType(f, c) = OfType(h, c)
    BY PlacesCorrespond
  <1>6. Match(f, c) = Match(h, c) /\ Match(f, c) \in 0..m
    BY <1>1, <1>4, <1>5, MatchIs
  <1> DEFINE place == Match(f, c)
  <1>7. place # 0 => Estimate(f[place].traj, c, job.config) = Estimate(h[place].traj, c, job.config)
    <2>1. place # 0 => place \in 1..m
      BY <1>1, <1>6
    <2>2. QED
      BY <2>1 DEF Corresponds
  <1>8. QED
    BY <1>6, <1>7, OutlookIs

\* Where all trajectories are one, it does not matter which is matched.
LEMMA UnmatchedIs ==
  ASSUME job.config.domain \in DOMAIN UnitOf, NEW f, NEW h, NEW m \in Nat \ {0}, NEW c,
         Corresponds(f, h, m, c), NEW n, NEW traj, AreObservations(traj.obs, n),
         \A k \in 1..m : f[k].traj = traj, Match(f, c) = 0, Match(h, c) # 0
  PROVE  Outlook(Estimate(traj, c, job.config)) = NoOutlook
  <1>1. Len(f) = m /\ Len(h) = m /\ HasSize(f, m) /\ HasSize(h, m) /\ 1 \in 1..m
    BY SizeIs DEF Corresponds
  <1>2. WithId(f, c) = WithId(h, c) /\ UnderType(f, c) = UnderType(h, c) /\ OfType(f, c) = OfType(h, c)
    BY PlacesCorrespond
  <1>3. Serving(f, c) = 0 /\ Serving(h, c) # 0
    <2>1. /\ Match(f, c) = IF WithId(f, c) # 0 THEN WithId(f, c)
                           ELSE IF UnderType(f, c) # 0 THEN UnderType(f, c)
                           ELSE IF Serving(f, c) # 0 THEN Serving(f, c)
                           ELSE OfType(f, c)
          /\ Match(h, c) = IF WithId(h, c) # 0 THEN WithId(h, c)
                           ELSE IF UnderType(h, c) # 0 THEN UnderType(h, c)
                           ELSE IF Serving(h, c) # 0 THEN Serving(h, c)
                           ELSE OfType(h, c)
      BY <1>1, MatchIs
    <2>2. QED
      BY <1>2, <2>1
  <1>4. {k \in 1..m : Serves(f[k].traj, c)} = {} /\ {k \in 1..m : Serves(h[k].traj, c)} # {}
    BY <1>1, <1>3, FirstInIs DEF Serving
  <1>5. ~Serves(traj, c)
    BY <1>1, <1>4
  <1>6. PICK k \in 1..m : Serves(h[k].traj, c)
    BY <1>4
  <1>7. traj.type = "MULTIVARIATE"
    BY <1>6 DEF Serves, Corresponds
  <1>8. QED
    BY <1>5, <1>7, UnservedIs

LEMMA AlikeOutlooks ==
  ASSUME job.config.domain \in DOMAIN UnitOf, NEW f, NEW h, NEW m \in Nat \ {0}, NEW c,
         Corresponds(f, h, m, c), Corresponds(h, f, m, c),
         NEW a, NEW t, AreObservations(t.obs, a), \A k \in 1..m : f[k].traj = t,
         NEW b, NEW u, AreObservations(u.obs, b), \A k \in 1..m : h[k].traj = u
  PROVE  Outlook(EvaluationOf(f, c).prediction) = Outlook(EvaluationOf(h, c).prediction)
  <1>1. HasSize(f, m) /\ HasSize(h, m) /\ 1 \in 1..m
    BY DEF Corresponds
  <1>2. Match(f, c) \in 0..m /\ Match(h, c) \in 0..m
    BY <1>1, MatchIs
  <1>3. Match(f, c) # 0 => f[Match(f, c)].traj = t
    BY <1>2
  <1>4. Match(h, c) # 0 => h[Match(h, c)].traj = u
    BY <1>2
  <1>5. Estimate(t, c, job.config) = Estimate(u, c, job.config)
    BY <1>1 DEF Corresponds
  <1>6. Match(f, c) = 0 /\ Match(h, c) # 0 => Outlook(Estimate(t, c, job.config)) = NoOutlook
    BY UnmatchedIs
  <1>7. Match(h, c) = 0 /\ Match(f, c) # 0 => Outlook(Estimate(u, c, job.config)) = NoOutlook
    BY UnmatchedIs
  <1>8. QED
    BY <1>3, <1>4, <1>5, <1>6, <1>7, OutlookIs

\* The part that is filed at a place, and the two ways its trajectory is read.
LEMMA FiledCorresponds ==
  ASSUME Typed, NEW g, NEW h, NEW n, Hides(g, h, n), job.config.domain \in DOMAIN UnitOf,
         NEW m, NEW q, FiledAs(q, m),
         \A j \in DOMAIN job.parts : Extracts(job.parts[j], g) /\ Extracts(job.parts[j], h), NEW c
  PROVE  /\ Corresponds(Filed(g), Filed(h), m, c)
         /\ \A k \in 1..m : \E j \in DOMAIN job.parts :
              /\ Filed(g)[k].traj = TrajectoryOf(job.parts[j], g)
              /\ Filed(h)[k].traj = TrajectoryOf(job.parts[j], h)
              /\ Filed(h)[k].traj.type = TypeOfPart(job.parts[j])
  <1> DEFINE a == Filed(g)
             b == Filed(h)
             of(k) == Put[Max(SameKey(q[k]))].part
  <1>1. m \in Nat \ {0} /\ \A k \in 1..m : \E j \in DOMAIN job.parts : of(k) = job.parts[j]
    BY DEF FiledAs
  <1>2. /\ a = [k \in 1..m |-> [key |-> Put[q[k]].key, traj |-> TrajectoryOf(of(k), g)]]
        /\ b = [k \in 1..m |-> [key |-> Put[q[k]].key, traj |-> TrajectoryOf(of(k), h)]]
    BY DEF FiledAs
  <1> HIDE DEF a, b, of
  <1>3. HasSize(a, m) /\ HasSize(b, m)
    BY <1>1, <1>2 DEF HasSize
  <1>4. \A k \in 1..m : /\ a[k].key = b[k].key
                        /\ a[k].traj = TrajectoryOf(of(k), g) /\ b[k].traj = TrajectoryOf(of(k), h)
    BY <1>2
  <1>5. job.form \in {"history", "quantities", "observations"}
    BY JobIs
  <1>6. \A part, records : TrajectoryOf(part, records).type = TypeOfPart(part)
    BY <1>5, TrajectoryIs
  <1>7. ASSUME NEW k \in 1..m
        PROVE  Estimate(a[k].traj, c, job.config) = Estimate(b[k].traj, c, job.config)
    <2>1. PICK j \in DOMAIN job.parts : of(k) = job.parts[j]
      BY <1>1
    <2>2. IsPart(of(k), job.form) /\ Extracts(of(k), g) /\ Extracts(of(k), h)
      BY <2>1, JobIs
    <2>3. ObservationsUsed(TrajectoryOf(of(k), g), c, job.config.domain, job.config)
            = ObservationsUsed(TrajectoryOf(of(k), h), c, job.config.domain, job.config)
      BY <2>2, LaterIsNotEstimated
    <2>4. Estimate(TrajectoryOf(of(k), g), c, job.config) = Estimate(TrajectoryOf(of(k), h), c, job.config)
      BY <2>3, UsedIsAll
    <2>5. QED
      BY <1>4, <2>4
  <1>8. \A k \in 1..m : a[k].traj.type = b[k].traj.type
    BY <1>4, <1>6
  <1>9. Corresponds(a, b, m, c)
    BY <1>3, <1>4, <1>7, <1>8 DEF Corresponds
  <1>10. \A k \in 1..m : \E j \in DOMAIN job.parts :
              /\ a[k].traj = TrajectoryOf(job.parts[j], g)
              /\ b[k].traj = TrajectoryOf(job.parts[j], h)
              /\ b[k].traj.type = TypeOfPart(job.parts[j])
    <2> SUFFICES ASSUME NEW k \in 1..m
                 PROVE  \E j \in DOMAIN job.parts :
                          /\ a[k].traj = TrajectoryOf(job.parts[j], g)
                          /\ b[k].traj = TrajectoryOf(job.parts[j], h)
                          /\ b[k].traj.type = TypeOfPart(job.parts[j])
      OBVIOUS
    <2>1. PICK j \in DOMAIN job.parts : of(k) = job.parts[j]
      BY <1>1
    <2>2. a[k].traj = TrajectoryOf(job.parts[j], g) /\ b[k].traj = TrajectoryOf(job.parts[j], h)
      BY <1>4, <2>1
    <2>3. QED
      BY <1>6, <2>2
  <1>11. QED
    BY <1>9, <1>10 DEF a, b

LEMMA NothingMoreIsForeseen ==
  ASSUME Typed, NEW g, NEW h, NEW n, Hides(g, h, n), job.config.domain \in DOMAIN UnitOf, OneSource,
         \A j \in DOMAIN job.parts : Extracts(job.parts[j], g) /\ Extracts(job.parts[j], h), NEW c
  PROVE  Outlook(EvaluationOf(Filed(g), c).prediction) = Outlook(EvaluationOf(Filed(h), c).prediction)
  <1>1. PICK m, q : FiledAs(q, m)
    BY FiledIs
  <1> DEFINE a == Filed(g)
             b == Filed(h)
  <1>2. /\ Corresponds(a, b, m, c)
        /\ \A k \in 1..m : \E j \in DOMAIN job.parts :
             /\ a[k].traj = TrajectoryOf(job.parts[j], g)
             /\ b[k].traj = TrajectoryOf(job.parts[j], h)
             /\ b[k].traj.type = TypeOfPart(job.parts[j])
    BY <1>1, FiledCorresponds
  <1> HIDE DEF a, b
  <1>3. m \in Nat \ {0}
    BY <1>1 DEF FiledAs
  <1>4. Corresponds(b, a, m, c)
    BY <1>2 DEF Corresponds
  <1>5. PICK z \in Nat \ {0} : HasSize(job.parts, z)
    BY PartsAre
  <1>6. DOMAIN job.parts = 1..z /\ Len(job.parts) = z /\ 1 \in 1..z
    BY <1>5, SizeIs
  <1>7. AreRecords(g, n + 1) /\ AreRecords(h, n)
    BY DEF Hides
  <1> DEFINE t == TrajectoryOf(job.parts[1], g)
             u == TrajectoryOf(job.parts[1], h)
  <1>8. AreObservations(t.obs, n + 1) /\ AreObservations(u.obs, n)
    BY <1>6, <1>7, JobIs, TrajectoryTyped
  <1>9. CASE \A k \in 1..m : a[k].traj = t /\ b[k].traj = u
    <2>1. (\A k \in 1..m : a[k].traj = t) /\ (\A k \in 1..m : b[k].traj = u)
      BY <1>9
    <2> HIDE DEF t, u
    <2>2. Outlook(EvaluationOf(a, c).prediction) = Outlook(EvaluationOf(b, c).prediction)
      BY <1>2, <1>3, <1>4, <1>8, <2>1, AlikeOutlooks
    <2>3. QED
      BY <2>2 DEF a, b
  <1>10. CASE \A k \in 1..m : b[k].traj.type # "MULTIVARIATE"
    <2>1. Outlook(EvaluationOf(a, c).prediction) = Outlook(EvaluationOf(b, c).prediction)
      BY <1>2, <1>10, PlainOutlooks
    <2>2. QED
      BY <2>1 DEF a, b
  <1>11. CASE job.form = "history"
    <2>1. \A part, records : TrajectoryOf(part, records) = ExtractMultivariate(records)
      BY <1>11 DEF TrajectoryOf
    <2>2. \A k \in 1..m : a[k].traj = t /\ b[k].traj = u
      BY <1>2, <2>1
    <2>3. QED
      BY <1>9, <2>2
  <1>12. CASE job.form = "quantities"
    <2>1. \A j \in DOMAIN job.parts : TypeOfPart(job.parts[j]) # "MULTIVARIATE"
      <3> SUFFICES ASSUME NEW j \in DOMAIN job.parts
                   PROVE  TypeOfPart(job.parts[j]) # "MULTIVARIATE"
        OBVIOUS
      <3>1. job.parts[j].quantity \in Quantities
        BY <1>12, JobIs DEF IsPart
      <3>2. \A quantity \in Quantities : TypeOfQuantity[quantity] # "MULTIVARIATE"
        BY DEF Quantities, TypeOfQuantity
      <3>3. TypeOfPart(job.parts[j]) = TypeOfQuantity[job.parts[j].quantity]
        BY <1>12 DEF TypeOfPart
      <3>4. QED
        BY <3>1, <3>2, <3>3
    <2>2. \A k \in 1..m : b[k].traj.type # "MULTIVARIATE"
      BY <1>2, <2>1
    <2>3. QED
      BY <1>10, <2>2
  <1>13. CASE job.form = "observations" /\ Len(job.parts) = 1
    <2>1. DOMAIN job.parts = 1..1
      BY <1>6, <1>13
    <2>2. \A k \in 1..m : a[k].traj = t /\ b[k].traj = u
      BY <1>2, <2>1
    <2>3. QED
      BY <1>9, <2>2
  <1>14. CASE job.form = "observations" /\ \A i \in DOMAIN job.parts : job.parts[i].type # "MULTIVARIATE"
    <2>1. \A j \in DOMAIN job.parts : TypeOfPart(job.parts[j]) # "MULTIVARIATE"
      BY <1>14 DEF TypeOfPart
    <2>2. \A k \in 1..m : b[k].traj.type # "MULTIVARIATE"
      BY <1>2, <2>1
    <2>3. QED
      BY <1>10, <2>2
  <1>15. QED
    BY <1>11, <1>12, <1>13, <1>14, JobIs DEF OneSource

LEMMA ForeseenIs ==
  ASSUME NEW records
  PROVE  Foreseen(records) =
           [i \in DOMAIN job.portfolio |-> Outlook(EvaluationOf(Filed(records), job.portfolio[i]).prediction)]
  BY BundleIs DEF Foreseen, Outlook

\* What is recorded of a time after the cutoff changes nothing of what is
\* foreseen, be it of a state, a quantity or an observation, whatever it says.
THEOREM TheFutureIsHidden == Spec => CutoffHidesTheFuture
  <1> DEFINE Step == \/ history' = history \/ Absent \in {job.config.cutoff, job.config.domain}
                     \/ ~OneSource \/ TimeOf(Last(history')) <= job.config.cutoff
                     \/ ~Prepared(history) \/ ~Prepared(history')
                     \/ Foreseen(history') = Foreseen(history)
  <1>1. IInv /\ [Next]_vars => [Step]_vars
    <2> SUFFICES ASSUME IInv, [Next]_vars, history' # history,
                        Absent \notin {job.config.cutoff, job.config.domain}, OneSource,
                        ~(TimeOf(Last(history')) <= job.config.cutoff),
                        Prepared(history), Prepared(history')
                 PROVE  Foreseen(history') = Foreseen(history)
      OBVIOUS
    <2>1. Typed
      BY DEF IInv
    <2>2. PICK n : AreRecords(history, n)
      BY DEF IInv
    <2>3. Record
      BY DEF Next, Assess, vars
    <2>4. PICK r \in job.alphabet : history' = Append(history, r)
      BY <2>3 DEF Record
    <2>5. HasSize(history, n) /\ n \in Nat /\ \A i \in 1..n : history[i] \in job.alphabet
      BY <2>2, SizeIs DEF AreRecords
    <2>6. Extends(Append(history, r), history, n, r)
      BY <2>5, AppendIs
    <2> DEFINE g == history'
    <2> HIDE DEF g
    <2>7. HasSize(g, n + 1) /\ g[n + 1] = r /\ Last(g) = r /\ \A i \in 1..n : g[i] = history[i]
      BY <2>4, <2>6 DEF Extends, g
    <2>8. AreRecords(g, n + 1)
      BY <2>5, <2>7 DEF AreRecords
    <2>9. Hides(g, history, n)
      BY <2>2, <2>7, <2>8 DEF Hides, g
    <2>10. job.config.domain \in DOMAIN UnitOf
      BY <2>1, JobIs
    <2>11. \A j \in DOMAIN job.parts : Extracts(job.parts[j], g) /\ Extracts(job.parts[j], history)
      BY DEF Prepared, g
    <2>12. \A c : Outlook(EvaluationOf(Filed(g), c).prediction)
                   = Outlook(EvaluationOf(Filed(history), c).prediction)
      BY <2>1, <2>9, <2>10, <2>11, NothingMoreIsForeseen
    <2>13. Foreseen(g) = Foreseen(history)
      BY <2>12, ForeseenIs
    <2>14. QED
      BY <2>13 DEF g
  <1>2. QED
    BY <1>1, InitIsAssessed, StepIsAssessed, PTL DEF Spec, CutoffHidesTheFuture

-----------------------------------------------------------------------------
(* Observations that differ in their age alone: nothing reads it.          *)

Alike(o, p) ==
  /\ o.at = p.at /\ o.of = p.of /\ o.context = p.context
  /\ o.baseline = p.baseline /\ o.sigma = p.sigma
AlikeLists(x, y, n) == HasSize(x, n) /\ HasSize(y, n) /\ \A k \in 1..n : Alike(x[k], y[k])
Twins(t, u, n) == t.type = u.type /\ AlikeLists(t.obs, u.obs, n)

LEMMA AlikeObservations ==
  ASSUME NEW o, NEW p, Alike(o, p)
  PROVE  /\ \A c, field : Level(o, c, field) = Level(p, c, field)
         /\ \A domain : Position(o, domain) = Position(p, domain) /\ PositionAgain(o, domain) = PositionAgain(p, domain)
         /\ \A cfg : Known(o, cfg) <=> Known(p, cfg)
  <1>1. o.at = p.at /\ o.of = p.of /\ o.baseline = p.baseline
    BY DEF Alike
  <1>2. \A c : Baseline(o, c) = Baseline(p, c)
    BY <1>1 DEF Baseline
  <1>3. \A c, field : Level(o, c, field) = Level(p, c, field)
    BY <1>1, <1>2 DEF Level
  <1>4. \A domain : Position(o, domain) = Position(p, domain)
    BY <1>1 DEF Position
  <1>5. \A domain : PositionAgain(o, domain) = PositionAgain(p, domain)
    BY <1>1, <1>4 DEF PositionAgain
  <1>6. \A cfg : Known(o, cfg) <=> Known(p, cfg)
    BY <1>1 DEF Known
  <1>7. QED
    BY <1>3, <1>4, <1>5, <1>6

LEMMA AlikeSizes ==
  ASSUME NEW x, NEW y, NEW n, AlikeLists(x, y, n)
  PROVE  /\ DOMAIN x = 1..n /\ DOMAIN y = 1..n /\ Len(x) = n /\ Len(y) = n /\ n \in Nat
         /\ (x = <<>> <=> n = 0) /\ (y = <<>> <=> n = 0)
         /\ n # 0 => Alike(Head(x), Head(y)) /\ Alike(Last(x), Last(y))
  <1>1. HasSize(x, n) /\ HasSize(y, n) /\ \A k \in 1..n : Alike(x[k], y[k])
    BY DEF AlikeLists
  <1>2. QED
    BY <1>1, SizeIs

\* What is picked of two alike lists at the same places is alike.
LEMMA AlikePicked ==
  ASSUME NEW x, NEW y, NEW n, AlikeLists(x, y, n), NEW S \in SUBSET (1..n)
  PROVE  \E m : AlikeLists(Picked(x, S), Picked(y, S), m)
  <1>1. HasSize(x, n) /\ HasSize(y, n) /\ \A k \in 1..n : Alike(x[k], y[k])
    BY DEF AlikeLists
  <1>2. S \in SUBSET Nat /\ IsFiniteSet(S)
    BY <1>1, PartOfSize
  <1>3. PICK m, q : m \in Nat /\ Picks(q, m, S)
    BY <1>2, PickedIs
  <1>4. q \in [1..m -> S] /\ Picked(x, S) = [k \in 1..m |-> x[q[k]]] /\ Picked(y, S) = [k \in 1..m |-> y[q[k]]]
    BY <1>3 DEF Picks, Lists
  <1>5. HasSize(Picked(x, S), m) /\ HasSize(Picked(y, S), m)
    BY <1>3, <1>4 DEF HasSize
  <1>6. \A k \in 1..m : Picked(x, S)[k] = x[q[k]] /\ Picked(y, S)[k] = y[q[k]] /\ q[k] \in 1..n
    BY <1>4
  <1>7. AlikeLists(Picked(x, S), Picked(y, S), m)
    BY <1>1, <1>5, <1>6 DEF AlikeLists
  <1>8. QED
    BY <1>7

LEMMA AlikeSeries ==
  ASSUME NEW t, NEW u, NEW n, Twins(t, u, n), NEW field
  PROVE  Series(t, field) = Series(u, field) /\ (With(t, field) = <<>> <=> With(u, field) = <<>>)
  <1> DEFINE S == {i \in 1..n : t.obs[i].of[field] # Absent}
  <1>1. AlikeLists(t.obs, u.obs, n) /\ DOMAIN t.obs = 1..n /\ DOMAIN u.obs = 1..n
    BY AlikeSizes DEF Twins
  <1>2. \A i \in 1..n : t.obs[i].of = u.obs[i].of
    BY <1>1 DEF AlikeLists, Alike
  <1>3. With(t, field) = Picked(t.obs, S)
    BY <1>1 DEF With, Chosen
  <1>4. With(u, field) = Picked(u.obs, S)
    <2>1. {i \in DOMAIN u.obs : u.obs[i].of[field] # Absent} = S
      BY <1>1, <1>2
    <2>2. QED
      BY <2>1 DEF With, Chosen
  <1>5. S \in SUBSET (1..n)
    OBVIOUS
  <1> HIDE DEF S
  <1>6. PICK m : AlikeLists(With(t, field), With(u, field), m)
    BY <1>1, <1>3, <1>4, <1>5, AlikePicked
  <1> DEFINE a == With(t, field)
             b == With(u, field)
  <1>7. AlikeLists(a, b, m)
    BY <1>6
  <1> HIDE DEF a, b
  <1>8. DOMAIN a = 1..m /\ DOMAIN b = 1..m /\ (a = <<>> <=> b = <<>>)
    BY <1>7, AlikeSizes
  <1>9. \A i \in 1..m : a[i].at = b[i].at /\ a[i].of[field] = b[i].of[field]
    BY <1>7 DEF AlikeLists, Alike
  <1>10. [i \in DOMAIN a |-> <<a[i].at, a[i].of[field]>>] = [i \in DOMAIN b |-> <<b[i].at, b[i].of[field]>>]
    BY <1>8, <1>9
  <1>11. QED
    BY <1>8, <1>10 DEF Series, a, b

LEMMA AlikeDomains ==
  ASSUME NEW t, NEW u, NEW n, Twins(t, u, n)
  PROVE  /\ \A cfg : ResolvedDomain(t, cfg) = ResolvedDomain(u, cfg)
         /\ Duration(t) = Duration(u) /\ EndTime(t) = EndTime(u) /\ Ordering(t) = Ordering(u)
  <1>1. AlikeLists(t.obs, u.obs, n)
    BY DEF Twins
  <1>2. /\ Len(t.obs) = n /\ Len(u.obs) = n /\ n \in Nat /\ (t.obs = <<>> <=> n = 0) /\ (u.obs = <<>> <=> n = 0)
        /\ n # 0 => Head(t.obs).at = Head(u.obs).at /\ Last(t.obs).at = Last(u.obs).at
    BY <1>1, AlikeSizes DEF Alike
  <1>3. Duration(t) = Duration(u)
    BY <1>2 DEF Duration
  <1>4. EndTime(t) = EndTime(u)
    BY <1>2 DEF EndTime
  <1>5. Ordering(t) = Ordering(u)
    <2>1. \A i \in 1..n : t.obs[i].at = u.obs[i].at
      BY <1>1 DEF AlikeLists, Alike
    <2>2. \A i \in 2..n : i \in 1..n /\ i - 1 \in 1..n
      BY <1>2
    <2>3. \A i \in 2..n : t.obs[i].at = u.obs[i].at /\ t.obs[i - 1].at = u.obs[i - 1].at
      BY <2>1, <2>2
    <2>4. /\ (\E i \in 2..n : t.obs[i].at < t.obs[i - 1].at) <=> (\E i \in 2..n : u.obs[i].at < u.obs[i - 1].at)
          /\ (\E i \in 2..n : t.obs[i].at = t.obs[i - 1].at) <=> (\E i \in 2..n : u.obs[i].at = u.obs[i - 1].at)
      BY <2>3
    <2>5. QED
      BY <1>2, <2>4 DEF Ordering
  <1>6. \A cfg : ResolvedDomain(t, cfg) = ResolvedDomain(u, cfg)
    <2>1. \A field : Series(t, field) = Series(u, field)
      BY AlikeSeries
    <2>2. QED
      BY <1>3, <2>1 DEF ResolvedDomain
  <1>7. QED
    BY <1>3, <1>4, <1>5, <1>6

LEMMA AlikeEstimates ==
  ASSUME NEW t, NEW u, NEW n, Twins(t, u, n), NEW c, NEW cfg
  PROVE  Estimate(t, c, cfg) = Estimate(u, c, cfg)
  <1> DEFINE domain == ResolvedDomain(t, cfg)
             field == FieldOfType[c.type]
             S == {i \in 1..n : Usable(t.obs[i], c, domain, cfg)}
             a == ObservationsUsed(t, c, domain, cfg)
             b == ObservationsUsed(u, c, domain, cfg)
  <1>1. AlikeLists(t.obs, u.obs, n) /\ DOMAIN t.obs = 1..n /\ DOMAIN u.obs = 1..n
    BY AlikeSizes DEF Twins
  <1>2. ResolvedDomain(u, cfg) = domain
    BY AlikeDomains
  <1> HIDE DEF domain
  <1>3. \A i \in 1..n : Usable(t.obs[i], c, domain, cfg) <=> Usable(u.obs[i], c, domain, cfg)
    <2> SUFFICES ASSUME NEW i \in 1..n
                 PROVE  Usable(t.obs[i], c, domain, cfg) <=> Usable(u.obs[i], c, domain, cfg)
      OBVIOUS
    <2>1. Alike(t.obs[i], u.obs[i])
      BY <1>1 DEF AlikeLists
    <2>2. QED
      BY <2>1, AlikeObservations DEF Usable
  <1>4. a = Picked(t.obs, S)
    BY <1>1 DEF ObservationsUsed, Chosen, Usable
  <1>5. b = Picked(u.obs, S)
    <2>1. {i \in DOMAIN u.obs : Usable(u.obs[i], c, domain, cfg)} = S
      BY <1>1, <1>3
    <2>2. b = Picked(u.obs, {i \in DOMAIN u.obs : Usable(u.obs[i], c, domain, cfg)})
      BY DEF ObservationsUsed, Chosen, Usable
    <2>3. QED
      BY <2>1, <2>2
  <1>6. S \in SUBSET (1..n)
    OBVIOUS
  <1> HIDE DEF S, a, b
  <1>7. PICK m : AlikeLists(a, b, m)
    BY <1>1, <1>4, <1>5, <1>6, AlikePicked
  <1>8. DOMAIN a = 1..m /\ DOMAIN b = 1..m /\ m \in Nat /\ (m # 0 => Alike(Last(a), Last(b)))
        /\ \A k \in 1..m : Alike(a[k], b[k])
    BY <1>7, AlikeSizes DEF AlikeLists
  <1> HIDE DEF field
  <1>9. PairsOf(a, c, field, domain) = PairsOf(b, c, field, domain)
    <2>1. \A k \in 1..m : /\ Position(a[k], domain) = Position(b[k], domain)
                          /\ Level(a[k], c, field) = Level(b[k], c, field)
      BY <1>8, AlikeObservations
    <2>2. QED
      BY <1>8, <2>1 DEF PairsOf
  <1> DEFINE pairs == PairsOf(a, c, field, domain)
  <1>10. pairs = <<>> \/ Last(a).context = Last(b).context
    <2>1. m = 0 => pairs = <<>>
      BY <1>8 DEF PairsOf
    <2>2. QED
      BY <1>8, <2>1 DEF Alike
  <1> DEFINE From(obs, ps) ==
               IF ps = <<>> THEN NoPrediction("INSUFFICIENT_DATA", domain)
               ELSE IF Len(ps) < cfg.minObs THEN NoPrediction("INSUFFICIENT_HISTORY", domain)
               ELSE IF Last(ps)[1] <= Head(ps)[1] THEN NoPrediction("DATA_QUALITY_FAILED", domain)
               ELSE Extrapolated(ps, c, domain, cfg, Last(obs).context)
  <1>11. Supported(c) => Estimate(t, c, cfg) = From(a, PairsOf(a, c, field, domain))
    BY DEF Estimate, a, domain, field
  <1>12. Supported(c) => Estimate(u, c, cfg) = From(b, PairsOf(b, c, field, domain))
    BY <1>2 DEF Estimate, b, field
  <1>13. ~Supported(c) => Estimate(t, c, cfg) = Estimate(u, c, cfg)
    BY DEF Estimate
  <1> HIDE DEF pairs
  <1>14. From(a, pairs) = From(b, pairs)
    BY <1>10
  <1>15. QED
    BY <1>9, <1>11, <1>12, <1>13, <1>14 DEF pairs

LEMMA AlikeWeighed ==
  ASSUME NEW t, NEW u, NEW n, Twins(t, u, n), NEW c, NEW domain
  PROVE  \E m : AlikeLists(ObservationsWeighed(t, c, domain), ObservationsWeighed(u, c, domain), m)
  <1> DEFINE field == FieldOf(c)
             Weighed(o) == Absent \notin {Level(o, c, field), PositionAgain(o, domain)}
             S == {i \in 1..n : Weighed(t.obs[i])}
             a == ObservationsWeighed(t, c, domain)
             b == ObservationsWeighed(u, c, domain)
  <1>1. AlikeLists(t.obs, u.obs, n) /\ DOMAIN t.obs = 1..n /\ DOMAIN u.obs = 1..n
    BY AlikeSizes DEF Twins
  <1>2. \A i \in 1..n : Weighed(t.obs[i]) <=> Weighed(u.obs[i])
    <2> SUFFICES ASSUME NEW i \in 1..n
                 PROVE  Weighed(t.obs[i]) <=> Weighed(u.obs[i])
      OBVIOUS
    <2>1. Alike(t.obs[i], u.obs[i])
      BY <1>1 DEF AlikeLists
    <2>2. QED
      BY <2>1, AlikeObservations
  <1>3. a = Picked(t.obs, S)
    BY <1>1 DEF ObservationsWeighed, Chosen
  <1>4. b = Picked(u.obs, S)
    <2>1. {i \in DOMAIN u.obs : Weighed(u.obs[i])} = S
      BY <1>1, <1>2
    <2>2. b = Picked(u.obs, {i \in DOMAIN u.obs : Weighed(u.obs[i])})
      BY DEF ObservationsWeighed, Chosen
    <2>3. QED
      BY <2>1, <2>2
  <1>5. S \in SUBSET (1..n)
    OBVIOUS
  <1> HIDE DEF S, a, b
  <1>6. \E m : AlikeLists(a, b, m)
    BY <1>1, <1>3, <1>4, <1>5, AlikePicked
  <1>7. QED
    BY <1>6 DEF a, b

LEMMA AlikeUncertainties ==
  ASSUME NEW t, NEW u, NEW n, Twins(t, u, n), NEW p, NEW c, NEW cfg
  PROVE  /\ EvaluateUncertainty(p, t, c, cfg) = EvaluateUncertainty(p, u, c, cfg)
         /\ UncertaintyRaises(p, t, c) <=> UncertaintyRaises(p, u, c)
  <1> DEFINE domain == p.domain
             field == FieldOf(c)
             a == ObservationsWeighed(t, c, domain)
             b == ObservationsWeighed(u, c, domain)
  <1> HIDE DEF domain
  <1>6. PICK m : AlikeLists(a, b, m)
    BY AlikeWeighed
  <1> HIDE DEF a, b
  <1>7. DOMAIN a = 1..m /\ DOMAIN b = 1..m /\ m \in Nat /\ (a = <<>> <=> b = <<>>)
        /\ (a # <<>> => Alike(Last(a), Last(b))) /\ \A k \in 1..m : Alike(a[k], b[k])
    BY <1>6, AlikeSizes DEF AlikeLists
  <1> HIDE DEF field
  <1>8. PairsWeighed(a, c, domain) = PairsWeighed(b, c, domain)
    <2>1. \A k \in 1..m : /\ PositionAgain(a[k], domain) = PositionAgain(b[k], domain)
                          /\ Level(a[k], c, FieldOf(c)) = Level(b[k], c, FieldOf(c))
      BY <1>7, AlikeObservations
    <2>2. QED
      BY <1>7, <2>1 DEF PairsWeighed
  <1>9. MeasurementOf(a, field) = MeasurementOf(b, field)
    <2>1. CASE a = <<>>
      BY <1>7, <2>1 DEF MeasurementOf
    <2>2. CASE a # <<>>
      <3>1. Last(a).sigma = Last(b).sigma /\ Last(a).of = Last(b).of
        BY <1>7, <2>2 DEF Alike
      <3>2. QED
        BY <1>7, <3>1 DEF MeasurementOf
    <2>3. QED
      BY <2>1, <2>2
  <1> DEFINE From(pairs, measurement) ==
               LET strength == Overall(Evidence(p, pairs, measurement, cfg.evidence), cfg.evidence)
                   status == Propagated(p.rate, TrendOf(pairs), measurement, cfg.independent)
               IN IF SameAs(p.rul, Zero)
                  THEN Uncertainty("DETERMINISTIC_ONLY", "DETERMINISTIC_NO_UNCERTAINTY", strength)
                  ELSE IF cfg.interval THEN Uncertainty("UNDEFINED", "UNDEFINED", strength)
                  ELSE Uncertainty(status, TypeOfUncertainty(status, cfg.level), strength)
  <1>10. p.status = "VALID" =>
           EvaluateUncertainty(p, t, c, cfg) = From(PairsWeighed(a, c, domain), MeasurementOf(a, field))
    BY DEF EvaluateUncertainty, a, domain, field
  <1>11. p.status = "VALID" =>
           EvaluateUncertainty(p, u, c, cfg) = From(PairsWeighed(b, c, domain), MeasurementOf(b, field))
    BY DEF EvaluateUncertainty, b, domain, field
  <1> HIDE DEF From
  <1>12. p.status # "VALID" => EvaluateUncertainty(p, t, c, cfg) = EvaluateUncertainty(p, u, c, cfg)
    BY DEF EvaluateUncertainty
  <1>13. Unmeasured(a, field) <=> Unmeasured(b, field)
    <2>1. CASE a = <<>>
      BY <1>7, <2>1 DEF Unmeasured
    <2>2. CASE a # <<>>
      <3>1. Last(a).sigma = Last(b).sigma /\ Last(a).of = Last(b).of
        BY <1>7, <2>2 DEF Alike
      <3>2. QED
        BY <1>7, <3>1 DEF Unmeasured
    <2>3. QED
      BY <2>1, <2>2
  <1>14. UncertaintyRaises(p, t, c) <=> UncertaintyRaises(p, u, c)
    BY <1>13 DEF UncertaintyRaises, a, b, domain, field
  <1>15. QED
    BY <1>8, <1>9, <1>10, <1>11, <1>12, <1>14

LEMMA AlikeEvaluations ==
  ASSUME NEW t, NEW u, NEW n, Twins(t, u, n), NEW c, NEW cfg
  PROVE  Evaluate(t, c, cfg) = Evaluate(u, c, cfg)
  <1> DEFINE p == Estimate(t, c, cfg)
  <1>1. Estimate(u, c, cfg) = p
    BY AlikeEstimates
  <1>2. EvaluateUncertainty(p, t, c, cfg) = EvaluateUncertainty(p, u, c, cfg)
    BY AlikeUncertainties
  <1>3. EolAssessment(t, c, p) = EolAssessment(u, c, p)
    <2>1. AlikeLists(t.obs, u.obs, n)
      BY DEF Twins
    <2>2. (t.obs = <<>> <=> u.obs = <<>>) /\ (t.obs # <<>> => Alike(Last(t.obs), Last(u.obs)))
      BY <2>1, AlikeSizes
    <2>3. t.obs # <<>> => CurrentValue(t, c) = CurrentValue(u, c)
      BY <2>2, AlikeObservations DEF CurrentValue
    <2> HIDE DEF p
    <2>4. QED
      BY <2>2, <2>3 DEF EolAssessment
  <1>4. /\ Evaluate(t, c, cfg) = Evaluation(p, EolAssessment(t, c, p), EvaluateUncertainty(p, t, c, cfg))
        /\ Evaluate(u, c, cfg) = Evaluation(Estimate(u, c, cfg), EolAssessment(u, c, Estimate(u, c, cfg)),
                                            EvaluateUncertainty(Estimate(u, c, cfg), u, c, cfg))
    BY DEF Evaluate
  <1> HIDE DEF p
  <1>5. QED
    BY <1>1, <1>2, <1>3, <1>4

\* What is seen of a condition.
LEMMA AlikeConditions ==
  ASSUME NEW t, NEW u, NEW n, Twins(t, u, n), NEW name
  PROVE  ConditionsOf(t, name) = ConditionsOf(u, name)
  <1> DEFINE Seen(o) == o.context # Absent /\ o.context[name] # Absent
             S == {i \in 1..n : Seen(t.obs[i])}
             a == Picked(t.obs, S)
             b == Picked(u.obs, S)
  <1>1. AlikeLists(t.obs, u.obs, n) /\ DOMAIN t.obs = 1..n /\ DOMAIN u.obs = 1..n
    BY AlikeSizes DEF Twins
  <1>2. \A i \in 1..n : t.obs[i].context = u.obs[i].context
    BY <1>1 DEF AlikeLists, Alike
  <1>3. {i \in DOMAIN t.obs : Seen(t.obs[i])} = S /\ {i \in DOMAIN u.obs : Seen(u.obs[i])} = S
    BY <1>1, <1>2
  <1>4. /\ ConditionsOf(t, name) = [i \in DOMAIN a |-> a[i].context[name]]
        /\ ConditionsOf(u, name) = [i \in DOMAIN b |-> b[i].context[name]]
    BY <1>3 DEF ConditionsOf, Chosen
  <1>5. S \in SUBSET (1..n)
    OBVIOUS
  <1> HIDE DEF S
  <1>6. PICK m : AlikeLists(a, b, m)
    BY <1>1, <1>5, AlikePicked
  <1> HIDE DEF a, b
  <1>7. DOMAIN a = 1..m /\ DOMAIN b = 1..m /\ \A k \in 1..m : a[k].context = b[k].context
    BY <1>6, AlikeSizes DEF AlikeLists, Alike
  <1>8. QED
    BY <1>4, <1>7

\* The features of a quantity are made of three series, those of a condition
\* of what is seen of it.
QuantityFrom(quantity, series, cycles, hours) ==
  LET days == Last(series)[1] - Head(series)[1]
      delta == IF Fades(quantity) THEN -SpanOf(series) ELSE SpanOf(series)
  IN IF Len(series) < MinObservations
     THEN {Feature(quantity, "delta",
                   IF series = <<>> THEN "UNAVAILABLE" ELSE "INSUFFICIENT_DATA", Absent)}
     ELSE UNION {
       {Valid(quantity, "delta", Whole(delta)),
        Valid(quantity, "initial_value", Whole(Head(series)[2])),
        Valid(quantity, "latest_value", Whole(Last(series)[2]))},
       Rate(quantity, "rate_per_second", delta, days, SecondsPerDay),
       When(days > 0, Rate(quantity, "rate_per_day", delta, days, 1)),
       When(Len(cycles) >= 2, Rate(quantity, "rate_per_efc", delta, SpanOf(cycles), 1)),
       When(Len(hours) >= 2, Rate(quantity, "rate_per_ah", delta, SpanOf(hours), 1)),
       Trend(quantity, series, days),
       Rolling(quantity, series)}
ConditionFrom(name, s) ==
  When(s # <<>>,
    CASE name = "cell" -> {Valid(name, "mean", MeanOf(s)), Valid(name, "range", RangeOf(s)),
                           Valid(name, "max", Whole(Highest(s))),
                           Valid(name, "min", Whole(Lowest(s)))}
      [] name = "ambient" -> {Valid(name, "mean", MeanOf(s))}
      [] name = "current" -> {Valid(name, "mean_absolute", MeanOf([i \in DOMAIN s |-> Abs(s[i])])),
                              Valid(name, "max_discharge", Whole(Highest(<<0>> \o s))),
                              Valid(name, "max_charge", Whole(-Lowest(<<0>> \o s)))}
      [] OTHER -> {Valid(name, "mean", MeanOf(s)), Valid(name, "range", RangeOf(s))})

LEMMA FeaturesAre ==
  ASSUME NEW traj
  PROVE  /\ \A quantity : QuantityFeatures(traj, quantity) =
                QuantityFrom(quantity, Series(traj, quantity), Series(traj, "efc"), AmpereHourSeries(traj))
         /\ ContextFeatures(traj) = UNION {ConditionFrom(name, ConditionsOf(traj, name)) : name \in Contexts}
  <1>1. ASSUME NEW quantity
        PROVE  QuantityFeatures(traj, quantity) =
                 QuantityFrom(quantity, Series(traj, quantity), Series(traj, "efc"), AmpereHourSeries(traj))
    BY Zenon DEF QuantityFeatures, QuantityFrom
  <1>2. ContextFeatures(traj) = UNION {ConditionFrom(name, ConditionsOf(traj, name)) : name \in Contexts}
    BY Zenon DEF ContextFeatures, ConditionFrom
  <1>3. QED
    BY <1>1, <1>2

LEMMA AlikeFeatures ==
  ASSUME NEW t, NEW u, NEW n, Twins(t, u, n)
  PROVE  ExtractFeatures(t) = ExtractFeatures(u)
  <1>1. AlikeLists(t.obs, u.obs, n)
    BY DEF Twins
  <1>2. Len(t.obs) = Len(u.obs)
    BY <1>1, AlikeSizes
  <1>3. Duration(t) = Duration(u) /\ Ordering(t) = Ordering(u)
    BY AlikeDomains
  <1>4. \A field : Series(t, field) = Series(u, field)
    BY AlikeSeries
  <1>5. AmpereHourSeries(t) = AmpereHourSeries(u)
    BY <1>4 DEF AmpereHourSeries
  <1>6. \A quantity : QuantityFeatures(t, quantity) = QuantityFeatures(u, quantity)
    BY <1>4, <1>5, FeaturesAre
  <1>7. \A name : ConditionsOf(t, name) = ConditionsOf(u, name)
    BY AlikeConditions
  <1>8. ContextFeatures(t) = ContextFeatures(u)
    <2>1. {ConditionFrom(name, ConditionsOf(t, name)) : name \in Contexts}
            = {ConditionFrom(name, ConditionsOf(u, name)) : name \in Contexts}
      BY <1>7
    <2>2. QED
      BY <2>1, FeaturesAre
  <1>9. UNION {QuantityFeatures(t, q) : q \in Quantities} = UNION {QuantityFeatures(u, q) : q \in Quantities}
    BY <1>6
  <1>10. QED
    BY <1>2, <1>3, <1>8, <1>9 DEF ExtractFeatures

-----------------------------------------------------------------------------
(* The order of arrival.                                                   *)

\* What is in the order of its times is left as it is.
LEMMA SortedStays ==
  ASSUME NEW x, NEW n, AreObservations(x, n), \A j, k \in 1..n : j < k => x[j].at < x[k].at
  PROVE  SortedByTime(x) = x
  <1> DEFINE B == Sooner(x)
             R == Stable(B, 1..n)
             id == [k \in 1..n |-> k]
  <1>1. n \in Nat /\ DOMAIN x = 1..n /\ WeakOrder(B, 1..n) /\ SortedByTime(x) = Ranked(x, B)
    BY SizeIs, SoonerIsWeak DEF AreObservations
  <1>2. \A j, k \in 1..n : j < k => <<j, k>> \in B
    BY <1>1 DEF Sooner
  <1>3. \A j, k \in 1..n : j < k => <<j, k>> \in R
    BY <1>2 DEF Stable
  <1> HIDE DEF B
  <1>3a. PICK q : Sorts(q, Ranked(x, B), x, B, n)
    BY ONLY <1>1, RankedIs
  <1>4. Lists(q, n, 1..n, Stable(B, 1..n)) /\ Ranked(x, B) = [k \in 1..n |-> x[q[k]]]
    BY ONLY <1>3a DEF Sorts
  <1>5. StrictOrder(R, 1..n)
    <2>1. (1..n) \in SUBSET Nat
      BY <1>1
    <2>2. QED
      BY <1>1, <2>1, StableIsStrict
  <1>6. Lists(id, n, 1..n, R)
    <2>1. id \in [1..n -> 1..n] /\ (\A i \in 1..n : \E k \in 1..n : id[k] = i)
          /\ \A j, k \in 1..n : j < k => <<id[j], id[k]>> \in R
      BY <1>3
    <2> HIDE DEF id, R
    <2>2. QED
      BY <1>1, <2>1 DEF Lists
  <1>7. q = id
    BY <1>4, <1>5, <1>6, ListedOnce
  <1>8. Ranked(x, B) = [k \in 1..n |-> x[k]]
    BY <1>4, <1>7
  <1>9. x = [k \in 1..n |-> x[k]]
    BY DEF AreObservations, HasSize
  <1>10. QED
    BY <1>1, <1>8, <1>9

\* q puts the records in the order of their times, and what is observed of them.
PutsInOrder(q, h, n) ==
  /\ q \in [1..n -> 1..n] /\ InOrder(h) = [k \in 1..n |-> h[q[k]]]
  /\ \A j, k \in 1..n : j < k => h[q[j]].t < h[q[k]].t
  /\ \A x : AreObservations(x, n) /\ (\A i \in 1..n : x[i].at = h[i].t)
            => SortedByTime(x) = [k \in 1..n |-> x[q[k]]]

LEMMA InOrderIs ==
  ASSUME NEW h, NEW n, HasSize(h, n), \A i \in 1..n : h[i].t \in Nat,
         \A i, j \in 1..n : i # j => h[i].t # h[j].t
  PROVE  \E q : PutsInOrder(q, h, n)
  <1> DEFINE B == {p \in (DOMAIN h) \X (DOMAIN h) : h[p[1]].t < h[p[2]].t}
             R == Stable(B, 1..n)
  <1>1. n \in Nat /\ DOMAIN h = 1..n
    BY SizeIs
  <1>2. \A i, j \in 1..n : <<i, j>> \in B <=> h[i].t < h[j].t
    BY <1>1
  <1>3. InOrder(h) = Ranked(h, B)
    BY DEF InOrder, SortedBy
  <1>4. B = {p \in (1..n) \X (1..n) : h[p[1]].t < h[p[2]].t}
    BY <1>1
  <1> HIDE DEF B
  <1>5. WeakOrder(B, 1..n)
    BY <1>2 DEF WeakOrder
  <1>6. StrictOrder(R, 1..n)
    <2>1. (1..n) \in SUBSET Nat
      BY <1>1
    <2>2. QED
      BY <1>5, <2>1, StableIsStrict
  <1>6a. PICK q : Sorts(q, Ranked(h, B), h, B, n)
    BY ONLY <1>1, <1>5, RankedIs
  <1>7. Lists(q, n, 1..n, R) /\ Ranked(h, B) = [k \in 1..n |-> h[q[k]]]
    BY ONLY <1>6a DEF Sorts, R
  <1>8. q \in [1..n -> 1..n]
    BY <1>7 DEF Lists
  <1>9. ASSUME NEW j \in 1..n, NEW k \in 1..n, j < k
        PROVE  h[q[j]].t < h[q[k]].t
    <2>1. q[j] \in 1..n /\ q[k] \in 1..n /\ <<q[j], q[k]>> \in R
      BY <1>7, <1>8, <1>9 DEF Lists
    <2>2. <<q[j], q[k]>> \in B \/ (<<q[k], q[j]>> \notin B /\ q[j] < q[k])
      BY <2>1, StableIs
    <2>3. h[q[j]].t < h[q[k]].t \/ (~(h[q[k]].t < h[q[j]].t) /\ q[j] < q[k])
      BY <1>2, <2>1, <2>2
    <2>4. h[q[j]].t \in Nat /\ h[q[k]].t \in Nat /\ (q[j] # q[k] => h[q[j]].t # h[q[k]].t)
      BY <2>1
    <2>5. QED
      BY <2>1, <2>3, <2>4
  <1>10. ASSUME NEW x, AreObservations(x, n), \A i \in 1..n : x[i].at = h[i].t
         PROVE  SortedByTime(x) = [k \in 1..n |-> x[q[k]]]
    <2>1. DOMAIN x = 1..n /\ SortedByTime(x) = Ranked(x, Sooner(x))
      BY <1>10, SizeIs, SoonerIsWeak DEF AreObservations
    <2>2. Sooner(x) = B
      BY <1>4, <1>10, <2>1 DEF Sooner
    <2>2a. PICK r : Sorts(r, Ranked(x, B), x, B, n)
      BY ONLY <1>1, <1>5, <2>1, RankedIs
    <2>3. Lists(r, n, 1..n, Stable(B, 1..n)) /\ Ranked(x, B) = [k \in 1..n |-> x[r[k]]]
      BY ONLY <2>2a DEF Sorts
    <2>4. r = q
      BY <1>6, <1>7, <2>3, ListedOnce
    <2>5. QED
      BY <2>1, <2>2, <2>3, <2>4
  <1>11. PutsInOrder(q, h, n)
    BY <1>3, <1>7, <1>8, <1>9, <1>10 DEF PutsInOrder
  <1>12. QED
    BY <1>11

LEMMA ExtractedInOrder ==
  ASSUME Typed, job.form # "observations", NEW h, NEW n, AreRecords(h, n),
         NEW q, PutsInOrder(q, h, n), NEW part, IsPart(part, job.form), Extracts(part, h)
  PROVE  /\ AreRecords(InOrder(h), n) /\ Extracts(part, InOrder(h))
         /\ Twins(TrajectoryOf(part, InOrder(h)), TrajectoryOf(part, h), n)
  <1> DEFINE g == InOrder(h)
             x == AsTheyCome(part, h)
             y == AsTheyCome(part, g)
  <1>1. job.form = "history" \/ job.form = "quantities"
    BY JobIs
  <1>2. q \in [1..n -> 1..n] /\ g = [k \in 1..n |-> h[q[k]]]
        /\ \A j, k \in 1..n : j < k => h[q[j]].t < h[q[k]].t
    BY DEF PutsInOrder
  <1> HIDE DEF g
  <1>3. n \in Nat /\ DOMAIN h = 1..n /\ DOMAIN g = 1..n
        /\ (\A k \in 1..n : q[k] \in 1..n /\ g[k] = h[q[k]])
        /\ (h = <<>> <=> n = 0) /\ \A i \in 1..n : h[i] \in job.alphabet
    BY <1>2, SizeIs DEF AreRecords
  <1>4. HasSize(g, n) /\ (g = <<>> <=> n = 0)
    <2>1. HasSize(g, n)
      BY <1>2, <1>3 DEF HasSize
    <2>2. QED
      BY <2>1, SizeIs
  <1>5. AreRecords(g, n)
    BY <1>3, <1>4 DEF AreRecords
  <1>6. Extracts(part, g)
    <2>1. CASE job.form = "history"
      <3>1. MultivariateExtractable(h)
        BY <2>1 DEF Extracts
      <3>2. MultivariateExtractable(g)
        BY <1>3, <1>4, <3>1 DEF MultivariateExtractable
      <3>3. QED
        BY <2>1, <3>2 DEF Extracts
    <2>2. CASE job.form = "quantities"
      <3>1. Extractable(h, part.quantity, part.domain)
        BY <2>2 DEF Extracts
      <3>2. Extractable(g, part.quantity, part.domain)
        BY <1>3, <1>4, <3>1 DEF Extractable
      <3>3. QED
        BY <2>2, <3>2 DEF Extracts
    <2>3. QED
      BY <1>1, <2>1, <2>2
  <1>7. AreObservations(x, n) /\ AreObservations(y, n)
    BY <1>5, <1>6, TrajectoryTyped
  <1>8. \A k \in 1..n : x[k].at = h[k].t /\ y[k].at = g[k].t
    BY <1>1, <1>3 DEF AsTheyCome, Obs
  <1>9. \A k \in 1..n : Alike(y[k], x[q[k]])
    <2> SUFFICES ASSUME NEW k \in 1..n PROVE Alike(y[k], x[q[k]])
      OBVIOUS
    <2> DEFINE r == g[k]
    <2>1. y[k] = Obs(r.t, FieldsOf(part, r), AgeOf(g, r), ContextOf(r), Absent, Absent)
      BY <1>1, <1>3 DEF AsTheyCome
    <2>2. x[q[k]] = Obs(r.t, FieldsOf(part, r), AgeOf(h, r), ContextOf(r), Absent, Absent)
      BY <1>1, <1>3 DEF AsTheyCome
    <2> HIDE DEF r, x, y
    <2>3. QED
      BY <2>1, <2>2 DEF Alike, Obs
  <1>10. TrajectoryOf(part, h) = [type |-> TypeOfPart(part), obs |-> SortedByTime(x)]
         /\ TrajectoryOf(part, g) = [type |-> TypeOfPart(part), obs |-> SortedByTime(y)]
    BY <1>1, TrajectoryIs DEF InTime
  <1> HIDE DEF x, y
  <1>11. SortedByTime(x) = [k \in 1..n |-> x[q[k]]]
    BY <1>7, <1>8 DEF PutsInOrder
  <1>12. SortedByTime(y) = y
    <2>1. \A j, k \in 1..n : j < k => y[j].at < y[k].at
      BY <1>2, <1>3, <1>8
    <2>2. QED
      BY <1>7, <2>1, SortedStays
  <1>13. AlikeLists(SortedByTime(y), SortedByTime(x), n)
    <2>1. HasSize(SortedByTime(x), n)
      BY <1>3, <1>11 DEF HasSize
    <2>2. \A k \in 1..n : SortedByTime(x)[k] = x[q[k]]
      BY <1>11
    <2>3. QED
      BY <1>7, <1>9, <1>12, <2>1, <2>2 DEF AlikeLists, AreObservations
  <1>14. Twins(TrajectoryOf(part, g), TrajectoryOf(part, h), n)
    BY <1>10, <1>13 DEF Twins
  <1>15. QED
    BY <1>5, <1>6, <1>14 DEF g

\* Two ways the same parts are filed, of twin trajectories.
FiledTwins(f, h, m, n) ==
  /\ m \in Nat \ {0} /\ HasSize(f, m) /\ HasSize(h, m)
  /\ \A k \in 1..m : f[k].key = h[k].key /\ Twins(f[k].traj, h[k].traj, n)

LEMMA FiledInOrder ==
  ASSUME Typed, job.form # "observations", NEW h, NEW n, AreRecords(h, n),
         NEW q, PutsInOrder(q, h, n), \A j \in DOMAIN job.parts : Extracts(job.parts[j], h)
  PROVE  /\ \A j \in DOMAIN job.parts : Extracts(job.parts[j], InOrder(h))
         /\ \E m : FiledTwins(Filed(InOrder(h)), Filed(h), m, n)
  <1> DEFINE g == InOrder(h)
  <1>1. ASSUME NEW j \in DOMAIN job.parts
        PROVE  Extracts(job.parts[j], g) /\ Twins(TrajectoryOf(job.parts[j], g), TrajectoryOf(job.parts[j], h), n)
    BY JobIs, ExtractedInOrder
  <1> HIDE DEF g
  <1>2. PICK m, p : FiledAs(p, m)
    BY FiledIs
  <1> DEFINE a == Filed(g)
             b == Filed(h)
             of(k) == Put[Max(SameKey(p[k]))].part
  <1>3. m \in Nat \ {0} /\ \A k \in 1..m : \E j \in DOMAIN job.parts : of(k) = job.parts[j]
    BY <1>2 DEF FiledAs
  <1>4. /\ a = [k \in 1..m |-> [key |-> Put[p[k]].key, traj |-> TrajectoryOf(of(k), g)]]
        /\ b = [k \in 1..m |-> [key |-> Put[p[k]].key, traj |-> TrajectoryOf(of(k), h)]]
    BY <1>2 DEF FiledAs
  <1> HIDE DEF a, b, of
  <1>5. HasSize(a, m) /\ HasSize(b, m)
    BY <1>3, <1>4 DEF HasSize
  <1>6. \A k \in 1..m : /\ a[k].key = b[k].key
                        /\ a[k].traj = TrajectoryOf(of(k), g) /\ b[k].traj = TrajectoryOf(of(k), h)
    BY <1>4
  <1>7. \A k \in 1..m : Twins(a[k].traj, b[k].traj, n)
    <2> SUFFICES ASSUME NEW k \in 1..m PROVE Twins(a[k].traj, b[k].traj, n)
      OBVIOUS
    <2>1. PICK j \in DOMAIN job.parts : of(k) = job.parts[j]
      BY <1>3
    <2>2. QED
      BY <1>1, <1>6, <2>1
  <1>8. FiledTwins(a, b, m, n)
    BY <1>3, <1>5, <1>6, <1>7 DEF FiledTwins
  <1>9. QED
    BY <1>1, <1>8 DEF a, b, g

LEMMA TwinsMatched ==
  ASSUME NEW f, NEW h, NEW m, NEW n, FiledTwins(f, h, m, n), NEW c
  PROVE  Match(f, c) = Match(h, c) /\ Match(f, c) \in 0..m
  <1>1. Len(f) = m /\ Len(h) = m /\ HasSize(f, m) /\ HasSize(h, m)
        /\ \A k \in 1..m : f[k].key = h[k].key /\ Twins(f[k].traj, h[k].traj, n)
    BY SizeIs DEF FiledTwins
  <1>2. \A k \in 1..m : f[k].traj.type = h[k].traj.type /\ (Serves(f[k].traj, c) <=> Serves(h[k].traj, c))
    <2> SUFFICES ASSUME NEW k \in 1..m
                 PROVE  f[k].traj.type = h[k].traj.type /\ (Serves(f[k].traj, c) <=> Serves(h[k].traj, c))
      OBVIOUS
    <2>1. f[k].traj.type = h[k].traj.type
      BY <1>1 DEF Twins
    <2>2. \A field : With(f[k].traj, field) = <<>> <=> With(h[k].traj, field) = <<>>
      BY <1>1, AlikeSeries
    <2>3. QED
      BY <2>1, <2>2 DEF Serves, Holds
  <1>3. {k \in 1..Len(f) : f[k].key = c.id} = {k \in 1..Len(h) : h[k].key = c.id}
    BY <1>1
  <1>4. {k \in 1..Len(f) : f[k].key = TypeExpected(c)} = {k \in 1..Len(h) : h[k].key = TypeExpected(c)}
    BY <1>1
  <1>5. {k \in 1..Len(f) : Serves(f[k].traj, c)} = {k \in 1..Len(h) : Serves(h[k].traj, c)}
    BY <1>1, <1>2
  <1>6. {k \in 1..Len(f) : f[k].traj.type = TypeExpected(c)} = {k \in 1..Len(h) : h[k].traj.type = TypeExpected(c)}
    BY <1>1, <1>2
  <1>7. WithId(f, c) = WithId(h, c) /\ UnderType(f, c) = UnderType(h, c)
        /\ Serving(f, c) = Serving(h, c) /\ OfType(f, c) = OfType(h, c)
    BY <1>3, <1>4, <1>5, <1>6 DEF WithId, UnderType, Serving, OfType
  <1>8. QED
    BY <1>1, <1>7, MatchIs

LEMMA TwinsEvaluated ==
  ASSUME NEW f, NEW h, NEW m, NEW n, FiledTwins(f, h, m, n), NEW c
  PROVE  /\ EvaluationOf(f, c) = EvaluationOf(h, c)
         /\ EvaluationRaises(f, c) <=> EvaluationRaises(h, c)
  <1>1. \A k \in 1..m : Twins(f[k].traj, h[k].traj, n)
    BY DEF FiledTwins
  <1>8. Match(f, c) = Match(h, c) /\ Match(f, c) \in 0..m
    BY TwinsMatched
  <1> DEFINE place == Match(f, c)
  <1>9. CASE place = 0
    BY <1>8, <1>9 DEF EvaluationOf, EvaluationRaises
  <1>10. CASE place # 0
    <2>1. place \in 1..m
      BY <1>8, <1>10 DEF FiledTwins
    <2>2. Twins(f[place].traj, h[place].traj, n)
      BY <1>1, <2>1
    <2>3. AlikeLists(f[place].traj.obs, h[place].traj.obs, n)
      BY <2>2 DEF Twins
    <2>4. f[place].traj.obs = <<>> <=> h[place].traj.obs = <<>>
      BY <2>3, AlikeSizes
    <2>5. Evaluate(f[place].traj, c, job.config) = Evaluate(h[place].traj, c, job.config)
      BY <2>2, AlikeEvaluations
    <2> DEFINE p == Estimate(f[place].traj, c, job.config)
    <2>6. Estimate(h[place].traj, c, job.config) = p
      BY <2>2, AlikeEstimates
    <2>7. UncertaintyRaises(p, f[place].traj, c) <=> UncertaintyRaises(p, h[place].traj, c)
      BY <2>2, AlikeUncertainties
    <2> HIDE DEF place
    <2>8. Match(h, c) = place /\ Match(f, c) = place
      BY <1>8 DEF place
    <2>9. EvaluationOf(f, c) = EvaluationOf(h, c)
      BY <2>4, <2>5, <2>8 DEF EvaluationOf
    <2>10. EvaluationRaises(f, c) <=> EvaluationRaises(h, c)
      BY <2>4, <2>6, <2>7, <2>8 DEF EvaluationRaises
    <2>11. QED
      BY <2>9, <2>10
  <1>11. QED
    BY <1>9, <1>10

LEMMA TwinsReported ==
  ASSUME NEW f, NEW h, NEW m, NEW n, FiledTwins(f, h, m, n), NEW bundles
  PROVE  ReportOn(f, bundles) = ReportOn(h, bundles)
  <1>1. m \in Nat \ {0} /\ DOMAIN f = 1..m /\ DOMAIN h = 1..m
        /\ \A k \in 1..m : Twins(f[k].traj, h[k].traj, n)
    BY SizeIs DEF FiledTwins
  <1>2. \A k \in 1..m : EndTime(f[k].traj) = EndTime(h[k].traj)
    BY <1>1, AlikeDomains
  <1>3. {EndTime(f[i].traj) : i \in DOMAIN f} = {EndTime(h[i].traj) : i \in DOMAIN h}
    BY <1>1, <1>2
  <1>4. FeaturesOf(f[1].traj) = FeaturesOf(h[1].traj)
    <2>1. Twins(f[1].traj, h[1].traj, n)
      BY <1>1
    <2>2. ExtractFeatures(f[1].traj) = ExtractFeatures(h[1].traj)
      BY <2>1, AlikeFeatures
    <2>3. Len(f[1].traj.obs) = Len(h[1].traj.obs)
      BY <2>1, AlikeSizes DEF Twins
    <2>4. QED
      BY <2>2, <2>3 DEF FeaturesOf
  <1>5. \A limiting : Report(f, bundles, limiting) = Report(h, bundles, limiting)
    BY <1>3, <1>4 DEF Report
  <1>6. QED
    BY <1>5 DEF ReportOn

LEMMA AssessmentIs ==
  ASSUME NEW records
  PROVE  Assessment(records) =
           ReportOn(Filed(records), [i \in DOMAIN job.portfolio |-> BundleOf(Filed(records), job.portfolio[i])])
  BY DEF Assessment

\* A history of distinct times, as it arrived and in the order of its times,
\* is extracted and assessed the same: the age of an observation, which is of
\* the first record to arrive, is all that differs, and nothing reads it.  What
\* raises for neither a record nor a criterion in one order does not in the other.
THEOREM ArrivalIsForgotten == Spec => []ArrivalOrderDoesNotMatter
  <1>1. ASSUME IInv PROVE ArrivalOrderDoesNotMatter
    <2> DEFINE g == InOrder(history)
    <2> SUFFICES ASSUME Reported, job.form # "observations",
                        \A i, j \in DOMAIN history : i # j => history[i].t # history[j].t
                 PROVE  ~Raises(g) /\ Assessment(g) = report
      BY DEF ArrivalOrderDoesNotMatter
    <2>1. Typed /\ ~Raises(history) /\ report = Assessment(history)
      BY <1>1 DEF IInv, Assessed, Reported
    <2>2. PICK n : AreRecords(history, n)
      BY <1>1 DEF IInv
    <2>3. HasSize(history, n) /\ DOMAIN history = 1..n
          /\ \A i \in 1..n : history[i] \in job.alphabet
      BY <2>2, SizeIs DEF AreRecords
    <2>4. \A i \in 1..n : history[i].t \in Nat
      BY <2>1, <2>3, JobIs DEF IsRecord
    <2>5. PICK q : PutsInOrder(q, history, n)
      BY <2>3, <2>4, InOrderIs
    <2>6. \A j \in DOMAIN job.parts : Extracts(job.parts[j], history)
      BY <2>1 DEF Raises, Prepared
    <2>7. \A j \in DOMAIN job.parts : Extracts(job.parts[j], g)
      BY <2>1, <2>2, <2>5, <2>6, FiledInOrder
    <2>8. PICK m : FiledTwins(Filed(g), Filed(history), m, n)
      BY <2>1, <2>2, <2>5, <2>6, FiledInOrder
    <2> HIDE DEF g
    <2>9. ~Raises(g)
      <3>1. Prepared(g)
        BY <2>1, <2>7 DEF Raises, Prepared
      <3>2. \A i \in DOMAIN job.portfolio : ~EvaluationRaises(Filed(history), job.portfolio[i])
        BY <2>1 DEF Raises
      <3>3. \A c : EvaluationRaises(Filed(g), c) <=> EvaluationRaises(Filed(history), c)
        BY <2>8, TwinsEvaluated
      <3>4. \A i \in DOMAIN job.portfolio : ~EvaluationRaises(Filed(g), job.portfolio[i])
        BY <3>2, <3>3
      <3>5. QED
        BY <3>1, <3>4 DEF Raises
    <2>10. \A c : EvaluationOf(Filed(g), c) = EvaluationOf(Filed(history), c)
      BY <2>8, TwinsEvaluated
    <2>11. \A c : BundleOf(Filed(g), c) = BundleOf(Filed(history), c)
      BY <2>10 DEF BundleOf
    <2> DEFINE bundles == [i \in DOMAIN job.portfolio |-> BundleOf(Filed(history), job.portfolio[i])]
    <2>12. [i \in DOMAIN job.portfolio |-> BundleOf(Filed(g), job.portfolio[i])] = bundles
      BY <2>11
    <2>13. Assessment(g) = ReportOn(Filed(g), bundles)
      BY <2>12, AssessmentIs
    <2>14. Assessment(history) = ReportOn(Filed(history), bundles)
      BY AssessmentIs
    <2> HIDE DEF bundles
    <2>15. ReportOn(Filed(g), bundles) = ReportOn(Filed(history), bundles)
      BY <2>8, TwinsReported
    <2>16. QED
      BY <2>1, <2>9, <2>13, <2>14, <2>15
  <1>2. QED
    BY <1>1, InitIsAssessed, StepIsAssessed, PTL DEF Spec
===============================================================================
