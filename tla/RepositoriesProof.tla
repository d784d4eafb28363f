-------------------------- MODULE RepositoriesProof --------------------------
(***************************************************************************)
(* Theorems about Repositories, for any systems, files, bounds and number  *)
(* of processes.  What append() has returned for is in the file, and every *)
(* later process finds it unless a torn line is before it.  The in-memory  *)
(* list is the latest records in order of time, and a range query answers  *)
(* exactly what is in range: the binary searches find the ends of it.      *)
(***************************************************************************)
EXTENDS Repositories, FiniteSetTheorems, WellFoundedInduction, TLAPS

-----------------------------------------------------------------------------
(* Picking the elements of a sequence out by their indices.                *)

\* The place of i among the indices.
Rank(S, i) == Cardinality({j \in S : j <= i})

LEMMA RankGrows ==
  ASSUME NEW S \in SUBSET Nat, IsFiniteSet(S), NEW i \in S, NEW j \in S, i < j
  PROVE  Rank(S, i) # Rank(S, j)
  <1> DEFINE low == {m \in S : m <= i}
             high == {m \in S : m <= j}
  <1>1. high \in SUBSET S
    OBVIOUS
  <1>2. ASSUME NEW m \in S, m <= i
        PROVE  m <= j
    <2>1. m \in Nat /\ i \in Nat /\ j \in Nat
      OBVIOUS
    <2>2. QED
      BY <1>2, <2>1
  <1>3. low \in SUBSET high
    BY <1>2
  <1>4. j \in high /\ j \notin low
    OBVIOUS
  <1> HIDE DEF low, high
  <1>5. IsFiniteSet(high)
    BY <1>1, FS_Subset
  <1>6. Cardinality(high) = Cardinality(low) => high = low
    BY <1>3, <1>5, FS_Subset
  <1>7. QED
    BY <1>4, <1>6 DEF Rank, low, high

\* The ranks of the indices are 1 to their number, each once.
LEMMA RankIsOnto ==
  ASSUME NEW S \in SUBSET Nat, IsFiniteSet(S)
  PROVE  /\ \A i \in S : Rank(S, i) \in 1..Cardinality(S)
         /\ \A i, j \in S : Rank(S, i) = Rank(S, j) => i = j
         /\ \A k \in 1..Cardinality(S) : \E i \in S : Rank(S, i) = k
  <1> DEFINE n == Cardinality(S)
             f == [i \in S |-> Rank(S, i)]
  <1>1. n \in Nat
    BY FS_CardinalityType
  <1>2. ASSUME NEW i \in S
        PROVE  Rank(S, i) \in 1..n
    <2> DEFINE upTo == {m \in S : m <= i}
    <2>1. upTo \in SUBSET S /\ i \in upTo
      OBVIOUS
    <2> HIDE DEF upTo
    <2>2. IsFiniteSet(upTo) /\ Cardinality(upTo) <= n
      BY <2>1, FS_Subset
    <2>3. Cardinality(upTo) \in Nat /\ Cardinality(upTo) # 0
      BY <2>1, <2>2, FS_CardinalityType, FS_EmptySet
    <2>4. Cardinality(upTo) \in 1..n
      BY <1>1, <2>2, <2>3
    <2>5. QED
      BY <2>4 DEF Rank, upTo
  <1>3. ASSUME NEW i \in S, NEW j \in S, Rank(S, i) = Rank(S, j)
        PROVE  i = j
    BY <1>3, RankGrows
  <1> HIDE DEF n
  <1>4. f \in Injection(S, 1..n)
    BY <1>2, <1>3 DEF Injection, IsInjective
  <1>5. IsFiniteSet(1..n) /\ Cardinality(1..n) = n
    BY <1>1, FS_Interval
  <1>6. f \in Surjection(S, 1..n)
    <2> HIDE DEF f
    <2>1. Cardinality(S) = Cardinality(1..n)
      BY <1>5 DEF n
    <2>2. QED
      BY <1>4, <1>5, <2>1, FS_Injection
  <1>7. \A k \in 1..n : \E i \in S : f[i] = k
    BY <1>6 DEF Surjection
  <1>8. QED
    BY <1>2, <1>3, <1>7 DEF n

\* What is picked is there, and what is there is picked.
LEMMA PickedAre ==
  ASSUME NEW s, NEW S \in SUBSET Nat, IsFiniteSet(S)
  PROVE  /\ Cardinality(S) \in Nat
         /\ DOMAIN Picked(s, S) = 1..Cardinality(S)
         /\ \A k \in 1..Cardinality(S) : \E i \in S : Picked(s, S)[k] = s[i]
         /\ \A i \in S : \E k \in 1..Cardinality(S) : Picked(s, S)[k] = s[i]
  <1> DEFINE n == Cardinality(S)
             at(k) == CHOOSE i \in S : Rank(S, i) = k
  <1>1. n \in Nat
    BY FS_CardinalityType
  <1>2. Picked(s, S) = [k \in 1..n |-> s[at(k)]]
    BY DEF Picked, Rank
  <1>3. ASSUME NEW k \in 1..n
        PROVE  at(k) \in S /\ Rank(S, at(k)) = k
    <2>1. \E i \in S : Rank(S, i) = k
      BY RankIsOnto
    <2>2. QED
      BY <2>1
  <1>4. ASSUME NEW i \in S
        PROVE  Rank(S, i) \in 1..n /\ at(Rank(S, i)) = i
    <2>1. Rank(S, i) \in 1..n
      BY RankIsOnto
    <2>2. at(Rank(S, i)) \in S /\ Rank(S, at(Rank(S, i))) = Rank(S, i)
      BY <1>3, <2>1
    <2>3. \A j \in S : Rank(S, j) = Rank(S, i) => j = i
      BY RankIsOnto
    <2> HIDE DEF at
    <2>4. QED
      BY <2>1, <2>2, <2>3
  <1> HIDE DEF at
  <1>5. QED
    BY <1>1, <1>2, <1>3, <1>4

-----------------------------------------------------------------------------
(* Searching.                                                              *)

\* A set of numbers has a least one: what stands in for induction below.
LEMMA LeastNumber ==
  ASSUME NEW T \in SUBSET Nat, T # {}
  PROVE  \E m \in T : \A k \in T : m <= k
  <1> DEFINE R == OpToRel(<, Nat)
  <1>1. IsWellFoundedOn(R, Nat)
    BY NatLessThanWellFounded
  <1>2. \A p \in Nat, q \in Nat : <<p, q>> \in R <=> p < q
    BY DEF OpToRel
  <1> HIDE DEF R
  <1>3. PICK m \in T : \A k \in T : ~(<<k, m>> \in R)
    BY <1>1, WFMin
  <1>4. ASSUME NEW k \in T
        PROVE  m <= k
    <2>1. m \in Nat /\ k \in Nat /\ ~(k < m)
      BY <1>2, <1>3
    <2>2. QED
      BY <2>1
  <1>5. QED
    BY <1>4

\* Halving finds the place c of which every test of it says the truth.
LEMMA HalvingFinds ==
  ASSUME NEW n \in Nat, NEW c \in 0..n, NEW f,
         \A lo \in 0..n : \A hi \in 0..n :
           LET mid == (lo + hi) \div 2
           IN f[<<lo, hi>>] = IF lo >= hi THEN lo
                          ELSE IF mid < c THEN f[<<mid + 1, hi>>] ELSE f[<<lo, mid>>]
  PROVE  f[<<0, n>>] = c
  <1> DEFINE Wrong(k) == \E lo \in 0..c : \E hi \in c..n : hi - lo = k /\ f[<<lo, hi>>] # c
             T == {k \in Nat : Wrong(k)}
  <1>1. T \in SUBSET Nat /\ \A k \in Nat : k \in T <=> Wrong(k)
    <2> HIDE DEF Wrong
    <2>1. QED
      OBVIOUS
  <1>2. ASSUME NEW k \in T, \A j \in T : k <= j
        PROVE  FALSE
    <2>1. PICK lo \in 0..c, hi \in c..n : hi - lo = k /\ f[<<lo, hi>>] # c
      OBVIOUS
    <2> DEFINE mid == (lo + hi) \div 2
    <2>2. lo \in 0..n /\ hi \in 0..n /\ lo \in Nat /\ hi \in Nat /\ c \in Nat /\ n \in Nat
      OBVIOUS
    <2>3. f[<<lo, hi>>] = IF lo >= hi THEN lo
                      ELSE IF mid < c THEN f[<<mid + 1, hi>>] ELSE f[<<lo, mid>>]
      BY <2>2
    <2>4. lo < hi
      BY <2>1, <2>2, <2>3
    <2>5. mid \in Nat /\ lo <= mid /\ mid < hi
      BY <2>2, <2>4
    <2> HIDE DEF mid, T
    <2>6. ASSUME NEW j \in Nat, j < k
          PROVE  ~Wrong(j)
      <3> HIDE DEF Wrong
      <3>1. k \in Nat /\ ~(k <= j)
        BY <1>1, <1>2, <2>6
      <3>2. QED
        BY <1>1, <1>2, <3>1
    <2>7. CASE mid < c
      <3>1. mid + 1 \in 0..c /\ hi - (mid + 1) \in Nat /\ hi - (mid + 1) < k
        BY <2>1, <2>2, <2>5, <2>7
      <3>2. f[<<mid + 1, hi>>] = c
        BY <2>6, <3>1
      <3>3. QED
        BY <2>1, <2>3, <2>4, <2>2, <2>7, <3>2
    <2>8. CASE ~(mid < c)
      <3>1. mid \in c..n /\ mid - lo \in Nat /\ mid - lo < k
        BY <2>1, <2>2, <2>5, <2>8
      <3>2. f[<<lo, mid>>] = c
        BY <2>6, <3>1
      <3>3. QED
        BY <2>1, <2>3, <2>4, <2>2, <2>8, <3>2
    <2>9. QED
      BY <2>7, <2>8
  <1>3. T = {}
    <2> HIDE DEF T
    <2>1. QED
      BY <1>1, <1>2, LeastNumber
  <1>4. ~Wrong(n)
    <2> HIDE DEF Wrong, T
    <2>1. QED
      BY <1>1, <1>3
  <1>5. 0 \in 0..c /\ n \in c..n /\ n - 0 = n
    OBVIOUS
  <1>6. QED
    BY <1>4, <1>5

\* There is a function that halves.
LEMMA HalvingExists ==
  ASSUME NEW n \in Nat, NEW c \in 0..n
  PROVE  \E f : f = [p \in (0..n) \X (0..n) |->
                      IF p[1] >= p[2] THEN p[1]
                      ELSE IF (p[1] + p[2]) \div 2 < c THEN f[<<(p[1] + p[2]) \div 2 + 1, p[2]>>]
                      ELSE f[<<p[1], (p[1] + p[2]) \div 2>>]]
  <1> DEFINE D == (0..n) \X (0..n)
             g == [p \in D |->
                    IF p[1] >= p[2] \/ c <= p[1] THEN p[1] ELSE IF p[2] <= c THEN p[2] ELSE c]
  <1>1. \A lo \in 0..n, hi \in 0..n :
          g[<<lo, hi>>] = IF lo >= hi \/ c <= lo THEN lo ELSE IF hi <= c THEN hi ELSE c
    OBVIOUS
  <1>2. ASSUME NEW p \in D
        PROVE  g[p] = IF p[1] >= p[2] THEN p[1]
                      ELSE IF (p[1] + p[2]) \div 2 < c THEN g[<<(p[1] + p[2]) \div 2 + 1, p[2]>>]
                      ELSE g[<<p[1], (p[1] + p[2]) \div 2>>]
    <2> DEFINE lo == p[1]
               hi == p[2]
               mid == (lo + hi) \div 2
    <2>1. lo \in Nat /\ hi \in Nat /\ c \in Nat /\ hi <= n /\ lo <= n
      OBVIOUS
    <2>2. p = <<lo, hi>> /\ lo \in 0..n /\ hi \in 0..n
      OBVIOUS
    <2> HIDE DEF g
    <2>3. g[p] = IF lo >= hi \/ c <= lo THEN lo ELSE IF hi <= c THEN hi ELSE c
      BY <1>1, <2>2
    <2>4. CASE lo >= hi
      BY <2>3, <2>4
    <2>5. CASE lo < hi
      <3>1. mid \in Nat /\ lo <= mid /\ mid < hi
        BY <2>1, <2>5
      <3> HIDE DEF lo, hi, mid
      <3>2. mid \in 0..n /\ mid + 1 \in 0..n
        BY <2>1, <3>1
      <3>3. CASE mid < c
        <4>1. g[<<mid + 1, hi>>] = IF mid + 1 >= hi \/ c <= mid + 1 THEN mid + 1
                                   ELSE IF hi <= c THEN hi ELSE c
          BY <1>1, <2>2, <3>2
        <4>2. g[p] = g[<<mid + 1, hi>>]
          BY <2>1, <2>3, <2>5, <3>1, <3>3, <4>1
        <4>3. QED
          BY <2>1, <2>5, <3>3, <4>2 DEF lo, hi, mid
      <3>4. CASE ~(mid < c)
        <4>1. g[<<lo, mid>>] = IF lo >= mid \/ c <= lo THEN lo ELSE IF mid <= c THEN mid ELSE c
          BY <1>1, <2>2, <3>2
        <4>2. g[p] = g[<<lo, mid>>]
          BY <2>1, <2>3, <2>5, <3>1, <3>4, <4>1
        <4>3. QED
          BY <2>1, <2>5, <3>4, <4>2 DEF lo, hi, mid
      <3>5. QED
        BY <3>3, <3>4
    <2>6. QED
      BY <2>1, <2>4, <2>5
  <1>3. g = [p \in D |-> g[p]]
    OBVIOUS
  <1> HIDE DEF g
  <1>4. g = [p \in D |->
              IF p[1] >= p[2] THEN p[1]
              ELSE IF (p[1] + p[2]) \div 2 < c THEN g[<<(p[1] + p[2]) \div 2 + 1, p[2]>>]
              ELSE g[<<p[1], (p[1] + p[2]) \div 2>>]]
    BY <1>2, <1>3
  <1>5. QED
    BY <1>4

\* The numbers up to n that are in a set with every smaller one end at some c.
LEMMA BoundaryExists ==
  ASSUME NEW n \in Nat, NEW P,
         \A i, j \in 1..n : i < j /\ j \in P => i \in P
  PROVE  \E c \in 0..n : \A i \in 1..n : i \in P <=> i <= c
  <1> DEFINE T == {k \in 0..n : \A i \in 1..n : i > k => i \notin P}
  <1>1. T \in SUBSET Nat /\ n \in T
    OBVIOUS
  <1>2. PICK c \in T : \A k \in T : c <= k
    <2> HIDE DEF T
    <2>1. QED
      BY <1>1, LeastNumber
  <1>3. c \in 0..n /\ \A i \in 1..n : i > c => i \notin P
    OBVIOUS
  <1>4. ASSUME NEW i \in 1..n, i <= c, i \notin P
        PROVE  FALSE
    <2>1. c - 1 \in 0..n /\ ~(c <= c - 1)
      BY <1>3, <1>4
    <2>2. \A j \in 1..n : j > c - 1 => j \notin P
      BY <1>3, <1>4
    <2>3. c - 1 \in T
      BY <2>1, <2>2
    <2>4. QED
      BY <1>2, <2>1, <2>3
  <1>5. \A i \in 1..n : i \in P <=> i <= c
    BY <1>3, <1>4
  <1>6. QED
    BY <1>3, <1>5

\* bisect_left finds the end of what is less.
LEMMA BisectLeftFinds ==
  ASSUME NEW a, NEW x, Len(a) \in Nat, NEW c \in 0..Len(a),
         \A i \in 1..Len(a) : a[i] < x <=> i <= c
  PROVE  BisectLeft(a, x) = c
  <1> DEFINE n == Len(a)
             D == (0..n) \X (0..n)
             Mid(p) == (p[1] + p[2]) \div 2
             g == CHOOSE f : f = [p \in D |->
                    IF p[1] >= p[2] THEN p[1]
                    ELSE IF a[Mid(p) + 1] < x THEN f[<<Mid(p) + 1, p[2]>>] ELSE f[<<p[1], Mid(p)>>]]
  <1>1. BisectLeft(a, x) = g[<<0, n>>]
    BY DEF BisectLeft
  <1>2. ASSUME NEW p \in D, p[1] < p[2]
        PROVE  a[Mid(p) + 1] < x <=> Mid(p) < c
    <2>1. p[1] \in Nat /\ p[2] \in Nat /\ p[2] <= n
      OBVIOUS
    <2>2. Mid(p) \in Nat /\ Mid(p) < p[2]
      BY <1>2, <2>1
    <2> HIDE DEF Mid
    <2>3. Mid(p) + 1 \in 1..n /\ (Mid(p) + 1 <= c <=> Mid(p) < c)
      BY <2>1, <2>2
    <2>4. QED
      BY <2>3
  <1>3. PICK h : h = [p \in D |->
                       IF p[1] >= p[2] THEN p[1]
                       ELSE IF Mid(p) < c THEN h[<<Mid(p) + 1, p[2]>>] ELSE h[<<p[1], Mid(p)>>]]
    BY HalvingExists
  <1>4. \A p \in D : ~(p[1] >= p[2]) => p[1] < p[2]
    OBVIOUS
  <1> HIDE DEF Mid, D
  <1>5. h = [p \in D |->
              IF p[1] >= p[2] THEN p[1]
              ELSE IF a[Mid(p) + 1] < x THEN h[<<Mid(p) + 1, p[2]>>] ELSE h[<<p[1], Mid(p)>>]]
    BY <1>2, <1>3, <1>4
  <1>6. g = [p \in D |->
              IF p[1] >= p[2] THEN p[1]
              ELSE IF a[Mid(p) + 1] < x THEN g[<<Mid(p) + 1, p[2]>>] ELSE g[<<p[1], Mid(p)>>]]
    BY <1>5
  <1> HIDE DEF g
  <1>7. \A p \in D :
          g[p] = IF p[1] >= p[2] THEN p[1]
                 ELSE IF Mid(p) < c THEN g[<<Mid(p) + 1, p[2]>>] ELSE g[<<p[1], Mid(p)>>]
    BY <1>2, <1>4, <1>6
  <1>8. ASSUME NEW lo \in 0..n, NEW hi \in 0..n
        PROVE  LET mid == (lo + hi) \div 2
               IN g[<<lo, hi>>] = IF lo >= hi THEN lo
                                  ELSE IF mid < c THEN g[<<mid + 1, hi>>] ELSE g[<<lo, mid>>]
    <2>1. <<lo, hi>> \in D
      BY DEF D
    <2>2. QED
      BY <1>7, <2>1 DEF Mid
  <1>9. n \in Nat /\ c \in 0..n
    OBVIOUS
  <1> HIDE DEF n
  <1>10. g[<<0, n>>] = c
    BY <1>8, <1>9, HalvingFinds
  <1>11. QED
    BY <1>1, <1>10

\* bisect_right finds the end of what is less or equal.
LEMMA BisectRightFinds ==
  ASSUME NEW a, NEW x, Len(a) \in Nat, NEW c \in 0..Len(a),
         \A i \in 1..Len(a) : x < a[i] <=> i > c
  PROVE  BisectRight(a, x) = c
  <1> DEFINE n == Len(a)
             D == (0..n) \X (0..n)
             Mid(p) == (p[1] + p[2]) \div 2
             g == CHOOSE f : f = [p \in D |->
                    IF p[1] >= p[2] THEN p[1]
                    ELSE IF x < a[Mid(p) + 1] THEN f[<<p[1], Mid(p)>>] ELSE f[<<Mid(p) + 1, p[2]>>]]
  <1>1. BisectRight(a, x) = g[<<0, n>>]
    BY DEF BisectRight
  <1>2. ASSUME NEW p \in D, p[1] < p[2]
        PROVE  x < a[Mid(p) + 1] <=> ~(Mid(p) < c)
    <2>1. p[1] \in Nat /\ p[2] \in Nat /\ p[2] <= n
      OBVIOUS
    <2>2. Mid(p) \in Nat /\ Mid(p) < p[2]
      BY <1>2, <2>1
    <2> HIDE DEF Mid
    <2>3. Mid(p) + 1 \in 1..n /\ (Mid(p) + 1 > c <=> ~(Mid(p) < c))
      BY <2>1, <2>2
    <2>4. QED
      BY <2>3
  <1>3. PICK h : h = [p \in D |->
                       IF p[1] >= p[2] THEN p[1]
                       ELSE IF Mid(p) < c THEN h[<<Mid(p) + 1, p[2]>>] ELSE h[<<p[1], Mid(p)>>]]
    BY HalvingExists
  <1>4. \A p \in D : ~(p[1] >= p[2]) => p[1] < p[2]
    OBVIOUS
  <1> HIDE DEF Mid, D
  <1>5. h = [p \in D |->
              IF p[1] >= p[2] THEN p[1]
              ELSE IF x < a[Mid(p) + 1] THEN h[<<p[1], Mid(p)>>] ELSE h[<<Mid(p) + 1, p[2]>>]]
    BY <1>2, <1>3, <1>4
  <1>6. g = [p \in D |->
              IF p[1] >= p[2] THEN p[1]
              ELSE IF x < a[Mid(p) + 1] THEN g[<<p[1], Mid(p)>>] ELSE g[<<Mid(p) + 1, p[2]>>]]
    BY <1>5
  <1> HIDE DEF g
  <1>7. \A p \in D :
          g[p] = IF p[1] >= p[2] THEN p[1]
                 ELSE IF Mid(p) < c THEN g[<<Mid(p) + 1, p[2]>>] ELSE g[<<p[1], Mid(p)>>]
    BY <1>2, <1>4, <1>6
  <1>8. ASSUME NEW lo \in 0..n, NEW hi \in 0..n
        PROVE  LET mid == (lo + hi) \div 2
               IN g[<<lo, hi>>] = IF lo >= hi THEN lo
                                  ELSE IF mid < c THEN g[<<mid + 1, hi>>] ELSE g[<<lo, mid>>]
    <2>1. <<lo, hi>> \in D
      BY DEF D
    <2>2. QED
      BY <1>7, <2>1 DEF Mid
  <1>9. n \in Nat /\ c \in 0..n
    OBVIOUS
  <1> HIDE DEF n
  <1>10. g[<<0, n>>] = c
    BY <1>8, <1>9, HalvingFinds
  <1>11. QED
    BY <1>1, <1>10

-----------------------------------------------------------------------------
(* Range queries.                                                          *)

\* Picking an interval out is taking what is in it.
LEMMA PickedInterval ==
  ASSUME NEW s, NEW lo \in Nat, NEW hi \in Nat, lo <= hi,
         NEW S, \A i : i \in S <=> i \in lo + 1..hi
  PROVE  Picked(s, S) = [k \in 1..hi - lo |-> s[lo + k]]
  <1> DEFINE at(k) == CHOOSE i \in S : Rank(S, i) = k
  <1>1. Cardinality(S) = hi - lo
    <2>1. /\ lo + 1 \in Int /\ hi \in Int
          /\ (IF lo + 1 > hi THEN 0 ELSE hi - (lo + 1) + 1) = hi - lo
      OBVIOUS
    <2>2. S = lo + 1..hi
      OBVIOUS
    <2>3. Cardinality(lo + 1..hi) = IF lo + 1 > hi THEN 0 ELSE hi - (lo + 1) + 1
      BY <2>1, FS_Interval
    <2>4. QED
      BY <2>1, <2>2, <2>3
  <1>2. ASSUME NEW i \in S
        PROVE  Rank(S, i) = i - lo
    <2>1. {j \in S : j <= i} = lo + 1..i
      OBVIOUS
    <2>2. Cardinality(lo + 1..i) = i - lo
      BY FS_Interval
    <2>3. QED
      BY <2>1, <2>2 DEF Rank
  <1>3. ASSUME NEW k \in 1..hi - lo
        PROVE  at(k) = lo + k
    <2>1. lo + k \in S /\ \A i \in S : i - lo = k => i = lo + k
      OBVIOUS
    <2>2. Rank(S, lo + k) = k
      <3>1. Rank(S, lo + k) = lo + k - lo
        BY <1>2, <2>1
      <3>2. QED
        BY <3>1
    <2>3. \A i \in S : Rank(S, i) = k => i = lo + k
      BY <1>2, <2>1
    <2>4. QED
      BY <2>1, <2>2, <2>3
  <1>4. Picked(s, S) = [k \in 1..Cardinality(S) |-> s[at(k)]]
    BY DEF Picked, Rank
  <1> HIDE DEF at
  <1>5. QED
    BY <1>1, <1>3, <1>4

LEMMA PickedAll ==
  ASSUME NEW s, NEW n \in Nat
  PROVE  Picked(s, 1..n) = [k \in 1..n |-> s[k]]
  <1> DEFINE D == 1..n
             at(k) == CHOOSE i \in D : Rank(D, i) = k
  <1>1. ASSUME NEW m \in Nat
        PROVE  Cardinality(1..m) = m
    <2>1. 1 \in Int /\ m \in Int /\ (IF 1 > m THEN 0 ELSE m - 1 + 1) = m
      OBVIOUS
    <2>2. Cardinality(1..m) = IF 1 > m THEN 0 ELSE m - 1 + 1
      BY <2>1, FS_Interval
    <2>3. QED
      BY <2>1, <2>2
  <1>2. ASSUME NEW i \in D
        PROVE  Rank(D, i) = i
    <2>1. {j \in D : j <= i} = 1..i /\ i \in Nat
      OBVIOUS
    <2>2. QED
      BY <1>1, <2>1 DEF Rank
  <1>3. Picked(s, D) = [k \in 1..Cardinality(D) |-> s[at(k)]]
    BY DEF Picked, Rank
  <1>4. \A k \in D : at(k) = k
    BY <1>2
  <1> HIDE DEF at
  <1>5. QED
    BY <1>1, <1>3, <1>4

LEMMA ArrangedEmpty ==
  ASSUME NEW q, q.limit \in Nat
  PROVE  Arranged(<<>>, q) = <<>>
  <1>1. Len(<<>>) = 0 /\ Backwards(<<>>) = <<>>
    BY DEF Backwards
  <1>2. QED
    BY <1>1 DEF Arranged

\* The two searches bound what is in range of a list in order of time.
LEMMA SliceExact ==
  ASSUME NEW S, NEW v \in Seq(S), \A i \in 1..Len(v) : v[i].time \in Int,
         \A i, j \in 1..Len(v) : i < j => v[i].time <= v[j].time,
         NEW q, q.from \in Int, q.to \in Int, q.limit \in Nat
  PROVE  Slice(v, q) = Arranged(Picked(v, {k \in 1..Len(v) : InRange(q, v[k].time)}), q)
  <1> DEFINE n == Len(v)
             times == [k \in 1..n |-> v[k].time]
             first == IF q.from = None THEN 0 ELSE BisectLeft(times, q.from)
             end == IF q.to = None THEN n ELSE BisectRight(times, q.to)
             K == {k \in 1..n : InRange(q, v[k].time)}
  <1>1. n \in Nat /\ Len(times) = n /\ \A i \in 1..n : times[i] = v[i].time
    OBVIOUS
  <1>2. Slice(v, q) = IF first >= end THEN <<>> ELSE Arranged(SubSeq(v, first + 1, end), q)
    BY DEF Slice
  <1>3. /\ \A i \in 1..n : times[i] \in Int
        /\ \A i, j \in 1..n : i < j => times[i] <= times[j]
    BY <1>1
  <1> HIDE DEF n, times
  <1>4. first \in 0..n /\ \A i \in 1..n : (q.from = None \/ q.from <= times[i]) <=> i > first
    <2>1. CASE q.from = None
      BY <1>1, <2>1
    <2>2. CASE q.from # None
      <3> DEFINE P == {i \in 1..n : times[i] < q.from}
      <3>1. \A i, j \in 1..n : i < j /\ j \in P => i \in P
        BY <1>3
      <3>2. PICK c \in 0..n : \A i \in 1..n : i \in P <=> i <= c
        <4> HIDE DEF P
        <4>1. QED
          BY <1>1, <3>1, BoundaryExists
      <3>3. \A i \in 1..n : times[i] < q.from <=> i <= c
        BY <3>2
      <3>4. BisectLeft(times, q.from) = c
        BY <1>1, <3>3, BisectLeftFinds
      <3>5. \A i \in 1..n : q.from <= times[i] <=> i > c
        BY <1>1, <1>3, <3>3
      <3>6. first = c
        BY <2>2, <3>4
      <3> HIDE DEF first
      <3>7. QED
        BY <2>2, <3>5, <3>6
    <2>3. QED
      BY <2>1, <2>2
  <1>5. end \in 0..n /\ \A i \in 1..n : (q.to = None \/ times[i] <= q.to) <=> i <= end
    <2>1. CASE q.to = None
      BY <1>1, <2>1
    <2>2. CASE q.to # None
      <3> DEFINE P == {i \in 1..n : times[i] <= q.to}
      <3>1. \A i, j \in 1..n : i < j /\ j \in P => i \in P
        BY <1>3
      <3>2. PICK c \in 0..n : \A i \in 1..n : i \in P <=> i <= c
        <4> HIDE DEF P
        <4>1. QED
          BY <1>1, <3>1, BoundaryExists
      <3>3. \A i \in 1..n : q.to < times[i] <=> i > c
        BY <1>1, <1>3, <3>2
      <3>4. BisectRight(times, q.to) = c
        BY <1>1, <3>3, BisectRightFinds
      <3>5. \A i \in 1..n : times[i] <= q.to <=> i <= c
        BY <3>2
      <3>6. end = c
        BY <2>2, <3>4
      <3> HIDE DEF end
      <3>7. QED
        BY <2>2, <3>5, <3>6
    <2>3. QED
      BY <2>1, <2>2
  <1> HIDE DEF first, end
  <1>6. \A i \in 1..n : i \in K <=> i > first /\ i <= end
    BY <1>1, <1>4, <1>5 DEF InRange
  <1>7. K \subseteq 1..n /\ first \in Nat /\ end \in Nat /\ end <= n /\ first <= n
    <2>1. K \subseteq 1..n
      OBVIOUS
    <2> HIDE DEF K
    <2>2. QED
      BY <1>1, <1>4, <1>5, <2>1
  <1> HIDE DEF K
  <1>8. CASE first >= end
    <2>1. \A i : i \in K <=> i \in end + 1..end
      <3>1. \A i \in 1..n : i \in K <=> i \in end + 1..end
        BY <1>1, <1>6, <1>7, <1>8
      <3>2. end + 1..end \subseteq 1..n
        BY <1>1, <1>7
      <3>3. QED
        BY <1>7, <3>1, <3>2
    <2>2. K = end + 1..end
      BY <2>1
    <2>3. Picked(v, K) = [k \in 1..end - end |-> v[end + k]]
      <3>1. end <= end
        BY <1>7
      <3>2. QED
        BY <1>7, <2>1, <3>1, PickedInterval
    <2>4. 1..end - end = {}
      BY <1>7
    <2>5. Picked(v, K) = <<>>
      BY <2>3, <2>4
    <2>6. QED
      BY <1>2, <1>8, <2>5, ArrangedEmpty DEF K, n
  <1>9. CASE first < end
    <2>1. \A i : i \in K <=> i \in first + 1..end
      <3>1. \A i \in 1..n : i \in K <=> i \in first + 1..end
        BY <1>1, <1>6, <1>7, <1>9
      <3>2. first + 1..end \subseteq 1..n
        BY <1>1, <1>7
      <3>3. QED
        BY <1>7, <3>1, <3>2
    <2>2. K = first + 1..end
      BY <2>1
    <2>3. Picked(v, K) = [k \in 1..end - first |-> v[first + k]]
      <3>1. first <= end
        BY <1>7, <1>9
      <3>2. QED
        BY <1>7, <2>1, <3>1, PickedInterval
    <2>4. SubSeq(v, first + 1, end) = [k \in 1..end - first |-> v[first + k]]
      <3>1. /\ first \in Nat /\ end \in Nat /\ 1 + end - (first + 1) = end - first
            /\ \A k \in 1..end - first : k + (first + 1) - 1 = first + k
        BY <1>1, <1>4, <1>5
      <3>2. QED
        BY <3>1
    <2>5. ~(first >= end)
      BY <1>7, <1>9
    <2>6. QED
      BY <1>2, <2>3, <2>4, <2>5 DEF K, n
  <1>10. QED
    BY <1>1, <1>4, <1>5, <1>8, <1>9

-----------------------------------------------------------------------------
(* Sorting.                                                                *)

Earlier(v, j, i) == v[j].time < v[i].time \/ (v[j].time = v[i].time /\ j < i)

\* The place of the i-th element in the sorted sequence, and the element that
\* has a place.
Place(v, i) == 1 + Cardinality({j \in 1..Len(v) : Earlier(v, j, i)})
At(v, k) == CHOOSE i \in 1..Len(v) : Place(v, i) = k

Timed(v) == \A i \in 1..Len(v) : v[i].time \in Int

LEMMA FewerIn ==
  ASSUME NEW S, IsFiniteSet(S), NEW T \in SUBSET S, NEW x \in S, x \notin T
  PROVE  /\ Cardinality(T) \in Nat /\ Cardinality(S) \in Nat
         /\ Cardinality(T) < Cardinality(S)
  <1>1. /\ IsFiniteSet(T) /\ Cardinality(T) <= Cardinality(S)
        /\ Cardinality(S) = Cardinality(T) => S = T
    BY FS_Subset
  <1>2. Cardinality(T) \in Nat /\ Cardinality(S) \in Nat
    BY <1>1, FS_CardinalityType
  <1>3. QED
    BY <1>1, <1>2

\* The places are 1 to the length, each once, and the earlier has the smaller.
LEMMA PlaceIsOnto ==
  ASSUME NEW v, Len(v) \in Nat, Timed(v)
  PROVE  /\ \A i \in 1..Len(v) : Place(v, i) \in 1..Len(v)
         /\ \A i, j \in 1..Len(v) : Earlier(v, i, j) => Place(v, i) < Place(v, j)
         /\ \A i, j \in 1..Len(v) : Place(v, i) = Place(v, j) => i = j
         /\ \A k \in 1..Len(v) : At(v, k) \in 1..Len(v) /\ Place(v, At(v, k)) = k
  <1> DEFINE n == Len(v)
             D == 1..n
             Prior(i) == {j \in D : Earlier(v, j, i)}
             f == [i \in D |-> Place(v, i)]
  <1>1. IsFiniteSet(D) /\ Cardinality(D) = n /\ n \in Nat
    BY FS_Interval
  <1>2. ASSUME NEW i \in D
        PROVE  Place(v, i) \in 1..n
    <2>1. Prior(i) \in SUBSET D /\ i \notin Prior(i)
      BY DEF Earlier, Timed
    <2> HIDE DEF Prior, D
    <2>2. Cardinality(Prior(i)) \in Nat /\ Cardinality(Prior(i)) < n
      BY <1>1, <2>1, FewerIn
    <2>3. Place(v, i) = 1 + Cardinality(Prior(i))
      BY DEF Place, Prior, D
    <2>4. QED
      BY <1>1, <2>2, <2>3
  <1>3. ASSUME NEW i \in D, NEW j \in D, Earlier(v, i, j)
        PROVE  Place(v, i) < Place(v, j)
    <2>1. Prior(j) \in SUBSET D /\ i \in Prior(j)
      BY <1>3
    <2>2. i \notin Prior(i)
      BY DEF Earlier, Timed
    <2>3. ASSUME NEW k \in D, Earlier(v, k, i)
          PROVE  Earlier(v, k, j)
      <3>1. v[k].time \in Int /\ v[i].time \in Int /\ v[j].time \in Int
        BY DEF Timed
      <3>2. k \in Nat /\ i \in Nat /\ j \in Nat
        BY <1>1
      <3>3. QED
        BY <1>3, <2>3, <3>1, <3>2 DEF Earlier
    <2>4. Prior(i) \in SUBSET Prior(j)
      BY <2>3
    <2> HIDE DEF Prior, D
    <2>5. IsFiniteSet(Prior(j))
      BY <1>1, <2>1, FS_Subset
    <2>6. /\ Cardinality(Prior(i)) \in Nat /\ Cardinality(Prior(j)) \in Nat
          /\ Cardinality(Prior(i)) < Cardinality(Prior(j))
      BY <2>1, <2>2, <2>4, <2>5, FewerIn
    <2>7. Place(v, i) = 1 + Cardinality(Prior(i)) /\ Place(v, j) = 1 + Cardinality(Prior(j))
      BY DEF Place, Prior, D
    <2>8. QED
      BY <2>6, <2>7
  <1>4. ASSUME NEW i \in D, NEW j \in D, Place(v, i) = Place(v, j)
        PROVE  i = j
    <2>1. i = j \/ Earlier(v, i, j) \/ Earlier(v, j, i)
      BY DEF Earlier, Timed
    <2>2. Place(v, i) \in Int
      BY <1>1, <1>2
    <2> HIDE DEF D
    <2>3. QED
      BY <1>3, <1>4, <2>1, <2>2
  <1>5. f \in Injection(D, 1..n)
    BY <1>2, <1>4 DEF Injection, IsInjective
  <1>6. f \in Surjection(D, 1..n)
    <2> HIDE DEF f, n
    <2>1. QED
      BY <1>1, <1>5, FS_Injection
  <1>7. \A k \in 1..n : \E i \in D : Place(v, i) = k
    BY <1>6 DEF Surjection
  <1>8. ASSUME NEW k \in 1..n
        PROVE  At(v, k) \in D /\ Place(v, At(v, k)) = k
    BY <1>7 DEF At
  <1>9. QED
    BY <1>2, <1>3, <1>4, <1>8

\* The sorted sequence has the same elements, in order.
LEMMA SortedIs ==
  ASSUME NEW S, NEW v \in Seq(S), Timed(v)
  PROVE  LET sorted == SortedByTime(v)
         IN /\ sorted \in Seq(S) /\ Len(sorted) = Len(v)
            /\ \A k \in 1..Len(v) : At(v, k) \in 1..Len(v) /\ sorted[k] = v[At(v, k)]
            /\ \A i \in 1..Len(v) : \E k \in 1..Len(v) : sorted[k] = v[i]
            /\ \A i, j \in 1..Len(v) : i < j => sorted[i].time <= sorted[j].time
  <1> DEFINE n == Len(v)
             sorted == SortedByTime(v)
  <1>1. sorted = [k \in 1..n |-> v[At(v, k)]] /\ n \in Nat
    BY DEF SortedByTime, At, Place, Earlier
  <1>2. \A k \in 1..n : At(v, k) \in 1..n /\ Place(v, At(v, k)) = k
    BY <1>1, PlaceIsOnto
  <1>3. \A k \in 1..n : v[At(v, k)] \in S
    BY <1>2
  <1>4. sorted \in Seq(S) /\ Len(sorted) = n /\ \A k \in 1..n : sorted[k] = v[At(v, k)]
    BY <1>1, <1>3
  <1>5. ASSUME NEW i \in 1..n
        PROVE  \E k \in 1..n : sorted[k] = v[i]
    <2>1. /\ Place(v, i) \in 1..n
          /\ \A j \in 1..n : Place(v, j) = Place(v, i) => j = i
      BY <1>1, PlaceIsOnto
    <2>2. At(v, Place(v, i)) = i
      BY <1>2, <2>1
    <2>3. QED
      BY <1>4, <2>1, <2>2
  <1>6. ASSUME NEW i \in 1..n, NEW j \in 1..n, i < j
        PROVE  sorted[i].time <= sorted[j].time
    <2> DEFINE p == At(v, i)
               q == At(v, j)
    <2>1. p \in 1..n /\ q \in 1..n /\ Place(v, p) = i /\ Place(v, q) = j
      BY <1>2
    <2> HIDE DEF p, q
    <2>2. ~(Place(v, q) < Place(v, p))
      BY <1>1, <1>6, <2>1
    <2>3. ~Earlier(v, q, p)
      BY <1>1, <2>1, <2>2, PlaceIsOnto
    <2>4. v[p].time \in Int /\ v[q].time \in Int
      BY <2>1 DEF Timed
    <2>5. v[p].time <= v[q].time
      BY <2>3, <2>4 DEF Earlier
    <2>6. QED
      BY <1>4, <2>5 DEF p, q
  <1>7. QED
    BY <1>2, <1>4, <1>5, <1>6

\* One more element goes behind all that are not later.
LEMMA SortedGrows ==
  ASSUME NEW S, NEW v \in Seq(S), Timed(v), NEW e \in S, e.time \in Int
  PROVE  \E c \in 0..Len(v) :
           /\ \A k \in 1..Len(v) : SortedByTime(v)[k].time <= e.time <=> k <= c
           /\ SortedByTime(Append(v, e)) = Insert(SortedByTime(v), c + 1, e)
  <1> DEFINE n == Len(v)
             u == Append(v, e)
             low == {j \in 1..n : v[j].time <= e.time}
             c == Cardinality(low)
             sorted == SortedByTime(v)
             of(i) == {j \in 1..n : Earlier(v, j, i)}
             in(i) == {j \in 1..n + 1 : Earlier(u, j, i)}
  <1>1. /\ n \in Nat /\ Len(u) = n + 1 /\ u[n + 1] = e
        /\ \A i \in 1..n : u[i] = v[i] /\ v[i].time \in Int
    BY DEF Timed
  <1> HIDE DEF u
  <1>2. IsFiniteSet(1..n) /\ Cardinality(1..n) = n
    <2> HIDE DEF n
    <2>1. 1 \in Int /\ n \in Int /\ (IF 1 > n THEN 0 ELSE n - 1 + 1) = n
      BY <1>1
    <2>2. IsFiniteSet(1..n) /\ Cardinality(1..n) = IF 1 > n THEN 0 ELSE n - 1 + 1
      BY <2>1, FS_Interval
    <2>3. QED
      BY <2>1, <2>2
  <1>3. IsFiniteSet(low) /\ c \in 0..n
    <2>1. low \in SUBSET (1..n)
      OBVIOUS
    <2> HIDE DEF low
    <2>2. IsFiniteSet(low) /\ Cardinality(low) <= n
      BY <1>2, <2>1, FS_Subset
    <2>3. QED
      BY <1>1, <2>2, FS_CardinalityType
  <1>4. Timed(u)
    <2>1. \A i \in 1..n + 1 : i \in 1..n \/ i = n + 1
      BY <1>1
    <2>2. QED
      BY <1>1, <2>1 DEF Timed
  <1>5. \A i \in 1..n : Place(v, i) = 1 + Cardinality(of(i))
    BY DEF Place
  <1>6. \A i \in 1..n + 1 : Place(u, i) = 1 + Cardinality(in(i))
    BY <1>1 DEF Place
  <1>7. ASSUME NEW i \in 1..n
        PROVE  /\ IsFiniteSet(of(i)) /\ i \notin of(i) /\ Cardinality(of(i)) \in Nat
    <2>1. of(i) \in SUBSET (1..n) /\ i \notin of(i)
      BY <1>1 DEF Earlier
    <2> HIDE DEF of
    <2>2. IsFiniteSet(of(i))
      BY <1>2, <2>1, FS_Subset
    <2>3. QED
      BY <2>1, <2>2, FS_CardinalityType
  <1>8. ASSUME NEW i \in 1..n, v[i].time <= e.time
        PROVE  Place(u, i) = Place(v, i) /\ Place(v, i) <= c
    <2>1. i \in 1..n + 1 /\ ~Earlier(u, n + 1, i)
      BY <1>1, <1>8 DEF Earlier
    <2>2. \A j \in 1..n : Earlier(u, j, i) <=> Earlier(v, j, i)
      BY <1>1 DEF Earlier
    <2>3. \A j : j \in 1..n + 1 <=> j \in 1..n \/ j = n + 1
      BY <1>1
    <2>4. in(i) = of(i)
      BY <2>1, <2>2, <2>3
    <2>5. of(i) \in SUBSET low /\ i \in low
      BY <1>1, <1>8 DEF Earlier
    <2> HIDE DEF in, of, low
    <2>6. Cardinality(of(i)) < c
      BY <1>3, <1>7, <2>5, FewerIn
    <2>7. QED
      BY <1>3, <1>5, <1>6, <1>7, <2>1, <2>4, <2>6
  <1>9. ASSUME NEW i \in 1..n, ~(v[i].time <= e.time)
        PROVE  Place(u, i) = Place(v, i) + 1 /\ Place(v, i) > c
    <2>1. i \in 1..n + 1 /\ Earlier(u, n + 1, i)
      BY <1>1, <1>9 DEF Earlier
    <2>2. \A j \in 1..n : Earlier(u, j, i) <=> Earlier(v, j, i)
      BY <1>1 DEF Earlier
    <2>3. \A j : j \in 1..n + 1 <=> j \in 1..n \/ j = n + 1
      BY <1>1
    <2>4. in(i) = of(i) \union {n + 1} /\ n + 1 \notin of(i)
      BY <1>1, <2>1, <2>2, <2>3
    <2>5. low \in SUBSET of(i)
      BY <1>1, <1>9 DEF Earlier
    <2> HIDE DEF in, of, low
    <2>6. Cardinality(in(i)) = Cardinality(of(i)) + 1
      BY <1>7, <2>4, FS_AddElement
    <2>7. c <= Cardinality(of(i))
      BY <1>7, <2>5, FS_Subset
    <2>8. QED
      BY <1>3, <1>5, <1>6, <1>7, <2>1, <2>6, <2>7
  <1>10. Place(u, n + 1) = c + 1
    <2>1. \A j : j \in 1..n + 1 <=> j \in 1..n \/ j = n + 1
      BY <1>1
    <2>2. \A j \in 1..n : Earlier(u, j, n + 1) <=> v[j].time <= e.time
      <3>1. \A j \in 1..n : j < n + 1
        BY <1>1
      <3>2. QED
        BY <1>1, <3>1 DEF Earlier
    <2>3. ~Earlier(u, n + 1, n + 1)
      BY <1>1 DEF Earlier
    <2>4. in(n + 1) = low
      BY <2>1, <2>2, <2>3
    <2>5. n + 1 \in 1..n + 1
      BY <1>1
    <2> HIDE DEF in, low
    <2>6. QED
      BY <1>3, <1>6, <2>4, <2>5
  <1> HIDE DEF low, of, in, c
  <1>11. /\ Len(sorted) = n
         /\ \A k \in 1..n : At(v, k) \in 1..n /\ Place(v, At(v, k)) = k /\ sorted[k] = v[At(v, k)]
    BY <1>1, SortedIs, PlaceIsOnto
  <1>12. SortedByTime(u) = [k \in 1..n + 1 |-> u[At(u, k)]]
    BY <1>1 DEF SortedByTime, At, Place, Earlier
  <1>13. \A k \in 1..n : v[At(v, k)].time <= e.time <=> k <= c
    BY <1>1, <1>3, <1>8, <1>9, <1>11
  <1>14. ASSUME NEW k \in 1..n + 1, NEW i \in 1..n + 1, Place(u, i) = k
         PROVE  At(u, k) = i
    <2>1. /\ At(u, k) \in 1..n + 1 /\ Place(u, At(u, k)) = k
          /\ \A j \in 1..n + 1 : Place(u, j) = Place(u, i) => j = i
      BY <1>1, <1>4, PlaceIsOnto
    <2>2. QED
      BY <1>14, <2>1
  <1>15. ASSUME NEW k \in 1..n + 1
         PROVE  u[At(u, k)] = IF k < c + 1 THEN sorted[k] ELSE IF k = c + 1 THEN e ELSE sorted[k - 1]
    <2>1. CASE k < c + 1
      <3>1. k \in 1..n /\ k <= c
        BY <1>1, <1>3, <2>1
      <3>2. At(v, k) \in 1..n /\ At(v, k) \in 1..n + 1 /\ v[At(v, k)].time <= e.time
        BY <1>1, <1>11, <1>13, <3>1
      <3>3. Place(u, At(v, k)) = k
        BY <1>8, <1>11, <3>1, <3>2
      <3>4. At(u, k) = At(v, k)
        BY <1>14, <3>2, <3>3
      <3>5. QED
        BY <1>1, <1>11, <2>1, <3>1, <3>2, <3>4
    <2>2. CASE k = c + 1
      <3>1. At(u, k) = n + 1
        BY <1>1, <1>10, <1>14, <2>2
      <3>2. ~(k < c + 1)
        BY <1>3, <2>2
      <3>3. QED
        BY <1>1, <2>2, <3>1, <3>2
    <2>3. CASE k > c + 1
      <3>1. k - 1 \in 1..n /\ ~(k - 1 <= c) /\ ~(k < c + 1) /\ k # c + 1 /\ (k - 1) + 1 = k
        BY <1>1, <1>3, <2>3
      <3>2. /\ At(v, k - 1) \in 1..n /\ At(v, k - 1) \in 1..n + 1
            /\ ~(v[At(v, k - 1)].time <= e.time)
        BY <1>1, <1>11, <1>13, <3>1
      <3>3. Place(u, At(v, k - 1)) = k
        BY <1>9, <1>11, <3>1, <3>2
      <3>4. At(u, k) = At(v, k - 1)
        BY <1>14, <3>2, <3>3
      <3>5. QED
        BY <1>1, <1>11, <3>1, <3>2, <3>4
    <2>4. QED
      BY <1>1, <1>3, <2>1, <2>2, <2>3
  <1>16. SortedByTime(u) = Insert(sorted, c + 1, e)
    BY <1>11, <1>12, <1>15 DEF Insert
  <1>17. QED
    BY <1>3, <1>11, <1>13, <1>16 DEF u

-----------------------------------------------------------------------------
(* The in-memory list.                                                     *)

\* Of a list of n, what is before the last M; the last M; and all but the first
\* if that is one too many.
Over(n, M) == IF n > M THEN n - M ELSE 0
Kept(w, M) == SubSeq(w, 1 + Over(Len(w), M), Len(w))
Trimmed(w, M) == IF Len(w) > M THEN Tail(w) ELSE w

\* Inserting into the kept end of a list, and dropping the first if that is one
\* too many, is keeping the end of the list with the insertion.
LEMMA InsertSuffix ==
  ASSUME NEW S, NEW w \in Seq(S), NEW e \in S, NEW c \in 0..Len(w), NEW M \in Nat \ {0},
         NEW cm, cm = IF c >= Over(Len(w), M) THEN c - Over(Len(w), M) ELSE 0
  PROVE  Trimmed(Insert(Kept(w, M), cm + 1, e), M) = Kept(Insert(w, c + 1, e), M)
  <1> DEFINE n == Len(w)
             m == Kept(w, M)
             longer == Insert(m, cm + 1, e)
             whole == Insert(w, c + 1, e)
             d == Over(n, M)
  <1>1. n \in Nat /\ d \in Nat /\ d <= n /\ cm \in Nat
    BY DEF Over
  <1>2. whole = [k \in 1..n + 1 |-> IF k < c + 1 THEN w[k] ELSE IF k = c + 1 THEN e ELSE w[k - 1]]
    BY DEF Insert
  <1>3. ASSUME NEW k \in 1..n + 1
        PROVE  (IF k < c + 1 THEN w[k] ELSE IF k = c + 1 THEN e ELSE w[k - 1]) \in S
    BY <1>1
  <1>4. whole \in Seq(S) /\ Len(whole) = n + 1
    <2> HIDE DEF whole
    <2>1. whole \in [1..n + 1 -> S] /\ n + 1 \in Nat
      BY <1>1, <1>2, <1>3
    <2>2. QED
      BY <2>1
  <1>5. m \in Seq(S) /\ Len(m) = n - d /\ \A k \in 1..n - d : m[k] = w[d + k]
    BY <1>1 DEF Kept
  <1> HIDE DEF m
  <1>6. CASE n < M
    <2>1. d = 0 /\ cm = c /\ Over(n + 1, M) = 0 /\ ~(n + 1 > M)
      BY <1>1, <1>6 DEF Over
    <2>2. m = w
      BY <1>1, <1>5, <2>1
    <2>3. longer = whole
      BY <2>1, <2>2
    <2>4. SubSeq(whole, 1, n + 1) = whole
      BY <1>4
    <2>5. QED
      BY <1>4, <2>1, <2>3, <2>4 DEF Kept, Trimmed, m
  <1>7. CASE n >= M
    <2>1. d = n - M /\ Over(n + 1, M) = d + 1 /\ Len(m) = M
      BY <1>1, <1>5, <1>7 DEF Over
    <2>2. longer = [k \in 1..M + 1 |-> IF k < cm + 1 THEN m[k] ELSE IF k = cm + 1 THEN e ELSE m[k - 1]]
      BY <2>1 DEF Insert
    <2>3. Len(longer) = M + 1 /\ longer # <<>> /\ Len(longer) > M
      BY <2>2
    <2>4. Tail(longer) = [k \in 1..M |-> longer[k + 1]]
      BY <2>2, <2>3
    <2>5. SubSeq(whole, 1 + (d + 1), n + 1) = [k \in 1..M |-> whole[d + 1 + k]]
      BY <1>1, <1>4, <2>1
    <2> HIDE DEF longer, whole, d, n
    <2>6. ASSUME NEW k \in 1..M
          PROVE  longer[k + 1] = whole[d + 1 + k]
      <3>1. /\ k + 1 \in 1..M + 1 /\ d + 1 + k \in 1..n + 1
            /\ c \in Nat /\ (k + 1) - 1 = k /\ (d + 1 + k) - 1 = d + k
        BY <1>1, <2>1
      <3>2. longer[k + 1] = IF k + 1 < cm + 1 THEN m[k + 1] ELSE IF k + 1 = cm + 1 THEN e ELSE m[k]
        BY <2>2, <3>1
      <3>3. whole[d + 1 + k] = IF d + 1 + k < c + 1 THEN w[d + 1 + k]
                               ELSE IF d + 1 + k = c + 1 THEN e ELSE w[d + k]
        BY <1>2, <3>1
      <3>4. cm = IF c >= d THEN c - d ELSE 0
        BY DEF d, n
      <3>5. /\ d + 1 + k < c + 1 <=> k + 1 < cm + 1
            /\ d + 1 + k = c + 1 <=> k + 1 = cm + 1
        BY <1>1, <3>1, <3>4
      <3>6. m[k] = w[d + k]
        BY <1>1, <1>5, <2>1
      <3>7. k + 1 < cm + 1 => m[k + 1] = w[d + 1 + k]
        <4>1. k + 1 < cm + 1 => k + 1 \in 1..n - d /\ d + (k + 1) = d + 1 + k
          BY <1>1, <2>1, <3>1, <3>4 DEF n
        <4>2. QED
          BY <1>5, <4>1
      <3>8. QED
        BY <3>2, <3>3, <3>5, <3>6, <3>7
    <2>7. QED
      BY <1>4, <2>1, <2>3, <2>4, <2>5, <2>6 DEF d, n, m, longer, whole, Kept, Trimmed
  <1>8. n < M \/ n >= M
    BY <1>1
  <1>9. QED
    BY <1>6, <1>7, <1>8, Zenon

-----------------------------------------------------------------------------
(* The invariant.                                                          *)

\* Entry e is of a line of the file d: as it was written, or read back.
EntryOf(e, d) == e.offset < Len(d) /\ d[e.offset + 1].time = e.time
Lasting(e, d) == EntryOf(e, d) /\ d[e.offset + 1].form = "whole"
Readable(e, d) == EntryOf(e, d) /\ d[e.offset + 1].form # "cut"

\* The types, but for memory, whose are with what it holds.
StoreTypeOK ==
  /\ kind \in Kinds /\ strict \in BOOLEAN /\ fileOf \in [Systems -> Files]
  /\ disk \in [Files -> Seq(Chunk)]
  /\ index \in [Systems -> Seq(Entry)] /\ acked \in [Systems -> Seq(Entry)]
  /\ initialized \subseteq Systems
  /\ before \in [Systems -> Nat]
  /\ written \in 0..MaxChunks /\ lives \in Nat
  /\ \A f \in Files : Len(disk[f]) <= written

AckedLasts ==
  \A s \in Systems : Alone(s) =>
    \A k \in 1..Len(acked[s]) : Lasting(acked[s][k], disk[fileOf[s]])

\* The index of a file nobody else has never leads past its end, to a record of
\* another time or into a line that was cut.
IndexLeads ==
  \A s \in Systems : Alone(s) =>
    \A k \in 1..Len(index[s]) : Readable(index[s][k], disk[fileOf[s]])

StoreInv == StoreTypeOK /\ AckedLasts /\ IndexLeads

-----------------------------------------------------------------------------
(* Reading and writing.                                                    *)

\* The entries read back are those of the lines that parse.
LEMMA ReadBackIs ==
  ASSUME NEW d \in Seq(Chunk), Len(d) <= MaxChunks
  PROVE  LET found == ReadBack(d)
         IN /\ found \in Seq(Entry)
            /\ \A j \in 1..Len(found) : \E i \in LineStarts(d) :
                 Parses(d, i) /\ found[j] = [time |-> d[i].time, offset |-> i - 1]
            /\ \A i \in LineStarts(d) : Parses(d, i) =>
                 \E j \in 1..Len(found) : found[j] = [time |-> d[i].time, offset |-> i - 1]
  <1> DEFINE lines == {i \in LineStarts(d) : Parses(d, i)}
             at == [i \in 1..Len(d) |-> [time |-> d[i].time, offset |-> i - 1]]
             found == Picked(at, lines)
             n == Cardinality(lines)
  <1>1. ReadBack(d) = found
    BY DEF ReadBack
  <1>2. LineStarts(d) \subseteq 1..Len(d) /\ lines \subseteq LineStarts(d)
    BY DEF LineStarts
  <1>3. Len(d) \in Nat /\ MaxChunks \in Nat
    BY RepositoriesAssumption
  <1>4. \A i \in lines : at[i] = [time |-> d[i].time, offset |-> i - 1]
    BY <1>2
  <1>5. \A i \in 1..Len(d) : at[i] \in Entry
    <2> SUFFICES ASSUME NEW i \in 1..Len(d)
                 PROVE  [time |-> d[i].time, offset |-> i - 1] \in Entry
      OBVIOUS
    <2>1. d[i] \in Chunk
      OBVIOUS
    <2>2. d[i].time \in Times
      BY <2>1 DEF Chunk
    <2>3. i - 1 \in 0..MaxChunks - 1
      BY <1>3
    <2>4. QED
      BY <2>2, <2>3 DEF Entry
  <1>6. lines \in SUBSET Nat /\ IsFiniteSet(lines)
    <2>1. IsFiniteSet(1..Len(d)) /\ lines \in SUBSET (1..Len(d))
      BY <1>2, <1>3, FS_Interval
    <2>2. QED
      BY <1>3, <2>1, FS_Subset
  <1> HIDE DEF lines, at
  <1>7. /\ n \in Nat /\ DOMAIN found = 1..n
        /\ \A k \in 1..n : \E i \in lines : found[k] = at[i]
        /\ \A i \in lines : \E k \in 1..n : found[k] = at[i]
    BY <1>6, PickedAre
  <1>8. found = [k \in 1..n |-> found[k]]
    BY DEF Picked
  <1> HIDE DEF found, n
  <1>9. \A k \in 1..n : found[k] \in Entry
    BY <1>2, <1>5, <1>7
  <1>10. found \in Seq(Entry) /\ Len(found) = n
    BY <1>7, <1>8, <1>9
  <1>11. \A i : i \in lines <=> i \in LineStarts(d) /\ Parses(d, i)
    BY DEF lines
  <1>12. ASSUME NEW j \in 1..Len(found)
         PROVE  \E i \in LineStarts(d) :
                  Parses(d, i) /\ found[j] = [time |-> d[i].time, offset |-> i - 1]
    <2>1. PICK i \in lines : found[j] = at[i]
      BY <1>7, <1>10
    <2>2. QED
      BY <1>4, <1>11, <2>1
  <1>13. ASSUME NEW i \in LineStarts(d), Parses(d, i)
         PROVE  \E j \in 1..Len(found) : found[j] = [time |-> d[i].time, offset |-> i - 1]
    <2>1. i \in lines
      BY <1>11, <1>13
    <2>2. PICK j \in 1..n : found[j] = at[i]
      BY <1>7, <2>1
    <2>3. QED
      BY <1>4, <1>10, <2>1, <2>2
  <1>14. QED
    BY <1>1, <1>10, <1>12, <1>13

\* What Indexed answers is of its type and leads where the index should.
LEMMA IndexedLeads ==
  ASSUME StoreInv, NEW s \in Systems
  PROVE  /\ Indexed(s) \in Seq(Entry)
         /\ Alone(s) => \A k \in 1..Len(Indexed(s)) : Readable(Indexed(s)[k], disk[fileOf[s]])
  <1> DEFINE d == disk[fileOf[s]]
  <1>1. d \in Seq(Chunk) /\ Len(d) <= MaxChunks
    <2>1. fileOf[s] \in Files /\ written \in 0..MaxChunks
      BY DEF StoreInv, StoreTypeOK
    <2>2. d \in Seq(Chunk) /\ Len(d) <= written
      BY <2>1 DEF StoreInv, StoreTypeOK
    <2>3. Len(d) \in Nat /\ MaxChunks \in Nat
      BY <2>2, RepositoriesAssumption
    <2>4. QED
      BY <2>1, <2>2, <2>3
  <1> HIDE DEF d
  <1>2. ReadBack(d) \in Seq(Entry)
    BY <1>1, ReadBackIs
  <1>3. ASSUME NEW j \in 1..Len(ReadBack(d))
        PROVE  Readable(ReadBack(d)[j], d)
    <2>1. PICK i \in LineStarts(d) :
            Parses(d, i) /\ ReadBack(d)[j] = [time |-> d[i].time, offset |-> i - 1]
      BY <1>1, ReadBackIs
    <2>2. i \in 1..Len(d) /\ d[i].form # "cut"
      BY <2>1 DEF LineStarts, Parses
    <2>3. /\ ReadBack(d)[j].offset + 1 = i /\ ReadBack(d)[j].offset < Len(d)
          /\ ReadBack(d)[j].time = d[i].time
      BY <1>1, <2>1, <2>2
    <2>4. QED
      BY <2>2, <2>3 DEF Readable, EntryOf
  <1>4. index[s] \in Seq(Entry)
    BY DEF StoreInv, StoreTypeOK
  <1>5. Alone(s) => \A k \in 1..Len(index[s]) : Readable(index[s][k], d)
    BY DEF StoreInv, IndexLeads, d
  <1>6. QED
    BY <1>2, <1>3, <1>4, <1>5 DEF Indexed, d

\* A write adds a chunk to one file; every entry still is of what it was of.
LEMMA WriteAdds ==
  ASSUME StoreInv, NEW s \in Systems, NEW t \in Times, NEW form \in Forms, Write(s, t, form)
  PROVE  /\ disk' \in [Files -> Seq(Chunk)] /\ written' \in 0..MaxChunks
         /\ \A f \in Files : Len(disk'[f]) <= written'
         /\ disk'[fileOf[s]] = Append(disk[fileOf[s]], [system |-> s, time |-> t, form |-> form])
         /\ \A f \in Files : \A e \in Entry :
              /\ Lasting(e, disk[f]) => Lasting(e, disk'[f])
              /\ Readable(e, disk[f]) => Readable(e, disk'[f])
  <1> DEFINE c == [system |-> s, time |-> t, form |-> form]
             g == fileOf[s]
  <1>1. /\ disk \in [Files -> Seq(Chunk)] /\ g \in Files
        /\ written \in 0..MaxChunks /\ \A f \in Files : Len(disk[f]) <= written
        /\ MaxChunks \in Nat
    BY RepositoriesAssumption DEF StoreInv, StoreTypeOK
  <1>2. c \in Chunk
    BY DEF Chunk
  <1>3. /\ written < MaxChunks /\ written' = written + 1
        /\ disk' = [disk EXCEPT ![g] = Append(@, c)]
    BY DEF Write
  <1> HIDE DEF c, g
  <1>4. disk' \in [Files -> Seq(Chunk)]
    BY <1>1, <1>2, <1>3
  <1>5. written' \in 0..MaxChunks
    BY <1>1, <1>3
  <1>6. disk'[g] = Append(disk[g], c) /\ \A f \in Files \ {g} : disk'[f] = disk[f]
    BY <1>1, <1>3
  <1>7. ASSUME NEW f \in Files
        PROVE  /\ Len(disk'[f]) \in Nat /\ Len(disk[f]) \in Nat
               /\ Len(disk'[f]) >= Len(disk[f]) /\ Len(disk'[f]) <= Len(disk[f]) + 1
               /\ \A i \in 1..Len(disk[f]) : disk'[f][i] = disk[f][i]
    <2>1. CASE f = g
      BY <1>1, <1>2, <1>6, <2>1
    <2>2. CASE f # g
      BY <1>1, <1>6, <2>2
    <2>3. QED
      BY <2>1, <2>2
  <1>8. \A f \in Files : Len(disk'[f]) <= written'
    BY <1>1, <1>3, <1>7
  <1>9. ASSUME NEW f \in Files, NEW e \in Entry, EntryOf(e, disk[f])
        PROVE  EntryOf(e, disk'[f]) /\ disk'[f][e.offset + 1] = disk[f][e.offset + 1]
    <2>1. e.offset \in Nat
      BY <1>1 DEF Entry
    <2>2. e.offset + 1 \in 1..Len(disk[f])
      BY <1>7, <1>9, <2>1 DEF EntryOf
    <2>3. QED
      BY <1>7, <1>9, <2>1, <2>2 DEF EntryOf
  <1>10. QED
    BY <1>4, <1>5, <1>6, <1>8, <1>9 DEF Lasting, Readable, c, g

-----------------------------------------------------------------------------
(* The invariant is kept.                                                  *)

\* By an append of either class: the line that append() returns for is whole.
LEMMA AppendedKeeps ==
  ASSUME StoreInv, NEW s \in Systems, NEW t \in Times, NEW entries \in Seq(Entry),
         Alone(s) => \A k \in 1..Len(entries) : Readable(entries[k], disk[fileOf[s]]),
         Appended(s, t, entries), initialized' \subseteq Systems
  PROVE  StoreInv'
  <1> DEFINE d == disk[fileOf[s]]
             e == [time |-> t, offset |-> Len(d)]
  <1>1. /\ Write(s, t, "whole")
        /\ index' = [index EXCEPT ![s] = Append(entries, e)]
        /\ acked' = [acked EXCEPT ![s] = Append(@, e)]
        /\ UNCHANGED <<setting, before, lives>>
    BY DEF Appended
  <1>2. /\ disk' \in [Files -> Seq(Chunk)] /\ written' \in 0..MaxChunks
        /\ \A f \in Files : Len(disk'[f]) <= written'
        /\ disk'[fileOf[s]] = Append(d, [system |-> s, time |-> t, form |-> "whole"])
        /\ \A f \in Files : \A x \in Entry :
             /\ Lasting(x, disk[f]) => Lasting(x, disk'[f])
             /\ Readable(x, disk[f]) => Readable(x, disk'[f])
    <2>1. "whole" \in Forms
      BY DEF Forms
    <2>2. QED
      BY <1>1, <2>1, WriteAdds
  <1>3. /\ \A r \in Systems : fileOf[r] \in Files
        /\ fileOf \in [Systems -> Files] /\ fileOf' = fileOf
        /\ d \in Seq(Chunk) /\ Len(d) \in Nat
        /\ index \in [Systems -> Seq(Entry)] /\ acked \in [Systems -> Seq(Entry)]
        /\ \A r \in Systems : Alone(r)' = Alone(r)
    BY <1>1 DEF StoreInv, StoreTypeOK, setting, Alone
  <1>4. e \in Entry
    <2>1. Len(d) <= written /\ written < MaxChunks
      BY <1>1, <1>3 DEF Write, StoreInv, StoreTypeOK
    <2>2. Len(d) \in 0..MaxChunks - 1
      BY <1>3, <2>1, RepositoriesAssumption DEF StoreInv, StoreTypeOK
    <2>3. QED
      BY <2>2 DEF Entry
  <1>5. Lasting(e, disk'[fileOf[s]]) /\ Readable(e, disk'[fileOf[s]])
    <2> DEFINE c == [system |-> s, time |-> t, form |-> "whole"]
    <2>1. /\ c \in Chunk /\ c.time = t /\ c.form = "whole"
      BY DEF Chunk, Forms
    <2> HIDE DEF c
    <2>2. /\ Len(Append(d, c)) = Len(d) + 1 /\ Append(d, c)[Len(d) + 1] = c
      BY <1>3, <2>1
    <2>3. e.offset = Len(d) /\ e.time = t
      OBVIOUS
    <2> HIDE DEF d, e
    <2>4. Lasting(e, Append(d, c)) /\ Readable(e, Append(d, c))
      BY <1>3, <2>1, <2>2, <2>3 DEF Lasting, Readable, EntryOf
    <2>5. QED
      BY <1>2, <2>4 DEF c
  <1> HIDE DEF d, e
  <1>6. index' \in [Systems -> Seq(Entry)] /\ acked' \in [Systems -> Seq(Entry)]
    BY <1>1, <1>3, <1>4
  <1>7. StoreTypeOK'
    BY <1>1, <1>2, <1>6 DEF StoreInv, StoreTypeOK, setting
  <1>8. ASSUME NEW r \in Systems, Alone(r)
        PROVE  /\ \A k \in 1..Len(acked'[r]) : Lasting(acked'[r][k], disk'[fileOf[r]])
               /\ \A k \in 1..Len(index'[r]) : Readable(index'[r][k], disk'[fileOf[r]])
    <2>1. /\ acked[r] \in Seq(Entry) /\ index[r] \in Seq(Entry) /\ fileOf[r] \in Files
          /\ \A k \in 1..Len(acked[r]) : Lasting(acked[r][k], disk[fileOf[r]])
          /\ \A k \in 1..Len(index[r]) : Readable(index[r][k], disk[fileOf[r]])
      BY <1>3, <1>8 DEF StoreInv, AckedLasts, IndexLeads
    <2>2. CASE r = s
      <3>1. /\ acked'[r] = Append(acked[r], e) /\ index'[r] = Append(entries, e)
        BY <1>1, <1>3, <2>2
      <3>2. \A k \in 1..Len(entries) : Readable(entries[k], disk[fileOf[r]])
        BY <1>8, <2>2
      <3>3. ASSUME NEW k \in 1..Len(acked'[r])
            PROVE  Lasting(acked'[r][k], disk'[fileOf[r]])
        <4>1. \/ k \in 1..Len(acked[r]) /\ acked'[r][k] = acked[r][k]
              \/ acked'[r][k] = e
          BY <1>4, <2>1, <3>1
        <4>2. \A i \in 1..Len(acked[r]) : acked[r][i] \in Entry
          BY <2>1
        <4>3. QED
          BY <1>2, <1>5, <2>1, <2>2, <4>1, <4>2
      <3>4. ASSUME NEW k \in 1..Len(index'[r])
            PROVE  Readable(index'[r][k], disk'[fileOf[r]])
        <4>1. \/ k \in 1..Len(entries) /\ index'[r][k] = entries[k]
              \/ index'[r][k] = e
          BY <1>4, <3>1
        <4>2. \A i \in 1..Len(entries) : entries[i] \in Entry
          OBVIOUS
        <4>3. QED
          BY <1>2, <1>5, <2>1, <2>2, <3>2, <4>1, <4>2
      <3>5. QED
        BY <3>3, <3>4
    <2>3. CASE r # s
      <3>1. /\ acked'[r] = acked[r] /\ index'[r] = index[r]
        BY <1>1, <1>3, <2>3
      <3>2. /\ \A k \in 1..Len(acked[r]) : acked[r][k] \in Entry
            /\ \A k \in 1..Len(index[r]) : index[r][k] \in Entry
        BY <2>1
      <3>3. QED
        BY <1>2, <2>1, <3>1, <3>2
    <2>4. QED
      BY <2>2, <2>3
  <1>9. AckedLasts' /\ IndexLeads'
    BY <1>3, <1>8 DEF AckedLasts, IndexLeads
  <1>10. QED
    BY <1>7, <1>9 DEF StoreInv

\* By whatever leaves a file as it is or with a torn line more, appends nothing
\* and has an index that leads where it should.
LEMMA TornKeeps ==
  ASSUME StoreInv, UNCHANGED <<setting, acked>>,
         \/ \E s \in Systems : \E t \in Times, form \in Forms : Write(s, t, form)
         \/ UNCHANGED <<disk, written>>,
         index' \in [Systems -> Seq(Entry)],
         \A s \in Systems : Alone(s) =>
           \A k \in 1..Len(index'[s]) : Readable(index'[s][k], disk[fileOf[s]]),
         initialized' \subseteq Systems, before' \in [Systems -> Nat], lives' \in Nat
  PROVE  StoreInv'
  <1>1. /\ disk' \in [Files -> Seq(Chunk)] /\ written' \in 0..MaxChunks
        /\ \A f \in Files : Len(disk'[f]) <= written'
        /\ \A f \in Files : \A x \in Entry :
             /\ Lasting(x, disk[f]) => Lasting(x, disk'[f])
             /\ Readable(x, disk[f]) => Readable(x, disk'[f])
    <2>1. CASE UNCHANGED <<disk, written>>
      BY <2>1 DEF StoreInv, StoreTypeOK
    <2>2. CASE \E s \in Systems : \E t \in Times, form \in Forms : Write(s, t, form)
      BY <2>2, WriteAdds
    <2>3. QED
      BY <2>1, <2>2
  <1>2. /\ \A r \in Systems : fileOf[r] \in Files /\ acked[r] \in Seq(Entry)
        /\ acked' = acked /\ fileOf' = fileOf
        /\ \A r \in Systems : Alone(r)' = Alone(r)
    BY DEF StoreInv, StoreTypeOK, setting, Alone
  <1>3. StoreTypeOK'
    BY <1>1 DEF StoreInv, StoreTypeOK, setting
  <1>4. ASSUME NEW r \in Systems, Alone(r)
        PROVE  /\ \A k \in 1..Len(acked[r]) : Lasting(acked[r][k], disk'[fileOf[r]])
               /\ \A k \in 1..Len(index'[r]) : Readable(index'[r][k], disk'[fileOf[r]])
    <2>1. /\ \A k \in 1..Len(acked[r]) : acked[r][k] \in Entry
          /\ \A k \in 1..Len(index'[r]) : index'[r][k] \in Entry
      BY <1>2
    <2>2. /\ \A k \in 1..Len(acked[r]) : Lasting(acked[r][k], disk[fileOf[r]])
          /\ \A k \in 1..Len(index'[r]) : Readable(index'[r][k], disk[fileOf[r]])
      BY <1>4 DEF StoreInv, AckedLasts
    <2>3. QED
      BY <1>1, <1>2, <2>1, <2>2
  <1>5. AckedLasts' /\ IndexLeads'
    BY <1>2, <1>4 DEF AckedLasts, IndexLeads
  <1>6. QED
    BY <1>3, <1>5 DEF StoreInv

\* An index that has been built leads where it should.
LEMMA OpenedLeads ==
  ASSUME StoreInv, NEW s \in Systems, index' = [index EXCEPT ![s] = Indexed(s)]
  PROVE  /\ index' \in [Systems -> Seq(Entry)]
         /\ \A r \in Systems : Alone(r) =>
              \A k \in 1..Len(index'[r]) : Readable(index'[r][k], disk[fileOf[r]])
         /\ Opened(s) \subseteq Systems
  <1>1. index \in [Systems -> Seq(Entry)] /\ initialized \subseteq Systems
    BY DEF StoreInv, StoreTypeOK
  <1>2. /\ Indexed(s) \in Seq(Entry)
        /\ Alone(s) => \A k \in 1..Len(Indexed(s)) : Readable(Indexed(s)[k], disk[fileOf[s]])
    BY IndexedLeads
  <1>3. index'[s] = Indexed(s) /\ \A r \in Systems \ {s} : index'[r] = index[r]
    BY <1>1
  <1>4. \A r \in Systems \ {s} : Alone(r) =>
          \A k \in 1..Len(index[r]) : Readable(index[r][k], disk[fileOf[r]])
    BY DEF StoreInv, IndexLeads
  <1>5. index' \in [Systems -> Seq(Entry)]
    BY <1>1, <1>2
  <1>6. QED
    BY <1>1, <1>2, <1>3, <1>4, <1>5 DEF Opened

\* By a file that goes: of the systems that have one alone, this is the one.
LEMMA ClearKeeps ==
  ASSUME StoreInv, NEW s \in Systems, ClearSystem(s)
  PROVE  StoreInv'
  <1>1. /\ fileOf \in [Systems -> Files] /\ fileOf' = fileOf
        /\ disk \in [Files -> Seq(Chunk)]
        /\ index \in [Systems -> Seq(Entry)] /\ acked \in [Systems -> Seq(Entry)]
        /\ disk' = [disk EXCEPT ![fileOf[s]] = <<>>]
        /\ index' = [index EXCEPT ![s] = <<>>] /\ acked' = [acked EXCEPT ![s] = <<>>]
        /\ \A r \in Systems : Alone(r)' = Alone(r)
    BY DEF StoreInv, StoreTypeOK, ClearSystem, setting, Alone
  <1>2. /\ disk' \in [Files -> Seq(Chunk)]
        /\ index' \in [Systems -> Seq(Entry)] /\ acked' \in [Systems -> Seq(Entry)]
    BY <1>1
  <1>3. \A f \in Files : Len(disk'[f]) <= written'
    <2>1. /\ written' = written /\ written \in Nat /\ Len(<<>>) = 0
          /\ \A f \in Files : Len(disk[f]) <= written
      BY DEF StoreInv, StoreTypeOK, ClearSystem
    <2>2. \A f \in Files : disk'[f] = disk[f] \/ disk'[f] = <<>>
      BY <1>1
    <2>3. QED
      BY <2>1, <2>2
  <1>4. StoreTypeOK'
    BY <1>2, <1>3 DEF StoreInv, StoreTypeOK, ClearSystem, setting
  <1>5. ASSUME NEW r \in Systems, Alone(r)
        PROVE  /\ \A k \in 1..Len(acked'[r]) : Lasting(acked'[r][k], disk'[fileOf[r]])
               /\ \A k \in 1..Len(index'[r]) : Readable(index'[r][k], disk'[fileOf[r]])
    <2>1. CASE r = s
      <3>1. acked'[r] = <<>> /\ index'[r] = <<>> /\ Len(<<>>) = 0
        BY <1>1, <2>1
      <3>2. QED
        BY <3>1
    <2>2. CASE r # s
      <3>1. fileOf[r] # fileOf[s] /\ fileOf[r] \in Files
        BY <1>1, <1>5, <2>2 DEF Alone
      <3>2. /\ acked'[r] = acked[r] /\ index'[r] = index[r] /\ disk'[fileOf[r]] = disk[fileOf[r]]
        BY <1>1, <2>2, <3>1
      <3>3. QED
        BY <1>5, <3>2 DEF StoreInv, AckedLasts, IndexLeads
    <2>3. QED
      BY <2>1, <2>2
  <1>6. AckedLasts' /\ IndexLeads'
    BY <1>1, <1>5 DEF AckedLasts, IndexLeads
  <1>7. QED
    BY <1>4, <1>6 DEF StoreInv

\* Where nothing is acknowledged and no index is built, there is nothing to lose.
Blank ==
  /\ disk = [f \in Files |-> <<>>] /\ index = Empty /\ initialized = {} /\ acked = Empty
  /\ before = [s \in Systems |-> 0] /\ written \in 0..MaxChunks /\ lives \in Nat
  /\ kind \in Kinds /\ strict \in BOOLEAN /\ fileOf \in [Systems -> Files]

LEMMA NothingKept ==
  Blank => StoreInv
  <1> SUFFICES ASSUME Blank
               PROVE  StoreInv
    OBVIOUS
  <1> USE DEF Blank
  <1>1. <<>> \in Seq(Chunk) /\ <<>> \in Seq(Entry) /\ Len(<<>>) = 0
    OBVIOUS
  <1>2. /\ \A f \in Files : disk[f] = <<>>
        /\ \A s \in Systems : index[s] = <<>> /\ acked[s] = <<>>
    BY DEF Empty
  <1>3. StoreTypeOK
    BY <1>1, <1>2, RepositoriesAssumption DEF StoreTypeOK, Empty
  <1>4. AckedLasts /\ IndexLeads
    BY <1>1, <1>2 DEF AckedLasts, IndexLeads
  <1>5. QED
    BY <1>3, <1>4 DEF StoreInv

LEMMA StoreInvKept ==
  StoreInv /\ [Next]_vars => StoreInv'
  <1> SUFFICES ASSUME StoreInv, [Next]_vars
               PROVE  StoreInv'
    OBVIOUS
  <1>1. /\ before \in [Systems -> Nat] /\ lives \in Nat /\ initialized \subseteq Systems
        /\ acked \in [Systems -> Seq(Entry)] /\ index \in [Systems -> Seq(Entry)]
        /\ \A s \in Systems : Alone(s) =>
             \A k \in 1..Len(index[s]) : Readable(index[s][k], disk[fileOf[s]])
    BY DEF StoreInv, StoreTypeOK, IndexLeads
  <1>2. ASSUME NEW s \in Systems, ReadSystem(s)
        PROVE  StoreInv'
    BY <1>1, <1>2, OpenedLeads, TornKeeps DEF ReadSystem
  <1>3. ASSUME NEW s \in Systems, ClearSystem(s)
        PROVE  StoreInv'
    BY <1>3, ClearKeeps
  <1>4. ASSUME NEW s \in Systems, NEW t \in Times, AppendTelemetry(s, t)
        PROVE  StoreInv'
    <2>1. /\ Indexed(s) \in Seq(Entry)
          /\ Alone(s) => \A k \in 1..Len(Indexed(s)) : Readable(Indexed(s)[k], disk[fileOf[s]])
      BY IndexedLeads
    <2>2. Appended(s, t, Indexed(s)) /\ initialized' \subseteq Systems
      BY <1>1, <1>4 DEF AppendTelemetry, Opened
    <2>3. QED
      BY <2>1, <2>2, AppendedKeeps
  <1>5. ASSUME NEW s \in Systems, NEW t \in Times, AppendState(s, t)
        PROVE  StoreInv'
    <2>1. Appended(s, t, index[s]) /\ initialized' \subseteq Systems /\ index[s] \in Seq(Entry)
      BY <1>1, <1>5 DEF AppendState
    <2>2. QED
      BY <1>1, <2>1, AppendedKeeps
  <1>6. ASSUME NEW s \in Systems, NEW t \in Times, AppendFails(s, t)
        PROVE  StoreInv'
    <2>1. \/ \E r \in Systems : \E u \in Times, form \in Forms : Write(r, u, form)
          \/ UNCHANGED <<disk, written>>
      BY <1>6 DEF AppendFails, Forms
    <2>2. /\ index' = [index EXCEPT ![s] = Indexed(s)] /\ initialized' = Opened(s)
          /\ UNCHANGED <<setting, acked>> /\ before' = before /\ lives' = lives
      BY <1>6 DEF AppendFails
    <2>3. QED
      BY <1>1, <2>1, <2>2, OpenedLeads, TornKeeps
  <1>7. CASE ClearAll
    <2>1. Blank'
      BY <1>7 DEF ClearAll, setting, StoreInv, StoreTypeOK, Empty, Blank
    <2>2. QED
      BY <2>1, NothingKept, PTL
  <1>8. CASE Restart
    <2>1. \/ \E r \in Systems : \E u \in Times, form \in Forms : Write(r, u, form)
          \/ UNCHANGED <<disk, written>>
      BY <1>8 DEF Restart
    <2>2. /\ index' = [s \in Systems |-> <<>>] /\ initialized' = {}
          /\ UNCHANGED <<setting, acked>> /\ lives' = lives + 1
          /\ before' = [s \in Systems |-> Len(acked[s])]
      BY <1>8 DEF Restart, Empty
    <2>3. /\ index' \in [Systems -> Seq(Entry)] /\ before' \in [Systems -> Nat]
          /\ lives' \in Nat
      BY <1>1, <2>2
    <2>4. \A s \in Systems : \A k \in 1..Len(index'[s]) :
            Readable(index'[s][k], disk[fileOf[s]])
      <3>1. \A s \in Systems : index'[s] = <<>> /\ Len(<<>>) = 0
        BY <2>2
      <3>2. QED
        BY <3>1
    <2>5. initialized' \subseteq Systems
      BY <2>2
    <2>6. QED
      BY <2>1, <2>2, <2>3, <2>4, <2>5, TornKeeps
  <1>9. CASE UNCHANGED vars
    BY <1>9 DEF vars, setting, StoreInv, StoreTypeOK, AckedLasts, IndexLeads, Alone
  <1>10. QED
    BY <1>2, <1>3, <1>4, <1>5, <1>6, <1>7, <1>8, <1>9 DEF Next

-----------------------------------------------------------------------------
(* What the answers are made of.                                           *)

\* The records of this process.
Recent(s) == SubSeq(acked[s], before[s] + 1, Len(acked[s]))

\* The line of an acknowledged record begins with what a torn write left.
Glued(e, d) == e.offset > 0 /\ d[e.offset].form # "whole"

\* Every entry of a is among those of ix, unless it is glued.
Finds(ix, a, d) ==
  \A k \in 1..Len(a) : Glued(a[k], d) \/ \E j \in 1..Len(ix) : ix[j] = a[k]

\* The in-memory list is the latest records of this process in order of time.
MemoryIsLatest ==
  /\ memory \in [Systems -> Seq(Entry)]
  /\ \A s \in Systems : before[s] <= Len(acked[s]) /\ memory[s] = Latest(s)

\* The lines of a file nobody else has are in the order they were acknowledged.
OffsetsGrow ==
  \A s \in Systems : Alone(s) =>
    \A i, j \in 1..Len(acked[s]) : i < j => acked[s][i].offset < acked[s][j].offset

\* The index built over a file nobody else has finds what has been
\* acknowledged; the state history's, which is not built, what this process
\* appended.
IndexFinds ==
  \A s \in Systems :
    /\ kind = "states" /\ before[s] = 0 => index[s] = acked[s]
    /\ kind = "telemetry" /\ s \in initialized /\ Alone(s) =>
         Finds(index[s], acked[s], disk[fileOf[s]])

AnswerInv == StoreInv /\ MemoryIsLatest /\ OffsetsGrow /\ IndexFinds

-----------------------------------------------------------------------------
(* The list in memory.                                                     *)

\* The latest MaxRecords of a from its b-th on.
KeptOf(a, b) ==
  LET all == SortedByTime(SubSeq(a, b + 1, Len(a)))
  IN Kept(all, MaxRecords)

LEMMA EntryIs ==
  ASSUME NEW v \in Seq(Entry)
  PROVE  /\ Len(v) \in Nat /\ Timed(v)
         /\ \A k \in 1..Len(v) : v[k] \in Entry /\ v[k].time \in Times /\ v[k].offset \in Nat
  <1>1. ASSUME NEW k \in 1..Len(v)
        PROVE  v[k] \in Entry /\ v[k].time \in Times /\ v[k].offset \in Nat
    <2>1. v[k] \in Entry
      OBVIOUS
    <2>2. v[k].time \in Times /\ v[k].offset \in 0..MaxChunks - 1
      BY <2>1 DEF Entry
    <2>3. QED
      BY <2>1, <2>2, RepositoriesAssumption
  <1>2. Times \subseteq Int
    BY RepositoriesAssumption DEF Times
  <1>3. \A k \in 1..Len(v) : v[k].time \in Int
    BY <1>1, <1>2
  <1>4. Len(v) \in Nat
    OBVIOUS
  <1>5. QED
    BY <1>1, <1>3, <1>4 DEF Timed

LEMMA KeptIs ==
  ASSUME NEW a \in Seq(Entry), NEW b \in 0..Len(a)
  PROVE  LET recent == SubSeq(a, b + 1, Len(a))
             all == SortedByTime(recent)
             kept == KeptOf(a, b)
             d == Over(Len(all), MaxRecords)
         IN /\ recent \in Seq(Entry) /\ all \in Seq(Entry) /\ kept \in Seq(Entry)
            /\ Len(all) = Len(recent) /\ Len(kept) = Len(all) - d /\ d \in 0..Len(all)
            /\ Len(kept) <= Len(all)
            /\ Len(all) > 0 => d < Len(all)
            /\ \A k \in 1..Len(kept) : kept[k] = all[d + k] /\ d + k \in 1..Len(all)
            /\ \A i, j \in 1..Len(kept) : i < j => kept[i].time <= kept[j].time
  <1> DEFINE recent == SubSeq(a, b + 1, Len(a))
             all == SortedByTime(recent)
             kept == KeptOf(a, b)
             n == Len(all)
             d == Over(n, MaxRecords)
  <1>1. recent \in Seq(Entry)
    OBVIOUS
  <1> HIDE DEF recent
  <1>2. Timed(recent) /\ Len(recent) \in Nat
    BY <1>1, EntryIs
  <1>3. /\ all \in Seq(Entry) /\ Len(all) = Len(recent)
        /\ \A i, j \in 1..Len(recent) : i < j => all[i].time <= all[j].time
    BY <1>1, <1>2, SortedIs
  <1> HIDE DEF all
  <1>4. n \in Nat /\ d \in 0..n /\ (n > 0 => d < n)
    BY <1>2, <1>3, RepositoriesAssumption DEF Over
  <1>5. kept = SubSeq(all, 1 + d, n)
    BY DEF KeptOf, Kept, all, recent, d, n
  <1> HIDE DEF d, n, kept
  <1>6. /\ kept \in Seq(Entry) /\ Len(kept) = n - d
        /\ \A k \in 1..n - d : kept[k] = all[d + k]
    BY <1>3, <1>4, <1>5 DEF n
  <1>7. \A k \in 1..n - d : d + k \in 1..n
    BY <1>4
  <1>8. ASSUME NEW i \in 1..n - d, NEW j \in 1..n - d, i < j
        PROVE  kept[i].time <= kept[j].time
    <2>1. d + i < d + j
      BY <1>4, <1>8
    <2>2. QED
      BY <1>3, <1>6, <1>7, <2>1 DEF n
  <1>9. n - d <= n
    BY <1>4
  <1>10. QED
    BY <1>1, <1>3, <1>4, <1>6, <1>7, <1>8, <1>9 DEF n, d, kept, all, recent

\* The in-memory append gives what is kept of one record more.
LEMMA KeptGrows ==
  ASSUME NEW a \in Seq(Entry), NEW b \in 0..Len(a), NEW e \in Entry
  PROVE  LET m == KeptOf(a, b)
             longer == IF m = <<>> \/ e.time >= m[Len(m)].time THEN Append(m, e)
                       ELSE Insert(m, 1 + BisectRight([k \in 1..Len(m) |-> m[k].time], e.time), e)
         IN KeptOf(Append(a, e), b) = Trimmed(longer, MaxRecords)
  <1> DEFINE recent == SubSeq(a, b + 1, Len(a))
             all == SortedByTime(recent)
             more == SortedByTime(Append(recent, e))
             m == KeptOf(a, b)
             n == Len(all)
             d == Over(n, MaxRecords)
             times == [k \in 1..Len(m) |-> m[k].time]
  <1>1. /\ recent \in Seq(Entry) /\ all \in Seq(Entry) /\ m \in Seq(Entry)
        /\ n = Len(recent) /\ Len(m) = n - d /\ d \in 0..n /\ n \in Nat
        /\ n > 0 => d < n
        /\ \A k \in 1..n - d : m[k] = all[d + k] /\ d + k \in 1..n
    <2>1. /\ recent \in Seq(Entry) /\ all \in Seq(Entry) /\ m \in Seq(Entry)
          /\ n = Len(recent) /\ Len(m) = n - d /\ d \in 0..n
          /\ n > 0 => d < n
          /\ \A k \in 1..Len(m) : m[k] = all[d + k] /\ d + k \in 1..n
      BY KeptIs
    <2> HIDE DEF recent, all, m
    <2>2. n \in Nat
      BY <2>1
    <2>3. QED
      BY <2>1, <2>2
  <1>2. SubSeq(Append(a, e), b + 1, Len(Append(a, e))) = Append(recent, e)
    <2>1. /\ Append(a, e) \in Seq(Entry) /\ Len(Append(a, e)) = Len(a) + 1
          /\ \A i \in 1..Len(a) : Append(a, e)[i] = a[i]
          /\ Append(a, e)[Len(a) + 1] = e
          /\ b \in Nat /\ Len(a) \in Nat /\ b <= Len(a)
      OBVIOUS
    <2> DEFINE x == SubSeq(Append(a, e), b + 1, Len(a) + 1)
               y == Append(recent, e)
    <2>2. /\ Len(recent) = Len(a) - b /\ recent \in Seq(Entry)
          /\ \A k \in 1..Len(a) - b : recent[k] = a[b + k]
      BY <2>1
    <2>3. /\ y \in Seq(Entry) /\ Len(y) = Len(a) - b + 1 /\ y[Len(a) - b + 1] = e
          /\ \A k \in 1..Len(a) - b : y[k] = recent[k]
      <3> HIDE DEF recent
      <3>1. QED
        BY <2>1, <2>2
    <2>4. /\ x \in Seq(Entry) /\ Len(x) = Len(a) - b + 1
          /\ \A k \in 1..Len(a) - b + 1 : x[k] = Append(a, e)[b + k]
      BY <2>1
    <2> HIDE DEF x, y, recent
    <2>5. ASSUME NEW k \in 1..Len(a) - b + 1
          PROVE  x[k] = y[k]
      <3>1. CASE k = Len(a) - b + 1
        <4>1. b + k = Len(a) + 1
          BY <2>1, <3>1
        <4>2. QED
          BY <2>1, <2>3, <2>4, <3>1, <4>1
      <3>2. CASE k # Len(a) - b + 1
        <4>1. k \in 1..Len(a) - b /\ b + k \in 1..Len(a)
          BY <2>1, <3>2
        <4>2. QED
          BY <2>1, <2>2, <2>3, <2>4, <4>1
      <3>3. QED
        BY <3>1, <3>2
    <2>6. x = y
      BY <2>3, <2>4, <2>5
    <2>7. QED
      BY <2>1, <2>6 DEF x, y
  <1>3. m = Kept(all, MaxRecords)
    BY DEF KeptOf
  <1>4. KeptOf(Append(a, e), b) = Kept(more, MaxRecords)
    BY <1>2 DEF KeptOf
  <1> HIDE DEF recent, m
  <1>5. Timed(recent) /\ e.time \in Int
    <2>1. e.time \in Times /\ Times \subseteq Int
      BY RepositoriesAssumption DEF Entry, Times
    <2>2. QED
      BY <1>1, <2>1, EntryIs
  <1>6. PICK c \in 0..n :
          /\ \A k \in 1..n : all[k].time <= e.time <=> k <= c
          /\ more = Insert(all, c + 1, e)
    BY <1>1, <1>5, SortedGrows
  <1> HIDE DEF all, more, d, n
  <1> DEFINE cm == IF c >= d THEN c - d ELSE 0
             put == Insert(m, cm + 1, e)
  <1>7. Trimmed(put, MaxRecords) = Kept(more, MaxRecords)
    <2>1. /\ all \in Seq(Entry) /\ MaxRecords \in Nat \ {0} /\ c \in 0..Len(all)
          /\ cm = IF c >= Over(Len(all), MaxRecords) THEN c - Over(Len(all), MaxRecords) ELSE 0
      BY <1>1, <1>6, RepositoriesAssumption DEF d, n
    <2> HIDE DEF cm
    <2>2. Trimmed(Insert(Kept(all, MaxRecords), cm + 1, e), MaxRecords)
            = Kept(Insert(all, c + 1, e), MaxRecords)
      BY <2>1, InsertSuffix
    <2>3. QED
      BY <1>3, <1>6, <2>2
  <1>8. /\ \A k \in 1..n - d : m[k].time \in Int
        /\ \A k \in 1..n - d : e.time < m[k].time <=> k > cm
        /\ cm \in 0..n - d
    <2>1. \A k \in 1..n - d : m[k].time \in Int
      BY <1>1, EntryIs, RepositoriesAssumption DEF Times
    <2>2. \A k \in 1..n - d : m[k].time <= e.time <=> d + k <= c
      BY <1>1, <1>6
    <2>3. cm \in 0..n - d
      BY <1>1, <1>6
    <2>4. \A k \in 1..n - d : d + k <= c <=> k <= cm
      BY <1>1, <1>6
    <2> HIDE DEF cm
    <2>5. \A k \in 1..n - d : k <= cm <=> ~(k > cm)
      BY <1>1, <2>3
    <2>6. \A k \in 1..n - d : m[k].time <= e.time <=> ~(e.time < m[k].time)
      BY <1>5, <2>1
    <2>7. QED
      BY <2>1, <2>2, <2>3, <2>4, <2>5, <2>6
  <1> HIDE DEF cm
  <1>9. CASE m = <<>> \/ e.time >= m[Len(m)].time
    <2>1. cm = Len(m)
      <3>1. CASE n = d
        BY <1>1, <1>8, <3>1
      <3>2. CASE n # d
        <4>1. n - d \in 1..n - d /\ Len(m) = n - d /\ m # <<>>
          BY <1>1, <3>2
        <4>2. ~(e.time < m[n - d].time)
          BY <1>5, <1>8, <1>9, <4>1
        <4>3. ~(n - d > cm)
          BY <1>8, <4>1, <4>2
        <4>4. QED
          BY <1>1, <1>8, <4>1, <4>3
      <3>3. QED
        BY <3>1, <3>2
    <2>2. put = Append(m, e)
      <3>1. /\ Append(m, e) \in Seq(Entry) /\ Len(m) \in Nat
            /\ Len(Append(m, e)) = Len(m) + 1 /\ Append(m, e)[Len(m) + 1] = e
            /\ \A k \in 1..Len(m) : Append(m, e)[k] = m[k]
        <4>1. m \in Seq(Entry)
          BY <1>1
        <4>2. QED
          BY <4>1
      <3>2. put = [k \in 1..Len(m) + 1 |-> IF k < Len(m) + 1 THEN m[k]
                                           ELSE IF k = Len(m) + 1 THEN e ELSE m[k - 1]]
        BY <2>1 DEF Insert
      <3>3. \A k \in 1..Len(m) + 1 : (k < Len(m) + 1 /\ k \in 1..Len(m)) \/ k = Len(m) + 1
        BY <3>1
      <3>4. \A k \in 1..Len(m) + 1 : put[k] = Append(m, e)[k]
        BY <3>1, <3>2, <3>3
      <3>5. \A y \in Seq(Entry) : y = [k \in 1..Len(y) |-> y[k]]
        OBVIOUS
      <3>6. put = [k \in 1..Len(m) + 1 |-> put[k]]
        BY <3>2
      <3> HIDE DEF put
      <3>7. QED
        BY <3>1, <3>4, <3>5, <3>6
    <2>3. QED
      BY <1>4, <1>7, <1>9, <2>2 DEF m
  <1>10. CASE ~(m = <<>> \/ e.time >= m[Len(m)].time)
    <2>1. Len(times) = n - d /\ \A k \in 1..n - d : times[k] = m[k].time
      BY <1>1
    <2> HIDE DEF times
    <2>2. BisectRight(times, e.time) = cm
      <3>1. /\ Len(times) \in Nat /\ cm \in 0..Len(times)
            /\ \A k \in 1..Len(times) : e.time < times[k] <=> k > cm
        BY <1>1, <1>8, <2>1
      <3>2. QED
        BY <3>1, BisectRightFinds
    <2>3. 1 + cm = cm + 1
      BY <1>1, <1>8
    <2>4. Insert(m, 1 + BisectRight(times, e.time), e) = put
      BY <2>2, <2>3
    <2>5. QED
      BY <1>4, <1>7, <1>10, <2>4 DEF m, times
  <1>11. QED
    BY <1>9, <1>10

LEMMA KeptOfNone ==
  ASSUME NEW a \in Seq(Entry)
  PROVE  KeptOf(a, Len(a)) = <<>>
  <1> DEFINE kept == KeptOf(a, Len(a))
             recent == SubSeq(a, Len(a) + 1, Len(a))
             all == SortedByTime(recent)
  <1>1. Len(a) \in 0..Len(a) /\ Len(recent) = 0
    OBVIOUS
  <1>2. kept \in Seq(Entry) /\ Len(all) = Len(recent) /\ Len(kept) <= Len(all)
    BY <1>1, KeptIs
  <1> HIDE DEF kept, recent, all
  <1>3. Len(kept) \in Nat /\ Len(kept) <= 0
    BY <1>1, <1>2
  <1>4. kept = <<>>
    BY <1>2, <1>3
  <1>5. QED
    BY <1>4 DEF kept

LEMMA MemoryKept ==
  StoreInv /\ MemoryIsLatest /\ [Next]_vars => MemoryIsLatest'
  <1> SUFFICES ASSUME StoreInv, MemoryIsLatest, [Next]_vars
               PROVE  MemoryIsLatest'
    OBVIOUS
  <1> DEFINE Exact(s) == before'[s] <= Len(acked'[s]) /\ memory'[s] = KeptOf(acked'[s], before'[s])
             Typed == memory' \in [Systems -> Seq(Entry)]
  <1>1. /\ acked \in [Systems -> Seq(Entry)] /\ before \in [Systems -> Nat]
        /\ memory \in [Systems -> Seq(Entry)]
        /\ \A s \in Systems : /\ acked[s] \in Seq(Entry) /\ Len(acked[s]) \in Nat
                              /\ before[s] \in 0..Len(acked[s])
                              /\ memory[s] = KeptOf(acked[s], before[s])
    <2>1. acked \in [Systems -> Seq(Entry)] /\ before \in [Systems -> Nat]
      BY DEF StoreInv, StoreTypeOK
    <2>2. /\ memory \in [Systems -> Seq(Entry)]
          /\ \A s \in Systems : before[s] <= Len(acked[s]) /\ memory[s] = Latest(s)
      BY DEF MemoryIsLatest
    <2>3. \A s \in Systems : Latest(s) = KeptOf(acked[s], before[s])
      BY DEF Latest, KeptOf, Kept, Over
    <2>4. \A s \in Systems : acked[s] \in Seq(Entry) /\ before[s] \in Nat
      BY <2>1
    <2>5. \A s \in Systems : Len(acked[s]) \in Nat
      BY <2>4
    <2>6. QED
      BY <2>1, <2>2, <2>3, <2>4, <2>5
  <1>2. Typed /\ (\A s \in Systems : Exact(s)) => MemoryIsLatest'
    BY DEF MemoryIsLatest, Latest, KeptOf, Kept, Over
  <1>3. UNCHANGED <<memory, acked, before>> => Typed /\ \A s \in Systems : Exact(s)
    BY <1>1
  <1>4. /\ <<>> \in Seq(Entry) /\ Len(<<>>) = 0 /\ KeptOf(<<>>, 0) = <<>>
    <2>1. <<>> \in Seq(Entry) /\ Len(<<>>) = 0
      OBVIOUS
    <2>2. QED
      BY <2>1, KeptOfNone
  <1>5. ASSUME NEW s \in Systems, NEW t \in Times, NEW entries, Appended(s, t, entries)
        PROVE  Typed /\ \A r \in Systems : Exact(r)
    <2> DEFINE e == [time |-> t, offset |-> Len(disk[fileOf[s]])]
    <2>1. /\ memory' = [memory EXCEPT ![s] = Stored(s, e)]
          /\ acked' = [acked EXCEPT ![s] = Append(@, e)]
          /\ before' = before
      BY <1>5 DEF Appended
    <2>2. e \in Entry
      <3>1. /\ disk \in [Files -> Seq(Chunk)] /\ fileOf[s] \in Files
            /\ written \in 0..MaxChunks /\ written < MaxChunks /\ MaxChunks \in Nat
            /\ Len(disk[fileOf[s]]) <= written
        BY <1>5, RepositoriesAssumption DEF StoreInv, StoreTypeOK, Appended, Write
      <3>2. disk[fileOf[s]] \in Seq(Chunk)
        BY <3>1
      <3>3. Len(disk[fileOf[s]]) \in Nat
        BY <3>2
      <3>4. Len(disk[fileOf[s]]) \in 0..MaxChunks - 1
        BY <3>1, <3>3
      <3>5. QED
        BY <3>4 DEF Entry
    <2> HIDE DEF e
    <2>3. memory'[s] = Stored(s, e) /\ acked'[s] = Append(acked[s], e)
      BY <1>1, <2>1
    <2>4. \A r \in Systems \ {s} : memory'[r] = memory[r] /\ acked'[r] = acked[r]
      BY <1>1, <2>1
    <2>5. Stored(s, e) = KeptOf(Append(acked[s], e), before[s])
      <3> DEFINE m == KeptOf(acked[s], before[s])
                 longer == IF m = <<>> \/ e.time >= m[Len(m)].time THEN Append(m, e)
                           ELSE Insert(m, 1 + BisectRight([k \in 1..Len(m) |-> m[k].time], e.time), e)
      <3>1. m = memory[s]
        BY <1>1
      <3> HIDE DEF m
      <3>2. Stored(s, e) = Trimmed(longer, MaxRecords)
        BY <3>1 DEF Stored, Trimmed
      <3>3. acked[s] \in Seq(Entry) /\ before[s] \in 0..Len(acked[s])
        BY <1>1
      <3>4. KeptOf(Append(acked[s], e), before[s]) = Trimmed(longer, MaxRecords)
        BY <2>2, <3>3, KeptGrows, Zenon DEF m
      <3>5. QED
        BY <3>2, <3>4
    <2>6. /\ Append(acked[s], e) \in Seq(Entry)
          /\ Len(Append(acked[s], e)) = Len(acked[s]) + 1
      BY <1>1, <2>2
    <2>7. before[s] \in 0..Len(Append(acked[s], e))
      BY <1>1, <2>6
    <2>8. Stored(s, e) \in Seq(Entry)
      BY <2>5, <2>6, <2>7, KeptIs
    <2>9. Typed
      BY <1>1, <2>1, <2>8
    <2>10. Exact(s)
      BY <2>1, <2>3, <2>5, <2>7, <2>6, <1>1
    <2>11. \A r \in Systems \ {s} : Exact(r)
      BY <1>1, <2>1, <2>4
    <2>12. QED
      BY <2>9, <2>10, <2>11
  <1>6. ASSUME NEW s \in Systems, ClearSystem(s)
        PROVE  Typed /\ \A r \in Systems : Exact(r)
    <2>1. /\ memory' = [memory EXCEPT ![s] = <<>>] /\ acked' = [acked EXCEPT ![s] = <<>>]
          /\ before' = [before EXCEPT ![s] = 0]
      BY <1>6 DEF ClearSystem
    <2>2. memory'[s] = <<>> /\ acked'[s] = <<>> /\ before'[s] = 0
      BY <1>1, <2>1
    <2>3. \A r \in Systems \ {s} :
            memory'[r] = memory[r] /\ acked'[r] = acked[r] /\ before'[r] = before[r]
      BY <1>1, <2>1
    <2>4. Typed
      BY <1>1, <1>4, <2>1
    <2>5. Exact(s)
      BY <1>4, <2>2
    <2>6. \A r \in Systems \ {s} : Exact(r)
      BY <1>1, <2>3
    <2>7. QED
      BY <2>4, <2>5, <2>6
  <1>7. CASE ClearAll
    <2>1. /\ memory' = [s \in Systems |-> <<>>] /\ acked' = [s \in Systems |-> <<>>]
          /\ before' = [s \in Systems |-> 0]
      BY <1>7 DEF ClearAll, Empty
    <2>2. QED
      BY <1>2, <1>4, <2>1
  <1>8. CASE Restart
    <2>1. /\ memory' = [s \in Systems |-> <<>>] /\ acked' = acked
          /\ before' = [s \in Systems |-> Len(acked[s])]
      BY <1>8 DEF Restart, Empty
    <2>2. \A s \in Systems : KeptOf(acked[s], Len(acked[s])) = <<>>
      BY <1>1, KeptOfNone
    <2>3. QED
      BY <1>1, <1>2, <1>4, <2>1, <2>2
  <1> HIDE DEF Exact, Typed
  <1>9. CASE Next
    <2>1. ASSUME NEW s \in Systems, ReadSystem(s)
          PROVE  MemoryIsLatest'
      BY <1>2, <1>3, <2>1 DEF ReadSystem
    <2>2. ASSUME NEW s \in Systems, NEW t \in Times, AppendFails(s, t)
          PROVE  MemoryIsLatest'
      BY <1>2, <1>3, <2>2 DEF AppendFails
    <2>3. ASSUME NEW s \in Systems, NEW t \in Times, AppendTelemetry(s, t) \/ AppendState(s, t)
          PROVE  MemoryIsLatest'
      BY <1>2, <1>5, <2>3 DEF AppendTelemetry, AppendState
    <2>4. QED
      BY <1>2, <1>6, <1>7, <1>8, <1>9, <2>1, <2>2, <2>3 DEF Next
  <1>10. CASE UNCHANGED vars
    BY <1>2, <1>3, <1>10 DEF vars
  <1>11. QED
    BY <1>9, <1>10

-----------------------------------------------------------------------------
(* What an index finds.                                                    *)

\* A line that has been written stays, so what is glued stays glued.
LEMMA GluedLasts ==
  ASSUME StoreInv, NEW s \in Systems, NEW t \in Times, NEW form \in Forms, Write(s, t, form)
  PROVE  \A f \in Files : \A e \in Entry :
           Glued(e, disk[f]) /\ EntryOf(e, disk[f]) => Glued(e, disk'[f])
  <1> DEFINE c == [system |-> s, time |-> t, form |-> form]
             g == fileOf[s]
  <1>1. /\ disk \in [Files -> Seq(Chunk)] /\ g \in Files /\ c \in Chunk
        /\ disk' = [disk EXCEPT ![g] = Append(@, c)]
    BY DEF StoreInv, StoreTypeOK, Write, Chunk
  <1> HIDE DEF c, g
  <1>2. disk'[g] = Append(disk[g], c) /\ \A f \in Files \ {g} : disk'[f] = disk[f]
    BY <1>1
  <1>3. ASSUME NEW f \in Files, NEW i \in 1..Len(disk[f])
        PROVE  disk'[f][i] = disk[f][i]
    <2>1. disk[f] \in Seq(Chunk)
      BY <1>1
    <2>2. CASE f = g
      BY <1>1, <1>2, <2>1, <2>2
    <2>3. CASE f # g
      BY <1>2, <2>3
    <2>4. QED
      BY <2>2, <2>3
  <1>4. ASSUME NEW f \in Files, NEW e \in Entry, Glued(e, disk[f]), EntryOf(e, disk[f])
        PROVE  Glued(e, disk'[f])
    <2>1. e.offset \in Nat /\ disk[f] \in Seq(Chunk)
      BY <1>1, RepositoriesAssumption DEF Entry
    <2>2. Len(disk[f]) \in Nat
      BY <2>1
    <2>3. e.offset \in 1..Len(disk[f])
      BY <1>4, <2>1, <2>2 DEF Glued, EntryOf
    <2>4. QED
      BY <1>3, <1>4, <2>3 DEF Glued
  <1>5. QED
    BY <1>4

\* Reading back finds what has been acknowledged and is not glued.
LEMMA ReadBackFinds ==
  ASSUME StoreInv, NEW s \in Systems, Alone(s), NEW k \in 1..Len(acked[s])
  PROVE  LET d == disk[fileOf[s]]
             found == ReadBack(d)
         IN \/ Glued(acked[s][k], d)
            \/ \E j \in 1..Len(found) : found[j] = acked[s][k]
  <1> DEFINE d == disk[fileOf[s]]
             e == acked[s][k]
             i == e.offset + 1
  <1>1. d \in Seq(Chunk) /\ Len(d) \in Nat /\ Len(d) <= MaxChunks
    <2>1. fileOf[s] \in Files /\ written \in 0..MaxChunks
      BY DEF StoreInv, StoreTypeOK
    <2>2. d \in Seq(Chunk) /\ Len(d) <= written
      BY <2>1 DEF StoreInv, StoreTypeOK
    <2>3. QED
      BY <2>1, <2>2, RepositoriesAssumption
  <1>2. e \in Entry
    BY DEF StoreInv, StoreTypeOK
  <1>3. Lasting(e, d)
    BY DEF StoreInv, AckedLasts
  <1> HIDE DEF d, e
  <1>4. e.offset \in Nat
    BY <1>2, RepositoriesAssumption DEF Entry
  <1>5. i \in 1..Len(d) /\ i - 1 = e.offset /\ d[i].form = "whole" /\ d[i].time = e.time
    BY <1>1, <1>3, <1>4 DEF Lasting, EntryOf
  <1>6. e = [time |-> d[i].time, offset |-> i - 1]
    BY <1>2, <1>5 DEF Entry
  <1> HIDE DEF i
  <1>7. CASE i = 1 \/ d[i - 1].form = "whole"
    <2>1. i \in LineStarts(d) /\ Parses(d, i)
      BY <1>5, <1>7 DEF LineStarts, Parses
    <2>2. \E j \in 1..Len(ReadBack(d)) : ReadBack(d)[j] = [time |-> d[i].time, offset |-> i - 1]
      BY <1>1, <2>1, ReadBackIs
    <2>3. QED
      BY <1>6, <2>2 DEF d, e
  <1>8. CASE ~(i = 1 \/ d[i - 1].form = "whole")
    <2>1. e.offset > 0 /\ d[e.offset].form # "whole"
      BY <1>4, <1>5, <1>8
    <2>2. QED
      BY <2>1 DEF Glued, d, e
  <1>9. QED
    BY <1>7, <1>8

LEMMA IndexedFinds ==
  ASSUME StoreInv, IndexFinds, kind = "telemetry", NEW s \in Systems, Alone(s)
  PROVE  Finds(Indexed(s), acked[s], disk[fileOf[s]])
  <1>1. CASE s \in initialized
    BY <1>1 DEF Indexed, IndexFinds
  <1>2. CASE s \notin initialized
    <2>1. Indexed(s) = ReadBack(disk[fileOf[s]])
      BY <1>2 DEF Indexed
    <2>2. QED
      BY <2>1, ReadBackFinds DEF Finds
  <1>3. QED
    BY <1>1, <1>2

LEMMA FindsLater ==
  ASSUME StoreInv, NEW s \in Systems, Alone(s), NEW ix,
         Finds(ix, acked[s], disk[fileOf[s]]),
         \/ \E r \in Systems : \E t \in Times, form \in Forms : Write(r, t, form)
         \/ UNCHANGED <<disk, written>>
  PROVE  Finds(ix, acked[s], disk'[fileOf[s]])
  <1> DEFINE f == fileOf[s]
  <1>1. f \in Files /\ acked[s] \in Seq(Entry)
    BY DEF StoreInv, StoreTypeOK
  <1>2. \A k \in 1..Len(acked[s]) : acked[s][k] \in Entry /\ EntryOf(acked[s][k], disk[f])
    BY <1>1 DEF StoreInv, AckedLasts, Lasting
  <1> HIDE DEF f
  <1>3. \A e \in Entry : Glued(e, disk[f]) /\ EntryOf(e, disk[f]) => Glued(e, disk'[f])
    BY <1>1, GluedLasts
  <1>4. \A k \in 1..Len(acked[s]) :
          Glued(acked[s][k], disk[f]) \/ \E j \in 1..Len(ix) : ix[j] = acked[s][k]
    BY DEF Finds, f
  <1>5. QED
    BY <1>2, <1>3, <1>4 DEF Finds, f

\* A new line is after all that has been acknowledged.
LEMMA OffsetsKept ==
  StoreInv /\ OffsetsGrow /\ [Next]_vars => OffsetsGrow'
  <1> SUFFICES ASSUME StoreInv, OffsetsGrow, [Next]_vars
               PROVE  OffsetsGrow'
    OBVIOUS
  <1> DEFINE Grows(a) == \A i, j \in 1..Len(a) : i < j => a[i].offset < a[j].offset
  <1>1. /\ acked \in [Systems -> Seq(Entry)]
        /\ \A s \in Systems : Alone(s) => Grows(acked[s])
        /\ fileOf' = fileOf
    BY DEF StoreInv, StoreTypeOK, OffsetsGrow, vars, setting, Next, ReadSystem, ClearSystem,
           AppendTelemetry, AppendState, Appended, AppendFails, ClearAll, Restart
  <1>2. \A s \in Systems : Alone(s)' = Alone(s)
    BY <1>1 DEF Alone
  <1>3. (\A s \in Systems : Alone(s) => Grows(acked'[s])) => OffsetsGrow'
    BY <1>2 DEF OffsetsGrow
  <1>4. Grows(<<>>)
    OBVIOUS
  <1>5. ASSUME NEW s \in Systems, NEW t \in Times, NEW entries, Appended(s, t, entries)
        PROVE  \A r \in Systems : Alone(r) => Grows(acked'[r])
    <2> DEFINE d == disk[fileOf[s]]
               e == [time |-> t, offset |-> Len(d)]
    <2>1. acked' = [acked EXCEPT ![s] = Append(@, e)]
      BY <1>5 DEF Appended
    <2>2. acked'[s] = Append(acked[s], e) /\ \A r \in Systems \ {s} : acked'[r] = acked[r]
      BY <1>1, <2>1
    <2>3. acked[s] \in Seq(Entry) /\ d \in Seq(Chunk) /\ e.offset = Len(d)
      BY <1>1 DEF StoreInv, StoreTypeOK
    <2> HIDE DEF d, e
    <2>4. ASSUME Alone(s)
          PROVE  Grows(Append(acked[s], e))
      <3> DEFINE a == acked[s]
                 n == Len(a)
      <3>1. /\ n \in Nat /\ Len(Append(a, e)) = n + 1 /\ Append(a, e)[n + 1] = e
            /\ \A i \in 1..n : Append(a, e)[i] = a[i]
        BY <2>3
      <3>2. \A i \in 1..n : a[i].offset < Len(d)
        BY <2>4 DEF StoreInv, AckedLasts, Lasting, EntryOf, d
      <3>3. Grows(a)
        BY <1>1, <2>4
      <3>4. \A i \in 1..n + 1 : i \in 1..n \/ i = n + 1
        BY <3>1
      <3> HIDE DEF a, n
      <3>5. ASSUME NEW i \in 1..n + 1, NEW j \in 1..n + 1, i < j
            PROVE  Append(a, e)[i].offset < Append(a, e)[j].offset
        <4>1. i \in 1..n
          BY <3>1, <3>5
        <4>2. CASE j = n + 1
          BY <2>3, <3>1, <3>2, <4>1, <4>2
        <4>3. CASE j \in 1..n
          BY <3>1, <3>3, <3>5, <4>1, <4>3 DEF n
        <4>4. QED
          BY <3>4, <4>2, <4>3
      <3>6. QED
        BY <3>1, <3>5 DEF a, n
    <2>5. QED
      BY <1>1, <2>2, <2>4
  <1> HIDE DEF Grows
  <1>6. ASSUME NEW s \in Systems, ClearSystem(s)
        PROVE  \A r \in Systems : Alone(r) => Grows(acked'[r])
    <2>1. acked' = [acked EXCEPT ![s] = <<>>]
      BY <1>6 DEF ClearSystem
    <2>2. acked'[s] = <<>> /\ \A r \in Systems \ {s} : acked'[r] = acked[r]
      BY <1>1, <2>1
    <2>3. QED
      BY <1>1, <1>4, <2>2
  <1>7. CASE ClearAll
    <2>1. \A s \in Systems : acked'[s] = <<>>
      BY <1>7 DEF ClearAll, Empty
    <2>2. QED
      BY <1>3, <1>4, <2>1
  <1>8. CASE acked' = acked
    BY <1>1, <1>3, <1>8
  <1>9. CASE Next
    BY <1>3, <1>5, <1>6, <1>7, <1>8, <1>9
       DEF Next, ReadSystem, AppendTelemetry, AppendState, AppendFails, Restart
  <1>10. CASE UNCHANGED vars
    BY <1>8, <1>10 DEF vars
  <1>11. QED
    BY <1>9, <1>10

\* What has been acknowledged is found by the index that has been built, or is
\* what this process has appended.
LEMMA FindsKept ==
  StoreInv /\ IndexFinds /\ [Next]_vars => IndexFinds'
  <1> SUFFICES ASSUME StoreInv, IndexFinds, [Next]_vars
               PROVE  IndexFinds'
    OBVIOUS
  <1> DEFINE Own(s) == kind = "states" /\ before'[s] = 0 => index'[s] = acked'[s]
             Found(s) == kind = "telemetry" /\ s \in initialized' /\ Alone(s) =>
                           Finds(index'[s], acked'[s], disk'[fileOf[s]])
  <1>1. /\ acked \in [Systems -> Seq(Entry)] /\ index \in [Systems -> Seq(Entry)]
        /\ before \in [Systems -> Nat] /\ disk \in [Files -> Seq(Chunk)]
        /\ fileOf \in [Systems -> Files] /\ initialized \subseteq Systems /\ kind \in Kinds
    BY DEF StoreInv, StoreTypeOK
  <1>2. fileOf' = fileOf /\ kind' = kind
    BY DEF vars, setting, Next, ReadSystem, ClearSystem,
           AppendTelemetry, AppendState, Appended, AppendFails, ClearAll, Restart
  <1>3. (\A s \in Systems : Own(s) /\ Found(s)) => IndexFinds'
    BY <1>2 DEF IndexFinds, Alone
  <1>4. \A s \in Systems :
          /\ kind = "states" /\ before[s] = 0 => index[s] = acked[s]
          /\ kind = "telemetry" /\ s \in initialized /\ Alone(s) =>
               Finds(index[s], acked[s], disk[fileOf[s]])
    BY DEF IndexFinds
  <1>5. \A d : Finds(<<>>, <<>>, d)
    BY DEF Finds
  <1>6. ASSUME NEW s \in Systems, NEW t \in Times, NEW entries \in Seq(Entry),
               Appended(s, t, entries),
               kind = "states" => entries = index[s] /\ initialized' = initialized,
               kind = "telemetry" => entries = Indexed(s) /\ initialized' = Opened(s)
        PROVE  \A r \in Systems : Own(r) /\ Found(r)
    <2> DEFINE e == [time |-> t, offset |-> Len(disk[fileOf[s]])]
    <2>1. /\ Write(s, t, "whole") /\ before' = before
          /\ index' = [index EXCEPT ![s] = Append(entries, e)]
          /\ acked' = [acked EXCEPT ![s] = Append(@, e)]
      BY <1>6 DEF Appended
    <2> HIDE DEF e
    <2>2. /\ index'[s] = Append(entries, e) /\ acked'[s] = Append(acked[s], e)
          /\ \A r \in Systems \ {s} : index'[r] = index[r] /\ acked'[r] = acked[r]
      BY <1>1, <2>1
    <2>3. \E r \in Systems : \E u \in Times, form \in Forms : Write(r, u, form)
      BY <2>1 DEF Forms
    <2>4. Own(s)
      BY <1>4, <1>6, <2>1, <2>2
    <2>5. \A r \in Systems \ {s} : Own(r)
      BY <1>4, <2>1, <2>2
    <2>6. ASSUME NEW r \in Systems \ {s}, kind = "telemetry", r \in initialized', Alone(r)
          PROVE  Finds(index'[r], acked'[r], disk'[fileOf[r]])
      <3>1. r \in initialized
        BY <1>6, <2>6 DEF Opened
      <3>2. Finds(index[r], acked[r], disk[fileOf[r]])
        BY <1>4, <2>6, <3>1
      <3>3. QED
        BY <2>2, <2>3, <2>6, <3>2, FindsLater
    <2>7. ASSUME kind = "telemetry", Alone(s)
          PROVE  Finds(index'[s], acked'[s], disk'[fileOf[s]])
      <3>1. Finds(entries, acked[s], disk[fileOf[s]])
        BY <1>6, <2>7, IndexedFinds
      <3>2. Finds(entries, acked[s], disk'[fileOf[s]])
        BY <2>3, <2>7, <3>1, FindsLater
      <3> DEFINE a == acked[s]
      <3>3. /\ \A k \in 1..Len(Append(a, e)) :
                 (k \in 1..Len(a) /\ Append(a, e)[k] = a[k]) \/ Append(a, e)[k] = e
            /\ \A k \in 1..Len(entries) :
                 k \in 1..Len(Append(entries, e)) /\ Append(entries, e)[k] = entries[k]
            /\ \E k \in 1..Len(Append(entries, e)) : Append(entries, e)[k] = e
        <4>1. a \in Seq(Entry)
          BY <1>1
        <4> HIDE DEF a
        <4>2. \A k \in 1..Len(Append(a, e)) :
                 (k \in 1..Len(a) /\ Append(a, e)[k] = a[k]) \/ Append(a, e)[k] = e
          BY <4>1
        <4>3. /\ Len(entries) + 1 \in 1..Len(Append(entries, e))
              /\ Append(entries, e)[Len(entries) + 1] = e
          OBVIOUS
        <4>4. \A k \in 1..Len(entries) :
                 k \in 1..Len(Append(entries, e)) /\ Append(entries, e)[k] = entries[k]
          OBVIOUS
        <4>5. QED
          BY <4>2, <4>3, <4>4
      <3>4. Finds(Append(entries, e), Append(a, e), disk'[fileOf[s]])
        <4> DEFINE x == Append(entries, e)
                   y == Append(a, e)
        <4> HIDE DEF x, y
        <4>1. /\ \A k \in 1..Len(y) : (k \in 1..Len(a) /\ y[k] = a[k]) \/ y[k] = e
              /\ \A k \in 1..Len(entries) : k \in 1..Len(x) /\ x[k] = entries[k]
              /\ \E k \in 1..Len(x) : x[k] = e
          BY <3>3 DEF x, y
        <4>2. Finds(x, y, disk'[fileOf[s]])
          BY <3>2, <4>1 DEF Finds
        <4>3. QED
          BY <4>2 DEF x, y
      <3>5. QED
        BY <2>2, <3>4
    <2>8. QED
      BY <2>4, <2>5, <2>6, <2>7
  <1>7. ASSUME NEW s \in Systems, UNCHANGED <<acked, before>>,
               \/ \E r \in Systems : \E t \in Times, form \in Forms : Write(r, t, form)
               \/ UNCHANGED <<disk, written>>,
               index' = [index EXCEPT ![s] = Indexed(s)], initialized' = Opened(s)
        PROVE  \A r \in Systems : Own(r) /\ Found(r)
    <2>1. index'[s] = Indexed(s) /\ \A r \in Systems \ {s} : index'[r] = index[r]
      BY <1>1, <1>7
    <2>2. \A r \in Systems \ {s} : r \in initialized' => r \in initialized
      BY <1>7 DEF Opened
    <2>3. kind = "states" => Indexed(s) = index[s]
      BY DEF Indexed
    <2>4. \A r \in Systems : Own(r)
      BY <1>4, <1>7, <2>1, <2>3
    <2>5. ASSUME NEW r \in Systems \ {s}, kind = "telemetry", r \in initialized', Alone(r)
          PROVE  Finds(index'[r], acked'[r], disk'[fileOf[r]])
      <3>1. Finds(index[r], acked[r], disk[fileOf[r]])
        BY <1>4, <2>2, <2>5
      <3>2. QED
        BY <1>7, <2>1, <2>5, <3>1, FindsLater
    <2>6. ASSUME kind = "telemetry", Alone(s)
          PROVE  Finds(index'[s], acked'[s], disk'[fileOf[s]])
      <3>1. Finds(Indexed(s), acked[s], disk[fileOf[s]])
        BY <2>6, IndexedFinds
      <3>2. QED
        BY <1>7, <2>1, <2>6, <3>1, FindsLater
    <2>7. QED
      BY <2>4, <2>5, <2>6
  <1>8. ASSUME NEW s \in Systems, ClearSystem(s)
        PROVE  \A r \in Systems : Own(r) /\ Found(r)
    <2>1. /\ index' = [index EXCEPT ![s] = <<>>] /\ acked' = [acked EXCEPT ![s] = <<>>]
          /\ before' = [before EXCEPT ![s] = 0] /\ initialized' = initialized \ {s}
          /\ disk' = [disk EXCEPT ![fileOf[s]] = <<>>]
      BY <1>8 DEF ClearSystem
    <2>2. /\ index'[s] = <<>> /\ acked'[s] = <<>> /\ s \notin initialized'
          /\ \A r \in Systems \ {s} :
               index'[r] = index[r] /\ acked'[r] = acked[r] /\ before'[r] = before[r]
      BY <1>1, <2>1
    <2>3. Own(s) /\ Found(s)
      BY <2>2
    <2>4. ASSUME NEW r \in Systems \ {s}
          PROVE  Own(r) /\ Found(r)
      <3>1. Own(r)
        BY <1>4, <2>2
      <3>2. Alone(r) => disk'[fileOf[r]] = disk[fileOf[r]]
        BY <1>1, <2>1 DEF Alone
      <3>3. r \in initialized' => r \in initialized
        BY <2>1
      <3>4. QED
        BY <1>4, <2>2, <3>1, <3>2, <3>3
    <2>5. QED
      BY <2>3, <2>4
  <1>9. CASE ClearAll
    <2>1. initialized' = {} /\ \A s \in Systems : index'[s] = <<>> /\ acked'[s] = <<>>
      BY <1>9 DEF ClearAll, Empty
    <2>2. QED
      BY <1>3, <2>1
  <1>10. CASE Restart
    <2>1. /\ initialized' = {} /\ acked' = acked
          /\ \A s \in Systems : index'[s] = <<>> /\ before'[s] = Len(acked[s])
      BY <1>10 DEF Restart, Empty
    <2>2. \A s \in Systems : Len(acked[s]) = 0 => acked[s] = <<>>
      BY <1>1
    <2>3. QED
      BY <1>3, <2>1, <2>2
  <1>11. CASE UNCHANGED vars
    BY <1>3, <1>4, <1>11 DEF vars
  <1> HIDE DEF Own, Found
  <1>12. ASSUME NEW s \in Systems, NEW t \in Times, AppendTelemetry(s, t)
         PROVE  IndexFinds'
    <2>1. Indexed(s) \in Seq(Entry)
      BY IndexedLeads
    <2>2. /\ kind = "telemetry" /\ kind # "states"
          /\ Appended(s, t, Indexed(s)) /\ initialized' = Opened(s)
      BY <1>12 DEF AppendTelemetry
    <2>3. QED
      BY <1>3, <1>6, <2>1, <2>2
  <1>13. ASSUME NEW s \in Systems, NEW t \in Times, AppendState(s, t)
         PROVE  IndexFinds'
    <2>1. index[s] \in Seq(Entry)
      BY <1>1
    <2>2. /\ kind = "states" /\ kind # "telemetry"
          /\ Appended(s, t, index[s]) /\ initialized' = initialized
      BY <1>13 DEF AppendState
    <2>3. QED
      BY <1>3, <1>6, <2>1, <2>2
  <1>14. ASSUME NEW s \in Systems, NEW t \in Times, AppendFails(s, t)
         PROVE  IndexFinds'
    <2>1. \/ \E r \in Systems : \E u \in Times, form \in Forms : Write(r, u, form)
          \/ UNCHANGED <<disk, written>>
      BY <1>14 DEF AppendFails, Forms
    <2>2. /\ index' = [index EXCEPT ![s] = Indexed(s)] /\ initialized' = Opened(s)
          /\ UNCHANGED <<acked, before>>
      BY <1>14 DEF AppendFails
    <2>3. QED
      BY <1>3, <1>7, <2>1, <2>2
  <1>15. ASSUME NEW s \in Systems, ReadSystem(s)
         PROVE  IndexFinds'
    <2>1. /\ index' = [index EXCEPT ![s] = Indexed(s)] /\ initialized' = Opened(s)
          /\ UNCHANGED <<acked, before>> /\ UNCHANGED <<disk, written>>
      BY <1>15 DEF ReadSystem
    <2>2. QED
      BY <1>3, <1>7, <2>1
  <1>16. QED
    BY <1>3, <1>8, <1>9, <1>10, <1>11, <1>12, <1>13, <1>14, <1>15 DEF Next

-----------------------------------------------------------------------------
(* Answers.                                                                *)

LEMMA FirstIs ==
  ASSUME NEW S, NEW t \in Seq(S), NEW l \in Nat, l <= Len(t)
  PROVE  /\ SubSeq(t, 1, l) \in Seq(S) /\ Len(SubSeq(t, 1, l)) = l
         /\ \A k \in 1..l : SubSeq(t, 1, l)[k] = t[k] /\ k \in 1..Len(t)
  OBVIOUS

LEMMA ArrangedIs ==
  ASSUME NEW v \in Seq(Entry), NEW q, q.limit \in Nat
  PROVE  /\ Arranged(v, q) \in Seq(Entry)
         /\ \A k \in 1..Len(Arranged(v, q)) : \E i \in 1..Len(v) : Arranged(v, q)[k] = v[i]
  <1> DEFINE n == Len(v)
             t == IF q.descending THEN Backwards(v) ELSE v
             u == Arranged(v, q)
  <1>1. /\ t \in Seq(Entry) /\ Len(t) = n /\ n \in Nat
        /\ \A k \in 1..n : \E i \in 1..n : t[k] = v[i]
    <2>1. CASE q.descending
      <3> DEFINE b == Backwards(v)
      <3>1. b = [k \in 1..n |-> v[n + 1 - k]] /\ n \in Nat
        BY DEF Backwards
      <3>2. \A k \in 1..n : n + 1 - k \in 1..n
        BY <3>1
      <3>3. \A k \in 1..n : v[n + 1 - k] \in Entry
        BY <3>2
      <3> HIDE DEF b
      <3>4. b \in [1..n -> Entry]
        BY <3>1, <3>3
      <3>5. b \in Seq(Entry) /\ Len(b) = n
        BY <3>1, <3>4
      <3>6. \A k \in 1..n : b[k] = v[n + 1 - k]
        BY <3>1
      <3>7. t = b
        BY <2>1 DEF b
      <3> HIDE DEF t
      <3>8. QED
        BY <3>1, <3>2, <3>5, <3>6, <3>7
    <2>2. CASE ~q.descending
      BY <2>2
    <2>3. QED
      BY <2>1, <2>2
  <1>2. u = IF q.limit # None /\ q.limit < Len(t) THEN SubSeq(t, 1, q.limit) ELSE t
    BY DEF Arranged
  <1> HIDE DEF t, u, n
  <1>3. CASE q.limit # None /\ q.limit < Len(t)
    <2>1. /\ SubSeq(t, 1, q.limit) \in Seq(Entry) /\ Len(SubSeq(t, 1, q.limit)) = q.limit
          /\ \A k \in 1..q.limit : SubSeq(t, 1, q.limit)[k] = t[k] /\ k \in 1..n
      <3>1. q.limit <= Len(t)
        BY <1>1, <1>3
      <3>2. QED
        BY <1>1, <3>1, FirstIs
    <2>2. u = SubSeq(t, 1, q.limit)
      BY <1>2, <1>3
    <2>3. QED
      BY <1>1, <2>1, <2>2 DEF u, n
  <1>4. CASE ~(q.limit # None /\ q.limit < Len(t))
    BY <1>1, <1>2, <1>4 DEF u, n
  <1>5. QED
    BY <1>3, <1>4

\* What is wanted of entries is some of them.
LEMMA WantedIs ==
  ASSUME NEW v \in Seq(Entry), NEW q, q.limit \in Nat
  PROVE  /\ Wanted(v, q) \in Seq(Entry)
         /\ \A k \in 1..Len(Wanted(v, q)) : \E i \in 1..Len(v) : Wanted(v, q)[k] = v[i]
  <1> DEFINE n == Len(v)
             K == {k \in 1..n : InRange(q, v[k].time)}
             p == Picked(v, K)
             c == Cardinality(K)
  <1>1. n \in Nat /\ \A k \in 1..n : v[k] \in Entry
    OBVIOUS
  <1>2. K \in SUBSET Nat /\ K \subseteq 1..n
    BY <1>1
  <1> HIDE DEF K
  <1>3. IsFiniteSet(K)
    <2>1. IsFiniteSet(1..n)
      BY <1>1, FS_Interval
    <2>2. QED
      BY <1>2, <2>1, FS_Subset
  <1>4. c \in Nat /\ DOMAIN p = 1..c /\ \A k \in 1..c : \E i \in K : p[k] = v[i]
    BY <1>2, <1>3, PickedAre
  <1>5. p = [k \in 1..c |-> p[k]]
    BY DEF Picked
  <1>6. Wanted(v, q) = Arranged(p, q)
    BY DEF Wanted, K
  <1> HIDE DEF p, c
  <1>7. \A k \in 1..c : p[k] \in Entry
    BY <1>1, <1>2, <1>4
  <1>8. p \in [1..c -> Entry]
    BY <1>5, <1>7
  <1>9. p \in Seq(Entry) /\ Len(p) = c
    BY <1>4, <1>8
  <1>10. /\ Arranged(p, q) \in Seq(Entry)
         /\ \A k \in 1..Len(Arranged(p, q)) : \E i \in 1..c : Arranged(p, q)[k] = p[i]
    BY <1>9, ArrangedIs
  <1>11. \A i \in 1..c : \E j \in 1..n : p[i] = v[j]
    BY <1>2, <1>4
  <1>12. QED
    BY <1>6, <1>10, <1>11

LEMMA QueryIs ==
  ASSUME NEW q \in Queries
  PROVE  q.from \in Int /\ q.to \in Int /\ q.limit \in Nat
  <1>1. /\ q.from \in {None} \union Times /\ q.to \in {None} \union Times
        /\ q.limit \in {None} \union 1..MaxChunks
    BY DEF Queries, Query
  <1>2. Times \subseteq Int /\ None \in Nat /\ 1..MaxChunks \subseteq Nat
    BY RepositoriesAssumption DEF Times, None
  <1>3. {None} \union Times \subseteq Int /\ {None} \union 1..MaxChunks \subseteq Nat
    BY <1>2
  <1>4. QED
    BY <1>1, <1>3, Zenon

\* The slice of entries in order of time is what is wanted of them.
LEMMA SliceIsWanted ==
  ASSUME NEW v \in Seq(Entry), NEW q \in Queries,
         \A i, j \in 1..Len(v) : i < j => v[i].time <= v[j].time
  PROVE  Slice(v, q) = Wanted(v, q)
  <1>1. \A i \in 1..Len(v) : v[i].time \in Int
    BY EntryIs DEF Timed
  <1>2. q.from \in Int /\ q.to \in Int /\ q.limit \in Nat
    BY QueryIs
  <1>3. QED
    BY <1>1, <1>2, SliceExact DEF Wanted

\* If as many entries are found as there are acknowledged, all of these among
\* them, the latest of the former is as late as the latest of the latter.
LEMMA LatestAgree ==
  ASSUME NEW a \in Seq(Entry), NEW x \in Seq(Entry), Len(x) = Len(a),
         \A i, j \in 1..Len(x) : i < j => x[i].time <= x[j].time,
         \A i, j \in 1..Len(a) : i < j => a[i].offset < a[j].offset,
         \A k \in 1..Len(a) : \E j \in 1..Len(x) : x[j] = a[k]
  PROVE  LET m == KeptOf(a, 0)
         IN /\ m = <<>> <=> x = <<>>
            /\ x # <<>> => m[Len(m)].time = x[Len(x)].time
  <1> DEFINE n == Len(a)
             m == KeptOf(a, 0)
             all == SortedByTime(a)
             d == Over(n, MaxRecords)
             f == [k \in 1..n |-> CHOOSE j \in 1..n : x[j] = a[k]]
  <1>1. n \in Nat /\ Len(x) = n /\ 0 \in 0..n /\ SubSeq(a, 0 + 1, Len(a)) = a
    OBVIOUS
  <1>2. /\ \A k \in 1..n : a[k].time \in Int /\ a[k].offset \in Int
        /\ \A k \in 1..n : x[k].time \in Int
        /\ Timed(a)
    BY <1>1, EntryIs, RepositoriesAssumption DEF Times
  <1>3. /\ m \in Seq(Entry) /\ Len(m) = n - d /\ Len(m) <= n /\ d \in 0..n /\ (n > 0 => d < n)
        /\ \A k \in 1..Len(m) : m[k] = all[d + k]
    <2>1. Len(all) = n
      BY <1>2, SortedIs
    <2>2. LET recent == SubSeq(a, 0 + 1, Len(a))
              srt == SortedByTime(recent)
              kept == KeptOf(a, 0)
              o == Over(Len(srt), MaxRecords)
          IN /\ kept \in Seq(Entry)
             /\ Len(kept) = Len(srt) - o /\ o \in 0..Len(srt) /\ Len(kept) <= Len(srt)
             /\ Len(srt) > 0 => o < Len(srt)
             /\ \A k \in 1..Len(kept) : kept[k] = srt[o + k] /\ o + k \in 1..Len(srt)
      BY <1>1, KeptIs
    <2>3. QED
      BY <1>1, <2>1, <2>2
  <1>4. /\ \A k \in 1..n : \E i \in 1..n : all[k] = a[i]
        /\ \A i \in 1..n : \E k \in 1..n : all[k] = a[i]
        /\ \A i, j \in 1..n : i < j => all[i].time <= all[j].time
    BY <1>2, SortedIs
  <1> HIDE DEF n, m, all, d
  <1>5. \A k \in 1..n : f[k] \in 1..n /\ x[f[k]] = a[k]
    BY <1>1 DEF n
  <1> HIDE DEF f
  <1>6. ASSUME NEW k \in 1..n, NEW l \in 1..n, f[k] = f[l]
        PROVE  k = l
    <2>1. a[k] = a[l]
      BY <1>5, <1>6
    <2>2. \A i, j \in 1..n : i < j => a[i].offset < a[j].offset
      BY DEF n
    <2>3. a[k].offset = a[l].offset /\ a[k].offset \in Int
      BY <1>2, <2>1
    <2>4. \A g \in Int : ~(g < g)
      OBVIOUS
    <2>5. ~(k < l) /\ ~(l < k)
      BY <2>2, <2>3, <2>4, Zenon
    <2>6. QED
      BY <1>1, <2>5
  <1>7. \A j \in 1..n : \E k \in 1..n : f[k] = j
    <2>1. f \in [1..n -> 1..n]
      BY <1>5 DEF f
    <2>2. f \in Injection(1..n, 1..n)
      BY <1>6, <2>1 DEF Injection, IsInjective
    <2>3. IsFiniteSet(1..n)
      BY <1>1, FS_Interval
    <2>4. f \in Surjection(1..n, 1..n)
      BY <2>2, <2>3, FS_Injection
    <2>5. QED
      BY <2>4 DEF Surjection
  <1>8. CASE n = 0
    <2>1. Len(m) = 0
      <3>1. Len(m) \in Nat /\ Len(m) <= 0
        BY <1>3, <1>8
      <3>2. QED
        BY <3>1
    <2>2. m = <<>> /\ x = <<>>
      BY <1>1, <1>3, <1>8, <2>1
    <2>3. QED
      BY <2>2 DEF m
  <1>9. CASE n # 0
    <2>1. n \in 1..n /\ Len(m) \in 1..Len(m) /\ d + Len(m) = n
      <3> DEFINE l == Len(m)
      <3>1. l \in Nat /\ l = n - d /\ d \in 0..n /\ d < n
        BY <1>1, <1>3, <1>9
      <3> HIDE DEF l
      <3>2. n \in 1..n /\ l \in 1..l /\ d + l = n
        BY <1>1, <3>1
      <3>3. QED
        BY <3>2 DEF l
    <2>2. m # <<>> /\ x # <<>> /\ m[Len(m)] = all[n]
      BY <1>1, <1>3, <2>1
    <2>3. PICK p \in 1..n : all[n] = a[p]
      BY <1>4, <2>1
    <2>4. PICK r \in 1..n : f[r] = n
      BY <1>7, <2>1
    <2>5. x[n] = a[r]
      BY <1>5, <2>4
    <2>6. PICK i \in 1..n : all[i] = a[r]
      BY <1>4
    <2>7. all[i].time <= all[n].time
      <3>1. i = n \/ i < n
        BY <1>1
      <3>2. CASE i = n
        BY <1>2, <2>6, <3>2
      <3>3. CASE i < n
        BY <1>4, <2>1, <3>3
      <3>4. QED
        BY <3>1, <3>2, <3>3
    <2>8. PICK w \in 1..n : x[w] = a[p]
      BY <1>1 DEF n
    <2>9. x[w].time <= x[n].time
      <3>1. w = n \/ w < n
        BY <1>1
      <3>2. CASE w = n
        BY <1>2, <2>1, <3>2
      <3>3. CASE w < n
        BY <1>1, <2>1, <3>3
      <3>4. QED
        BY <3>1, <3>2, <3>3
    <2>10. all[n].time = x[n].time
      <3>1. a[r].time <= a[p].time
        BY <2>3, <2>6, <2>7
      <3>2. a[p].time <= a[r].time
        BY <2>5, <2>8, <2>9
      <3>3. a[r].time \in Int /\ a[p].time \in Int
        BY <1>2
      <3>4. \A g, h \in Int : g <= h /\ h <= g => g = h
        OBVIOUS
      <3>5. a[r].time = a[p].time
        BY <3>1, <3>2, <3>3, <3>4, Zenon
      <3>6. QED
        BY <2>3, <2>5, <3>5
    <2>11. QED
      BY <1>1, <2>2, <2>10 DEF m
  <1>10. QED
    BY <1>8, <1>9

\* Of a file of lines that all parse, its entries read back what they are of.
LEMMA FileAnswerIs ==
  ASSUME StoreInv, NEW s \in Systems, Alone(s), NEW q \in Queries, ~Refused(q),
         LET v == Indexed(s) IN \A i, j \in 1..Len(v) : i < j => v[i].time <= v[j].time,
         \A i \in 1..Len(disk[fileOf[s]]) : Parses(disk[fileOf[s]], i)
  PROVE  ~QueryRaises(s, q) /\ TimesOf(FileAnswer(s, q)) = TimesOf(Wanted(Indexed(s), q))
  <1> DEFINE v == Indexed(s)
             d == disk[fileOf[s]]
             w == Slice(v, q)
             n == Len(w)
             good == {k \in 1..n : Reads(d, w[k])}
             found == [k \in 1..n |-> IF k \in good THEN d[w[k].offset + 1] ELSE <<>>]
  <1>1. v \in Seq(Entry) /\ \A k \in 1..Len(v) : Readable(v[k], d)
    BY IndexedLeads
  <1>2. d \in Seq(Chunk) /\ Len(d) \in Nat
    <2>1. d \in Seq(Chunk)
      BY DEF StoreInv, StoreTypeOK
    <2>2. QED
      BY <2>1
  <1>3. \A i \in 1..Len(d) : Parses(d, i)
    OBVIOUS
  <1>4. w = Wanted(v, q)
    BY <1>1, SliceIsWanted
  <1>5. LineStarts(d) \subseteq 1..Len(d)
    BY DEF LineStarts
  <1>6. ~IndexRaises(s)
    BY <1>3, <1>5 DEF IndexRaises, Corrupted
  <1> HIDE DEF v, d, w
  <1>7. w \in Seq(Entry) /\ \A k \in 1..Len(w) : \E i \in 1..Len(v) : w[k] = v[i]
    <2>1. q.limit \in Nat /\ v \in Seq(Entry)
      BY <1>1, QueryIs
    <2>2. Wanted(v, q) \in Seq(Entry)
      BY <2>1, WantedIs
    <2>3. \A k \in 1..Len(Wanted(v, q)) : \E i \in 1..Len(v) : Wanted(v, q)[k] = v[i]
      BY <2>1, WantedIs
    <2>4. QED
      BY <1>4, <2>2, <2>3
  <1>8. ASSUME NEW k \in 1..n
        PROVE  /\ w[k].offset \in Nat /\ w[k].offset + 1 \in 1..Len(d)
               /\ Parses(d, w[k].offset + 1) /\ Reads(d, w[k])
               /\ d[w[k].offset + 1].time = w[k].time
    <2>1. PICK i \in 1..Len(v) : w[k] = v[i]
      BY <1>7
    <2>2. EntryOf(w[k], d)
      BY <1>1, <2>1 DEF Readable
    <2>3. w[k].offset \in Nat
      BY <1>7, EntryIs
    <2>4. w[k].offset + 1 \in 1..Len(d)
      BY <1>2, <2>2, <2>3 DEF EntryOf
    <2>5. QED
      BY <1>3, <2>2, <2>3, <2>4 DEF EntryOf, Reads
  <1>9. ~QueryRaises(s, q)
    BY <1>6, <1>8 DEF QueryRaises, v, d, w
  <1>10. n \in Nat
    BY <1>7
  <1>11. good = 1..n
    BY <1>8
  <1>12. found = [k \in 1..n |-> d[w[k].offset + 1]]
    BY <1>11
  <1>13. FileAnswer(s, q) = Picked(found, good)
    BY DEF FileAnswer, v, d, w
  <1> HIDE DEF found, good, n
  <1>14. Picked(found, good) = [k \in 1..n |-> found[k]]
    BY <1>10, <1>11, PickedAll
  <1>15. TimesOf(FileAnswer(s, q)) = [k \in 1..n |-> found[k].time]
    <2> DEFINE x == [k \in 1..n |-> found[k]]
    <2>1. Len(x) = n /\ \A k \in 1..n : x[k] = found[k]
      BY <1>10
    <2> HIDE DEF x
    <2>2. TimesOf(x) = [k \in 1..n |-> found[k].time]
      BY <2>1 DEF TimesOf
    <2>3. QED
      BY <1>13, <1>14, <2>2 DEF x
  <1>16. TimesOf(w) = [k \in 1..n |-> w[k].time]
    BY DEF TimesOf, n
  <1>17. \A k \in 1..n : found[k].time = w[k].time
    BY <1>8, <1>12
  <1>18. TimesOf(FileAnswer(s, q)) = TimesOf(w)
    BY <1>15, <1>16, <1>17
  <1>19. QED
    BY <1>4, <1>9, <1>18 DEF v

\* And the last entry is as late as the last record in memory.
LEMMA FileLatestIs ==
  ASSUME AnswerInv, NEW s \in Systems, Alone(s), before[s] = 0,
         LET v == Indexed(s) IN \A i, j \in 1..Len(v) : i < j => v[i].time <= v[j].time,
         \A i \in 1..Len(disk[fileOf[s]]) : Parses(disk[fileOf[s]], i),
         Len(Indexed(s)) = Len(acked[s])
  PROVE  FileLatest(s) = MemoryLatest(s)
  <1> DEFINE v == Indexed(s)
             d == disk[fileOf[s]]
             a == acked[s]
  <1>1. /\ v \in Seq(Entry) /\ \A k \in 1..Len(v) : EntryOf(v[k], d)
        /\ a \in Seq(Entry) /\ \A k \in 1..Len(a) : EntryOf(a[k], d)
        /\ kind \in Kinds
    BY IndexedLeads DEF AnswerInv, StoreInv, StoreTypeOK, AckedLasts, Lasting, Readable
  <1>2. d \in Seq(Chunk) /\ Len(d) \in Nat
    <2>1. d \in Seq(Chunk)
      BY DEF AnswerInv, StoreInv, StoreTypeOK
    <2>2. QED
      BY <2>1
  <1>3. \A i \in 1..Len(d) : Parses(d, i)
    OBVIOUS
  <1>4. memory[s] = KeptOf(a, 0)
    BY DEF AnswerInv, MemoryIsLatest, Latest, KeptOf, Kept, Over
  <1>5. \A i, j \in 1..Len(a) : i < j => a[i].offset < a[j].offset
    BY DEF AnswerInv, OffsetsGrow
  <1>6. kind = "states" => v = a
    BY DEF AnswerInv, IndexFinds, Indexed
  <1>7. kind = "telemetry" => Finds(v, a, d)
    BY IndexedFinds DEF AnswerInv
  <1>8. Len(v) = Len(a) /\ \A i, j \in 1..Len(v) : i < j => v[i].time <= v[j].time
    OBVIOUS
  <1>9. FileLatest(s) = IF v = <<>> \/ ~Reads(d, v[Len(v)]) THEN None
                        ELSE d[v[Len(v)].offset + 1].time
    BY DEF FileLatest
  <1> HIDE DEF v, d, a
  <1>10. ASSUME NEW e \in Entry, EntryOf(e, d)
         PROVE  ~Glued(e, d) /\ Reads(d, e) /\ d[e.offset + 1].time = e.time
    <2>1. e.offset \in Nat /\ e.offset + 1 \in 1..Len(d)
      <3>1. e.offset \in Nat
        BY RepositoriesAssumption DEF Entry
      <3>2. QED
        BY <1>2, <1>10, <3>1 DEF EntryOf
    <2>2. e.offset > 0 => e.offset \in 1..Len(d) /\ e.offset # Len(d)
      BY <1>2, <2>1
    <2>3. ~Glued(e, d)
      BY <1>3, <2>2 DEF Glued, Parses
    <2>4. QED
      BY <1>3, <1>10, <2>1, <2>3 DEF Reads, EntryOf
  <1>11. ASSUME NEW k \in 1..Len(a)
         PROVE  \E j \in 1..Len(v) : v[j] = a[k]
    <2>1. CASE kind = "states"
      BY <1>6, <2>1
    <2>2. CASE kind = "telemetry"
      <3>1. a[k] \in Entry
        BY <1>1
      <3>2. QED
        BY <1>1, <1>7, <1>10, <2>2, <3>1 DEF Finds
    <2>3. QED
      BY <1>1, <2>1, <2>2 DEF Kinds
  <1>12. /\ KeptOf(a, 0) = <<>> <=> v = <<>>
         /\ v # <<>> => KeptOf(a, 0)[Len(KeptOf(a, 0))].time = v[Len(v)].time
    BY <1>1, <1>5, <1>8, <1>11, LatestAgree
  <1>13. CASE v = <<>>
    BY <1>4, <1>9, <1>12, <1>13 DEF MemoryLatest
  <1>14. CASE v # <<>>
    <2>1. Len(v) \in 1..Len(v) /\ v[Len(v)] \in Entry
      BY <1>1, <1>14
    <2>2. Reads(d, v[Len(v)]) /\ d[v[Len(v)].offset + 1].time = v[Len(v)].time
      BY <1>1, <1>10, <2>1
    <2>3. MemoryLatest(s) = v[Len(v)].time
      BY <1>4, <1>12, <1>14 DEF MemoryLatest
    <2>4. QED
      BY <1>9, <1>14, <2>2, <2>3
  <1>15. QED
    BY <1>13, <1>14

-----------------------------------------------------------------------------
(* The theorems.                                                           *)

\* The variables but memory keep their types; an acknowledged record that has
\* its file alone is on the disk for good, and no index leads astray, whatever
\* fails, is killed, restarted or cleared.
THEOREM RecordsLast ==
  Spec => []StoreInv
  <1>1. Init => StoreInv
    <2> SUFFICES ASSUME Init
                 PROVE  StoreInv
      OBVIOUS
    <2>1. strict \in BOOLEAN
      <3>1. strict \in IF kind = "telemetry" THEN BOOLEAN ELSE {FALSE}
        BY DEF Init
      <3>2. CASE kind = "telemetry"
        BY <3>1, <3>2
      <3>3. CASE kind # "telemetry"
        <4>1. strict = FALSE
          BY <3>1, <3>3
        <4>2. QED
          BY <4>1
      <3>4. QED
        BY <3>2, <3>3
    <2>2. written \in 0..MaxChunks /\ lives \in Nat
      BY RepositoriesAssumption DEF Init
    <2>3. QED
      BY <2>1, <2>2, NothingKept DEF Init, Blank
  <1>2. QED
    BY <1>1, StoreInvKept, PTL DEF Spec

\* What append() has returned for is found again by any later process unless a
\* torn write left its line to it, and nothing that was cut is found: the scan
\* of file_repository.py, for any files, records and processes.
THEOREM AcknowledgedIsFound ==
  Spec => []OnlyGluedIsLost
  <1>1. StoreInv => OnlyGluedIsLost
    <2> SUFFICES ASSUME StoreInv, NEW s \in Systems
                 PROVE  LET d == disk[fileOf[s]]
                            found == ReadBack(d)
                        IN /\ Alone(s) =>
                                \A k \in 1..Len(acked[s]) :
                                  LET i == acked[s][k].offset + 1
                                  IN \/ i > 1 /\ d[i - 1].form # "whole"
                                     \/ \E j \in 1..Len(found) : found[j] = acked[s][k]
                           /\ \A j \in 1..Len(found) : d[found[j].offset + 1].form # "cut"
      BY DEF OnlyGluedIsLost
    <2> DEFINE d == disk[fileOf[s]]
    <2>1. d \in Seq(Chunk) /\ Len(d) \in Nat /\ Len(d) <= MaxChunks
      <3>1. fileOf[s] \in Files /\ written \in 0..MaxChunks
        BY DEF StoreInv, StoreTypeOK
      <3>2. d \in Seq(Chunk) /\ Len(d) <= written
        BY <3>1 DEF StoreInv, StoreTypeOK
      <3>3. QED
        BY <3>1, <3>2, RepositoriesAssumption
    <2>2. ASSUME Alone(s), NEW k \in 1..Len(acked[s])
          PROVE  LET i == acked[s][k].offset + 1
                 IN \/ i > 1 /\ d[i - 1].form # "whole"
                    \/ \E j \in 1..Len(ReadBack(d)) : ReadBack(d)[j] = acked[s][k]
      <3> DEFINE e == acked[s][k]
      <3>1. \/ Glued(e, d)
            \/ \E j \in 1..Len(ReadBack(d)) : ReadBack(d)[j] = e
        BY <2>2, ReadBackFinds
      <3>2. e \in Entry
        BY DEF StoreInv, StoreTypeOK
      <3> HIDE DEF d, e
      <3>3. e.offset \in Nat
        BY <3>2, RepositoriesAssumption DEF Entry
      <3>4. e.offset > 0 => e.offset + 1 > 1 /\ (e.offset + 1) - 1 = e.offset
        BY <3>3
      <3>5. QED
        BY <3>1, <3>4 DEF Glued, e
    <2>3. ASSUME NEW j \in 1..Len(ReadBack(d))
          PROVE  d[ReadBack(d)[j].offset + 1].form # "cut"
      <3> HIDE DEF d
      <3>1. PICK i \in LineStarts(d) :
              Parses(d, i) /\ ReadBack(d)[j] = [time |-> d[i].time, offset |-> i - 1]
        BY <2>1, ReadBackIs
      <3>2. ReadBack(d)[j].offset + 1 = i /\ d[i].form # "cut"
        BY <2>1, <3>1 DEF LineStarts, Parses
      <3>3. QED
        BY <3>2
    <2>4. QED
      BY <2>2, <2>3
  <1>2. QED
    BY <1>1, RecordsLast, PTL

\* The in-memory list is the latest records of this process in order of time,
\* whatever order they came in, and the index of a file nobody else has finds
\* what has been acknowledged.
THEOREM IndexesAnswer ==
  Spec => []AnswerInv
  <1>1. Init => MemoryIsLatest /\ OffsetsGrow /\ IndexFinds
    <2> SUFFICES ASSUME Init
                 PROVE  MemoryIsLatest /\ OffsetsGrow /\ IndexFinds
      OBVIOUS
    <2>1. /\ <<>> \in Seq(Entry) /\ Len(<<>>) = 0 /\ KeptOf(<<>>, 0) = <<>>
      <3>1. <<>> \in Seq(Entry) /\ Len(<<>>) = 0
        OBVIOUS
      <3>2. QED
        BY <3>1, KeptOfNone
    <2>2. /\ memory = [s \in Systems |-> <<>>] /\ initialized = {}
          /\ \A s \in Systems : acked[s] = <<>> /\ index[s] = <<>> /\ before[s] = 0
      BY DEF Init, Empty
    <2>3. \A s \in Systems : Latest(s) = KeptOf(acked[s], before[s])
      BY DEF Latest, KeptOf, Kept, Over
    <2>4. MemoryIsLatest
      BY <2>1, <2>2, <2>3 DEF MemoryIsLatest
    <2>5. OffsetsGrow
      BY <2>1, <2>2 DEF OffsetsGrow
    <2>6. IndexFinds
      BY <2>2 DEF IndexFinds
    <2>7. QED
      BY <2>4, <2>5, <2>6
  <1>2. QED
    BY <1>1, RecordsLast, MemoryKept, OffsetsKept, FindsKept, PTL DEF Spec, AnswerInv

\* Every variable keeps its type.
THEOREM StoreTypeCorrect ==
  Spec => []TypeOK
  <1>1. AnswerInv => TypeOK
    <2> SUFFICES ASSUME AnswerInv
                 PROVE  TypeOK
      OBVIOUS
    <2>1. StoreTypeOK /\ memory \in [Systems -> Seq(Entry)]
      BY DEF AnswerInv, StoreInv, MemoryIsLatest
    <2>2. {written, lives} \subseteq Nat
      BY <2>1, RepositoriesAssumption DEF StoreTypeOK
    <2>3. QED
      BY <2>1, <2>2 DEF StoreTypeOK, TypeOK
  <1>2. QED
    BY <1>1, IndexesAnswer, PTL

\* A range query gives exactly the records of the range: in memory always, of
\* the latest MaxRecords, however late records come and whichever are as old;
\* from a file if its records came in order of time and each can be read.  The
\* latest of the one is as late as that of the other.
THEOREM RangesExact ==
  Spec => []RangeQueriesExact
  <1>1. AnswerInv => RangeQueriesExact
    <2> SUFFICES ASSUME AnswerInv, NEW s \in Systems, NEW q \in Queries, ~Refused(q)
                 PROVE  LET entries == Indexed(s)
                            d == disk[fileOf[s]]
                        IN /\ MemoryAnswer(s, q) = Wanted(Latest(s), q)
                           /\ /\ Alone(s) /\ Ascending(TimesOf(entries))
                              /\ \A i \in 1..Len(d) : Parses(d, i)
                              => /\ ~QueryRaises(s, q)
                                 /\ TimesOf(FileAnswer(s, q)) = TimesOf(Wanted(entries, q))
                                 /\ before[s] = 0 /\ Len(entries) = Len(acked[s]) =>
                                      FileLatest(s) = MemoryLatest(s)
      BY DEF RangeQueriesExact
    <2>1. MemoryAnswer(s, q) = Wanted(Latest(s), q)
      <3> DEFINE m == memory[s]
      <3>1. m = Latest(s) /\ m = KeptOf(acked[s], before[s])
        BY DEF AnswerInv, MemoryIsLatest, Latest, KeptOf, Kept, Over
      <3>2. acked[s] \in Seq(Entry) /\ before[s] \in Nat /\ before[s] <= Len(acked[s])
        BY DEF AnswerInv, StoreInv, StoreTypeOK, MemoryIsLatest
      <3>3. before[s] \in 0..Len(acked[s])
        BY <3>2
      <3> HIDE DEF m
      <3>4. m \in Seq(Entry) /\ \A i, j \in 1..Len(m) : i < j => m[i].time <= m[j].time
        BY <3>1, <3>2, <3>3, KeptIs
      <3>5. Slice(m, q) = Wanted(m, q)
        BY <3>4, SliceIsWanted
      <3>6. QED
        BY <3>1, <3>5 DEF MemoryAnswer, m
    <2>2. ASSUME Ascending(TimesOf(Indexed(s)))
          PROVE  LET v == Indexed(s) IN \A i, j \in 1..Len(v) : i < j => v[i].time <= v[j].time
      <3> DEFINE v == Indexed(s)
                 t == TimesOf(v)
      <3>1. v \in Seq(Entry)
        BY IndexedLeads DEF AnswerInv
      <3> HIDE DEF v
      <3>2. Len(t) = Len(v) /\ \A i \in 1..Len(v) : t[i] = v[i].time
        BY <3>1 DEF TimesOf
      <3>3. \A i, j \in 1..Len(t) : i < j => t[i] <= t[j]
        BY <2>2 DEF Ascending, v
      <3> HIDE DEF t
      <3>4. QED
        BY <3>2, <3>3 DEF v
    <2>3. ASSUME Alone(s), Ascending(TimesOf(Indexed(s))),
                 \A i \in 1..Len(disk[fileOf[s]]) : Parses(disk[fileOf[s]], i)
          PROVE  /\ ~QueryRaises(s, q)
                 /\ TimesOf(FileAnswer(s, q)) = TimesOf(Wanted(Indexed(s), q))
                 /\ before[s] = 0 /\ Len(Indexed(s)) = Len(acked[s]) =>
                      FileLatest(s) = MemoryLatest(s)
      BY <2>2, <2>3, FileAnswerIs, FileLatestIs DEF AnswerInv
    <2>4. QED
      BY <2>1, <2>3
  <1>2. QED
    BY <1>1, IndexesAnswer, PTL
=============================================================================
