------------------------------ MODULE TimeIndex ------------------------------
(***************************************************************************)
(* Sequences of timestamps and the searches the repositories do on them.   *)
(***************************************************************************)
EXTENDS Selection

None == 0   \* a bound that is not given; timestamps are positive

\* Python's bisect: halving an interval <<lo, hi>> of a list it takes for sorted.
BisectLeft(a, x) ==
  LET f[p \in (0..Len(a)) \X (0..Len(a))] ==
        LET mid == (p[1] + p[2]) \div 2
        IN IF p[1] >= p[2] THEN p[1]
           ELSE IF a[mid + 1] < x THEN f[<<mid + 1, p[2]>>] ELSE f[<<p[1], mid>>]
  IN f[<<0, Len(a)>>]

BisectRight(a, x) ==
  LET f[p \in (0..Len(a)) \X (0..Len(a))] ==
        LET mid == (p[1] + p[2]) \div 2
        IN IF p[1] >= p[2] THEN p[1]
           ELSE IF x < a[mid + 1] THEN f[<<p[1], mid>>] ELSE f[<<mid + 1, p[2]>>]
  IN f[<<0, Len(a)>>]

Insert(s, i, e) ==
  [k \in 1..Len(s) + 1 |-> IF k < i THEN s[k] ELSE IF k = i THEN e ELSE s[k - 1]]

Backwards(s) == [k \in 1..Len(s) |-> s[Len(s) + 1 - k]]

Ascending(a) == \A i, j \in 1..Len(a) : i < j => a[i] <= a[j]

\* s with the earlier first, what is as early in the order it has in s.
SortedByTime(s) ==
  LET before(j, i) == s[j].time < s[i].time \/ (s[j].time = s[i].time /\ j < i)
      place(i) == 1 + Cardinality({j \in 1..Len(s) : before(j, i)})
  IN [k \in 1..Len(s) |-> s[CHOOSE i \in 1..Len(s) : place(i) = k]]

\* A query: what a range, a direction and a limit ask for.
Query(Times, MaxLimit) ==
  [from: {None} \union Times, to: {None} \union Times,
   limit: {None} \union 1..MaxLimit, descending: BOOLEAN]

\* validate_time_range: an inverted range is refused (negative bounds too).
Refused(q) == q.from # None /\ q.to # None /\ q.from > q.to

InRange(q, time) == (q.from = None \/ q.from <= time) /\ (q.to = None \/ time <= q.to)

\* Direction, then limit.
Arranged(s, q) ==
  LET t == IF q.descending THEN Backwards(s) ELSE s
  IN IF q.limit # None /\ q.limit < Len(t) THEN SubSeq(t, 1, q.limit) ELSE t

\* Faulty variant: the upper bound is exclusive.
SliceHalfOpen(s, q) ==
  LET times == [k \in 1..Len(s) |-> s[k].time]
      first == IF q.from = None THEN 0 ELSE BisectLeft(times, q.from)
      end   == IF q.to = None THEN Len(s) ELSE BisectLeft(times, q.to)
  IN IF first >= end THEN <<>> ELSE Arranged(SubSeq(s, first + 1, end), q)

\* What a repository answers out of the entries it holds.
Slice(s, q) ==
  LET times == [k \in 1..Len(s) |-> s[k].time]
      first == IF q.from = None THEN 0 ELSE BisectLeft(times, q.from)
      end   == IF q.to = None THEN Len(s) ELSE BisectRight(times, q.to)
  IN IF first >= end THEN <<>> ELSE Arranged(SubSeq(s, first + 1, end), q)
=============================================================================
