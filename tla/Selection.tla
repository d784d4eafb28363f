------------------------------- MODULE Selection -------------------------------
(***************************************************************************)
(* Parts of sequences and sorts of them, by the places of their elements:  *)
(* what the program writes as a comprehension with a condition and as      *)
(* sorted, which is stable.                                                *)
(***************************************************************************)
EXTENDS Integers, Sequences, FiniteSets

\* The elements of s whose index is in the set.
Picked(s, indices) ==
  LET rank(i) == Cardinality({j \in indices : j <= i})
  IN [k \in 1..Cardinality(indices) |-> s[CHOOSE i \in indices : rank(i) = k]]

\* The elements that pass a test, in their order.
Chosen(s, Test(_)) == Picked(s, {i \in DOMAIN s : Test(s[i])})

\* s by a relation of its indices: each is as far as there are indices before
\* it, by the relation or, of two it does not tell apart, by their order in s.
Ranked(s, before) ==
  LET ahead(j, i) == <<j, i>> \in before \/ (<<i, j>> \notin before /\ j < i)
      place(i) == 1 + Cardinality({j \in DOMAIN s : ahead(j, i)})
  IN [k \in DOMAIN s |-> s[CHOOSE i \in DOMAIN s : place(i) = k]]

SortedBy(s, Before(_, _)) ==
  Ranked(s, {p \in (DOMAIN s) \X (DOMAIN s) : Before(s[p[1]], s[p[2]])})
===============================================================================
