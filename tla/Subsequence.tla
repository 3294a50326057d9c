---------------------------- MODULE Subsequence ----------------------------
(***************************************************************************)
(* Picking out of a list the elements of one kind, in the order of the      *)
(* list, and listing a set in an order: what the loops of the control plane *)
(* and the filters and sorts of the console do.                             *)
(***************************************************************************)
EXTENDS Integers, Sequences, FiniteSets

\* The members of S in the order s has them.
Kept(s, S) ==
  LET at == {i \in DOMAIN s : s[i] \in S}
      Nth(k) == CHOOSE i \in at : Cardinality({h \in at : h <= i}) = k
  IN  [k \in 1..Cardinality(at) |-> s[Nth(k)]]

\* The elements of s that pass a test, in the order s has them: filter.
Matching(s, Test(_)) == Kept(s, {s[i] : i \in {k \in DOMAIN s : Test(s[k])}})

\* The members of a finite set S in the order Before, a total order on S: sort.
Ranked(S, Before(_, _)) ==
  [k \in 1..Cardinality(S) |-> CHOOSE x \in S : Cardinality({y \in S : Before(y, x)}) = k]
=============================================================================
