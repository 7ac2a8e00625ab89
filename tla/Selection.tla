------------------------------ MODULE Selection ------------------------------
(***************************************************************************)
(* Loops that append to a slice the elements of another that pass a test.  *)
(***************************************************************************)
EXTENDS Integers, Sequences, FiniteSets

\* The elements of s that are in S, in their order: the k-th of them is the one
\* that has k of them up to it.
Selected(s, S) ==
  LET at == {i \in DOMAIN s : s[i] \in S}
      Upto(i) == {j \in at : j <= i}
  IN [k \in 1..Cardinality(at) |-> s[CHOOSE i \in at : Cardinality(Upto(i)) = k]]
==============================================================================
