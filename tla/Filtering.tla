------------------------------ MODULE Filtering ------------------------------
(***************************************************************************)
(* What a list comprehension with a condition leaves of a list.  SelectSeq *)
(* takes its condition as an operator, of which the prover knows nothing;  *)
(* here the condition is a set, and each index that stays has a rank.      *)
(***************************************************************************)
EXTENDS Naturals, Sequences, FiniteSets

\* How many of the indices are not after i.
Rank(indices, i) == Cardinality({j \in indices : j <= i})

\* The elements of s that are in S, in the order they have in s.
Kept(s, S) ==
    LET indices == {i \in DOMAIN s : s[i] \in S}
    IN  [k \in 1 .. Cardinality(indices) |-> s[CHOOSE i \in indices : Rank(indices, i) = k]]
==============================================================================
