---------------------------- MODULE Subsequences ----------------------------
(***************************************************************************)
(* What a list comprehension with a condition picks of a sequence, by the  *)
(* positions that meet the condition: written without recursion, so that   *)
(* it can be reasoned about.                                               *)
(***************************************************************************)
EXTENDS Naturals, FiniteSets, Sequences

\* The place of i among the positions I.
RankIn(I, i) == Cardinality(I \cap 1..i)

\* The one that has that place.
Nth(I, k) == CHOOSE i \in I : RankIn(I, i) = k

\* The elements of s at the positions I, in order.
Picked(s, I) == [k \in 1..Cardinality(I) |-> s[Nth(I, k)]]
=============================================================================
