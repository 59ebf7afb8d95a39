---------------------------- MODULE Subsequences ----------------------------
(***************************************************************************)
(* What erase-remove and a copying loop leave of a vector: the elements at *)
(* some of its positions, in their order.  It is SelectSeq by positions    *)
(* instead of by a test, and without recursion, which the provers cannot   *)
(* follow.                                                                 *)
(***************************************************************************)
EXTENDS Naturals, Sequences, FiniteSets

\* How many of the positions I are not after i.
Rank(I, i) == Cardinality({j \in I : j <= i})

\* The elements of s at the positions I.
Pick(s, I) == [k \in 1..Cardinality(I) |-> s[CHOOSE i \in I : Rank(I, i) = k]]
=============================================================================
