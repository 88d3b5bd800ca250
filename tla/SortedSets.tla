----------------------------- MODULE SortedSets -----------------------------
(***************************************************************************)
(* The order in which a loop with an ascending counter comes upon the      *)
(* elements of a set of numbers.                                           *)
(***************************************************************************)
EXTENDS Integers, FiniteSets

\* The k-th element has k - 1 smaller ones.
Ascending(S) == [k \in 1 .. Cardinality(S) |->
                    CHOOSE x \in S : Cardinality({y \in S : y < x}) = k - 1]
=============================================================================
