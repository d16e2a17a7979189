------------------------------- MODULE Picks -------------------------------
(***************************************************************************)
(* The elements of a sequence that stand at chosen positions, in order:    *)
(* what a loop leaves that copies some of the elements of a slice.  It     *)
(* says which element comes k-th, where SelectSeq and the folds are        *)
(* recursions, of which nothing can be proved for sequences of any length. *)
(***************************************************************************)
EXTENDS Naturals, Sequences, FiniteSets

Rank(E, i) == Cardinality({j \in E : j <= i})
\* The element of E that has k - 1 smaller ones.
Nth(E, k) == CHOOSE i \in E : Rank(E, i) = k
Picked(list, E) == [k \in 1..Cardinality(E) |-> list[Nth(E, k)]]
=============================================================================
