------------------------------ MODULE Numbering ------------------------------
(***************************************************************************)
(* The elements of a finite set of numbers in order: what the references   *)
(* that describe an output by sets of positions are read off with.         *)
(***************************************************************************)
EXTENDS Naturals, FiniteSets

\* the k-th number of a set
Nth(S, k) == CHOOSE i \in S : Cardinality({j \in S : j <= i}) = k

\* The elements of S in order, each with what f has for it.
InOrder(S, f) == [k \in 1..Cardinality(S) |-> f[Nth(S, k)]]
=============================================================================
