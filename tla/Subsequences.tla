---------------------------- MODULE Subsequences ----------------------------
(***************************************************************************)
(* The elements of a sequence at some of its places, in their order: the   *)
(* lines of a log, or the rows of a table, that a pass over it keeps.      *)
(***************************************************************************)
EXTENDS Naturals, FiniteSets

\* The k-th place of S, from below.
Nth(S, k) == CHOOSE i \in S : Cardinality({j \in S : j <= i}) = k

Picked(f, S) == [k \in 1..Cardinality(S) |-> f[Nth(S, k)]]
=============================================================================
