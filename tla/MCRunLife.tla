----------------------------- MODULE MCRunLife -----------------------------
(* RunLife with two statements and two checks at a time; neither set's     *)
(* members are told apart.                                                 *)
EXTENDS RunLife, TLC

Alike == Permutations(Statements) \cup Permutations(Lookers)
=============================================================================
