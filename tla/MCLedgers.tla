------------------------------- MODULE MCLedgers -------------------------------
(* Tool calls, delegations and designs are interchangeable.                 *)
EXTENDS Ledgers, TLC

Symmetric ==
  Permutations(Callers) \cup Permutations(Namespaces)
================================================================================
