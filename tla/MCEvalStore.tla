------------------------------ MODULE MCEvalStore ------------------------------
(* Model values for EvalStore; campaigns are alike.     *)
EXTENDS EvalStore, TLC

Symmetric == Permutations(Campaigns)
===============================================================================
