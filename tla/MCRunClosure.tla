---------------------------- MODULE MCRunClosure ----------------------------
(* The run closure with interchangeable conclusions and callers.           *)
EXTENDS RunClosure, TLC

CloseSymmetry == Permutations(Conclusions) \cup Permutations(Callers)
=============================================================================
