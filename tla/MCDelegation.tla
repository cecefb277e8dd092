---------------------------- MODULE MCDelegation ----------------------------
(* Delegation with tool calls that run in parallel: the callers are        *)
(* interchangeable, the runs without liveness use that.                    *)
EXTENDS Delegation, TLC

CallerSymmetry == Permutations(Callers)
=============================================================================
