--------------------------------- MODULE Crew ---------------------------------
(* The delegations of a run to one worker role, numbered as they are       *)
(* dispatched.                                                             *)
EXTENDS Naturals

CONSTANT MaxDelegations

ASSUME CrewAssumption == MaxDelegations \in Nat

Delegations == 1..MaxDelegations
=============================================================================
