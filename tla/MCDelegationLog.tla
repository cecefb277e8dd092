--------------------------- MODULE MCDelegationLog ---------------------------
(* The log with every assumption on its constants evaluated.               *)
EXTENDS DelegationLog
=============================================================================
