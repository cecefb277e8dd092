-------------------------- MODULE MCOperatorChannel --------------------------
(* The channel with every assumption on its constants evaluated.           *)
EXTENDS OperatorChannel
=============================================================================
