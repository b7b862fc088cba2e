----------------------------- MODULE MCHandoff -----------------------------
(* Constants for checking Handoff: the topologies and reports of          *)
(* MCDeployment, and up to three generations of the NfDeploy.             *)
EXTENDS Handoff, MCDeployment
=============================================================================
