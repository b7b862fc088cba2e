----------------------------- MODULE MCListener -----------------------------
(* Constants for checking Listener: every subscription outcome, a few     *)
(* events, and room for the closed-stream branch to repeat.                *)
EXTENDS Listener

AllOutcomes == {"nil", "err", "closed"}
=============================================================================
