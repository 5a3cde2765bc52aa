-------------------------- MODULE MCConvergeSafety --------------------------
(* Model-checking instances of ConvergeSafety. *)
EXTENDS ConvergeSafety

\* Two callers, so that the duty and one route request can overlap.
MCPasses == {"duty", "route"}
=============================================================================
