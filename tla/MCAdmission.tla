----------------------------- MODULE MCAdmission -----------------------------
(* Model-checking instances of Admission. *)
EXTENDS Admission

MCPids == {"p1", "p2", "p3"}
MCTwoPids == {"p1", "p2"}
\* Boots overlap because a command can be interrupted while its daemon boots.
MCClient == {"c1"}
MCTwoClients == {"c1", "c2"}

\* A takeover of the runtime, and a drain that overruns its budget.
DrainVerbs == {"fatal", "stuck"}
=============================================================================
