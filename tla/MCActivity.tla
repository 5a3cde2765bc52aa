----------------------------- MODULE MCActivity -----------------------------
(* Model-checking instances of Activity. *)
EXTENDS Activity

MCOne == {"ann"}
MCTwo == {"ann", "bob"}
MCPos == [p \in People |-> CASE p = "ceo" -> 0 [] p = "ann" -> 1
                             [] p = "bob" -> 2 [] p = "cat" -> 3]
MCDepts == {"desk", "shop"}
MCOneDept == {"desk"}
MCNoFounder == {}

\* What each run exposes the company to.
\* Passing runs.
IdleVerbs == {"beat", "mail", "wake", "start", "restart", "ceo-only",
              "stand-down"}
StaffingVerbs == {"route", "move", "bench", "fire", "recall", "start", "hire",
                  "shutdown", "beat"}

\* Violated claim.
FireVerbs == {"fire", "start"}
=============================================================================
