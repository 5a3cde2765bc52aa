-------------------------------- MODULE Asks --------------------------------
(***************************************************************************)
(* What session maintenance promises of what it is asked to do: an ask      *)
(* waits, is taken up, may be handed back, or tried again a bounded number  *)
(* of times, ends once, with one verdict, and never comes back.             *)
(***************************************************************************)
EXTENDS Naturals, FiniteSets

CONSTANT MaxAttempts   \* a positive number

VARIABLE asks  \* a function from the asks made so far

Ends == {"completed", "failed", "skipped"}

Ask == [phase : {"waiting", "taken"} \cup Ends, attempt : 1..MaxAttempts]

\* What one step may make of an ask. Whoever it is about may leave, which ends
\* it in any phase, and ends a new attempt as it is made.
Take(a, b)     == a.phase = "waiting" /\ b = [a EXCEPT !.phase = "taken"]
HandBack(a, b) == a.phase = "taken" /\ b = [a EXCEPT !.phase = "waiting"]
TryAgain(a, b) == a.phase = "taken" /\ b.phase # "taken" /\ b.attempt = a.attempt + 1
End(a, b)      == a.phase \notin Ends /\ \E e \in Ends : b = [a EXCEPT !.phase = e]

Moves(a, b) == a = b \/ Take(a, b) \/ HandBack(a, b) \/ TryAgain(a, b) \/ End(a, b)

Init == DOMAIN asks = {}

\* A step may move several asks, as a recovery does, and make new ones.
Step(old, new) ==
    \/ old = new
    \/ /\ DOMAIN old \subseteq DOMAIN new
       /\ \A i \in DOMAIN new :
             /\ new[i] \in Ask
             /\ IF i \in DOMAIN old THEN Moves(old[i], new[i])
                ELSE new[i].phase # "taken" /\ new[i].attempt = 1

Next == Step(asks, asks')

Spec == Init /\ [][Next]_asks
=============================================================================
