----------------------------- MODULE DueWindows -----------------------------
(***************************************************************************)
(* What reminders promise of their due times: each is fired at most once,   *)
(* in order, and fired mail is sent once, taken once, and delivered only    *)
(* when sent; what is given up is tried again a bounded number of times.    *)
(***************************************************************************)
EXTENDS Naturals

CONSTANTS Ids,          \* of reminders; an id may be handed out again
          Time,         \* a set of numbers
          ReopenLimit   \* a number

VARIABLE windows  \* a function from the ids and the due times

Window == [stage : {"ahead", "fired", "delivered", "given up"},
           mail : {"none", "unread", "taken"}, reopened : 0..ReopenLimit]

Init == windows = [w \in Ids \X Time |-> [stage |-> "ahead", mail |-> "none", reopened |-> 0]]

\* What one step may make of a window.
Fire(a, b)    == a.stage = "ahead" /\ b = [a EXCEPT !.stage = "fired"]
Send(a, b)    == a.stage = "fired" /\ a.mail = "none" /\ b = [a EXCEPT !.mail = "unread"]
Take(a, b)    == a.mail = "unread" /\ b = [a EXCEPT !.mail = "taken"]
Deliver(a, b) == a.stage = "fired" /\ a.mail # "none" /\ b = [a EXCEPT !.stage = "delivered"]
GiveUp(a, b)  == a.stage = "fired" /\ b = [a EXCEPT !.stage = "given up"]
Reopen(a, b)  == /\ a.stage = "given up" /\ a.reopened < ReopenLimit
                 /\ b.stage = "fired" /\ b.mail = a.mail /\ b.reopened = a.reopened + 1

Moves(a, b) == Fire(a, b) \/ Send(a, b) \/ Take(a, b) \/ Deliver(a, b) \/ GiveUp(a, b) \/ Reopen(a, b)

\* A window is the last of its id when it is fired, the only one of that step.
Last(i, t) == \A u \in Time \ {t} : windows'[<<i, u>>].stage # "ahead" => u < t

Next ==
    /\ windows' \in [Ids \X Time -> Window]
    /\ \A i \in Ids, t \in Time :
          LET a == windows[<<i, t>>]
              b == windows'[<<i, t>>]
          IN  a = b \/ (Moves(a, b) /\ (Fire(a, b) => Last(i, t)))

Spec == Init /\ [][Next]_windows
=============================================================================
