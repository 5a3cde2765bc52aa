------------------------------ MODULE Actuator ------------------------------
(***************************************************************************)
(* The resident actuator of the client (chief-cli/src/actuate): one process *)
(* that reads what chiefd wants, looks at tmux, plans, and carries the plan *)
(* out one tmux command at a time, while agents exit, the wish changes, a   *)
(* command fails and the actuator itself dies and is started again.         *)
(***************************************************************************)
EXTENDS Naturals, SequencesExt

CONSTANTS Order,        \* the people, in display order
          Hashes,       \* launch hashes
          NoHash,
          MaxPanes,     \* pane ids that are live or remembered at once
          MaxChanges,   \* changes of chiefd's wish or of its launch gate
          Mishaps,      \* what may go wrong: an agent's process exits, the actuator
                        \* dies, a tmux command fails, a watched window defers its reap
          MaxMishaps    \* how many of these happen

People  == Range(Order)
PaneIds == 1..MaxPanes
NoPane  == 0

ASSUME ActuatorAssumption ==
    /\ Order \in Seq(People) /\ IsInjective(Order)
    /\ NoHash \notin Hashes
    /\ {MaxPanes, MaxChanges, MaxMishaps} \subseteq Nat
    /\ Mishaps \subseteq {"exit", "crash", "fault", "glance"}

VARIABLES
    desired,  \* DesiredRuntime: a function from the people wanted to their launch
    refused,  \* the people chiefd's launch gate publishes no spec for
    panes,    \* the agents' panes, a function from their ids
    windows,  \* the people whose own window stands, tagged as theirs
    rails,    \* those of them whose window holds a sidebar
    pass,     \* the converge pass under way
    loop,     \* CrashLoop, the memory of one actuator process
    died,     \* whose process exited since tmux was last observed
    spent     \* how much of each bound is used up

vars == <<desired, refused, panes, windows, rails, pass, loop, died, spent>>

(***************************************************************************)
(* What is on the tmux server. A pane's tags are written one at a time, in  *)
(* this order; a mark stands for the minting markers of it and its window.  *)
(***************************************************************************)
Tags == <<"none", "part", "person", "all">>

Wishes == UNION {[S -> Hashes] : S \in SUBSET People}

Pane == [who : People, runs : Hashes, managed : BOOLEAN, marked : BOOLEAN,
         tags : Range(Tags), hash : Hashes \cup {NoHash}]

Put(f, x, v) == [y \in DOMAIN f \cup {x} |-> IF y = x THEN v ELSE f[y]]

Panes     == DOMAIN panes
Session   == Panes # {} \/ windows # {}
Owned(q)  == panes[q].managed /\ panes[q].tags \in {"person", "all"}
Of(p)     == {q \in Panes : Owned(q) /\ panes[q].who = p}
PaneOf(p) == IF Of(p) = {} THEN NoPane ELSE CHOOSE q \in Of(p) : TRUE

\* A window goes with its last pane: with its person's, unless it has a rail.
Without(gone) ==
    /\ panes' = Restrict(panes, Panes \ gone)
    /\ windows' = {p \in windows : p \in rails \/ \E q \in Panes \ gone : panes[q].managed /\ panes[q].who = p}

\* tmux never reuses an id; one that nobody holds or remembers is as good as new.
Fresh(q) == q \notin Panes /\ \A p \in People : loop.panes[p] # q
\* mutant: a created pane's id is not read back
newestPane == NoPane

NewPane == CHOOSE q \in PaneIds : Fresh(q) /\ \A r \in PaneIds : Fresh(r) => q <= r

\* MaxPanes is a bound: no more panes are made than there are ids.
Room == \E q \in PaneIds : Fresh(q)

(***************************************************************************)
(* The crash loop: whose boots keep dying, judged by the next observation.  *)
(***************************************************************************)
NewLoop == [counted |-> [p \in People |-> NoHash], due |-> People, pending |-> {},
            panes |-> [p \in People |-> NoPane], failed |-> FALSE]

observed(want, at) ==
    LET absent   == {p \in loop.pending : p \in DOMAIN want /\ at[p] = NoPane}
        replaced == {p \in DOMAIN want : at[p] # NoPane /\ loop.panes[p] \notin {NoPane, at[p]}}
        failing  == IF loop.failed THEN {} ELSE absent \cup replaced
        survived == {p \in DOMAIN want : at[p] # NoPane /\ loop.panes[p] = at[p]}
        asked(p) == p \in DOMAIN want /\ want[p] = loop.counted[p]
    IN  [loop EXCEPT !.counted = [p \in People |-> IF p \in failing THEN want[p]
                                                   ELSE IF asked(p) /\ p \notin survived THEN @[p]
                                                   ELSE NoHash],
                     !.due = @ \ failing,
                     !.pending = {},
                     !.panes = at]

\* mutant: a person whose boot failed is given up on
heldForGood(l) == {p \in People : l.counted[p] # NoHash}

waiting(l) == {p \in People : l.counted[p] # NoHash /\ p \notin l.due}

(***************************************************************************)
(* The plan: boots in display order, then what has to go, then the layouts. *)
(***************************************************************************)
Boots == {"session", "window", "split"}
Steps == [do : Boots \cup {"respawn", "close", "reap", "layout", "stop"},
          who : People, pane : PaneIds \cup {NoPane}]

\* mutant: somebody waiting out their delay is not placed
unplacedWhileWaiting(want) == windows \ {p \in DOMAIN want : loop.counted[p] = NoHash}

unwanted(want) == windows \ DOMAIN want

boot(want, p) ==
    LET new == IF ~Session /\ p = Head(SelectSeq(Order, LAMBDA x : x \in DOMAIN want)) THEN "session"
               ELSE IF p \in windows THEN "split" ELSE "window"
    IN  IF Of(p) = {} THEN <<[do |-> new, who |-> p, pane |-> NoPane]>>
        ELSE IF panes[PaneOf(p)].hash # want[p]
             THEN <<[do |-> "respawn", who |-> p, pane |-> PaneOf(p)]>> ELSE <<>>

reapable(want) == {q \in Panes : /\ panes[q].managed /\ panes[q].tags = "none"
                                 /\ panes[q].who \notin DOMAIN want}

compute_converge_plan(want) ==
    LET each(Op(_), S) == FlattenSeq([i \in DOMAIN Order |-> IF Order[i] \in S THEN Op(Order[i]) ELSE <<>>])
        close(p)  == <<[do |-> "close", who |-> p, pane |-> NoPane]>>
        layout(p) == <<[do |-> "layout", who |-> p, pane |-> NoPane]>>
        reap      == [i \in 1..Cardinality(reapable(want)) |->
                         [do |-> "reap", who |-> panes[SetToSeq(reapable(want))[i]].who,
                          pane |-> SetToSeq(reapable(want))[i]]]
        missing   == {p \in DOMAIN want : Of(p) = {}}
        leaving   == {p \in People \ DOMAIN want : Of(p) # {}}
    IN  IF DOMAIN want = {}
        THEN IF Session THEN <<[do |-> "stop", who |-> Head(Order), pane |-> NoPane]>> ELSE <<>>
        ELSE each(LAMBDA p : boot(want, p), DOMAIN want) \o each(close, leaving) \o reap
             \o each(close, unwanted(want) \ leaving) \o each(layout, missing)

(***************************************************************************)
(* One converge pass. chiefd is read once; tmux changes under the pass.     *)
(***************************************************************************)
NoWish == [p \in {} |-> NoHash]
Idle   == [stage |-> "idle", want |-> NoWish, gate |-> {}, wait |-> {}, todo |-> <<>>,
           cur |-> NoPane, made |-> {}, tried |-> {}, skipped |-> {}]

Mishap(kind) ==
    /\ kind \in Mishaps /\ spent.mishaps < MaxMishaps
    /\ spent' = [spent EXCEPT !.mishaps = @ + 1]

\* mutant: an interrupted mint is left for the planner to deal with
spares == {}

interrupted == {q \in Panes : panes[q].marked}

Init ==
    /\ desired \in Wishes
    /\ refused = {} /\ panes = <<>> /\ windows = {} /\ rails = {}
    /\ pass = Idle /\ loop = NewLoop /\ died = {}
    /\ spent = [changes |-> 0, mishaps |-> 0]

\* The wish, the roster and the gate are read; observing destroys whatever an
\* interrupted mint left marked, and the sidebars are repaired.
Observe ==
    /\ pass.stage = "idle"
    /\ Without(interrupted)
    /\ rails' = windows'
    /\ pass' = [Idle EXCEPT !.stage = "observed", !.want = desired, !.gate = refused]
    /\ UNCHANGED <<desired, refused, loop, died, spent>>

Plan ==
    /\ pass.stage = "observed"
    /\ LET l    == observed(pass.want, [p \in People |-> PaneOf(p)])
           todo == compute_converge_plan(pass.want)
       IN  \/ todo = <<>> /\ loop' = [l EXCEPT !.failed = FALSE] /\ pass' = Idle
           \/ /\ todo # <<>>
              /\ loop' = l
              /\ pass' = [pass EXCEPT !.stage = "steps", !.todo = todo, !.wait = waiting(l)]
    /\ died' = {}
    /\ UNCHANGED <<desired, refused, panes, windows, rails, spent>>

step == Head(pass.todo)

Doing(verbs) == /\ pass.stage = "steps" /\ pass.todo # <<>> /\ pass.cur = NoPane
                /\ step.do \in verbs
Minting      == /\ pass.stage = "steps" /\ pass.cur \in Panes
                /\ step.do \in {"window", "split"}

Done(p)     == [p EXCEPT !.todo = Tail(@), !.cur = NoPane]
Declined(p) == p \in pass.wait \cup pass.gate
Tried       == [pass EXCEPT !.tried = @ \cup {step.who}]

\* A person in their backoff, or declined by the gate, costs their own step.
Skip ==
    /\ Doing(Boots \cup {"respawn"}) /\ Declined(step.who)
    /\ CASE step.do = "session" -> TRUE
         [] step.do = "respawn" -> step.pane \in Panes
         [] OTHER               -> Session /\ Of(step.who) = {}
    /\ pass' = Done([Tried EXCEPT !.skipped = @ \cup {step.who}])
    /\ UNCHANGED <<desired, refused, panes, windows, rails, loop, died, spent>>

\* mutant: a person who was skipped is counted among the boots
walked == pass.tried

attempted_boots == pass.tried \ pass.skipped

Process(p, q, managed, tags, hash) ==
    panes' = Put(panes, q, [who |-> p, runs |-> pass.want[p], managed |-> managed,
                             marked |-> FALSE, tags |-> tags, hash |-> hash])

\* The session is created and tagged by one tmux message.
create_session ==
    /\ Doing({"session"}) /\ ~Session /\ ~Declined(step.who) /\ Room
    /\ Process(step.who, NewPane, TRUE, "all", pass.want[step.who])
    /\ windows' = windows \cup {step.who}
    /\ pass' = Done([Tried EXCEPT !.made = @ \cup {NewPane}])
    /\ UNCHANGED <<desired, refused, rails, loop, died, spent>>

\* new-window or split-window: the process runs before its pane is marked.
Spawn ==
    /\ Doing({"window", "split"}) /\ Session /\ Of(step.who) = {} /\ ~Declined(step.who) /\ Room
    /\ step.do = "split" => step.who \in windows
    /\ Process(step.who, NewPane, step.do = "split", "none", NoHash)
    /\ pass' = [Tried EXCEPT !.cur = NewPane]
    /\ UNCHANGED <<desired, refused, windows, rails, loop, died, spent>>

mark_minting ==
    /\ Minting /\ panes[pass.cur].tags = "none" /\ ~panes[pass.cur].marked
    /\ panes' = [panes EXCEPT ![pass.cur].marked = TRUE]
    /\ UNCHANGED <<desired, refused, windows, rails, pass, loop, died, spent>>

tag_pane ==
    /\ Minting /\ panes[pass.cur].marked /\ panes[pass.cur].tags # "all"
    /\ LET next == Tags[1 + CHOOSE i \in DOMAIN Tags : Tags[i] = panes[pass.cur].tags]
       IN  panes' = [panes EXCEPT ![pass.cur].tags = next, ![pass.cur].managed = TRUE,
                                  ![pass.cur].hash = IF next = "all" THEN panes[pass.cur].runs ELSE NoHash]
    /\ windows' = windows \cup {step.who}
    /\ UNCHANGED <<desired, refused, rails, pass, loop, died, spent>>

clear_minting ==
    /\ Minting /\ panes[pass.cur].tags = "all"
    /\ panes' = [panes EXCEPT ![pass.cur].marked = FALSE]
    /\ rails' = rails \cup {step.who}
    /\ pass' = Done([pass EXCEPT !.made = @ \cup {pass.cur}])
    /\ UNCHANGED <<desired, refused, windows, loop, died, spent>>

\* respawn-pane replaces the process; the new hash is written after it.
respawn ==
    /\ Doing({"respawn"}) /\ step.pane \in Panes /\ ~Declined(step.who)
    /\ panes' = [panes EXCEPT ![step.pane].runs = pass.want[step.who]]
    /\ pass' = [Tried EXCEPT !.cur = step.pane]
    /\ UNCHANGED <<desired, refused, windows, rails, loop, died, spent>>

respawn_tag ==
    /\ pass.stage = "steps" /\ pass.cur \in Panes /\ step.do = "respawn"
    /\ panes' = [panes EXCEPT ![pass.cur].hash = pass.want[step.who]]
    /\ pass' = Done(pass)
    /\ UNCHANGED <<desired, refused, windows, rails, loop, died, spent>>

\* A window goes with all it holds, unless the operator is looking at it.
kill_window ==
    /\ Doing({"close"}) /\ step.who \in windows
    /\ panes' = Restrict(panes, {q \in Panes : ~(panes[q].managed /\ panes[q].who = step.who)})
    /\ windows' = windows \ {step.who} /\ rails' = rails \ {step.who}
    /\ pass' = Done(pass)
    /\ UNCHANGED <<desired, refused, loop, died, spent>>

defer_if_operator_watching ==
    /\ Doing({"close"}) /\ step.who \in windows /\ Mishap("glance")
    /\ pass' = Done(pass)
    /\ UNCHANGED <<desired, refused, panes, windows, rails, loop, died>>

stop_session ==
    /\ Doing({"stop"}) /\ Session
    /\ panes' = <<>> /\ windows' = {} /\ rails' = {}
    /\ pass' = Done(pass)
    /\ UNCHANGED <<desired, refused, loop, died, spent>>

\* A layout is made of the window's panes. A window that a skipped person would
\* have minted is skipped with them; one that stands holds only its sidebar.
lays_out(p) == IF p \in windows THEN p \notin pass.skipped \/ \E q \in Panes : panes[q].managed /\ panes[q].who = p
               ELSE p \in pass.skipped

apply_layout ==
    /\ Doing({"layout"}) /\ lays_out(step.who)
    /\ pass' = Done(pass)
    /\ UNCHANGED <<desired, refused, panes, windows, rails, loop, died, spent>>

\* A step tmux says no to. An untagged pane has no identity to verify, so the
\* kill of one that is to be reaped never gets past its own precondition.
fails == IF pass.cur # NoPane THEN pass.cur \notin Panes
         ELSE CASE step.do = "window"  -> ~Session
                [] step.do = "split"   -> \/ ~Session
                                          \/ /\ step.who \notin windows
                                             /\ Of(step.who) = {} /\ ~Declined(step.who)
                [] step.do = "respawn" -> step.pane \notin Panes
                [] step.do = "close"   -> step.who \notin windows
                [] step.do = "reap"    -> step.pane \notin {q \in Panes : Owned(q)}
                [] step.do = "layout"  -> ~lays_out(step.who)
                [] step.do = "stop"    -> ~Session
                [] OTHER               -> FALSE

\* The pass stops there, and takes back the panes it has minted.
reap_created_panes ==
    LET minting == IF step.do \in {"window", "split"} THEN {pass.cur} ELSE {}
    IN  Without(pass.made \cup minting)

Stop ==
    /\ pass.stage = "steps" /\ pass.todo # <<>>
    /\ reap_created_panes
    /\ loop' = [loop EXCEPT !.failed = TRUE,
                            !.pending = attempted_boots \cup (IF step.do \in Boots \cup {"respawn"}
                                                         THEN {step.who} ELSE {})]
    /\ pass' = Idle
    /\ UNCHANGED <<desired, refused, rails, died>>

Fail  == pass.todo # <<>> /\ fails /\ Stop /\ UNCHANGED spent
Fault == Stop /\ Mishap("fault")

Finish ==
    /\ pass.stage = "steps" /\ pass.todo = <<>>
    /\ loop' = [loop EXCEPT !.pending = attempted_boots, !.failed = FALSE]
    /\ pass' = Idle
    /\ UNCHANGED <<desired, refused, panes, windows, rails, died, spent>>

\* A person's retry delay, at most ten seconds, has passed.
retry_due ==
    /\ \E p \in People \ loop.due : loop' = [loop EXCEPT !.due = @ \cup {p}]
    /\ UNCHANGED <<desired, refused, panes, windows, rails, pass, died, spent>>

(***************************************************************************)
(* What happens around the actuator.                                        *)
(***************************************************************************)
Exit ==
    /\ Mishap("exit")
    /\ \E q \in Panes : Without({q}) /\ died' = died \cup {panes[q].who}
    /\ UNCHANGED <<desired, refused, rails, pass, loop>>

Change ==
    /\ spent.changes < MaxChanges
    /\ \E p \in People :
          \/ \E h \in Hashes : desired' = Put(desired, p, h) /\ UNCHANGED refused
          \/ desired' = Restrict(desired, DOMAIN desired \ {p}) /\ UNCHANGED refused
          \/ refused' = refused \cup {p} /\ UNCHANGED desired
          \/ refused' = refused \ {p} /\ UNCHANGED desired
    /\ spent' = [spent EXCEPT !.changes = @ + 1]
    /\ UNCHANGED <<panes, windows, rails, pass, loop, died>>

\* The supervisor starts another actuator, which remembers nothing.
Crash ==
    /\ Mishap("crash")
    /\ pass' = Idle /\ loop' = NewLoop
    /\ UNCHANGED <<desired, refused, panes, windows, rails, died>>

Converge == \/ Observe \/ Plan \/ Skip \/ create_session \/ Spawn \/ mark_minting
            \/ tag_pane \/ clear_minting \/ respawn \/ respawn_tag \/ kill_window
            \/ stop_session \/ apply_layout \/ Fail \/ Finish

Next == Converge \/ defer_if_operator_watching \/ Fault \/ retry_due \/ Exit \/ Change \/ Crash

Spec     == Init /\ [][Next]_vars
FairSpec == Spec /\ WF_vars(Converge) /\ WF_vars(retry_due)

(***************************************************************************)
(* Properties.                                                              *)
(***************************************************************************)
\* The state is well formed.
TypeOK ==
    /\ desired \in Wishes /\ refused \subseteq People
    /\ Panes \subseteq PaneIds /\ \A q \in Panes : panes[q] \in Pane
    /\ windows \subseteq People /\ rails \subseteq People /\ died \subseteq People
    /\ pass.want \in Wishes /\ Range(pass.todo) \subseteq Steps
    /\ loop.counted \in [People -> Hashes \cup {NoHash}] /\ loop.panes \in [People -> PaneIds \cup {NoPane}]

\* A mint interrupted once its pane is marked is undone before it is done
\* again, so nobody has two processes that a tag or a marker tells of
\* (interpret.rs:3895).
OneProcessEach == \A p \in People :
    Cardinality({q \in Panes : panes[q].who = p /\ (panes[q].marked \/ panes[q].tags # "none")}) <= 1

\* A boot is counted as failed only if the process died of itself: not for a
\* pass that stopped, a refusal, a wait, or what an earlier actuator did
\* (crash_loop.rs:31).
FailuresAreDeaths == [][\A p \in People :
    (/\ loop'.counted[p] # NoHash
     /\ loop'.counted[p] # loop.counted[p] \/ (p \in loop.due /\ p \notin loop'.due)) => p \in died]_vars

\* What runs for somebody wanted all along, at the launch wanted, is left
\* alone, and so is the window they are to come back to: only a boot of the
\* pass itself is ever taken back (resident.rs:811).
KeepsWanted == [][\A p \in People :
    LET wanted == p \in DOMAIN desired /\ p \in DOMAIN pass.want /\ pass.want[p] = desired[p]
    IN  (wanted /\ p \notin died') =>
          /\ \A q \in Of(p) \ (pass.made \cup {pass.cur}) :
                panes[q].hash = desired[p] => q \in Panes' /\ panes'[q].runs = panes[q].runs
          /\ p \in rails => p \in windows']_vars

\* A boot is taken back only when a command failed of itself or a process
\* died under the pass: somebody who is refused, or waits out a retry delay,
\* costs their own step and nothing else (interpret/tests.rs:2911).
SkipCostsOneStep == [][(\E q \in pass.made : q \in Panes /\ q \notin Panes')
                         => died # {} \/ spent' # spent]_vars

\* Panes left by an actuator that died before it could mark them.
Leaked == {q \in Panes : panes[q].tags = "none" /\ ~panes[q].marked /\ q # pass.cur}

Settled == \A p \in People :
    IF p \in DOMAIN desired THEN \E q \in Of(p) : panes[q].hash = desired[p] ELSE Of(p) = {}

\* When the gate declines nobody and nothing was left unmarked, the company
\* comes to what chiefd wants, however often boots have failed: nobody is ever
\* given up on, and nobody unwanted stays (crash_loop.rs:27).
Converges == <>[](refused = {} /\ Leaked = {}) => <>[]Settled
=============================================================================
