------------------------------ MODULE Activity ------------------------------
(***************************************************************************)
(* Who may run: the activity ledger, the launch-intent fence and the       *)
(* reconcile pass that decides, person by person, whether they should be   *)
(* up.  Three kinds of actor commit to the same company database, one      *)
(* transaction at a time:                                                  *)
(*   - the reconcile pass reads the fence and the pending mail, then the   *)
(*     stand-down and the fence again, and commits its decisions in one    *)
(*     transaction (project_activity_fence); ConvergeSafety shows that two *)
(*     passes never overlap;                                               *)
(*   - operator verbs, each one transaction over the rows;                 *)
(*   - the staffing lifecycle route, which decides, prepares, releases,    *)
(*     applies and settles a bench, transfer or offboard in transactions   *)
(*     of their own, with anything in between.                             *)
(*                                                                         *)
(* Wall-clock stamps are modelled by their ages in ticks, saturating where *)
(* no comparison can tell them apart.  Every company is unpaused, and no   *)
(* transition has an owner: nothing opens a pointer for a lifecycle intent.*)
(***************************************************************************)
EXTENDS Integers, FiniteSets

CONSTANTS
    Staff,          \* everybody but the chief executive
    Ceo,            \* the root of the organization
    pos,            \* person_order: the position of each person, from 0
    Founders,       \* the staff that exist from the start; others are hired
    Depts,          \* departments a person can be placed in
    Home,           \* where everybody starts
    Lease,          \* ORGANIZATION_SETTLED_IDLE_STOP_LEASE_MS, in ticks
    Liveness,       \* AGENT_ACTIVITY_LIVENESS_MS, in ticks
    Grace,          \* HANDOFF_GRACE_MS, in ticks
    MaxParks,       \* ORGANIZATION_AUTOMATIC_PARK_MAX_IN_FLIGHT
    Verbs,          \* the requests this instance is exposed to
    MaxRequests     \* bound: how many requests, restarts included

People == Staff \cup {Ceo}

AllVerbs == {"beat", "mail", "wake", "start", "recall", "shutdown", "bench",
             "move", "fire", "hire", "ceo-only", "stand-down", "route",
             "restart"}

ASSUME PeopleAssumption ==
    /\ IsFiniteSet(Staff) /\ Ceo \notin Staff /\ Founders \subseteq Staff
    /\ pos \in [People -> 0..(Cardinality(People) - 1)]
    /\ \A p, q \in People : pos[p] = pos[q] => p = q
ASSUME PlacesAssumption ==
    Home \in Depts /\ Depts \cap {"none", "park", "offboard"} = {}
ASSUME ClocksAssumption ==
    Lease \in Nat \ {0} /\ Liveness \in Nat \ {0} /\ Grace \in Nat \ {0}
ASSUME BoundsAssumption ==
    MaxParks \in Nat \ {0} /\ Verbs \subseteq AllVerbs /\ MaxRequests \in Nat

VARIABLES
    who,        \* per person: the manifest facts and the activity row
    fence,      \* the launch_intent rows
    mail,       \* per person: their pending mail
    stood,      \* has the operator stood the company down?
    cursor,     \* automatic_park_cursor
    watch,      \* age of the daemon's watching_since
    pass,       \* the reconcile pass: how far, and what it has read
    route,      \* the staffing lifecycle request in flight
    lastPass,   \* how the last pass ended
    refused,    \* why the last lifecycle request was refused
    requests,   \* how many requests were made (bounded by MaxRequests)
    calm        \* ghost: ticks since the person last reported, or was raised

vars == <<who, fence, mail, stood, cursor, watch, pass, route, lastPass,
          refused, requests, calm>>

-----------------------------------------------------------------------------
(* Transitions and the activity row *)

\* What a transition prepares for.  A transfer is named by its target.
Kinds == {"park", "offboard"} \cup Depts

Removals == {"park", "offboard"}

TrAge == 2 * Grace + 1

Transition ==
    [kind    : Kinds \cup {"none"},
     st      : {"none", "awaiting", "overdue", "ready", "applied", "forced"},
     routine : BOOLEAN,     \* a routine idle park: IDLE_AUTO_PARK_REASON
     age     : 0..TrAge,    \* since requested_at
     held    : BOOLEAN]     \* the request in flight holds its id

NoTransition ==
    [kind |-> "none", st |-> "none", routine |-> FALSE, age |-> 0,
     held |-> FALSE]

\* new_transition: a routine idle park is born forced, everything else waits.
new_transition(kind, routine) ==
    [kind |-> kind, st |-> IF routine THEN "forced" ELSE "awaiting",
     routine |-> routine, age |-> 0, held |-> FALSE]

is_pending(t)  == t.st \in {"awaiting", "overdue"}
is_open(t)     == is_pending(t) \/ t.st = "ready"
\* Mutant: an overdue handoff counts as released.
overdueIsReleased(t) == t.st \in {"overdue", "ready", "applied"}

is_released(t) == t.st \in {"ready", "applied"}
is_terminal(t) == t.st \in {"applied", "forced"}

AgeCap == Liveness + Lease

Person ==
    [emp      : {"absent", "active", "benched", "departed"},
     dept     : Depts,
     desired  : BOOLEAN,                        \* last_desired_active
     lastEmp  : {"absent", "active", "benched", "departed"},
     lastDept : Depts,
     beat     : {"silent", "working", "quiet"}, \* which agent stamp is present
     age      : 0..AgeCap,                      \* its age
     woke     : 0..Lease,                       \* operator_wake_at; Lease = over
     tr       : Transition,                     \* active_transition_id
     past     : [Kinds -> {"none", "applied", "forced", "abandoned"}]]
                \* the newest settled transition of each kind that a lifecycle
                \* request would reuse; a plainly cancelled one is never reused

seed_person_state(p) ==
    LET emp == IF p \in Founders \cup {Ceo} THEN "active" ELSE "absent" IN
    [emp |-> emp, dept |-> Home, desired |-> FALSE, lastEmp |-> emp,
     lastDept |-> Home, beat |-> "silent", age |-> 0, woke |-> Lease,
     tr |-> NoTransition, past |-> [k \in Kinds |-> "none"]]

person_is_operational(w) == w.emp = "active"

operator_wake_lease_active(w) == w.woke < Lease

\* The pointer is cleared and a settled transition stays behind in history.
Settled(w) ==
    [w EXCEPT !.tr = NoTransition,
              !.past = IF is_terminal(w.tr)
                       THEN [w.past EXCEPT ![w.tr.kind] = w.tr.st]
                       ELSE w.past]

supersede_open_transition(w) ==
    IF is_open(w.tr) THEN [w EXCEPT !.tr = NoTransition] ELSE w

\* Mutant: the sweep spares a transition that was released.
sweepSparesReady(w) ==
    IF is_pending(w.tr) /\ ~w.tr.routine /\ w.tr.age > 2 * Grace
    THEN [w EXCEPT !.tr = NoTransition]
    ELSE w

\* Every mutation of the ledger first cancels open transitions that outlived
\* their deadline by a further grace window.
sweep_expired_transitions(w) ==
    IF is_open(w.tr) /\ ~w.tr.routine /\ w.tr.age > 2 * Grace
    THEN [w EXCEPT !.tr = NoTransition]
    ELSE w

Swept == [p \in People |-> sweep_expired_transitions(who[p])]

structural_transition(w) ==
    IF w.lastEmp = "active" /\ w.emp = "departed" THEN "offboard"
    ELSE IF w.lastEmp = "active" /\ w.emp # "active" THEN "park"
    ELSE IF w.lastDept # w.dept THEN w.dept
    ELSE "none"

NotIdle == -1

Lesser(a, b) == IF a <= b THEN a ELSE b

\* Mutant: silence counts while nobody was watching.
quietWhileUnwatched(w, watching) ==
    CASE w.beat = "quiet" -> w.age
      [] w.beat = "working" /\ w.age >= Liveness -> w.age - Liveness
      [] OTHER -> NotIdle

\* How long the agent has been quiet: by its own report, or because its last
\* working beat is overdue, counted from the later of the beat and the moment
\* the daemon began to watch.
agent_quiet_since(w, watching) ==
    LET heard == Lesser(w.age, watching) IN
    CASE w.beat = "quiet" -> w.age
      [] w.beat = "working" /\ heard >= Liveness -> heard - Liveness
      [] OTHER -> NotIdle

-----------------------------------------------------------------------------
(* The reconcile of one pass: activity::reconcile over the swept rows ws,  *)
(* for the people demand names and the fence the pass enforces.            *)

admits(f, p) == p = Ceo \/ p \in f

candidate(p, w, demand) ==
    /\ p # Ceo /\ w.desired /\ p \notin demand
    /\ structural_transition(w) = "none"
    /\ ~operator_wake_lease_active(w)
    /\ agent_quiet_since(w, watch) >= Lease
    /\ w.tr.kind = "none"

\* Distance from the cursor in round-robin order.
rank(p) == (pos[p] + Cardinality(People) - cursor) % Cardinality(People)

admitted_parks(ws, demand) ==
    LET all == {p \in People : candidate(p, ws[p], demand)} IN
    {p \in all : Cardinality({q \in all : rank(q) < rank(p)}) < MaxParks}

\* Mutant: the cursor runs past the end of the order.
cursorPastTheEnd(admitted) ==
    IF admitted = {} THEN cursor
    ELSE (CHOOSE n \in {pos[p] + 1 : p \in admitted} :
             \A p \in admitted : pos[p] < n)

next_cursor(admitted) ==
    IF admitted = {} THEN cursor
    ELSE LET last == CHOOSE p \in admitted : \A q \in admitted : pos[q] <= pos[p]
         IN  (pos[last] + 1) % Cardinality(People)

\* A pending transition whose deadline passed.
overdue(t) ==
    IF t.st = "awaiting" /\ t.age >= Grace THEN [t EXCEPT !.st = "overdue"] ELSE t

\* ensure_matching_transition refuses: an open transition of another kind.
conflicts(w, fenced) ==
    LET s == structural_transition(w) IN
    /\ s # "none" /\ is_open(w.tr) /\ w.tr.kind # s
    /\ ~(is_pending(w.tr) /\ ~fenced)

\* ensure_matching_transition: keep the open one, or start afresh.
ensure_matching_transition(w, kind, routine) ==
    IF is_open(w.tr) THEN w
    ELSE [Settled(w) EXCEPT !.tr = new_transition(kind, routine)]

direct_transfer(w, fenced) ==
    structural_transition(w) \in Depts /\ w.tr.kind = "none" /\ fenced

\* A structural handoff nobody could ever release, its person being fenced out.
abandons(w, fenced) ==
    /\ structural_transition(w) # "none" /\ ~direct_transfer(w, fenced)
    /\ w.tr.kind = "none" \/ is_pending(w.tr)
    /\ ~fenced

\* Admission to the round of automatic parks was refused for this pass.
backpressure(w, demanded, parks) ==
    /\ structural_transition(w) = "none" /\ ~demanded /\ w.desired
    /\ w.tr.kind = "none" /\ ~parks

\* The transition pass for one person whose pointer is already aged by overdue.
transition_pass(w, demanded, fenced, parks) ==
    LET s == structural_transition(w) IN
    CASE direct_transfer(w, fenced) -> w
      [] abandons(w, fenced) ->
           [w EXCEPT !.tr = NoTransition,
                     !.past = IF w.tr.kind = "none" THEN w.past
                              ELSE [w.past EXCEPT ![w.tr.kind] = "abandoned"]]
      [] s # "none" /\ ~abandons(w, fenced) /\ ~direct_transfer(w, fenced) ->
           ensure_matching_transition(w, s, FALSE)
      [] s = "none" /\ ~demanded /\ w.desired /\ (w.tr.kind = "park" \/ parks) ->
           ensure_matching_transition(w, "park", TRUE)
      [] s = "none" /\ demanded /\ w.tr.kind = "park" ->
           IF w.tr.st = "applied" THEN Settled(w)
           ELSE [w EXCEPT !.tr = NoTransition]
      [] OTHER -> w

\* Placement as the ledger last saw it, advanced to the manifest's.
advanced(w) == [w EXCEPT !.lastEmp = w.emp, !.lastDept = w.dept]

\* The rising edge clears the stamps of the previous run.
decided(w, active) ==
    IF active /\ ~w.desired
    THEN [w EXCEPT !.desired = TRUE, !.beat = "silent", !.age = 0]
    ELSE [w EXCEPT !.desired = active]

\* The decision pass: before is the aged row, w what transition_pass made of it.
decision_pass(before, w, demanded, fenced, parks) ==
    LET s         == structural_transition(before)
        direct    == direct_transfer(before, fenced)
        gone      == abandons(before, fenced)
        structure == s # "none" /\ ~gone /\ is_released(w.tr)
        removal   == w.tr.kind \in Removals
        applies   == structure /\ ~(removal /\ demanded)
        parked    == s = "none" /\ w.tr.kind = "park" /\ is_released(w.tr)
                     /\ ~demanded
        handoff   == s = "none" /\ w.tr.kind \notin {"none", "park"}
        leased    == \/ demanded \/ is_pending(w.tr)
                     \/ backpressure(before, demanded, parks)
                     \/ direct /\ before.desired
        active    == CASE gone \/ parked -> FALSE
                       [] applies -> ~removal /\ demanded
                       [] structure /\ ~applies -> TRUE
                       [] handoff -> TRUE
                       [] OTHER -> leased
        applied   == [w EXCEPT !.tr.st = "applied"]
        settled   == IF applies THEN Settled(applied)
                     ELSE IF parked THEN applied ELSE w
        placed    == IF s = "none" \/ direct \/ gone \/ applies
                     THEN advanced(settled) ELSE settled
    IN  decided(placed, active /\ fenced)

reconcile_person(w, demanded, fenced, parks) ==
    LET aged == [w EXCEPT !.tr = overdue(w.tr)] IN
    decision_pass(aged, transition_pass(aged, demanded, fenced, parks),
                  demanded, fenced, parks)

-----------------------------------------------------------------------------
(* The reconcile pass *)

Pass == [step : {"idle", "read", "ready"}, seen : SUBSET Staff,
         mail : SUBSET Staff, stood : BOOLEAN, committed : SUBSET Staff]

NoPass == [step |-> "idle", seen |-> {}, mail |-> {}, stood |-> FALSE,
           committed |-> {}]

\* The pass reads the fence rows and the mail that is pending.
ReadFacts ==
    /\ pass.step = "idle"
    /\ pass' = [NoPass EXCEPT !.step = "read", !.seen = fence,
                              !.mail = {p \in Staff : mail[p] = "fresh"}]
    /\ UNCHANGED <<who, fence, mail, stood, cursor, watch, route, lastPass,
                   refused, requests, calm>>

\* Holding the cycle's claim it reads the stand-down, and the fence afresh.
ReadCommitted ==
    /\ pass.step = "read"
    /\ pass' = [pass EXCEPT !.step = "ready", !.stood = stood,
                            !.committed = fence]
    /\ UNCHANGED <<who, fence, mail, stood, cursor, watch, route, lastPass,
                   refused, requests, calm>>

\* Mutant: a carried fence is permanent demand.
fenceIsPermanentDemand(w) == TRUE

\* A fenced person's start decision is demand until the person has answered.
fence_still_supplies_demand(w) ==
    operator_wake_lease_active(w) \/ ~w.desired \/ w.beat = "silent"

settled_park(t) == t.routine /\ is_terminal(t)

launch_demand == {p \in pass.mail : person_is_operational(who[p])}

\* Mutant: mail wakes only people who are fenced already.
grantsTheFenced == IF pass.stood THEN {} ELSE launch_demand \cap pass.seen

grants == IF pass.stood THEN {} ELSE launch_demand

\* What the pass enforces: the rows it saw and, when it grants, the rows it
\* read again with the grants.
carried_fence ==
    IF grants = {} THEN pass.seen ELSE pass.seen \cup pass.committed \cup grants

stale_carried ==
    {p \in carried_fence : /\ ~person_is_operational(who[p])
                           /\ who[p].tr.kind # "offboard"}

pass_fence == carried_fence \ stale_carried

requested_person_ids ==
    launch_demand \cup
    {p \in pass_fence : /\ person_is_operational(who[p])
                        /\ fence_still_supplies_demand(who[p])
                        /\ ~settled_park(who[p].tr)}

demanded_people ==
    {Ceo} \cup {p \in requested_person_ids : person_is_operational(who[p])}

\* Whom the shrink half withdraws once the reconcile has decided.
withdraw(after) ==
    {p \in pass_fence :
        /\ ~operator_wake_lease_active(after[p])
        /\ IF after[p].tr.kind = "none" THEN ~after[p].desired
                                        ELSE settled_park(after[p].tr)}

\* Mutant: the published document is the whole fence, leases or not.
publishForgetsLeases(doc) == doc

\* launch_intent::publish: the document replaces the rows, except those of
\* people inside the lease an operator's wake bought them.
publish(doc) ==
    doc \cup {p \in fence : operator_wake_lease_active(who[p])}

\* Of several documents put in one mutation the last is the one published.
published_fence(after) ==
    IF withdraw(after) # {} THEN publish(pass_fence \ withdraw(after))
    ELSE IF stale_carried # {} THEN publish(pass_fence)
    ELSE IF grants # {} THEN publish(pass.committed \cup grants)
    ELSE fence

\* Ghost: a person who is raised has reported nothing since.
calmed(after) ==
    [p \in Staff |-> IF after[p].desired /\ ~who[p].desired THEN 0 ELSE calm[p]]

\* The transaction of the pass: all of it, or nothing when a transition refuses.
Commit ==
    LET ws       == Swept
        dem      == demanded_people
        conflict == \E p \in People : conflicts(ws[p], admits(pass_fence, p))
        parks    == admitted_parks(ws, dem)
        after    == [p \in People |->
                        reconcile_person(ws[p], p \in dem,
                                         admits(pass_fence, p), p \in parks)]
    IN
    /\ pass.step = "ready"
    /\ pass' = NoPass
    /\ IF conflict
       THEN /\ lastPass' = "conflict"
            /\ UNCHANGED <<who, fence, cursor, calm>>
       ELSE /\ lastPass' = "ok"
            /\ who' = after
            /\ fence' = published_fence(after)
            /\ cursor' = next_cursor(parks)
            /\ calm' = calmed(after)
    /\ UNCHANGED <<mail, stood, watch, route, refused, requests>>

-----------------------------------------------------------------------------
(* The agents, the mail and time.  The chief executive's own beats and mail *)
(* are left out: the root is demanded by every pass whatever they say.      *)

\* note_agent_activity: a working beat or a report of having settled.  A pane
\* that is being torn down may still beat.
Beat(p, working) ==
    /\ "beat" \in Verbs
    /\ who[p].emp # "absent"
    /\ who' = [Swept EXCEPT ![p].beat = IF working THEN "working" ELSE "quiet",
                            ![p].age = 0]
    /\ calm' = [calm EXCEPT ![p] = 0]
    /\ UNCHANGED <<fence, mail, stood, cursor, watch, pass, route, lastPass,
                   refused, requests>>

\* A pass is far shorter than a tick: none is under way while time moves on.
Tick ==
    /\ pass.step = "idle"
    /\ who' = [p \in People |->
                  [who[p] EXCEPT
                      !.age = IF who[p].beat = "silent" THEN 0
                              ELSE Lesser(@ + 1, AgeCap),
                      !.woke = Lesser(@ + 1, Lease),
                      !.tr.age = IF is_open(who[p].tr) THEN Lesser(@ + 1, TrAge)
                                 ELSE 0]]
    /\ watch' = Lesser(watch + 1, AgeCap)
    /\ calm' = [p \in Staff |-> Lesser(calm[p] + 1, Lease)]
    /\ UNCHANGED <<fence, mail, stood, cursor, pass, route, lastPass, refused,
                   requests>>

\* An operator request or a restart, within the bound.
Request(verb) ==
    /\ verb \in Verbs
    /\ requests < MaxRequests
    /\ requests' = requests + 1

MailArrives(p) ==
    /\ Request("mail")
    /\ mail' = [mail EXCEPT ![p] = "fresh"]
    /\ UNCHANGED <<who, fence, stood, cursor, watch, pass, route, lastPass,
                   refused, calm>>

\* The pane of a person who runs reads their mailbox empty.
Drain(p) ==
    /\ mail[p] # "none" /\ who[p].desired
    /\ mail' = [mail EXCEPT ![p] = "none"]
    /\ UNCHANGED <<who, fence, stood, cursor, watch, pass, route, lastPass,
                   refused, requests, calm>>

\* The daemon dies with its pass and its request, and comes back watching
\* from now.  What it infers from silence starts again; what was said stands.
Restart ==
    /\ Request("restart")
    /\ watch' = 0
    /\ pass' = NoPass
    /\ route' = [route EXCEPT !.step = "idle"]
    /\ who' = [p \in People |-> [who[p] EXCEPT !.tr.held = FALSE]]
    /\ calm' = [p \in Staff |-> IF who[p].beat = "working" THEN 0 ELSE calm[p]]
    /\ UNCHANGED <<fence, mail, stood, cursor, lastPass, refused>>

-----------------------------------------------------------------------------
(* Operator verbs: each is one transaction over the rows *)

\* Mutant: a click stamps its lease and leaves the settled park in place.
releaseKeepsPark(w) == [w EXCEPT !.woke = 0, !.beat = "silent", !.age = 0]

\* A click or a start releases the person from a routine park and stamps the
\* lease it buys.
release_idle_park(w) ==
    LET free == IF w.tr.routine THEN Settled(w) ELSE w IN
    [free EXCEPT !.woke = 0, !.beat = "silent", !.age = 0]

wake_person(p) ==
    /\ Request("wake")
    /\ ~stood /\ who[p].emp \in {"active", "benched"}
    /\ who' = [who EXCEPT ![p] = [release_idle_park(@) EXCEPT !.emp = "active"]]
    /\ fence' = fence \cup {p}
    /\ calm' = [calm EXCEPT ![p] = 0]
    /\ UNCHANGED <<mail, stood, cursor, watch, pass, route, lastPass, refused>>

\* A rehire supersedes what the departure left, and the start begins a quiet
\* lease of its own.
start_person(p) ==
    LET rehired == IF who[p].emp = "departed" THEN Settled(who[p]) ELSE who[p]
        freed   == release_idle_park(rehired)
    IN
    /\ Request("start")
    /\ ~stood /\ who[p].emp # "absent"
    /\ who' = [who EXCEPT ![p] =
                  [freed EXCEPT !.emp = "active", !.desired = TRUE,
                                !.beat = "quiet"]]
    /\ fence' = fence \cup {p}
    /\ calm' = [calm EXCEPT ![p] = 0]
    /\ UNCHANGED <<mail, stood, cursor, watch, pass, route, lastPass, refused>>

recall_person(p) ==
    /\ Request("recall")
    /\ who[p].emp = "benched"
    /\ who' = [who EXCEPT ![p].emp = "active"]
    /\ UNCHANGED <<fence, mail, stood, cursor, watch, pass, route, lastPass,
                   refused, calm>>

\* A commanded stop leaves an abandoned park behind.  Mail from before it no
\* longer counts, in a pass that has already read it included.
shutdown_person(p) ==
    /\ Request("shutdown")
    /\ who[p].emp # "absent"
    /\ who' = [who EXCEPT ![p] = [Settled(@) EXCEPT !.past["park"] = "abandoned",
                                                    !.desired = FALSE]]
    /\ fence' = fence \ {p}
    /\ mail' = [mail EXCEPT ![p] = IF @ = "fresh" THEN "stale" ELSE @]
    /\ pass' = [pass EXCEPT !.mail = @ \ {p}]
    /\ UNCHANGED <<stood, cursor, watch, route, lastPass, refused, calm>>

\* Benched people, unless a released park is adopted, keep no pointer.
bench_person(w) ==
    LET adopted == w.tr.kind = "park" /\ w.tr.st = "ready" IN
    [(IF adopted THEN w ELSE Settled(w)) EXCEPT !.desired = FALSE,
                                                !.emp = "benched"]

\* A transfer adopts any released transfer, whatever its target.
transfer_person(w, to) ==
    LET adopted == w.tr.kind \in Depts /\ w.tr.st = "ready" IN
    [(IF adopted THEN w ELSE supersede_open_transition(w)) EXCEPT !.dept = to]

\* A departure points at an offboard: the released one, or a new one that waits.
offboard_person(w) ==
    LET adopted == w.tr.kind = "offboard" /\ w.tr.st = "ready"
        opened  == [Settled(w) EXCEPT !.tr = new_transition("offboard", FALSE)]
    IN  [(IF adopted THEN w ELSE opened) EXCEPT !.desired = FALSE,
                                                !.emp = "departed"]

applicable(w, kind) ==
    CASE kind = "park"     -> w.emp = "active"
      [] kind = "offboard" -> w.emp \in {"active", "benched"}
      [] OTHER             -> w.emp \in {"active", "benched"} /\ w.dept # kind

\* The structural verb a kind stands for: bench, offboard or transfer.
apply_structural(p, kind) ==
    /\ applicable(who[p], kind)
    /\ who' = [who EXCEPT ![p] =
                  CASE kind = "park"     -> bench_person(@)
                    [] kind = "offboard" -> offboard_person(@)
                    [] OTHER             -> transfer_person(@, kind)]
    /\ fence' = IF kind = "park" THEN fence \ {p} ELSE fence

\* The bench, transfer and offboard routes of their own.
verb_of(kind) == CASE kind = "park" -> "bench" [] kind = "offboard" -> "fire"
                   [] OTHER -> "move"

StructuralVerb(p, kind) ==
    /\ Request(verb_of(kind))
    /\ apply_structural(p, kind)
    /\ UNCHANGED <<mail, stood, cursor, watch, pass, route, lastPass, refused,
                   calm>>

\* A new person is fenced in, unless the company is stood down.
Hire(p) ==
    /\ Request("hire")
    /\ who[p].emp = "absent"
    /\ who' = [who EXCEPT ![p].emp = "active", ![p].lastEmp = "active"]
    /\ fence' = IF stood THEN fence ELSE fence \cup {p}
    /\ calm' = [calm EXCEPT ![p] = 0]
    /\ UNCHANGED <<mail, stood, cursor, watch, pass, route, lastPass, refused>>

\* The reset to the chief executive alone: nobody else is desired or fenced,
\* and mail from before it no longer wakes anyone whose pass has not yet read
\* the watermark.
prepare_ceo_only ==
    /\ Request("ceo-only")
    /\ who' = [p \in People |-> IF p = Ceo THEN who[p]
                                ELSE [who[p] EXCEPT !.desired = FALSE]]
    /\ fence' = {}
    /\ mail' = [p \in Staff |-> IF mail[p] = "fresh" THEN "stale" ELSE mail[p]]
    /\ pass' = [pass EXCEPT !.mail = IF pass.step = "ready" THEN @ ELSE {}]
    /\ UNCHANGED <<stood, cursor, watch, route, lastPass, refused, calm>>

stand_down ==
    /\ Request("stand-down")
    /\ ~stood
    /\ stood' = TRUE
    /\ fence' = {}
    /\ UNCHANGED <<who, mail, cursor, watch, pass, route, lastPass, refused,
                   calm>>

resume ==
    /\ stood
    /\ stood' = FALSE
    /\ UNCHANGED <<who, fence, mail, cursor, watch, pass, route, lastPass,
                   refused, requests, calm>>

-----------------------------------------------------------------------------
(* The staffing lifecycle route: one request at a time, each step its own  *)
(* transaction, dropped with the connection at any point                   *)

Route == [step : {"idle", "prepare", "release", "apply", "settle"},
          person : People, kind : Kinds]

\* The newest transition of this kind that was not plainly cancelled.
matching_transition(w, kind) ==
    IF w.tr.kind = kind THEN w.tr.st ELSE w.past[kind]

\* Where a request goes once it has a transition in this status: a released or
\* an abandoned one is not released again.
step_for(status) ==
    CASE status = "none" -> "prepare"
      [] status \in {"ready", "applied", "abandoned"} -> "apply"
      [] OTHER -> "release"

Decide(p, kind) ==
    /\ route.step = "idle"
    /\ Request("route")
    /\ applicable(who[p], kind)
    /\ route' = [step   |-> step_for(matching_transition(who[p], kind)),
                 person |-> p, kind |-> kind]
    /\ who' = [who EXCEPT ![p].tr.held = (@ = TRUE) \/ who[p].tr.kind = kind]
    /\ refused' = "none"
    /\ UNCHANGED <<fence, mail, stood, cursor, watch, pass, lastPass, calm>>

\* The request ends: refused with a code, applied, or its connection lost.
ends(why) ==
    /\ route' = [route EXCEPT !.step = "idle"]
    /\ refused' = why

Unheld(ws) == [p \in People |-> [ws[p] EXCEPT !.tr.held = FALSE]]

\* begin_transition.
Prepare ==
    LET p    == route.person
        ws   == Swept
        kind == route.kind
        w    == ensure_matching_transition(ws[p], kind, FALSE)
    IN
    /\ route.step = "prepare"
    /\ IF kind \in Depts /\ kind = ws[p].lastDept
       THEN ends("already-assigned") /\ who' = Unheld(who)
       ELSE IF is_open(ws[p].tr) /\ ws[p].tr.kind # kind
       THEN ends("transition-conflict") /\ who' = Unheld(who)
       ELSE /\ who' = [ws EXCEPT ![p] = [w EXCEPT !.tr.held = TRUE]]
            /\ route' = [route EXCEPT !.step = step_for(w.tr.st)]
            /\ UNCHANGED refused
    /\ UNCHANGED <<fence, mail, stood, cursor, watch, pass, lastPass, requests,
                   calm>>

\* release: refuses a transition that is settled, cancelled or gone.
Release ==
    LET p  == route.person
        ws == Swept
    IN
    /\ route.step = "release"
    /\ IF ws[p].tr.held /\ is_open(ws[p].tr)
       THEN /\ who' = [ws EXCEPT ![p].tr.st = "ready"]
            /\ route' = [route EXCEPT !.step = "apply"]
            /\ UNCHANGED refused
       ELSE ends("transition-terminal") /\ who' = Unheld(who)
    /\ UNCHANGED <<fence, mail, stood, cursor, watch, pass, lastPass, requests,
                   calm>>

Apply ==
    LET p == route.person IN
    /\ route.step = "apply"
    /\ IF applicable(who[p], route.kind)
       THEN /\ apply_structural(p, route.kind)
            /\ IF route.kind \in Depts
               THEN route' = [route EXCEPT !.step = "settle"] /\ UNCHANGED refused
               ELSE ends("none")
       ELSE ends("not-applicable") /\ UNCHANGED <<who, fence>>
    /\ UNCHANGED <<mail, stood, cursor, watch, pass, lastPass, requests, calm>>

\* settle_applied_move: a released transfer is settled and the ledger's
\* placement advanced, so that no pass takes it for a handoff.
settle_applied_move(w) ==
    IF w.tr.kind \in Depts /\ is_released(w.tr)
    THEN advanced(Settled([w EXCEPT !.tr.st = "applied"]))
    ELSE w

Settle ==
    /\ route.step = "settle"
    /\ ends("none")
    /\ who' = Unheld([Swept EXCEPT ![route.person] = settle_applied_move(@)])
    /\ UNCHANGED <<fence, mail, stood, cursor, watch, pass, lastPass, requests,
                   calm>>

\* The handler's future is dropped between two steps.
DropRequest ==
    /\ route.step # "idle"
    /\ ends("none")
    /\ who' = Unheld(who)
    /\ UNCHANGED <<fence, mail, stood, cursor, watch, pass, lastPass, requests,
                   calm>>

-----------------------------------------------------------------------------
Init ==
    /\ who = [p \in People |-> seed_person_state(p)]
    /\ fence = {}
    /\ mail = [p \in Staff |-> "none"]
    /\ stood = FALSE
    /\ cursor = 0
    /\ watch = 0
    /\ pass = NoPass
    /\ route = [step |-> "idle", person |-> Ceo, kind |-> "park"]
    /\ lastPass = "none"
    /\ refused = "none"
    /\ requests = 0
    /\ calm = [p \in Staff |-> 0]

PassStep == ReadFacts \/ ReadCommitted \/ Commit

RouteStep == Prepare \/ Release \/ Apply \/ Settle

StaffVerb(p) ==
    \/ MailArrives(p) \/ wake_person(p) \/ start_person(p) \/ recall_person(p)
    \/ shutdown_person(p) \/ Hire(p)
    \/ \E kind \in Kinds : StructuralVerb(p, kind) \/ Decide(p, kind)

Next ==
    \/ Tick
    \/ PassStep
    \/ RouteStep \/ DropRequest
    \/ Restart
    \/ prepare_ceo_only \/ stand_down \/ resume
    \/ \E p \in Staff, working \in BOOLEAN : Beat(p, working)
    \/ \E p \in Staff : Drain(p) \/ StaffVerb(p)

Spec == Init /\ [][Next]_vars

\* Time passes, and the supervision duty drives a pass forward.  PassStep is
\* enabled in every state and changes pass, so its weak fairness is that it
\* happens over and over.
Fairness == SF_vars(Tick) /\ []<><<PassStep>>_vars

\* Besides, a person who runs reads their mail, and an operator who stood the
\* company down resumes it.
MailFairness == WF_vars(resume) /\ \A p \in Staff : WF_vars(Drain(p))

FairSpec == Spec /\ Fairness

FairMailSpec == FairSpec /\ MailFairness

-----------------------------------------------------------------------------
(* Properties *)

TypeOK ==
    /\ who \in [People -> Person]
    /\ fence \subseteq Staff
    /\ mail \in [Staff -> {"none", "stale", "fresh"}]
    /\ stood \in BOOLEAN
    /\ cursor \in 0..(Cardinality(People) - 1)
    /\ watch \in 0..AgeCap
    /\ pass \in Pass
    /\ route \in Route
    /\ lastPass \in {"none", "ok", "conflict"}
    /\ refused \in {"none", "already-assigned", "transition-conflict",
                    "transition-terminal", "not-applicable"}
    /\ requests \in 0..MaxRequests
    /\ calm \in [Staff -> 0..Lease]

is_parked(w) == settled_park(w.tr)

\* People a step parks for having nothing to do.
newly_parked == {p \in Staff : is_parked(who[p])' /\ ~is_parked(who[p])}

\* A pass parks a person only after a full lease without a sign of life since
\* they were raised, started, woken or last heard, whatever stamps an earlier
\* run, a restart of the daemon or a rehire left behind.
NoParkInsideLease == [][\A p \in newly_parked : calm[p] = Lease]_vars

\* Nobody who is parked is desired: a settled park is never a running person.
ParkedIsDown == \A p \in People : is_parked(who[p]) => ~who[p].desired

\* A pass withdraws only rows it has read: a grant committed meanwhile stays.
WithdrawsOnlyWhatItRead ==
    [][Commit => fence \ fence' \subseteq pass.seen \cup pass.committed]_vars

\* A structural handoff that is neither released nor past its grace is waited
\* for: no pass advances the placement, or stops a person it still admits.
HandoffIsWaitedFor ==
    [][\A p \in Staff :
          (/\ Commit /\ lastPass' = "ok"
           /\ is_pending(who[p].tr) /\ who[p].tr.age <= 2 * Grace
           /\ structural_transition(who[p]) # "none" /\ p \in pass_fence)
          => /\ who'[p].desired
             /\ who'[p].lastEmp = who[p].lastEmp
             /\ who'[p].lastDept = who[p].lastDept]_vars

\* A pass is refused for a transition conflict only by a handoff that is still
\* within its grace: one nobody carries on refuses no pass for good.
ConflictHasGrace ==
    [][(Commit /\ lastPass' = "conflict") =>
          \E p \in Staff : is_open(who[p].tr) /\ who[p].tr.age <= 2 * Grace]_vars

\* A person whose agent has said its piece and stays calm is taken down, or
\* shows a sign of life, is raised again or given mail.
IdleIsParked ==
    \A p \in Staff :
        (who[p].desired /\ who[p].beat # "silent" /\ calm[p] = Lease)
        ~> (~who[p].desired \/ calm[p] < Lease \/ who[p].beat = "silent")

\* Mail that waits for an employed person who can be raised is read.
MailIsRead ==
    \A p \in Staff :
        (mail[p] = "fresh" /\ who[p].emp = "active") ~>
        (mail[p] # "fresh" \/ who[p].emp # "active")

\* A departure is applied: the ledger advances to it within its grace.
DepartureApplies ==
    \A p \in Staff : who[p].emp = "departed" ~>
                     (who[p].lastEmp = "departed" \/ who[p].emp = "active")
=============================================================================
