--------------------------- MODULE ConvergeSafety ---------------------------
(***************************************************************************)
(* The durable safety state of the reconcile cycle: the actuation mode,    *)
(* the three-strike breaker and the single-flight claim, with the          *)
(* processes that write it.                                                *)
(*                                                                         *)
(* Three writers share one SQLite row:                                     *)
(*   - the daemon, whose writer actor keeps the decoded document in memory *)
(*     (mem) from open to shutdown and writes the whole row back on every  *)
(*     change; its passes are the supervision duty and the synchronous     *)
(*     projection/reconcile route, which may overlap;                      *)
(*   - the chiefd set-actuation-config and clear-breaker commands, each a  *)
(*     process of its own that opens the database, reads the row and later *)
(*     writes it back (cli).                                               *)
(* Two flags of the document that no code reads, sweep_live and            *)
(* budget_override, are left out.                                          *)
(*                                                                         *)
(* Wall-clock stamps are modelled by their age, which saturates at AgeCap: *)
(* the code only compares an age with CLAIM_STALE_MS and with the floor.   *)
(***************************************************************************)
EXTENDS Integers

CONSTANTS
    Passes,         \* callers of reconcile_cycle: the duty and route requests
    Duty,           \* the supervision duty, the caller the daemon drives
    ClaimStale,     \* CLAIM_STALE_MS, in ticks
    Floor,          \* ActuatorConfig.floor, in ticks
    TripThreshold,  \* BREAKER_TRIP_THRESHOLD
    MaxCommands     \* bound: how many operator commands run

ASSUME DutyAssumption == Duty \in Passes
ASSUME ClaimStaleAssumption == ClaimStale \in Nat \ {0}
ASSUME FloorAssumption == Floor \in Nat /\ Floor <= ClaimStale
ASSUME TripThresholdAssumption == TripThreshold \in Nat \ {0}
ASSUME MaxCommandsAssumption == MaxCommands \in Nat

VARIABLES
    phase,      \* the daemon process: "down", "opened" or "serving"
    mem,        \* the writer actor's in-memory document
    row,        \* the converge_safety row in SQLite
    cli,        \* the document an operator command has loaded, or NoCli
    pass,       \* per caller: where its cycle is, and how old
    gate,       \* what the last begin_cycle answered
    published,  \* the actuation posture the last pass published
    commands,   \* how many operator commands have begun
    asked,      \* ghost: the mode the operator last asked for
    since,      \* ghost: how long ago a pass last began, or NoStart
    behind      \* ghost: has a command run beside a daemon?

ghosts == <<asked, since, behind>>

vars == <<phase, mem, row, cli, pass, gate, published, commands, ghosts>>

AgeCap == ClaimStale

NoStart == -1

Modes == {"shadow", "apply"}

SafetyState ==
    [mode      : Modes,
     fails     : 0..TripThreshold,
     tripped   : BOOLEAN,
     trippedAt : BOOLEAN,           \* is breaker_tripped_at present?
     claim     : BOOLEAN,           \* cycle_in_progress
     started   : NoStart..AgeCap,   \* age of cycle_started_at_ms
     refusal   : BOOLEAN]           \* is last_refusal present?

default_shadow ==
    [mode |-> "shadow", fails |-> 0, tripped |-> FALSE,
     trippedAt |-> FALSE, claim |-> FALSE, started |-> NoStart,
     refusal |-> FALSE]

\* An absent document, and the command that runs nowhere.  They are told from
\* a document by their mode, so that all are records of one shape.
Absent == [default_shadow EXCEPT !.mode = "absent"]

NoCli == [default_shadow EXCEPT !.mode = "nocli"]

configured(doc) == doc.mode # "absent"

\* read / current: absence is the shadow default.
current(doc) == IF configured(doc) THEN doc ELSE default_shadow

\* effective_config: a tripped breaker forces shadow.
effectiveMode(s) == IF s.tripped THEN "shadow" ELSE s.mode

-----------------------------------------------------------------------------
(* The mutators, as functions from a document to a document. *)

set_actuation_config(doc, mode) ==
    [current(doc) EXCEPT !.mode = mode, !.fails = 0,
                         !.tripped = FALSE, !.trippedAt = FALSE]

operator_clear_breaker(doc) ==
    [current(doc) EXCEPT !.fails = 0, !.tripped = FALSE, !.trippedAt = FALSE]

failedNoSaturation(n) == n + 1

\* The counter saturates at the threshold: only "at least the threshold"
\* is ever asked of it.
failed(n) == IF n < TripThreshold THEN n + 1 ELSE n

recordSuccessUntrips(doc, succeeded) ==
    IF succeeded
    THEN [current(doc) EXCEPT !.fails = 0, !.tripped = FALSE, !.trippedAt = FALSE]
    ELSE [current(doc) EXCEPT !.fails = failed(@),
                              !.tripped = failed(current(doc).fails) >= TripThreshold]

record_cycle_outcome(doc, succeeded) ==
    LET s == current(doc)
        trips == failed(s.fails) >= TripThreshold /\ ~s.tripped
    IN  IF succeeded
        THEN [s EXCEPT !.fails = 0]
        ELSE [s EXCEPT !.fails = failed(s.fails),
                       !.tripped = s.tripped \/ trips,
                       !.trippedAt = s.trippedAt \/ trips,
                       !.refusal = s.refusal \/ trips]

record_refusal(doc) == [current(doc) EXCEPT !.refusal = TRUE]

claimHeldForever(s) == s.claim

claimedKeepsStart(s) == [s EXCEPT !.claim = TRUE]

\* begin_cycle's three answers.
claimHeld(s) == s.claim /\ (s.started = NoStart \/ s.started < ClaimStale)

floorBlocks(s) == s.started # NoStart /\ s.started < Floor

beginGate(s) ==
    IF claimHeld(s) THEN "already-running"
    ELSE IF floorBlocks(s) THEN "floor"
    ELSE "proceed"

claimed(s) == [s EXCEPT !.claim = TRUE, !.started = 0]

endForgetsStart(doc) == [current(doc) EXCEPT !.claim = FALSE, !.started = NoStart]

end_cycle(doc) == [current(doc) EXCEPT !.claim = FALSE]

-----------------------------------------------------------------------------
PassState == [pc : {"idle", "claimed", "published"}, age : 0..AgeCap]

IdlePass == [pc |-> "idle", age |-> 0]

running(p) == pass[p].pc # "idle"

TypeOK ==
    /\ phase \in {"down", "opened", "serving"}
    /\ mem \in SafetyState \cup {Absent}
    /\ row \in SafetyState \cup {Absent}
    /\ cli \in SafetyState \cup {Absent, NoCli}
    /\ pass \in [Passes -> PassState]
    /\ gate \in {"none", "already-running", "floor", "proceed"}
    /\ published \in {"none", "hold", "apply"}
    /\ commands \in 0..MaxCommands
    /\ asked \in Modes
    /\ since \in NoStart..AgeCap
    /\ behind \in BOOLEAN

\* A fresh company: no row, no daemon.  An unconfigured company is asked to
\* apply (enable_live_actuation adopts apply for it).
Init ==
    /\ phase = "down"
    /\ mem = Absent
    /\ row = Absent
    /\ cli = NoCli
    /\ pass = [p \in Passes |-> IdlePass]
    /\ gate = "none"
    /\ published = "none"
    /\ commands = 0
    /\ asked = "apply"
    /\ since = NoStart
    /\ behind = FALSE

\* Every mutation of the daemon commits the whole document to the row and
\* then to memory, in one writer turn.
commit(doc) == mem' = doc /\ row' = doc

(***************************************************************************)
(* The daemon's life.                                                      *)
(***************************************************************************)

\* CompanyDb::open hydrates the document from the row, once.
Open ==
    /\ phase = "down"
    /\ phase' = "opened"
    /\ mem' = row
    /\ gate' = "none"
    /\ behind' = (behind \/ cli # NoCli)
    /\ UNCHANGED <<row, cli, pass, published, commands, asked, since>>

bootHardcodesApply ==
    /\ phase = "opened"
    /\ phase' = "serving"
    /\ commit(set_actuation_config(mem, "apply"))
    /\ UNCHANGED <<cli, pass, gate, published, commands, ghosts>>

\* The boot write: an operator's stored mode is kept, an unconfigured company
\* adopts apply.  It also resets the breaker.
enable_live_actuation ==
    /\ phase = "opened"
    /\ phase' = "serving"
    /\ commit(set_actuation_config(
                  mem, IF configured(mem) THEN mem.mode ELSE "apply"))
    /\ UNCHANGED <<cli, pass, gate, published, commands, ghosts>>

\* A failed boot write is logged and the daemon serves all the same.
BootWriteFails ==
    /\ phase = "opened"
    /\ phase' = "serving"
    /\ UNCHANGED <<mem, row, cli, pass, gate, published, commands, ghosts>>

\* A crash, or a shutdown: run_pass_until_shutdown drops the pass at its next
\* await, so neither runs end_cycle.
Stop ==
    /\ phase # "down"
    /\ phase' = "down"
    /\ mem' = Absent
    /\ pass' = [p \in Passes |-> IdlePass]
    /\ UNCHANGED <<row, cli, gate, published, commands, ghosts>>

(***************************************************************************)
(* A pass of the reconcile cycle.                                          *)
(***************************************************************************)

beginCycleRereadsRow(p) ==
    /\ phase = "serving"
    /\ ~running(p)
    /\ LET s == current(row) IN
         /\ gate' = beginGate(s)
         /\ IF gate' = "proceed"
            THEN /\ commit(claimed(s))
                 /\ pass' = [pass EXCEPT ![p] = [pc |-> "claimed", age |-> 0]]
                 /\ since' = 0
            ELSE UNCHANGED <<mem, row, pass, since>>
    /\ UNCHANGED <<phase, cli, published, commands, asked, behind>>

\* reconcile_cycle: refresh_safety_doc does nothing, then begin_cycle.
BeginCycle(p) ==
    /\ phase = "serving"
    /\ ~running(p)
    /\ LET s == current(mem) IN
         /\ gate' = beginGate(s)
         /\ IF gate' = "proceed"
            THEN /\ commit(claimed(s))
                 /\ pass' = [pass EXCEPT ![p] = [pc |-> "claimed", age |-> 0]]
                 /\ since' = 0
            ELSE UNCHANGED <<mem, row, pass, since>>
    /\ UNCHANGED <<phase, cli, published, commands, asked, behind>>

\* run_after_claim: read_safety_posture, publish_desired_runtime.
Publish(p) ==
    /\ pass[p].pc = "claimed"
    /\ pass' = [pass EXCEPT ![p].pc = "published"]
    /\ published' = IF effectiveMode(current(mem)) = "apply"
                    THEN "apply" ELSE "hold"
    /\ UNCHANGED <<phase, mem, row, cli, gate, commands, ghosts>>

\* end_cycle runs after a pass that published and after one that failed.
EndCycle(p) ==
    /\ running(p)
    /\ commit(end_cycle(mem))
    /\ pass' = [pass EXCEPT ![p] = IdlePass]
    /\ UNCHANGED <<phase, cli, gate, published, commands, ghosts>>

\* The pass ends without releasing its claim: its future is dropped (a closed
\* request, a panicking duty) or end_cycle itself fails.
Abandon(p) ==
    /\ running(p)
    /\ pass' = [pass EXCEPT ![p] = IdlePass]
    /\ UNCHANGED <<phase, mem, row, cli, gate, published, commands, ghosts>>

\* The store's breaker API.
RecordOutcome(succeeded) ==
    /\ phase = "serving"
    /\ commit(record_cycle_outcome(mem, succeeded))
    /\ UNCHANGED <<phase, cli, pass, gate, published, commands, ghosts>>

RecordRefusal ==
    /\ phase = "serving"
    /\ commit(record_refusal(mem))
    /\ UNCHANGED <<phase, cli, pass, gate, published, commands, ghosts>>

(***************************************************************************)
(* The operator.                                                           *)
(***************************************************************************)

\* POST /v1/org/converge-safety/set-actuation-config, in the daemon.
SetActuationConfigRoute(mode) ==
    /\ phase = "serving"
    /\ commit(set_actuation_config(mem, mode))
    /\ asked' = mode
    /\ UNCHANGED <<phase, cli, pass, gate, published, commands, since, behind>>

\* chiefd set-actuation-config / clear-breaker: a second process opens the
\* company database ...
CliOpen ==
    /\ commands < MaxCommands
    /\ cli = NoCli
    /\ cli' = row
    /\ commands' = commands + 1
    /\ behind' = (behind \/ phase # "down")
    /\ UNCHANGED <<phase, mem, row, pass, gate, published, asked, since>>

\* ... and writes back the row it computed from what it read at open.
CliSetActuationConfig(mode) ==
    /\ cli # NoCli
    /\ row' = set_actuation_config(cli, mode)
    /\ cli' = NoCli
    /\ asked' = mode
    /\ UNCHANGED <<phase, mem, pass, gate, published, commands, since, behind>>

CliClearBreaker ==
    /\ cli # NoCli
    /\ row' = operator_clear_breaker(cli)
    /\ cli' = NoCli
    /\ UNCHANGED <<phase, mem, pass, gate, published, commands, ghosts>>

(***************************************************************************)
(* Time.                                                                   *)
(***************************************************************************)
older(age) == IF age < AgeCap THEN age + 1 ELSE age

agedDoc(doc) ==
    IF doc.started = NoStart THEN doc
    ELSE [doc EXCEPT !.started = older(doc.started)]

\* CLAIM_STALE_MS "must exceed the longest legitimate apply cycle": time does
\* not carry a running pass past it.
Tick ==
    /\ \A p \in Passes : running(p) => pass[p].age + 1 < ClaimStale
    /\ mem' = agedDoc(mem)
    /\ row' = agedDoc(row)
    /\ cli' = agedDoc(cli)
    /\ pass' = [p \in Passes |->
          IF running(p) THEN [pass[p] EXCEPT !.age = older(pass[p].age)]
                        ELSE pass[p]]
    /\ since' = IF since = NoStart THEN since ELSE older(since)
    /\ UNCHANGED <<phase, gate, published, commands, asked, behind>>

-----------------------------------------------------------------------------
PassStep(p) == BeginCycle(p) \/ Publish(p) \/ EndCycle(p) \/ Abandon(p)

Next ==
    \/ Open \/ enable_live_actuation \/ BootWriteFails \/ Stop \/ Tick
    \/ \E p \in Passes : PassStep(p)
    \/ \E ok \in BOOLEAN : RecordOutcome(ok)
    \/ RecordRefusal
    \/ \E m \in Modes : SetActuationConfigRoute(m)
    \/ CliOpen \/ CliClearBreaker
    \/ \E m \in Modes : CliSetActuationConfig(m)

Spec == Init /\ [][Next]_vars

\* The clock advances, a pass that began is driven to its end, and the duty
\* loop keeps calling reconcile_cycle for as long as the daemon serves.  No
\* request on the route is assumed to arrive.
Fairness ==
    /\ WF_vars(Tick)
    /\ WF_vars(BeginCycle(Duty))
    /\ \A p \in Passes : WF_vars(EndCycle(p) \/ Abandon(p))

FairSpec == Spec /\ Fairness

-----------------------------------------------------------------------------
(* Properties. *)

\* At most one reconcile pass is past begin_cycle at a time, however the duty
\* and the route interleave, whatever claims earlier passes or an earlier
\* daemon left behind, and whatever an operator command writes to the row.
SingleFlight ==
    \A p, q \in Passes : running(p) /\ running(q) => p = q

\* The claim a running pass holds is the one in the daemon's document and is
\* exactly as old as the pass: this is what keeps a reclaim off a live pass.
ClaimIsOwned ==
    \A p \in Passes :
        running(p) => /\ phase = "serving"
                      /\ mem.claim
                      /\ mem.started = pass[p].age
                      /\ pass[p].age < ClaimStale

\* No pass publishes an actuating set after the operator asked for shadow,
\* whatever restarts, boot writes and abandoned passes come in between, and
\* whatever commands rewrite the row while no daemon runs.
PublishRespectsOperator ==
    [][\A p \in Passes :
         pass[p].pc = "claimed" /\ pass'[p].pc = "published"
             /\ published' = "apply" /\ ~behind
         => asked = "apply"]_vars

\* "Success never un-trips" (record_cycle_outcome): while one daemon serves,
\* a tripped breaker is released by a config change alone, never by a cycle
\* that begins, ends or reports success.
TripIsSticky ==
    [][phase = "serving" /\ phase' = "serving" /\ mem.tripped /\ ~mem'.tripped
       => \E m \in Modes : SetActuationConfigRoute(m)]_vars

\* The floor of the cycle: two passes never start within Floor ticks of each
\* other, also when the first was abandoned, or lost to a restart, or its row
\* was rewritten by a boot, a route or a command.
FloorHolds ==
    [][\A p \in Passes :
         ~running(p) /\ pass'[p].pc = "claimed" /\ ~behind
         => since = NoStart \/ since >= Floor]_vars

\* A daemon that stays up converges forever: no claim left behind by a crash,
\* a cancelled duty or a failed release wedges it.
ConvergeResumes ==
    <>[](phase = "serving") => []<>(\E p \in Passes : running(p))

=============================================================================
