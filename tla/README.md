# Chief: verification project

TLA+ models of the parts of Chief where order, crashes and stale reads decide
whether it is correct, TLC runs over small instances of them, and proofs,
checked by TLAPS, of the safety properties for every value of the constants.

1. [The system](#1-the-system) · 2. [Modules](#2-modules) ·
3. [Runs](#3-runs) · 4. [Fairness](#4-fairness) · 5. [Proofs](#5-proofs) ·
6. [Where code and prose disagree](#6-where-code-and-prose-disagree) ·
7. [Plan](#7-plan) · 8. [Not modelled](#8-not-modelled)

Paths below are relative to `src/apps/chiefd/crates/` unless they begin with
`src/`.  `PROJECT.json` maps every definition to the lines it translates.

## 1. The system

Chief runs companies of coding agents.  A company is a directory with a SQLite
database (`.chief/db/chief.db`) and one daemon, `chiefd`, that owns it.  The
daemon decides who should be running; the client, `chief`, runs those people as
tmux panes; `beacond` is the registry, one per machine, through which a daemon
is admitted for a directory.

    chief (commands, panes)  --HTTP-->  chiefd (one per company)  --HTTP-->  beacond
       |  finds the daemon by             |  writer actor: one thread,        |  one table,
       |  .chief/run/daemon.json          |  one transaction per mutation     |  a row per directory
       +-- observes tmux, plans,          +-- duties: reconcile, reminders,
           spawns the published set           mailbox, watermark

How the parts interact:

* Every mutation of a company is a closure run by the writer actor inside one
  `BEGIN IMMEDIATE` transaction, against documents decoded once at open and kept
  in memory.  So a mutation is atomic, and what was read *before* one may be
  stale inside it.  Two `chiefd` subcommands open the same database from a
  process of their own, beside the writer.
* The duties run on timers in the daemon; the HTTP routes run beside them.  Both
  may be dropped at an `await` (shutdown, a client that hangs up).
* A daemon is found by the rendezvous file, admitted by `beacond`'s row, and
  killed by pid.  Nothing ties the three together but the order they are written in.
* The client polls what the daemon publishes.  Nothing it does is trusted back
  except activity beats and mailbox drains.

### Components

| component | state | operations | what is hard | what makes it correct |
|---|---|---|---|---|
| converge safety (`chiefd-core/src/store/converge_safety.rs`, `chiefd-host/src/converge_apply/safety.rs`) | mode, breaker count and trip, claim with its start | begin and end a cycle, outcome, refusal, set mode, clear breaker | two callers, crashes that leave the claim, a writer in another process | one pass at a time, a floor between passes, shadow respected, no wedge |
| activity ledger (`chiefd-core/src/store/activity.rs`) | per person: placement last seen, desired, lease stamps, transition | reconcile, sweep, beat, prepare, release, settle | time, downtime, old stamps; pace of parks | nobody stopped while busy, idle people stopped, handoffs waited for |
| launch-intent fence (`store/launch_intent.rs`, `converge_apply/cycle.rs`) | who may run | grant, withdraw, publish the whole document | read before the transaction that enforces it | nobody runs without an intent; no grant lost |
| stand-down (`store/stand_down.rs`) | a flag | stand down, resume | races with a pass | nobody raised while stood down |
| staffing lifecycle route (`store/staffing_lifecycle.rs`, `chiefd-api/src/docstore/org_slice.rs`) | none of its own | decide, prepare, release, apply, settle | dropped between any two | a half-done request blocks nobody for good |
| person verbs (`store/org_ops.rs`) | manifest, activity row, fence row | wake, start, recall, shutdown, bench, transfer, fire, hire, ceo-only | leave pointers that later verbs meet | a parked person is down, a departure applies |
| beacond registry (`beacond/src/store.rs`, `liveness.rs`) | a row per directory | create, delete, register, deregister, heartbeat, list | late and lost calls, recycled pids | the row names the daemon that holds the directory |
| daemon boot and departure (`chiefd-daemon/src/run.rs`, `beacon.rs`) | process stage | register, open, publish, serve, drain, deregister, unpublish | overlapping lives, signals in the middle | one writer per company |
| rendezvous file (`chiefd-daemon/src/rendezvous.rs`) | pid, port, directory | write, read, remove | stale after a kill | a live daemon is found |
| lifecycle commands (`chief-cli/src/{daemon,attach,stop,remove}.rs`) | none | attach, start, stop, rm, genesis | interrupted; two at once | a wanted company comes back; removal stops first |
| supervision (`store/supervision.rs`, `supervision/*`) | reminders, effect outbox | arm, stop, fire, shed, deliver, fail, reopen | downtime over several due times, reused ids, breaker | each due window fires once |
| dispatch (`store/supervision/dispatch.rs`, mailbox duty in `run.rs`) | none | plan, stage, mark delivered | two commits | delivered only over mail; staged again without a second copy |
| mailbox (`store/mailbox.rs`, `mailbox_rows.rs`) | rows per (effect, recipient) | insert if absent, read, settle | decided on a copy the HTTP drains bypass | taken mail never comes back |
| session maintenance (`store/session_maintenance*.rs`, the agent's `organization-intercom.ts`) | requests to compact a session; the transcript that proves one | queue, claim, defer, finish, recover | lost answers, dead claimants, turns in between | an attempt compacts at most once; an ask ends once, with one verdict |
| runtime ownership (`store/runtime_ownership.rs`) | which tmux socket owns the runtime | acquire, take over, release | decided on an older observation | one owner |
| mutation journal (`store/mutation_journal.rs`) | records of multi-write mutations | begin, commit, resolve, adopt | no path of the program calls it | resolved exactly once |
| writer queue (`chiefd-core/src/actor/queue.rs`, `writer.rs`) | two classes of jobs | enqueue, age, expire, run | starvation, deadlines | every job answered, in class order |
| change feed (`chiefd-api/src/docstore/feed.rs`) and its watcher (`piing`'s SSE client) | ring of 1024 hints, sequence; cursor, reads under way | publish, subscribe, replay, forward; dial, dispatch, read | a lagging reader, a restart, a cut | what was hinted at is read; no gap goes unreported |
| host transactions (`chiefd-host/src/host_txn.rs`) | intent, backups, published files | begin, publish, commit, recover | no path of the program calls it | files and rows agree after recovery |
| actuator (`chief-cli/src/actuate/*`) | the crash loop's memory; tags on panes | observe, plan, interpret, undo | panes that die at once, refusals, its own death in the middle of a boot | tmux converges to the published set; what runs as wanted is left alone |
| health and escalation (`store/health*.rs`, `operator_escalation.rs`) | incidents, fingerprints, cooldown | observe, dedupe, push | nothing reads it back | the operator is told once |
| watermark (`store/supervisor_watermark.rs`) | a stamp | advance, self-audit | none | monotone |
| organization manifest (`store/organization.rs`, `org_ops.rs`) | people, departments, contracts | tree edits in one transaction | large invariants, no concurrency | a valid tree |
| authentication (`chiefd-api/src/authn/*`) | nonces | issue, consume | none of order | single use |
| desired set, roster, posture (`chiefd-core/src/runtime/*`) | none | pure projections | none | faithful rendering |
| terminal interface (`chief-cli/src/{sidebar,placement,control}.rs`), web application (`src/apps/web`), TypeScript packages (`src/packages`), logging, host primitives, beacond's watchdog, operator verbs over HTTP | presentation, I/O | | | |

The hazards of each, at the line where it bites, are in `PROJECT.json`
("hazards"), each with the properties that would catch it.

## 2. Modules

| module | what it is |
|---|---|
| `ConvergeSafety` | the claim, breaker and mode, with the daemon, its passes and the operator's commands |
| `ConvergeSafetyProofs` | theorems about it |
| `Activity` | ledger, fence, stand-down, verbs, the lifecycle route and the pass that reconciles them |
| `ActivityProofs` | theorems about it |
| `Admission` | registry, daemons' lives, rendezvous file and lifecycle commands |
| `AdmissionProofs` | theorems about it |
| `Delivery` | reminders, effects, mailbox and the duties between them |
| `DueWindows` | what reminders promise of their due times: the abstract specification that `Delivery` implements |
| `DeliveryProofs` | theorems about `Delivery`, the refinement included |
| `Asks` | what session maintenance promises of what it is asked: the abstract specification |
| `SessionMaintenance` | the ledger of requests, the agent's process and the duty that recovers; implements `Asks` |
| `SessionMaintenanceProofs` | theorems about it, the refinement included |
| `Actuator` | the converge pass of the client, against tmux |
| `ActuatorProofs` | theorems about it |
| `ChangeFeed` | the daemon's ring and stream, and the agent's watcher and mailbox reads |
| `ChangeFeedProofs` | theorems about it |
| `MCConvergeSafety`, `MCActivity`, `MCAdmission`, `MCDelivery`, `MCActuator` | instances for TLC; the other two modules need none |

The components meet at narrow interfaces.  `ConvergeSafety` shows that
passes never overlap; `Activity` has one pass at a time because of it.
`Admission` shows one writer per company but for one leaving with its drain
overrun; the modules of what runs inside a daemon have one, and leave that case
out.  `Delivery` puts mail in the mailbox; that an
agent who runs learns of it is `ChangeFeed`'s `NothingMissed` (when its read does
not fail), that mail wakes
whoever it waits for is `Activity`'s `MailIsRead`, over mail that simply
arrives.  What `Activity` publishes is the wish that `Actuator` reads; there it
changes at will.  These are assumptions of one module that another module's
property justifies, not a composed specification.

### ConvergeSafety

One SQLite row with three writers.  `row` is the row, `mem` the daemon's copy,
`cli` the copy of an operator command that runs as a process of its own; the
daemon writes the whole document back on every change (`commit`).  `pass` holds
where each caller of `reconcile_cycle` is: the supervision duty and one or more
route requests.

| action | code |
|---|---|
| `Open`, `enable_live_actuation`, `BootWriteFails`, `Stop` | hydration at open, the boot write and its logged failure, shutdown or crash |
| `BeginCycle`, `Publish`, `EndCycle`, `Abandon` | `begin_cycle`, the posture a pass publishes, `end_cycle`, a future that is dropped |
| `RecordOutcome`, `RecordRefusal` | the breaker's API; no production code calls it, so its steps are offered to the model rather than scheduled by it |
| `SetActuationConfigRoute`, `CliOpen`, `CliSetActuationConfig`, `CliClearBreaker` | the HTTP route and the two commands |
| `Tick` | time |

Stamps are ages that saturate at `ClaimStale`; no comparison in the code tells
older ones apart.  `Tick` never carries a running pass past `ClaimStale`: the
code says the constant must exceed the longest pass, and this is where the model
relies on it.  The ghosts are `asked` (the mode the operator last asked for),
`since` (age of the last pass's start) and `behind` (a command ran beside a
daemon).  A command beside a daemon can overwrite the row and be overwritten
(section 6); the two properties that speak of what the operator asked and of the
floor hold until it happens.

`budget_override` and `sweep_live` are left out: nothing reads them.

### Activity

Who may run.  `who` holds per person the manifest facts the reconcile reads and
the activity row; `fence` the launch-intent rows; `pass` what the reconcile pass
has read so far.  The pass is three steps, because the code reads in three
places before it decides: `ReadFacts` (fence and mail, before the claim),
`ReadCommitted` (stand-down and fence, under the claim), `Commit` (the whole
transaction: sweep, fence decisions, reconcile of every person in order,
withdrawals, publication).  Everything else may commit in between.

`reconcile_person` is the code's two passes over a person: `transition_pass`
(what handoff must be open, what conflicts, who is parked) then `decision_pass`
(who is desired, what is advanced).  The verbs (`wake_person`, `start_person`,
`recall_person`, `shutdown_person`, `StructuralVerb`, `Hire`,
`prepare_ceo_only`, `stand_down`, `resume`) are one transaction each.  `Decide`,
`Prepare`, `Release`, `Apply`, `Settle` are the lifecycle route; `DropRequest`
is its future dropped between any two.

An instance is exposed to the requests in `Verbs`, at most `MaxRequests` of
them.  This is not only a matter of size.  Some properties hold only against
some requests, and the runs say which:

* `WithdrawsOnlyWhatItRead` does not hold against `hire`, nor
  `NoParkInsideLease` against the lifecycle route (section 6).  The theorems say
  exactly this: they assume `hire`, or `route`, is not among the `Verbs`.
* That everybody desired has a launch intent does not hold against `shutdown`:
  a pass enforces the fence it read before its transaction (`cycle.rs:2128`).
* Three stronger statements were tried and do not hold: that a stand-down
  committed before a pass decides withholds its grants (`cycle.rs:1322`
  against `stand_down.rs:39`), that a finished bench is in effect at once
  (`staffing_lifecycle.rs:262` against `:21`), and that a transfer keeps its
  person up (`activity.rs:3283` against `staffing_lifecycle.rs:443`).

Paused departments, the repair of dangling departments, the cap on settled
history and maintenance demand (what `SessionMaintenance` asks of the demand
set) are left out.  The chief executive sends no beat
and gets no mail: every pass demands the root whatever they say.

### Admission

One directory.  `row` is beacond's row; `database` and `rendezvous` the two
files; `daemon` the stage of each pid; `calls` and `answer` the requests on the
wire.  A call outlives its caller: `CallTimesOut` gives up on it and `register`,
`create` or `deregister` may still carry it out later, or `DropCall` lose it.

A daemon goes registering → (creating → retrying) → admitted → open → serving →
closing → leaving → departing → gone.  A drain that overruns its budget is only
logged (`DrainTimesOut`): the daemon leaves and departs with its writer still at
work (`Abandoned`) until the queue is done (`WriterEnds`) or the process exits
(`Exited`).  `StartupFails` and `FatalHandoff` are its early and abrupt ways out, `Killed` a SIGKILL, `Recycled` another program that
gets its pid.  Commands are `client` programs: each finds a daemon by the file
(`Published`), stops it (`StopDaemon`, `Gone`, `Escalate`), starts one (`Start`,
`Spawn`, `Started`, `StartTimesOut`), replaces one that is not the installed
build (`StaleBuild`) or deletes (`Delete`, `Unlist`); `Vanish`
interrupts it anywhere.

Assumed: a client's own calls to beacond are answered at once or not made; a pid goes to another daemon only once no call of
its last owner is in flight.  Zombies are ignored.  Heartbeats are left out:
they write `last_seen_at`, which no decision reads.  The ghost `torn` says that
a row was withdrawn from under its daemon (`LoseRow`, `Unlist`): after that the
code has nothing to keep a second daemon out, and the two properties say so.
`OneWriterWhileListed` also excepts an abandoned writer; without the exception it
is `OneWriter`, which the code breaks (section 6).

### Delivery

`reminders` and `effects` are the supervision ledger, `rows` the mailbox rows of
effects, `known` the writer's copy of which rows exist.  An effect is named by
reminder id and due time; an id is a person and a number, and numbers are handed
out again after a leaver's rows were shed.

| action | code |
|---|---|
| `evaluate_reminders` | the reminder duty: shed leavers, fire what is due, step recurring ones on, expire |
| `Arm`, `stop_reminder` | a person arms or stops a reminder; both shed first |
| `Depart`, `Rehire` | manifest edits; nothing is shed by them |
| `dispatch_plan`, `stage_batch`, `RecordOutcome` | the mailbox duty: read, first commit, second commit |
| `StagingRefused`, `OutcomeRefused`, `Crash` | either commit refused, the daemon dead between any two steps |
| `reopen_failed_effects` | reopen what the breaker gave up, a bounded number of times |
| `settle` | a reader drains a row over HTTP, past the writer's copy |
| `Open`, `Tick` | a daemon loads the database; time |

Assumed: the clock is monotone, rendering a prompt never fails, and one text
stands for every prompt and payload, so an effect id that already exists counts
as a conflict.  Left out: mail between people, the wake that follows staging
(`Activity`), the sequence numbers of effects.

`DueWindows` is the promise, for each reminder id and due time: a window is
fired once, and later than every window its id fired before, whoever held the
id; its mail is sent once and taken once; it is delivered only when sent; given
up, it is tried again a bounded number of times, and delivered it stays.
`ImplementsDueWindows` is the refinement: a window stands where its effect and
its mailbox row stand (`stage`, `mail`).

### SessionMaintenance and Asks

One person whose sessions are asked to be compacted.  `requests` is the ledger,
`proc`, `worker`, `log` and `session` the Pi process that carries requests out
with its transcript, `calls` the verbs on their way to the writer, `duty` what
the daemon's recovery has read.

| action | code |
|---|---|
| `Queue`, `Depart` | an ask, absorbed by an open request or a recent one; a manifest edit whose leaver's open requests the next verb closes |
| `Commit`, `Lose` | the writer commits the oldest call, or never does; its caller may be told nothing |
| `SessionStart`, `ReceiptAnswered`, `RecoverAnswered` | a process that boots: a request its transcript proves is closed first, then those of other processes are recovered |
| `Poll`, `Claimed`, `Defer`, `DeferAnswered`, `Compacted` | the settled extension: claim, carry out what the transcript does not prove, hand back what a turn made stale, send the verdict |
| `Turn`, `Die`, `Boot` | an entry in the transcript; the process ends, and another begins on the same session or on a fresh one |
| `DutyReads`, `DutyRecovers` | `recover_dead_maintenance_claims`: claims whose process is gone are read, then checked again inside the transaction |

A compaction is the entry of the transcript that follows the leaf its claim was
anchored at, and this is how the code itself proves one.  A verb that takes part
in a request is committed in the order sent; the client waits 35 s for an answer
(`src/packages/chiefing/src/transport/FetchTransport.ts:12-38`) and the writer holds a call back for at most 30 s, so
whoever waits knows the answer or that the call is no longer in flight
(`answered`).  Verdicts are not waited for.

`Asks` is the promise: an ask waits, is taken up, may be handed back or tried
again with the next attempt number, ends once with one verdict and never comes
back.  `ImplementsAsks` is the refinement: an ask stands where its last attempt
stands (`latest_attempt`).

Left out: `set_model` and `fresh_session`, which the code keeps as tombstones;
`record_interrupt`, which has no caller; company-wide requests, which no command
makes; several people (recovery and the duty work person by person); a process
that runs beside another in the same pane.

### Actuator

The client's resident loop: one pass after another, each of which reads what
`chiefd` wants (`desired`) and declines (`refused`), observes tmux, plans, and
carries the plan out one command at a time.  `panes` are the agents' panes with
the tags written on them so far, `windows` and `rails` the windows that stand
and those with a sidebar, `loop` the crash loop's memory of one actuator
process.  Pane ids are bounded by `MaxPanes`: a pane is made only while there is
an id nobody holds or remembers (`Room`).

| action | code |
|---|---|
| `Observe`, `Plan` | `observe`, which first destroys whatever an interrupted mint left marked; the crash loop's verdicts and `compute_converge_plan` |
| `create_session`, `Spawn`, `mark_minting`, `tag_pane`, `clear_minting` | the boots; a new window's or split's tags are written one command at a time, after its process runs |
| `respawn`, `respawn_tag` | a launch that changed: the process is replaced, then the hash |
| `kill_window`, `stop_session`, `apply_layout`, `Skip` | the rest of a plan; a person who is declined or waits out a delay is skipped |
| `Fail`, `Fault`, `Finish` | a step whose precondition fails or that tmux refuses: the pass takes its mints back; or the end |
| `Exit`, `Crash`, `Change`, `defer_if_operator_watching`, `retry_due` | a process exits, the actuator dies and is started again, the wish changes, a watched window defers its end, a delay passes |

`OneProcessEach` and `Converges` do not speak of a process started by an
actuator that died before it could mark it (`Leaked`): nothing on the pane tells
of it, and the code has no way to find it (section 6).

Simplified: one window per person (`placement.rs:505`); no panes moved by the
operator; no window order, geometry, sleeping notices, or capacity skip; wish,
roster and gate are read at once; a hold or a failed read is no pass; the
failure count and its wording are dropped, since only whether a delay is due
decides anything; the supervisor that starts the actuator again is taken as
given.

### ChangeFeed

One store that an agent watches, its mailbox, among others.  A commit is hinted
at later, in any order, or never (`Drop`: the caller of a row write went away
first).  `published` is the feed of one daemon's life, of which the last
`Capacity` are retained; `watch` the daemon's side of a connection, `wire` the
frames under way, `client` the agent's cursor, channel and reads.

| action | code |
|---|---|
| `commit`, `publish`, `Drop` | the writer's commits; `publish_change`, one step under its lock |
| `Stop`, `Start` | a daemon's life; sequence numbers begin again |
| `subscribe`, `replay_from` | `watch_stream`: the receiver is opened first, the replay snapshot taken after it |
| `Replay`, `Lagged`, `Recv` | `watch_step`, which drains the replay before the channel, repeats nothing and turns lag into a reorg |
| `dispatchEvent`, `Heartbeat`, `handleDisconnect` | the SSE client: a frame sets the cursor, a reorg drops it; a channel that turns dead has the mailbox read once |
| `Answer`, `Deliver` | `drain`: a read in two steps, a trigger meanwhile starts another after it |
| `Deferred` | a read fails, with the daemon down or up, and is left to the next trigger |
| `Compact`, `resumeAfterNativeCompaction` | the session is compacted: reads are withheld, and its end is a trigger |
| `session_start`, `StartupReady`, `agent_settled` | another session drops the read under way and, until it is ready, the cycles of a reorg or a dead channel; readiness may trigger a read, the end of a turn does |

The ghosts are `told` (the latest mailbox commit a hint was published for),
`client.known` (the daemon last heard of), `client.blind` (the last replay
met a gap its two comparisons cannot see) and `client.lost` (the last read that
was to be made failed or was dropped).

Simplified: the watcher's cycles on a reorg or a dead channel
(`runMaintenanceCycle`) are the read of the mailbox they end with, and one whose
maintenance throws before it is a read that fails; the company-wide maintenance
that also withholds reads is left out, since no route starts one any more; a daemon comes back on the port it had; the agent
begins with the daemon and with its mailbox read; no store filters, wildcard,
authentication or heartbeat timeouts (which are cuts); no writer's queue.

## 3. Runs

`tlc -config <cfg> <module>`, from this directory.  Bounds are named in the
guards (`MaxCommands`, `MaxRequests`, `MaxId`, `MaxTime`, `MaxFaults`,
`MaxCalls`, `MaxMishaps`, `MaxCommits` and their like); ages saturate, so time
itself is unbounded except in `Delivery` and `SessionMaintenance`.  Deadlock is
not checked where requests and faults are bounded: such a system may stop.

| run | instance | distinct states | what it shows |
|---|---|---|---|
| `converge_safety` | duty and one route request; stale 3, floor 2, trip 2, one command | 302,634 | `SingleFlight`, `ClaimIsOwned`, `FloorHolds`, `TripIsSticky`, `PublishRespectsOperator`, and `ConvergeResumes`: no claim left behind wedges a daemon that stays up |
| `activity_idle` | chief executive and two, one park per pass; beats, mail, wakes, starts, restarts, ceo-only, stand-down (2) | 202,084 | `NoParkInsideLease`, `WithdrawsOnlyWhatItRead`, and `IdleIsParked`, `MailIsRead`: who goes quiet is stopped some day, who has mail is started |
| `activity_staffing` | one person, two departments, hired on the way; every staffing verb and the route (3) | 390,337 | `ParkedIsDown`, `HandoffIsWaitedFor`, `ConflictHasGrace` |
| `admission` | three pids, one command at a time, every verb and fault (3) | 192,022 | `OneWriterWhileListed`, `RowNamesHolder`, `CompanyComesBack` |
| `delivery` | one person's reminders, two managers; cadences 1 and 2, floor 2, breaker 2, two ids, clock to 3, 3 requests, 2 faults | 162,541 | `FreshWindow`, `NoBurst`, `MailOnce`, `ImplementsDueWindows` (the refinement), `DueIsMailed` |
| `maintenance` | two records, two processes, two attempts, two entries, two calls in flight, clock to 1 | 621,735 | `CompletedIsCompacted`, `AttemptCompactsOnce`, `CompactsAtAnchor`, `MintsAreSpaced`, `ImplementsAsks` (the refinement), `DeadClaimIsRecovered` |
| `actuator` | two people, two launches, five panes, two changes, two mishaps of every kind | 509,729 | `OneProcessEach`, `FailuresAreDeaths`, `KeepsWanted`, `Converges` |
| `feed` | ring of one, one frame under way, three commits to two stores, any two of stop, cut, lost hint, compaction, new session | 2,159,695 | `NothingMissed`, `ForwardedInOrder` |
| `activity_fire` | one person; fire and start | | violates `DepartureApplies` |
| `actuator_skip` | two people, one launch, two changes, one exit | | violates `SkipCostsOneStep` |
| `admission_drain` | two pids, a handoff and a stuck drain | | violates `OneWriter` |
| `feed_epoch` | ring of four, three commits, one fault | | violates `ResumeIsLossless` |

Each property of a passing run has a mutant in `PROJECT.json`: a plausible bug
in a mapped definition (a dropped fence in `cleared`, a cursor one too far, a
writer's copy that loads pending rows only) under which the property fails in
the same run.

Why the bounds are enough for what they ask:

* *ConvergeSafety.*  Two callers are all that overlap needs; a stale age of 3
  with a floor of 2 leaves an age on either side of each comparison; a threshold
  of 2 tells the first failure from the tripping one.  One command is enough for
  a read-modify-write that straddles anything the daemon does.
* *Activity.*  A lease of 2 with a liveness of 1 and a grace of 1 keep all the
  comparisons apart; two people and one park per pass are the smallest company
  in which a cursor can pass somebody over; two or three requests let one verb
  meet the pointer an earlier one left while a third is under way.
* *Admission.*  Three pids let a late call of one daemon, a second daemon and a
  boot that overlaps both meet.  There is one client because with two clients
  and two pids TLC finds a schedule that only a tiny pid space has: pids reused
  at once, one client for ever killing the daemon the other is booting.  Safety
  is proved for any number of each.
* *SessionMaintenance.*  Two processes are a dead claimant and its successor; two
  attempts are a recovery and the ceiling; two records let an ask be repeated
  with another beside it; two entries are a compaction and the turn that makes
  its anchor stale.  The window is 0, so that time 0 is inside it and 1 past it.
* *Actuator.*  Two people, in order, are a pass that fails at the second after it
  booted the first; two launches are a wish that changes under a pass; five
  panes let both be booted, taken back and booted again with the old ids still
  remembered; two mishaps are, say, a crash in a boot and a process that dies
  in the next.
* *ChangeFeed.*  A ring of one is overrun by the second hint, three commits overrun
  a reader who had a cursor; one frame under way is enough to make the receiver
  lag; any two faults meet in every order, and reads fail without limit.  Safety is proved for
  any number of each, and any ring.
* *Delivery.*  Two ids let one be shed and handed out again; a clock to 3 has a
  due time, a downtime over the next, and a time after; two faults are a refused
  transaction and a crash in one history, or the breaker's limit.

## 4. Fairness

Fairness is assumed only of what the code schedules itself.

* `ConvergeSafety`: time passes, the duty keeps calling `reconcile_cycle`, and a
  pass that began ends or is dropped.  No route request need ever arrive.
  `ConvergeResumes` is stated of a daemon that eventually stays up.
* `Activity`: passes go on (weak, written as `[]<><<PassStep>>_vars` since a pass
  can always go on) and time passes (strong, because `Tick` is
  disabled while a pass is under way: a pass is far shorter than a tick).
  `MailIsRead` also needs a person who runs to read their mail, and an operator
  who stood the company down to resume it.  No other verb is assumed to happen.
* `Admission`: beacond and daemons run, a command goes on, somebody keeps
  attaching, and a stranger who got a daemon's pid exits some day: the registry
  documents that gap as accepted, and without it the company never comes back.
* `Delivery`: both duties run while they have work and a dead daemon is
  replaced.  Crashes and refusals are bounded by `MaxFaults`.  The clock is
  *not* fair: `DueIsMailed` only speaks of windows already due.

* `SessionMaintenance`: the daemon's duty comes round (both of its steps, weak).
  No process is assumed to answer, to boot or to carry anything out: a dead
  claim must be recovered all the same.
* `Actuator`: the resident loop goes on, pass after pass and step after step
  (weak, `resident.rs`'s run loop), and a retry delay of at most ten seconds
  passes (weak).  That changes and mishaps end is the bound's doing; `Converges`
  speaks of what happens once they have.
* `ChangeFeed`: what passes is safety, stated of the states in which nothing is
  under way, and assumes none.  That an agent catches up in the end does not
  hold (section 6).

`DueIsMailed` allows what the code allows: a reminder stopped or expired before
it fires, an owner or author who left, and a breaker that gave the effect up.

## 5. Proofs

`tlapm <module>Proofs.tla`.  Every theorem is for all values of the constants
that satisfy the assumptions named in the component's module, and rests on no
other assumption.

**ConvergeSafetyProofs.**  `TypeCorrect`; `OnePassAtATime` (`SingleFlight`) and
`RunningPassOwnsClaim` (`ClaimIsOwned`), which are inductive only together:
single flight holds because a running pass's claim is in the daemon's document
and exactly as old as the pass, so `begin_cycle` never finds it free or stale.
`BreakerStaysTripped` (`TripIsSticky`) follows from what each mutator does to a
trip.  `ShadowIsKept` and `FloorIsKept` need `StoredInv`: until a command runs
beside a daemon, the daemon's document is the row while it is up, a command's is
the row while it is down, a stored `apply` was asked for, and the stored start
is the last pass's.  Across crashes and rewrites this is what carries the mode
and the floor from one daemon to the next.

**AdmissionProofs.**  `TypeCorrect`; `RowIsRight` (`RowNamesHolder`) and
`SingleWriter` (`OneWriterWhileListed`).  The inductive invariant adds
`HasLetGo`: a daemon whose deregistration is anywhere on the wire no longer
holds the directory.  Without it a deregistration that arrives late could clear
a holder.  Single writer then follows from the row: it names every holder, and
has one value; a daemon whose drain overran has let go of the row, which is why
the statement excepts it and nobody else.

**DeliveryProofs.**  `TypeCorrect`, `WindowIsFresh`, `FiresOnce`,
`DeliveredIsMailed`, `MailIsTakenOnce` and the refinement `Implements`
(`ImplementsDueWindows`).  The invariant has three parts:

* types, and that a pending effect has attempts left (the breaker's count is
  bounded only because it fails the effect at the limit);
* windows: an effect is fired no earlier than its due time and not in the
  future, and an armed reminder waits for a time later than anything its id ever
  fired.  The second makes `FreshWindow` and `NoBurst` inductive, and is what a
  reused id could break: arming sets the due time after now, and everything
  fired was fired by now;
* mail: what a pass believes it staged is there, and the writer's copy knows
  exactly the rows there are.  The copy is not told of drains, and need not be:
  a drain changes a row's status, never its presence, and presence is what the
  insert is decided on.

The refinement adds `StillPending`, that nothing but the pass itself decides what
becomes of the effects it carries: so the row it inserts is of a window fired and
neither delivered nor given up.  That a window is fired after all others of its id
follows from the second part: those were fired by now, each before the time the
reminder waits for, and none before its own.

**ChangeFeedProofs.**  `TypeCorrect`, `NothingIsMissed` (`NothingMissed`),
`InOrder` (`ForwardedInOrder`).  `NothingMissed` speaks of quiet states only, so
the invariant says what the others owe: a hint the agent has not acted on is
covered by the reads under way or by one that a compaction's end will make
(`Fresh`), or its read was lost, or it is *ahead of the agent*.  For a
connected agent (`StreamCovers`) ahead means in the replay, on the wire, at or
after the receiver's position, or a reorg to come; for one who will resume
(`CursorCovers`), after its cursor in this daemon's feed.  Neither is inductive without
the other: a cut turns the first into the second, a replay the second into the
first, and each step between must show that what it drops was read or is still
ahead.  The rest (`Simple`) says that a connection is behind its own daemon's
feed (`Behind`, `Gone`, `Epochs`), that frames and cursors of this life have
numbers it gave out (`UnderWay`, `CursorGiven`), that the replay comes before
the channel and above everything sent (`ReplayFirst`, from which order
follows), and that hints and reads never run ahead of commits (`Commits`).

**SessionMaintenanceProofs.**  `TypeCorrect`, `Completion`
(`CompletedIsCompacted`), `CompactsOnce` (`AttemptCompactsOnce`),
`AnchoredCompaction` (`CompactsAtAnchor`), `SpacedMints` (`MintsAreSpaced`) and
the refinement `Implements` (`ImplementsAsks`).  The three that are about
compactions rest on one thing, the anchor, and on who may still move it:

* a compaction's entry is the one after its request's anchor (`Followed`), so two
  entries of one attempt would be the same entry, and a verdict under way names
  an entry that is there (`Sent`);
* an anchor is given up only by a return, and every return that its process still
  owns has an anchor that a *turn* followed (`Sent`, `HandingBack`).  A turn and a
  compaction cannot both be the next entry, so nothing compacted is ever handed
  back, however late the return arrives;
* that the worker compacts at the leaf needs `Claiming`: from the claim's sending
  to its answer the anchor is the leaf, or a turn has made the worker notice
  (`fresh`); and `Awaited`: a living process has no call under way that could
  change its claim behind its back.

The refinement needs `OneOpen`, that of the attempts at an ask only the last may
be open: a recovery then replaces the attempt the ask stands at, and adds exactly
one, because the n-th successor is that of the n-th interrupted request (`Ranks`).
Steps are sorted by what they touch, not one by one: those of the ledger
(`Queueing`), those of the worker alone (`Settles`, `BeginsClaiming`,
`BeginsCompacting`, `HandsBack`) and those that add an entry (`Enters`).

**ActivityProofs.**  `TypeCorrect`, `ParkedStaysDown` (`ParkedIsDown`),
`NobodyParksInsideLease` (`NoParkInsideLease`), `ParkNeedsCalmOrAPark`,
`PassWithdrawsWhatItRead` (`WithdrawsOnlyWhatItRead`), `PassWaitsForHandoff`
(`HandoffIsWaitedFor`) and `ConflictIsWithinGrace` (`ConflictHasGrace`).  Most of
the work is lemmas on what each function of the code makes of one row
(`TransitionPass`, `DecisionPass`, `Reconciled`, `StructuralRow`, ...), because
a pass is their composition over everybody.  The invariant's parts:

* `RowsOK`: a row has its type, a routine pointer is exactly a forced park, and
  nobody at one is desired.  `ParkedIsDown` is the last; it needs the first two,
  since that is how the code tells such a pointer from the others;
* `CalmCounts`: what the stamps of a row say of quiet, cut by the start of the
  daemon's watch, never exceeds the time the person really was calm (the ghost
  `calm`).  So a park decided on stamps was earned, whatever was lost in a
  restart;
* `Unrouted`: without the route nothing is ever released.  With it,
  `NoParkInsideLease` fails, and `ParkNeedsCalmOrAPark` says that the one way
  around the lease is a park already applied;
* `Unread`: without hires, whoever entered the fence since the pass read it has
  the lease that keeps the publication from dropping them;
* `RestOK`, `Requester`, `RootStays`: the other types, that a request is of
  somebody on the staff, and that the root stays in its place, without which a
  structural handoff of the root could refuse passes.

**ActuatorProofs.**  `TypeCorrect`, `OneProcess` (`OneProcessEach`),
`OnlyDeathsCount` (`FailuresAreDeaths`) and `WantedIsKept` (`KeepsWanted`).  They
need to know what a plan holds, and `PlanIs` proves it for plans of any length:
the plan is joined from pieces by a fold, and the least length at which
the joined pieces went wrong cannot exist (`Flattens`, `FlattenOneEach`).  The
invariant's parts:

* `AsPlanned`: the steps left are such as were planned at the panes then
  observed; nobody is respawned twice, and whoever is still to be respawned runs
  something else than is wanted.  So a respawn never takes a process that
  runs as wanted, however long ago the plan was made;
* `Tagged`, `AtWork`: once a pass has observed, the only marked pane is the one
  it is minting, and that pane is the only one of its person that anything tells
  of.  Observing first destroys what is marked, and this is what makes
  `OnePane` inductive across crashes in the middle of a boot;
* `Remembers`: a pane the crash loop remembers is its person's while it stands,
  and their only one unless a process of theirs exited since.  Without it a
  *replaced* pane could be counted that nobody's death replaced;
* `Booted`: whoever was booted has a pane, or a process of theirs exited, or
  their boot is under way; and after a pass that failed, nothing is judged;
* `Typed`, `Resting`, `RailsStand`: the types, what a pass holds between
  passes, and that a sidebar stands in a window.

Only model-checked: the liveness properties (`ConvergeResumes`, `IdleIsParked`,
`MailIsRead`, `CompanyComesBack`, `DueIsMailed`, `DeadClaimIsRecovered`,
`Converges`), which TLAPS cannot prove under fairness.  Every safety property a
passing run checks is the subject of a theorem.

## 6. Where code and prose disagree

Shown by runs:

* **A departure is not applied after its grace** (`activity_fire`).
  `org_ops.rs:2601-2602` says it is; nobody releases the handoff, the sweep
  cancels it after two graces and the same pass opens another.
* **A person who is skipped fails the whole pass** (`actuator_skip`).
  `crash_loop.rs:57-58` and `interpret/tests.rs:2911` say that it costs one step;
  where the window stands with only its sidebar its layout has no pane, which is
  an error, and the pass takes back everybody it booted before.
* **Two daemons can write to one company** (`admission_drain`).
  `chiefd-core/src/actor/mod.rs:29-35` says admission leaves no race between
  processes; a drain that overruns its budget (`run.rs:1457`) is only logged, and
  the row is cleared beside a writer still at work.
* **A restart can hide a gap from a resuming reader** (`feed_epoch`).
  `feed.rs:57-60` says the cursor tells both kinds of gap; after a restart and as
  many new hints as the reader had seen it tells neither, and the mail hinted at
  in between waits for the next hint.

Met while modelling, by reading or in a model since made narrower:

* `SseWatcher.ts:570-571` says that after a failed read "the next event (or the
  fallback poll floor) still gets a chance to catch up", and
  `organization-intercom.ts:8534` speaks of a "60s fallback floor"; there is "no
  fallback floor" (`organization-intercom.ts:11450`).  A read that fails with the
  daemon up and the channel healthy (`Deferred`) has consumed its hint, and until
  another event an idle agent never learns of the mail it was told of.
  `NothingMissed` excepts it.
* `bootstrap.rs:306-307` says a running daemon adopts what a command wrote at its
  next pass; `refresh_safety_doc` (`converge_apply/safety.rs:92`) does nothing,
  and the daemon writes its own document back over the row.
* `org_ops.rs:3138-3140` says a hire is the decision to bring a person up, and
  `launch_intent_rows.rs:241-243` that excepting leased people closes the window
  in which a publication drops a row inserted meanwhile.  A hire inserts the row
  and stamps no lease (`org_ops.rs:3142`), so a pass that read the fence before
  it publishes without it: the hire stays down.
* `activity.rs:3035-3039` says a terminal park is never a fresh candidate, and
  `activity/rows.rs:605-607` that a start is the new baseline of quiet.  A park
  released by the lifecycle route and applied by a pass is not cleared by a later
  start (`activity/rows.rs:1255`, only routine ones are); the next pass takes it for
  one that exists (`activity.rs:3179`) and parks the person just started.
* `activity.rs:3373-3374` says nothing promotes a person without an intent; the
  pass enforces the fence it read before its transaction (`cycle.rs:2128`), so a
  stop in between is undone.
* `remove.rs:53-58` says a removal stops the daemon first; `remove.rs:194` finds
  it by the rendezvous file, which a daemon still booting has not written.
* `src/packages/piing/extensions/organization-intercom.ts:11859` says the code must "never invoke compact
  twice"; a claim the duty recovers (`run.rs:443`) from a process that only
  looked dead is carried out again as the next attempt.  An *attempt* compacts
  once, an ask perhaps twice.  `chiefd-core/src/actor/session_lifecycle.rs:206` says
  the ledger "permits only one unresolved request per person"; a dead process's `start` still on its way
  when another has begun makes two, and recovery takes both for dead.
* The crash loop counts a boot that is absent at the next observation, or a pane
  that was replaced; a process that lives past one observation and exits before
  the next is neither, and is started again with no delay, for ever.  One that
  exits before its tags are written fails the whole pass and is not counted.
* `plan.rs` says the pane left untagged by a departed person is killed in the
  pass that removes them; `kill_pane` verifies an identity the pane does not
  carry (`exec.rs:581-590`) and always errors, so each later pass fails there and
  undoes its boots.  A step deferred because the operator watches a window fails
  a later one the same way.
* Without a session, a first person who is declined means that nobody creates
  one: the boots after it fail.
* An actuator that dies between a new window and its marker leaves a process that
  nothing tells of, beside the one the next pass boots; one that dies between
  `respawn-pane` and the hash leaves a tag older than what runs, and the next
  pass restarts it once more.
* A dial without a cursor is never a gap (`feed.rs:241`), though the ring may
  have lost hints, or the daemon been restarted; a hint is lost when the caller
  of a committed row write goes away before it is published, which
  `writer.rs` ("This closes that gap") means to exclude; a sink is called before
  the snapshot it announces is stored.
* The writer queue's `AgingPolicy` admits "one lower-priority op"; `take_next`
  admits every lower job that has aged, back to back, before it looks at the
  upper class again.
* `run.rs:1627` says an aborted pass "simply replays idempotently next boot"; its
  claim refuses every pass until it is stale.  `run.rs:3271` says a failed boot
  write means shadow "this boot"; the first pass stores that default, and later
  boots keep it as if the operator had chosen it.  `converge_safety.rs:452` speaks of a trail that
  `operator_clear_breaker` does not keep.
* `ORGANIZATION_ARCHITECTURE.md:676-686` lets a routine park await its handoff
  before it is forced; the code creates it forced, after a lease of 300 s.
  Comments in `activity.rs` give the lease as sixty seconds and two minutes.
* `converge_intent::abort_open` is "Called once at daemon startup" and has no
  caller.
* `delivery.rs:173-177` says the reopening of failed effects "is never called
  from a restart or resume path"; `resume_supervised_runtime`
  (`runtime_lifecycle.rs:1389`) calls it.
* `supervision.rs:1395` says a departed person's reminders go with them or the
  ledger would not validate; departed people stay in the manifest and their
  reminders go at the next supervision mutation, so a person rehired before one
  keeps them.
* `reminders.rs` retires an expired reminder so that no row "renders as armed
  forever"; the duty's pre-read (`run.rs:895-903`) looks for armed rows only, so
  with nothing else due an expired row stays active.
* `next_reminder_id` says ids are not reused; shedding frees them
  (`FreshWindow` shows that no effect collides).
* A departing daemon removes the rendezvous file whoever's it is
  (`run.rs:3564`); a daemon published meanwhile serves unfound.
  `daemon::stop` escalates to the pid a stale file names.

## 7. Plan

The modules follow the importance of what they guard: one reconcile at a time
(`ConvergeSafety`), who may run (`Activity`), one writer per company
(`Admission`), mail (`Delivery`, `ChangeFeed`), the sessions of those who run
(`SessionMaintenance`) and the panes they run in (`Actuator`).  They are written,
and the safety of each is proved.  What is left, and within reach of the same means:

* The writer's queue: two classes, ageing and deadlines; that no job is both run
  and expired, over an abstract serial writer, which the atomic actions of the
  other modules rest on.
* Runtime ownership: a takeover decided on an observation of tmux older than the
  record it replaces, composed with the actuator's crashes.
* The department verbs and the forced removals of paused departments, as requests
  of `Activity`.
* Composition of `Activity`'s published set with `Actuator`'s wish.

## 8. Not modelled

* *Presentation and I/O*: panes, sidebar, web, logs, host primitives, the
  TypeScript packages beyond what `SessionMaintenance` and `ChangeFeed` take from
  them.  They keep no state of a company.
* *Pure data*: manifest validation, projections, rendering, signatures.  Unit
  tests reach them well and nothing interleaves.
* *Code without callers*: the mutation journal and the host transactions have
  tests and no production path; a model of them would say nothing of Chief.
* *Department verbs, heads, contracts*: single-transaction edits of a tree;
  `Activity` models the person verbs as far as they touch the reconcile.
* *Health, escalation, watermark*: written and reported, read back by nothing
  the models speak of.
* *The writer's queue and runtime ownership*: see the plan; the hazards they
  bear are listed without a property.
