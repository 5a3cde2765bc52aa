------------------------------ MODULE Admission ------------------------------
(***************************************************************************)
(* One company directory, the daemons started for it and the commands run  *)
(* in it.  A daemon reserves a listener, asks beacond for admission (one   *)
(* conditional update of the company's row), opens the company's database, *)
(* publishes its rendezvous file and serves; on the way out it clears the  *)
(* row and removes the file.  A command finds the daemon by the file alone,*)
(* starts one when it finds none, and stops, removes or creates the        *)
(* company.                                                                *)
(*                                                                         *)
(* A daemon is named by its pid.  A call to beacond stays in flight after  *)
(* its caller timed out or died, and is still answered, or is lost; a pid  *)
(* is given to another daemon once no call of its last owner is in flight. *)
(* A drain that overruns its budget is abandoned: the daemon goes on to    *)
(* clear its row and remove its file with the writer's thread still at     *)
(* work, and only its exit ends that.  A client's own calls to beacond are *)
(* taken to be answered at once or not made.  Heartbeats are left out: they*)
(* write last_seen_at alone, which no decision reads.                      *)
(***************************************************************************)
EXTENDS Naturals

CONSTANTS
    Pids,           \* the pids a daemon or a stranger can have
    Clients,        \* the commands that can run at the same time
    NoPid,          \* the rendezvous file is absent
    NoRow, Vacant,  \* the registry has no row; a row without a location
    Verbs,          \* the requests and faults this instance is exposed to
    MaxRequests     \* bound: how many of them

AllVerbs == {"stop", "rm", "genesis", "lose-row", "kill", "fatal", "fail",
             "slow", "beacond-down", "recycle", "vanish", "timeout", "stuck",
             "stale"}

ASSUME NamesAssumption ==
    /\ NoPid \notin Pids
    /\ Vacant \notin Pids
    /\ NoRow \notin Pids \cup {Vacant}
ASSUME BoundsAssumption == MaxRequests \in Nat

VARIABLES
    row,        \* beacond's row of this directory: absent, vacant, or a pid
    database,   \* does .chief/db/chief.db exist?
    rendezvous, \* the pid that .chief/run/daemon.json names
    daemon,     \* per pid: what the process is doing
    calls,      \* per pid: its calls that beacond has yet to handle
    answer,     \* per pid: beacond's answer to the call it waits for
    client,     \* per command: where it stands, and the pid it deals with
    requests,   \* how many requests and faults happened (bounded)
    torn        \* ghost: a row was withdrawn from under a daemon that held it

vars == <<row, database, rendezvous, daemon, calls, answer, client, requests,
          torn>>

-----------------------------------------------------------------------------
(* The processes *)

Stages == {"none", "foreign", "registering", "creating", "retrying",
           "admitted", "open", "serving", "closing", "leaving", "departing",
           "withdrawing", "leaving-busy", "departing-busy", "exiting-busy"}

\* kill(pid, 0) finds a process, whoever it is.
pid_is_live(p) == daemon[p] # "none"

IsDaemon(p) == daemon[p] \notin {"none", "foreign"}

\* Daemons that have the company's database open and answer for it.
Writers == {p \in Pids : daemon[p] \in {"open", "serving", "closing"}}

\* Daemons on their way out whose writer did not finish in its budget.
Abandoned ==
    {p \in Pids : daemon[p] \in {"leaving-busy", "departing-busy", "exiting-busy"}}

Writing == Writers \cup Abandoned

Registering == {"registering", "retrying"}

\* The row is being cleared, after the drain or beside a writer still at work.
Leaving == {"leaving", "leaving-busy"}

\* A daemon holds the row from beacond's answer until it asks to be cleared.
Holders == Writers \cup
    {p \in Pids : daemon[p] = "admitted"
                  \/ (daemon[p] \in Registering /\ answer[p] = "admitted")}

Spend(verb) ==
    /\ verb \in Verbs /\ requests < MaxRequests
    /\ requests' = requests + 1

-----------------------------------------------------------------------------
(* beacond: one transaction per call, one call at a time *)

\* What the caller is told, if it still waits to hear it.
Told(p, stages, what) ==
    IF daemon[p] \in stages THEN [answer EXCEPT ![p] = what] ELSE answer

\* Mutant: whether a recorded incumbent still runs is never asked.
occupiedByTheDead(p) == row \in Pids \ {p}

Occupied(p) == row \in Pids \ {p} /\ pid_is_live(row)

register(p) ==
    /\ "register" \in calls[p]
    /\ calls' = [calls EXCEPT ![p] = @ \ {"register"}]
    /\ \/ /\ row = NoRow
          /\ answer' = Told(p, Registering, "unknown")
          /\ UNCHANGED row
       \/ /\ Occupied(p)
          /\ answer' = Told(p, Registering, "occupied")
          /\ UNCHANGED row
       \/ /\ row # NoRow /\ ~Occupied(p)
          /\ answer' = Told(p, Registering, "admitted")
          /\ row' = p
    /\ UNCHANGED <<database, rendezvous, daemon, client, requests, torn>>

\* An upsert: a row that exists keeps its location.
upserted == IF row = NoRow THEN Vacant ELSE row

create(p) ==
    /\ "create" \in calls[p]
    /\ calls' = [calls EXCEPT ![p] = @ \ {"create"}]
    /\ row' = upserted
    /\ answer' = Told(p, {"creating"}, "done")
    /\ UNCHANGED <<database, rendezvous, daemon, client, requests, torn>>

\* Mutant: a deregistration clears whatever location is recorded.
clearedUnfenced(p) == IF row = NoRow THEN row ELSE Vacant

\* Mutant: the location is recorded as nobody's, which is no location at all.
clearedToNobody(p) == IF row = p THEN NoPid ELSE row

\* Pid-fenced: another process's location is refused, not cleared.
cleared(p) == IF row = p THEN Vacant ELSE row

deregister(p) ==
    /\ "deregister" \in calls[p]
    /\ calls' = [calls EXCEPT ![p] = @ \ {"deregister"}]
    /\ row' = cleared(p)
    /\ answer' = Told(p, Leaving \cup {"withdrawing"}, "done")
    /\ UNCHANGED <<database, rendezvous, daemon, client, requests, torn>>

\* beacond is down, or restarts: a call is lost and nobody answers it.
DropCall(p) ==
    /\ Spend("beacond-down")
    /\ \E op \in calls[p] : calls' = [calls EXCEPT ![p] = @ \ {op}]
    /\ UNCHANGED <<row, database, rendezvous, daemon, answer, client, torn>>

\* The registry loses the row, whoever it names.
Withdraw ==
    /\ row' = NoRow
    /\ torn' = (torn \/ Holders # {})

LoseRow ==
    /\ Spend("lose-row")
    /\ row # NoRow
    /\ Withdraw
    /\ UNCHANGED <<database, rendezvous, daemon, calls, answer, client>>

-----------------------------------------------------------------------------
(* The daemon *)

\* The daemon calls beacond and waits in this stage.
Call(p, op, stage) ==
    /\ calls' = [calls EXCEPT ![p] = @ \cup {op}]
    /\ answer' = [answer EXCEPT ![p] = "none"]
    /\ daemon' = [daemon EXCEPT ![p] = stage]

Becomes(p, stage) == daemon' = [daemon EXCEPT ![p] = stage]

Admitted(p) ==
    /\ daemon[p] \in Registering /\ answer[p] = "admitted"
    /\ Becomes(p, "admitted")
    /\ UNCHANGED <<row, database, rendezvous, calls, answer, client, requests,
                   torn>>

\* A live incumbent, or no row and no right to restore it.
Refused(p) ==
    /\ daemon[p] \in Registering
    /\ \/ answer[p] = "occupied"
       \/ answer[p] = "unknown" /\ (daemon[p] = "retrying" \/ ~database)
    /\ Becomes(p, "none")
    /\ UNCHANGED <<row, database, rendezvous, calls, answer, client, requests,
                   torn>>

\* Once per boot, a directory that holds the database restores its own row.
SelfRegister(p) ==
    /\ daemon[p] = "registering" /\ answer[p] = "unknown" /\ database
    /\ Call(p, "create", "creating")
    /\ UNCHANGED <<row, database, rendezvous, client, requests, torn>>

Retry(p) ==
    /\ daemon[p] = "creating" /\ answer[p] = "done"
    /\ Call(p, "register", "retrying")
    /\ UNCHANGED <<row, database, rendezvous, client, requests, torn>>

\* Opening the company's storage creates the database if it is not there.
Open(p) ==
    /\ daemon[p] = "admitted"
    /\ Becomes(p, "open")
    /\ database' = TRUE
    /\ UNCHANGED <<row, rendezvous, calls, answer, client, requests, torn>>

Publish(p) ==
    /\ daemon[p] = "open"
    /\ Becomes(p, "serving")
    /\ rendezvous' = p
    /\ UNCHANGED <<row, database, calls, answer, client, requests, torn>>

\* Startup fails after the admission.  The storage is shut down before the row
\* is cleared, or (two early failures) is left open with nobody to use it.
StartupFails(p) ==
    /\ Spend("fail")
    /\ daemon[p] \in {"admitted", "open"}
    /\ Call(p, "deregister", "withdrawing")
    /\ UNCHANGED <<row, database, rendezvous, client, torn>>

\* Another daemon took the runtime over.
FatalHandoff(p) ==
    /\ Spend("fatal")
    /\ daemon[p] = "serving"
    /\ Becomes(p, "closing")
    /\ UNCHANGED <<row, database, rendezvous, calls, answer, client, torn>>

\* Mutant: the location is cleared when the shutdown starts.
closesAfterwards(p) ==
    /\ daemon[p] = "closing" /\ "deregister" \notin calls[p]
    /\ calls' = [calls EXCEPT ![p] = @ \cup {"deregister"}]
    /\ UNCHANGED <<row, database, rendezvous, daemon, answer, client, requests,
                   torn>>

\* The duties, the listener and the writer are down: now the row is cleared.
Drained(p) ==
    /\ daemon[p] = "closing"
    /\ Call(p, "deregister", "leaving")
    /\ UNCHANGED <<row, database, rendezvous, client, requests, torn>>

\* The writer overran its budget: a warning, and the departure goes on.
DrainTimesOut(p) ==
    /\ Spend("stuck")
    /\ daemon[p] = "closing"
    /\ Call(p, "deregister", "leaving-busy")
    /\ UNCHANGED <<row, database, rendezvous, client, torn>>

\* An abandoned writer reaches the end of its queue before the process exits.
WriterEnds(p) ==
    /\ \/ daemon[p] = "leaving-busy" /\ Becomes(p, "leaving")
       \/ daemon[p] = "departing-busy" /\ Becomes(p, "departing")
    /\ UNCHANGED <<row, database, rendezvous, calls, answer, client, requests,
                   torn>>

\* A departure still has the file to remove; a boot has nothing left to undo.
Afterwards(p) ==
    IF daemon[p] = "leaving" THEN "departing"
    ELSE IF daemon[p] = "leaving-busy" THEN "departing-busy"
    ELSE "none"

Deregistered(p) ==
    /\ daemon[p] \in Leaving \cup {"withdrawing"} /\ answer[p] = "done"
    /\ Becomes(p, Afterwards(p))
    /\ UNCHANGED <<row, database, rendezvous, calls, answer, client, requests,
                   torn>>

\* The file is removed, whichever daemon it names by now.
Unpublish(p) ==
    /\ \/ daemon[p] = "departing" /\ Becomes(p, "none")
       \/ daemon[p] = "departing-busy" /\ Becomes(p, "exiting-busy")
    /\ rendezvous' = NoPid
    /\ UNCHANGED <<row, database, calls, answer, client, requests, torn>>

\* The runtime waits a moment for the abandoned writer, and the process exits.
Exited(p) ==
    /\ daemon[p] = "exiting-busy"
    /\ Becomes(p, "none")
    /\ UNCHANGED <<row, database, rendezvous, calls, answer, client, requests,
                   torn>>

\* No answer: a boot is refused, a departure goes on without one.
Unheard(p) ==
    /\ daemon[p] \in Registering \cup Leaving \cup {"creating", "withdrawing"}
    /\ answer[p] = "none"
    /\ Becomes(p, Afterwards(p))
    /\ UNCHANGED <<row, database, rendezvous, calls, answer, client, torn>>

CallLost(p) == calls[p] = {} /\ UNCHANGED requests /\ Unheard(p)

\* beacond answers after the caller's timeout.
CallTimesOut(p) == calls[p] # {} /\ Spend("slow") /\ Unheard(p)

Killed(p) ==
    /\ Spend("kill")
    /\ IsDaemon(p)
    /\ Becomes(p, "none")
    /\ UNCHANGED <<row, database, rendezvous, calls, answer, client, torn>>

-----------------------------------------------------------------------------
(* Other programs: a dead daemon's pid is given to one of them *)

Recycled(p) ==
    /\ Spend("recycle")
    /\ ~pid_is_live(p)
    /\ \A c \in Clients : ~(client[c].pc = "wait" /\ client[c].pid = p)
    /\ Becomes(p, "foreign")
    /\ UNCHANGED <<row, database, rendezvous, calls, answer, client, torn>>

StrangerExits(p) ==
    /\ daemon[p] = "foreign"
    /\ Becomes(p, "none")
    /\ UNCHANGED <<row, database, rendezvous, calls, answer, client, requests,
                   torn>>

-----------------------------------------------------------------------------
(* The commands *)

Client == [pc   : {"idle", "await", "start", "spawn", "wait", "delete", "unlist"},
           pid  : Pids \cup {NoPid},
           next : {"idle", "start", "spawn", "delete"}]

Idle == [pc |-> "idle", pid |-> NoPid, next |-> "idle"]

Waits(c, to, p, next) ==
    client' = [client EXCEPT ![c] = [pc |-> to, pid |-> p, next |-> next]]

Goes(c, to) == Waits(c, to, NoPid, "idle")

\* observe: the file names a process that is alive, and it proves to be this
\* company's daemon.
Published == rendezvous \in Pids /\ pid_is_live(rendezvous)
Healthy   == Published /\ daemon[rendezvous] = "serving"

\* daemon::stop: the published daemon is asked to exit and waited for, then the
\* command goes on.
StopDaemon(c, next) ==
    IF Published
    THEN /\ Waits(c, "await", rendezvous, next)
         /\ IF Healthy THEN Becomes(rendezvous, "closing") ELSE UNCHANGED daemon
    ELSE Goes(c, next) /\ UNCHANGED daemon

\* attach: a daemon that answers is adopted, one that does not is stopped
\* first, and with none published one is started.
Attach(c) ==
    /\ client[c].pc = "idle" /\ database /\ ~Healthy
    /\ StopDaemon(c, "start")
    /\ UNCHANGED <<row, database, rendezvous, calls, answer, requests, torn>>

Stop(c) ==
    /\ Spend("stop")
    /\ client[c].pc = "idle" /\ database /\ Published
    /\ StopDaemon(c, "idle")
    /\ UNCHANGED <<row, database, rendezvous, calls, answer, torn>>

Remove(c) ==
    /\ Spend("rm")
    /\ client[c].pc = "idle" /\ database
    /\ StopDaemon(c, "delete")
    /\ UNCHANGED <<row, database, rendezvous, calls, answer, torn>>

\* A new company: its row is created first, then a daemon is started.
Genesis(c) ==
    /\ Spend("genesis")
    /\ client[c].pc = "idle" /\ ~database
    /\ row' = upserted
    /\ Goes(c, "start")
    /\ UNCHANGED <<database, rendezvous, daemon, calls, answer, torn>>

Gone(c) ==
    /\ client[c].pc = "await" /\ ~pid_is_live(client[c].pid)
    /\ Goes(c, client[c].next)
    /\ UNCHANGED <<row, database, rendezvous, daemon, calls, answer, requests,
                   torn>>

\* The budget is spent: the pid is killed, whoever has it.
Escalate(c) ==
    /\ client[c].pc = "await" /\ pid_is_live(client[c].pid)
    /\ Becomes(client[c].pid, "none")
    /\ Goes(c, client[c].next)
    /\ UNCHANGED <<row, database, rendezvous, calls, answer, requests, torn>>

\* daemon::start: adopt or refuse what is published, otherwise spawn.
Start(c) ==
    /\ client[c].pc = "start"
    /\ Goes(c, IF Published THEN "idle" ELSE "spawn")
    /\ UNCHANGED <<row, database, rendezvous, daemon, calls, answer, requests,
                   torn>>

\* A healthy daemon that is not the installed build: stopped, and replaced.
StaleBuild(c) ==
    /\ Spend("stale")
    /\ client[c].pc \in {"idle", "start"} /\ database /\ Healthy
    /\ StopDaemon(c, "spawn")
    /\ UNCHANGED <<row, database, rendezvous, calls, answer, torn>>

Spawn(c) ==
    /\ client[c].pc = "spawn"
    /\ \E p \in Pids :
          /\ ~pid_is_live(p) /\ calls[p] = {}
          /\ Call(p, "register", "registering")
          /\ Waits(c, "wait", p, "idle")
    /\ UNCHANGED <<row, database, rendezvous, requests, torn>>

\* The child exited, or published itself and answers.
Started(c) ==
    /\ client[c].pc = "wait"
    /\ \/ ~pid_is_live(client[c].pid)
       \/ rendezvous = client[c].pid /\ Healthy
    /\ Goes(c, "idle")
    /\ UNCHANGED <<row, database, rendezvous, daemon, calls, answer, requests,
                   torn>>

\* Before a daemon serves, nothing in it catches the signal.
Signalled(p) ==
    IF daemon[p] = "serving" THEN "closing"
    ELSE IF daemon[p] \in {"closing", "leaving", "departing"}
            \/ p \in Abandoned THEN daemon[p]
    ELSE "none"

\* The child is asked to exit.
StartTimesOut(c) ==
    LET p == client[c].pid IN
    /\ Spend("timeout")
    /\ client[c].pc = "wait" /\ pid_is_live(p)
    /\ Becomes(p, Signalled(p))
    /\ Waits(c, "await", p, "idle")
    /\ UNCHANGED <<row, database, rendezvous, calls, answer, torn>>

\* The .chief directory goes, the file in it included; the row goes last.
Delete(c) ==
    /\ client[c].pc = "delete"
    /\ database' = FALSE
    /\ rendezvous' = NoPid
    /\ Goes(c, "unlist")
    /\ UNCHANGED <<row, daemon, calls, answer, requests, torn>>

Unlist(c) ==
    /\ client[c].pc = "unlist"
    /\ Withdraw
    /\ Goes(c, "idle")
    /\ UNCHANGED <<database, rendezvous, daemon, calls, answer, requests>>

\* The command is interrupted; what it started goes on.
Vanish(c) ==
    /\ Spend("vanish")
    /\ client[c].pc # "idle"
    /\ Goes(c, "idle")
    /\ UNCHANGED <<row, database, rendezvous, daemon, calls, answer, torn>>

-----------------------------------------------------------------------------
\* A company that was created, and whose daemon is down.
Init ==
    /\ row = Vacant
    /\ database = TRUE
    /\ rendezvous = NoPid
    /\ daemon = [p \in Pids |-> "none"]
    /\ calls = [p \in Pids |-> {}]
    /\ answer = [p \in Pids |-> "none"]
    /\ client = [c \in Clients |-> Idle]
    /\ requests = 0
    /\ torn = FALSE

Beacond(p) == register(p) \/ create(p) \/ deregister(p)

DaemonStep(p) ==
    \/ Admitted(p) \/ Refused(p) \/ SelfRegister(p) \/ Retry(p) \/ Open(p)
    \/ Publish(p) \/ Drained(p) \/ Deregistered(p) \/ Unpublish(p)
    \/ Exited(p) \/ CallLost(p)

ClientStep(c) ==
    \/ Gone(c) \/ Escalate(c) \/ Start(c) \/ Spawn(c) \/ Started(c)
    \/ Delete(c) \/ Unlist(c)

Fault ==
    \/ LoseRow
    \/ \E p \in Pids : DropCall(p) \/ StartupFails(p) \/ FatalHandoff(p)
                       \/ DrainTimesOut(p) \/ CallTimesOut(p) \/ Killed(p)
                       \/ Recycled(p)
    \/ \E c \in Clients : StartTimesOut(c) \/ Vanish(c)

Next ==
    \/ \E p \in Pids : Beacond(p) \/ DaemonStep(p) \/ WriterEnds(p)
                       \/ StrangerExits(p)
    \/ \E c \in Clients : ClientStep(c) \/ Attach(c) \/ Stop(c) \/ Remove(c)
                          \/ Genesis(c) \/ StaleBuild(c)
    \/ Fault

Spec == Init /\ [][Next]_vars

\* beacond and the daemons run, commands go on, somebody keeps attaching, and a
\* stranger does not keep a daemon's pid for ever (the gap the registry accepts).
Fairness ==
    /\ \A p \in Pids : WF_vars(Beacond(p)) /\ WF_vars(DaemonStep(p))
                       /\ WF_vars(StrangerExits(p))
    /\ \A c \in Clients : WF_vars(ClientStep(c)) /\ WF_vars(Attach(c))

FairSpec == Spec /\ Fairness

-----------------------------------------------------------------------------
(* Properties *)

\* The row, the file and every process stay in states the code can decode.
TypeOK ==
    /\ row \in Pids \cup {NoRow, Vacant}
    /\ database \in BOOLEAN
    /\ rendezvous \in Pids \cup {NoPid}
    /\ daemon \in [Pids -> Stages]
    /\ calls \in [Pids -> SUBSET {"register", "create", "deregister"}]
    /\ answer \in [Pids -> {"none", "admitted", "occupied", "unknown", "done"}]
    /\ client \in [Clients -> Client]
    /\ requests \in 0..MaxRequests
    /\ torn \in BOOLEAN

\* Admission makes one daemon the single writer of the company's database: two
\* of them never have it open at the same time.
OneWriter == \A p, q \in Writing : p = q

\* As long as no row is withdrawn from under the daemon that holds it, whoever
\* writes beside another daemon is on its way out, with a drain that overran
\* its budget.  No boot, departure, late call or takeover gives the company two
\* daemons that both answer for its database.
OneWriterWhileListed ==
    ~torn => \A p, q \in Writing : p = q \/ {p, q} \cap Abandoned # {}

\* The row names the daemon that holds it: no late, lost or foreign call, no
\* takeover and no second creation moves a location off a running daemon.
RowNamesHolder == ~torn => \A p \in Holders : row = p

\* No location that a crash, a lost call or a removal left behind keeps a
\* company down whose commands go on trying.
CompanyComesBack == <>[]database => []<>(\E p \in Pids : daemon[p] = "serving")

=============================================================================
