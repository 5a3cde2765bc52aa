------------------------- MODULE SessionMaintenance -------------------------
(***************************************************************************)
(* Session maintenance of one person: the company's ledger of requests to   *)
(* compact a session (store/session_maintenance_ops.rs), the Pi process     *)
(* that carries them out (piing/extensions/organization-intercom.ts), and   *)
(* the daemon's duty that takes over for a process that died (run.rs).      *)
(*                                                                          *)
(* A verb is one transaction of the writer, which commits the calls in the  *)
(* order it received them; a call may be lost, and may outlive its caller.  *)
(* The session's transcript is a log: a compaction is proved by the entry   *)
(* that follows the leaf its claim was anchored at.                         *)
(***************************************************************************)
EXTENDS Integers, Sequences, FiniteSets, FiniteSetsExt

CONSTANTS
    MaxAttempts,   \* SESSION_MAINTENANCE_MAX_ATTEMPTS
    Window,        \* MAINTENANCE_REPLAY_WINDOW_MS, in ticks
    MaxTime,       \* bounds: the clock,
    MaxProcs,      \* the processes the pane runs, one after the other,
    MaxRecords,    \* the requests an operator asks for,
    MaxEntries,    \* the entries of the transcript,
    MaxCalls       \* and the calls in flight

ASSUME ConstantsAssumption ==
    /\ {MaxAttempts, MaxProcs} \subseteq Nat \ {0}
    /\ {Window, MaxTime, MaxRecords, MaxEntries, MaxCalls} \subseteq Nat

VARIABLES
    requests,   \* the ledger, oldest first; a request's id is its position
    employed,   \* whether the manifest still employs the person
    proc,       \* the pane's process, by number; its pid and claim token
    worker,     \* where the extension's maintenance stands in that process
    calls,      \* verbs on their way to the writer
    log,        \* the transcripts' entries: 0 a turn, r a compaction for r
    session,    \* the Pi session open now, by the process that began it
    duty        \* the dead claims the supervision duty has read

vars == <<requests, employed, proc, worker, calls, log, session, duty>>

Statuses == {"queued", "running", "completed", "failed", "skipped"}
NoAnchor == [session |-> 0, leaf |-> 0]
Anchors == [session : 0..MaxProcs, leaf : 0..MaxEntries]

Request == [force : BOOLEAN, status : Statuses, at : 0..MaxTime,
            attempt : 1..MaxAttempts,
            ask : Nat,              \* the request this one is an attempt at
            claim : 0..MaxProcs,    \* the claim triple; 0 for none
            anchor : Anchors, entry : 0..MaxEntries]

is_open(q) == q.status \in {"queued", "running"}

new_request(force, at, attempt, ask) ==
    [force |-> force, status |-> "queued", at |-> at, attempt |-> attempt,
     ask |-> ask, claim |-> 0, anchor |-> NoAnchor, entry |-> 0]

-----------------------------------------------------------------------------
(* The ledger's verbs *)

\* Runs at the end of every verb: a leaver's open requests are closed.
reconcile_people(rs) ==
    [i \in DOMAIN rs |-> IF is_open(rs[i]) /\ ~employed
                         THEN [rs[i] EXCEPT !.status = "skipped"] ELSE rs[i]]

\* Requests minted by the same ask: a recovery's successors have ids of their own.
family(rs, force) == {i \in DOMAIN rs : rs[i].ask = i /\ rs[i].force = force}

\* Mutant: a replay at the window's end is not absorbed.
absorbsShort(rs, force, at) ==
    \/ \E i \in DOMAIN rs : is_open(rs[i]) /\ rs[i].force = force
    \/ /\ family(rs, force) # {}
       /\ at - rs[Max(family(rs, force))].at < Window

\* An open request is reused, a recent one answers a replay.
absorbs(rs, force, at) ==
    \/ \E i \in DOMAIN rs : is_open(rs[i]) /\ rs[i].force = force
    \/ /\ family(rs, force) # {}
       /\ at - rs[Max(family(rs, force))].at <= Window

queue(rs, force, at) ==
    IF absorbs(rs, force, at) THEN rs
    ELSE Append(rs, new_request(force, at, 1, Len(rs) + 1))

owns(c, q) == q.status = "running" /\ q.claim = c.by

\* Mutant: the claim does not pin its anchor.
startsUnanchored(rs, c) ==
    IF rs[c.req].status = "queued"
    THEN [rs EXCEPT ![c.req].status = "running", ![c.req].claim = c.by] ELSE rs

\* A request that is no longer queued is nothing to claim.
start(rs, c) ==
    IF rs[c.req].status = "queued"
    THEN [rs EXCEPT ![c.req].status = "running", ![c.req].claim = c.by,
                    ![c.req].anchor = c.anchor]
    ELSE rs

defer(rs, c) ==
    IF owns(c, rs[c.req])
    THEN [rs EXCEPT ![c.req].status = "queued", ![c.req].claim = 0,
                    ![c.req].anchor = NoAnchor]
    ELSE rs

\* Mutant: a closed request is closed again.
finishesAgain(rs, c) ==
    IF c.entry # 0 => rs[c.req].anchor # NoAnchor
    THEN [rs EXCEPT ![c.req].status = c.outcome, ![c.req].entry = c.entry]
    ELSE rs

\* Whoever closes it: an anchored completion names the entry that proves it.
finish(rs, c) ==
    IF /\ is_open(rs[c.req])
       /\ c.outcome = "completed" <=> c.entry # 0
       /\ c.entry # 0 => rs[c.req].anchor # NoAnchor
    THEN [rs EXCEPT ![c.req].status = c.outcome, ![c.req].entry = c.entry]
    ELSE rs

\* Mutant: an attempt that was the last one is not failed.
sparesTheLastAttempt(rs, by) ==
    {i \in DOMAIN rs : /\ rs[i].status = "running" /\ rs[i].claim # by
                       /\ rs[i].attempt < MaxAttempts}

interrupted(rs, by) ==
    {i \in DOMAIN rs : rs[i].status = "running" /\ rs[i].claim # by}

\* Those of them that attempts remain for.
again(rs, by) == {i \in interrupted(rs, by) : rs[i].attempt < MaxAttempts}

\* The n-th smallest of a set of positions.
nth(S, n) == CHOOSE i \in S : Cardinality({k \in S : k <= i}) = n

\* The next attempt, which does not inherit the force; when it was minted is
\* asked nowhere, so it keeps the time of the ask.
successor(q) == new_request(FALSE, q.at, q.attempt + 1, q.ask)

failed(rs, dead) == [i \in DOMAIN rs |-> IF i \in dead
                                         THEN [rs[i] EXCEPT !.status = "failed"]
                                         ELSE rs[i]]

\* Mutant: recovery has no ceiling.
recoversForever(rs, by) ==
    LET dead == interrupted(rs, by)
    IN failed(rs, dead) \o [n \in 1..Cardinality(dead) |-> successor(rs[nth(dead, n)])]

\* Every running request of the person that another process claimed has
\* failed; each gets one successor while attempts remain.
recover_interrupted(rs, by) ==
    LET retried == again(rs, by)
    IN failed(rs, interrupted(rs, by))
       \o [n \in 1..Cardinality(retried) |-> successor(rs[nth(retried, n)])]

\* The verb does, or has done, what it is called for.
accepts(rs, c) ==
    LET q == rs[c.req] IN
    CASE c.verb = "start"   -> q.status = "queued"
      [] c.verb = "defer"   -> owns(c, q) \/ q.status = "queued"
      [] c.verb = "finish"  -> \/ finish(rs, c) # rs
                               \/ ~is_open(q) /\ c.entry \in {0, q.entry}
      [] c.verb = "recover" -> TRUE

applied(rs, c) ==
    CASE c.verb = "start"   -> start(rs, c)
      [] c.verb = "defer"   -> defer(rs, c)
      [] c.verb = "finish"  -> finish(rs, c)
      [] c.verb = "recover" -> recover_interrupted(rs, c.by)

-----------------------------------------------------------------------------
(* The calls *)

Call == [verb : {"start", "defer", "finish", "recover"}, by : 1..MaxProcs,
         req : Nat, anchor : Anchors, outcome : Statuses, entry : 0..MaxEntries]

call(verb, r) == [verb |-> verb, by |-> proc, req |-> r, anchor |-> NoAnchor,
                  outcome |-> "failed", entry |-> 0]

Post(c) == Len(calls) < MaxCalls /\ calls' = Append(calls, c)

\* The verbs a running handler of the extension waits for the answer of.
awaited == [claiming |-> "start", returning |-> "defer", receipt |-> "finish",
            recover |-> "recover"]

waited_for(c) ==
    /\ worker.at \in DOMAIN awaited /\ awaited[worker.at] = c.verb
    /\ c.by = proc

\* The client waits longer than the writer may hold a call back: an answer is
\* known, or lost, only when the call is no longer in flight.
answered == \A k \in DOMAIN calls : ~waited_for(calls[k])

\* The writer commits the oldest call, and its caller may be told. A refusal
\* leaves the ledger alone; a claim that finds nothing is not one.
Commit ==
    /\ calls # <<>>
    /\ LET c == Head(calls) IN
       /\ requests' = IF c.verb = "start" \/ accepts(requests, c)
                      THEN reconcile_people(applied(requests, c)) ELSE requests
       /\ worker' = IF waited_for(c)
                    THEN [worker EXCEPT !.told = accepts(requests, c)] ELSE worker
    /\ calls' = Tail(calls)
    /\ UNCHANGED <<employed, proc, log, session, duty>>

\* The writer is busy or the daemon goes away before the call is committed.
Lose ==
    /\ calls # <<>>
    /\ calls' = Tail(calls)
    /\ UNCHANGED <<requests, employed, proc, worker, log, session, duty>>

-----------------------------------------------------------------------------
(* The extension of the person's Pi process *)

Worker == [at : {"down", "boot", "receipt", "recover", "unready", "ready",
                 "claiming", "compacting", "deferring", "returning"},
           req : Nat, fresh : BOOLEAN, told : BOOLEAN]

goes(at, r) == worker' = [at |-> at, req |-> r, fresh |-> TRUE, told |-> FALSE]

alive == worker.at # "down"

\* Where the transcript of the session stands: what a claim is anchored at.
leaf == [session |-> session, leaf |-> Len(log)]

\* Mutant: any entry after the anchor proves the compaction.
anyEntryProves(a) ==
    IF a = NoAnchor \/ Len(log) = a.leaf THEN "absent" ELSE "proven"

\* nativeCompactionProof: is the entry after the anchor the compaction?
proof(a) ==
    CASE a = NoAnchor -> "absent"
      [] a # NoAnchor /\ a.session # session -> "ambiguous"
      [] a # NoAnchor /\ a.session = session ->
            IF Len(log) = a.leaf THEN "absent"
            ELSE IF log[a.leaf + 1] # 0 THEN "proven" ELSE "ambiguous"

\* finish with what the transcript proves of a request that is not absent.
receipt(r) ==
    LET a == requests[r].anchor IN
    IF proof(a) = "proven"
    THEN [call("finish", r) EXCEPT !.outcome = "completed", !.entry = a.leaf + 1]
    ELSE call("finish", r)

running == {i \in DOMAIN requests : requests[i].status = "running"}
queued == {i \in DOMAIN requests : requests[i].status = "queued"}
own == {i \in running : requests[i].claim = proc}

\* The pane's process is replaced, on the same session or on a fresh one.
Boot ==
    /\ ~alive /\ proc < MaxProcs
    /\ proc' = proc + 1
    /\ \E fresh \in BOOLEAN :
          session' = IF fresh THEN proc + 1 ELSE session
    /\ goes("boot", 0)
    /\ UNCHANGED <<requests, employed, calls, log, duty>>

\* session_start: an attempt whose compaction is in the transcript is closed
\* before anything is recovered.
SessionStart ==
    /\ worker.at = "boot"
    /\ LET proved == {i \in running : proof(requests[i].anchor) # "absent"}
           r      == Min(running)
       IN IF running # {} /\ r \in proved
          THEN Post(receipt(r)) /\ goes("receipt", r)
          ELSE IF running \ own # {}
          THEN Post(call("recover", 0)) /\ goes("recover", 0)
          ELSE goes("ready", 0) /\ UNCHANGED calls
    /\ UNCHANGED <<requests, employed, proc, log, session, duty>>

\* An answer to session_start: one that never comes leaves the extension not
\* ready, if it was the receipt's.
ReceiptAnswered ==
    /\ worker.at = "receipt" /\ answered
    /\ \/ worker.told /\ running \ own # {}
          /\ Post(call("recover", 0)) /\ goes("recover", 0)
       \/ worker.told /\ running \ own = {}
          /\ goes("ready", 0) /\ UNCHANGED calls
       \/ goes("unready", 0) /\ UNCHANGED calls
    /\ UNCHANGED <<requests, employed, proc, log, session, duty>>

RecoverAnswered ==
    /\ worker.at = "recover" /\ answered
    /\ goes("ready", 0)
    /\ UNCHANGED <<requests, employed, proc, calls, log, session, duty>>

\* Mutant: the transcript is not looked at.
compactsAgain(r) == goes("compacting", r) /\ UNCHANGED calls

\* A claim is carried out by what the transcript proves of it: compacted, or
\* closed with the verdict of a compaction that was interrupted, once a verdict
\* that is on its way has arrived.
CarryOut(r) ==
    IF proof(requests[r].anchor) = "absent"
    THEN goes("compacting", r) /\ UNCHANGED calls
    ELSE /\ \A k \in DOMAIN calls : calls[k].verb # "finish"
         /\ goes("ready", 0) /\ Post(receipt(r))

\* A cycle of the settled extension: its own running request is carried out,
\* else the newest queued one is claimed if nothing of the person's runs.
Poll ==
    /\ worker.at = "ready"
    /\ \/ own # {} /\ CarryOut(Min(own))
       \/ /\ running = {} /\ queued # {}
          /\ Post([call("start", Max(queued)) EXCEPT !.anchor = leaf])
          /\ goes("claiming", Max(queued))
    /\ UNCHANGED <<requests, employed, proc, log, session, duty>>

\* The claim is the extension's if it is told so or finds it in the ledger; it
\* is carried out if Pi has stayed settled since, and handed back otherwise.
Claimed ==
    /\ worker.at = "claiming" /\ answered
    /\ IF worker.told \/ worker.req \in own
       THEN IF worker.fresh
            THEN CarryOut(worker.req)
            ELSE goes("deferring", worker.req) /\ UNCHANGED calls
       ELSE goes("ready", 0) /\ UNCHANGED calls
    /\ UNCHANGED <<requests, employed, proc, log, session, duty>>

Defer ==
    /\ worker.at = "deferring"
    /\ IF worker.req \in own
       THEN Post(call("defer", worker.req)) /\ goes("returning", worker.req)
       ELSE goes("ready", 0) /\ UNCHANGED calls
    /\ UNCHANGED <<requests, employed, proc, log, session, duty>>

\* Without an answer, the ledger is read again and the claim handed back again.
DeferAnswered ==
    /\ worker.at = "returning" /\ answered
    /\ \/ worker.told /\ goes("ready", 0)
       \/ goes("deferring", worker.req)
    /\ UNCHANGED <<requests, employed, proc, calls, log, session, duty>>

\* Pi's compaction ends, with an entry after the leaf, with nothing to compact
\* or with an error; the verdict is sent, and not waited for.
Compacted ==
    /\ worker.at = "compacting"
    /\ goes("ready", 0)
    /\ \/ /\ Len(log) < MaxEntries
          /\ log' = Append(log, worker.req)
          /\ Post([call("finish", worker.req) EXCEPT !.outcome = "completed",
                                                     !.entry = Len(log) + 1])
       \/ Post(call("finish", worker.req)) /\ UNCHANGED log
    /\ UNCHANGED <<requests, employed, proc, session, duty>>

\* A turn: whatever was settled before it is stale, and it ends settled.
Turn ==
    /\ worker.at \in {"ready", "unready", "claiming", "deferring", "returning"}
    /\ Len(log) < MaxEntries
    /\ log' = Append(log, 0)
    /\ worker' = [worker EXCEPT !.fresh = (worker.at # "claiming"),
                                !.at = IF @ = "unready" THEN "ready" ELSE @]
    /\ UNCHANGED <<requests, employed, proc, calls, session, duty>>

\* The process dies; the calls it has sent may still arrive.
Die ==
    /\ alive
    /\ goes("down", 0)
    /\ UNCHANGED <<requests, employed, proc, calls, log, session, duty>>

-----------------------------------------------------------------------------
(* The daemon, the operator and the rest of the company *)

Dead == {p \in 1..MaxProcs : p # proc \/ ~alive}

Claims == [req : Nat, by : 1..MaxProcs]

\* recover_dead_maintenance_claims: the duty reads the ledger and looks at the
\* processes its claims name,
DutyReads ==
    /\ duty = {}
    /\ duty' = {[req |-> i, by |-> requests[i].claim] :
                    i \in {j \in running : requests[j].claim \in Dead}}
    /\ duty' # {}
    /\ UNCHANGED <<requests, employed, proc, worker, calls, log, session>>

\* and the writer checks each of them again.
DutyRecovers ==
    /\ duty # {}
    /\ requests' =
          IF \E d \in duty : d.req \in running /\ requests[d.req].claim = d.by
          THEN reconcile_people(recover_interrupted(requests, 0))
          ELSE reconcile_people(requests)
    /\ duty' = {}
    /\ UNCHANGED <<employed, proc, worker, calls, log, session>>

\* Somebody asks for a compaction, or asks again. Only here is the clock read;
\* time counts from the first ask.
Queue(force, at) ==
    /\ requests = <<>> => at = 0
    /\ \A i \in DOMAIN requests : requests[i].at <= at
    /\ absorbs(requests, force, at) \/ Len(requests) < MaxRecords
    /\ requests' = reconcile_people(queue(requests, force, at))
    /\ UNCHANGED <<employed, proc, worker, calls, log, session, duty>>

\* The person leaves while something is asked of them.
Depart ==
    /\ \E i \in DOMAIN requests : is_open(requests[i])
    /\ employed /\ employed' = FALSE
    /\ UNCHANGED <<requests, proc, worker, calls, log, session, duty>>

-----------------------------------------------------------------------------
Init ==
    /\ requests = <<>> /\ calls = <<>> /\ log = <<>> /\ duty = {}
    /\ employed = TRUE
    /\ proc = 1
    /\ session = 1
    /\ worker = [at |-> "boot", req |-> 0, fresh |-> TRUE, told |-> FALSE]

WorkerStep ==
    SessionStart \/ ReceiptAnswered \/ RecoverAnswered \/ Poll \/ Claimed
    \/ Defer \/ DeferAnswered \/ Compacted

Next ==
    \/ Commit \/ Lose
    \/ Boot \/ WorkerStep \/ Turn \/ Die
    \/ DutyReads \/ DutyRecovers
    \/ \E force \in BOOLEAN, at \in 0..MaxTime : Queue(force, at)
    \/ Depart

Spec == Init /\ [][Next]_vars

\* The duty comes round, whatever the panes do.
Fairness == WF_vars(DutyReads) /\ WF_vars(DutyRecovers)

FairSpec == Spec /\ Fairness

-----------------------------------------------------------------------------
(* Properties *)

TypeOK ==
    /\ requests \in Seq(Request)
    /\ employed \in BOOLEAN
    /\ proc \in 1..MaxProcs
    /\ worker \in Worker
    /\ calls \in Seq(Call) /\ Len(calls) <= MaxCalls
    /\ log \in Seq(Nat) /\ Len(log) <= MaxEntries
    /\ session \in 1..MaxProcs
    /\ duty \in SUBSET Claims

\* A request is completed only over a compaction that follows the leaf it was
\* claimed at, whichever process claimed, compacted and reported it.
CompletedIsCompacted ==
    \A i \in DOMAIN requests : requests[i].status = "completed" =>
        /\ requests[i].anchor # NoAnchor
        /\ requests[i].entry = requests[i].anchor.leaf + 1
        /\ requests[i].entry <= Len(log) /\ log[requests[i].entry] # 0

compactions(S) == {k \in DOMAIN log : log[k] \in S}

\* One attempt compacts at most once, across lost answers, repeated verdicts,
\* turns in between and claims handed back.
AttemptCompactsOnce ==
    \A i \in DOMAIN requests : Cardinality(compactions({i})) <= 1

\* A compaction runs on the leaf its claim is anchored at.
CompactsAtAnchor ==
    worker.at = "compacting" =>
        LET q == requests[worker.req] IN
        q.status # "queued" /\ (q.status = "running" => q.anchor = leaf)

\* Requests minted for the same ask are a window apart.
MintsAreSpaced ==
    \A i, j \in DOMAIN requests :
        (i < j /\ requests[i].ask = i /\ requests[j].ask = j
               /\ requests[i].force = requests[j].force)
        => requests[j].at - requests[i].at > Window

\* A dead process's claim is not left standing.
DeadClaimIsRecovered == []<>(\A i \in running : requests[i].claim \notin Dead)

-----------------------------------------------------------------------------
(* The ledger implements Asks: an ask stands where its last attempt does. *)

latest_attempt(a) ==
    CHOOSE i \in DOMAIN requests :
        requests[i].ask = a /\ \A j \in DOMAIN requests : j > i => requests[j].ask # a

phase(q) == CASE q.status = "queued" -> "waiting"
              [] q.status = "running" -> "taken"
              [] ~is_open(q) -> q.status

asks == [a \in {i \in DOMAIN requests : requests[i].ask = i} |->
            LET q == requests[latest_attempt(a)]
            IN [phase |-> phase(q), attempt |-> q.attempt]]

A == INSTANCE Asks WITH MaxAttempts <- MaxAttempts, asks <- asks

ImplementsAsks == A!Spec
=============================================================================
