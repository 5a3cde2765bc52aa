------------------------------ MODULE Delivery ------------------------------
(***************************************************************************)
(* Reminders, the effects they enqueue and the mail those become.          *)
(*                                                                         *)
(* A reminder lives in the supervision ledger.  When it falls due, one     *)
(* transaction of the reminder duty enqueues an effect named after the     *)
(* reminder and its due time, and moves the reminder on.  The mailbox duty *)
(* then carries pending effects to the mailbox in three steps that are not *)
(* atomic: it reads the pending effects, stages their rows in one          *)
(* transaction, and records what became of them in another.  The daemon    *)
(* may die, and either transaction may be refused, between any two.        *)
(*                                                                         *)
(* The mailbox rows are in the database; the writer decides what to insert *)
(* by its own copy, loaded when the database is opened and not told of the *)
(* drains that arrive over HTTP.                                           *)
(*                                                                         *)
(* Abstracted: prompts and payloads (one text), person-to-person mail,     *)
(* the wake that follows staging, and the sequence numbers of effects.     *)
(***************************************************************************)
EXTENDS Integers, FiniteSets

CONSTANTS
    People,
    Scope,          \* whose reminders each person may arm or stop
    Intervals,      \* the cadences asked for
    Expiries,       \* the expiries asked for; one beyond MaxTime is none
    MinRecurring,   \* MIN_RECURRING_REMINDER_INTERVAL_MS
    PersonLimit,    \* REMINDERS_PER_PERSON_LIMIT
    AttemptLimit,   \* SUPERVISION_EFFECT_DELIVERY_ATTEMPT_LIMIT
    ReopenLimit,    \* SUPERVISION_EFFECT_REOPEN_LIMIT
    MaxId,          \* bound: reminders ever armed for one person
    MaxTime,        \* bound: the clock
    MaxRequests,    \* bound: requests of people and of the operator
    MaxFaults       \* bound: crashes and refused transactions

ASSUME BoundsAssumption ==
    /\ MaxId \in Nat \ {0} /\ MaxTime \in Nat
    /\ MaxRequests \in Nat /\ MaxFaults \in Nat
    /\ PersonLimit \in Nat /\ ReopenLimit \in Nat
    /\ AttemptLimit \in Nat \ {0} /\ MinRecurring \in Nat \ {0}
    /\ Intervals \subseteq Nat \ {0} /\ Expiries \subseteq Nat
ASSUME ScopeAssumption == Scope \in [People -> SUBSET People]

Time == 0..MaxTime
Ids == (UNION {Scope[p] : p \in People}) \X (1..MaxId)
\* An effect is named after its reminder and the due time it was fired for.
EffectIds == Ids \X Time

VARIABLES
    now,        \* the wall clock, taken to be monotone
    up,         \* a daemon serves the company
    employment, \* what the manifest says of each person
    reminders,  \* the reminders of the supervision ledger
    effects,    \* the effect rows
    rows,       \* the mailbox rows of the effects
    known,      \* the rows the writer's own copy knows of
    pass,       \* the mailbox duty's pass in progress
    requests,
    faults

vars == <<now, up, employment, reminders, effects, rows, known, pass,
          requests, faults>>

Unarmed(p) == [status |-> "none", by |-> p, due |-> 0, interval |-> 0,
               recurring |-> FALSE, expires |-> 0]
NoEffect == [status |-> "none", at |-> 0, failures |-> 0, reopens |-> 0]
IdlePass == [at |-> "idle", ids |-> {}, staged |-> FALSE]

\* A reminder armed before the cadence floor existed.
Legacy(p) == [Unarmed(p) EXCEPT !.status = "active", !.due = 1, !.interval = 1,
                                !.recurring = TRUE, !.expires = MaxTime + 1]

Init ==
    /\ now = 0
    /\ up = TRUE
    /\ employment = [p \in People |-> "staffed"]
    /\ \E old \in SUBSET {p \in People : p \in Scope[p]} :
          reminders = [id \in Ids |-> IF id[1] \in old /\ id[2] = 1
                                      THEN Legacy(id[1]) ELSE Unarmed(id[1])]
    /\ effects = [e \in EffectIds |-> NoEffect]
    /\ rows = [e \in EffectIds |-> "absent"]
    /\ known = {}
    /\ pass = IdlePass
    /\ requests = 0
    /\ faults = 0

-----------------------------------------------------------------------------
(* Reminders.                                                              *)

staffed_people == {p \in People : employment[p] = "staffed"}

OwnersStaffed(id) == {id[1], reminders[id].by} \subseteq staffed_people

\* Every mutation of the ledger first sheds the reminders of whoever left,
\* and those somebody who left had armed.
shed_departed == [id \in Ids |->
    IF OwnersStaffed(id) THEN reminders[id] ELSE Unarmed(id[1])]

is_armed(r) == r.status = "active" /\ r.expires > now
IsDue(r) == is_armed(r) /\ r.due <= now

\* Mutant: the windows the daemon slept through are all fired.
nextDueStepsOnce(r) ==
    r.due + (IF r.interval < MinRecurring THEN MinRecurring ELSE r.interval)

\* The first due time after now, in whole intervals from the one just met.
NextDue(r) ==
    LET step == IF r.interval < MinRecurring THEN MinRecurring ELSE r.interval
    IN  r.due + step * (((now - r.due) \div step) + 1)

\* Mutant: a one-shot stays armed.
oneShotStaysArmed(r) ==
    IF ~IsDue(r) THEN r
    ELSE IF r.recurring THEN [r EXCEPT !.due = NextDue(r)] ELSE r

\* Mutant: the reason is stored as the status.
reasonAsStatus(r) ==
    IF IsDue(r) THEN [r EXCEPT !.status = "fired"] ELSE r

\* One reminder after a pass of the reminder duty.
fire_if_due(r) ==
    IF r.status = "active" /\ r.expires <= now
    THEN [r EXCEPT !.status = "stopped"]
    ELSE IF ~IsDue(r) THEN r
    ELSE IF r.recurring
         THEN [r EXCEPT !.due = NextDue(r),
                        !.status = IF r.expires <= NextDue(r)
                                   THEN "stopped" ELSE "active"]
         ELSE [r EXCEPT !.status = "stopped"]

\* Mutant: a window the daemon was down for is passed over.
firedOnTheDot(kept) ==
    {<<id, kept[id].due>> : id \in {i \in Ids : IsDue(kept[i]) /\ kept[i].due = now}}

FiredBy(kept) == {<<id, kept[id].due>> : id \in {i \in Ids : IsDue(kept[i])}}

\* An effect that exists already with other content refuses the whole pass.
evaluate_reminders ==
    LET kept == shed_departed
        fired == FiredBy(kept)
    IN  /\ up
        /\ \E id \in Ids : IsDue(reminders[id])
        /\ \A e \in fired : effects[e].status = "none"
        /\ effects' = [e \in EffectIds |->
                          IF e \in fired
                          THEN [NoEffect EXCEPT !.status = "pending", !.at = now]
                          ELSE effects[e]]
        /\ reminders' = [id \in Ids |-> fire_if_due(kept[id])]
        /\ UNCHANGED <<now, up, employment, rows, known, pass, requests, faults>>

Request ==
    /\ up
    /\ requests < MaxRequests
    /\ requests' = requests + 1

\* The suffix after the highest one in use, of stopped reminders too.
next_reminder_id(kept, p) ==
    {n \in 1..MaxId : /\ n = 1 \/ kept[<<p, n - 1>>].status # "none"
                      /\ \A m \in n..MaxId : kept[<<p, m>>].status = "none"}

ArmedReminders(kept, p) ==
    {n \in 1..MaxId : kept[<<p, n>>].status = "active"}

\* Arms r for p, unless the same reminder is armed already.
arm_reminder(p, r) ==
    LET kept == shed_departed
        again == \E m \in ArmedReminders(kept, p) :
                    [kept[<<p, m>>] EXCEPT !.due = r.due] = r
    IN  /\ Request
        /\ p \in Scope[r.by]
        /\ p = r.by \/ employment[r.by] = "staffed"
        /\ r.recurring => r.interval >= MinRecurring
        /\ r.expires > now
        /\ \/ /\ again
              /\ reminders' = kept
           \/ /\ ~again
              /\ Cardinality(ArmedReminders(kept, p)) < PersonLimit
              /\ \E n \in next_reminder_id(kept, p) :
                    reminders' = [kept EXCEPT ![<<p, n>>] = r]
        /\ UNCHANGED <<now, up, employment, effects, rows, known, pass, faults>>

Arm(p) ==
    \E by \in People, interval \in Intervals, recurring \in BOOLEAN,
       expires \in Expiries :
        arm_reminder(p, [status |-> "active", by |-> by, due |-> now + interval,
                         interval |-> interval, recurring |-> recurring,
                         expires |-> expires])

\* Stopping a stopped one changes nothing but sheds as well.
stop_reminder(id) ==
    /\ Request
    /\ shed_departed[id].status # "none"
    /\ reminders' = [shed_departed EXCEPT ![id].status = "stopped"]
    /\ UNCHANGED <<now, up, employment, effects, rows, known, pass, faults>>

-----------------------------------------------------------------------------
(* The people who come and go.  Neither verb touches the ledger.           *)

\* Offboarded, alone or with the whole department: the row stays.
Depart(p) ==
    /\ Request
    /\ employment[p] = "staffed"
    /\ employment' = [employment EXCEPT ![p] = "departed"]
    /\ UNCHANGED <<now, up, reminders, effects, rows, known, pass, faults>>

\* Starting a departed person hires them again, under the same id.
Rehire(p) ==
    /\ Request
    /\ employment[p] = "departed"
    /\ employment' = [employment EXCEPT ![p] = "staffed"]
    /\ UNCHANGED <<now, up, reminders, effects, rows, known, pass, faults>>

-----------------------------------------------------------------------------
(* The mailbox duty's pass.                                                *)

PendingEffects == {e \in EffectIds : effects[e].status = "pending"}

\* The read before the pass.
dispatch_plan ==
    /\ up
    /\ pass.at = "idle"
    /\ PendingEffects # {}
    /\ pass' = [at |-> "planned", ids |-> PendingEffects, staged |-> FALSE]
    /\ UNCHANGED <<now, up, employment, reminders, effects, rows, known,
                   requests, faults>>

\* The first transaction: a row is inserted unless the writer knows of one.
stage_batch ==
    /\ up
    /\ pass.at = "planned"
    /\ rows' = [e \in EffectIds |-> IF e \in pass.ids \ known
                                    THEN "pending" ELSE rows[e]]
    /\ known' = known \cup pass.ids
    /\ pass' = [pass EXCEPT !.at = "staged", !.staged = TRUE]
    /\ UNCHANGED <<now, up, employment, reminders, effects, requests, faults>>

Fault ==
    /\ up
    /\ faults < MaxFaults
    /\ faults' = faults + 1

\* Mutant: the batch is reported as staged.
refusedReportsStaged ==
    /\ up
    /\ pass.at = "planned"
    /\ pass' = [pass EXCEPT !.at = "staged", !.staged = TRUE]
    /\ UNCHANGED <<now, up, employment, reminders, effects, rows, known,
                   requests, faults>>

\* A refused staging transaction reports every effect of the batch as failed.
StagingRefused ==
    /\ Fault
    /\ pass.at = "planned"
    /\ pass' = [pass EXCEPT !.at = "staged"]
    /\ UNCHANGED <<now, up, employment, reminders, effects, rows, known, requests>>

apply_effect_delivered(e) ==
    IF e.status = "pending" THEN [e EXCEPT !.status = "delivered"] ELSE e

\* The breaker has no half-open state: the last attempt fails it for good.
record_delivery_failure(e) ==
    IF e.status # "pending" THEN e
    ELSE [e EXCEPT !.failures = @ + 1,
                   !.status = IF e.failures + 1 >= AttemptLimit
                              THEN "failed" ELSE "pending"]

\* The second transaction.
RecordOutcome ==
    /\ up
    /\ pass.at = "staged"
    /\ effects' = [e \in EffectIds |->
                      IF e \notin pass.ids THEN effects[e]
                      ELSE IF pass.staged THEN apply_effect_delivered(effects[e])
                      ELSE record_delivery_failure(effects[e])]
    /\ reminders' = shed_departed
    /\ pass' = IdlePass
    /\ UNCHANGED <<now, up, employment, rows, known, requests, faults>>

OutcomeRefused ==
    /\ Fault
    /\ pass.at = "staged"
    /\ pass' = IdlePass
    /\ UNCHANGED <<now, up, employment, reminders, effects, rows, known, requests>>

\* What a resume of the runtime does to the effects the breaker gave up.
reopen_failed_effects ==
    /\ Request
    /\ effects' = [e \in EffectIds |->
                      IF effects[e].status = "failed" /\ effects[e].reopens < ReopenLimit
                      THEN [effects[e] EXCEPT !.status = "pending", !.failures = 0,
                                              !.reopens = @ + 1]
                      ELSE effects[e]]
    /\ reminders' = shed_departed
    /\ UNCHANGED <<now, up, employment, rows, known, pass, faults>>

-----------------------------------------------------------------------------
(* The recipient, the daemon and the clock.                                *)

\* The pane takes a row it read as pending; the writer's copy is not told.
\* The same request could delete rows, and no caller names any.
settle(e) ==
    /\ up
    /\ rows[e] = "pending"
    /\ rows' = [rows EXCEPT ![e] = "settled"]
    /\ UNCHANGED <<now, up, employment, reminders, effects, known, pass,
                   requests, faults>>

Crash ==
    /\ Fault
    /\ up' = FALSE
    /\ pass' = IdlePass
    /\ UNCHANGED <<now, employment, reminders, effects, rows, known, requests>>

\* Mutant: only rows still pending are loaded.
opensWithPendingOnly ==
    /\ ~up
    /\ up' = TRUE
    /\ known' = {e \in EffectIds : rows[e] = "pending"}
    /\ UNCHANGED <<now, employment, reminders, effects, rows, pass, requests, faults>>

\* Opening the database loads the writer's copy of every row.
Open ==
    /\ ~up
    /\ up' = TRUE
    /\ known' = {e \in EffectIds : rows[e] # "absent"}
    /\ UNCHANGED <<now, employment, reminders, effects, rows, pass, requests, faults>>

Tick ==
    /\ now < MaxTime
    /\ now' = now + 1
    /\ UNCHANGED <<up, employment, reminders, effects, rows, known, pass,
                   requests, faults>>

DeliveryStep == dispatch_plan \/ stage_batch \/ RecordOutcome

Next ==
    \/ evaluate_reminders
    \/ dispatch_plan \/ stage_batch \/ StagingRefused
    \/ RecordOutcome \/ OutcomeRefused
    \/ reopen_failed_effects
    \/ Crash \/ Open \/ Tick
    \/ \E p \in People : Arm(p) \/ Depart(p) \/ Rehire(p)
    \/ \E id \in Ids : stop_reminder(id)
    \/ \E e \in EffectIds : settle(e)

Spec == Init /\ [][Next]_vars

\* Both duties run whenever they have work, and a dead daemon is replaced.
Fairness == WF_vars(evaluate_reminders) /\ WF_vars(DeliveryStep) /\ WF_vars(Open)

FairSpec == Spec /\ Fairness

-----------------------------------------------------------------------------
Reminder == [status : {"none", "active", "stopped"}, by : People, due : Nat,
             interval : Nat, recurring : BOOLEAN, expires : Nat]
Effect == [status : {"none", "pending", "delivered", "failed"}, at : Time,
           failures : 0..AttemptLimit, reopens : 0..ReopenLimit]

\* The ledger, the effect rows, the mailbox and the pass hold only what the
\* code can decode.
TypeOK ==
    /\ now \in Time
    /\ up \in BOOLEAN
    /\ employment \in [People -> {"staffed", "departed"}]
    /\ reminders \in [Ids -> Reminder]
    /\ effects \in [EffectIds -> Effect]
    /\ rows \in [EffectIds -> {"absent", "pending", "settled"}]
    /\ known \in SUBSET EffectIds
    /\ pass \in [at : {"idle", "planned", "staged"}, ids : SUBSET EffectIds,
                 staged : BOOLEAN]
    /\ requests \in 0..MaxRequests
    /\ faults \in 0..MaxFaults

\* The window an armed reminder waits for has no effect yet, although a person
\* who leaves and comes back gets the ids of their earlier reminders again: so
\* no pass is ever refused over an effect that exists (next_reminder_id,
\* enqueue_effect).
FreshWindow ==
    \A id \in Ids, t \in Time :
        reminders[id].status = "active" /\ reminders[id].due = t
            => effects[<<id, t>>].status = "none"

FiredWindows(id) == {t \in Time : effects[<<id, t>>].status # "none"}

\* However long the daemon was down, a reminder fires once when it is back:
\* no two of its windows are fired at the same moment (fire_if_due).
NoBurst ==
    \A id \in Ids : \A t, u \in FiredWindows(id) :
        effects[<<id, t>>].at = effects[<<id, u>>].at => t = u

\* An effect is marked delivered only over a row that is in the mailbox, in
\* spite of the two transactions (stage_batch, mark_delivered).
DeliveredHasMail ==
    \A e \in EffectIds : effects[e].status = "delivered" => rows[e] # "absent"

\* Mail the recipient took is never put back, however often its effect is
\* carried again after a crash or a refused transaction (mailbox::enqueue).
MailOnce ==
    [][\A e \in EffectIds : rows[e] = "settled" => rows'[e] = "settled"]_vars

\* A reminder that falls due is mailed, unless it is stopped or expires, or its
\* owner or author leaves, before it fires, or the breaker gives its effect up:
\* no window is skipped (fire_if_due, run_mailbox_wake).
DueIsMailed ==
    \A id \in Ids, t \in Time \ {0} :
        (OwnersStaffed(id) /\ IsDue(reminders[id]) /\ reminders[id].due = t)
            ~> \/ rows[<<id, t>>] # "absent"
               \/ effects[<<id, t>>].status = "failed"
               \/ /\ effects[<<id, t>>].status = "none"
                  /\ ~is_armed(reminders[id]) \/ ~OwnersStaffed(id)

-----------------------------------------------------------------------------
\* A reminder's due times are fired in order and once each, under whoever holds
\* its id, and their mail is sent once and taken once: the abstract
\* specification DueWindows (evaluate_reminders, stage_batch, mark_delivered).
stage(e) == CASE effects[e].status = "none"    -> "ahead"
              [] effects[e].status = "pending" -> "fired"
              [] effects[e].status = "failed"  -> "given up"
              [] OTHER                         -> "delivered"

mail(e) == CASE rows[e] = "absent"  -> "none"
             [] rows[e] = "pending" -> "unread"
             [] OTHER               -> "taken"

W == INSTANCE DueWindows WITH
         Ids <- Ids, Time <- Time, ReopenLimit <- ReopenLimit,
         windows <- [e \in EffectIds |-> [stage |-> stage(e), mail |-> mail(e),
                                          reopened |-> effects[e].reopens]]

ImplementsDueWindows == W!Spec
=============================================================================
