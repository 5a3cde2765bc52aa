--------------------------- MODULE DeliveryProofs ---------------------------
(***************************************************************************)
(* Proofs about Delivery, for every set of people, every relation of who   *)
(* may arm whose reminders, and every value of the limits and cadences.    *)
(***************************************************************************)
EXTENDS Delivery, TLAPS

USE BoundsAssumption, ScopeAssumption

PassStates == [at : {"idle", "planned", "staged"}, ids : SUBSET EffectIds,
               staged : BOOLEAN]

\* Beyond the types: an effect still pending has attempts left.
AttemptsLeft ==
    \A e \in EffectIds :
        effects[e].status = "pending" => effects[e].failures < AttemptLimit

\* An effect is fired no earlier than its window, and not in the future.
FiredInTime ==
    \A e \in EffectIds : effects[e].status # "none" =>
        e[2] <= effects[e].at /\ effects[e].at <= now

\* An armed reminder waits for a window later than everything its id ever
\* fired, whoever held the id then.
WaitsForLater ==
    \A id \in Ids, t \in Time :
        reminders[id].status = "active" /\ effects[<<id, t>>].status # "none"
            => effects[<<id, t>>].at < reminders[id].due

\* What the pass believes it staged is in the mailbox, and the writer's copy
\* knows exactly the rows there are.
StagedIsThere ==
    /\ pass.at = "planned" => ~pass.staged
    /\ pass.at = "staged" /\ pass.staged =>
           \A e \in pass.ids : rows[e] # "absent"
CopyIsRight == up => known = {e \in EffectIds : rows[e] # "absent"}

-----------------------------------------------------------------------------
(***************************************************************************)
(* Facts about the operators.                                              *)
(***************************************************************************)

LEMMA Ranges ==
    /\ 0 \in Time /\ 0 \in 0..AttemptLimit /\ 0 \in 0..ReopenLimit
    /\ 0 \in 0..MaxRequests /\ 0 \in 0..MaxFaults
  BY DEF Time

\* An id names a person of the company.
LEMMA IdsArePeople == ASSUME NEW id \in Ids PROVE id[1] \in People
  BY DEF Ids

LEMMA UnarmedType == ASSUME NEW p \in People PROVE Unarmed(p) \in Reminder
  BY DEF Unarmed, Reminder

LEMMA LegacyType == ASSUME NEW p \in People PROVE Legacy(p) \in Reminder
<1>1. MaxTime + 1 \in Nat
  OBVIOUS
<1>2. QED
  BY <1>1 DEF Legacy, Unarmed, Reminder

LEMMA NoEffectType == NoEffect \in Effect
  BY Ranges DEF NoEffect, Effect

\* The next due time is a window after now, whatever the downtime was.
LEMMA NextDueIsLater ==
    ASSUME now \in Nat, NEW r \in Reminder, r.due <= now
    PROVE  NextDue(r) \in Nat /\ NextDue(r) > now
<1> DEFINE step == IF r.interval < MinRecurring THEN MinRecurring ELSE r.interval
           late == now - r.due
<1>1. step \in Nat \ {0} /\ late \in Nat /\ r.due \in Nat
  BY DEF Reminder
<1> HIDE DEF step
<1>2. late < step * ((late \div step) + 1) /\ late \div step \in Nat
  BY <1>1
<1>3. step * ((late \div step) + 1) \in Nat
  BY <1>1, <1>2
<1>4. NextDue(r) = r.due + step * ((late \div step) + 1)
  BY DEF NextDue, step
<1> HIDE DEF late
<1>5. late = now - r.due
  BY DEF late
<1>6. QED
  BY <1>1, <1>2, <1>3, <1>4, <1>5

LEMMA FireType ==
    ASSUME now \in Nat, NEW r \in Reminder
    PROVE  fire_if_due(r) \in Reminder
<1>1. IsDue(r) => NextDue(r) \in Nat
  BY NextDueIsLater DEF IsDue, Reminder
<1>2. CASE r.status = "active" /\ r.expires <= now
  BY <1>2 DEF fire_if_due, Reminder
<1>3. CASE ~(r.status = "active" /\ r.expires <= now) /\ ~IsDue(r)
  BY <1>3 DEF fire_if_due
<1>4. CASE ~(r.status = "active" /\ r.expires <= now) /\ IsDue(r)
  BY <1>1, <1>4 DEF fire_if_due, Reminder
<1>5. QED
  BY <1>2, <1>3, <1>4

\* A reminder that is still armed after the duty's pass was not due and is
\* unchanged, or it waits for a window after now.
LEMMA FireOutcome ==
    ASSUME now \in Nat, NEW r \in Reminder, fire_if_due(r).status = "active"
    PROVE  \/ r.status = "active" /\ ~IsDue(r) /\ fire_if_due(r) = r
           \/ fire_if_due(r).due > now
<1>1. CASE r.status = "active" /\ r.expires <= now
  <2>1. fire_if_due(r).status = "stopped"
    BY <1>1 DEF fire_if_due, Reminder
  <2>2. QED
    BY <2>1
<1>2. CASE ~(r.status = "active" /\ r.expires <= now) /\ ~IsDue(r)
  BY <1>2 DEF fire_if_due
<1>3. CASE ~(r.status = "active" /\ r.expires <= now) /\ IsDue(r)
  <2>1. NextDue(r) > now
    BY <1>3, NextDueIsLater DEF IsDue
  <2>2. CASE r.recurring
    BY <1>3, <2>1, <2>2 DEF fire_if_due, Reminder
  <2>3. CASE ~r.recurring
    <3>1. fire_if_due(r).status = "stopped"
      BY <1>3, <2>3 DEF fire_if_due, Reminder
    <3>2. QED
      BY <3>1
  <2>4. QED
    BY <2>2, <2>3
<1>4. QED
  BY <1>1, <1>2, <1>3

\* Shedding leaves every reminder as it is or disarms it.
LEMMA ShedType ==
    ASSUME reminders \in [Ids -> Reminder]
    PROVE  /\ shed_departed \in [Ids -> Reminder]
           /\ \A id \in Ids : \/ shed_departed[id] = reminders[id]
                              \/ shed_departed[id].status = "none"
<1>1. \A id \in Ids : Unarmed(id[1]) \in Reminder /\ Unarmed(id[1]).status = "none"
  BY IdsArePeople, UnarmedType DEF Unarmed
<1>2. QED
  BY <1>1 DEF shed_departed

\* The two ways the outcome of a pass changes an effect, and the reopening,
\* keep it an effect with attempts left while it is pending, and keep when it
\* was fired.
EffectKept(old, new) ==
    /\ new \in Effect
    /\ new.status = "pending" => new.failures < AttemptLimit
    /\ new.at = old.at
    /\ new.status = "none" <=> old.status = "none"

LEMMA OutcomeType ==
    ASSUME NEW e \in Effect,
           e.status = "pending" => e.failures < AttemptLimit
    PROVE  /\ EffectKept(e, e)
           /\ EffectKept(e, apply_effect_delivered(e))
           /\ EffectKept(e, record_delivery_failure(e))
<1>1. EffectKept(e, apply_effect_delivered(e))
  BY DEF EffectKept, apply_effect_delivered, Effect
<1>2. EffectKept(e, record_delivery_failure(e))
  <2>1. CASE e.status # "pending"
    BY <2>1 DEF EffectKept, record_delivery_failure
  <2>2. CASE e.status = "pending"
    <3> DEFINE status == IF e.failures + 1 >= AttemptLimit THEN "failed" ELSE "pending"
               new == [e EXCEPT !.failures = @ + 1, !.status = status]
    <3>1. e.failures + 1 \in 0..AttemptLimit
      BY <2>2 DEF Effect
    <3>2. status \in {"failed", "pending"}
          /\ (status = "pending" => e.failures + 1 < AttemptLimit)
      BY <3>1
    <3>3. record_delivery_failure(e) = new
      BY <2>2 DEF record_delivery_failure
    <3> HIDE DEF status
    <3>4. new \in Effect
      BY <3>1, <3>2 DEF Effect
    <3>5. new.status = status /\ new.failures = e.failures + 1 /\ new.at = e.at
      BY DEF Effect
    <3> HIDE DEF new
    <3>6. QED
      BY <2>2, <3>2, <3>3, <3>4, <3>5 DEF EffectKept
  <2>3. QED
    BY <2>1, <2>2
<1>3. QED
  BY <1>1, <1>2 DEF EffectKept

LEMMA ReopenType ==
    ASSUME NEW e \in Effect, e.status = "failed", e.reopens < ReopenLimit
    PROVE  EffectKept(e, [e EXCEPT !.status = "pending", !.failures = 0,
                                   !.reopens = @ + 1])
<1>1. e.reopens + 1 \in 0..ReopenLimit
  BY DEF Effect
<1> DEFINE new == [e EXCEPT !.status = "pending", !.failures = 0, !.reopens = @ + 1]
<1>2. new \in Effect
  BY <1>1, Ranges DEF Effect
<1>3. new.status = "pending" /\ new.failures = 0 /\ new.at = e.at
  BY DEF Effect
<1> HIDE DEF new
<1>4. EffectKept(e, new)
  BY <1>2, <1>3 DEF EffectKept
<1>5. QED
  BY <1>4 DEF new

\* A pass of the duty adds fresh pending effects and changes no other.
LEMMA FiredType ==
    ASSUME now \in Time, effects \in [EffectIds -> Effect], AttemptsLeft,
           evaluate_reminders
    PROVE  /\ effects' \in [EffectIds -> Effect]
           /\ AttemptsLeft'
<1> DEFINE new == [NoEffect EXCEPT !.status = "pending", !.at = now]
<1>1. new \in Effect /\ new.status = "pending" /\ new.failures = 0
  BY NoEffectType DEF Effect, NoEffect
<1>2. \A e \in EffectIds : effects'[e] = new \/ effects'[e] = effects[e]
  BY DEF evaluate_reminders
<1>3. effects' = [e \in EffectIds |-> effects'[e]]
  BY DEF evaluate_reminders
<1> HIDE DEF new
<1>4. \A e \in EffectIds : effects'[e] \in Effect
  BY <1>1, <1>2
<1>5. QED
  BY <1>1, <1>2, <1>3, <1>4 DEF AttemptsLeft

LEMMA RecordedType ==
    ASSUME effects \in [EffectIds -> Effect], AttemptsLeft,
           RecordOutcome \/ reopen_failed_effects
    PROVE  /\ effects' \in [EffectIds -> Effect]
           /\ \A e \in EffectIds : EffectKept(effects[e], effects'[e])
<1>1. \A e \in EffectIds : EffectKept(effects[e], effects'[e])
  <2> TAKE e \in EffectIds
  <2>0. effects[e] \in Effect /\ (effects[e].status = "pending" => effects[e].failures < AttemptLimit)
    BY DEF AttemptsLeft
  <2>1. CASE RecordOutcome
    <3>1. effects'[e] \in {effects[e], apply_effect_delivered(effects[e]),
                           record_delivery_failure(effects[e])}
      BY <2>1 DEF RecordOutcome
    <3>2. QED
      BY <2>0, <3>1, OutcomeType
  <2>2. CASE reopen_failed_effects
    <3>1. CASE effects[e].status = "failed" /\ effects[e].reopens < ReopenLimit
      BY <2>0, <2>2, <3>1, ReopenType DEF reopen_failed_effects
    <3>2. CASE ~(effects[e].status = "failed" /\ effects[e].reopens < ReopenLimit)
      <4>1. effects'[e] = effects[e]
        BY <2>2, <3>2 DEF reopen_failed_effects
      <4>2. QED
        BY <2>0, <4>1, OutcomeType
    <3>3. QED
      BY <3>1, <3>2
  <2>3. QED
    BY <2>1, <2>2
<1>2. effects' = [e \in EffectIds |-> effects'[e]]
  BY DEF RecordOutcome, reopen_failed_effects
<1>3. QED
  BY <1>1, <1>2 DEF EffectKept

\* What arming writes is a reminder that waits for a later window.
LEMMA ArmedType ==
    ASSUME now \in Time, reminders \in [Ids -> Reminder],
           NEW p \in People, Arm(p)
    PROVE  /\ reminders' \in [Ids -> Reminder]
           /\ \A id \in Ids : \/ reminders'[id] = reminders[id]
                              \/ reminders'[id].status = "none"
                              \/ reminders'[id].due > now
<1>1. PICK by \in People, interval \in Intervals, recurring \in BOOLEAN,
           expires \in Expiries :
        arm_reminder(p, [status |-> "active", by |-> by, due |-> now + interval,
                         interval |-> interval, recurring |-> recurring,
                         expires |-> expires])
  BY DEF Arm
<1> DEFINE r == [status |-> "active", by |-> by, due |-> now + interval,
                 interval |-> interval, recurring |-> recurring,
                 expires |-> expires]
<1>2. r \in Reminder /\ r.due > now /\ r.by = by
  BY DEF Reminder, Time
<1>3. arm_reminder(p, r)
  BY <1>1
<1> HIDE DEF r
<1>4. \A n \in 1..MaxId : <<p, n>> \in Ids
  BY <1>2, <1>3 DEF arm_reminder, Ids
<1>5. \/ reminders' = shed_departed
      \/ \E n \in 1..MaxId : reminders' = [shed_departed EXCEPT ![<<p, n>>] = r]
  BY <1>3 DEF arm_reminder, next_reminder_id
<1>6. QED
  BY <1>2, <1>4, <1>5, ShedType

\* Requests of people change reminders or employment alone.
LEMMA PeopleFrame ==
    ASSUME NEW p \in People, Arm(p) \/ Depart(p) \/ Rehire(p)
    PROVE  UNCHANGED <<now, up, effects, rows, known, pass, faults>>
<1>1. CASE Arm(p)
  BY <1>1 DEF Arm, arm_reminder
<1>2. CASE Depart(p) \/ Rehire(p)
  BY <1>2 DEF Depart, Rehire
<1>3. QED
  BY <1>1, <1>2

LEMMA StopType ==
    ASSUME reminders \in [Ids -> Reminder], NEW i \in Ids, stop_reminder(i)
    PROVE  /\ reminders' \in [Ids -> Reminder]
           /\ \A id \in Ids : \/ reminders'[id] = reminders[id]
                              \/ reminders'[id].status # "active"
<1>1. shed_departed \in [Ids -> Reminder]
  BY ShedType
<1>2. reminders' = [shed_departed EXCEPT ![i].status = "stopped"]
  BY DEF stop_reminder
<1>3. \A id \in Ids \ {i} : reminders'[id] = shed_departed[id]
  BY <1>1, <1>2
<1>4. reminders'[i] = [shed_departed[i] EXCEPT !.status = "stopped"]
  BY <1>1, <1>2
<1>5. reminders'[i] \in Reminder /\ reminders'[i].status = "stopped"
  BY <1>1, <1>4 DEF Reminder
<1>6. reminders' = [id \in Ids |-> reminders'[id]]
  BY <1>1, <1>2
<1>7. \A id \in Ids : reminders'[id] \in Reminder
  BY <1>1, <1>3, <1>5
<1>8. QED
  BY <1>3, <1>5, <1>6, <1>7, ShedType

-----------------------------------------------------------------------------
(***************************************************************************)
(* Types, with the attempts a pending effect has left.                     *)
(***************************************************************************)

TypeInv == TypeOK /\ AttemptsLeft

LEMMA TypeInit == Init => TypeInv
<1> SUFFICES ASSUME Init PROVE TypeInv
  OBVIOUS
<1>1. reminders \in [Ids -> Reminder]
  BY IdsArePeople, UnarmedType, LegacyType DEF Init
<1>2. effects \in [EffectIds -> Effect] /\ AttemptsLeft
  BY NoEffectType DEF Init, AttemptsLeft, NoEffect
<1>3. pass \in [at : {"idle", "planned", "staged"}, ids : SUBSET EffectIds,
                staged : BOOLEAN]
  BY DEF Init, IdlePass
<1>4. QED
  BY <1>1, <1>2, <1>3, Ranges DEF Init, TypeInv, TypeOK

LEMMA TypeStep == TypeInv /\ [Next]_vars => TypeInv'
<1> SUFFICES ASSUME TypeInv, [Next]_vars PROVE TypeInv'
  OBVIOUS
<1> USE DEF TypeInv
<1>t. /\ now \in Time /\ now \in Nat
      /\ reminders \in [Ids -> Reminder]
      /\ effects \in [EffectIds -> Effect]
      /\ shed_departed \in [Ids -> Reminder]
  BY ShedType DEF TypeOK, Time
<1>r. Request => requests' \in 0..MaxRequests
  BY DEF Request, TypeOK
<1>1. CASE evaluate_reminders
  <2>1. reminders' \in [Ids -> Reminder]
    BY <1>1, <1>t, FireType DEF evaluate_reminders
  <2>2. effects' \in [EffectIds -> Effect] /\ AttemptsLeft'
    BY <1>1, <1>t, FiredType
  <2>3. QED
    BY <1>1, <2>1, <2>2 DEF evaluate_reminders, TypeOK
<1>2. CASE dispatch_plan
  <2>1. PendingEffects \in SUBSET EffectIds
    BY DEF PendingEffects
  <2>2. QED
    BY <1>2, <2>1 DEF dispatch_plan, TypeOK, AttemptsLeft
<1>3. CASE stage_batch
  <2>1. rows' \in [EffectIds -> {"absent", "pending", "settled"}]
    BY <1>3 DEF stage_batch, TypeOK
  <2>2. pass' \in PassStates /\ known' \in SUBSET EffectIds
    BY <1>3 DEF stage_batch, TypeOK, PassStates
  <2>3. QED
    BY <1>3, <2>1, <2>2 DEF stage_batch, TypeOK, AttemptsLeft, PassStates
<1>4. CASE StagingRefused
  <2>1. pass' \in PassStates
    BY <1>4 DEF StagingRefused, TypeOK, PassStates
  <2>2. faults' \in 0..MaxFaults
    BY <1>4 DEF StagingRefused, Fault, TypeOK
  <2>3. QED
    BY <1>4, <2>1, <2>2 DEF StagingRefused, Fault, TypeOK, AttemptsLeft, PassStates
<1>i. IdlePass \in PassStates
  BY DEF IdlePass, PassStates
<1>5. CASE RecordOutcome
  <2>1. effects' \in [EffectIds -> Effect] /\ AttemptsLeft'
    BY <1>5, <1>t, RecordedType DEF EffectKept, AttemptsLeft
  <2>2. QED
    BY <1>5, <1>t, <1>i, <2>1 DEF RecordOutcome, TypeOK, PassStates
<1>6. CASE OutcomeRefused
  <2>1. faults' \in 0..MaxFaults
    BY <1>6 DEF OutcomeRefused, Fault, TypeOK
  <2>2. QED
    BY <1>6, <1>i, <2>1 DEF OutcomeRefused, Fault, TypeOK, AttemptsLeft, PassStates
<1>7. CASE reopen_failed_effects
  <2>1. effects' \in [EffectIds -> Effect] /\ AttemptsLeft'
    BY <1>7, <1>t, RecordedType DEF EffectKept, AttemptsLeft
  <2>2. requests' \in 0..MaxRequests
    BY <1>7, <1>r DEF reopen_failed_effects
  <2>3. QED
    BY <1>7, <1>t, <2>1, <2>2 DEF reopen_failed_effects, Request, TypeOK
<1>8. CASE Crash
  <2>1. faults' \in 0..MaxFaults
    BY <1>8 DEF Crash, Fault, TypeOK
  <2>2. QED
    BY <1>8, <1>i, <2>1 DEF Crash, Fault, TypeOK, AttemptsLeft, PassStates
<1>9. CASE Open
  BY <1>9 DEF Open, TypeOK, AttemptsLeft
<1>10. CASE Tick
  BY <1>10 DEF Tick, TypeOK, AttemptsLeft, Time
<1>11. ASSUME NEW p \in People, Arm(p) PROVE TypeInv'
  <2>1. reminders' \in [Ids -> Reminder]
    BY <1>11, <1>t, ArmedType
  <2>2. /\ requests' \in 0..MaxRequests
        /\ UNCHANGED <<now, up, employment, effects, rows, known, pass, faults>>
    BY <1>11 DEF Arm, arm_reminder, Request, TypeOK
  <2>3. QED
    BY <2>1, <2>2 DEF TypeOK, AttemptsLeft
<1>12. ASSUME NEW p \in People, Depart(p) \/ Rehire(p) PROVE TypeInv'
  <2>1. requests' \in 0..MaxRequests
    BY <1>12 DEF Depart, Rehire, Request, TypeOK
  <2>e. employment' \in [People -> {"staffed", "departed"}]
    BY <1>12 DEF Depart, Rehire, TypeOK
  <2>2. QED
    BY <1>12, <2>1, <2>e DEF Depart, Rehire, Request, TypeOK, AttemptsLeft
<1>13. ASSUME NEW id \in Ids, stop_reminder(id) PROVE TypeInv'
  <2>1. reminders' \in [Ids -> Reminder]
    BY <1>13, <1>t, StopType
  <2>2. requests' \in 0..MaxRequests
    BY <1>13 DEF stop_reminder, Request, TypeOK
  <2>3. QED
    BY <1>13, <2>1, <2>2 DEF stop_reminder, TypeOK, AttemptsLeft
<1>14. ASSUME NEW e \in EffectIds, settle(e) PROVE TypeInv'
  BY <1>14 DEF settle, TypeOK, AttemptsLeft
<1>15. CASE UNCHANGED vars
  BY <1>15 DEF vars, TypeOK, AttemptsLeft
<1>16. QED
  BY <1>1, <1>2, <1>3, <1>4, <1>5, <1>6, <1>7, <1>8, <1>9, <1>10, <1>11,
     <1>12, <1>13, <1>14, <1>15 DEF Next

\* Every reminder, effect, row and pass the steps leave behind is one the code
\* can decode, and no breaker runs past its limit (record_delivery_failure).
THEOREM TypeCorrect == Spec => []TypeOK
<1>1. TypeInv => TypeOK
  BY DEF TypeInv
<1>2. QED
  BY <1>1, TypeInit, TypeStep, PTL DEF Spec

-----------------------------------------------------------------------------
(***************************************************************************)
(* Windows: an armed reminder waits for a window later than all its id     *)
(* fired.                                                                  *)
(***************************************************************************)

Windows == FiredInTime /\ WaitsForLater /\ NoBurst

\* Where no reminder is newly armed for an earlier window and every effect
\* keeps when it was fired, nothing about windows changes.
LEMMA WindowsKept ==
    ASSUME TypeOK, TypeOK', Windows, now <= now',
           \A id \in Ids : \/ reminders'[id] = reminders[id]
                           \/ reminders'[id].status # "active"
                           \/ reminders'[id].due > now,
           \A e \in EffectIds : /\ effects'[e].at = effects[e].at
                                /\ effects'[e].status = "none"
                                      <=> effects[e].status = "none"
    PROVE  Windows'
<1> USE DEF Windows
<1>t. now \in Nat /\ now' \in Nat /\ Time \subseteq Nat
  BY DEF TypeOK, Time
<1>e. \A e \in EffectIds : effects[e].at \in Nat /\ effects'[e].at \in Nat
  BY <1>t DEF TypeOK, Effect
<1>w. \A id \in Ids, t \in Time : <<id, t>> \in EffectIds
  BY DEF EffectIds
<1>1. FiredInTime'
  <2> SUFFICES ASSUME NEW e \in EffectIds, effects[e].status # "none"
               PROVE  e[2] <= effects[e].at /\ effects[e].at <= now'
    BY DEF FiredInTime
  <2>1. e[2] <= effects[e].at /\ effects[e].at <= now
    BY DEF FiredInTime
  <2>2. QED
    BY <1>t, <1>e, <2>1
<1>2. WaitsForLater'
  <2> SUFFICES ASSUME NEW id \in Ids, NEW t \in Time,
                      reminders'[id].status = "active",
                      effects[<<id, t>>].status # "none"
               PROVE  effects[<<id, t>>].at < reminders'[id].due
    BY <1>w DEF WaitsForLater
  <2>1. CASE reminders'[id] = reminders[id]
    BY <2>1 DEF WaitsForLater
  <2>2. CASE reminders'[id].due > now
    <3>1. effects[<<id, t>>].at <= now
      BY <1>w DEF FiredInTime
    <3>2. reminders'[id].due \in Nat
      BY DEF TypeOK, Reminder
    <3>3. QED
      BY <1>t, <1>e, <1>w, <2>2, <3>1, <3>2
  <2>3. QED
    BY <2>1, <2>2
<1>3. NoBurst'
  BY <1>w DEF NoBurst, FiredWindows
<1>4. QED
  BY <1>1, <1>2, <1>3

\* Firing adds to each due reminder one window, at this moment, and every
\* reminder still armed then waits for a later one.
LEMMA WindowsFired ==
    ASSUME TypeOK, TypeOK', Windows, evaluate_reminders
    PROVE  Windows'
<1> USE DEF Windows
<1>t. /\ now \in Nat /\ now' = now /\ Time \subseteq Nat
      /\ shed_departed \in [Ids -> Reminder]
      /\ \A id \in Ids : \/ shed_departed[id] = reminders[id]
                         \/ shed_departed[id].status = "none"
  BY ShedType DEF TypeOK, Time, evaluate_reminders
<1>w. \A id \in Ids, t \in Time : <<id, t>> \in EffectIds
  BY DEF EffectIds
<1>e. \A e \in EffectIds : effects[e].at \in Nat /\ effects'[e].at \in Nat
  BY <1>t DEF TypeOK, Effect
<1>r. \A id \in Ids : reminders'[id] = fire_if_due(shed_departed[id])
  BY DEF evaluate_reminders
<1>f. ASSUME NEW id \in Ids, NEW t \in Time
      PROVE  \/ /\ effects'[<<id, t>>].at = effects[<<id, t>>].at
                /\ effects'[<<id, t>>].status = effects[<<id, t>>].status
             \/ /\ IsDue(shed_departed[id])
                /\ t = shed_departed[id].due
                /\ effects'[<<id, t>>].at = now
                /\ effects'[<<id, t>>].status = "pending"
  <2>1. CASE <<id, t>> \in FiredBy(shed_departed)
    <3>1. IsDue(shed_departed[id]) /\ t = shed_departed[id].due
      BY <2>1 DEF FiredBy
    <3>2. effects'[<<id, t>>] = [NoEffect EXCEPT !.status = "pending", !.at = now]
      BY <1>w, <2>1 DEF evaluate_reminders
    <3>3. QED
      BY <3>1, <3>2 DEF NoEffect
  <2>2. CASE <<id, t>> \notin FiredBy(shed_departed)
    <3>1. effects'[<<id, t>>] = effects[<<id, t>>]
      BY <1>w, <2>2 DEF evaluate_reminders
    <3>2. QED
      BY <3>1
  <2>3. QED
    BY <2>1, <2>2
\* A reminder that is due is later than what its id fired, so that was earlier.
<1>l. ASSUME NEW id \in Ids, NEW t \in Time, IsDue(shed_departed[id]),
             effects[<<id, t>>].status # "none"
      PROVE  effects[<<id, t>>].at < now
  <2>1. /\ shed_departed[id] = reminders[id]
        /\ reminders[id].status = "active" /\ reminders[id].due <= now
        /\ reminders[id].due \in Nat
    BY <1>t, <1>l DEF IsDue, is_armed, Reminder
  <2>2. effects[<<id, t>>].at < reminders[id].due
    BY <1>l, <2>1 DEF WaitsForLater
  <2>3. QED
    BY <1>t, <1>e, <1>w, <2>1, <2>2
<1>1. FiredInTime'
  <2> SUFFICES ASSUME NEW id \in Ids, NEW t \in Time,
                      effects'[<<id, t>>].status # "none"
               PROVE  /\ t <= effects'[<<id, t>>].at
                      /\ effects'[<<id, t>>].at <= now'
    BY DEF FiredInTime, EffectIds
  <2>1. CASE effects'[<<id, t>>].at = effects[<<id, t>>].at
             /\ effects'[<<id, t>>].status = effects[<<id, t>>].status
    BY <1>t, <1>w, <2>1 DEF FiredInTime
  <2>2. CASE /\ IsDue(shed_departed[id]) /\ t = shed_departed[id].due
             /\ effects'[<<id, t>>].at = now
    BY <1>t, <2>2 DEF IsDue
  <2>3. QED
    BY <1>f, <2>1, <2>2
<1>2. WaitsForLater'
  <2> SUFFICES ASSUME NEW id \in Ids, NEW t \in Time,
                      reminders'[id].status = "active",
                      effects'[<<id, t>>].status # "none"
               PROVE  effects'[<<id, t>>].at < reminders'[id].due
    BY DEF WaitsForLater
  <2>0. reminders'[id].due \in Nat /\ <<id, t>> \in EffectIds
    BY <1>w DEF TypeOK, Reminder
  <2>1. CASE reminders'[id].due > now
    <3>1. effects'[<<id, t>>].at <= now
      BY <1>1, <1>t, <2>0 DEF FiredInTime
    <3>2. QED
      BY <1>t, <1>e, <2>0, <2>1, <3>1
  <2>2. CASE /\ shed_departed[id].status = "active"
             /\ ~IsDue(shed_departed[id])
             /\ reminders'[id] = shed_departed[id]
    <3>1. reminders'[id] = reminders[id]
      BY <1>t, <2>2
    <3>2. /\ effects'[<<id, t>>].at = effects[<<id, t>>].at
          /\ effects'[<<id, t>>].status = effects[<<id, t>>].status
      BY <1>f, <2>2
    <3>3. QED
      BY <3>1, <3>2 DEF WaitsForLater
  <2>3. QED
    BY <1>r, <1>t, <2>1, <2>2, FireOutcome
<1>3. NoBurst'
  <2> SUFFICES ASSUME NEW id \in Ids, NEW t \in Time, NEW u \in Time,
                      effects'[<<id, t>>].status # "none",
                      effects'[<<id, u>>].status # "none",
                      effects'[<<id, t>>].at = effects'[<<id, u>>].at
               PROVE  t = u
    BY DEF NoBurst, FiredWindows
  <2>1. CASE ~IsDue(shed_departed[id])
    <3>1. /\ effects[<<id, t>>].status # "none"
          /\ effects[<<id, u>>].status # "none"
          /\ effects[<<id, t>>].at = effects[<<id, u>>].at
      BY <1>f, <2>1
    <3>2. QED
      BY <3>1 DEF NoBurst, FiredWindows
  <2>2. CASE IsDue(shed_departed[id])
    <3> DEFINE same(x) == /\ effects'[<<id, x>>].at = effects[<<id, x>>].at
                          /\ effects'[<<id, x>>].status = effects[<<id, x>>].status
               new(x) == x = shed_departed[id].due /\ effects'[<<id, x>>].at = now
    <3>1. (same(t) \/ new(t)) /\ (same(u) \/ new(u))
      BY <1>f
    <3>2. same(t) => effects'[<<id, t>>].at < now
      BY <1>l, <2>2
    <3>3. same(u) => effects'[<<id, u>>].at < now
      BY <1>l, <2>2
    <3>4. CASE same(t) /\ same(u)
      <4>1. /\ effects[<<id, t>>].status # "none"
            /\ effects[<<id, u>>].status # "none"
            /\ effects[<<id, t>>].at = effects[<<id, u>>].at
        BY <3>4
      <4>2. QED
        BY <4>1 DEF NoBurst, FiredWindows
    <3>5. CASE new(t) /\ new(u)
      BY <3>5
    <3>n. ~(now < now)
      BY <1>t
    <3>6. CASE same(t) /\ new(u)
      <4>1. effects'[<<id, t>>].at = now /\ effects'[<<id, t>>].at < now
        BY <3>2, <3>6
      <4>2. QED
        BY <3>n, <4>1
    <3>7. CASE new(t) /\ same(u)
      <4>1. effects'[<<id, u>>].at = now /\ effects'[<<id, u>>].at < now
        BY <3>3, <3>7
      <4>2. QED
        BY <3>n, <4>1
    <3>8. QED
      BY <3>1, <3>4, <3>5, <3>6, <3>7
  <2>3. QED
    BY <2>1, <2>2
<1>4. QED
  BY <1>1, <1>2, <1>3

\* Which steps touch reminders, effects and the clock, and how.
LEMMA WindowsStep ==
    TypeInv /\ TypeInv' /\ Windows /\ [Next]_vars => Windows'
<1> SUFFICES ASSUME TypeInv, TypeInv', Windows, [Next]_vars PROVE Windows'
  OBVIOUS
<1>t. /\ TypeOK /\ TypeOK' /\ AttemptsLeft /\ now \in Nat /\ now \in Time
      /\ reminders \in [Ids -> Reminder] /\ effects \in [EffectIds -> Effect]
  BY DEF TypeInv, TypeOK, Time
<1>1. CASE evaluate_reminders
  BY <1>1, <1>t, WindowsFired
<1>2. CASE RecordOutcome \/ reopen_failed_effects
  <2>1. \A e \in EffectIds : EffectKept(effects[e], effects'[e])
    BY <1>2, <1>t, RecordedType
  <2>2. now' = now /\ reminders' = shed_departed
    BY <1>2 DEF RecordOutcome, reopen_failed_effects
  <2>3. \A id \in Ids : \/ reminders'[id] = reminders[id]
                        \/ reminders'[id].status # "active"
    BY <1>t, <2>2, ShedType
  <2>4. now <= now'
    BY <1>t, <2>2
  <2>5. QED
    BY <1>t, <2>1, <2>3, <2>4, WindowsKept DEF EffectKept
<1>3. ASSUME NEW p \in People, Arm(p) PROVE Windows'
  <2>1. now' = now /\ effects' = effects
    BY <1>3 DEF Arm, arm_reminder
  <2>2. \A id \in Ids : \/ reminders'[id] = reminders[id]
                        \/ reminders'[id].status # "active"
                        \/ reminders'[id].due > now
    BY <1>3, <1>t, ArmedType
  <2>3. QED
    BY <1>t, <2>1, <2>2, WindowsKept
<1>4. ASSUME NEW id \in Ids, stop_reminder(id) PROVE Windows'
  <2>1. now' = now /\ effects' = effects
    BY <1>4 DEF stop_reminder
  <2>2. \A i \in Ids : reminders'[i] = reminders[i] \/ reminders'[i].status # "active"
    BY <1>4, <1>t, StopType
  <2>3. QED
    BY <1>t, <2>1, <2>2, WindowsKept
<1>5. ASSUME effects' = effects, reminders' = reminders, now <= now'
      PROVE  Windows'
  BY <1>5, <1>t, WindowsKept
<1>6. CASE \/ dispatch_plan \/ stage_batch \/ StagingRefused \/ OutcomeRefused
           \/ Crash \/ Open \/ UNCHANGED vars
  <2>1. effects' = effects /\ reminders' = reminders /\ now' = now
    BY <1>6 DEF dispatch_plan, stage_batch, StagingRefused, OutcomeRefused,
                Crash, Open, vars
  <2>2. QED
    BY <1>5, <1>t, <2>1
<1>7. CASE Tick
  BY <1>5, <1>7, <1>t DEF Tick
<1>8. ASSUME NEW p \in People, Depart(p) \/ Rehire(p) PROVE Windows'
  BY <1>5, <1>8, <1>t DEF Depart, Rehire
<1>9. ASSUME NEW e \in EffectIds, settle(e) PROVE Windows'
  BY <1>5, <1>9, <1>t DEF settle
<1>10. QED
  BY <1>1, <1>2, <1>3, <1>4, <1>6, <1>7, <1>8, <1>9 DEF Next

-----------------------------------------------------------------------------
(***************************************************************************)
(* Mail: the writer's copy is right while a daemon serves, and the pass    *)
(* reports as delivered only what it staged.                               *)
(***************************************************************************)

Mail == StagedIsThere /\ CopyIsRight /\ DeliveredHasMail

\* The rows a pass stages, against a copy that is right.
LEMMA StagedRows ==
    ASSUME TypeOK, CopyIsRight, stage_batch
    PROVE  /\ \A e \in EffectIds :
                 \/ rows'[e] = rows[e]
                 \/ rows[e] = "absent" /\ rows'[e] = "pending"
           /\ \A e \in pass.ids : rows'[e] # "absent"
           /\ known' = {e \in EffectIds : rows'[e] # "absent"}
<1>1. /\ known = {e \in EffectIds : rows[e] # "absent"}
      /\ pass.ids \subseteq EffectIds
      /\ known' = known \cup pass.ids
  BY DEF stage_batch, CopyIsRight, TypeOK
<1>2. \A e \in EffectIds : rows'[e] = IF e \in pass.ids \ known
                                      THEN "pending" ELSE rows[e]
  BY DEF stage_batch
<1>3. QED
  BY <1>1, <1>2

LEMMA MailStep ==
    TypeOK /\ Mail /\ [Next]_vars => Mail'
<1> SUFFICES ASSUME TypeOK, Mail, [Next]_vars PROVE Mail'
  OBVIOUS
<1> USE DEF Mail
<1>1. CASE evaluate_reminders
  <2>1. \A e \in EffectIds : effects'[e].status = "delivered"
                                => effects[e].status = "delivered"
    <3>1. \A e \in EffectIds :
            \/ effects'[e] = [NoEffect EXCEPT !.status = "pending", !.at = now]
            \/ effects'[e] = effects[e]
      BY <1>1 DEF evaluate_reminders
    <3>2. [NoEffect EXCEPT !.status = "pending", !.at = now].status = "pending"
      BY DEF NoEffect
    <3>3. QED
      BY <3>1, <3>2
  <2>2. UNCHANGED <<up, rows, known, pass>>
    BY <1>1 DEF evaluate_reminders
  <2>3. QED
    BY <2>1, <2>2 DEF StagedIsThere, CopyIsRight, DeliveredHasMail
<1>2. CASE dispatch_plan
  BY <1>2 DEF dispatch_plan, StagedIsThere, CopyIsRight, DeliveredHasMail
<1>3. CASE stage_batch
  <2>1. /\ pass'.ids = pass.ids /\ pass'.at = "staged"
        /\ up' = up /\ effects' = effects
    BY <1>3 DEF stage_batch, TypeOK
  <2>2. QED
    BY <1>3, <2>1, StagedRows DEF StagedIsThere, CopyIsRight, DeliveredHasMail
<1>4. CASE StagingRefused
  <2>1. ~pass.staged /\ pass'.at = "staged" /\ pass'.staged = pass.staged
    BY <1>4 DEF StagingRefused, StagedIsThere, TypeOK
  <2>2. UNCHANGED <<up, effects, rows, known>>
    BY <1>4 DEF StagingRefused
  <2>3. QED
    BY <2>1, <2>2 DEF StagedIsThere, CopyIsRight, DeliveredHasMail
<1>i. IdlePass.at = "idle"
  BY DEF IdlePass
<1>5. CASE RecordOutcome
  <2>1. UNCHANGED <<up, rows, known>> /\ pass' = IdlePass
    BY <1>5 DEF RecordOutcome
  <2>2. DeliveredHasMail'
    <3> SUFFICES ASSUME NEW e \in EffectIds, effects'[e].status = "delivered"
                 PROVE  rows[e] # "absent"
      BY <2>1 DEF DeliveredHasMail
    <3>1. CASE e \notin pass.ids
      BY <1>5, <3>1 DEF RecordOutcome, DeliveredHasMail
    <3>2. CASE e \in pass.ids /\ pass.staged
      BY <1>5, <3>2 DEF RecordOutcome, StagedIsThere
    <3>3. CASE e \in pass.ids /\ ~pass.staged
      <4>1. effects'[e] = record_delivery_failure(effects[e])
        BY <1>5, <3>3 DEF RecordOutcome
      <4>2. effects[e] \in Effect
        BY DEF TypeOK
      <4>3. \/ effects'[e] = effects[e]
            \/ effects'[e].status \in {"failed", "pending"}
        BY <4>1, <4>2 DEF record_delivery_failure, Effect
      <4>4. QED
        BY <4>3 DEF DeliveredHasMail
    <3>4. QED
      BY <3>1, <3>2, <3>3
  <2>3. QED
    BY <1>i, <2>1, <2>2 DEF StagedIsThere, CopyIsRight
<1>6. CASE OutcomeRefused \/ Crash
  <2>1. pass' = IdlePass /\ UNCHANGED <<effects, rows, known>> /\ (up' => up)
    BY <1>6 DEF OutcomeRefused, Crash, Fault
  <2>2. QED
    BY <1>i, <2>1 DEF StagedIsThere, CopyIsRight, DeliveredHasMail
<1>7. CASE reopen_failed_effects
  <2>1. UNCHANGED <<up, rows, known, pass>>
    BY <1>7 DEF reopen_failed_effects
  <2>2. \A e \in EffectIds : effects'[e].status = "delivered"
                                => effects[e].status = "delivered"
    <3> SUFFICES ASSUME NEW e \in EffectIds
                 PROVE  effects'[e] = effects[e] \/ effects'[e].status = "pending"
      OBVIOUS
    <3>1. effects[e] \in Effect
      BY DEF TypeOK
    <3>2. \/ effects'[e] = effects[e]
          \/ effects'[e] = [effects[e] EXCEPT !.status = "pending", !.failures = 0,
                                              !.reopens = @ + 1]
      BY <1>7 DEF reopen_failed_effects
    <3>3. QED
      BY <3>1, <3>2 DEF Effect
  <2>3. QED
    BY <2>1, <2>2 DEF StagedIsThere, CopyIsRight, DeliveredHasMail
<1>8. CASE Open
  BY <1>8 DEF Open, StagedIsThere, CopyIsRight, DeliveredHasMail
<1>9. ASSUME NEW i \in EffectIds, settle(i) PROVE Mail'
  <2>1. UNCHANGED <<up, effects, known, pass>>
    BY <1>9 DEF settle
  <2>2. \A e \in EffectIds : rows'[e] = "absent" <=> rows[e] = "absent"
    BY <1>9 DEF settle, TypeOK
  <2>3. \A e \in pass.ids : e \in EffectIds
    BY DEF TypeOK
  <2>4. QED
    BY <2>1, <2>2, <2>3 DEF StagedIsThere, CopyIsRight, DeliveredHasMail
<1>10. ASSUME UNCHANGED <<up, effects, rows, known, pass>> PROVE Mail'
  BY <1>10 DEF StagedIsThere, CopyIsRight, DeliveredHasMail
<1>11. CASE Tick
  BY <1>10, <1>11 DEF Tick
<1>12. ASSUME NEW p \in People, Arm(p) \/ Depart(p) \/ Rehire(p) PROVE Mail'
  BY <1>10, <1>12, PeopleFrame
<1>13. ASSUME NEW id \in Ids, stop_reminder(id) PROVE Mail'
  BY <1>10, <1>13 DEF stop_reminder
<1>14. CASE UNCHANGED vars
  BY <1>10, <1>14 DEF vars
<1>15. QED
  BY <1>1, <1>2, <1>3, <1>4, <1>5, <1>6, <1>7, <1>8, <1>9, <1>11, <1>12,
     <1>13, <1>14 DEF Next

-----------------------------------------------------------------------------
(***************************************************************************)
(* The inductive invariant, and what follows from it.                      *)
(***************************************************************************)

IInv == TypeInv /\ Windows /\ Mail

LEMMA InvInit == Init => IInv
<1> SUFFICES ASSUME Init PROVE IInv
  OBVIOUS
<1>1. \A e \in EffectIds : effects[e].status = "none"
  BY DEF Init, NoEffect
<1>2. \A id \in Ids, t \in Time : <<id, t>> \in EffectIds
  BY DEF EffectIds
<1>3. Windows
  BY <1>1, <1>2 DEF Windows, FiredInTime, WaitsForLater, NoBurst, FiredWindows
<1>4. Mail
  BY <1>1 DEF Init, IdlePass, Mail, StagedIsThere, CopyIsRight, DeliveredHasMail
<1>5. QED
  BY <1>3, <1>4, TypeInit DEF IInv

LEMMA InvStep == IInv /\ [Next]_vars => IInv'
  BY TypeStep, WindowsStep, MailStep DEF IInv, TypeInv

THEOREM Invariance == Spec => []IInv
  BY InvInit, InvStep, PTL DEF Spec

\* The window an armed reminder waits for has no effect yet, although shedding
\* frees the ids that earlier effects were named after: no pass of the duty is
\* refused over an effect that exists (next_reminder_id, enqueue_effect).
THEOREM WindowIsFresh == Spec => []FreshWindow
<1>1. IInv => FreshWindow
  <2> SUFFICES ASSUME IInv, NEW id \in Ids, NEW t \in Time,
                      reminders[id].status = "active", reminders[id].due = t,
                      effects[<<id, t>>].status # "none"
               PROVE  FALSE
    BY DEF FreshWindow
  <2>1. <<id, t>> \in EffectIds
    BY DEF EffectIds
  <2>2. effects[<<id, t>>].at \in Nat /\ t \in Nat
    BY <2>1 DEF IInv, TypeInv, TypeOK, Effect, Time
  <2>3. t <= effects[<<id, t>>].at
    BY <2>1 DEF IInv, Windows, FiredInTime
  <2>4. effects[<<id, t>>].at < t
    BY DEF IInv, Windows, WaitsForLater
  <2>5. QED
    BY <2>2, <2>3, <2>4
<1>2. QED
  BY <1>1, Invariance, PTL

\* Whatever the downtime, no two windows of a reminder are fired at the same
\* moment (fire_if_due).
THEOREM FiresOnce == Spec => []NoBurst
<1>1. IInv => NoBurst
  BY DEF IInv, Windows
<1>2. QED
  BY <1>1, Invariance, PTL

\* An effect is marked delivered only over a row that is in the mailbox, with
\* crashes and refusals between the transactions (stage_batch, mark_delivered).
THEOREM DeliveredIsMailed == Spec => []DeliveredHasMail
<1>1. IInv => DeliveredHasMail
  BY DEF IInv, Mail
<1>2. QED
  BY <1>1, Invariance, PTL

\* Mail its recipient took is never put back, although the writer decides by a
\* copy that is not told of the taking (mailbox::enqueue).
THEOREM MailIsTakenOnce == Spec => MailOnce
<1>1. IInv /\ [Next]_vars =>
          [\A e \in EffectIds : rows[e] = "settled" => rows'[e] = "settled"]_vars
  <2> SUFFICES ASSUME IInv, Next, NEW e \in EffectIds, rows[e] = "settled"
               PROVE  rows'[e] = "settled"
    OBVIOUS
  <2>1. CASE stage_batch
    BY <2>1, StagedRows DEF IInv, TypeInv, Mail
  <2>2. ASSUME NEW i \in EffectIds, settle(i) PROVE rows'[e] = "settled"
    BY <2>2 DEF settle, IInv, TypeInv, TypeOK
  <2>3. ASSUME rows' = rows PROVE rows'[e] = "settled"
    BY <2>3
  <2>4. CASE \/ evaluate_reminders \/ dispatch_plan \/ StagingRefused
             \/ RecordOutcome \/ OutcomeRefused \/ reopen_failed_effects
             \/ Crash \/ Open \/ Tick
    BY <2>3, <2>4 DEF evaluate_reminders, dispatch_plan, StagingRefused,
         RecordOutcome, OutcomeRefused, reopen_failed_effects, Crash, Open, Tick
  <2>5. ASSUME NEW p \in People, Arm(p) \/ Depart(p) \/ Rehire(p)
        PROVE  rows'[e] = "settled"
    BY <2>3, <2>5, PeopleFrame
  <2>6. ASSUME NEW id \in Ids, stop_reminder(id) PROVE rows'[e] = "settled"
    BY <2>3, <2>6 DEF stop_reminder
  <2>7. QED
    BY <2>1, <2>2, <2>4, <2>5, <2>6 DEF Next
<1>2. QED
  BY <1>1, Invariance, PTL DEF Spec, MailOnce

-----------------------------------------------------------------------------
(***************************************************************************)
(* The abstract specification: what each step makes of a window.           *)
(***************************************************************************)

\* No window ahead has been reopened, and a pass under way is of effects that
\* are still pending: nothing else decides what becomes of those.
NotReopened == \A e \in EffectIds : effects[e].status = "none" => effects[e].reopens = 0
StillPending == pass.at # "idle" => \A e \in pass.ids : effects[e].status = "pending"

\* What may become of an effect and its row.
Stays(e) == /\ effects'[e].status = effects[e].status
            /\ effects'[e].reopens = effects[e].reopens /\ rows'[e] = rows[e]

Becomes(e, from, to) ==
    /\ effects[e].status = from /\ effects'[e].status = to
    /\ effects'[e].reopens = effects[e].reopens /\ rows'[e] = rows[e]

Reopens(e) ==
    /\ effects[e].status = "failed" /\ effects'[e].status = "pending"
    /\ effects[e].reopens < ReopenLimit /\ effects'[e].reopens = effects[e].reopens + 1
    /\ rows'[e] = rows[e]

Row(e, from, to) ==
    /\ rows[e] = from /\ rows'[e] = to
    /\ effects'[e].status = effects[e].status /\ effects'[e].reopens = effects[e].reopens

LastFired(e) == \A u \in Time \ {e[2]} : effects'[<<e[1], u>>].status # "none" => u < e[2]

Advances(e) ==
    \/ Stays(e)
    \/ Becomes(e, "none", "pending") /\ LastFired(e)
    \/ Becomes(e, "pending", "delivered") /\ rows[e] # "absent"
    \/ Becomes(e, "pending", "failed")
    \/ Reopens(e)
    \/ Row(e, "absent", "pending") /\ effects[e].status = "pending"
    \/ Row(e, "pending", "settled")

\* A pass of the reminder duty fires the last window of each id.
LEMMA FiredAdvance ==
    ASSUME IInv, NotReopened, evaluate_reminders
    PROVE  \A e \in EffectIds : Stays(e) \/ (Becomes(e, "none", "pending") /\ LastFired(e))
<1> TAKE e \in EffectIds
<1> DEFINE kept == shed_departed
           new == [NoEffect EXCEPT !.status = "pending", !.at = now]
<1>1. /\ \A x \in EffectIds : effects'[x] = IF x \in FiredBy(kept) THEN new ELSE effects[x]
      /\ \A x \in FiredBy(kept) : effects[x].status = "none"
      /\ UNCHANGED rows
  BY DEF evaluate_reminders
<1>2. new.status = "pending" /\ new.reopens = 0
  BY DEF NoEffect
<1> HIDE DEF new
<1>3. CASE e \notin FiredBy(kept)
  BY <1>1, <1>3 DEF Stays
<1>4. CASE e \in FiredBy(kept)
  <2>1. PICK id \in Ids : IsDue(kept[id]) /\ e = <<id, kept[id].due>>
    BY <1>4 DEF FiredBy
  <2>2. kept[id] = reminders[id] /\ reminders[id].status = "active" /\ e[1] = id /\ e[2] = reminders[id].due
    <3>1. kept[id] = reminders[id] \/ kept[id].status = "none"
      BY ShedType DEF IInv, TypeInv, TypeOK
    <3> HIDE DEF kept
    <3> QED BY <2>1, <3>1 DEF IsDue, is_armed
  <2>3. Becomes(e, "none", "pending")
    BY <1>1, <1>2, <1>4 DEF Becomes, NotReopened
  <2>4. ASSUME NEW u \in Time \ {e[2]}, effects'[<<id, u>>].status # "none"
        PROVE  u < e[2]
    <3>1. <<id, u>> \in EffectIds /\ <<id, u>> # e
      BY <2>1, <2>2, <2>4 DEF EffectIds
    <3>2. <<id, u>> \notin FiredBy(kept)
      <4>1. ASSUME NEW i \in Ids, <<id, u>> = <<i, kept[i].due>> PROVE FALSE
        BY <2>2, <2>4, <4>1
      <4> QED BY <4>1 DEF FiredBy
    <3>3. effects[<<id, u>>].status # "none"
      BY <1>1, <2>4, <3>1, <3>2
    <3>4. /\ effects[<<id, u>>].at < reminders[id].due
          /\ u <= effects[<<id, u>>].at
      BY <2>2, <2>4, <3>1, <3>3 DEF IInv, Windows, WaitsForLater, FiredInTime
    <3>5. effects[<<id, u>>].at \in Nat /\ u \in Nat /\ reminders[id].due \in Nat
      BY <3>1 DEF IInv, TypeInv, TypeOK, Effect, Reminder, Time
    <3> QED BY <2>2, <3>4, <3>5
  <2> QED BY <2>2, <2>3, <2>4 DEF LastFired
<1> QED BY <1>3, <1>4

\* The outcome of a pass, and the reopening.
LEMMA OutcomeAdvances ==
    ASSUME IInv, StillPending, RecordOutcome \/ reopen_failed_effects
    PROVE  \A e \in EffectIds : Advances(e)
<1> TAKE e \in EffectIds
<1>0. effects[e] \in Effect /\ UNCHANGED rows
  BY DEF IInv, TypeInv, TypeOK, RecordOutcome, reopen_failed_effects
<1>1. CASE effects'[e] = effects[e]
  BY <1>0, <1>1 DEF Advances, Stays
<1>2. CASE RecordOutcome /\ effects'[e] # effects[e]
  <2>1. e \in pass.ids /\ effects[e].status = "pending" /\ pass.at = "staged"
    BY <1>2 DEF RecordOutcome, StillPending
  <2>2. CASE pass.staged
    <3>1. effects'[e] = [effects[e] EXCEPT !.status = "delivered"]
      BY <1>2, <2>1, <2>2 DEF RecordOutcome, apply_effect_delivered
    <3>2. rows[e] # "absent"
      BY <2>1, <2>2 DEF IInv, Mail, StagedIsThere
    <3> QED BY <1>0, <2>1, <3>1, <3>2 DEF Advances, Becomes, Effect
  <2>3. CASE ~pass.staged
    <3>1. effects'[e] = record_delivery_failure(effects[e])
      BY <1>2, <2>1, <2>3 DEF RecordOutcome
    <3>2. effects'[e].status \in {"pending", "failed"} /\ effects'[e].reopens = effects[e].reopens
      BY <1>0, <2>1, <3>1 DEF record_delivery_failure, Effect
    <3> QED BY <1>0, <2>1, <3>2 DEF Advances, Becomes, Stays
  <2> QED BY <2>2, <2>3
<1>3. CASE reopen_failed_effects /\ effects'[e] # effects[e]
  <2>1. /\ effects[e].status = "failed" /\ effects[e].reopens < ReopenLimit
        /\ effects'[e] = [effects[e] EXCEPT !.status = "pending", !.failures = 0,
                                            !.reopens = @ + 1]
    BY <1>3 DEF reopen_failed_effects
  <2>2. effects'[e].status = "pending" /\ effects'[e].reopens = effects[e].reopens + 1
    BY <1>0, <2>1 DEF Effect
  <2> QED BY <1>0, <2>1, <2>2 DEF Advances, Reopens
<1> QED BY <1>1, <1>2, <1>3

\* Every step, whatever it does to the other windows.
LEMMA WindowsAdvance ==
    ASSUME IInv, NotReopened, StillPending, [Next]_vars
    PROVE  \A e \in EffectIds : Advances(e)
<1>1. CASE evaluate_reminders
  BY <1>1, FiredAdvance DEF Advances
<1>2. CASE RecordOutcome \/ reopen_failed_effects
  BY <1>2, OutcomeAdvances
<1>3. CASE stage_batch
  <2>1. ASSUME NEW e \in EffectIds PROVE Advances(e)
    <3>1. rows'[e] = rows[e] \/ (rows[e] = "absent" /\ rows'[e] = "pending")
      BY <1>3, StagedRows DEF IInv, TypeInv, Mail
    <3>2. UNCHANGED effects
      BY <1>3 DEF stage_batch
    <3>3. rows'[e] = rows[e] \/ effects[e].status = "pending"
      BY <1>3 DEF stage_batch, StillPending
    <3> QED BY <3>1, <3>2, <3>3 DEF Advances, Stays, Row
  <2> QED BY <2>1
<1>4. ASSUME NEW i \in EffectIds, settle(i), NEW e \in EffectIds PROVE Advances(e)
  <2>1. rows[i] = "pending" /\ rows' = [rows EXCEPT ![i] = "settled"] /\ UNCHANGED effects
    BY <1>4 DEF settle
  <2>2. rows'[e] = IF e = i THEN "settled" ELSE rows[e]
    BY <2>1 DEF IInv, TypeInv, TypeOK
  <2> QED BY <2>1, <2>2 DEF Advances, Stays, Row
<1>5. ASSUME UNCHANGED <<effects, rows>>, NEW e \in EffectIds PROVE Advances(e)
  BY <1>5 DEF Advances, Stays
<1>6. CASE \/ dispatch_plan \/ StagingRefused \/ OutcomeRefused
           \/ Crash \/ Open \/ Tick \/ UNCHANGED vars
  <2>1. UNCHANGED <<effects, rows>>
    BY <1>6 DEF dispatch_plan, StagingRefused, OutcomeRefused, Crash, Open, Tick, vars
  <2> QED BY <1>5, <2>1
<1>7. ASSUME NEW p \in People, Arm(p) \/ Depart(p) \/ Rehire(p), NEW e \in EffectIds PROVE Advances(e)
  BY <1>5, <1>7, PeopleFrame
<1>8. ASSUME NEW id \in Ids, stop_reminder(id), NEW e \in EffectIds PROVE Advances(e)
  BY <1>5, <1>8 DEF stop_reminder
<1> QED BY <1>1, <1>2, <1>3, <1>4, <1>6, <1>7, <1>8 DEF Next

LEMMA PendingStep ==
    ASSUME IInv, NotReopened, StillPending, [Next]_vars
    PROVE  NotReopened' /\ StillPending'
<1>1. \A e \in EffectIds : Advances(e)
  BY WindowsAdvance
<1>2. NotReopened'
  BY <1>1 DEF NotReopened, Advances, Stays, Becomes, Reopens, Row
<1>3. pass.ids \subseteq EffectIds
  BY DEF IInv, TypeInv, TypeOK
<1>4. CASE RecordOutcome \/ OutcomeRefused \/ Crash
  <2>1. pass'.at = "idle"
    BY <1>4 DEF RecordOutcome, OutcomeRefused, Crash, IdlePass
  <2> QED BY <1>2, <2>1 DEF StillPending
<1>5. CASE dispatch_plan
  <2>1. pass'.ids = PendingEffects /\ UNCHANGED effects
    BY <1>5 DEF dispatch_plan
  <2> QED BY <1>2, <2>1 DEF StillPending, PendingEffects
<1>6. CASE ~(RecordOutcome \/ OutcomeRefused \/ Crash \/ dispatch_plan)
  <2>1. pass'.ids = pass.ids /\ (pass'.at # "idle" => pass.at # "idle")
    BY <1>6, PeopleFrame DEF Next, evaluate_reminders, stage_batch, StagingRefused, reopen_failed_effects,
         Open, Tick, stop_reminder, settle, vars, IInv, TypeInv, TypeOK
  <2>2. ASSUME NEW e \in EffectIds, effects[e].status = "pending" PROVE effects'[e].status = "pending"
    <3>1. CASE evaluate_reminders
      BY <2>2, <3>1, FiredAdvance DEF Stays, Becomes
    <3>2. CASE reopen_failed_effects
      BY <2>2, <3>2 DEF reopen_failed_effects
    <3>3. CASE ~(evaluate_reminders \/ reopen_failed_effects)
      <4>1. UNCHANGED effects
        BY <1>6, <3>3, PeopleFrame DEF Next, stage_batch, StagingRefused, Open, Tick, stop_reminder,
             settle, vars
      <4> QED BY <2>2, <4>1
    <3> QED BY <3>1, <3>2, <3>3
  <2> QED BY <1>2, <1>3, <2>1, <2>2 DEF StillPending
<1> QED BY <1>4, <1>5, <1>6

\* A window as the abstract specification sees it.
Seen(e) == [stage |-> stage(e), mail |-> mail(e), reopened |-> effects[e].reopens]

\* A window advances as the abstract specification lets it.
LEMMA AdvanceMoves ==
    ASSUME TypeOK, TypeOK', NEW e \in EffectIds, Advances(e)
    PROVE  \/ Seen(e)' = Seen(e)
           \/ W!Moves(Seen(e), Seen(e)') /\ (W!Fire(Seen(e), Seen(e)') => LastFired(e))
<1>0. /\ effects[e].status \in {"none", "pending", "delivered", "failed"}
      /\ rows[e] \in {"absent", "pending", "settled"}
  BY DEF TypeOK, Effect
<1> USE <1>0 DEF Seen, stage, mail, W!Moves
<1>1. CASE Stays(e)
  BY <1>1 DEF Stays
<1>2. CASE Becomes(e, "none", "pending") /\ LastFired(e)
  BY <1>2 DEF Becomes, W!Fire
<1>3. CASE Becomes(e, "pending", "delivered") /\ rows[e] # "absent"
  BY <1>3 DEF Becomes, W!Deliver, W!Fire
<1>4. CASE Becomes(e, "pending", "failed")
  BY <1>4 DEF Becomes, W!GiveUp, W!Fire
<1>5. CASE Reopens(e)
  <2>1. /\ Seen(e) = [stage |-> "given up", mail |-> mail(e), reopened |-> effects[e].reopens]
        /\ Seen(e)' = [stage |-> "fired", mail |-> mail(e), reopened |-> effects[e].reopens + 1]
    BY <1>5 DEF Reopens
  <2>2. effects[e].reopens < ReopenLimit
    BY <1>5 DEF Reopens
  <2> QED BY <2>1, <2>2 DEF W!Reopen, W!Fire
<1>6. CASE Row(e, "absent", "pending") /\ effects[e].status = "pending"
  BY <1>6 DEF Row, W!Send, W!Fire
<1>7. CASE Row(e, "pending", "settled")
  BY <1>7 DEF Row, W!Take, W!Fire
<1> QED BY <1>1, <1>2, <1>3, <1>4, <1>5, <1>6, <1>7 DEF Advances

LEMMA StepImplements ==
    ASSUME IInv, IInv', NotReopened, StillPending, [Next]_vars
    PROVE  W!Next
<1> DEFINE windows == [e \in EffectIds |-> Seen(e)]
<1>0. TypeOK /\ TypeOK' /\ EffectIds = Ids \X Time
  BY DEF IInv, TypeInv, EffectIds
<1>1. windows' \in [Ids \X Time -> W!Window]
  <2>1. ASSUME NEW e \in EffectIds PROVE Seen(e)' \in W!Window
    <3>1. effects'[e] \in Effect /\ rows'[e] \in {"absent", "pending", "settled"}
      BY <1>0 DEF TypeOK
    <3> QED BY <3>1 DEF Seen, stage, mail, W!Window, Effect
  <2> QED BY <1>0, <2>1
<1>2. ASSUME NEW i \in Ids, NEW t \in Time
      PROVE  \/ windows[<<i, t>>] = windows'[<<i, t>>]
             \/ /\ W!Moves(windows[<<i, t>>], windows'[<<i, t>>])
                /\ W!Fire(windows[<<i, t>>], windows'[<<i, t>>]) =>
                      \A u \in Time \ {t} : windows'[<<i, u>>].stage # "ahead" => u < t
  <2>1. \A u \in Time : <<i, u>> \in EffectIds
    BY DEF EffectIds
  <2>2. \A u \in Time : windows[<<i, u>>] = Seen(<<i, u>>) /\ windows'[<<i, u>>] = Seen(<<i, u>>)'
    BY <2>1
  <2>3. \/ Seen(<<i, t>>)' = Seen(<<i, t>>)
        \/ /\ W!Moves(Seen(<<i, t>>), Seen(<<i, t>>)')
           /\ W!Fire(Seen(<<i, t>>), Seen(<<i, t>>)') => LastFired(<<i, t>>)
    <3>1. Advances(<<i, t>>)
      BY <2>1, WindowsAdvance
    <3> QED BY <1>0, <2>1, <3>1, AdvanceMoves
  <2>4. \A u \in Time : Seen(<<i, u>>)'.stage # "ahead" => effects'[<<i, u>>].status # "none"
    BY DEF Seen, stage
  <2> HIDE DEF windows
  <2> QED BY <2>2, <2>3, <2>4 DEF LastFired
<1> QED BY <1>1, <1>2 DEF W!Next, W!Last, Seen

\* Delivery implements DueWindows: the due times of an id are fired in order
\* and once each, whoever holds it, and their mail is sent and taken once, over
\* crashes, refused transactions and reopenings (evaluate_reminders,
\* stage_batch, mark_delivered).
THEOREM Implements == Spec => ImplementsDueWindows
<1> DEFINE AInv == IInv /\ NotReopened /\ StillPending
<1>1. Init => AInv
  <2> SUFFICES ASSUME Init PROVE AInv
    OBVIOUS
  <2>1. NotReopened /\ StillPending
    BY DEF Init, NotReopened, StillPending, NoEffect, IdlePass
  <2> QED BY <2>1, InvInit
<1>2. AInv /\ [Next]_vars => AInv'
  BY InvStep, PendingStep
<1>3. Init => W!Init
  <2> SUFFICES ASSUME Init PROVE W!Init
    OBVIOUS
  <2>1. EffectIds = Ids \X Time
    BY DEF EffectIds
  <2>2. ASSUME NEW e \in EffectIds
        PROVE  stage(e) = "ahead" /\ mail(e) = "none" /\ effects[e].reopens = 0
    BY DEF Init, NoEffect, stage, mail
  <2> QED BY <2>1, <2>2 DEF W!Init
<1>4. AInv /\ AInv' /\ [Next]_vars => W!Next
  BY StepImplements
<1> HIDE DEF AInv
<1>5. Spec => []AInv
  BY <1>1, <1>2, PTL DEF Spec
<1> QED BY <1>3, <1>4, <1>5, PTL DEF Spec, ImplementsDueWindows, W!Spec
=============================================================================
