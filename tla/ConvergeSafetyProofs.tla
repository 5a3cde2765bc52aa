------------------------ MODULE ConvergeSafetyProofs ------------------------
(***************************************************************************)
(* Proofs about ConvergeSafety, for every set of callers and every value   *)
(* of the staleness, floor and trip constants.                             *)
(***************************************************************************)
EXTENDS ConvergeSafety, TLAPS

USE ClaimStaleAssumption, FloorAssumption, TripThresholdAssumption,
    MaxCommandsAssumption DEF AgeCap, ghosts

Docs == SafetyState \cup {Absent}

\* The values the mutators write are in the ranges of the fields.
LEMMA Ranges ==
    /\ 0 \in 0..TripThreshold
    /\ 0 \in NoStart..AgeCap
    /\ NoStart \in NoStart..AgeCap
    /\ 0 \in 0..AgeCap
    /\ 0 \in 0..MaxCommands
  BY DEF NoStart

\* Reading a document, absent or not, yields a complete safety state.
LEMMA CurrentType ==
    ASSUME NEW doc \in Docs PROVE current(doc) \in SafetyState
<1>1. default_shadow \in SafetyState
  BY Ranges DEF default_shadow, SafetyState, Modes
<1>2. Absent.mode = "absent"
  BY DEF Absent, default_shadow
<1>3. CASE doc = Absent
  BY <1>1, <1>2, <1>3 DEF current, configured
<1>4. CASE doc \in SafetyState
  BY <1>1, <1>4 DEF current
<1>5. QED
  BY <1>3, <1>4 DEF Docs

\* Every mutator of the store maps documents to complete safety states.
LEMMA MutatorTypes ==
    ASSUME NEW doc \in Docs
    PROVE  /\ \A m \in Modes :
                 set_actuation_config(doc, m) \in SafetyState
           /\ operator_clear_breaker(doc) \in SafetyState
           /\ \A ok \in BOOLEAN : record_cycle_outcome(doc, ok) \in SafetyState
           /\ record_refusal(doc) \in SafetyState
           /\ claimed(current(doc)) \in SafetyState
           /\ end_cycle(doc) \in SafetyState
<1>1. current(doc) \in SafetyState
  BY CurrentType
<1>2. \A m \in Modes : set_actuation_config(doc, m) \in SafetyState
  BY <1>1, Ranges DEF set_actuation_config, SafetyState
<1>3. operator_clear_breaker(doc) \in SafetyState
  BY <1>1, Ranges DEF operator_clear_breaker, SafetyState
<1>4. \A ok \in BOOLEAN : record_cycle_outcome(doc, ok) \in SafetyState
  <2>1. failed(current(doc).fails) \in 0..TripThreshold
    BY <1>1 DEF failed, SafetyState
  <2>2. QED
    BY <1>1, <2>1, Ranges DEF record_cycle_outcome, SafetyState
<1>5. record_refusal(doc) \in SafetyState
  BY <1>1 DEF record_refusal, SafetyState
<1>6. claimed(current(doc)) \in SafetyState
  BY <1>1, Ranges DEF claimed, SafetyState
<1>7. end_cycle(doc) \in SafetyState
  BY <1>1 DEF end_cycle, SafetyState
<1>8. QED
  BY <1>2, <1>3, <1>4, <1>5, <1>6, <1>7

\* Letting a tick pass ages a start stamp by one, up to the cap, and leaves a
\* document that has none as it is.
LEMMA AgedType ==
    /\ \A doc \in SafetyState : agedDoc(doc) \in SafetyState
    /\ agedDoc(Absent) = Absent
    /\ agedDoc(NoCli) = NoCli
    /\ \A a \in 0..AgeCap : older(a) \in 0..AgeCap
  BY DEF agedDoc, older, SafetyState, Absent, NoCli, default_shadow, NoStart

\* begin_cycle lets a pass in only when no claim is held that is fresher than
\* the staleness bound.
LEMMA ProceedMeansFree ==
    ASSUME NEW s \in SafetyState, beginGate(s) = "proceed",
           s.claim, s.started # NoStart
    PROVE  s.started >= ClaimStale
  BY DEF beginGate, claimHeld, SafetyState, NoStart

-----------------------------------------------------------------------------
(***************************************************************************)
(* The type invariant is inductive by itself.                              *)
(***************************************************************************)

LEMMA TypeInit == Init => TypeOK
<1> SUFFICES ASSUME Init PROVE TypeOK
  OBVIOUS
<1>1. pass \in [Passes -> PassState]
  BY Ranges DEF Init, PassState, IdlePass
<1>2. commands \in 0..MaxCommands /\ since \in NoStart..AgeCap
  BY Ranges DEF Init
<1>3. QED
  BY <1>1, <1>2 DEF Init, TypeOK, Modes

LEMMA TypeStep == TypeOK /\ [Next]_vars => TypeOK'
<1> SUFFICES ASSUME TypeOK, [Next]_vars PROVE TypeOK'
  OBVIOUS
<1> USE DEF TypeOK
<1>m. mem \in Docs
  BY DEF Docs
<1>1. CASE Open
  BY <1>1 DEF Open
<1>2. CASE enable_live_actuation
  <2>1. set_actuation_config(mem,
          IF configured(mem) THEN mem.mode ELSE "apply") \in SafetyState
    <3>1. configured(mem) => mem \in SafetyState
      BY DEF configured, Absent, default_shadow
    <3>2. (IF configured(mem) THEN mem.mode ELSE "apply") \in Modes
      BY <3>1 DEF SafetyState, Modes
    <3>3. QED
      BY <1>m, <3>2, MutatorTypes
  <2>2. QED
    BY <1>2, <2>1 DEF enable_live_actuation, commit
<1>3. CASE BootWriteFails
  BY <1>3 DEF BootWriteFails
<1>4. CASE Stop
  BY <1>4, Ranges DEF Stop, PassState, IdlePass, Modes
<1>5. CASE Tick
  <2>1. mem' \in SafetyState \cup {Absent} /\ row' \in SafetyState \cup {Absent}
    BY <1>5, AgedType DEF Tick
  <2>2. cli' \in SafetyState \cup {Absent, NoCli}
    BY <1>5, AgedType DEF Tick
  <2>3. pass' \in [Passes -> PassState]
    BY <1>5, AgedType DEF Tick, PassState
  <2>4. since' \in NoStart..AgeCap
    BY <1>5 DEF Tick, older, NoStart
  <2>5. QED
    BY <1>5, <2>1, <2>2, <2>3, <2>4 DEF Tick
<1>6. ASSUME NEW p \in Passes, PassStep(p) PROVE TypeOK'
  <2>1. CASE BeginCycle(p)
    <3>1. claimed(current(mem)) \in SafetyState
      BY <1>m, MutatorTypes
    <3>2. beginGate(current(mem)) \in {"already-running", "floor", "proceed"}
      BY DEF beginGate
    <3>3. [pc |-> "claimed", age |-> 0] \in PassState
      BY Ranges DEF PassState
    <3>4. since' \in NoStart..AgeCap
      BY <2>1, Ranges DEF BeginCycle
    <3>5. QED
      BY <2>1, <3>1, <3>2, <3>3, <3>4 DEF BeginCycle, commit
  <2>2. CASE Publish(p)
    <3>1. pass' \in [Passes -> PassState]
      BY <2>2 DEF Publish, PassState
    <3>2. QED
      BY <2>2, <3>1 DEF Publish
  <2>3. CASE EndCycle(p)
    <3>1. end_cycle(mem) \in SafetyState
      BY <1>m, MutatorTypes
    <3>2. IdlePass \in PassState
      BY Ranges DEF IdlePass, PassState, Modes
    <3>3. QED
      BY <2>3, <3>1, <3>2 DEF EndCycle, commit
  <2>4. CASE Abandon(p)
    BY <2>4, Ranges DEF Abandon, IdlePass, PassState, Modes
  <2>5. QED
    BY <1>6, <2>1, <2>2, <2>3, <2>4 DEF PassStep
<1>7. ASSUME NEW ok \in BOOLEAN, RecordOutcome(ok) PROVE TypeOK'
  BY <1>m, <1>7, MutatorTypes DEF RecordOutcome, commit
<1>8. CASE RecordRefusal
  BY <1>m, <1>8, MutatorTypes DEF RecordRefusal, commit
<1>9. ASSUME NEW m \in Modes, SetActuationConfigRoute(m) PROVE TypeOK'
  <2>1. set_actuation_config(mem, m) \in SafetyState
    BY <1>m, MutatorTypes
  <2>2. QED
    BY <1>9, <2>1 DEF SetActuationConfigRoute, commit
<1>c. cli # NoCli => cli \in Docs
  BY DEF Docs
<1>10. CASE CliOpen
  BY <1>10 DEF CliOpen
<1>11. CASE CliClearBreaker
  BY <1>c, <1>11, MutatorTypes DEF CliClearBreaker
<1>12. ASSUME NEW m \in Modes, CliSetActuationConfig(m)
       PROVE TypeOK'
  BY <1>c, <1>12, MutatorTypes DEF CliSetActuationConfig
<1>13. CASE UNCHANGED vars
  BY <1>13 DEF vars
<1>14. QED
  BY <1>1, <1>2, <1>3, <1>4, <1>5, <1>6, <1>7, <1>8, <1>9, <1>10, <1>11,
     <1>12, <1>13 DEF Next

\* Every state of the converge-safety document, its row, the passes and the
\* operator commands is one the code can decode: no step leaves a half-written
\* document or a stamp out of range.
THEOREM TypeCorrect == Spec => []TypeOK
  BY TypeInit, TypeStep, PTL DEF Spec

-----------------------------------------------------------------------------
(***************************************************************************)
(* Single flight.  SingleFlight is not inductive: a second pass is kept    *)
(* out because the claim in memory belongs to the running one and is as    *)
(* young as it is, which is ClaimIsOwned.                                  *)
(***************************************************************************)
IInv == TypeOK /\ SingleFlight /\ ClaimIsOwned

\* A document that is claimed or tripped is a configured one.
LEMMA ConfiguredDoc ==
    ASSUME NEW doc \in Docs
    PROVE  /\ doc.claim => current(doc) = doc
           /\ doc.tripped => current(doc) = doc
<1>1. Absent.claim = FALSE /\ Absent.tripped = FALSE
  BY DEF Absent, default_shadow
<1>2. doc \in SafetyState => doc.mode # "absent"
  BY DEF SafetyState, Modes
<1>3. QED
  BY <1>1, <1>2 DEF Docs, current, configured

\* A config change touches neither the claim nor its start stamp.
LEMMA ConfigKeepsClaim ==
    ASSUME NEW doc \in Docs, NEW m \in Modes, doc.claim
    PROVE  /\ set_actuation_config(doc, m).claim
           /\ set_actuation_config(doc, m).started = doc.started
<1>1. current(doc) = doc /\ doc \in SafetyState
  BY ConfiguredDoc, CurrentType
<1>2. QED
  BY <1>1 DEF set_actuation_config, SafetyState

\* Nor do the breaker's counters.
LEMMA OutcomeKeepsClaim ==
    ASSUME NEW doc \in Docs, NEW ok \in BOOLEAN, doc.claim
    PROVE  /\ record_cycle_outcome(doc, ok).claim
           /\ record_cycle_outcome(doc, ok).started = doc.started
           /\ record_refusal(doc).claim
           /\ record_refusal(doc).started = doc.started
<1>1. current(doc) = doc /\ doc \in SafetyState
  BY ConfiguredDoc, CurrentType
<1>2. QED
  BY <1>1 DEF record_cycle_outcome, record_refusal, SafetyState

LEMMA FlightInit == Init => SingleFlight /\ ClaimIsOwned
  BY DEF Init, SingleFlight, ClaimIsOwned, running, IdlePass

LEMMA FlightStep == IInv /\ [Next]_vars => SingleFlight' /\ ClaimIsOwned'
<1> SUFFICES ASSUME IInv, [Next]_vars
             PROVE  SingleFlight' /\ ClaimIsOwned'
  OBVIOUS
<1> USE DEF IInv, SingleFlight, ClaimIsOwned, running
<1>m. mem \in Docs /\ pass \in [Passes -> PassState]
  BY DEF TypeOK, Docs
\* While the daemon is not serving no pass runs.
<1>1. CASE Open
  BY <1>1 DEF Open
<1>2. CASE enable_live_actuation
  BY <1>2 DEF enable_live_actuation
<1>3. CASE BootWriteFails
  BY <1>3 DEF BootWriteFails
<1>4. CASE Stop
  BY <1>4 DEF Stop, IdlePass
<1>5. CASE Tick
  <2>1. SingleFlight'
    BY <1>m, <1>5 DEF Tick, PassState
  <2>2. ASSUME NEW p \in Passes, running(p)'
        PROVE  /\ phase' = "serving" /\ mem'.claim
               /\ mem'.started = pass'[p].age /\ pass'[p].age < ClaimStale
    <3>1. running(p) /\ pass[p].age + 1 < ClaimStale
      BY <1>m, <1>5, <2>2 DEF Tick
    <3>2. /\ mem.claim /\ mem.started = pass[p].age /\ phase = "serving"
          /\ pass[p].age \in 0..AgeCap
      BY <1>m, <3>1 DEF PassState
    <3>3. mem \in SafetyState
      BY <1>m, <3>2, ConfiguredDoc, CurrentType
    <3>4. mem.started # NoStart /\ older(pass[p].age) = pass[p].age + 1
      BY <3>1, <3>2 DEF NoStart, older
    <3>5. mem' = [mem EXCEPT !.started = pass[p].age + 1]
      BY <1>5, <3>2, <3>4 DEF Tick, agedDoc
    <3>6. mem'.claim /\ mem'.started = pass[p].age + 1
      BY <3>2, <3>3, <3>5 DEF SafetyState
    <3>7. pass'[p].age = pass[p].age + 1
      BY <1>m, <1>5, <3>1, <3>4 DEF Tick, PassState
    <3>8. QED
      BY <1>5, <3>1, <3>2, <3>6, <3>7 DEF Tick
  <2>3. QED
    BY <2>1, <2>2
<1>6. ASSUME NEW p \in Passes, PassStep(p) PROVE SingleFlight' /\ ClaimIsOwned'
  <2>1. CASE BeginCycle(p)
    <3>1. CASE beginGate(current(mem)) # "proceed"
      BY <2>1, <3>1 DEF BeginCycle
    <3>2. CASE beginGate(current(mem)) = "proceed"
      <4>1. \A q \in Passes : ~running(q)
        <5>1. SUFFICES ASSUME NEW q \in Passes, running(q) PROVE FALSE
          OBVIOUS
        <5>2. /\ mem.claim /\ mem.started = pass[q].age
              /\ pass[q].age < ClaimStale /\ pass[q].age \in 0..AgeCap
          BY <1>m, <5>1 DEF PassState
        <5>3. current(mem) = mem /\ mem \in SafetyState
          BY <1>m, <5>2, ConfiguredDoc, CurrentType
        <5>4. mem.started >= ClaimStale
          BY <3>2, <5>2, <5>3, ProceedMeansFree DEF NoStart
        <5>5. QED
          BY <5>2, <5>4
      <4>2. /\ mem' = claimed(current(mem)) /\ phase' = "serving"
            /\ pass' = [pass EXCEPT ![p] = [pc |-> "claimed", age |-> 0]]
        BY <2>1, <3>2 DEF BeginCycle, commit
      <4>3. mem'.claim /\ mem'.started = 0
        BY <1>m, <4>2, CurrentType DEF claimed, SafetyState
      <4>4. QED
        BY <1>m, <4>1, <4>2, <4>3
    <3>3. QED
      BY <3>1, <3>2
  <2>2. CASE Publish(p)
    BY <1>m, <2>2 DEF Publish, PassState
  <2>3. CASE EndCycle(p)
    BY <1>m, <2>3 DEF EndCycle, IdlePass
  <2>4. CASE Abandon(p)
    BY <1>m, <2>4 DEF Abandon, IdlePass
  <2>5. QED
    BY <1>6, <2>1, <2>2, <2>3, <2>4 DEF PassStep
<1>7. ASSUME NEW ok \in BOOLEAN, RecordOutcome(ok)
      PROVE  SingleFlight' /\ ClaimIsOwned'
  BY <1>m, <1>7, OutcomeKeepsClaim DEF RecordOutcome, commit
<1>8. CASE RecordRefusal
  BY <1>m, <1>8, OutcomeKeepsClaim DEF RecordRefusal, commit
<1>9. ASSUME NEW m \in Modes, SetActuationConfigRoute(m)
      PROVE  SingleFlight' /\ ClaimIsOwned'
  BY <1>m, <1>9, ConfigKeepsClaim DEF SetActuationConfigRoute, commit
\* The operator commands write the row, never the daemon's memory.
<1>10. CASE CliOpen
  BY <1>10 DEF CliOpen
<1>11. CASE CliClearBreaker
  BY <1>11 DEF CliClearBreaker
<1>12. ASSUME NEW m \in Modes, CliSetActuationConfig(m)
       PROVE  SingleFlight' /\ ClaimIsOwned'
  BY <1>12 DEF CliSetActuationConfig
<1>13. CASE UNCHANGED vars
  BY <1>13 DEF vars
<1>14. QED
  BY <1>1, <1>2, <1>3, <1>4, <1>5, <1>6, <1>7, <1>8, <1>9, <1>10, <1>11,
     <1>12, <1>13 DEF Next

LEMMA Inductive == Spec => []IInv
<1>1. Init => IInv
  BY TypeInit, FlightInit DEF IInv
<1>2. IInv /\ [Next]_vars => IInv'
  BY TypeStep, FlightStep DEF IInv
<1>3. QED
  BY <1>1, <1>2, PTL DEF Spec

\* begin_cycle admits one reconcile pass at a time, for any number of callers,
\* across crashes, abandoned passes, reclaimed claims and operator commands
\* that write the same row from another process.
THEOREM OnePassAtATime == Spec => []SingleFlight
  BY Inductive, PTL DEF IInv

\* The claim in the daemon's document is the running pass's own, and young.
THEOREM RunningPassOwnsClaim == Spec => []ClaimIsOwned
  BY Inductive, PTL DEF IInv

-----------------------------------------------------------------------------
(***************************************************************************)
(* What may release a tripped breaker.                                     *)
(***************************************************************************)

\* Beginning and ending a cycle, its outcome and a refusal keep the trip.
LEMMA CycleKeepsTrip ==
    ASSUME NEW doc \in Docs, doc.tripped
    PROVE  /\ claimed(current(doc)).tripped
           /\ end_cycle(doc).tripped
           /\ record_refusal(doc).tripped
           /\ \A ok \in BOOLEAN : record_cycle_outcome(doc, ok).tripped
<1>1. current(doc) = doc /\ doc \in SafetyState
  BY ConfiguredDoc, CurrentType
<1>2. QED
  BY <1>1 DEF claimed, end_cycle, record_refusal, record_cycle_outcome,
              SafetyState

\* While a daemon serves, no cycle un-trips the breaker: only a config change
\* does, which is what makes three strikes final until an operator looks.
THEOREM BreakerStaysTripped == Spec => TripIsSticky
<1> DEFINE Sticky == phase = "serving" /\ phase' = "serving"
                       /\ mem.tripped /\ ~mem'.tripped
                     => \E m \in Modes : SetActuationConfigRoute(m)
<1>1. TypeOK /\ [Next]_vars => Sticky
  <2>1. SUFFICES ASSUME TypeOK, Next, phase = "serving", phase' = "serving",
                        mem.tripped, ~mem'.tripped
                 PROVE  \E m \in Modes : SetActuationConfigRoute(m)
    BY DEF vars
  <2>2. mem \in Docs
    BY <2>1 DEF TypeOK, Docs
  <2>3. ~Open /\ ~enable_live_actuation /\ ~BootWriteFails /\ ~Stop
    BY <2>1 DEF Open, enable_live_actuation, BootWriteFails, Stop
  <2>4. ~Tick
    <3>1. mem \in SafetyState
      BY <2>1, <2>2, ConfiguredDoc, CurrentType
    <3>2. QED
      BY <2>1, <3>1 DEF Tick, agedDoc, SafetyState
  <2>5. \A p \in Passes : ~PassStep(p)
    BY <2>1, <2>2, CycleKeepsTrip
       DEF PassStep, BeginCycle, Publish, EndCycle, Abandon, commit
  <2>6. /\ ~RecordRefusal /\ \A ok \in BOOLEAN : ~RecordOutcome(ok)
    BY <2>1, <2>2, CycleKeepsTrip DEF RecordRefusal, RecordOutcome, commit
  <2>7. /\ ~CliOpen /\ ~CliClearBreaker
        /\ \A m \in Modes : ~CliSetActuationConfig(m)
    BY <2>1 DEF CliOpen, CliClearBreaker, CliSetActuationConfig
  <2>8. QED
    BY <2>1, <2>3, <2>4, <2>5, <2>6, <2>7 DEF Next
<1>2. QED
  BY <1>1, TypeCorrect, PTL DEF Spec, TripIsSticky

-----------------------------------------------------------------------------
(***************************************************************************)
(* What the stored document says of the past.  As long as no command has   *)
(* run beside a daemon, the row is the daemon's memory while it is up, a   *)
(* command's document is the row while it is down, a document that would   *)
(* apply is one the operator asked to apply, and its start stamp is that   *)
(* of the last pass that began.                                            *)
(***************************************************************************)
StoredInv ==
    /\ cli # NoCli => phase = "down" /\ cli = row
    /\ phase # "down" => mem = row
    /\ current(row).mode = "apply" \/ row.mode = "absent" => asked = "apply"
    /\ current(row).started = since

\* Only a config change changes the mode that is stored, and nothing but a
\* pass that begins changes its start stamp.
LEMMA Stored ==
    ASSUME NEW doc \in Docs
    PROVE  /\ \A m \in Modes :
                 /\ set_actuation_config(doc, m).mode = m
                 /\ set_actuation_config(doc, m).started = current(doc).started
           /\ \A ok \in BOOLEAN :
                 /\ record_cycle_outcome(doc, ok).mode = current(doc).mode
                 /\ record_cycle_outcome(doc, ok).started = current(doc).started
           /\ record_refusal(doc).mode = current(doc).mode
           /\ record_refusal(doc).started = current(doc).started
           /\ operator_clear_breaker(doc).mode = current(doc).mode
           /\ operator_clear_breaker(doc).started = current(doc).started
           /\ claimed(current(doc)).mode = current(doc).mode
           /\ claimed(current(doc)).started = 0
           /\ end_cycle(doc).mode = current(doc).mode
           /\ end_cycle(doc).started = current(doc).started
<1>1. current(doc) \in SafetyState
  BY CurrentType
<1>2. QED
  BY <1>1 DEF set_actuation_config, record_cycle_outcome, record_refusal,
              operator_clear_breaker, claimed, end_cycle, SafetyState

\* Time ages a document's stamp and keeps its mode.
LEMMA AgedStored ==
    ASSUME NEW doc \in Docs
    PROVE  /\ current(agedDoc(doc)).mode = current(doc).mode
           /\ (agedDoc(doc).mode = "absent") <=> (doc.mode = "absent")
           /\ current(agedDoc(doc)).started =
                IF current(doc).started = NoStart THEN NoStart
                ELSE older(current(doc).started)
<1>1. CASE doc = Absent
  <2>1. Absent.started = NoStart /\ Absent.mode = "absent"
    BY DEF Absent, default_shadow
  <2>2. current(Absent) = default_shadow /\ default_shadow.started = NoStart
    BY <2>1 DEF current, configured, default_shadow
  <2>3. QED
    BY <1>1, <2>1, <2>2 DEF agedDoc
<1>2. CASE doc \in SafetyState
  <2>1. agedDoc(doc) \in SafetyState
    BY <1>2, AgedType
  <2>2. \A d \in SafetyState : current(d) = d /\ d.mode # "absent"
    BY DEF SafetyState, Modes, current, configured
  <2>3. /\ agedDoc(doc).mode = doc.mode
        /\ agedDoc(doc).started = IF doc.started = NoStart THEN NoStart
                                  ELSE older(doc.started)
    BY <1>2 DEF agedDoc, SafetyState
  <2>4. QED
    BY <1>2, <2>1, <2>2, <2>3
<1>3. QED
  BY <1>1, <1>2 DEF Docs

LEMMA StoredStep ==
    TypeOK /\ ClaimIsOwned /\ (~behind => StoredInv) /\ [Next]_vars
      => (~behind => StoredInv)'
<1> SUFFICES ASSUME TypeOK, ClaimIsOwned, ~behind => StoredInv, [Next]_vars,
                    ~behind'
             PROVE  StoredInv'
  OBVIOUS
<1> USE DEF StoredInv
<1>b. ~behind
  BY DEF Next, vars, Open, enable_live_actuation, BootWriteFails, Stop, Tick,
         PassStep, BeginCycle, Publish, EndCycle, Abandon, RecordOutcome,
         RecordRefusal, SetActuationConfigRoute, CliOpen, CliClearBreaker,
         CliSetActuationConfig
<1>i. StoredInv
  BY <1>b
<1>d. mem \in Docs /\ row \in Docs
  BY DEF TypeOK, Docs
<1>c. cli # NoCli => cli \in Docs
  BY DEF TypeOK, Docs
<1>s. \A doc \in SafetyState : current(doc) = doc /\ doc.mode # "absent"
  BY DEF SafetyState, Modes, current, configured
<1>1. CASE Open
  BY <1>1, <1>i DEF Open
<1>2. CASE enable_live_actuation
  <2> DEFINE m == IF configured(mem) THEN mem.mode ELSE "apply"
  <2>1. mem = row
    BY <1>2, <1>i DEF enable_live_actuation
  <2>2. m \in Modes /\ (m = "apply" => asked = "apply")
    BY <1>d, <1>i, <1>s, <2>1
       DEF configured, current, Docs, SafetyState, Modes, Absent, default_shadow
  <2>3. /\ set_actuation_config(mem, m) \in SafetyState
        /\ set_actuation_config(mem, m).mode = m
        /\ set_actuation_config(mem, m).started = since
    BY <1>d, <1>i, <2>1, <2>2, MutatorTypes, Stored
  <2>4. QED
    BY <1>2, <1>i, <1>s, <2>2, <2>3 DEF enable_live_actuation, commit
<1>3. CASE BootWriteFails
  BY <1>3, <1>i DEF BootWriteFails
<1>4. CASE Stop
  BY <1>4, <1>i DEF Stop
<1>5. CASE Tick
  <2>1. /\ mem' = agedDoc(mem) /\ row' = agedDoc(row) /\ cli' = agedDoc(cli)
        /\ phase' = phase /\ asked' = asked
        /\ since' = IF since = NoStart THEN since ELSE older(since)
    BY <1>5 DEF Tick
  <2>2. /\ cli' # NoCli => phase' = "down" /\ cli' = row'
        /\ phase' # "down" => mem' = row'
    BY <1>i, <2>1, AgedType
  <2>3. current(row').mode = "apply" \/ row'.mode = "absent" => asked' = "apply"
    BY <1>d, <1>i, <2>1, AgedStored
  <2>4. current(row').started = since'
    BY <1>d, <1>i, <2>1, AgedStored
  <2>5. QED
    BY <2>2, <2>3, <2>4
<1>6. ASSUME NEW p \in Passes, PassStep(p) PROVE StoredInv'
  <2>1. /\ claimed(current(mem)) \in SafetyState
        /\ claimed(current(mem)).mode = current(mem).mode
        /\ claimed(current(mem)).started = 0
        /\ end_cycle(mem) \in SafetyState
        /\ end_cycle(mem).mode = current(mem).mode
        /\ end_cycle(mem).started = current(mem).started
    BY <1>d, MutatorTypes, Stored
  <2>2. CASE BeginCycle(p)
    <3>1. CASE gate' = "proceed"
      BY <1>i, <1>s, <2>1, <2>2, <3>1 DEF BeginCycle, commit
    <3>2. CASE gate' # "proceed"
      BY <1>i, <2>2, <3>2 DEF BeginCycle
    <3>3. QED
      BY <3>1, <3>2
  <2>3. CASE Publish(p)
    BY <1>i, <2>3 DEF Publish
  <2>4. CASE EndCycle(p)
    <3>1. phase = "serving" /\ mem = row
      BY <1>6, <1>i, <2>4 DEF EndCycle, ClaimIsOwned
    <3>2. /\ mem' = end_cycle(mem) /\ row' = end_cycle(mem)
          /\ cli' = cli /\ phase' = phase /\ asked' = asked /\ since' = since
      BY <2>4 DEF EndCycle, commit
    <3>3. QED
      BY <1>i, <1>s, <2>1, <3>1, <3>2
  <2>5. CASE Abandon(p)
    BY <1>i, <2>5 DEF Abandon
  <2>6. QED
    BY <1>6, <2>2, <2>3, <2>4, <2>5 DEF PassStep
<1>7. ASSUME NEW ok \in BOOLEAN, RecordOutcome(ok) PROVE StoredInv'
  <2>1. /\ record_cycle_outcome(mem, ok) \in SafetyState
        /\ record_cycle_outcome(mem, ok).mode = current(mem).mode
        /\ record_cycle_outcome(mem, ok).started = current(mem).started
    BY <1>d, MutatorTypes, Stored
  <2>2. QED
    BY <1>7, <1>i, <1>s, <2>1 DEF RecordOutcome, commit
<1>8. CASE RecordRefusal
  <2>1. /\ record_refusal(mem) \in SafetyState
        /\ record_refusal(mem).mode = current(mem).mode
        /\ record_refusal(mem).started = current(mem).started
    BY <1>d, MutatorTypes, Stored
  <2>2. QED
    BY <1>8, <1>i, <1>s, <2>1 DEF RecordRefusal, commit
<1>9. ASSUME NEW m \in Modes, SetActuationConfigRoute(m) PROVE StoredInv'
  <2> DEFINE d == set_actuation_config(mem, m)
  <2>1. d \in SafetyState /\ d.mode = m /\ d.started = current(mem).started
    BY <1>d, MutatorTypes, Stored
  <2>2. QED
    BY <1>9, <1>i, <1>s, <2>1 DEF SetActuationConfigRoute, commit
\* A command that runs beside no daemon writes back what it read.
<1>10. CASE CliOpen
  BY <1>10, <1>i DEF CliOpen
<1>11. CASE CliClearBreaker
  <2>1. cli = row /\ phase = "down"
    BY <1>11, <1>i DEF CliClearBreaker
  <2>2. /\ operator_clear_breaker(row) \in SafetyState
        /\ operator_clear_breaker(row).mode = current(row).mode
        /\ operator_clear_breaker(row).started = current(row).started
    BY <1>d, MutatorTypes, Stored
  <2>3. /\ row' = operator_clear_breaker(row) /\ cli' = NoCli
        /\ phase' = phase /\ asked' = asked /\ since' = since
    BY <1>11, <2>1 DEF CliClearBreaker
  <2>4. QED
    BY <1>i, <1>s, <2>1, <2>2, <2>3
<1>12. ASSUME NEW m \in Modes, CliSetActuationConfig(m) PROVE StoredInv'
  <2>1. cli = row /\ phase = "down"
    BY <1>12, <1>i DEF CliSetActuationConfig
  <2>2. /\ set_actuation_config(row, m) \in SafetyState
        /\ set_actuation_config(row, m).mode = m
        /\ set_actuation_config(row, m).started = current(row).started
    BY <1>d, MutatorTypes, Stored
  <2>3. /\ row' = set_actuation_config(row, m) /\ cli' = NoCli
        /\ phase' = phase /\ asked' = m /\ since' = since
    BY <1>12, <2>1 DEF CliSetActuationConfig
  <2>4. QED
    BY <1>i, <1>s, <2>1, <2>2, <2>3
<1>13. CASE UNCHANGED vars
  BY <1>13, <1>i DEF vars
<1>14. QED
  BY <1>1, <1>2, <1>3, <1>4, <1>5, <1>6, <1>7, <1>8, <1>9, <1>10, <1>11,
     <1>12, <1>13 DEF Next

LEMMA StoredAlways == Spec => [](~behind => StoredInv)
<1>1. Init => StoredInv
  BY DEF Init, StoredInv, current, configured, Absent, default_shadow
<1>2. QED
  BY <1>1, StoredStep, Inductive, PTL DEF Spec, IInv

\* A step in which a pass begins is its begin_cycle, and a step in which one
\* publishes is its publication.
LEMMA WhoseStep ==
    ASSUME TypeOK, ClaimIsOwned, Next, NEW p \in Passes
    PROVE  /\ ~running(p) /\ pass'[p].pc = "claimed" => BeginCycle(p)
           /\ pass[p].pc = "claimed" /\ pass'[p].pc = "published" => Publish(p)
<1>1. pass \in [Passes -> PassState]
  BY DEF TypeOK
<1>2. CASE \E q \in Passes : PassStep(q)
  BY <1>1, <1>2 DEF PassStep, BeginCycle, Publish, EndCycle, Abandon,
                    IdlePass, running
<1>3. CASE Stop \/ Tick
  BY <1>1, <1>3 DEF Stop, Tick, IdlePass, PassState, running
<1>4. CASE pass' = pass
  BY <1>4 DEF running
<1>5. QED
  BY <1>2, <1>3, <1>4
     DEF Next, Open, enable_live_actuation, BootWriteFails, RecordOutcome,
         RecordRefusal, SetActuationConfigRoute, CliOpen, CliClearBreaker,
         CliSetActuationConfig

\* A company put in shadow stays in shadow: across restarts, failed boot writes,
\* abandoned passes and commands run while it is down, no pass publishes an
\* actuating set until the operator asks for one.
THEOREM ShadowIsKept == Spec => PublishRespectsOperator
<1> DEFINE Respects ==
      \A p \in Passes :
         pass[p].pc = "claimed" /\ pass'[p].pc = "published"
             /\ published' = "apply" /\ ~behind
         => asked = "apply"
<1>1. TypeOK /\ ClaimIsOwned /\ (~behind => StoredInv) /\ [Next]_vars
        => [Respects]_vars
  <2>1. SUFFICES ASSUME TypeOK, ClaimIsOwned, StoredInv, Next,
                        NEW p \in Passes,
                        pass[p].pc = "claimed", pass'[p].pc = "published",
                        published' = "apply"
                 PROVE  asked = "apply"
    OBVIOUS
  <2>2. Publish(p)
    BY <2>1, WhoseStep
  <2>3. mem = row /\ effectiveMode(current(mem)) = "apply"
    BY <2>1, <2>2 DEF Publish, ClaimIsOwned, running, StoredInv
  <2>4. QED
    BY <2>1, <2>3 DEF effectiveMode, StoredInv
<1>2. QED
  BY <1>1, StoredAlways, Inductive, PTL DEF Spec, IInv, PublishRespectsOperator

\* Two passes never begin within the floor of each other, also when the first
\* was abandoned or lost to a restart.
THEOREM FloorIsKept == Spec => FloorHolds
<1> DEFINE Spaced ==
      \A p \in Passes :
         ~running(p) /\ pass'[p].pc = "claimed" /\ ~behind
         => since = NoStart \/ since >= Floor
<1>1. TypeOK /\ ClaimIsOwned /\ (~behind => StoredInv) /\ [Next]_vars
        => [Spaced]_vars
  <2>1. SUFFICES ASSUME TypeOK, ClaimIsOwned, StoredInv, Next,
                        NEW p \in Passes,
                        ~running(p), pass'[p].pc = "claimed"
                 PROVE  since = NoStart \/ since >= Floor
    OBVIOUS
  <2>2. BeginCycle(p)
    BY <2>1, WhoseStep
  <2>3. gate' = "proceed" /\ gate' = beginGate(current(mem))
    BY <2>1, <2>2 DEF BeginCycle, running
  <2>4. ~floorBlocks(current(mem)) /\ current(mem).started = since
    BY <2>1, <2>2, <2>3 DEF beginGate, BeginCycle, StoredInv
  <2>5. since \in NoStart..AgeCap
    BY <2>1 DEF TypeOK
  <2>6. QED
    BY <2>4, <2>5 DEF floorBlocks, NoStart
<1>2. QED
  BY <1>1, StoredAlways, Inductive, PTL DEF Spec, IInv, FloorHolds

=============================================================================
