--------------------------- MODULE AdmissionProofs ---------------------------
(***************************************************************************)
(* Proofs about Admission, for every set of pids and of commands, every    *)
(* number of faults and every selection of requests.                       *)
(***************************************************************************)
EXTENDS Admission, TLAPS

USE NamesAssumption, BoundsAssumption DEF Leaving

\* What a command waits for, or goes on to, is a command's state.
LEMMA ClientType ==
    ASSUME NEW c \in Clients, client \in [Clients -> Client],
           NEW to \in {"idle", "await", "start", "spawn", "wait", "delete", "unlist"},
           NEW p \in Pids \cup {NoPid},
           NEW next \in {"idle", "start", "spawn", "delete"},
           Waits(c, to, p, next)
    PROVE  client' \in [Clients -> Client]
  BY DEF Waits, Client

LEMMA GoesType ==
    ASSUME NEW c \in Clients, client \in [Clients -> Client],
           NEW to \in {"idle", "start", "spawn", "delete", "unlist"},
           Goes(c, to)
    PROVE  client' \in [Clients -> Client]
  BY ClientType DEF Goes

\* Stopping the published daemon leaves a known stage and a known client state.
LEMMA StopType ==
    ASSUME NEW c \in Clients, TypeOK,
           NEW next \in {"idle", "start", "spawn", "delete"}, StopDaemon(c, next)
    PROVE  /\ client' \in [Clients -> Client]
           /\ daemon' \in [Pids -> Stages]
<1>1. CASE Published
  <2>1. rendezvous \in Pids
    BY <1>1 DEF Published
  <2>2. client' \in [Clients -> Client]
    BY <1>1, <2>1, ClientType DEF StopDaemon, TypeOK
  <2>3. daemon' \in [Pids -> Stages]
    BY <1>1, <2>1 DEF StopDaemon, TypeOK, Becomes, Stages
  <2>4. QED
    BY <2>2, <2>3
<1>2. CASE ~Published
  BY <1>2, GoesType DEF StopDaemon, TypeOK
<1>3. QED
  BY <1>1, <1>2

\* A spent request is within the bound.
LEMMA SpendType ==
    ASSUME NEW verb, Spend(verb), requests \in 0..MaxRequests
    PROVE  requests' \in 0..MaxRequests
  BY DEF Spend

-----------------------------------------------------------------------------
(* The type invariant *)

LEMMA TypeInit == Init => TypeOK
<1>1. Idle \in Client
  BY DEF Idle, Client
<1>2. 0 \in 0..MaxRequests
  OBVIOUS
<1>3. QED
  BY <1>1, <1>2 DEF Init, TypeOK, Stages

LEMMA TypeBeacond ==
    ASSUME TypeOK, NEW p \in Pids, Beacond(p)
    PROVE  TypeOK'
<1> USE DEF TypeOK, Told
<1>1. CASE register(p)
  BY <1>1 DEF register
<1>2. CASE create(p)
  BY <1>2 DEF create, upserted
<1>3. CASE deregister(p)
  BY <1>3 DEF deregister, cleared
<1>4. QED
  BY <1>1, <1>2, <1>3 DEF Beacond

LEMMA TypeDaemon ==
    ASSUME TypeOK, NEW p \in Pids, DaemonStep(p)
    PROVE  TypeOK'
<1> USE DEF TypeOK, Becomes, Call, Stages
<1>1. CASE Admitted(p)
  BY <1>1 DEF Admitted
<1>2. CASE Refused(p)
  BY <1>2 DEF Refused
<1>3. CASE SelfRegister(p)
  BY <1>3 DEF SelfRegister
<1>4. CASE Retry(p)
  BY <1>4 DEF Retry
<1>5. CASE Open(p)
  BY <1>5 DEF Open
<1>6. CASE Publish(p)
  BY <1>6 DEF Publish
<1>7. CASE Drained(p)
  BY <1>7 DEF Drained
<1>8. CASE Deregistered(p)
  BY <1>8 DEF Deregistered, Afterwards
<1>9. CASE Unpublish(p)
  BY <1>9 DEF Unpublish
<1>10. CASE CallLost(p)
  BY <1>10 DEF CallLost, Unheard, Afterwards
<1>11. CASE Exited(p)
  BY <1>11 DEF Exited
<1>12. QED
  BY <1>1, <1>2, <1>3, <1>4, <1>5, <1>6, <1>7, <1>8, <1>9, <1>10, <1>11
     DEF DaemonStep

LEMMA TypeClient ==
    ASSUME TypeOK, NEW c \in Clients,
           ClientStep(c) \/ Attach(c) \/ Stop(c) \/ Remove(c) \/ Genesis(c)
           \/ StaleBuild(c)
    PROVE  TypeOK'
<1>1. CASE Gone(c)
  <2>1. client[c].next \in {"idle", "start", "spawn", "delete"}
    BY DEF TypeOK, Client
  <2>2. QED
    BY <1>1, <2>1, GoesType DEF Gone, TypeOK
<1>2. CASE Escalate(c)
  <2>1. client[c].next \in {"idle", "start", "spawn", "delete"}
    BY DEF TypeOK, Client
  <2>2. client' \in [Clients -> Client]
    BY <1>2, <2>1, GoesType DEF Escalate, TypeOK
  <2>3. daemon' \in [Pids -> Stages]
    BY <1>2 DEF Escalate, Becomes, TypeOK, Stages
  <2>4. QED
    BY <1>2, <2>2, <2>3 DEF Escalate, TypeOK
<1>3. CASE Start(c)
  BY <1>3, GoesType DEF Start, TypeOK
<1>4. CASE Spawn(c)
  <2>1. PICK p \in Pids : Call(p, "register", "registering") /\ Waits(c, "wait", p, "idle")
    BY <1>4 DEF Spawn
  <2>2. client' \in [Clients -> Client]
    BY <2>1, ClientType DEF TypeOK
  <2>3. daemon' \in [Pids -> Stages]
    BY <2>1 DEF Call, TypeOK, Stages
  <2>4. QED
    BY <1>4, <2>1, <2>2, <2>3 DEF Spawn, Call, TypeOK
<1>5. CASE Started(c)
  BY <1>5, GoesType DEF Started, TypeOK
<1>6. CASE Delete(c)
  BY <1>6, GoesType DEF Delete, TypeOK
<1>7. CASE Unlist(c)
  BY <1>7, GoesType DEF Unlist, Withdraw, TypeOK
<1>8. CASE Attach(c)
  BY <1>8, StopType DEF Attach, TypeOK
<1>9. CASE Stop(c)
  BY <1>9, StopType, SpendType DEF Stop, TypeOK
<1>10. CASE Remove(c)
  BY <1>10, StopType, SpendType DEF Remove, TypeOK
<1>11. CASE Genesis(c)
  BY <1>11, GoesType, SpendType DEF Genesis, upserted, TypeOK
<1>12. CASE StaleBuild(c)
  BY <1>12, StopType, SpendType DEF StaleBuild, TypeOK
<1>13. QED
  BY <1>1, <1>2, <1>3, <1>4, <1>5, <1>6, <1>7, <1>8, <1>9, <1>10, <1>11, <1>12
     DEF ClientStep

LEMMA TypeFault ==
    ASSUME TypeOK, Fault
    PROVE  TypeOK'
<1>1. CASE LoseRow
  BY <1>1, SpendType DEF LoseRow, Withdraw, TypeOK
<1>2. ASSUME NEW p \in Pids,
             DropCall(p) \/ StartupFails(p) \/ FatalHandoff(p) \/ DrainTimesOut(p)
             \/ CallTimesOut(p) \/ Killed(p) \/ Recycled(p)
      PROVE  TypeOK'
  <2> USE DEF TypeOK, Becomes, Call, Stages
  <2>1. CASE DropCall(p)
    BY <2>1, SpendType DEF DropCall
  <2>2. CASE StartupFails(p)
    BY <2>2, SpendType DEF StartupFails
  <2>3. CASE FatalHandoff(p)
    BY <2>3, SpendType DEF FatalHandoff
  <2>4. CASE CallTimesOut(p)
    BY <2>4, SpendType DEF CallTimesOut, Unheard, Afterwards
  <2>5. CASE Killed(p)
    BY <2>5, SpendType DEF Killed
  <2>6. CASE Recycled(p)
    BY <2>6, SpendType DEF Recycled
  <2>7. CASE DrainTimesOut(p)
    BY <2>7, SpendType DEF DrainTimesOut
  <2>8. QED
    BY <1>2, <2>1, <2>2, <2>3, <2>4, <2>5, <2>6, <2>7
<1>3. ASSUME NEW c \in Clients, StartTimesOut(c) \/ Vanish(c)
      PROVE  TypeOK'
  <2>1. CASE StartTimesOut(c)
    <3>1. client[c].pid \in Pids \cup {NoPid}
      BY DEF TypeOK, Client
    <3>2. client' \in [Clients -> Client]
      BY <2>1, <3>1, ClientType DEF StartTimesOut, TypeOK
    <3>3. daemon' \in [Pids -> Stages]
      BY <2>1, <3>1 DEF StartTimesOut, Becomes, Signalled, TypeOK, Stages
    <3>4. QED
      BY <2>1, <3>2, <3>3, SpendType DEF StartTimesOut, TypeOK
  <2>2. CASE Vanish(c)
    BY <2>2, GoesType, SpendType DEF Vanish, TypeOK
  <2>3. QED
    BY <1>3, <2>1, <2>2
<1>4. QED
  BY <1>1, <1>2, <1>3 DEF Fault

LEMMA TypeStep == TypeOK /\ [Next]_vars => TypeOK'
<1> SUFFICES ASSUME TypeOK, [Next]_vars PROVE TypeOK'
  OBVIOUS
<1>1. ASSUME NEW p \in Pids, StrangerExits(p) \/ WriterEnds(p) PROVE TypeOK'
  BY <1>1 DEF StrangerExits, WriterEnds, Becomes, TypeOK, Stages
<1>2. CASE UNCHANGED vars
  BY <1>2 DEF vars, TypeOK
<1>3. QED
  BY <1>1, <1>2, TypeBeacond, TypeDaemon, TypeClient, TypeFault DEF Next

\* Every reachable state is well-formed, whatever the daemons, the commands, the
\* registry and the faults do.
THEOREM TypeCorrect == Spec => []TypeOK
<1>1. QED
  BY TypeInit, TypeStep, PTL DEF Spec

-----------------------------------------------------------------------------
(***************************************************************************)
(* The row names its holder.  By itself this is not inductive: a late      *)
(* deregistration could clear the row of the daemon that sent it.  None    *)
(* does, because a daemon sends it when it no longer holds the row and a   *)
(* pid is not a daemon's again while the call is in flight.                *)
(***************************************************************************)

\* The stages of a process that asked for its location to be cleared, and of
\* whoever has its pid afterwards.
LetGo == Leaving \cup {"withdrawing", "departing", "departing-busy",
                       "exiting-busy", "none", "foreign"}
USE DEF LetGo

\* A daemon that asked for its location to be cleared holds it no more.
HasLetGo == \A p \in Pids : "deregister" \in calls[p] => daemon[p] \in LetGo

Inv == TypeOK /\ HasLetGo /\ RowNamesHolder

\* A holder's process is running.
LEMMA HoldersLive == \A p \in Holders : p \in Pids /\ pid_is_live(p)
  BY DEF Holders, Writers, Registering, pid_is_live

\* A step that leaves the registry alone and makes no daemon a holder keeps the
\* row right.
LEMMA KeepsRow ==
    ASSUME RowNamesHolder, UNCHANGED <<row, torn>>, Holders' \subseteq Holders
    PROVE  RowNamesHolder'
  BY DEF RowNamesHolder

LEMMA InvInit == Init => Inv
<1> SUFFICES ASSUME Init PROVE Inv
  OBVIOUS
<1>1. HasLetGo
  BY DEF Init, HasLetGo
<1>2. RowNamesHolder
  BY DEF Init, RowNamesHolder, Holders, Writers, Registering
<1>3. QED
  BY <1>1, <1>2, TypeInit DEF Inv

\* Fewer calls in flight and the same stages: nobody lets go.
LEMMA LetGoKept ==
    ASSUME HasLetGo, UNCHANGED daemon,
           \A p \in Pids : calls'[p] \subseteq calls[p]
    PROVE  HasLetGo'
  BY DEF HasLetGo

LEMMA InvBeacond ==
    ASSUME Inv, NEW p \in Pids, Beacond(p)
    PROVE  HasLetGo' /\ RowNamesHolder'
<1> USE DEF Inv
<1>1. HasLetGo'
  <2>1. UNCHANGED daemon /\ \A q \in Pids : calls'[q] \subseteq calls[q]
    BY DEF Beacond, register, create, deregister, TypeOK
  <2>2. QED
    BY <2>1, LetGoKept
<1>2. CASE register(p)
  <2>1. CASE row' = row
    <3>1. Holders' \subseteq Holders \/ (row' = p /\ Holders' \subseteq Holders \cup {p})
      BY <1>2, <2>1 DEF register, Told, Holders, Writers, Registering, TypeOK
    <3>2. QED
      BY <1>1, <1>2, <2>1, <3>1 DEF register, RowNamesHolder
  <2>2. CASE row' # row
    <3>1. row' = p /\ ~Occupied(p) /\ UNCHANGED torn
      BY <1>2, <2>2 DEF register
    <3>2. Holders' \subseteq Holders \cup {p}
      BY <1>2, <3>1 DEF register, Told, Holders, Writers, Registering, TypeOK
    <3>3. ~torn => Holders \subseteq {p}
      BY <3>1, HoldersLive DEF RowNamesHolder, Occupied
    <3>4. QED
      BY <1>1, <3>1, <3>2, <3>3 DEF RowNamesHolder
  <2>3. QED
    BY <2>1, <2>2
<1>3. CASE create(p)
  <2>1. Holders' = Holders /\ UNCHANGED torn
    BY <1>3 DEF create, Told, Holders, Writers, Registering, TypeOK
  <2>2. row \in Pids => row' = row
    BY <1>3 DEF create, upserted
  <2>3. QED
    BY <1>1, <2>1, <2>2, HoldersLive DEF RowNamesHolder
<1>4. CASE deregister(p)
  <2>1. Holders' = Holders /\ UNCHANGED torn
    BY <1>4 DEF deregister, Told, Holders, Writers, Registering, TypeOK
  <2>2. p \notin Holders
    BY <1>4 DEF deregister, HasLetGo, Holders, Writers, Registering
  <2>3. row # p => row' = row
    BY <1>4 DEF deregister, cleared
  <2>4. QED
    BY <1>1, <2>1, <2>2, <2>3 DEF RowNamesHolder
<1>5. QED
  BY <1>1, <1>2, <1>3, <1>4 DEF Beacond

\* A process takes a step of its own: another stage, without a new call.
LEMMA InvStage ==
    ASSUME Inv, NEW p \in Pids, NEW stage \in Stages, Becomes(p, stage),
           UNCHANGED <<row, calls, answer, torn>>,
           p \in Holders' => p \in Holders,
           stage \in LetGo
           \/ "deregister" \notin calls[p]
    PROVE  HasLetGo' /\ RowNamesHolder'
<1> USE DEF Inv, Becomes
<1>1. HasLetGo'
  BY DEF HasLetGo, TypeOK
<1>2. Holders' \subseteq Holders
  BY DEF Holders, Writers, Registering, TypeOK
<1>3. QED
  BY <1>1, <1>2, KeepsRow

\* A daemon calls beacond: to be admitted, when no deregistration of its own is
\* in flight, or to be cleared, when it is on its way out.
LEMMA InvCall ==
    ASSUME Inv, NEW p \in Pids, NEW op, NEW stage, Call(p, op, stage),
           UNCHANGED <<row, torn>>,
           \/ op = "deregister" /\ stage \in Leaving \cup {"withdrawing"}
           \/ /\ op \in {"register", "create"}
              /\ stage \in {"registering", "retrying", "creating"}
              /\ "deregister" \notin calls[p]
    PROVE  HasLetGo' /\ RowNamesHolder'
<1> USE DEF Inv, Call
<1>1. HasLetGo'
  BY DEF HasLetGo, TypeOK
<1>2. Holders' \subseteq Holders
  BY DEF Holders, Writers, Registering, TypeOK
<1>3. QED
  BY <1>1, <1>2, KeepsRow

LEMMA InvDaemon ==
    ASSUME Inv, NEW p \in Pids, DaemonStep(p)
    PROVE  HasLetGo' /\ RowNamesHolder'
<1> USE DEF Inv
<1>1. daemon[p] \notin LetGo => "deregister" \notin calls[p]
  BY DEF HasLetGo
<1>2. CASE Admitted(p)
  <2>1. p \in Holders
    BY <1>2 DEF Admitted, Holders
  <2>2. QED
    BY <1>1, <1>2, <2>1, InvStage DEF Admitted, Registering, Stages
<1>3. CASE Refused(p)
  <2>1. p \notin Holders'
    BY <1>3 DEF Refused, Becomes, Holders, Writers, Registering, TypeOK
  <2>2. QED
    BY <1>3, <2>1, InvStage DEF Refused, Stages
<1>4. CASE SelfRegister(p)
  BY <1>1, <1>4, InvCall DEF SelfRegister
<1>5. CASE Retry(p)
  BY <1>1, <1>5, InvCall DEF Retry
<1>6. CASE Open(p)
  <2>1. p \in Holders
    BY <1>6 DEF Open, Holders
  <2>2. QED
    BY <1>1, <1>6, <2>1, InvStage DEF Open, Stages
<1>7. CASE Publish(p)
  <2>1. p \in Holders
    BY <1>7 DEF Publish, Holders, Writers
  <2>2. QED
    BY <1>1, <1>7, <2>1, InvStage DEF Publish, Stages
<1>8. CASE Drained(p)
  BY <1>8, InvCall DEF Drained
<1>9. CASE Deregistered(p)
  <2>1. Afterwards(p) \in {"departing", "departing-busy", "none"}
    BY DEF Afterwards
  <2>2. p \notin Holders'
    BY <1>9, <2>1 DEF Deregistered, Becomes, Holders, Writers, Registering, TypeOK
  <2>3. QED
    BY <1>9, <2>1, <2>2, InvStage DEF Deregistered, Stages
<1>10. CASE Unpublish(p)
  <2>1. PICK stage \in {"none", "exiting-busy"} : Becomes(p, stage)
    BY <1>10 DEF Unpublish
  <2>2. p \notin Holders'
    BY <2>1 DEF Becomes, Holders, Writers, Registering, TypeOK
  <2>3. QED
    BY <1>10, <2>1, <2>2, InvStage DEF Unpublish, Stages
<1>11. CASE CallLost(p)
  <2>1. Afterwards(p) \in {"departing", "departing-busy", "none"}
    BY DEF Afterwards
  <2>2. p \notin Holders'
    BY <1>11, <2>1 DEF CallLost, Unheard, Becomes, Holders, Writers, Registering, TypeOK
  <2>3. QED
    BY <1>11, <2>1, <2>2, InvStage DEF CallLost, Unheard, Stages
<1>12. CASE Exited(p)
  <2>1. p \notin Holders'
    BY <1>12 DEF Exited, Becomes, Holders, Writers, Registering, TypeOK
  <2>2. QED
    BY <1>12, <2>1, InvStage DEF Exited, Stages
<1>13. QED
  BY <1>2, <1>3, <1>4, <1>5, <1>6, <1>7, <1>8, <1>9, <1>10, <1>11, <1>12
     DEF DaemonStep

\* Steps that concern neither the registry nor a process.
LEMMA InvElsewhere ==
    ASSUME Inv, UNCHANGED <<row, daemon, calls, answer, torn>>
    PROVE  HasLetGo' /\ RowNamesHolder'
<1>1. HasLetGo'
  BY DEF Inv, HasLetGo
<1>2. Holders' \subseteq Holders
  BY DEF Holders, Writers, Registering
<1>3. QED
  BY <1>1, <1>2, KeepsRow DEF Inv

\* A row that is withdrawn was nobody's, or the loss is recorded.
LEMMA InvWithdraw ==
    ASSUME Inv, Withdraw, UNCHANGED <<daemon, calls, answer>>
    PROVE  HasLetGo' /\ RowNamesHolder'
<1>1. HasLetGo'
  BY DEF Inv, HasLetGo
<1>2. Holders' = Holders
  BY DEF Holders, Writers, Registering
<1>3. QED
  BY <1>1, <1>2 DEF Withdraw, RowNamesHolder

\* Only a serving daemon, which holds the row, answers a stop.
LEMMA InvStop ==
    ASSUME Inv, NEW c \in Clients, NEW next, StopDaemon(c, next),
           UNCHANGED <<row, calls, answer, torn>>
    PROVE  HasLetGo' /\ RowNamesHolder'
<1>1. CASE Healthy
  <2>1. rendezvous \in Pids /\ daemon[rendezvous] = "serving"
    BY <1>1 DEF Healthy, Published
  <2>2. rendezvous \in Holders /\ "deregister" \notin calls[rendezvous]
    BY <2>1 DEF Inv, HasLetGo, Holders, Writers
  <2>3. Becomes(rendezvous, "closing")
    BY <1>1 DEF StopDaemon, Healthy
  <2>4. QED
    BY <2>1, <2>2, <2>3, InvStage DEF Stages
<1>2. CASE ~Healthy
  <2>1. UNCHANGED daemon
    BY <1>2 DEF StopDaemon
  <2>2. QED
    BY <2>1, InvElsewhere
<1>3. QED
  BY <1>1, <1>2

LEMMA InvClient ==
    ASSUME Inv, NEW c \in Clients,
           ClientStep(c) \/ Attach(c) \/ Stop(c) \/ Remove(c) \/ Genesis(c)
           \/ StaleBuild(c)
    PROVE  HasLetGo' /\ RowNamesHolder'
<1>1. CASE Gone(c) \/ Start(c) \/ Started(c) \/ Delete(c)
  BY <1>1, InvElsewhere DEF Gone, Start, Started, Delete
<1>2. CASE Escalate(c)
  <2>1. client[c].pid \in Pids \/ client[c].pid = NoPid
    BY DEF Inv, TypeOK, Client
  <2>2. CASE client[c].pid \in Pids
    <3>1. client[c].pid \notin Holders'
      BY <1>2, <2>2 DEF Escalate, Becomes, Inv, TypeOK, Holders, Writers, Registering
    <3>2. QED
      BY <1>2, <2>2, <3>1, InvStage DEF Escalate, Stages
  <2>3. CASE client[c].pid = NoPid
    <3>1. UNCHANGED daemon
      BY <1>2, <2>3 DEF Escalate, Becomes, Inv, TypeOK
    <3>2. QED
      BY <1>2, <3>1, InvElsewhere DEF Escalate
  <2>4. QED
    BY <2>1, <2>2, <2>3
<1>3. CASE Spawn(c)
  BY <1>3, InvCall DEF Spawn
<1>4. CASE Unlist(c)
  BY <1>4, InvWithdraw DEF Unlist
<1>5. CASE Attach(c) \/ Stop(c) \/ Remove(c) \/ StaleBuild(c)
  BY <1>5, InvStop DEF Attach, Stop, Remove, StaleBuild
<1>6. CASE Genesis(c)
  <2>1. Holders' = Holders /\ UNCHANGED torn
    BY <1>6 DEF Genesis, Holders, Writers, Registering
  <2>2. row \in Pids => row' = row
    BY <1>6 DEF Genesis, upserted
  <2>3. HasLetGo'
    BY <1>6 DEF Genesis, Inv, HasLetGo
  <2>4. QED
    BY <2>1, <2>2, <2>3, HoldersLive DEF Inv, RowNamesHolder
<1>7. QED
  BY <1>1, <1>2, <1>3, <1>4, <1>5, <1>6 DEF ClientStep

LEMMA InvFault ==
    ASSUME Inv, Fault
    PROVE  HasLetGo' /\ RowNamesHolder'
<1>1. CASE LoseRow
  BY <1>1, InvWithdraw DEF LoseRow
<1>2. ASSUME NEW p \in Pids, DropCall(p) PROVE HasLetGo' /\ RowNamesHolder'
  <2>1. \A q \in Pids : calls'[q] \subseteq calls[q]
    BY <1>2 DEF DropCall, Inv, TypeOK
  <2>2. Holders' \subseteq Holders
    BY <1>2 DEF DropCall, Holders, Writers, Registering
  <2>3. QED
    BY <1>2, <2>1, <2>2, LetGoKept, KeepsRow DEF DropCall, Inv
<1>3. ASSUME NEW p \in Pids, StartupFails(p) PROVE HasLetGo' /\ RowNamesHolder'
  BY <1>3, InvCall DEF StartupFails
<1>4. ASSUME NEW p \in Pids, FatalHandoff(p) PROVE HasLetGo' /\ RowNamesHolder'
  <2>1. p \in Holders /\ "deregister" \notin calls[p]
    BY <1>4 DEF FatalHandoff, Inv, HasLetGo, Holders, Writers
  <2>2. QED
    BY <1>4, <2>1, InvStage DEF FatalHandoff, Stages
<1>5. ASSUME NEW p \in Pids, CallTimesOut(p) PROVE HasLetGo' /\ RowNamesHolder'
  <2>1. Afterwards(p) \in {"departing", "departing-busy", "none"}
    BY DEF Afterwards
  <2>2. p \notin Holders'
    BY <1>5, <2>1 DEF CallTimesOut, Unheard, Becomes, Inv, TypeOK, Holders, Writers,
                      Registering
  <2>3. QED
    BY <1>5, <2>1, <2>2, InvStage DEF CallTimesOut, Unheard, Stages
<1>6. ASSUME NEW p \in Pids, Killed(p) \/ Recycled(p) PROVE HasLetGo' /\ RowNamesHolder'
  <2>1. PICK stage \in {"none", "foreign"} : Becomes(p, stage)
    BY <1>6 DEF Killed, Recycled
  <2>2. p \notin Holders'
    BY <2>1 DEF Becomes, Inv, TypeOK, Holders, Writers, Registering
  <2>3. QED
    BY <1>6, <2>1, <2>2, InvStage DEF Killed, Recycled, Stages
<1>7. ASSUME NEW c \in Clients, StartTimesOut(c) PROVE HasLetGo' /\ RowNamesHolder'
  <2> DEFINE p == client[c].pid
  <2>1. p \in Pids \/ p = NoPid
    BY DEF Inv, TypeOK, Client
  <2>2. CASE p \in Pids
    <3>1. Signalled(p) \in Stages
      BY <2>2 DEF Signalled, Abandoned, Stages
    <3>2. p \in Holders' => p \in Holders
      BY <1>7, <2>2 DEF StartTimesOut, Signalled, Abandoned, Becomes, Inv, TypeOK,
                        Holders, Writers, Registering
    <3>3. \/ Signalled(p) \in LetGo
          \/ "deregister" \notin calls[p]
      BY <2>2 DEF Signalled, Abandoned, Inv, HasLetGo
    <3>4. QED
      BY <1>7, <2>2, <3>1, <3>2, <3>3, InvStage DEF StartTimesOut
  <2>3. CASE p = NoPid
    <3>1. UNCHANGED daemon
      BY <1>7, <2>3 DEF StartTimesOut, Becomes, Inv, TypeOK
    <3>2. QED
      BY <1>7, <3>1, InvElsewhere DEF StartTimesOut
  <2>4. QED
    BY <2>1, <2>2, <2>3
<1>8. ASSUME NEW c \in Clients, Vanish(c) PROVE HasLetGo' /\ RowNamesHolder'
  BY <1>8, InvElsewhere DEF Vanish
<1>9. ASSUME NEW p \in Pids, DrainTimesOut(p) PROVE HasLetGo' /\ RowNamesHolder'
  BY <1>9, InvCall DEF DrainTimesOut
<1>10. QED
  BY <1>1, <1>2, <1>3, <1>4, <1>5, <1>6, <1>7, <1>8, <1>9 DEF Fault

LEMMA InvStep == Inv /\ [Next]_vars => Inv'
<1> SUFFICES ASSUME Inv, [Next]_vars PROVE HasLetGo' /\ RowNamesHolder'
  BY TypeStep DEF Inv
<1>1. ASSUME NEW p \in Pids, StrangerExits(p) \/ WriterEnds(p)
      PROVE  HasLetGo' /\ RowNamesHolder'
  <2>1. PICK stage \in {"none", "leaving", "departing"} : Becomes(p, stage)
    BY <1>1 DEF StrangerExits, WriterEnds
  <2>2. p \notin Holders'
    BY <2>1 DEF Becomes, Inv, TypeOK, Holders, Writers, Registering
  <2>3. QED
    BY <1>1, <2>1, <2>2, InvStage DEF StrangerExits, WriterEnds, Stages
<1>2. CASE UNCHANGED vars
  BY <1>2, InvElsewhere DEF vars
<1>3. QED
  BY <1>1, <1>2, InvBeacond, InvDaemon, InvClient, InvFault DEF Next

\* No late, lost or foreign call, no takeover and no second creation moves the
\* row off a daemon that beacond admitted and that has not closed its database.
THEOREM RowIsRight == Spec => []RowNamesHolder
<1>1. Inv => RowNamesHolder
  BY DEF Inv
<1>2. QED
  BY <1>1, InvInit, InvStep, PTL DEF Spec

\* Two daemons write to one company's database only while one of them is on its
\* way out with a drain that overran its budget, until somebody withdraws the
\* row a daemon was admitted by.
THEOREM SingleWriter == Spec => []OneWriterWhileListed
<1>1. RowNamesHolder => OneWriterWhileListed
  <2> SUFFICES ASSUME RowNamesHolder, ~torn, NEW p \in Writing, NEW q \in Writing,
                      {p, q} \cap Abandoned = {}
               PROVE  p = q
    BY DEF OneWriterWhileListed
  <2>1. p \in Holders /\ q \in Holders
    BY DEF Writing, Holders
  <2>2. QED
    BY <2>1 DEF RowNamesHolder
<1>2. QED
  BY <1>1, RowIsRight, PTL
==============================================================================
