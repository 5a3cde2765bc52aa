--------------------------- MODULE ActivityProofs ---------------------------
(***************************************************************************)
(* Proofs about Activity, for every set of people and departments and any  *)
(* value of the clocks and limits.  They go in three rounds.               *)
(*   Rows: what the sweep, the reconcile, a verb, a step of the route or a *)
(*     tick makes of one well formed row is well formed again, and its     *)
(*     pointer keeps its meaning.                                          *)
(*   Steps: time, a pass, and everything else (Moves): what each may do to *)
(*     a pointer, a stamp, a lease and a person's calm.                    *)
(*   The invariant IInv, kept by every step, and what follows from it.     *)
(***************************************************************************)
EXTENDS Activity, FiniteSetTheorems, WellFoundedInduction, TLAPS

(* What a pointer means: it points at nothing or at a transition, and at a *)
(* routine idle park exactly when that was forced.  In a row at rest the   *)
(* person so parked is down; within a pass they may not be yet.            *)
MeaningOK(t) ==
    /\ t.kind = "none" <=> t.st = "none"
    /\ t.routine <=> t.st = "forced"
    /\ t.routine => t.kind = "park"

PointerOK(w) == MeaningOK(w.tr) /\ (w.tr.routine => ~w.desired)

Row == {w \in Person : PointerOK(w)}

USE ClocksAssumption

-----------------------------------------------------------------------------
(* Rows *)

\* The kinds of a transition are told apart from no transition.
LEMMA KindsAreKinds ==
    /\ "park" \in Kinds /\ "offboard" \in Kinds /\ Depts \subseteq Kinds
    /\ "none" \notin Kinds
    /\ "park" \notin Depts /\ "offboard" \notin Depts
BY PlacesAssumption DEF Kinds

\* The clocks saturate within their ranges.
LEMMA Caps ==
    /\ AgeCap \in Nat /\ TrAge \in Nat /\ Lease \in Nat /\ Liveness \in Nat
    /\ Lease < AgeCap /\ Lease > 0 /\ TrAge > 0 /\ Grace \in Nat
    /\ 0 \in 0..AgeCap /\ 0 \in 0..Lease /\ 0 \in 0..TrAge
    /\ Lease \in 0..Lease
BY DEF AgeCap, TrAge

\* No transition is a value a pointer may have.
LEMMA NoTransitionTyped == NoTransition \in Transition
BY Caps DEF NoTransition, Transition

\* A new transition is one, of its kind, forced exactly when it is routine.
LEMMA NewTransitionTyped ==
    ASSUME NEW kind \in Kinds, NEW routine \in BOOLEAN
    PROVE  /\ new_transition(kind, routine) \in Transition
           /\ new_transition(kind, routine).kind = kind
           /\ new_transition(kind, routine).routine = routine
           /\ new_transition(kind, routine).st =
                 IF routine THEN "forced" ELSE "awaiting"
BY Caps DEF new_transition, Transition

\* The fields of a row have their types.
LEMMA RowFields ==
    ASSUME NEW w \in Person
    PROVE  /\ w.tr \in Transition
           /\ w.tr.kind \in Kinds \cup {"none"} /\ w.tr.routine \in BOOLEAN
           /\ w.tr.st \in {"none", "awaiting", "overdue", "ready", "applied",
                           "forced"}
           /\ w.tr.age \in 0..TrAge /\ w.tr.held \in BOOLEAN
           /\ w.emp \in {"absent", "active", "benched", "departed"}
           /\ w.lastEmp \in {"absent", "active", "benched", "departed"}
           /\ w.dept \in Depts /\ w.lastDept \in Depts /\ w.desired \in BOOLEAN
           /\ w.beat \in {"silent", "working", "quiet"}
           /\ w.age \in 0..AgeCap /\ w.woke \in 0..Lease
           /\ w.past \in [Kinds -> {"none", "applied", "forced", "abandoned"}]
BY DEF Person, Transition

\* Putting a transition in a row's pointer changes nothing else of it.
LEMMA Pointed ==
    ASSUME NEW w \in Person, NEW t \in Transition
    PROVE  /\ [w EXCEPT !.tr = t] \in Person
           /\ [w EXCEPT !.tr = t].tr = t
           /\ [w EXCEPT !.tr = t].desired = w.desired
BY DEF Person

\* Putting a status in a transition changes nothing else of it.
LEMMA Stamped ==
    ASSUME NEW t \in Transition,
           NEW st \in {"none", "awaiting", "overdue", "ready", "applied",
                       "forced"}
    PROVE  /\ [t EXCEPT !.st = st] \in Transition
           /\ [t EXCEPT !.st = st].st = st
           /\ [t EXCEPT !.st = st].kind = t.kind
           /\ [t EXCEPT !.st = st].routine = t.routine
           /\ [t EXCEPT !.st = st].age = t.age
BY DEF Transition

\* Nor does taking or dropping its id.
LEMMA Taken ==
    ASSUME NEW t \in Transition, NEW held \in BOOLEAN
    PROVE  /\ [t EXCEPT !.held = held] \in Transition
           /\ [t EXCEPT !.held = held].st = t.st
           /\ [t EXCEPT !.held = held].kind = t.kind
           /\ [t EXCEPT !.held = held].routine = t.routine
           /\ [t EXCEPT !.held = held].age = t.age
BY DEF Transition

\* Emptying the pointer leaves a row.
LEMMA UnpointedRow ==
    ASSUME NEW w \in Person
    PROVE  [w EXCEPT !.tr = NoTransition] \in Row
<1>1. /\ [w EXCEPT !.tr = NoTransition] \in Person
      /\ [w EXCEPT !.tr = NoTransition].tr = NoTransition
  BY Pointed, NoTransitionTyped
<1>2. ASSUME NEW u, u.tr = NoTransition PROVE PointerOK(u)
  BY <1>2 DEF PointerOK, MeaningOK, NoTransition
<1> QED BY <1>1, <1>2 DEF Row

\* Settling empties the pointer and moves it to the history.
LEMMA SettledRow ==
    ASSUME NEW w \in Person
    PROVE  /\ Settled(w) \in Row
           /\ Settled(w).tr = NoTransition
           /\ Settled(w).desired = w.desired /\ Settled(w).emp = w.emp
           /\ Settled(w).dept = w.dept /\ Settled(w).beat = w.beat
           /\ Settled(w).age = w.age /\ Settled(w).woke = w.woke
           /\ Settled(w).lastEmp = w.lastEmp /\ Settled(w).lastDept = w.lastDept
<1>1. ASSUME NEW h \in [Kinds -> {"none", "applied", "forced", "abandoned"}]
      PROVE  [w EXCEPT !.tr = NoTransition, !.past = h] \in Person
  BY NoTransitionTyped DEF Person
<1>2. (IF is_terminal(w.tr) THEN [w.past EXCEPT ![w.tr.kind] = w.tr.st]
       ELSE w.past) \in [Kinds -> {"none", "applied", "forced", "abandoned"}]
  BY RowFields DEF is_terminal
<1>3. Settled(w) \in Person
  BY <1>1, <1>2 DEF Settled
<1>4. /\ Settled(w).tr = NoTransition
      /\ Settled(w).desired = w.desired /\ Settled(w).emp = w.emp
      /\ Settled(w).dept = w.dept /\ Settled(w).beat = w.beat
      /\ Settled(w).age = w.age /\ Settled(w).woke = w.woke
      /\ Settled(w).lastEmp = w.lastEmp /\ Settled(w).lastDept = w.lastDept
  BY DEF Settled, Person
<1> QED BY <1>3, <1>4 DEF Row, PointerOK, MeaningOK, NoTransition


\* Superseding an open transition leaves a row.
LEMMA SupersededRow ==
    ASSUME NEW w \in Row
    PROVE  supersede_open_transition(w) \in Row
BY UnpointedRow DEF supersede_open_transition, Row

\* A pending transition that is late stays the transition it is.
LEMMA Overdue ==
    ASSUME NEW t \in Transition
    PROVE  /\ overdue(t) \in Transition
           /\ overdue(t).kind = t.kind /\ overdue(t).routine = t.routine
           /\ overdue(t).age = t.age
           /\ overdue(t).st = "none" <=> t.st = "none"
           /\ overdue(t).st = "forced" <=> t.st = "forced"
           /\ overdue(t).st = "applied" <=> t.st = "applied"
           /\ is_pending(overdue(t)) <=> is_pending(t)
           /\ is_open(overdue(t)) <=> is_open(t)
<1>1. CASE t.st = "awaiting" /\ t.age >= Grace
  <2>1. overdue(t) = [t EXCEPT !.st = "overdue"]
    BY <1>1 DEF overdue
  <2> QED BY <1>1, <2>1, Stamped DEF is_pending, is_open, Transition
<1>2. CASE ~(t.st = "awaiting" /\ t.age >= Grace)
  BY <1>2 DEF overdue
<1> QED BY <1>1, <1>2

\* A late row is a row, and the same person.
LEMMA AgedRow ==
    ASSUME NEW w \in Row
    PROVE  LET aged == [w EXCEPT !.tr = overdue(w.tr)]
           IN  /\ aged \in Row /\ aged.tr = overdue(w.tr)
               /\ aged.desired = w.desired /\ aged.emp = w.emp
               /\ aged.dept = w.dept /\ aged.beat = w.beat
               /\ aged.age = w.age /\ aged.woke = w.woke
               /\ aged.lastEmp = w.lastEmp /\ aged.lastDept = w.lastDept
               /\ structural_transition(aged) = structural_transition(w)
<1> DEFINE aged == [w EXCEPT !.tr = overdue(w.tr)]
<1>1. w \in Person /\ w.tr \in Transition /\ PointerOK(w)
  BY RowFields DEF Row
<1>2. aged \in Person /\ aged.tr = overdue(w.tr) /\ aged.desired = w.desired
  BY <1>1, Overdue, Pointed
<1>3. PointerOK(aged)
  BY <1>1, <1>2, Overdue DEF PointerOK, MeaningOK
<1>4. /\ aged.emp = w.emp /\ aged.dept = w.dept /\ aged.beat = w.beat
      /\ aged.age = w.age /\ aged.woke = w.woke
      /\ aged.lastEmp = w.lastEmp /\ aged.lastDept = w.lastDept
  BY <1>1 DEF Person
<1>5. structural_transition(aged) = structural_transition(w)
  BY <1>4 DEF structural_transition
<1> QED BY <1>2, <1>3, <1>4, <1>5 DEF Row

-----------------------------------------------------------------------------
(* The reconcile of one row *)

\* What differs between two rows is not who the person is, nor their stamps.
SamePerson(u, w) ==
    /\ u.desired = w.desired /\ u.emp = w.emp /\ u.dept = w.dept
    /\ u.beat = w.beat /\ u.age = w.age /\ u.woke = w.woke
    /\ u.lastEmp = w.lastEmp /\ u.lastDept = w.lastDept

\* A structural handoff is for a kind that can be prepared.
LEMMA StructuralKind ==
    ASSUME NEW w \in Person
    PROVE  structural_transition(w) \in Kinds \cup {"none"}
BY RowFields, KindsAreKinds DEF structural_transition

\* A prepared transition is the open one, or a fresh one over the old.
LEMMA Ensured ==
    ASSUME NEW w \in Person, NEW kind \in Kinds, NEW routine \in BOOLEAN,
           MeaningOK(w.tr), routine => kind = "park"
    PROVE  LET u == ensure_matching_transition(w, kind, routine)
           IN  /\ u \in Person /\ MeaningOK(u.tr) /\ SamePerson(u, w)
               /\ is_open(w.tr) => u = w
               /\ ~is_open(w.tr) => u.tr = new_transition(kind, routine)
<1> DEFINE fresh == [Settled(w) EXCEPT !.tr = new_transition(kind, routine)]
<1>1. CASE is_open(w.tr)
  BY <1>1 DEF ensure_matching_transition, SamePerson
<1>2. CASE ~is_open(w.tr)
  <2>1. ensure_matching_transition(w, kind, routine) = fresh
    BY <1>2 DEF ensure_matching_transition
  <2>2. /\ fresh \in Person /\ fresh.tr = new_transition(kind, routine)
        /\ SamePerson(fresh, Settled(w))
    BY SettledRow, NewTransitionTyped DEF Person, Row, SamePerson
  <2>3. MeaningOK(new_transition(kind, routine))
    BY NewTransitionTyped, KindsAreKinds DEF MeaningOK
  <2>4. SamePerson(fresh, w)
    BY <2>2, SettledRow DEF SamePerson
  <2> QED BY <1>2, <2>1, <2>2, <2>3, <2>4
<1> QED BY <1>1, <1>2

\* What the transition pass makes of a pointer.
Outcome(w, u, demanded, fenced, parks) ==
    LET s == structural_transition(w) IN
    \/ /\ u = w
       /\ s # "none" => direct_transfer(w, fenced)
                        \/ (is_open(w.tr) /\ ~abandons(w, fenced))
       /\ s = "none" /\ demanded => w.tr.kind # "park"
    \/ u.tr = NoTransition /\ (s # "none" => abandons(w, fenced))
    \/ /\ s # "none" /\ ~abandons(w, fenced) /\ ~direct_transfer(w, fenced)
       /\ ~is_open(w.tr) /\ u.tr = new_transition(s, FALSE)
    \/ /\ s = "none" /\ ~demanded /\ w.desired /\ ~is_open(w.tr)
       /\ w.tr.kind = "park" \/ parks
       /\ u.tr = new_transition("park", TRUE)

\* The transition pass leaves one of the outcomes, and the same person.
LEMMA TransitionPass ==
    ASSUME NEW w \in Row, NEW demanded \in BOOLEAN, NEW fenced \in BOOLEAN,
           NEW parks \in BOOLEAN
    PROVE  LET u == transition_pass(w, demanded, fenced, parks)
           IN  /\ u \in Person /\ MeaningOK(u.tr) /\ SamePerson(u, w)
               /\ Outcome(w, u, demanded, fenced, parks)
<1> DEFINE u == transition_pass(w, demanded, fenced, parks)
           s == structural_transition(w)
<1>1. w \in Person /\ MeaningOK(w.tr) /\ SamePerson(w, w)
  BY DEF Row, PointerOK, SamePerson
<1>2. s \in Kinds \cup {"none"}
  BY <1>1, StructuralKind
<1>3. MeaningOK(NoTransition)
  BY DEF MeaningOK, NoTransition
<1>4. CASE direct_transfer(w, fenced)
  <2>1. u = w /\ s \in Depts /\ s # "none"
    BY <1>4, KindsAreKinds DEF transition_pass, direct_transfer, abandons
  <2> QED BY <1>1, <1>4, <2>1 DEF Outcome
<1>5. CASE abandons(w, fenced)
  <2> DEFINE h == IF w.tr.kind = "none" THEN w.past
                  ELSE [w.past EXCEPT ![w.tr.kind] = "abandoned"]
  <2>1. ~direct_transfer(w, fenced)
    BY <1>5 DEF abandons
  <2>2. u = [w EXCEPT !.tr = NoTransition, !.past = h]
    BY <1>5, <2>1 DEF transition_pass, abandons
  <2>3. h \in [Kinds -> {"none", "applied", "forced", "abandoned"}]
    BY <1>1, RowFields
  <2>4. u \in Person /\ u.tr = NoTransition /\ SamePerson(u, w)
    BY <1>1, <2>2, <2>3, NoTransitionTyped DEF Person, SamePerson
  <2> QED BY <1>3, <1>5, <2>4 DEF Outcome
<1>6. CASE s # "none" /\ ~abandons(w, fenced) /\ ~direct_transfer(w, fenced)
  <2>1. u = ensure_matching_transition(w, s, FALSE)
    BY <1>6 DEF transition_pass
  <2>2. /\ u \in Person /\ MeaningOK(u.tr) /\ SamePerson(u, w)
        /\ is_open(w.tr) => u = w
        /\ ~is_open(w.tr) => u.tr = new_transition(s, FALSE)
    BY <1>1, <1>2, <1>6, <2>1, Ensured
  <2> QED BY <1>6, <2>2 DEF Outcome
<1>7. CASE s = "none" /\ ~demanded /\ w.desired /\ (w.tr.kind = "park" \/ parks)
  <2>1. ~direct_transfer(w, fenced) /\ ~abandons(w, fenced)
    BY <1>7, KindsAreKinds DEF direct_transfer, abandons
  <2>2. u = ensure_matching_transition(w, "park", TRUE)
    BY <1>7, <2>1 DEF transition_pass
  <2>3. /\ u \in Person /\ MeaningOK(u.tr) /\ SamePerson(u, w)
        /\ is_open(w.tr) => u = w
        /\ ~is_open(w.tr) => u.tr = new_transition("park", TRUE)
    <3>1. "park" \in Kinds /\ TRUE \in BOOLEAN
      BY KindsAreKinds
    <3> HIDE DEF u
    <3> QED BY <1>1, <2>2, <3>1, Ensured
  <2> QED BY <1>7, <2>3 DEF Outcome
<1>8. CASE s = "none" /\ demanded /\ w.tr.kind = "park"
  <2>1. ~direct_transfer(w, fenced) /\ ~abandons(w, fenced)
    BY <1>8, KindsAreKinds DEF direct_transfer, abandons
  <2>2. u = IF w.tr.st = "applied" THEN Settled(w)
            ELSE [w EXCEPT !.tr = NoTransition]
    BY <1>8, <2>1 DEF transition_pass
  <2>3. /\ [w EXCEPT !.tr = NoTransition] \in Person
        /\ [w EXCEPT !.tr = NoTransition].tr = NoTransition
        /\ SamePerson([w EXCEPT !.tr = NoTransition], w)
    BY <1>1, NoTransitionTyped DEF Person, SamePerson
  <2>4. u \in Person /\ u.tr = NoTransition /\ SamePerson(u, w)
    BY <1>1, <2>2, <2>3, SettledRow DEF SamePerson, Row
  <2> QED BY <1>3, <1>8, <2>4 DEF Outcome
<1>9. CASE /\ s = "none"
           /\ ~(~demanded /\ w.desired /\ (w.tr.kind = "park" \/ parks))
           /\ ~(demanded /\ w.tr.kind = "park")
  <2>1. ~direct_transfer(w, fenced) /\ ~abandons(w, fenced)
    BY <1>9, KindsAreKinds DEF direct_transfer, abandons
  <2>2. u = w
    BY <1>9, <2>1 DEF transition_pass
  <2> QED BY <1>1, <1>9, <2>2 DEF Outcome
<1> QED BY <1>4, <1>5, <1>6, <1>7, <1>8, <1>9

\* The stamps of a person who is raised start again; nobody else's change.
RunStamps(r, w) ==
    /\ r.desired /\ ~w.desired => r.beat = "silent" /\ r.age = 0
    /\ ~(r.desired /\ ~w.desired) => r.beat = w.beat /\ r.age = w.age

\* Deciding a row writes whether the person is wanted, and clears the stamps of
\* the previous run of one who was not.
LEMMA Decided ==
    ASSUME NEW w \in Person, NEW up \in BOOLEAN
    PROVE  LET r == decided(w, up)
           IN  /\ r \in Person /\ r.tr = w.tr /\ r.desired = up
               /\ r.emp = w.emp /\ r.dept = w.dept /\ r.woke = w.woke
               /\ r.lastEmp = w.lastEmp /\ r.lastDept = w.lastDept
               /\ RunStamps(r, w)
<1>1. CASE up /\ ~w.desired
  <2>1. decided(w, up) = [w EXCEPT !.desired = TRUE, !.beat = "silent", !.age = 0]
    BY <1>1 DEF decided
  <2> QED BY <1>1, <2>1, Caps DEF Person, RunStamps
<1>2. CASE ~(up /\ ~w.desired)
  <2>1. decided(w, up) = [w EXCEPT !.desired = up]
    BY <1>2 DEF decided
  <2>2. /\ [w EXCEPT !.desired = up] \in Person
        /\ [w EXCEPT !.desired = up].desired = up
    BY DEF Person
  <2> QED BY <1>2, <2>1, <2>2 DEF Person, RunStamps
<1> QED BY <1>1, <1>2

\* A routine park out of the transition pass was there, or is new.
LEMMA RoutineOutcome ==
    ASSUME NEW w \in Row, NEW u \in Person, MeaningOK(u.tr), u.tr.routine,
           NEW demanded \in BOOLEAN, NEW fenced \in BOOLEAN,
           NEW parks \in BOOLEAN, Outcome(w, u, demanded, fenced, parks)
    PROVE  /\ structural_transition(w) = "none"
           /\ ~demanded
           /\ \/ u = w
              \/ w.desired /\ ~is_open(w.tr) /\ (w.tr.kind = "park" \/ parks)
<1> DEFINE s == structural_transition(w)
<1>1. s \in Kinds \cup {"none"} /\ ~NoTransition.routine
  BY StructuralKind DEF Row, NoTransition
<1>2. s # "none" => ~new_transition(s, FALSE).routine
  BY <1>1, NewTransitionTyped
<1>3. u.tr # NoTransition
  BY <1>1
<1>4. u.tr.kind = "park" /\ u.tr.st = "forced"
  BY DEF MeaningOK
<1>5. ~is_open(u.tr) /\ ~(u = w /\ direct_transfer(w, fenced))
  BY <1>4 DEF is_open, is_pending, direct_transfer
<1> HIDE DEF s
<1>6. CASE u = w /\ (s # "none" => direct_transfer(w, fenced)
                        \/ (is_open(w.tr) /\ ~abandons(w, fenced)))
                 /\ (s = "none" /\ demanded => w.tr.kind # "park")
  BY <1>4, <1>5, <1>6 DEF s
<1>7. CASE s # "none" /\ u.tr = new_transition(s, FALSE)
  BY <1>2, <1>7
<1>8. CASE /\ s = "none" /\ ~demanded /\ w.desired /\ ~is_open(w.tr)
           /\ w.tr.kind = "park" \/ parks
  BY <1>8 DEF s
<1> QED BY <1>3, <1>6, <1>7, <1>8 DEF Outcome, s

\* What the decision pass leaves in the pointer, and whether it keeps the
\* person up.
LEMMA DecisionPass ==
    ASSUME NEW w \in Row, NEW u \in Person, MeaningOK(u.tr), SamePerson(u, w),
           NEW demanded \in BOOLEAN, NEW fenced \in BOOLEAN,
           NEW parks \in BOOLEAN, Outcome(w, u, demanded, fenced, parks)
    PROVE  LET r == decision_pass(w, u, demanded, fenced, parks)
               s == structural_transition(w)
           IN  /\ r \in Row
               /\ r.emp = w.emp /\ r.dept = w.dept /\ r.woke = w.woke
               /\ RunStamps(r, w)
               /\ r.lastEmp \in {w.emp, w.lastEmp}
               /\ r.lastDept \in {w.dept, w.lastDept}
               /\ r.tr.routine => u.tr.routine
               /\ is_released(r.tr) => is_released(u.tr)
               /\ (s # "none" /\ fenced /\ is_pending(w.tr)) =>
                     r.desired /\ r.lastEmp = w.lastEmp /\ r.lastDept = w.lastDept
<1> DEFINE s         == structural_transition(w)
           direct    == direct_transfer(w, fenced)
           gone      == abandons(w, fenced)
           structure == s # "none" /\ ~gone /\ is_released(u.tr)
           removal   == u.tr.kind \in Removals
           applies   == structure /\ ~(removal /\ demanded)
           parked    == s = "none" /\ u.tr.kind = "park" /\ is_released(u.tr)
                        /\ ~demanded
           handoff   == s = "none" /\ u.tr.kind \notin {"none", "park"}
           leased    == \/ demanded \/ is_pending(u.tr)
                        \/ backpressure(w, demanded, parks)
                        \/ direct /\ w.desired
           active    == CASE gone \/ parked -> FALSE
                          [] applies -> ~removal /\ demanded
                          [] structure /\ ~applies -> TRUE
                          [] handoff -> TRUE
                          [] OTHER -> leased
           applied   == [u EXCEPT !.tr.st = "applied"]
           settled   == IF applies THEN Settled(applied)
                        ELSE IF parked THEN applied ELSE u
           places    == s = "none" \/ direct \/ gone \/ applies
           placed    == IF places THEN advanced(settled) ELSE settled
           up        == active /\ fenced
           r         == decision_pass(w, u, demanded, fenced, parks)
<1>1. r = decided(placed, up)
  BY DEF decision_pass
<1>2. /\ w \in Person /\ MeaningOK(w.tr) /\ (w.tr.routine => ~w.desired)
      /\ s \in Kinds \cup {"none"}
  BY StructuralKind DEF Row, PointerOK
<1>3. up \in BOOLEAN
  OBVIOUS
<1>4. /\ applied \in Person /\ SamePerson(applied, u)
      /\ applied.tr = [u.tr EXCEPT !.st = "applied"]
  <2>1. [u.tr EXCEPT !.st = "applied"] \in Transition
    BY RowFields, Stamped
  <2>2. applied = [u EXCEPT !.tr = [u.tr EXCEPT !.st = "applied"]]
    BY DEF Person
  <2> QED BY <2>1, <2>2 DEF Person, SamePerson
<1>5. /\ settled \in Person /\ SamePerson(settled, w)
      /\ \/ settled.tr = NoTransition
         \/ settled.tr = u.tr
         \/ parked /\ settled.tr = [u.tr EXCEPT !.st = "applied"]
  <2>1. CASE applies
    BY <1>4, <2>1, SettledRow DEF Row, SamePerson
  <2>2. CASE ~applies /\ parked
    BY <1>4, <2>2 DEF SamePerson
  <2>3. CASE ~applies /\ ~parked
    BY <2>3
  <2> QED BY <2>1, <2>2, <2>3
<1>6. MeaningOK(settled.tr) /\ (settled.tr.routine => settled.tr = u.tr)
  <2>1. CASE settled.tr = NoTransition
    BY <2>1 DEF MeaningOK, NoTransition
  <2>2. CASE settled.tr = u.tr
    BY <2>2
  <2>3. CASE parked /\ settled.tr = [u.tr EXCEPT !.st = "applied"]
    <3> HIDE DEF settled
    <3>1. /\ settled.tr.kind = "park" /\ settled.tr.st = "applied"
          /\ settled.tr.routine = u.tr.routine
      <4>1. u.tr \in Transition /\ u.tr.kind = "park"
        BY <2>3, RowFields
      <4> QED BY <2>3, <4>1, Stamped
    <3>2. ~u.tr.routine
      BY <2>3 DEF is_released, MeaningOK
    <3> QED BY <3>1, <3>2 DEF MeaningOK
  <2> QED BY <1>5, <2>1, <2>2, <2>3
<1>7. /\ placed \in Person /\ placed.tr = settled.tr
      /\ placed.desired = w.desired /\ placed.emp = w.emp
      /\ placed.dept = w.dept /\ placed.beat = w.beat
      /\ placed.age = w.age /\ placed.woke = w.woke
      /\ placed.lastEmp \in {w.emp, w.lastEmp}
      /\ placed.lastDept \in {w.dept, w.lastDept}
      /\ ~places => placed.lastEmp = w.lastEmp /\ placed.lastDept = w.lastDept
  <2>1. CASE places
    BY <1>5, <2>1 DEF advanced, SamePerson, Person
  <2>2. CASE ~places
    BY <1>5, <2>2 DEF SamePerson
  <2> QED BY <2>1, <2>2
<1>8. /\ r \in Person /\ r.tr = settled.tr /\ r.desired = up
      /\ r.emp = w.emp /\ r.dept = w.dept /\ r.woke = w.woke
      /\ r.lastEmp = placed.lastEmp /\ r.lastDept = placed.lastDept
      /\ RunStamps(r, w)
  <2> HIDE DEF placed, up, settled, r
  <2>1. /\ r \in Person /\ r.tr = placed.tr /\ r.desired = up
        /\ r.emp = placed.emp /\ r.dept = placed.dept /\ r.woke = placed.woke
        /\ r.lastEmp = placed.lastEmp /\ r.lastDept = placed.lastDept
    BY <1>1, <1>3, <1>7, Decided
  <2>2. RunStamps(r, placed)
    BY <1>1, <1>3, <1>7, Decided
  <2>3. RunStamps(r, w)
    BY <1>7, <2>2 DEF RunStamps
  <2> QED BY <1>7, <2>1, <2>3
<1>9. u.tr.routine => ~up
  <2> SUFFICES ASSUME u.tr.routine PROVE ~active
    OBVIOUS
  <2>1. u.tr.kind = "park" /\ u.tr.st = "forced"
    BY DEF MeaningOK
  <2>2. /\ s = "none" /\ ~demanded
        /\ \/ u = w
           \/ w.desired /\ ~is_open(w.tr) /\ (w.tr.kind = "park" \/ parks)
    BY RoutineOutcome
  <2>3. ~gone /\ ~structure /\ ~applies /\ ~parked /\ ~handoff /\ ~direct
    BY <2>1, <2>2, KindsAreKinds DEF abandons, is_released, direct_transfer
  <2>4. ~is_pending(u.tr)
    BY <2>1 DEF is_pending
  <2>5. ~backpressure(w, demanded, parks)
    <3>1. CASE u = w
      BY <2>1, <3>1 DEF backpressure
    <3>2. CASE u # w
      BY <2>2, <3>2 DEF backpressure
    <3> QED BY <3>1, <3>2
  <2> QED BY <2>2, <2>3, <2>4, <2>5
<1>10. r.tr.routine => ~r.desired
  BY <1>6, <1>8, <1>9
<1>11. ASSUME s # "none", fenced, is_pending(w.tr)
       PROVE  r.desired /\ r.lastEmp = w.lastEmp /\ r.lastDept = w.lastDept
  <2>1. ~gone /\ ~direct /\ w.tr.kind # "none" /\ is_open(w.tr)
    BY <1>2, <1>11 DEF abandons, direct_transfer, is_pending, MeaningOK, is_open
  <2>2. u = w
    BY <1>2, <1>11, <2>1 DEF Outcome
  <2>3. ~structure /\ ~applies /\ ~parked /\ ~handoff /\ ~places
    BY <1>11, <2>1, <2>2 DEF is_pending, is_released
  <2>4. up
    BY <1>11, <2>1, <2>2, <2>3
  <2> QED BY <1>7, <1>8, <2>3, <2>4
<1>12. r \in Row
  BY <1>6, <1>8, <1>10 DEF Row, PointerOK
<1>13. is_released(r.tr) => is_released(u.tr)
  <2> HIDE DEF settled
  <2> QED BY <1>5, <1>8 DEF is_released, NoTransition
<1> HIDE DEF placed, up, settled
<1> QED BY <1>6, <1>7, <1>8, <1>11, <1>12, <1>13

\* The reconcile of one row: the row is well formed, the stamps of a person
\* who is raised start again, a person is newly parked for idleness only if
\* admitted or stopped before, and a handoff that waits is waited for.
LEMMA Reconciled ==
    ASSUME NEW w \in Row, NEW demanded \in BOOLEAN, NEW fenced \in BOOLEAN,
           NEW parks \in BOOLEAN
    PROVE  LET r == reconcile_person(w, demanded, fenced, parks)
           IN  /\ r \in Row
               /\ r.emp = w.emp /\ r.dept = w.dept /\ r.woke = w.woke
               /\ RunStamps(r, w)
               /\ r.lastEmp \in {w.emp, w.lastEmp}
               /\ r.lastDept \in {w.dept, w.lastDept}
               /\ (r.tr.routine /\ ~w.tr.routine) =>
                     parks \/ w.tr.st = "applied"
               /\ is_released(r.tr) => is_released(w.tr)
               /\ (structural_transition(w) # "none" /\ fenced
                     /\ is_pending(w.tr)) =>
                     r.desired /\ r.lastEmp = w.lastEmp /\ r.lastDept = w.lastDept
<1> DEFINE aged == [w EXCEPT !.tr = overdue(w.tr)]
           s    == structural_transition(aged)
           u    == transition_pass(aged, demanded, fenced, parks)
           r    == reconcile_person(w, demanded, fenced, parks)
<1>1. r = decision_pass(aged, u, demanded, fenced, parks)
  BY DEF reconcile_person
<1>2. /\ w.tr \in Transition /\ MeaningOK(w.tr)
      /\ aged \in Row /\ aged.tr = overdue(w.tr)
      /\ aged.desired = w.desired /\ aged.emp = w.emp
      /\ aged.dept = w.dept /\ aged.beat = w.beat
      /\ aged.age = w.age /\ aged.woke = w.woke
      /\ aged.lastEmp = w.lastEmp /\ aged.lastDept = w.lastDept
      /\ structural_transition(aged) = structural_transition(w)
  BY AgedRow, RowFields DEF Row, PointerOK
<1> HIDE DEF aged
<1>3. /\ u \in Person /\ MeaningOK(u.tr) /\ SamePerson(u, aged)
      /\ Outcome(aged, u, demanded, fenced, parks)
  BY <1>2, TransitionPass
<1> HIDE DEF u
<1>4. /\ r \in Row
      /\ r.emp = aged.emp /\ r.dept = aged.dept /\ r.woke = aged.woke
      /\ RunStamps(r, aged)
      /\ r.lastEmp \in {aged.emp, aged.lastEmp}
      /\ r.lastDept \in {aged.dept, aged.lastDept}
      /\ r.tr.routine => u.tr.routine
      /\ is_released(r.tr) => is_released(u.tr)
      /\ (structural_transition(aged) # "none" /\ fenced /\ is_pending(aged.tr))
            => r.desired /\ r.lastEmp = aged.lastEmp /\ r.lastDept = aged.lastDept
  BY <1>1, <1>2, <1>3, DecisionPass
<1>5. is_pending(aged.tr) <=> is_pending(w.tr)
  BY <1>2, Overdue
<1>6. ASSUME r.tr.routine, ~w.tr.routine PROVE parks \/ w.tr.st = "applied"
  <2>1. u.tr.routine /\ ~aged.tr.routine
    BY <1>2, <1>4, <1>6, Overdue
  <2>2. /\ ~is_open(aged.tr)
        /\ aged.tr.kind = "park" \/ parks
    <3>1. u # aged
      BY <2>1
    <3> QED BY <1>2, <1>3, <2>1, <3>1, RoutineOutcome
  <2>3. CASE aged.tr.kind = "park"
    <3>1. w.tr.kind = "park" /\ ~is_open(w.tr)
      BY <1>2, <2>2, <2>3, Overdue
    <3>2. w.tr.st # "none" /\ w.tr.st # "forced"
      BY <1>2, <1>6, <3>1 DEF MeaningOK
    <3> QED BY <1>2, <3>1, <3>2 DEF is_open, is_pending, Transition
  <2> QED BY <2>2, <2>3
<1>7. is_released(u.tr) => is_released(w.tr)
  <2>1. s \in Kinds \cup {"none"}
    BY <1>2, StructuralKind DEF Row
  <2>2. /\ ~is_released(NoTransition)
        /\ ~is_released(new_transition("park", TRUE))
        /\ s # "none" => ~is_released(new_transition(s, FALSE))
    BY <2>1, KindsAreKinds, NewTransitionTyped DEF is_released, NoTransition
  <2>3. is_released(aged.tr) => is_released(w.tr)
    BY <1>2 DEF overdue, is_released
  <2> HIDE DEF s
  <2> QED BY <1>3, <2>2, <2>3 DEF Outcome, s
<1> QED BY <1>2, <1>4, <1>5, <1>6, <1>7 DEF RunStamps

-----------------------------------------------------------------------------
(* What the verbs, the route and time make of one row *)

\* Emptying a pointer leaves a row of the same person.
LEMMA Unpointed ==
    ASSUME NEW w \in Row
    PROVE  /\ [w EXCEPT !.tr = NoTransition] \in Row
           /\ SamePerson([w EXCEPT !.tr = NoTransition], w)
BY UnpointedRow DEF Row, Person, SamePerson

\* What most steps leave of a row: the stamps of the person's run, an existence
\* that does not end, and no pointer that is newly parked or newly released.
Kept(u, w) ==
    /\ u.beat = w.beat /\ u.age = w.age /\ u.woke = w.woke
    /\ u.emp = "absent" => w.emp = "absent"
    /\ u.tr.routine => w.tr.routine
    /\ is_released(u.tr) => is_released(w.tr)

\* An empty pointer is neither parked nor released.
LEMMA NothingKept ==
    ASSUME NEW w
    PROVE  (~NoTransition.routine /\ ~is_released(NoTransition)) /\ Kept(w, w)
BY DEF NoTransition, is_released, Kept

\* The sweep leaves a row of the same person, and spares what it does not end.
LEMMA SweptRow ==
    ASSUME NEW w \in Row
    PROVE  /\ sweep_expired_transitions(w) \in Row
           /\ SamePerson(sweep_expired_transitions(w), w)
           /\ \/ sweep_expired_transitions(w) = w
              \/ /\ sweep_expired_transitions(w).tr = NoTransition
                 /\ is_open(w.tr) /\ ~w.tr.routine /\ w.tr.age > 2 * Grace
           /\ Kept(sweep_expired_transitions(w), w)
<1>1. [w EXCEPT !.tr = NoTransition].tr = NoTransition
  BY Pointed, NoTransitionTyped DEF Row
<1>2. Kept([w EXCEPT !.tr = NoTransition], w)
  BY <1>1, Unpointed, NothingKept DEF SamePerson, Kept
<1> QED
  BY <1>1, <1>2, Unpointed, NothingKept DEF sweep_expired_transitions, SamePerson

\* Holding or letting go of a transition's id leaves a row.
LEMMA HeldRow ==
    ASSUME NEW w \in Row, NEW held \in BOOLEAN
    PROVE  /\ [w EXCEPT !.tr.held = held] \in Row
           /\ SamePerson([w EXCEPT !.tr.held = held], w)
           /\ Kept([w EXCEPT !.tr.held = held], w)
           /\ [w EXCEPT !.tr.held = held].tr = [w.tr EXCEPT !.held = held]
<1> DEFINE t == [w.tr EXCEPT !.held = held]
           u == [w EXCEPT !.tr = t]
<1>1. /\ w \in Person /\ w.tr \in Transition /\ MeaningOK(w.tr)
      /\ w.tr.routine => ~w.desired
  BY RowFields DEF Row, PointerOK
<1>2. /\ t \in Transition /\ t.st = w.tr.st /\ t.kind = w.tr.kind
      /\ t.routine = w.tr.routine
  BY <1>1, Taken
<1>3. [w EXCEPT !.tr.held = held] = u
  BY <1>1 DEF Person
<1> HIDE DEF t
<1>4. u \in Person /\ u.tr = t /\ SamePerson(u, w)
  BY <1>1, <1>2 DEF Person, SamePerson
<1>5. PointerOK(u)
  BY <1>1, <1>2, <1>4 DEF PointerOK, MeaningOK, SamePerson
<1>6. Kept(u, w)
  BY <1>2, <1>4 DEF Kept, SamePerson, is_released
<1> QED BY <1>3, <1>4, <1>5, <1>6 DEF Row, t

\* Preparing a transition in a row leaves a row.
LEMMA PreparedRow ==
    ASSUME NEW w \in Row, NEW kind \in Kinds
    PROVE  LET u == ensure_matching_transition(w, kind, FALSE)
           IN  u \in Row /\ SamePerson(u, w) /\ Kept(u, w)
<1> DEFINE u == ensure_matching_transition(w, kind, FALSE)
<1>1. w \in Person /\ MeaningOK(w.tr) /\ FALSE \in BOOLEAN
  BY DEF Row, PointerOK
<1>2. /\ u \in Person /\ MeaningOK(u.tr) /\ SamePerson(u, w)
      /\ is_open(w.tr) => u = w
      /\ ~is_open(w.tr) => u.tr = new_transition(kind, FALSE)
  BY <1>1, Ensured
<1> HIDE DEF u
<1>3. CASE is_open(w.tr)
  BY <1>2, <1>3, NothingKept DEF u
<1>4. CASE ~is_open(w.tr)
  <2>1. ~u.tr.routine /\ u.tr.st = "awaiting"
    BY <1>2, <1>4, NewTransitionTyped
  <2> QED BY <1>2, <2>1 DEF Row, PointerOK, u, Kept, SamePerson, is_released
<1> QED BY <1>3, <1>4

\* Releasing an open transition leaves a row.
LEMMA ReleasedRow ==
    ASSUME NEW w \in Row, is_open(w.tr)
    PROVE  /\ [w EXCEPT !.tr.st = "ready"] \in Row
           /\ SamePerson([w EXCEPT !.tr.st = "ready"], w)
           /\ ~[w EXCEPT !.tr.st = "ready"].tr.routine
<1> DEFINE t == [w.tr EXCEPT !.st = "ready"]
           u == [w EXCEPT !.tr = t]
<1>1. /\ w \in Person /\ w.tr \in Transition /\ MeaningOK(w.tr)
      /\ ~w.tr.routine /\ w.tr.kind # "none"
  BY RowFields DEF Row, PointerOK, MeaningOK, is_open, is_pending
<1>2. /\ t \in Transition /\ t.st = "ready" /\ t.kind = w.tr.kind
      /\ t.routine = w.tr.routine
  BY <1>1, Stamped
<1>3. [w EXCEPT !.tr.st = "ready"] = u
  BY <1>1 DEF Person
<1> HIDE DEF t
<1>4. u \in Person /\ u.tr = t /\ SamePerson(u, w)
  BY <1>1, <1>2 DEF Person, SamePerson
<1>5. PointerOK(u)
  BY <1>1, <1>2, <1>4 DEF PointerOK, MeaningOK
<1> QED BY <1>1, <1>2, <1>3, <1>4, <1>5 DEF Row

\* Settling an applied move leaves a row of the same run.
LEMMA SettledMoveRow ==
    ASSUME NEW w \in Row
    PROVE  settle_applied_move(w) \in Row /\ Kept(settle_applied_move(w), w)
<1>1. CASE w.tr.kind \in Depts /\ is_released(w.tr)
  <2> DEFINE t == [w.tr EXCEPT !.st = "applied"]
             u == [w EXCEPT !.tr.st = "applied"]
             v == Settled(u)
  <2>1. t \in Transition
    BY RowFields, Stamped DEF Row
  <2>2. u = [w EXCEPT !.tr = t]
    BY DEF Person, Row
  <2>3. u \in Person /\ SamePerson(u, w)
    BY <2>1, <2>2 DEF Person, Row, SamePerson
  <2> HIDE DEF u
  <2>4. v \in Row /\ v.tr = NoTransition /\ v.beat = w.beat /\ v.age = w.age
        /\ v.woke = w.woke /\ v.emp = w.emp
    BY <2>3, SettledRow DEF SamePerson
  <2> HIDE DEF v
  <2>5. advanced(v) \in Person /\ advanced(v).tr = NoTransition
        /\ advanced(v).beat = w.beat /\ advanced(v).age = w.age
        /\ advanced(v).woke = w.woke /\ advanced(v).emp = w.emp
    BY <2>4 DEF advanced, Person, Row
  <2>6. PointerOK(advanced(v))
    BY <2>5 DEF PointerOK, MeaningOK, NoTransition
  <2>7. settle_applied_move(w) = advanced(v)
    BY <1>1 DEF settle_applied_move, u, v
  <2> QED BY <2>5, <2>6, <2>7, NothingKept DEF Row, Kept
<1>2. CASE ~(w.tr.kind \in Depts /\ is_released(w.tr))
  BY <1>2, NothingKept DEF settle_applied_move
<1> QED BY <1>1, <1>2

\* A row whose person is employed otherwise, or taken down, is a row.
LEMMA EmployedRow ==
    ASSUME NEW w \in Row, NEW emp \in {"active", "benched", "departed"}
    PROVE  /\ [w EXCEPT !.emp = emp] \in Row
           /\ Kept([w EXCEPT !.emp = emp], w)
           /\ [w EXCEPT !.desired = FALSE, !.emp = emp] \in Row
           /\ Kept([w EXCEPT !.desired = FALSE, !.emp = emp], w)
           /\ [w EXCEPT !.emp = emp, !.lastEmp = emp] \in Row
           /\ Kept([w EXCEPT !.emp = emp, !.lastEmp = emp], w)
BY DEF Row, Person, PointerOK, Kept

\* So is one whose person is placed elsewhere, or taken down.
LEMMA PlacedRow ==
    ASSUME NEW w \in Row, NEW dept \in Depts
    PROVE  /\ [w EXCEPT !.dept = dept] \in Row
           /\ Kept([w EXCEPT !.dept = dept], w)
           /\ [w EXCEPT !.desired = FALSE] \in Row
           /\ Kept([w EXCEPT !.desired = FALSE], w)
BY DEF Row, Person, PointerOK, Kept

\* The structural verbs leave rows of the same run.
LEMMA StructuralRow ==
    ASSUME NEW w \in Row, NEW to \in Depts
    PROVE  /\ bench_person(w) \in Row /\ Kept(bench_person(w), w)
           /\ transfer_person(w, to) \in Row /\ Kept(transfer_person(w, to), w)
           /\ offboard_person(w) \in Row /\ Kept(offboard_person(w), w)
<1>1. /\ w \in Person /\ Kept(w, w)
      /\ Settled(w) \in Row /\ Kept(Settled(w), w)
  BY SettledRow, NothingKept DEF Row, Kept
<1>2. ASSUME NEW u \in Row, Kept(u, w),
             NEW emp \in {"active", "benched", "departed"}
      PROVE  /\ [u EXCEPT !.desired = FALSE, !.emp = emp] \in Row
             /\ Kept([u EXCEPT !.desired = FALSE, !.emp = emp], w)
  <2> DEFINE v == [u EXCEPT !.desired = FALSE, !.emp = emp]
  <2>1. v \in Row /\ Kept(v, u)
    BY EmployedRow
  <2> QED BY <1>2, <2>1 DEF Kept
<1>3. bench_person(w) \in Row /\ Kept(bench_person(w), w)
  BY <1>1, <1>2 DEF bench_person
<1>4. transfer_person(w, to) \in Row /\ Kept(transfer_person(w, to), w)
  <2>1. /\ supersede_open_transition(w) \in Row
        /\ Kept(supersede_open_transition(w), w)
    <3>1. Kept([w EXCEPT !.tr = NoTransition], w)
      BY <1>1, Unpointed, Pointed, NoTransitionTyped, NothingKept
         DEF SamePerson, Kept
    <3> QED BY <1>1, <3>1, Unpointed DEF supersede_open_transition
  <2>2. ASSUME NEW u \in Row, Kept(u, w)
        PROVE  [u EXCEPT !.dept = to] \in Row /\ Kept([u EXCEPT !.dept = to], w)
    <3> DEFINE v == [u EXCEPT !.dept = to]
    <3>1. v \in Row /\ Kept(v, u)
      BY PlacedRow
    <3> QED BY <2>2, <3>1 DEF Kept
  <2> QED BY <1>1, <2>1, <2>2 DEF transfer_person
<1>5. offboard_person(w) \in Row /\ Kept(offboard_person(w), w)
  <2> DEFINE t == new_transition("offboard", FALSE)
             u == Settled(w)
             v == [u EXCEPT !.tr = t]
  <2>1. t \in Transition /\ MeaningOK(t) /\ ~t.routine /\ ~is_released(t)
    BY NewTransitionTyped, KindsAreKinds DEF MeaningOK, is_released
  <2> HIDE DEF t, u
  <2>2. u \in Person /\ Kept(u, w)
    BY <1>1 DEF Row, u
  <2>3. v \in Person /\ v.tr = t /\ Kept(v, w)
    BY <2>1, <2>2 DEF Person, Kept
  <2>4. v \in Row
    BY <2>1, <2>3 DEF Row, PointerOK
  <2> HIDE DEF v
  <2> QED BY <1>1, <1>2, <2>3, <2>4 DEF offboard_person, v, u, t
<1> QED BY <1>3, <1>4, <1>5

\* What time makes of a row.
Ticked(w) ==
    [w EXCEPT !.age = IF w.beat = "silent" THEN 0 ELSE Lesser(@ + 1, AgeCap),
              !.woke = Lesser(@ + 1, Lease),
              !.tr.age = IF is_open(w.tr) THEN Lesser(@ + 1, TrAge) ELSE 0]

\* A clock that saturates stays in its range.
LEMMA Saturates ==
    ASSUME NEW cap \in Nat, NEW n \in 0..cap
    PROVE  Lesser(n + 1, cap) \in 0..cap
BY DEF Lesser

\* Time leaves a row of the same person, older by a tick.
LEMMA TickedRow ==
    ASSUME NEW w \in Row
    PROVE  /\ Ticked(w) \in Row
           /\ Ticked(w).beat = w.beat
           /\ Ticked(w).age = IF w.beat = "silent" THEN 0
                              ELSE Lesser(w.age + 1, AgeCap)
           /\ Ticked(w).emp = w.emp /\ Ticked(w).lastEmp = w.lastEmp
           /\ Ticked(w).dept = w.dept /\ Ticked(w).lastDept = w.lastDept
           /\ Ticked(w).tr.routine = w.tr.routine
           /\ Ticked(w).tr.st = w.tr.st
<1> DEFINE age  == IF w.beat = "silent" THEN 0 ELSE Lesser(w.age + 1, AgeCap)
           woke == Lesser(w.woke + 1, Lease)
           due  == IF is_open(w.tr) THEN Lesser(w.tr.age + 1, TrAge) ELSE 0
           t    == [w.tr EXCEPT !.age = due]
           u    == [w EXCEPT !.age = age, !.woke = woke, !.tr = t]
<1>1. /\ w \in Person /\ w.tr \in Transition /\ w.age \in 0..AgeCap
      /\ w.woke \in 0..Lease /\ w.tr.age \in 0..TrAge /\ PointerOK(w)
  BY RowFields DEF Row
<1>2. age \in 0..AgeCap /\ woke \in 0..Lease /\ due \in 0..TrAge
  BY <1>1, Caps, Saturates
<1>3. Ticked(w) = u
  BY <1>1 DEF Ticked, Person, Transition
<1> HIDE DEF age, woke, due
<1>4. /\ t \in Transition /\ t.st = w.tr.st /\ t.kind = w.tr.kind
      /\ t.routine = w.tr.routine
  BY <1>1, <1>2 DEF Transition
<1> HIDE DEF t
<1>5. /\ u \in Person /\ u.tr = t /\ u.desired = w.desired /\ u.age = age
      /\ u.beat = w.beat /\ u.emp = w.emp /\ u.lastEmp = w.lastEmp
      /\ u.dept = w.dept /\ u.lastDept = w.lastDept
  BY <1>1, <1>2, <1>4 DEF Person
<1>6. PointerOK(u)
  BY <1>1, <1>4, <1>5 DEF PointerOK, MeaningOK
<1> HIDE DEF u
<1> QED BY <1>3, <1>4, <1>5, <1>6 DEF Row, age

\* A click or a start frees a row from its routine park and stamps it.
LEMMA FreedRow ==
    ASSUME NEW w \in Row
    PROVE  LET u == release_idle_park(w)
           IN  /\ u \in Row /\ ~u.tr.routine /\ u.woke = 0
               /\ u.beat = "silent" /\ u.age = 0
               /\ is_released(u.tr) => is_released(w.tr)
<1> DEFINE free == IF w.tr.routine THEN Settled(w) ELSE w
           u    == release_idle_park(w)
<1>1. /\ free \in Row /\ ~free.tr.routine
      /\ is_released(free.tr) => is_released(w.tr)
  BY SettledRow, NothingKept DEF Row
<1>2. u = [free EXCEPT !.woke = 0, !.beat = "silent", !.age = 0]
  BY DEF release_idle_park
<1> HIDE DEF free
<1>3. /\ u \in Person /\ u.tr = free.tr /\ u.desired = free.desired
      /\ u.woke = 0 /\ u.beat = "silent" /\ u.age = 0
  BY <1>1, <1>2, Caps DEF Row, Person
<1>4. PointerOK(u)
  BY <1>1, <1>3 DEF PointerOK, Row
<1> HIDE DEF u
<1> QED BY <1>1, <1>3, <1>4 DEF Row, u

\* A beat stamps a row.
LEMMA BeatenRow ==
    ASSUME NEW w \in Row, NEW beat \in {"working", "quiet"}
    PROVE  LET u == [w EXCEPT !.beat = beat, !.age = 0]
           IN  /\ u \in Row /\ u.age = 0 /\ u.beat = beat
               /\ u.tr = w.tr /\ u.woke = w.woke
               /\ u.emp = w.emp /\ u.lastEmp = w.lastEmp
               /\ u.dept = w.dept /\ u.lastDept = w.lastDept
<1> DEFINE u == [w EXCEPT !.beat = beat, !.age = 0]
<1>1. /\ u \in Person /\ u.tr = w.tr /\ u.desired = w.desired
      /\ u.woke = w.woke /\ u.beat = beat /\ u.age = 0
      /\ u.emp = w.emp /\ u.lastEmp = w.lastEmp
      /\ u.dept = w.dept /\ u.lastDept = w.lastDept
  BY Caps DEF Row, Person
<1>2. PointerOK(u)
  BY <1>1 DEF PointerOK, Row
<1> QED BY <1>1, <1>2 DEF Row

\* A commanded stop leaves a row whose pointer is empty.
LEMMA StoppedRow ==
    ASSUME NEW w \in Row
    PROVE  LET u == [Settled(w) EXCEPT !.past["park"] = "abandoned",
                                       !.desired = FALSE]
           IN  u \in Row /\ Kept(u, w)
<1> DEFINE v == Settled(w)
           h == [v.past EXCEPT !["park"] = "abandoned"]
           u == [v EXCEPT !.past["park"] = "abandoned", !.desired = FALSE]
<1>1. /\ v \in Person /\ v.tr = NoTransition /\ v.emp = w.emp
      /\ v.beat = w.beat /\ v.age = w.age /\ v.woke = w.woke
  BY SettledRow DEF Row
<1> HIDE DEF v
<1>2. h \in [Kinds -> {"none", "applied", "forced", "abandoned"}]
  BY <1>1, RowFields, KindsAreKinds
<1>3. u = [v EXCEPT !.past = h, !.desired = FALSE]
  BY <1>1 DEF Person
<1> HIDE DEF h
<1>4. /\ u \in Person /\ u.tr = NoTransition /\ u.emp = w.emp
      /\ u.beat = w.beat /\ u.age = w.age /\ u.woke = w.woke
  BY <1>1, <1>2, <1>3 DEF Person
<1> HIDE DEF u
<1>5. PointerOK(u)
  BY <1>4 DEF PointerOK, MeaningOK, NoTransition
<1> QED BY <1>4, <1>5, NothingKept DEF Row, Kept, u, v

\* A start leaves a row that is up, quiet from now on and freed.
LEMMA StartedRow ==
    ASSUME NEW w \in Row
    PROVE  LET rehired == IF w.emp = "departed" THEN Settled(w) ELSE w
               freed   == release_idle_park(rehired)
               u == [freed EXCEPT !.emp = "active", !.desired = TRUE,
                                  !.beat = "quiet"]
           IN  /\ u \in Row /\ u.woke = 0 /\ u.age = 0 /\ u.emp = "active"
               /\ ~u.tr.routine /\ (is_released(u.tr) => is_released(w.tr))
<1> DEFINE rehired == IF w.emp = "departed" THEN Settled(w) ELSE w
           freed   == release_idle_park(rehired)
           u == [freed EXCEPT !.emp = "active", !.desired = TRUE,
                              !.beat = "quiet"]
<1>1. rehired \in Row /\ (is_released(rehired.tr) => is_released(w.tr))
  BY SettledRow, NothingKept DEF Row
<1> HIDE DEF rehired
<1>2. /\ freed \in Row /\ ~freed.tr.routine /\ freed.woke = 0
      /\ freed.age = 0 /\ (is_released(freed.tr) => is_released(w.tr))
  BY <1>1, FreedRow
<1> HIDE DEF freed
<1>3. /\ u \in Person /\ u.tr = freed.tr /\ u.woke = 0 /\ u.age = 0
      /\ u.emp = "active"
  BY <1>2 DEF Row, Person
<1> HIDE DEF u
<1>4. PointerOK(u)
  BY <1>2, <1>3 DEF PointerOK, Row
<1> QED BY <1>2, <1>3, <1>4 DEF Row, u, freed, rehired

-----------------------------------------------------------------------------
(* The inductive invariant *)

\* Every person's row is well formed and its pointer means what it should.
RowsOK == who \in [People -> Row]

\* The other variables have their types.
RestOK ==
    /\ fence \subseteq Staff
    /\ mail \in [Staff -> {"none", "stale", "fresh"}]
    /\ stood \in BOOLEAN
    /\ cursor \in 0..(Cardinality(People) - 1)
    /\ watch \in 0..AgeCap
    /\ pass \in Pass
    /\ route \in Route
    /\ lastPass \in {"none", "ok", "conflict"}
    /\ refused \in {"none", "already-assigned", "transition-conflict",
                    "transition-terminal", "not-applicable"}
    /\ requests \in 0..MaxRequests
    /\ calm \in [Staff -> 0..Lease]

\* A request under way is about one of the staff.
Requester == route.step # "idle" => route.person \in Staff

\* The staff are people, and none of them is the root.
LEMMA StaffArePeople ==
    /\ Staff \subseteq People /\ Ceo \in People /\ Ceo \notin Staff
    /\ People = Staff \cup {Ceo}
BY PeopleAssumption DEF People

\* The people are finitely many, and there is one.
LEMMA Headcount ==
    /\ IsFiniteSet(People) /\ Cardinality(People) \in Nat \ {0}
<1>1. IsFiniteSet(People)
  BY PeopleAssumption, FS_AddElement DEF People
<1>2. People # {}
  BY StaffArePeople
<1> QED BY <1>1, <1>2, FS_CardinalityType, FS_EmptySet

\* Of people who are admitted there is a last in the order.
LEMMA HasLast ==
    ASSUME NEW S \in SUBSET People, S # {}
    PROVE  \E p \in S : \A q \in S : pos[q] <= pos[p]
<1> DEFINE N == Cardinality(People)
           T == {N - pos[p] : p \in S}
<1>1. N \in Nat /\ \A p \in S : pos[p] \in 0..(N - 1)
  BY Headcount, PeopleAssumption
<1> HIDE DEF N
<1>2. T \in SUBSET Nat /\ T # {}
  BY <1>1
<1>3. \E x \in T : \A y \in T : ~(<<y, x>> \in OpToRel(<, Nat))
  BY <1>2, WFMin, NatLessThanWellFounded
<1>4. \E x \in T : \A y \in T : ~(y < x)
  BY <1>2, <1>3 DEF OpToRel
<1>5. PICK p \in S : \A q \in S : ~(N - pos[q] < N - pos[p])
  BY <1>4
<1> QED BY <1>1, <1>5

\* The cursor stays within the order.
LEMMA CursorStays ==
    ASSUME NEW S \in SUBSET People, cursor \in 0..(Cardinality(People) - 1)
    PROVE  next_cursor(S) \in 0..(Cardinality(People) - 1)
<1>1. CASE S = {}
  BY <1>1 DEF next_cursor
<1>2. CASE S # {}
  <2> DEFINE last == CHOOSE p \in S : \A q \in S : pos[q] <= pos[p]
             N == Cardinality(People)
  <2>1. last \in S
    BY <1>2, HasLast
  <2> HIDE DEF last
  <2>2. pos[last] \in Nat /\ N \in Nat \ {0}
    BY <2>1, PeopleAssumption, Headcount
  <2> HIDE DEF N
  <2>3. (pos[last] + 1) % N \in 0..(N - 1)
    BY <2>2
  <2> QED BY <1>2, <2>3 DEF next_cursor, last, N
<1> QED BY <1>1, <1>2

\* The fence a pass enforces names staff.
LEMMA FenceOfStaff ==
    ASSUME RestOK
    PROVE  /\ pass_fence \subseteq Staff /\ carried_fence \subseteq Staff
           /\ grants \subseteq Staff /\ stale_carried \subseteq carried_fence
BY DEF RestOK, Pass, pass_fence, carried_fence, grants, launch_demand,
       stale_carried

-----------------------------------------------------------------------------
(* Every step leaves every row well formed *)

\* The sweep leaves well formed rows.
LEMMA SweptRows ==
    ASSUME RowsOK
    PROVE  /\ Swept \in [People -> Row]
           /\ \A p \in People : /\ SamePerson(Swept[p], who[p])
                                /\ Kept(Swept[p], who[p])
BY SweptRow DEF RowsOK, Swept

\* Letting go of the ids a request held leaves well formed rows.
LEMMA UnheldRows ==
    ASSUME NEW ws \in [People -> Row]
    PROVE  /\ Unheld(ws) \in [People -> Row]
           /\ \A p \in People : /\ SamePerson(Unheld(ws)[p], ws[p])
                                /\ Kept(Unheld(ws)[p], ws[p])
BY HeldRow DEF Unheld

\* A pass that commits puts a reconciled row for every row.
LEMMA CommitRows ==
    ASSUME RowsOK, Commit
    PROVE  \/ UNCHANGED who /\ lastPass' = "conflict" /\ UNCHANGED calm
           \/ \E demanded, fenced, parks \in [People -> BOOLEAN] :
                 /\ who' = [p \in People |->
                               reconcile_person(Swept[p], demanded[p],
                                                fenced[p], parks[p])]
                 /\ \A p \in People :
                       /\ demanded[p] = (p \in demanded_people)
                       /\ fenced[p] = admits(pass_fence, p)
                       /\ parks[p] = (p \in admitted_parks(Swept, demanded_people))
                 /\ lastPass' = "ok" /\ calm' = calmed(who')
<1> DEFINE conflict == \E p \in People :
                          conflicts(Swept[p], admits(pass_fence, p))
           d == [p \in People |-> p \in demanded_people]
           f == [p \in People |-> admits(pass_fence, p)]
           k == [p \in People |-> p \in admitted_parks(Swept, demanded_people)]
           after == [p \in People |->
                        reconcile_person(Swept[p], p \in demanded_people,
                           admits(pass_fence, p),
                           p \in admitted_parks(Swept, demanded_people))]
<1>1. CASE conflict
  BY <1>1 DEF Commit
<1>2. CASE ~conflict
  <2>1. who' = after /\ lastPass' = "ok" /\ calm' = calmed(after)
    BY <1>2 DEF Commit
  <2>2. /\ d \in [People -> BOOLEAN] /\ f \in [People -> BOOLEAN]
        /\ k \in [People -> BOOLEAN]
    BY DEF admits
  <2>3. after = [p \in People |-> reconcile_person(Swept[p], d[p], f[p], k[p])]
    OBVIOUS
  <2>4. \A p \in People :
           /\ d[p] = (p \in demanded_people)
           /\ f[p] = admits(pass_fence, p)
           /\ k[p] = (p \in admitted_parks(Swept, demanded_people))
    OBVIOUS
  <2> HIDE DEF after, d, f, k
  <2>5. /\ who' = [p \in People |-> reconcile_person(Swept[p], d[p], f[p], k[p])]
        /\ lastPass' = "ok" /\ calm' = calmed(who')
    BY <2>1, <2>3
  <2> QED BY <2>2, <2>4, <2>5
<1> QED BY <1>1, <1>2

\* The structural verb a kind stands for leaves well formed rows and stamps.
LEMMA StructuralRows ==
    ASSUME RowsOK, NEW p \in Staff, NEW kind \in Kinds,
           apply_structural(p, kind)
    PROVE  /\ who' \in [People -> Row]
           /\ \A q \in People : Kept(who'[q], who[q])
           /\ who'[Ceo] = who[Ceo]
<1> DEFINE u == CASE kind = "park"     -> bench_person(who[p])
                  [] kind = "offboard" -> offboard_person(who[p])
                  [] OTHER             -> transfer_person(who[p], kind)
<1>1. p \in People /\ p # Ceo /\ who[p] \in Row
  BY StaffArePeople DEF RowsOK
<1>2. who' = [who EXCEPT ![p] = u]
  BY DEF apply_structural
<1>3. u \in Row /\ Kept(u, who[p])
  <2>1. CASE kind \in Depts
    BY <1>1, <2>1, StructuralRow, KindsAreKinds
  <2>2. CASE kind = "park" \/ kind = "offboard"
    BY <1>1, <2>2, StructuralRow, PlacesAssumption
  <2> QED BY <2>1, <2>2 DEF Kinds
<1> HIDE DEF u
<1> QED BY <1>1, <1>2, <1>3, StaffArePeople, NothingKept DEF RowsOK

\* Every step leaves well formed rows.
LEMMA RowsStep ==
    ASSUME RowsOK, RestOK, Requester, [Next]_vars
    PROVE  RowsOK'
<1> SUFFICES who' \in [People -> Row]
  BY DEF RowsOK
<1>1. /\ who \in [People -> Row]
      /\ \A p \in Staff : p \in People
  BY StaffArePeople DEF RowsOK
<1>2. CASE UNCHANGED who
  BY <1>1, <1>2
<1>3. CASE Tick
  <2>1. who' = [p \in People |-> Ticked(who[p])]
    BY <1>3 DEF Tick, Ticked
  <2> QED BY <1>1, <2>1, TickedRow
<1>4. CASE Commit
  <2>1. Swept \in [People -> Row]
    BY SweptRows
  <2>2. ASSUME NEW d \in [People -> BOOLEAN], NEW f \in [People -> BOOLEAN],
               NEW k \in [People -> BOOLEAN],
               who' = [p \in People |->
                          reconcile_person(Swept[p], d[p], f[p], k[p])]
        PROVE  who' \in [People -> Row]
    BY <2>1, <2>2, Reconciled
  <2> QED BY <1>2, <1>4, <2>2, CommitRows
<1>5. ASSUME NEW p \in Staff, NEW working \in BOOLEAN, Beat(p, working)
      PROVE  who' \in [People -> Row]
  <2> DEFINE beat == IF working THEN "working" ELSE "quiet"
  <2>1. Swept \in [People -> Row] /\ beat \in {"working", "quiet"}
    BY SweptRows
  <2>2. who' = [Swept EXCEPT ![p] = [Swept[p] EXCEPT !.beat = beat, !.age = 0]]
    BY <1>1, <1>5, <2>1 DEF Beat
  <2> HIDE DEF beat
  <2> QED BY <1>1, <2>1, <2>2, BeatenRow
<1>6. CASE Restart
  BY <1>1, <1>6, HeldRow DEF Restart
<1>7. CASE prepare_ceo_only
  BY <1>1, <1>7, PlacedRow, PlacesAssumption DEF prepare_ceo_only
<1>8. ASSUME NEW p \in Staff, wake_person(p)
      PROVE  who' \in [People -> Row]
  <2>1. who' = [who EXCEPT ![p] = [release_idle_park(who[p])
                                      EXCEPT !.emp = "active"]]
    BY <1>1, <1>8 DEF wake_person
  <2> QED BY <1>1, <2>1, FreedRow, EmployedRow
<1>9. ASSUME NEW p \in Staff, start_person(p)
      PROVE  who' \in [People -> Row]
  BY <1>1, <1>9, StartedRow DEF start_person
<1>10. ASSUME NEW p \in Staff, recall_person(p)
       PROVE  who' \in [People -> Row]
  <2>1. who' = [who EXCEPT ![p] = [who[p] EXCEPT !.emp = "active"]]
    BY <1>1, <1>10 DEF recall_person
  <2> QED BY <1>1, <2>1, EmployedRow
<1>11. ASSUME NEW p \in Staff, shutdown_person(p)
       PROVE  who' \in [People -> Row]
  BY <1>1, <1>11, StoppedRow DEF shutdown_person
<1>12. ASSUME NEW p \in Staff, Hire(p)
       PROVE  who' \in [People -> Row]
  <2>1. who' = [who EXCEPT ![p] = [who[p] EXCEPT !.emp = "active",
                                                 !.lastEmp = "active"]]
    BY <1>1, <1>12 DEF Hire
  <2> QED BY <1>1, <2>1, EmployedRow
<1>13. ASSUME NEW p \in Staff, NEW kind \in Kinds, StructuralVerb(p, kind)
       PROVE  who' \in [People -> Row]
  BY <1>13, StructuralRows DEF StructuralVerb
<1>14. ASSUME NEW p \in Staff, NEW kind \in Kinds, Decide(p, kind)
       PROVE  who' \in [People -> Row]
  <2> DEFINE held == who[p].tr.held = TRUE \/ who[p].tr.kind = kind
  <2>1. who' = [who EXCEPT ![p] = [who[p] EXCEPT !.tr.held = held]]
    BY <1>1, <1>14 DEF Decide
  <2>2. held \in BOOLEAN
    OBVIOUS
  <2> HIDE DEF held
  <2> QED BY <1>1, <2>1, <2>2, HeldRow
<1>15. CASE Prepare
  <2> DEFINE p == route.person
             w == ensure_matching_transition(Swept[p], route.kind, FALSE)
  <2>1. p \in People /\ route.kind \in Kinds /\ Swept \in [People -> Row]
    BY SweptRows DEF RestOK, Route
  <2>2. w \in Row /\ [w EXCEPT !.tr.held = TRUE] \in Row
    BY <2>1, PreparedRow, HeldRow
  <2>3. \/ who' = Unheld(who)
        \/ who' = [Swept EXCEPT ![p] = [w EXCEPT !.tr.held = TRUE]]
    BY <1>15 DEF Prepare
  <2> HIDE DEF w
  <2> QED BY <1>1, <2>1, <2>2, <2>3, UnheldRows
<1>16. CASE Release
  <2> DEFINE p == route.person
  <2>1. p \in People /\ Swept \in [People -> Row]
    BY SweptRows DEF RestOK, Route
  <2>2. \/ who' = Unheld(who)
        \/ /\ is_open(Swept[p].tr)
           /\ who' = [Swept EXCEPT ![p].tr.st = "ready"]
    BY <1>16 DEF Release
  <2>3. CASE /\ is_open(Swept[p].tr)
             /\ who' = [Swept EXCEPT ![p].tr.st = "ready"]
    <3>1. who' = [Swept EXCEPT ![p] = [Swept[p] EXCEPT !.tr.st = "ready"]]
      BY <2>1, <2>3
    <3>2. [Swept[p] EXCEPT !.tr.st = "ready"] \in Row
      BY <2>1, <2>3, ReleasedRow
    <3> QED BY <2>1, <3>1, <3>2
  <2> QED BY <1>1, <2>2, <2>3, UnheldRows
<1>17. CASE Apply
  <2>1. route.person \in Staff /\ route.kind \in Kinds
    BY <1>17 DEF Apply, Requester, RestOK, Route
  <2>2. UNCHANGED who \/ apply_structural(route.person, route.kind)
    BY <1>17 DEF Apply
  <2> QED BY <1>2, <2>1, <2>2, StructuralRows
<1>18. CASE Settle
  <2> DEFINE p  == route.person
             ws == [Swept EXCEPT ![p] = settle_applied_move(Swept[p])]
  <2>1. p \in People /\ Swept \in [People -> Row]
    BY SweptRows DEF RestOK, Route
  <2>2. who' = Unheld(ws)
    BY <1>18, <2>1 DEF Settle
  <2>3. ws \in [People -> Row]
    BY <2>1, SettledMoveRow
  <2> QED BY <2>2, <2>3, UnheldRows
<1>19. CASE DropRequest
  BY <1>1, <1>19, UnheldRows DEF DropRequest
<1>20. ReadFacts \/ ReadCommitted \/ stand_down \/ resume => UNCHANGED who
  BY DEF ReadFacts, ReadCommitted, stand_down, resume
<1>21. \A p \in Staff : MailArrives(p) \/ Drain(p) => UNCHANGED who
  BY DEF MailArrives, Drain
<1>22. UNCHANGED vars => UNCHANGED who
  BY DEF vars
<1> QED
  BY <1>2, <1>3, <1>4, <1>5, <1>6, <1>7, <1>8, <1>9, <1>10, <1>11, <1>12,
     <1>13, <1>14, <1>15, <1>16, <1>17, <1>18, <1>19, <1>20, <1>21, <1>22
     DEF Next, PassStep, RouteStep, StaffVerb

-----------------------------------------------------------------------------
(* The other parts of the invariant *)

\* Where a request goes next is a step of the route.
LEMMA NextSteps ==
    \A status : step_for(status) \in {"prepare", "release", "apply"}
BY DEF step_for

\* Every step leaves the other variables in their types.
LEMMA RestStep ==
    ASSUME RowsOK, RestOK, Requester, [Next]_vars
    PROVE  RestOK' /\ Requester'
<1> USE DEF Requester
<1>1. CASE Tick
  <2>1. watch' \in 0..AgeCap /\ calm' \in [Staff -> 0..Lease]
    BY <1>1, Caps, Saturates DEF Tick, RestOK
  <2> QED BY <1>1, <2>1 DEF Tick, RestOK
<1>2. CASE ReadFacts
  BY <1>2 DEF ReadFacts, RestOK, Pass, NoPass
<1>3. CASE ReadCommitted
  BY <1>3 DEF ReadCommitted, RestOK, Pass
<1>4. CASE Commit
  <2>1. /\ pass' = NoPass /\ lastPass' \in {"conflict", "ok"}
        /\ UNCHANGED <<mail, stood, watch, route, refused, requests>>
        /\ \/ UNCHANGED <<fence, cursor>>
           \/ \E after :
                 /\ fence' = published_fence(after)
                 /\ cursor' = next_cursor(admitted_parks(Swept, demanded_people))
    <3>1. CASE \E p \in People : conflicts(Swept[p], admits(pass_fence, p))
      BY <1>4, <3>1 DEF Commit
    <3>2. CASE ~\E p \in People : conflicts(Swept[p], admits(pass_fence, p))
      BY <1>4, <3>2 DEF Commit
    <3> QED BY <3>1, <3>2
  <2>2. \A after : published_fence(after) \subseteq Staff
    BY FenceOfStaff DEF published_fence, publish, RestOK, Pass
  <2>3. cursor' \in 0..(Cardinality(People) - 1)
    <3>1. admitted_parks(Swept, demanded_people) \in SUBSET People
      BY DEF admitted_parks
    <3> QED BY <2>1, <3>1, CursorStays DEF RestOK
  <2>4. calm' \in [Staff -> 0..Lease]
    BY <1>4, CommitRows, Caps DEF calmed, RestOK
  <2>5. NoPass \in Pass
    BY DEF NoPass, Pass
  <2> QED BY <2>1, <2>2, <2>3, <2>4, <2>5 DEF RestOK
<1>5. ASSUME NEW p \in Staff, NEW working \in BOOLEAN, Beat(p, working)
      PROVE  RestOK' /\ Requester'
  BY <1>5, Caps DEF Beat, RestOK
<1>6. CASE Restart
  <2>1. requests' \in 0..MaxRequests
    BY <1>6, BoundsAssumption DEF Restart, Request, RestOK
  <2>2. calm' \in [Staff -> 0..Lease] /\ watch' \in 0..AgeCap
    BY <1>6, Caps DEF Restart, RestOK
  <2>3. pass' \in Pass
    BY <1>6 DEF Restart, NoPass, Pass
  <2>4. route' \in Route /\ route'.step = "idle"
    BY <1>6 DEF Restart, RestOK, Route
  <2> QED BY <1>6, <2>1, <2>2, <2>3, <2>4 DEF Restart, RestOK
<1>7. ASSUME NEW verb, Request(verb) PROVE requests' \in 0..MaxRequests
  BY <1>7, BoundsAssumption DEF Request, RestOK
<1>8. CASE prepare_ceo_only
  BY <1>7, <1>8 DEF prepare_ceo_only, RestOK, Pass
<1>9. CASE stand_down
  BY <1>7, <1>9 DEF stand_down, RestOK
<1>10. CASE resume
  BY <1>10 DEF resume, RestOK
<1>11. ASSUME NEW p \in Staff,
              MailArrives(p) \/ Drain(p) \/ wake_person(p) \/ start_person(p)
              \/ recall_person(p) \/ shutdown_person(p) \/ Hire(p)
       PROVE  RestOK' /\ Requester'
  <2>1. CASE MailArrives(p)
    BY <1>7, <2>1 DEF MailArrives, RestOK
  <2>2. CASE Drain(p)
    BY <2>2 DEF Drain, RestOK
  <2>3. CASE wake_person(p)
    BY <1>7, <2>3, Caps DEF wake_person, RestOK
  <2>4. CASE start_person(p)
    BY <1>7, <2>4, Caps DEF start_person, RestOK
  <2>5. CASE recall_person(p)
    BY <1>7, <2>5 DEF recall_person, RestOK
  <2>6. CASE shutdown_person(p)
    <3>1. pass' \in Pass /\ fence' \subseteq Staff
      BY <2>6 DEF shutdown_person, RestOK, Pass
    <3>2. mail' \in [Staff -> {"none", "stale", "fresh"}]
      BY <2>6 DEF shutdown_person, RestOK
    <3> QED BY <1>7, <2>6, <3>1, <3>2 DEF shutdown_person, RestOK
  <2>7. CASE Hire(p)
    BY <1>7, <2>7, Caps DEF Hire, RestOK
  <2> QED BY <1>11, <2>1, <2>2, <2>3, <2>4, <2>5, <2>6, <2>7
<1>12. ASSUME NEW p \in Staff, NEW kind \in Kinds,
              apply_structural(p, kind)
       PROVE  fence' \subseteq Staff
  BY <1>12 DEF apply_structural, RestOK
<1>13. ASSUME NEW p \in Staff, NEW kind \in Kinds, StructuralVerb(p, kind)
       PROVE  RestOK' /\ Requester'
  BY <1>7, <1>12, <1>13 DEF StructuralVerb, RestOK
<1>14. ASSUME NEW p \in Staff, NEW kind \in Kinds, Decide(p, kind)
       PROVE  RestOK' /\ Requester'
  <2>1. route' \in Route /\ route'.person = p
    BY <1>14, NextSteps, StaffArePeople DEF Decide, Route
  <2> QED BY <1>7, <1>14, <2>1 DEF Decide, RestOK
<1>15. ASSUME NEW why, ends(why)
       PROVE  route' \in Route /\ route'.step = "idle" /\ refused' = why
  BY <1>15 DEF ends, RestOK, Route
<1>16. CASE Prepare
  <2>1. /\ route' \in Route
        /\ route'.person = route.person
        /\ refused' \in {refused, "already-assigned", "transition-conflict"}
    BY <1>15, <1>16, NextSteps DEF Prepare, RestOK, Route, ends
  <2> QED BY <1>16, <2>1 DEF Prepare, RestOK
<1>17. CASE Release
  <2>1. /\ route' \in Route
        /\ route'.person = route.person
        /\ refused' \in {refused, "transition-terminal"}
    BY <1>15, <1>17 DEF Release, RestOK, Route, ends
  <2> QED BY <1>17, <2>1 DEF Release, RestOK
<1>18. CASE Apply
  <2>1. /\ route' \in Route
        /\ route'.person = route.person
        /\ refused' \in {refused, "none", "not-applicable"}
    BY <1>15, <1>18 DEF Apply, RestOK, Route, ends
  <2>2. fence' \subseteq Staff
    <3>1. route.person \in Staff /\ route.kind \in Kinds
      BY <1>18 DEF Apply, RestOK, Route
    <3>2. UNCHANGED fence \/ apply_structural(route.person, route.kind)
      BY <1>18 DEF Apply
    <3> QED BY <1>12, <3>1, <3>2 DEF RestOK
  <2> QED BY <1>18, <2>1, <2>2 DEF Apply, RestOK
<1>19. CASE Settle
  BY <1>15, <1>19 DEF Settle, RestOK
<1>20. CASE DropRequest
  BY <1>15, <1>20 DEF DropRequest, RestOK
<1>21. CASE UNCHANGED vars
  BY <1>21 DEF vars, RestOK
<1> QED
  BY <1>1, <1>2, <1>3, <1>4, <1>5, <1>6, <1>8, <1>9, <1>10, <1>11, <1>13,
     <1>14, <1>16, <1>17, <1>18, <1>19, <1>20, <1>21
     DEF Next, PassStep, RouteStep, StaffVerb
-----------------------------------------------------------------------------
(* What the steps other than a pass and a tick do to the rows *)

\* The root is employed and placed where the ledger last saw it.
AtHome(w) == w.emp = "active" /\ w.lastEmp = "active" /\ w.dept = w.lastDept

\* A step parks and releases nobody, and takes no lease away; a person whose
\* stamps it changes was heard, and one whose calm it changes was heard, did
\* not exist, or is watched only from now on.
Moves(p) ==
    /\ who'[p].tr.routine => who[p].tr.routine
    /\ route.step = "idle" =>
          (is_released(who'[p].tr) => is_released(who[p].tr))
    /\ who'[p].woke \in {who[p].woke, 0}
    /\ who'[p].emp = "absent" => who[p].emp = "absent"
    /\ \/ who'[p].age = 0 /\ who'[p].emp # "absent"
       \/ /\ who'[p].beat = who[p].beat /\ who'[p].age = who[p].age
          /\ \/ calm'[p] = calm[p]
             \/ who[p].emp = "absent"
             \/ who[p].beat = "working" /\ watch' = 0

\* A person whose row is kept, and whose calm is, moves so.
LEMMA KeptMoves ==
    ASSUME NEW p, Kept(who'[p], who[p]),
           \/ calm'[p] = calm[p]
           \/ who[p].emp = "absent"
           \/ who[p].beat = "working" /\ watch' = 0
    PROVE  Moves(p)
BY DEF Kept, Moves

\* The same person is as much at home.
LEMMA SameHome ==
    \A u, w : SamePerson(u, w) /\ AtHome(w) => AtHome(u)
BY DEF SamePerson, AtHome

\* Every step but a tick and a commit moves the staff so, and the root nowhere.
LEMMA OtherSteps ==
    ASSUME RowsOK, RestOK, Requester, [Next]_vars, ~Tick, ~Commit
    PROVE  /\ \A p \in Staff : Moves(p)
           /\ watch' \in {watch, 0}
           /\ AtHome(who[Ceo]) => AtHome(who'[Ceo])
<1> DEFINE Good == /\ \A p \in Staff : Moves(p)
                   /\ watch' \in {watch, 0}
                   /\ AtHome(who[Ceo]) => AtHome(who'[Ceo])
<1> SUFFICES Good
  OBVIOUS
<1> HIDE DEF Good
<1>1. /\ who \in [People -> Row] /\ calm \in [Staff -> 0..Lease]
      /\ Staff \subseteq People /\ Ceo \in People /\ Ceo \notin Staff
      /\ Swept \in [People -> Row]
      /\ \A p \in People : /\ SamePerson(Swept[p], who[p])
                           /\ Kept(Swept[p], who[p])
                           /\ Kept(who[p], who[p])
  BY StaffArePeople, SweptRows, NothingKept DEF RowsOK, RestOK
<1>2. ASSUME UNCHANGED <<who, calm>>, watch' \in {watch, 0} PROVE Good
  BY <1>1, <1>2, KeptMoves DEF Good
<1>3. ASSUME NEW p \in Staff, NEW u, who' = [who EXCEPT ![p] = u],
             \A q \in Staff \ {p} : calm'[q] = calm[q], watch' = watch,
             Moves(p)
      PROVE  Good
  <2>1. \A q \in People \ {p} : who'[q] = who[q]
    BY <1>1, <1>3
  <2>2. \A q \in Staff \ {p} : Moves(q)
    BY <1>1, <1>3, <2>1, KeptMoves
  <2> QED BY <1>1, <1>3, <2>1, <2>2 DEF Good
<1>4. ASSUME NEW p \in Staff, NEW u \in Row, who' = [who EXCEPT ![p] = u],
             Kept(u, who[p]), UNCHANGED <<calm, watch>>
      PROVE  Good
  <2>1. who'[p] = u
    BY <1>1, <1>4
  <2>2. Moves(p)
    BY <1>4, <2>1, KeptMoves
  <2> QED BY <1>3, <1>4, <2>2
<1>5. ASSUME \A p \in People : /\ SamePerson(who'[p], who[p])
                               /\ Kept(who'[p], who[p]),
             UNCHANGED <<calm, watch>>
      PROVE  Good
  BY <1>1, <1>5, KeptMoves, SameHome DEF Good
<1>6. ASSUME NEW p \in Staff, NEW working \in BOOLEAN, Beat(p, working)
      PROVE  Good
  <2> DEFINE beat == IF working THEN "working" ELSE "quiet"
             u    == [Swept[p] EXCEPT !.beat = beat, !.age = 0]
  <2>1. who' = [Swept EXCEPT ![p] = u] /\ beat \in {"working", "quiet"}
    BY <1>1, <1>6 DEF Beat
  <2> HIDE DEF beat
  <2>2. u \in Row /\ u.age = 0 /\ u.tr = Swept[p].tr /\ u.woke = Swept[p].woke
        /\ u.emp = Swept[p].emp
    <3>1. Swept[p] \in Row
      BY <1>1
    <3> QED BY <2>1, <3>1, BeatenRow
  <2> HIDE DEF u
  <2>3. who'[p] = u /\ \A q \in People \ {p} : who'[q] = Swept[q]
    BY <1>1, <2>1
  <2>4. Moves(p)
    BY <1>1, <1>6, <2>2, <2>3 DEF Beat, Moves, Kept, SamePerson
  <2>5. \A q \in Staff \ {p} : Moves(q)
    BY <1>1, <1>6, <2>3, KeptMoves DEF Beat, RestOK
  <2>6. AtHome(who[Ceo]) => AtHome(who'[Ceo])
    BY <1>1, <2>3, SameHome
  <2> QED BY <1>6, <2>4, <2>5, <2>6 DEF Beat, Good
<1>7. CASE Restart
  <2>1. \A p \in People : /\ SamePerson(who'[p], who[p])
                          /\ Kept(who'[p], who[p])
    BY <1>1, <1>7, HeldRow DEF Restart
  <2>2. watch' = 0 /\ \A p \in Staff :
            who[p].beat # "working" => calm'[p] = calm[p]
    BY <1>7 DEF Restart
  <2> QED BY <1>1, <2>1, <2>2, KeptMoves, SameHome DEF Good
<1>8. CASE prepare_ceo_only
  <2>1. \A p \in People : Kept(who'[p], who[p])
    BY <1>1, <1>8, PlacedRow, PlacesAssumption DEF prepare_ceo_only
  <2>2. who'[Ceo] = who[Ceo] /\ UNCHANGED <<calm, watch>>
    BY <1>1, <1>8 DEF prepare_ceo_only
  <2> QED BY <1>1, <2>1, <2>2, KeptMoves DEF Good
<1>9. ASSUME NEW p \in Staff, wake_person(p) PROVE Good
  <2> DEFINE v == release_idle_park(who[p])
             u == [v EXCEPT !.emp = "active"]
  <2>1. who' = [who EXCEPT ![p] = u]
    BY <1>1, <1>9 DEF wake_person
  <2>2. /\ v \in Row /\ ~v.tr.routine /\ v.woke = 0 /\ v.age = 0
        /\ is_released(v.tr) => is_released(who[p].tr)
    BY <1>1, FreedRow
  <2> HIDE DEF v
  <2>3. Kept(u, v) /\ u.emp = "active" /\ u \in Row
    <3>1. Kept(u, v) /\ u \in Row
      BY <2>2, EmployedRow
    <3> QED BY <2>2, <3>1 DEF Row, Person
  <2> HIDE DEF u
  <2>4. Moves(p)
    BY <1>1, <2>1, <2>2, <2>3 DEF Moves, Kept
  <2> QED BY <1>1, <1>3, <1>9, <2>1, <2>4 DEF wake_person
<1>10. ASSUME NEW p \in Staff, start_person(p) PROVE Good
  <2> DEFINE rehired == IF who[p].emp = "departed" THEN Settled(who[p]) ELSE who[p]
             freed   == release_idle_park(rehired)
             u == [freed EXCEPT !.emp = "active", !.desired = TRUE,
                                !.beat = "quiet"]
  <2>1. who' = [who EXCEPT ![p] = u]
    BY <1>1, <1>10 DEF start_person
  <2>2. /\ u \in Row /\ u.woke = 0 /\ u.age = 0 /\ u.emp = "active"
        /\ ~u.tr.routine /\ (is_released(u.tr) => is_released(who[p].tr))
    BY <1>1, StartedRow
  <2> HIDE DEF u
  <2>3. Moves(p)
    BY <1>1, <2>1, <2>2 DEF Moves
  <2> QED BY <1>1, <1>3, <1>10, <2>1, <2>3 DEF start_person
<1>11. ASSUME NEW p \in Staff, recall_person(p) PROVE Good
  <2> DEFINE u == [who[p] EXCEPT !.emp = "active"]
  <2>1. who' = [who EXCEPT ![p] = u] /\ UNCHANGED <<calm, watch>>
    BY <1>1, <1>11 DEF recall_person
  <2>2. u \in Row /\ Kept(u, who[p])
    BY <1>1, EmployedRow
  <2> HIDE DEF u
  <2> QED BY <1>4, <2>1, <2>2
<1>12. ASSUME NEW p \in Staff, shutdown_person(p) PROVE Good
  <2> DEFINE u == [Settled(who[p]) EXCEPT !.past["park"] = "abandoned",
                                          !.desired = FALSE]
  <2>1. who' = [who EXCEPT ![p] = u] /\ UNCHANGED <<calm, watch>>
    BY <1>1, <1>12 DEF shutdown_person
  <2>2. u \in Row /\ Kept(u, who[p])
    BY <1>1, StoppedRow
  <2> HIDE DEF u
  <2> QED BY <1>4, <2>1, <2>2
<1>13. ASSUME NEW p \in Staff, Hire(p) PROVE Good
  <2> DEFINE u == [who[p] EXCEPT !.emp = "active", !.lastEmp = "active"]
  <2>1. who' = [who EXCEPT ![p] = u]
    BY <1>1, <1>13 DEF Hire
  <2>2. u \in Row /\ Kept(u, who[p])
    BY <1>1, EmployedRow
  <2> HIDE DEF u
  <2>3. Moves(p)
    BY <1>1, <1>13, <2>1, <2>2, KeptMoves DEF Hire
  <2> QED BY <1>1, <1>3, <1>13, <2>1, <2>3 DEF Hire
<1>14. ASSUME NEW p \in Staff, NEW kind \in Kinds, apply_structural(p, kind),
              UNCHANGED <<calm, watch>>
       PROVE  Good
  BY <1>1, <1>14, StructuralRows, KeptMoves DEF Good
<1>15. ASSUME NEW p \in Staff, NEW kind \in Kinds, Decide(p, kind)
       PROVE  Good
  <2> DEFINE held == who[p].tr.held = TRUE \/ who[p].tr.kind = kind
             u == [who[p] EXCEPT !.tr.held = held]
  <2>1. who' = [who EXCEPT ![p] = u] /\ UNCHANGED <<calm, watch>>
    BY <1>1, <1>15 DEF Decide
  <2>2. held \in BOOLEAN
    OBVIOUS
  <2> HIDE DEF held
  <2>3. u \in Row /\ Kept(u, who[p])
    BY <1>1, <2>2, HeldRow
  <2> HIDE DEF u
  <2> QED BY <1>4, <2>1, <2>3
<1>16. ASSUME who' = Unheld(who), UNCHANGED <<calm, watch>> PROVE Good
  <2>1. \A p \in People : /\ SamePerson(who'[p], who[p])
                          /\ Kept(who'[p], who[p])
    BY <1>1, <1>16, UnheldRows
  <2> QED BY <1>5, <1>16, <2>1
<1>17. CASE Prepare
  <2> DEFINE p == route.person
             w == ensure_matching_transition(Swept[p], route.kind, FALSE)
             u == [w EXCEPT !.tr.held = TRUE]
  <2>1. p \in Staff /\ p \in People /\ route.kind \in Kinds
    BY <1>1, <1>17 DEF Prepare, Requester, RestOK, Route
  <2>2. /\ w \in Row /\ SamePerson(w, Swept[p]) /\ Kept(w, Swept[p])
        /\ u \in Row /\ SamePerson(u, w) /\ Kept(u, w)
    BY <1>1, <2>1, PreparedRow, HeldRow
  <2>3. /\ UNCHANGED <<calm, watch>>
        /\ who' = Unheld(who) \/ who' = [Swept EXCEPT ![p] = u]
    BY <1>17 DEF Prepare
  <2> HIDE DEF u, w
  <2>4. CASE who' = [Swept EXCEPT ![p] = u]
    <3>1. SamePerson(u, who[p]) /\ Kept(u, who[p])
      BY <1>1, <2>1, <2>2 DEF SamePerson, Kept
    <3>2. \A q \in People : /\ SamePerson(who'[q], who[q])
                            /\ Kept(who'[q], who[q])
      BY <1>1, <2>1, <2>4, <3>1
    <3> QED BY <1>5, <2>3, <3>2
  <2> QED BY <1>16, <2>3, <2>4
<1>18. CASE Release
  <2> DEFINE p == route.person
             u == [Swept[p] EXCEPT !.tr.st = "ready"]
  <2>1. p \in Staff /\ p \in People /\ route.step # "idle"
    BY <1>1, <1>18 DEF Release, Requester, RestOK, Route
  <2>2. /\ UNCHANGED <<calm, watch>>
        /\ \/ who' = Unheld(who)
           \/ is_open(Swept[p].tr) /\ who' = [Swept EXCEPT ![p] = u]
    BY <1>1, <1>18, <2>1 DEF Release
  <2>3. CASE is_open(Swept[p].tr) /\ who' = [Swept EXCEPT ![p] = u]
    <3>1. u \in Row /\ SamePerson(u, Swept[p]) /\ ~u.tr.routine
      BY <1>1, <2>1, <2>3, ReleasedRow
    <3> HIDE DEF u
    <3>2. who'[p] = u /\ \A q \in People \ {p} : who'[q] = Swept[q]
      BY <1>1, <2>1, <2>3
    <3>3. Moves(p)
      BY <1>1, <2>1, <2>2, <3>1, <3>2 DEF Moves, SamePerson
    <3>4. \A q \in Staff \ {p} : Moves(q)
      BY <1>1, <2>2, <3>2, KeptMoves
    <3>5. AtHome(who[Ceo]) => AtHome(who'[Ceo])
      BY <1>1, <2>1, <3>2, SameHome
    <3> QED BY <2>2, <3>3, <3>4, <3>5 DEF Good
  <2> QED BY <1>16, <2>2, <2>3
<1>19. CASE Apply
  <2>1. route.person \in Staff /\ route.kind \in Kinds
    BY <1>19 DEF Apply, Requester, RestOK, Route
  <2>2. /\ UNCHANGED <<calm, watch>>
        /\ UNCHANGED who \/ apply_structural(route.person, route.kind)
    BY <1>19 DEF Apply
  <2> QED BY <1>2, <1>14, <2>1, <2>2
<1>20. CASE Settle
  <2> DEFINE p  == route.person
             u  == settle_applied_move(Swept[p])
             ws == [Swept EXCEPT ![p] = u]
  <2>1. p \in Staff /\ p \in People
    BY <1>1, <1>20 DEF Settle, Requester, RestOK, Route
  <2>2. UNCHANGED <<calm, watch>> /\ who' = Unheld(ws)
    BY <1>1, <1>20, <2>1 DEF Settle
  <2>3. u \in Row /\ Kept(u, Swept[p])
    BY <1>1, <2>1, SettledMoveRow
  <2> HIDE DEF u
  <2>4. /\ ws \in [People -> Row]
        /\ ws[p] = u /\ \A q \in People \ {p} : ws[q] = Swept[q]
    BY <1>1, <2>1, <2>3
  <2> HIDE DEF ws
  <2>5. \A q \in People : /\ SamePerson(who'[q], ws[q])
                          /\ Kept(who'[q], ws[q])
    BY <2>2, <2>4, UnheldRows
  <2>6. \A q \in People : Kept(ws[q], who[q])
    BY <1>1, <2>1, <2>3, <2>4 DEF Kept
  <2>7. \A q \in People : Kept(who'[q], who[q])
    BY <2>5, <2>6 DEF Kept
  <2>8. SamePerson(who'[Ceo], Swept[Ceo])
    BY <1>1, <2>1, <2>4, <2>5
  <2>9. AtHome(who[Ceo]) => AtHome(who'[Ceo])
    BY <1>1, <2>8, SameHome
  <2> QED BY <1>1, <2>2, <2>7, <2>9, KeptMoves DEF Good
<1>21. CASE DropRequest
  BY <1>16, <1>21 DEF DropRequest
<1>22. ASSUME ReadFacts \/ ReadCommitted \/ stand_down \/ resume
              \/ UNCHANGED vars \/ \E p \in Staff : MailArrives(p) \/ Drain(p)
       PROVE  UNCHANGED <<who, calm, watch>>
  BY <1>22 DEF ReadFacts, ReadCommitted, stand_down, resume, MailArrives, Drain,
               vars
<1>23. ASSUME NEW p \in Staff, NEW kind \in Kinds, StructuralVerb(p, kind)
       PROVE  Good
  BY <1>14, <1>23 DEF StructuralVerb
<1> QED
  BY <1>2, <1>6, <1>7, <1>8, <1>9, <1>10, <1>11, <1>12, <1>13, <1>15, <1>17,
     <1>18, <1>19, <1>20, <1>21, <1>22, <1>23
     DEF Next, PassStep, RouteStep, StaffVerb
-----------------------------------------------------------------------------
(* What a pass does to the rows *)

\* What a pass that is not refused makes of a person.
Reconciles(p) ==
    LET r == who'[p]
        w == who[p]
    IN  /\ r.emp = w.emp /\ r.dept = w.dept /\ r.woke = w.woke
        /\ RunStamps(r, w)
        /\ r.lastEmp \in {w.emp, w.lastEmp}
        /\ r.lastDept \in {w.dept, w.lastDept}
        /\ (r.tr.routine /\ ~w.tr.routine) =>
              p \in admitted_parks(Swept, demanded_people) \/ w.tr.st = "applied"
        /\ is_released(r.tr) => is_released(w.tr)
        /\ (structural_transition(w) # "none" /\ admits(pass_fence, p)
              /\ is_pending(Swept[p].tr)) =>
              r.desired /\ r.lastEmp = w.lastEmp /\ r.lastDept = w.lastDept

\* A pass refuses and changes nothing, or reconciles everybody.
LEMMA CommitStep ==
    ASSUME RowsOK, Commit
    PROVE  \/ UNCHANGED <<who, calm>> /\ lastPass' = "conflict"
           \/ /\ \A p \in People : Reconciles(p)
              /\ calm' = calmed(who') /\ lastPass' = "ok"
<1>1. ASSUME NEW d \in [People -> BOOLEAN], NEW f \in [People -> BOOLEAN],
             NEW k \in [People -> BOOLEAN],
             who' = [p \in People |->
                        reconcile_person(Swept[p], d[p], f[p], k[p])],
             \A p \in People :
                 /\ f[p] = admits(pass_fence, p)
                 /\ k[p] = (p \in admitted_parks(Swept, demanded_people)),
             NEW p \in People
      PROVE  Reconciles(p)
  <2> DEFINE r == reconcile_person(Swept[p], d[p], f[p], k[p])
  <2>1. /\ Swept[p] \in Row /\ SamePerson(Swept[p], who[p])
        /\ Kept(Swept[p], who[p]) /\ who[p] \in Row /\ Swept \in [People -> Row]
    BY SweptRows DEF RowsOK
  <2>2. r = who'[p]
    BY <1>1
  <2>3. /\ r.emp = Swept[p].emp /\ r.dept = Swept[p].dept
        /\ r.woke = Swept[p].woke /\ RunStamps(r, Swept[p])
        /\ r.lastEmp \in {Swept[p].emp, Swept[p].lastEmp}
        /\ r.lastDept \in {Swept[p].dept, Swept[p].lastDept}
        /\ (r.tr.routine /\ ~Swept[p].tr.routine) =>
              k[p] \/ Swept[p].tr.st = "applied"
        /\ is_released(r.tr) => is_released(Swept[p].tr)
        /\ (structural_transition(Swept[p]) # "none" /\ f[p]
              /\ is_pending(Swept[p].tr)) =>
              /\ r.desired /\ r.lastEmp = Swept[p].lastEmp
              /\ r.lastDept = Swept[p].lastDept
    <3>1. d[p] \in BOOLEAN /\ f[p] \in BOOLEAN /\ k[p] \in BOOLEAN
      OBVIOUS
    <3> QED BY <2>1, <3>1, Reconciled
  <2> HIDE DEF r
  <2>4. structural_transition(Swept[p]) = structural_transition(who[p])
    BY <2>1 DEF SamePerson, structural_transition
  <2>5. /\ Swept[p].tr.st = "applied" => who[p].tr.st = "applied"
        /\ is_released(Swept[p].tr) => is_released(who[p].tr)
        /\ Swept[p].tr.routine => who[p].tr.routine
    <3>1. Swept[p] = who[p] \/ Swept[p].tr = NoTransition
      BY <2>1, SweptRow DEF Swept
    <3> QED BY <2>1, <3>1 DEF Kept, NoTransition
  <2>6. RunStamps(r, who[p])
    BY <2>1, <2>3 DEF RunStamps, SamePerson
  <2>7. (r.tr.routine /\ ~who[p].tr.routine) =>
            p \in admitted_parks(Swept, demanded_people) \/ who[p].tr.st = "applied"
    BY <1>1, <2>3, <2>5
  <2>8. (structural_transition(who[p]) # "none" /\ admits(pass_fence, p)
           /\ is_pending(Swept[p].tr)) =>
           r.desired /\ r.lastEmp = who[p].lastEmp /\ r.lastDept = who[p].lastDept
    BY <1>1, <2>1, <2>3, <2>4 DEF SamePerson
  <2>9. /\ r.emp = who[p].emp /\ r.dept = who[p].dept /\ r.woke = who[p].woke
        /\ r.lastEmp \in {who[p].emp, who[p].lastEmp}
        /\ r.lastDept \in {who[p].dept, who[p].lastDept}
        /\ is_released(r.tr) => is_released(who[p].tr)
    BY <2>1, <2>3, <2>5 DEF SamePerson
  <2> QED BY <2>2, <2>6, <2>7, <2>8, <2>9 DEF Reconciles
<1>2. \/ UNCHANGED who /\ lastPass' = "conflict" /\ UNCHANGED calm
      \/ \E d, f, k \in [People -> BOOLEAN] :
            /\ who' = [p \in People |->
                          reconcile_person(Swept[p], d[p], f[p], k[p])]
            /\ \A p \in People :
                  /\ f[p] = admits(pass_fence, p)
                  /\ k[p] = (p \in admitted_parks(Swept, demanded_people))
            /\ lastPass' = "ok" /\ calm' = calmed(who')
  BY CommitRows
<1> QED BY <1>1, <1>2

-----------------------------------------------------------------------------
(* The other parts of the invariant *)

RootStays == AtHome(who[Ceo])

\* A person's calm is at least as long as their stamps say.
CalmOK(c, w, watching) ==
    /\ w.emp = "absent" => w.beat = "silent"
    /\ w.beat = "quiet" => c >= Lesser(w.age, Lease)
    /\ w.beat = "working" => c >= Lesser(Lesser(w.age, watching), Lease)

CalmCounts == \A p \in Staff : CalmOK(calm[p], who[p], watch)

\* Without the staffing route nothing is ever released.
Unrouted ==
    "route" \notin Verbs =>
        route.step = "idle" /\ \A p \in Staff : ~is_released(who[p].tr)

\* Without hires, whoever entered the fence since a pass read it is leased.
Unread ==
    "hire" \notin Verbs =>
        (pass.step = "ready" =>
            \A p \in fence \ pass.committed : operator_wake_lease_active(who[p]))

\* The root stays where it is.
LEMMA RootStep ==
    ASSUME RowsOK, RestOK, Requester, RootStays, [Next]_vars
    PROVE  RootStays'
<1>1. who[Ceo] \in Row /\ Ceo \in People
  BY StaffArePeople DEF RowsOK
<1>2. CASE Tick
  <2>1. who'[Ceo] = Ticked(who[Ceo])
    BY <1>1, <1>2 DEF Tick, Ticked
  <2> QED BY <1>1, <2>1, TickedRow DEF RootStays, AtHome
<1>3. CASE Commit
  <2>1. UNCHANGED who \/ Reconciles(Ceo)
    BY <1>1, <1>3, CommitStep
  <2> QED BY <2>1 DEF RootStays, AtHome, Reconciles
<1>4. CASE ~Tick /\ ~Commit
  BY <1>4, OtherSteps DEF RootStays
<1> QED BY <1>2, <1>3, <1>4

\* Reading a clock that is kept, or starts again, gives no longer a calm.
LEMMA CalmStays ==
    ASSUME NEW w \in Person, NEW u \in Person, NEW c \in 0..Lease,
           NEW d \in 0..Lease, NEW watching \in 0..AgeCap,
           NEW later \in {watching, 0}, CalmOK(c, w, watching),
           u.emp = "absent" => w.emp = "absent",
           \/ u.age = 0 /\ u.emp # "absent"
           \/ /\ u.beat = w.beat /\ u.age = w.age
              /\ d = c \/ w.emp = "absent" \/ (w.beat = "working" /\ later = 0)
    PROVE  CalmOK(d, u, later)
<1>1. w.age \in Nat /\ u.age \in Nat /\ c \in Nat /\ d \in Nat
      /\ watching \in Nat /\ later \in Nat /\ Lease \in Nat
  BY RowFields, Caps
<1>2. Lesser(0, Lease) = 0 /\ Lesser(0, later) = 0 /\ Lesser(u.age, 0) = 0
  BY <1>1 DEF Lesser
<1>3. CASE u.age = 0 /\ u.emp # "absent"
  BY <1>1, <1>2, <1>3 DEF CalmOK
<1>4. CASE /\ u.beat = w.beat /\ u.age = w.age
           /\ d = c \/ w.emp = "absent" \/ (w.beat = "working" /\ later = 0)
  <2>1. CASE w.emp = "absent"
    BY <1>4, <2>1 DEF CalmOK
  <2>2. CASE w.beat = "working" /\ later = 0
    BY <1>1, <1>2, <1>4, <2>2 DEF CalmOK
  <2>3. CASE d = c /\ later = watching
    BY <1>4, <2>3 DEF CalmOK
  <2>4. CASE d = c /\ later = 0
    BY <1>1, <1>2, <1>4, <2>4 DEF CalmOK
  <2> QED BY <1>4, <2>1, <2>2, <2>3, <2>4
<1> QED BY <1>3, <1>4

\* As time passes calm grows with the stamps.
LEMMA CalmTicks ==
    ASSUME NEW w \in Row, NEW c \in 0..Lease, NEW watching \in 0..AgeCap,
           CalmOK(c, w, watching)
    PROVE  CalmOK(Lesser(c + 1, Lease), Ticked(w), Lesser(watching + 1, AgeCap))
<1> DEFINE u == Ticked(w)
<1>1. /\ w.age \in 0..AgeCap /\ w.beat \in {"silent", "working", "quiet"}
      /\ c \in Nat /\ watching \in Nat
      /\ Lease \in Nat /\ AgeCap \in Nat /\ Lease < AgeCap
  BY RowFields, Caps DEF Row
<1>2. /\ u.beat = w.beat /\ u.emp = w.emp
      /\ u.age = IF w.beat = "silent" THEN 0 ELSE Lesser(w.age + 1, AgeCap)
  BY TickedRow
<1> HIDE DEF u
<1>3. w.beat = "quiet" => Lesser(c + 1, Lease) >= Lesser(u.age, Lease)
  BY <1>1, <1>2 DEF CalmOK, Lesser
<1>4. w.beat = "working" =>
          Lesser(c + 1, Lease) >=
          Lesser(Lesser(u.age, Lesser(watching + 1, AgeCap)), Lease)
  BY <1>1, <1>2 DEF CalmOK, Lesser
<1> QED BY <1>2, <1>3, <1>4 DEF CalmOK, u

\* Every step counts calm no shorter than the stamps say.
LEMMA CalmStep ==
    ASSUME RowsOK, RestOK, Requester, CalmCounts, RowsOK', RestOK', [Next]_vars
    PROVE  CalmCounts'
<1> SUFFICES ASSUME NEW p \in Staff
             PROVE  CalmOK(calm'[p], who'[p], watch')
  BY DEF CalmCounts
<1>1. /\ p \in People /\ who[p] \in Row /\ who'[p] \in Row
      /\ who[p] \in Person /\ who'[p] \in Person
      /\ calm[p] \in 0..Lease /\ calm'[p] \in 0..Lease
      /\ watch \in 0..AgeCap /\ CalmOK(calm[p], who[p], watch)
  BY StaffArePeople DEF RowsOK, RestOK, CalmCounts, Row
<1>2. CASE Tick
  <2>1. /\ who'[p] = Ticked(who[p]) /\ calm'[p] = Lesser(calm[p] + 1, Lease)
        /\ watch' = Lesser(watch + 1, AgeCap)
    BY <1>1, <1>2 DEF Tick, Ticked
  <2> QED BY <1>1, <2>1, CalmTicks
<1>3. CASE Commit
  <2>1. watch' = watch
    BY <1>3 DEF Commit
  <2>2. CASE UNCHANGED <<who, calm>>
    BY <1>1, <2>1, <2>2
  <2>3. CASE Reconciles(p) /\ calm' = calmed(who')
    <3>1. /\ who'[p].emp = who[p].emp /\ RunStamps(who'[p], who[p])
      BY <2>3 DEF Reconciles
    <3>2. CASE who'[p].desired /\ ~who[p].desired
      <4>1. who'[p].beat = "silent"
        BY <3>1, <3>2 DEF RunStamps
      <4> QED BY <4>1 DEF CalmOK
    <3>3. CASE ~(who'[p].desired /\ ~who[p].desired)
      <4>1. who'[p].beat = who[p].beat /\ who'[p].age = who[p].age
        BY <3>1, <3>3 DEF RunStamps
      <4>2. calm'[p] = calm[p]
        BY <2>3, <3>3 DEF calmed
      <4> QED BY <1>1, <2>1, <3>1, <4>1, <4>2 DEF CalmOK
    <3> QED BY <3>2, <3>3
  <2> QED BY <1>1, <1>3, <2>2, <2>3, CommitStep
<1>4. CASE ~Tick /\ ~Commit
  <2>1. Moves(p) /\ watch' \in {watch, 0}
    BY <1>4, OtherSteps
  <2> QED BY <1>1, <2>1, CalmStays DEF Moves
<1> QED BY <1>2, <1>3, <1>4

\* Without the staffing route no request begins.
LEMMA RouteStaysIdle ==
    ASSUME "route" \notin Verbs, route.step = "idle", route \in Route,
           [Next]_vars
    PROVE  route'.step = "idle"
<1>1. ~Prepare /\ ~Release /\ ~Apply /\ ~Settle /\ ~DropRequest
  BY DEF Prepare, Release, Apply, Settle, DropRequest
<1>2. \A p \in Staff, kind \in Kinds : ~Decide(p, kind)
  BY DEF Decide, Request
<1>3. Restart => route'.step = "idle"
  BY DEF Restart, Route
<1>4. ASSUME ~Restart PROVE UNCHANGED route
  BY <1>1, <1>2, <1>4
     DEF Next, PassStep, RouteStep, StaffVerb, Tick, ReadFacts, ReadCommitted,
         Commit, prepare_ceo_only, stand_down, resume, Beat, Drain, MailArrives,
         wake_person, start_person, recall_person, shutdown_person, Hire,
         StructuralVerb, vars
<1> QED BY <1>3, <1>4

\* Without the staffing route nothing comes to be released.
LEMMA UnroutedStep ==
    ASSUME RowsOK, RestOK, Requester, Unrouted, [Next]_vars
    PROVE  Unrouted'
<1> SUFFICES ASSUME "route" \notin Verbs
             PROVE  /\ route'.step = "idle"
                    /\ \A p \in Staff : ~is_released(who'[p].tr)
  BY DEF Unrouted, is_released
<1>1. route'.step = "idle" /\ route.step = "idle"
  BY RouteStaysIdle DEF Unrouted, RestOK
<1>2. ASSUME NEW p \in Staff PROVE ~is_released(who'[p].tr)
  <2>1. p \in People /\ who[p] \in Row /\ ~is_released(who[p].tr)
    BY StaffArePeople DEF RowsOK, Unrouted
  <2>2. CASE Tick
    <3>1. who'[p] = Ticked(who[p])
      BY <2>1, <2>2 DEF Tick, Ticked
    <3> QED BY <2>1, <3>1, TickedRow DEF is_released
  <2>3. CASE Commit
    BY <2>1, <2>3, CommitStep DEF Reconciles
  <2>4. CASE ~Tick /\ ~Commit
    BY <1>1, <2>1, <2>4, OtherSteps DEF Moves
  <2> QED BY <2>2, <2>3, <2>4
<1> QED BY <1>1, <1>2
\* Without hires whoever enters the fence outside a pass enters it leased.
LEMMA FenceGrows ==
    ASSUME RowsOK, RestOK, Requester, "hire" \notin Verbs, [Next]_vars, ~Commit
    PROVE  \A p \in fence' \ fence : who'[p].woke = 0
<1>1. /\ who \in [People -> Row] /\ Staff \subseteq People
  BY StaffArePeople DEF RowsOK
<1>2. ASSUME NEW p \in Staff, wake_person(p)
      PROVE  who'[p].woke = 0 /\ fence' = fence \cup {p}
  <2> DEFINE v == release_idle_park(who[p])
             u == [v EXCEPT !.emp = "active"]
  <2>1. who' = [who EXCEPT ![p] = u]
    BY <1>1, <1>2 DEF wake_person
  <2>2. v \in Row /\ v.woke = 0
    BY <1>1, FreedRow
  <2> HIDE DEF v
  <2>3. Kept(u, v)
    BY <2>2, EmployedRow
  <2> QED BY <1>1, <1>2, <2>1, <2>2, <2>3 DEF wake_person, Kept
<1>3. ASSUME NEW p \in Staff, start_person(p)
      PROVE  who'[p].woke = 0 /\ fence' = fence \cup {p}
  <2> DEFINE rehired == IF who[p].emp = "departed" THEN Settled(who[p]) ELSE who[p]
             freed   == release_idle_park(rehired)
             u == [freed EXCEPT !.emp = "active", !.desired = TRUE,
                                !.beat = "quiet"]
  <2>1. who' = [who EXCEPT ![p] = u]
    BY <1>1, <1>3 DEF start_person
  <2>2. u.woke = 0
    BY <1>1, StartedRow
  <2> HIDE DEF u
  <2> QED BY <1>1, <1>3, <2>1, <2>2 DEF start_person
<1>4. \A p \in Staff : ~Hire(p)
  BY DEF Hire, Request
<1>5. ASSUME NEW p \in Staff, NEW kind \in Kinds, apply_structural(p, kind)
      PROVE  fence' \subseteq fence
  BY <1>5 DEF apply_structural
<1>6. CASE Apply
  <2>1. route.person \in Staff /\ route.kind \in Kinds
    BY <1>6 DEF Apply, Requester, RestOK, Route
  <2> QED BY <1>5, <1>6, <2>1 DEF Apply
<1>7. ASSUME NEW p \in Staff, NEW kind \in Kinds,
             StructuralVerb(p, kind) \/ Decide(p, kind)
      PROVE  fence' \subseteq fence
  BY <1>5, <1>7 DEF StructuralVerb, Decide
<1>8. ASSUME NEW p \in Staff,
             MailArrives(p) \/ Drain(p) \/ recall_person(p) \/ shutdown_person(p)
             \/ \E working \in BOOLEAN : Beat(p, working)
      PROVE  fence' \subseteq fence
  BY <1>8 DEF MailArrives, Drain, recall_person, shutdown_person, Beat
<1>9. ASSUME \/ Tick \/ ReadFacts \/ ReadCommitted \/ Prepare \/ Release
             \/ Settle \/ DropRequest \/ Restart \/ prepare_ceo_only
             \/ stand_down \/ resume \/ UNCHANGED vars
      PROVE  fence' \subseteq fence
  BY <1>9 DEF Tick, ReadFacts, ReadCommitted, Prepare, Release, Settle,
              DropRequest, Restart, prepare_ceo_only, stand_down, resume, vars
<1> QED
  BY <1>2, <1>3, <1>4, <1>6, <1>7, <1>8, <1>9
     DEF Next, PassStep, RouteStep, StaffVerb

\* A pass that is ready has read the fence, now or before.
LEMMA PassReads ==
    ASSUME RestOK, [Next]_vars, pass'.step = "ready"
    PROVE  /\ ~Commit /\ ~Tick
           /\ \/ fence' = pass'.committed
              \/ pass.step = "ready" /\ pass'.committed = pass.committed
<1>1. pass \in Pass /\ NoPass.step # "ready"
  BY DEF RestOK, NoPass
<1>2. ~Commit
  BY <1>1 DEF Commit
<1>3. ~Tick
  BY <1>1 DEF Tick
<1>4. ReadFacts => pass'.step = "read"
  BY DEF ReadFacts, NoPass
<1>5. CASE ReadCommitted
  BY <1>1, <1>2, <1>3, <1>5 DEF ReadCommitted, Pass
<1>6. ~Restart
  BY <1>1 DEF Restart
<1>7. CASE prepare_ceo_only \/ \E p \in Staff : shutdown_person(p)
  BY <1>1, <1>2, <1>3, <1>7 DEF prepare_ceo_only, shutdown_person, Pass
<1>8. ASSUME ~ReadCommitted, ~prepare_ceo_only,
             ~\E p \in Staff : shutdown_person(p)
      PROVE  UNCHANGED pass
  BY <1>2, <1>3, <1>4, <1>6, <1>8
     DEF Next, PassStep, RouteStep, StaffVerb, stand_down, resume, Beat, Drain,
         MailArrives, wake_person, start_person, recall_person, Hire,
         StructuralVerb, Decide, Prepare, Release, Apply, Settle, DropRequest,
         vars
<1> QED BY <1>2, <1>3, <1>5, <1>7, <1>8

\* Without hires what a pass has not read stays leased.
LEMMA UnreadStep ==
    ASSUME RowsOK, RestOK, Requester, Unread, [Next]_vars
    PROVE  Unread'
<1> SUFFICES ASSUME "hire" \notin Verbs, pass'.step = "ready",
                    NEW p \in fence' \ pass'.committed
             PROVE  who'[p].woke < Lease
  BY DEF Unread, operator_wake_lease_active
<1>1. /\ ~Commit /\ ~Tick
      /\ \/ fence' = pass'.committed
         \/ pass.step = "ready" /\ pass'.committed = pass.committed
  BY PassReads
<1>2. pass.step = "ready" /\ pass'.committed = pass.committed
  BY <1>1
<1>3. CASE p \notin fence
  BY <1>1, <1>3, FenceGrows, Caps
<1>4. CASE p \in fence
  <2>1. p \in Staff /\ who[p].woke < Lease
    BY <1>2, <1>4 DEF Unread, RestOK, operator_wake_lease_active
  <2> QED BY <1>1, <2>1, OtherSteps, Caps DEF Moves
<1> QED BY <1>3, <1>4

-----------------------------------------------------------------------------
(* The inductive invariant, and what follows from it *)

IInv == /\ RowsOK /\ RestOK /\ Requester /\ RootStays /\ CalmCounts
        /\ Unrouted /\ Unread

\* The invariant holds at first.
LEMMA IInvInit == Init => IInv
<1> SUFFICES ASSUME Init PROVE IInv
  OBVIOUS
<1>1. ASSUME NEW p \in People
      PROVE  /\ who[p] = seed_person_state(p) /\ who[p] \in Row
             /\ who[p].beat = "silent" /\ who[p].tr = NoTransition
  <2>1. who[p] = seed_person_state(p)
    BY DEF Init
  <2>2. [k \in Kinds |-> "none"]
            \in [Kinds -> {"none", "applied", "forced", "abandoned"}]
    OBVIOUS
  <2>3. seed_person_state(p) \in Person
    BY <2>2, Caps, NoTransitionTyped, PlacesAssumption
       DEF seed_person_state, Person
  <2>4. /\ seed_person_state(p).tr = NoTransition
        /\ seed_person_state(p).beat = "silent"
    BY DEF seed_person_state
  <2> QED BY <2>1, <2>3, <2>4 DEF Row, PointerOK, MeaningOK, NoTransition
<1>2. RowsOK
  <2>1. who = [p \in People |-> who[p]]
    BY DEF Init
  <2> QED BY <1>1, <2>1 DEF RowsOK
<1>3. RestOK
  <2>1. route \in Route
    BY StaffArePeople, KindsAreKinds DEF Init, Route
  <2>2. pass \in Pass
    BY DEF Init, NoPass, Pass
  <2>3. cursor \in 0..(Cardinality(People) - 1)
    <3> DEFINE N == Cardinality(People)
    <3>1. cursor = 0 /\ N \in Nat \ {0}
      BY Headcount DEF Init
    <3> HIDE DEF N
    <3>2. cursor \in 0..(N - 1)
      BY <3>1
    <3> QED BY <3>2 DEF N
  <2>4. /\ watch \in 0..AgeCap /\ requests \in 0..MaxRequests
        /\ calm \in [Staff -> 0..Lease]
    BY Caps, BoundsAssumption DEF Init
  <2> QED BY <2>1, <2>2, <2>3, <2>4 DEF Init, RestOK
<1>4. Requester /\ Unread
  BY DEF Init, Requester, Unread, NoPass
<1>5. RootStays
  <2>1. /\ seed_person_state(Ceo).emp = "active"
        /\ seed_person_state(Ceo).lastEmp = "active"
        /\ seed_person_state(Ceo).dept = Home
        /\ seed_person_state(Ceo).lastDept = Home
    BY DEF seed_person_state
  <2> QED BY <1>1, <2>1, StaffArePeople DEF RootStays, AtHome
<1>6. CalmCounts
  BY <1>1, StaffArePeople DEF CalmCounts, CalmOK
<1>7. Unrouted
  BY <1>1, StaffArePeople, NothingKept DEF Unrouted, Init
<1> QED BY <1>2, <1>3, <1>4, <1>5, <1>6, <1>7 DEF IInv

\* Every step keeps the invariant.
LEMMA IInvNext == IInv /\ [Next]_vars => IInv'
<1> SUFFICES ASSUME IInv, [Next]_vars PROVE IInv'
  OBVIOUS
<1>1. RowsOK' /\ RestOK' /\ Requester'
  BY RowsStep, RestStep DEF IInv
<1>2. RootStays' /\ CalmCounts' /\ Unrouted' /\ Unread'
  BY <1>1, RootStep, CalmStep, UnroutedStep, UnreadStep DEF IInv
<1> QED BY <1>1, <1>2 DEF IInv

\* The invariant holds always.
LEMMA Invariance == Spec => []IInv
BY IInvInit, IInvNext, PTL DEF Spec

\* Every variable keeps its type.
THEOREM TypeCorrect == Spec => []TypeOK
<1>1. IInv => TypeOK
  BY DEF IInv, RowsOK, RestOK, TypeOK, Row
<1> QED BY <1>1, Invariance, PTL

\* A routine park that is settled, forced or applied, belongs to a person who
\* is down: no pass leaves, and no verb or step of the staffing route makes, a
\* parked person desired.
THEOREM ParkedStaysDown == Spec => []ParkedIsDown
<1>1. IInv => ParkedIsDown
  BY DEF IInv, RowsOK, ParkedIsDown, Row, PointerOK, is_parked, settled_park
<1> QED BY <1>1, Invariance, PTL

\* In a well formed row a settled routine park is a routine transition.
LEMMA ParkedIsRoutine ==
    ASSUME NEW w \in Row
    PROVE  is_parked(w) <=> w.tr.routine
BY DEF Row, PointerOK, MeaningOK, is_parked, settled_park, is_terminal

\* Whom a pass admits to the round of parks was calm for a whole lease.
LEMMA AdmittedIsCalm ==
    ASSUME IInv, NEW p \in Staff, p \in admitted_parks(Swept, demanded_people)
    PROVE  calm[p] = Lease
<1>1. /\ p \in People /\ Swept[p] \in Row /\ who[p] \in Row
      /\ SamePerson(Swept[p], who[p])
      /\ calm[p] \in 0..Lease /\ watch \in 0..AgeCap
      /\ CalmOK(calm[p], who[p], watch)
  BY StaffArePeople, SweptRows DEF IInv, RowsOK, RestOK, CalmCounts
<1>2. agent_quiet_since(Swept[p], watch) >= Lease
  BY DEF admitted_parks, candidate
<1>3. /\ who[p].age \in Nat /\ watch \in Nat /\ calm[p] \in Nat
      /\ Lease \in Nat \ {0} /\ Liveness \in Nat \ {0}
      /\ who[p].beat \in {"silent", "working", "quiet"}
  BY <1>1, RowFields, Caps DEF Row
<1>4. /\ Swept[p].beat = who[p].beat /\ Swept[p].age = who[p].age
  BY <1>1 DEF SamePerson
<1>5. CASE who[p].beat = "quiet"
  <2>1. who[p].age >= Lease
    BY <1>2, <1>4, <1>5 DEF agent_quiet_since
  <2> QED BY <1>1, <1>3, <1>5, <2>1 DEF CalmOK, Lesser
<1>6. CASE who[p].beat = "working"
  <2> DEFINE heard == Lesser(who[p].age, watch)
  <2>1. heard \in Nat
    BY <1>3 DEF Lesser
  <2>2. heard >= Liveness /\ heard - Liveness >= Lease
    BY <1>2, <1>3, <1>4, <1>6 DEF agent_quiet_since, NotIdle
  <2> HIDE DEF heard
  <2>3. heard >= Lease
    BY <1>3, <2>1, <2>2
  <2> QED BY <1>1, <1>3, <1>6, <2>1, <2>3 DEF CalmOK, Lesser, heard
<1>7. CASE who[p].beat = "silent"
  <2>1. agent_quiet_since(Swept[p], watch) = -1
    BY <1>4, <1>7 DEF agent_quiet_since, NotIdle
  <2> QED BY <1>2, <1>3, <2>1
<1> QED BY <1>3, <1>5, <1>6, <1>7

\* A step that parks a person is a pass, and they were calm for a whole lease
\* or their pointer was left at a park that the staffing route had applied.
LEMMA ParkStep ==
    ASSUME IInv, RowsOK', [Next]_vars, NEW p \in newly_parked
    PROVE  calm[p] = Lease \/ who[p].tr.st = "applied"
<1>1. /\ p \in Staff /\ p \in People /\ who[p] \in Row /\ who'[p] \in Row
      /\ who'[p].tr.routine /\ ~who[p].tr.routine
  <2>1. p \in Staff /\ is_parked(who'[p]) /\ ~is_parked(who[p])
    BY DEF newly_parked, is_parked, settled_park, is_terminal
  <2>2. p \in People /\ who[p] \in Row /\ who'[p] \in Row
    BY <2>1, StaffArePeople DEF IInv, RowsOK
  <2> QED BY <2>1, <2>2, ParkedIsRoutine
<1>2. CASE Tick
  <2>1. who'[p] = Ticked(who[p])
    BY <1>1, <1>2 DEF Tick, Ticked
  <2> QED BY <1>1, <2>1, TickedRow
<1>3. CASE Commit
  <2>1. Reconciles(p)
    BY <1>1, <1>3, CommitStep DEF IInv
  <2> QED BY <1>1, <2>1, AdmittedIsCalm DEF Reconciles
<1>4. CASE ~Tick /\ ~Commit
  BY <1>1, <1>4, OtherSteps DEF Moves, IInv
<1> QED BY <1>2, <1>3, <1>4

\* Whoever is parked for idleness was calm for a whole lease, or was on an
\* applied park: the one way around the lease that the staffing route opens.
THEOREM ParkNeedsCalmOrAPark ==
    Spec => [][\A p \in newly_parked :
                  calm[p] = Lease \/ who[p].tr.st = "applied"]_vars
<1> DEFINE Fair == \A p \in newly_parked :
                      calm[p] = Lease \/ who[p].tr.st = "applied"
<1>1. IInv /\ IInv' /\ [Next]_vars => Fair
  BY ParkStep DEF IInv
<1>2. IInv /\ IInv' /\ [Next]_vars => [Fair]_vars
  BY <1>1
<1> HIDE DEF Fair
<1>3. Spec => [][Fair]_vars
  BY <1>2, Invariance, PTL DEF Spec
<1> QED BY <1>3 DEF Fair

\* As long as the staffing route releases no park nobody is parked inside the
\* lease, whatever the verbs, the restarts and the passes in between.
THEOREM NobodyParksInsideLease ==
    ASSUME "route" \notin Verbs
    PROVE  Spec => NoParkInsideLease
<1> DEFINE Calm == \A p \in newly_parked : calm[p] = Lease
<1>1. IInv /\ IInv' /\ [Next]_vars => Calm
  <2> SUFFICES ASSUME IInv, IInv', [Next]_vars, NEW p \in newly_parked
               PROVE  calm[p] = Lease
    OBVIOUS
  <2>1. calm[p] = Lease \/ who[p].tr.st = "applied"
    BY ParkStep DEF IInv
  <2>2. ~is_released(who[p].tr)
    BY DEF IInv, Unrouted, newly_parked
  <2> QED BY <2>1, <2>2 DEF is_released
<1>2. IInv /\ IInv' /\ [Next]_vars => [Calm]_vars
  BY <1>1
<1> HIDE DEF Calm
<1>3. Spec => [][Calm]_vars
  BY <1>2, Invariance, PTL DEF Spec
<1> QED BY <1>3 DEF Calm, NoParkInsideLease

\* A pass leaves every row of the fence that entered it since its last read,
\* as long as nobody is hired meanwhile: wakes and starts come with a lease,
\* which the publication respects.
THEOREM PassWithdrawsWhatItRead ==
    ASSUME "hire" \notin Verbs
    PROVE  Spec => WithdrawsOnlyWhatItRead
<1> DEFINE Subtracts ==
              Commit => fence \ fence' \subseteq pass.seen \cup pass.committed
<1>1. ASSUME IInv PROVE Subtracts
  <2> SUFFICES ASSUME Commit, NEW p \in fence \ fence', p \notin pass.committed
               PROVE  FALSE
    OBVIOUS
  <2>1. operator_wake_lease_active(who[p])
    BY <1>1 DEF IInv, Unread, Commit
  <2>2. \A doc : p \in publish(doc)
    BY <2>1 DEF publish
  <2>3. \A after : p \in published_fence(after)
    BY <2>2 DEF published_fence
  <2>4. UNCHANGED fence \/ \E after : fence' = published_fence(after)
    <3>1. CASE \E q \in People : conflicts(Swept[q], admits(pass_fence, q))
      BY <3>1 DEF Commit
    <3>2. CASE ~\E q \in People : conflicts(Swept[q], admits(pass_fence, q))
      BY <3>2 DEF Commit
    <3> QED BY <3>1, <3>2
  <2> QED BY <2>3, <2>4
<1>2. IInv => [Subtracts]_vars
  BY <1>1
<1> HIDE DEF Subtracts
<1>3. Spec => [][Subtracts]_vars
  BY <1>2, Invariance, PTL
<1> QED BY <1>3 DEF Subtracts, WithdrawsOnlyWhatItRead

\* An open transition the sweep leaves alone is within its grace, and the row
\* is as it was.
LEMMA SweptOpen ==
    ASSUME RowsOK, NEW p \in People, is_open(Swept[p].tr)
    PROVE  Swept[p] = who[p] /\ who[p].tr.age <= 2 * Grace
<1>1. who[p] \in Row /\ Swept[p] = sweep_expired_transitions(who[p])
  BY DEF RowsOK, Swept
<1>2. ~is_open(NoTransition)
  BY DEF NoTransition, is_open, is_pending
<1>3. Swept[p] = who[p]
  BY <1>1, <1>2, SweptRow
<1>4. ~who[p].tr.routine
  BY <1>1, <1>3 DEF Row, PointerOK, MeaningOK, is_open, is_pending
<1>5. who[p].tr.age \in Int /\ 2 * Grace \in Int
  BY <1>1, RowFields, Caps DEF Row
<1>6. ~(who[p].tr.age > 2 * Grace)
  <2>1. CASE who[p].tr.age > 2 * Grace
    <3>1. sweep_expired_transitions(who[p]) = [who[p] EXCEPT !.tr = NoTransition]
      BY <1>3, <1>4, <2>1 DEF sweep_expired_transitions
    <3>2. [who[p] EXCEPT !.tr = NoTransition].tr = NoTransition
      BY <1>1, Pointed, NoTransitionTyped DEF Row
    <3> QED BY <1>1, <1>2, <3>1, <3>2
  <2> QED BY <2>1
<1> QED BY <1>3, <1>5, <1>6

\* A pass waits for a structural handoff that is pending and within its grace:
\* it advances no placement, and stops nobody it still admits.
THEOREM PassWaitsForHandoff == Spec => HandoffIsWaitedFor
<1> DEFINE Waits == \A p \in Staff :
              (/\ Commit /\ lastPass' = "ok"
               /\ is_pending(who[p].tr) /\ who[p].tr.age <= 2 * Grace
               /\ structural_transition(who[p]) # "none" /\ p \in pass_fence)
              => /\ who'[p].desired
                 /\ who'[p].lastEmp = who[p].lastEmp
                 /\ who'[p].lastDept = who[p].lastDept
<1>1. ASSUME IInv PROVE Waits
  <2> SUFFICES ASSUME NEW p \in Staff, Commit, lastPass' = "ok",
                      is_pending(who[p].tr), who[p].tr.age <= 2 * Grace,
                      structural_transition(who[p]) # "none", p \in pass_fence
               PROVE  /\ who'[p].desired
                      /\ who'[p].lastEmp = who[p].lastEmp
                      /\ who'[p].lastDept = who[p].lastDept
    OBVIOUS
  <2>1. p \in People /\ who[p] \in Row
    BY <1>1, StaffArePeople DEF IInv, RowsOK
  <2>2. Reconciles(p)
    BY <1>1, <2>1, CommitStep DEF IInv
  <2>3. Swept[p] = who[p]
    <3>1. who[p].tr.age \in Int /\ 2 * Grace \in Int
      BY <2>1, RowFields, Caps DEF Row
    <3>2. ~(who[p].tr.age > 2 * Grace)
      BY <3>1
    <3> QED BY <2>1, <3>2 DEF Swept, sweep_expired_transitions
  <2> QED BY <2>2, <2>3 DEF Reconciles, admits
<1>2. IInv => [Waits]_vars
  BY <1>1
<1> HIDE DEF Waits
<1>3. Spec => [][Waits]_vars
  BY <1>2, Invariance, PTL
<1> QED BY <1>3 DEF Waits, HandoffIsWaitedFor

\* A pass that is refused for a conflict is refused by a handoff of the staff
\* within its grace: one that nobody carries on refuses no pass for good.
THEOREM ConflictIsWithinGrace == Spec => ConflictHasGrace
<1> DEFINE Graced == (Commit /\ lastPass' = "conflict") =>
              \E p \in Staff : is_open(who[p].tr) /\ who[p].tr.age <= 2 * Grace
<1>1. ASSUME IInv PROVE Graced
  <2> SUFFICES ASSUME Commit, lastPass' = "conflict"
               PROVE  \E p \in Staff : /\ is_open(who[p].tr)
                                       /\ who[p].tr.age <= 2 * Grace
    OBVIOUS
  <2>1. \E p \in People : conflicts(Swept[p], admits(pass_fence, p))
    BY DEF Commit
  <2>2. ASSUME NEW p \in People, conflicts(Swept[p], admits(pass_fence, p))
        PROVE  p \in Staff /\ is_open(who[p].tr) /\ who[p].tr.age <= 2 * Grace
    <3>1. is_open(Swept[p].tr) /\ structural_transition(Swept[p]) # "none"
      BY <2>2 DEF conflicts
    <3>2. Swept[p] = who[p] /\ who[p].tr.age <= 2 * Grace
      BY <1>1, <3>1, SweptOpen DEF IInv
    <3>3. p # Ceo
      BY <1>1, <3>1, <3>2 DEF IInv, RootStays, AtHome, structural_transition
    <3> QED BY <3>1, <3>2, <3>3, StaffArePeople
  <2> QED BY <2>1, <2>2
<1>2. IInv => [Graced]_vars
  BY <1>1
<1> HIDE DEF Graced
<1>3. Spec => [][Graced]_vars
  BY <1>2, Invariance, PTL
<1> QED BY <1>3 DEF Graced, ConflictHasGrace
=============================================================================
