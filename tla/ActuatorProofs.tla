--------------------------- MODULE ActuatorProofs ---------------------------
(***************************************************************************)
(* Theorems about Actuator: who has a process, whose boot is counted as     *)
(* failed, and what a pass leaves alone.                                    *)
(***************************************************************************)
EXTENDS Actuator, FiniteSetTheorems, SequenceTheorems, WellFoundedInduction, TLAPS

(***************************************************************************)
(* Sequences.                                                               *)
(***************************************************************************)
\* A set of numbers that is not empty has a smallest.
LEMMA Least ==
    ASSUME NEW S, S \subseteq Nat, S # {}
    PROVE \E n \in S : \A m \in S : n <= m
<1>1. PICK x \in S : \A y \in S : ~(<<y, x>> \in OpToRel(<, Nat))
  BY WFMin, NatLessThanWellFounded
<1>2. ASSUME NEW y \in S PROVE x <= y
  <2>1. x \in Nat /\ y \in Nat
    OBVIOUS
  <2>2. y < x => <<y, x>> \in OpToRel(<, Nat)
    BY <2>1 DEF OpToRel
  <2>3. ~(y < x)
    BY <1>1, <2>2
  <2> QED BY <2>1, <2>3
<1> QED BY <1>2

\* What FlattenSeq builds: its i-th value is the first i sequences, joined.
Joins(f, s, n) == f = [i \in 1..n |-> IF i = 1 THEN s[i] ELSE f[i - 1] \o s[i]]

LEMMA Joining ==
    ASSUME NEW s, NEW n \in Nat
    PROVE \E f : Joins(f, s, n)
<1> DEFINE Bad == {k \in Nat : ~\E f : Joins(f, s, k)}
<1>1. SUFFICES Bad = {}
  OBVIOUS
<1>2. SUFFICES ASSUME Bad # {} PROVE FALSE
  OBVIOUS
<1>3. PICK k \in Bad : \A m \in Bad : k <= m
  BY <1>2, Least
<1>4. k # 0
  <2>1. Joins([i \in 1..0 |-> s], s, 0)
    BY DEF Joins
  <2> QED BY <2>1
<1>5. k - 1 \in Nat /\ k - 1 \notin Bad
  BY <1>3, <1>4
<1>6. PICK f : Joins(f, s, k - 1)
  BY <1>5
<1> DEFINE g == [i \in 1..k |-> IF i = 1 THEN s[i] ELSE IF i = k THEN f[k - 1] \o s[i] ELSE f[i]]
<1>7. ASSUME NEW i \in 1..k PROVE g[i] = IF i = 1 THEN s[i] ELSE g[i - 1] \o s[i]
  <2>1. \A j \in 1..(k - 1) : f[j] = IF j = 1 THEN s[j] ELSE f[j - 1] \o s[j]
    BY <1>6, <1>5 DEF Joins
  <2>2. \A j \in 1..(k - 1) : g[j] = f[j]
    BY <2>1, <1>5
  <2>3. CASE i = 1
    BY <2>3
  <2>4. CASE i # 1 /\ i = k
    <3>1. i - 1 \in 1..(k - 1)
      BY <2>4, <1>5
    <3> QED BY <2>2, <2>4, <3>1
  <2>5. CASE i # 1 /\ i # k
    <3>1. i \in 1..(k - 1) /\ i - 1 \in 1..(k - 1)
      BY <2>5, <1>5
    <3> QED BY <2>1, <2>2, <2>5, <3>1
  <2> QED BY <2>3, <2>4, <2>5
<1>8. Joins(g, s, k)
  BY <1>7 DEF Joins
<1> QED BY <1>8

LEMMA Flattens ==
    ASSUME NEW T, NEW s \in Seq(Seq(T)), s # <<>>
    PROVE \E f : /\ FlattenSeq(s) = f[Len(s)] /\ Len(s) \in Nat \ {0}
                 /\ \A i \in 1..Len(s) : f[i] = IF i = 1 THEN s[i] ELSE f[i - 1] \o s[i]
<1>1. Len(s) \in Nat \ {0}
  BY EmptySeq
<1> DEFINE F == CHOOSE f : Joins(f, s, Len(s))
<1>2. Joins(F, s, Len(s))
  BY <1>1, Joining
<1>3. FlattenSeq(s) = F[Len(s)]
  BY <1>1 DEF FlattenSeq, Joins
<1> HIDE DEF F
<1>4. \A i \in 1..Len(s) : F[i] = IF i = 1 THEN s[i] ELSE F[i - 1] \o s[i]
  BY <1>2 DEF Joins
<1> QED BY <1>1, <1>3, <1>4

\* Sequences of things of one kind are flattened into a sequence of them.
LEMMA FlattenType ==
    ASSUME NEW T, NEW s \in Seq(Seq(T))
    PROVE FlattenSeq(s) \in Seq(T)
<1>1. CASE s = <<>>
  <2>1. FlattenSeq(s) = s
    BY <1>1 DEF FlattenSeq
  <2> QED BY <1>1, <2>1, EmptySeq
<1>2. CASE s # <<>>
  <2>1. PICK f : /\ FlattenSeq(s) = f[Len(s)] /\ Len(s) \in Nat \ {0}
                 /\ \A i \in 1..Len(s) : f[i] = IF i = 1 THEN s[i] ELSE f[i - 1] \o s[i]
    BY <1>2, Flattens
  <2> DEFINE Bad == {i \in 1..Len(s) : f[i] \notin Seq(T)}
  <2>2. Bad = {}
    <3>1. SUFFICES ASSUME Bad # {} PROVE FALSE
      OBVIOUS
    <3>0. Bad \subseteq Nat
      BY <2>1
    <3> HIDE DEF Bad
    <3>2. PICK i \in Bad : \A j \in Bad : i <= j
      BY <3>0, <3>1, Least
    <3> USE DEF Bad
    <3>3. s[i] \in Seq(T)
      BY <3>2
    <3>4. i # 1
      BY <2>1, <3>2, <3>3
    <3>5. i - 1 \in 1..Len(s) /\ i - 1 \notin Bad
      BY <2>1, <3>2, <3>4
    <3>6. f[i - 1] \in Seq(T) /\ f[i] = f[i - 1] \o s[i]
      BY <2>1, <3>2, <3>4, <3>5
    <3>7. f[i] \in Seq(T)
      BY <3>3, <3>6
    <3> QED BY <3>2, <3>7
  <2>3. Len(s) \in 1..Len(s)
    BY <2>1
  <2> QED BY <2>1, <2>2, <2>3
<1> QED BY <1>1, <1>2

\* Where no two people of a list are the same, a list with at most one step
\* for each, their own, has no two steps of one person.
OneEach(t) == \A i, j \in 1..Len(t) : t[i].who = t[j].who => i = j

LEMMA FlattenOneEach ==
    ASSUME NEW T, NEW who, NEW s \in Seq(Seq(T)),
           \A i, j \in 1..Len(s) : who[i] = who[j] => i = j,
           \A i \in 1..Len(s) : s[i] = <<>> \/ \E x \in T : s[i] = <<x>> /\ x.who = who[i]
    PROVE OneEach(FlattenSeq(s))
<1>1. CASE s = <<>>
  <2>1. FlattenSeq(s) = s
    BY <1>1 DEF FlattenSeq
  <2> QED BY <1>1, <2>1 DEF OneEach
<1>2. CASE s # <<>>
  <2>1. PICK f : /\ FlattenSeq(s) = f[Len(s)] /\ Len(s) \in Nat \ {0}
                 /\ \A i \in 1..Len(s) : f[i] = IF i = 1 THEN s[i] ELSE f[i - 1] \o s[i]
    BY <1>2, Flattens
  <2> DEFINE Good(i) == /\ f[i] \in Seq(T) /\ OneEach(f[i])
                        /\ \A k \in 1..Len(f[i]) : \E j \in 1..i : f[i][k].who = who[j]
             Bad == {i \in 1..Len(s) : ~Good(i)}
  <2>2. Bad = {}
    <3>1. SUFFICES ASSUME Bad # {} PROVE FALSE
      OBVIOUS
    <3>0. Bad \subseteq Nat
      BY <2>1
    <3> HIDE DEF Bad
    <3>2. PICK i \in Bad : \A j \in Bad : i <= j
      BY <3>0, <3>1, Least
    <3> USE DEF Bad
    <3>3. s[i] \in Seq(T) /\ (s[i] = <<>> \/ \E x \in T : s[i] = <<x>> /\ x.who = who[i])
      BY <3>2
    <3>4. CASE i = 1
      <4>1. f[i] = s[i] /\ i \in 1..i
        BY <2>1, <3>2, <3>4
      <4>2. CASE s[i] = <<>>
        <5>1. Good(i)
          BY <3>3, <4>1, <4>2 DEF OneEach
        <5> QED BY <3>2, <5>1
      <4>3. CASE \E x \in T : s[i] = <<x>> /\ x.who = who[i]
        <5>1. PICK x \in T : s[i] = <<x>> /\ x.who = who[i]
          BY <4>3
        <5>2. Len(f[i]) = 1 /\ f[i][1] = x
          BY <4>1, <5>1
        <5>3. Good(i)
          BY <3>3, <4>1, <5>1, <5>2 DEF OneEach
        <5> QED BY <3>2, <5>3
      <4> QED BY <3>3, <4>2, <4>3
    <3>5. CASE i # 1
      <4>1. i - 1 \in 1..Len(s) /\ i - 1 \notin Bad
        BY <2>1, <3>2, <3>5
      <4>2. Good(i - 1) /\ f[i] = f[i - 1] \o s[i]
        BY <2>1, <3>2, <3>5, <4>1
      <4> DEFINE g == f[i - 1]
      <4>3. CASE s[i] = <<>>
        <5>1. f[i] = g
          BY <4>2, <4>3
        <5>2. \A j \in 1..(i - 1) : j \in 1..i
          BY <2>1, <4>1
        <5>3. Good(i)
          BY <4>2, <5>1, <5>2
        <5> QED BY <3>2, <5>3
      <4>4. CASE \E x \in T : s[i] = <<x>> /\ x.who = who[i]
        <5>1. PICK x \in T : s[i] = <<x>> /\ x.who = who[i]
          BY <4>4
        <5>2. /\ f[i] \in Seq(T) /\ Len(f[i]) = Len(g) + 1 /\ Len(g) \in Nat
              /\ f[i][Len(g) + 1] = x
              /\ \A k \in 1..Len(g) : f[i][k] = g[k]
          BY <4>2, <5>1
        <5>3. \A j \in 1..(i - 1) : j \in 1..i /\ j \in 1..Len(s) /\ j # i
          BY <2>1, <3>2, <4>1
        <5>4. \A k \in 1..Len(g) : \E j \in 1..(i - 1) : g[k].who = who[j]
          BY <4>2
        <5>5. ASSUME NEW k \in 1..Len(g) PROVE f[i][k].who # who[i]
          <6>1. PICK j \in 1..(i - 1) : g[k].who = who[j]
            BY <5>4
          <6>2. j \in 1..Len(s) /\ i \in 1..Len(s) /\ j # i /\ f[i][k] = g[k]
            BY <3>2, <5>2, <5>3
          <6> QED BY <6>1, <6>2
        <5>6. \A k \in 1..Len(f[i]) : k \in 1..Len(g) \/ k = Len(g) + 1
          BY <5>2
        <5>7. ASSUME NEW j \in 1..Len(f[i]), NEW k \in 1..Len(f[i]), f[i][j].who = f[i][k].who
              PROVE j = k
          <6>1. CASE j \in 1..Len(g) /\ k \in 1..Len(g)
            BY <4>2, <5>2, <5>7, <6>1 DEF OneEach
          <6>2. CASE j = Len(g) + 1 /\ k \in 1..Len(g)
            BY <5>1, <5>2, <5>5, <5>7, <6>2
          <6>3. CASE k = Len(g) + 1 /\ j \in 1..Len(g)
            BY <5>1, <5>2, <5>5, <5>7, <6>3
          <6> QED BY <5>6, <6>1, <6>2, <6>3
        <5>8. ASSUME NEW k \in 1..Len(f[i]) PROVE \E j \in 1..i : f[i][k].who = who[j]
          <6>1. CASE k = Len(g) + 1
            <7>1. i \in 1..i
              BY <3>2
            <7> QED BY <5>1, <5>2, <6>1, <7>1
          <6>2. CASE k \in 1..Len(g)
            <7>1. PICK j \in 1..(i - 1) : g[k].who = who[j]
              BY <5>4, <6>2
            <7>2. j \in 1..i /\ f[i][k].who = who[j]
              BY <5>2, <5>3, <6>2, <7>1
            <7> QED BY <7>2
          <6> QED BY <5>6, <6>1, <6>2
        <5>9. Good(i)
          BY <5>2, <5>7, <5>8 DEF OneEach
        <5> QED BY <3>2, <5>9
      <4> QED BY <3>3, <4>3, <4>4
    <3> QED BY <3>4, <3>5
  <2>3. Good(Len(s))
    BY <2>1, <2>2
  <2> QED BY <2>1, <2>3
<1> QED BY <1>1, <1>2

\* A function on an initial segment of the numbers is a sequence.
LEMMA IsSequence ==
    ASSUME NEW T, NEW n \in Nat, NEW f \in [1..n -> T]
    PROVE f \in Seq(T) /\ Len(f) = n
<1>1. f \in Seq(T)
  BY SeqDef
<1>2. Len(f) \in Nat /\ DOMAIN f = 1..Len(f) /\ DOMAIN f = 1..n
  BY <1>1, LenProperties
<1>3. \A i \in Nat : i \in 1..n <=> i \in 1..Len(f)
  BY <1>2
<1> QED BY <1>1, <1>2, <1>3

\* A finite set is put in a sequence.
LEMMA Listed ==
    ASSUME NEW S, IsFiniteSet(S)
    PROVE Cardinality(S) \in Nat /\ SetToSeq(S) \in [1..Cardinality(S) -> S]
<1>1. Cardinality(S) \in Nat /\ ExistsBijection(1..Cardinality(S), S)
  BY FS_CardinalityType
<1>2. \E f \in [1..Cardinality(S) -> S] : IsInjective(f)
  BY <1>1 DEF ExistsBijection, Bijection, Injection
<1> QED BY <1>1, <1>2 DEF SetToSeq

(***************************************************************************)
(* What a pass plans, at the panes `at' it has just observed.               *)
(***************************************************************************)
\* Boots are of people wanted who have no pane, closes of people unwanted, and
\* the session is stopped only if nobody is wanted.
Planned(want, at) ==
    {s \in Steps : /\ s.do \in Boots => s.who \in DOMAIN want /\ at[s.who] = NoPane
                   /\ s.do = "respawn" => s.who \in DOMAIN want /\ s.pane = at[s.who] /\ s.pane # NoPane
                   /\ s.do = "close" => s.who \notin DOMAIN want
                   /\ s.do = "stop" => DOMAIN want = {}}

\* Only a pane whose launch is not the one wanted is respawned.
Outdated(want) == {s \in Steps : s.do = "respawn" => s.pane \in Panes /\ panes[s.pane].hash # want[s.who]}

\* Nobody is respawned twice.
RespawnsOnce(t) == \A i, j \in 1..Len(t) :
    t[i].do = "respawn" /\ t[j].do = "respawn" /\ t[i].who = t[j].who => i = j

LEMMA PlanJoined ==
    ASSUME NEW T, NEW a \in Seq(T), RespawnsOnce(a), NEW b \in Seq({s \in T : s.do # "respawn"})
    PROVE a \o b \in Seq(T) /\ RespawnsOnce(a \o b)
<1>1. b \in Seq(T)
  BY SeqMonotonic
<1>2. \A i \in 1..Len(b) : b[i].do # "respawn"
  BY ElementOfSeq
<1>3. /\ a \o b \in Seq(T) /\ Len(a) \in Nat /\ Len(b) \in Nat
      /\ Len(a \o b) = Len(a) + Len(b)
      /\ \A i \in 1..Len(a) + Len(b) : (a \o b)[i] = IF i <= Len(a) THEN a[i] ELSE b[i - Len(a)]
  BY <1>1, ConcatProperties, LenProperties
<1> DEFINE c == a \o b
<1>4. ASSUME NEW i \in 1..Len(c), c[i].do = "respawn"
      PROVE i \in 1..Len(a) /\ c[i] = a[i]
  <2>1. CASE i <= Len(a)
    BY <1>3, <2>1
  <2>2. CASE ~(i <= Len(a))
    <3>1. i - Len(a) \in 1..Len(b) /\ c[i] = b[i - Len(a)]
      BY <1>3, <2>2
    <3> QED BY <1>2, <1>4, <3>1
  <2> QED BY <2>1, <2>2
<1>5. RespawnsOnce(c)
  <2> HIDE DEF c
  <2>1. SUFFICES ASSUME NEW i \in 1..Len(c), NEW j \in 1..Len(c),
                        c[i].do = "respawn", c[j].do = "respawn", c[i].who = c[j].who
                 PROVE i = j
    BY DEF RespawnsOnce
  <2>2. i \in 1..Len(a) /\ j \in 1..Len(a) /\ c[i] = a[i] /\ c[j] = a[j]
    BY <1>4, <2>1
  <2> QED BY <2>1, <2>2 DEF RespawnsOnce
<1> QED BY <1>3, <1>5

\* The state's types: TypeOK, and those of the records it does not speak of.
Passes == [stage : {"idle", "observed", "steps"}, want : Wishes, gate : SUBSET People,
           wait : SUBSET People, todo : Seq(Steps), cur : PaneIds \cup {NoPane},
           made : SUBSET PaneIds, tried : SUBSET People, skipped : SUBSET People]

Loops == [counted : [People -> Hashes \cup {NoHash}], due : SUBSET People,
          pending : SUBSET People, panes : [People -> PaneIds \cup {NoPane}],
          failed : BOOLEAN]

PanesOK == Panes \subseteq PaneIds /\ \A q \in Panes : panes[q] \in Pane

Typed ==
    /\ desired \in Wishes /\ refused \subseteq People
    /\ PanesOK
    /\ windows \subseteq People /\ rails \subseteq People /\ died \subseteq People
    /\ pass \in Passes /\ loop \in Loops
    /\ spent \in [changes : Nat, mishaps : Nat]

LEMMA OrderFacts ==
    /\ Len(Order) \in Nat /\ DOMAIN Order = 1..Len(Order)
    /\ \A i \in 1..Len(Order) : Order[i] \in People
    /\ \A i, j \in 1..Len(Order) : Order[i] = Order[j] => i = j
    /\ MaxPanes \in Nat /\ NoPane \notin PaneIds
<1>1. Order \in Seq(People) /\ MaxPanes \in Nat
  BY ActuatorAssumption
<1>2. Len(Order) \in Nat /\ DOMAIN Order = 1..Len(Order)
  BY <1>1, LenProperties
<1>3. \A i, j \in DOMAIN Order : Order[i] = Order[j] => i = j
  BY ActuatorAssumption DEF IsInjective
<1> QED BY <1>1, <1>2, <1>3, ElementOfSeq DEF PaneIds, NoPane

LEMMA PaneOfFact ==
    ASSUME PanesOK, NEW p
    PROVE /\ Of(p) = {} => PaneOf(p) = NoPane
          /\ Of(p) # {} => PaneOf(p) \in Of(p) /\ PaneOf(p) \in Panes /\ PaneOf(p) # NoPane
          /\ PaneOf(p) \in PaneIds \cup {NoPane}
BY OrderFacts DEF PaneOf, PanesOK, Of

\* One person's boot: a step of their own, or none.
LEMMA BootStep ==
    ASSUME PanesOK, NEW want, NEW at, at = [p \in People |-> PaneOf(p)],
           NEW p \in People, p \in DOMAIN want
    PROVE boot(want, p) = <<>> \/ \E x \in Planned(want, at) \cap Outdated(want) :
                                      boot(want, p) = <<x>> /\ x.who = p
<1> DEFINE first == ~Session /\ p = Head(SelectSeq(Order, LAMBDA x : x \in DOMAIN want))
           new == IF first THEN "session" ELSE IF p \in windows THEN "split" ELSE "window"
<1>1. boot(want, p) = IF Of(p) = {} THEN <<[do |-> new, who |-> p, pane |-> NoPane]>>
                      ELSE IF panes[PaneOf(p)].hash # want[p]
                      THEN <<[do |-> "respawn", who |-> p, pane |-> PaneOf(p)]>> ELSE <<>>
  BY DEF boot
<1> HIDE DEF first
<1>2. new \in Boots
  BY DEF Boots
<1> HIDE DEF new
<1>3. at[p] = PaneOf(p)
  OBVIOUS
<1>4. CASE Of(p) = {}
  <2> DEFINE x == [do |-> new, who |-> p, pane |-> NoPane]
  <2>1. at[p] = NoPane
    BY <1>3, <1>4, PaneOfFact
  <2>2. x \in Steps /\ x \in Planned(want, at) /\ x \in Outdated(want)
    BY <1>2, <2>1 DEF Steps, Planned, Outdated, Boots
  <2> QED BY <1>1, <1>4, <2>2
<1>5. CASE Of(p) # {}
  <2> DEFINE x == [do |-> "respawn", who |-> p, pane |-> PaneOf(p)]
  <2>1. PaneOf(p) \in Panes /\ PaneOf(p) # NoPane /\ PaneOf(p) \in PaneIds \cup {NoPane}
    BY <1>5, PaneOfFact
  <2>2. CASE panes[PaneOf(p)].hash # want[p]
    <3>1. x \in Steps /\ x \in Planned(want, at)
      BY <1>3, <2>1 DEF Steps, Planned, Boots
    <3>2. x \in Outdated(want)
      BY <2>1, <2>2, <3>1 DEF Outdated
    <3> QED BY <1>1, <1>5, <2>2, <3>1, <3>2
  <2> QED BY <1>1, <1>5, <2>2
<1> QED BY <1>4, <1>5

\* At most one step for each person, in display order.
LEMMA EachInOrder ==
    ASSUME NEW T, NEW s, s = [i \in DOMAIN Order |-> s[i]],
           \A i \in 1..Len(Order) : s[i] = <<>> \/ \E x \in T : s[i] = <<x>> /\ x.who = Order[i]
    PROVE FlattenSeq(s) \in Seq(T) /\ OneEach(FlattenSeq(s))
<1>1. ASSUME NEW i \in 1..Len(Order) PROVE s[i] \in Seq(T)
  <2>1. CASE s[i] = <<>>
    <3>1. <<>> \in Seq(T)
      OBVIOUS
    <3> QED BY <2>1, <3>1
  <2>2. CASE \E x \in T : s[i] = <<x>> /\ x.who = Order[i]
    <3>1. PICK x \in T : s[i] = <<x>>
      BY <2>2
    <3>2. <<x>> \in Seq(T)
      OBVIOUS
    <3> QED BY <3>1, <3>2
  <2> QED BY <2>1, <2>2
<1>2. s \in [1..Len(Order) -> Seq(T)]
  BY <1>1, OrderFacts
<1>3. s \in Seq(Seq(T)) /\ Len(s) = Len(Order)
  BY <1>2, OrderFacts, IsSequence
<1>4. FlattenSeq(s) \in Seq(T)
  BY <1>3, FlattenType
<1>5. OneEach(FlattenSeq(s))
  <2>1. \A i, j \in 1..Len(s) : Order[i] = Order[j] => i = j
    BY <1>3, OrderFacts
  <2>2. \A i \in 1..Len(s) : s[i] = <<>> \/ \E x \in T : s[i] = <<x>> /\ x.who = Order[i]
    BY <1>3
  <2> QED BY <1>3, <2>1, <2>2, FlattenOneEach
<1> QED BY <1>4, <1>5

\* The plan has steps of the kinds above only, and respawns nobody twice.
LEMMA PlanIs ==
    ASSUME PanesOK, windows \subseteq People,
           NEW want \in Wishes, NEW at, at = [p \in People |-> PaneOf(p)]
    PROVE /\ compute_converge_plan(want) \in Seq(Planned(want, at) \cap Outdated(want))
          /\ RespawnsOnce(compute_converge_plan(want))
<1> DEFINE T == Planned(want, at) \cap Outdated(want)
           U == {s \in T : s.do # "respawn"}
           boots == [i \in DOMAIN Order |-> IF Order[i] \in DOMAIN want THEN boot(want, Order[i]) ELSE <<>>]
           one(do, p) == <<[do |-> do, who |-> p, pane |-> NoPane]>>
           each(do, S) == [i \in DOMAIN Order |-> IF Order[i] \in S THEN one(do, Order[i]) ELSE <<>>]
           reap == [i \in 1..Cardinality(reapable(want)) |->
                       [do |-> "reap", who |-> panes[SetToSeq(reapable(want))[i]].who,
                        pane |-> SetToSeq(reapable(want))[i]]]
           missing == {p \in DOMAIN want : Of(p) = {}}
           leaving == {p \in People \ DOMAIN want : Of(p) # {}}
           plan == compute_converge_plan(want)
<1>1. DOMAIN want \subseteq People
  BY DEF Wishes
<1>2. plan = IF DOMAIN want = {}
             THEN IF Session THEN <<[do |-> "stop", who |-> Head(Order), pane |-> NoPane]>> ELSE <<>>
             ELSE FlattenSeq(boots) \o FlattenSeq(each("close", leaving)) \o reap
                  \o FlattenSeq(each("close", unwanted(want) \ leaving)) \o FlattenSeq(each("layout", missing))
  BY DEF compute_converge_plan
<1>3. FlattenSeq(boots) \in Seq(T) /\ RespawnsOnce(FlattenSeq(boots))
  <2>1. ASSUME NEW i \in 1..Len(Order)
        PROVE boots[i] = <<>> \/ \E x \in T : boots[i] = <<x>> /\ x.who = Order[i]
    <3>1. boots[i] = IF Order[i] \in DOMAIN want THEN boot(want, Order[i]) ELSE <<>>
      BY OrderFacts
    <3>2. Order[i] \in People
      BY OrderFacts
    <3> HIDE DEF boots, T
    <3>3. CASE Order[i] \in DOMAIN want
      BY <3>1, <3>2, <3>3, BootStep DEF T
    <3> QED BY <3>1, <3>3
  <2>2. boots = [i \in DOMAIN Order |-> boots[i]]
    OBVIOUS
  <2> HIDE DEF boots, T
  <2>3. FlattenSeq(boots) \in Seq(T) /\ OneEach(FlattenSeq(boots))
    BY <2>1, <2>2, EachInOrder
  <2> QED BY <2>3 DEF OneEach, RespawnsOnce
<1>4. ASSUME NEW do \in {"close", "layout"}, NEW S, do = "close" => S \cap DOMAIN want = {}
      PROVE FlattenSeq(each(do, S)) \in Seq(U)
  <2>1. ASSUME NEW i \in 1..Len(Order)
        PROVE each(do, S)[i] = <<>> \/ \E x \in U : each(do, S)[i] = <<x>> /\ x.who = Order[i]
    <3>1. each(do, S)[i] = IF Order[i] \in S THEN one(do, Order[i]) ELSE <<>>
      BY OrderFacts
    <3>2. Order[i] \in People
      BY OrderFacts
    <3> DEFINE x == [do |-> do, who |-> Order[i], pane |-> NoPane]
    <3>3. Order[i] \in S => x \in U
      BY <1>4, <3>2 DEF Steps, Planned, Outdated, Boots
    <3> QED BY <3>1, <3>3
  <2>2. each(do, S) = [i \in DOMAIN Order |-> each(do, S)[i]]
    OBVIOUS
  <2> HIDE DEF each, U
  <2> QED BY <2>1, <2>2, EachInOrder
<1>5. reap \in Seq(U)
  <2>1. IsFiniteSet(reapable(want)) /\ reapable(want) \subseteq Panes
    <3>1. IsFiniteSet(PaneIds)
      BY OrderFacts, FS_Interval DEF PaneIds
    <3> QED BY <3>1, FS_Subset DEF reapable, PanesOK
  <2>2. Cardinality(reapable(want)) \in Nat
        /\ SetToSeq(reapable(want)) \in [1..Cardinality(reapable(want)) -> reapable(want)]
    BY <2>1, Listed
  <2>3. ASSUME NEW q \in reapable(want)
        PROVE [do |-> "reap", who |-> panes[q].who, pane |-> q] \in U
    <3>1. q \in PaneIds /\ panes[q].who \in People
      BY <2>1, <2>3 DEF PanesOK, Pane
    <3> QED BY <3>1 DEF Steps, Planned, Outdated, Boots
  <2> HIDE DEF U
  <2>4. reap \in [1..Cardinality(reapable(want)) -> U]
    BY <2>2, <2>3
  <2> HIDE DEF reap
  <2> QED BY <2>2, <2>4, IsSequence
<1>6. CASE DOMAIN want = {}
  <2>1. CASE ~Session
    BY <1>2, <1>6, <2>1, EmptySeq DEF RespawnsOnce
  <2>2. CASE Session
    <3>1. People # {}
      BY <2>2 DEF Session, PanesOK, Pane
    <3>2. Head(Order) \in People
      <4>1. 1 \in 1..Len(Order)
        BY <3>1, OrderFacts DEF People, Range
      <4> QED BY <4>1, OrderFacts
    <3> DEFINE x == [do |-> "stop", who |-> Head(Order), pane |-> NoPane]
    <3>3. x \in T
      BY <1>6, <3>2 DEF Steps, Planned, Outdated, Boots
    <3>4. plan = <<x>>
      BY <1>2, <1>6, <2>2
    <3> QED BY <3>3, <3>4 DEF RespawnsOnce
  <2> QED BY <2>1, <2>2
<1>7. CASE DOMAIN want # {}
  <2> DEFINE b == FlattenSeq(each("close", leaving))
             c == FlattenSeq(each("close", unwanted(want) \ leaving))
             d == FlattenSeq(each("layout", missing))
             a == FlattenSeq(boots)
  <2>1. b \in Seq(U)
    <3>1. leaving \cap DOMAIN want = {}
      OBVIOUS
    <3> HIDE DEF U, each, leaving
    <3> QED BY <1>4, <3>1
  <2>2. c \in Seq(U)
    <3>1. (unwanted(want) \ leaving) \cap DOMAIN want = {}
      BY DEF unwanted
    <3> HIDE DEF U, each, leaving
    <3> QED BY <1>4, <3>1
  <2>3. d \in Seq(U)
    <3> HIDE DEF U, each, missing
    <3> QED BY <1>4
  <2>4. plan = a \o b \o reap \o c \o d
    BY <1>2, <1>7
  <2> HIDE DEF a, b, c, d, reap, T, plan
  <2>5. a \in Seq(T) /\ RespawnsOnce(a)
    BY <1>3 DEF a
  <2>6. (a \o b) \in Seq(T) /\ RespawnsOnce(a \o b)
    BY <2>1, <2>5, PlanJoined
  <2>7. (a \o b \o reap) \in Seq(T) /\ RespawnsOnce(a \o b \o reap)
    BY <1>5, <2>6, PlanJoined
  <2>8. (a \o b \o reap \o c) \in Seq(T) /\ RespawnsOnce(a \o b \o reap \o c)
    BY <2>2, <2>7, PlanJoined
  <2>9. (a \o b \o reap \o c \o d) \in Seq(T) /\ RespawnsOnce(a \o b \o reap \o c \o d)
    BY <2>3, <2>8, PlanJoined
  <2> QED BY <2>4, <2>9 DEF plan, T
<1> QED BY <1>6, <1>7

(***************************************************************************)
(* The inductive invariant.                                                 *)
(***************************************************************************)
\* A tag or a marker tells of the pane.
Told(q) == panes[q].marked \/ panes[q].tags # "none"

MintStep == step.do \in {"window", "split"}

\* A pane's tags say it is managed, and until the last is written its marker
\* is there; once a pass has observed, only the pane it is minting is marked.
Tagged == \A q \in Panes :
    /\ panes[q].tags # "none" => panes[q].managed
    /\ panes[q].tags \in {"part", "person"} => panes[q].marked
    /\ panes[q].marked /\ pass.stage # "idle" => q = pass.cur /\ MintStep

\* Nobody has two panes that are told of.
OnePane == \A q, r \in Panes : Told(q) /\ Told(r) /\ panes[q].who = panes[r].who => q = r

\* A pass that is not at its steps has none, and an idle one wants nobody.
Resting == /\ pass.stage # "steps" => pass.todo = <<>> /\ pass.cur = NoPane /\ pass.tried = {} /\ pass.made = {}
           /\ pass.stage = "idle" => DOMAIN pass.want = {}

\* The steps left are such as were planned, at the panes then observed, and
\* whoever is still to be respawned runs something else than is wanted.
AsPlanned ==
    /\ pass.todo \in Seq(Planned(pass.want, loop.panes))
    /\ RespawnsOnce(pass.todo)
    /\ \A i \in 1..Len(pass.todo) :
          LET s == pass.todo[i] IN s.do = "respawn" /\ s.pane \in Panes => panes[s.pane].hash # pass.want[s.who]

\* The pane a step is at work on: a mint's is its person's only one, in their
\* window once it has a tag, and not one that is remembered.
AtWork ==
    pass.cur # NoPane =>
        /\ pass.stage = "steps" /\ pass.todo # <<>>
        /\ MintStep \/ (step.do = "respawn" /\ pass.cur = step.pane)
        /\ MintStep =>
              /\ \A p \in People : loop.panes[p] # pass.cur
              /\ pass.cur \in Panes => panes[pass.cur].who = step.who
              /\ pass.cur \in Panes /\ panes[pass.cur].tags # "none" => step.who \in windows
              /\ \A q \in Panes \ {pass.cur} : panes[q].who = step.who => ~Told(q)

RailsStand == rails \subseteq windows

\* A pane remembered is its person's as long as it stands, and their only one
\* unless a process of theirs exited since.
Remembers == \A p \in People : loop.panes[p] # NoPane =>
    /\ loop.panes[p] \in Panes => loop.panes[p] \in Of(p)
    /\ p \notin died => Of(p) \subseteq {loop.panes[p]}

\* Whoever was booted has a pane, or a process of theirs exited, or their boot
\* is under way.
Booted ==
    /\ pass.tried \subseteq DOMAIN pass.want
    /\ \A p \in attempted_boots : Of(p) # {} \/ p \in died \/ (pass.cur # NoPane /\ MintStep /\ step.who = p)
    /\ pass.stage = "steps" => loop.pending = {}
    /\ ~loop.failed => \A p \in loop.pending : Of(p) # {} \/ p \in died
    /\ pass.stage = "idle" /\ interrupted # {} => loop.pending = {}

IInv == /\ Typed /\ Tagged /\ OnePane /\ Resting /\ AsPlanned /\ AtWork /\ RailsStand
        /\ Remembers /\ Booted

(***************************************************************************)
(* What the steps do.                                                       *)
(***************************************************************************)
LEMMA FreshPane ==
    ASSUME Room
    PROVE NewPane \in PaneIds /\ Fresh(NewPane)
<1> DEFINE S == {q \in PaneIds : Fresh(q)}
<1>1. S \subseteq Nat /\ S # {}
  BY OrderFacts DEF Room, PaneIds
<1>2. \E q \in S : \A r \in S : q <= r
  BY <1>1, Least
<1> QED BY <1>2 DEF NewPane

\* The step at hand is one that was planned, and so are those after it.
LEMMA StepAtHand ==
    ASSUME Typed, AsPlanned, pass.todo # <<>>
    PROVE /\ step \in Planned(pass.want, loop.panes) /\ step \in Steps /\ step = pass.todo[1]
          /\ step.who \in People /\ step.pane \in PaneIds \cup {NoPane}
          /\ Len(pass.todo) \in Nat /\ 1 \in 1..Len(pass.todo)
          /\ Tail(pass.todo) \in Seq(Planned(pass.want, loop.panes)) /\ Tail(pass.todo) \in Seq(Steps)
          /\ Len(Tail(pass.todo)) = Len(pass.todo) - 1
          /\ \A i \in 1..Len(Tail(pass.todo)) :
                i + 1 \in 1..Len(pass.todo) /\ Tail(pass.todo)[i] = pass.todo[i + 1]
<1> DEFINE P == Planned(pass.want, loop.panes)
<1>1. pass.todo \in Seq(P) /\ pass.todo \in Seq(Steps)
  BY DEF AsPlanned, Typed, Passes
<1> HIDE DEF P
<1>2. /\ Head(pass.todo) \in P /\ Tail(pass.todo) \in Seq(P)
      /\ Len(Tail(pass.todo)) = Len(pass.todo) - 1
      /\ \A i \in 1..Len(Tail(pass.todo)) : Tail(pass.todo)[i] = pass.todo[i + 1]
  BY <1>1, HeadTailProperties
<1>3. Head(pass.todo) \in Steps /\ Tail(pass.todo) \in Seq(Steps)
  BY <1>1, HeadTailProperties
<1>4. Len(pass.todo) \in Nat /\ Len(pass.todo) # 0 /\ Head(pass.todo) = pass.todo[1]
  BY <1>1, EmptySeq
<1>5. step.who \in People /\ step.pane \in PaneIds \cup {NoPane}
  BY <1>3 DEF step, Steps
<1> QED BY <1>2, <1>3, <1>4, <1>5 DEF step, P

\* The wish, restricted or extended, is one.
LEMMA WishChanges ==
    ASSUME NEW w \in Wishes, NEW p \in People
    PROVE /\ \A h \in Hashes : Put(w, p, h) \in Wishes
          /\ Restrict(w, DOMAIN w \ {p}) \in Wishes
          /\ DOMAIN w \subseteq People /\ \A x \in DOMAIN w : w[x] \in Hashes
<1>1. PICK S \in SUBSET People : w \in [S -> Hashes]
  BY DEF Wishes
<1>2. ASSUME NEW h \in Hashes PROVE Put(w, p, h) \in Wishes
  <2>1. Put(w, p, h) \in [S \cup {p} -> Hashes] /\ S \cup {p} \in SUBSET People
    BY <1>1 DEF Put
  <2> QED BY <2>1 DEF Wishes
<1>3. Restrict(w, DOMAIN w \ {p}) \in Wishes
  <2>1. Restrict(w, DOMAIN w \ {p}) \in [S \ {p} -> Hashes] /\ S \ {p} \in SUBSET People
    BY <1>1 DEF Restrict
  <2> QED BY <2>1 DEF Wishes
<1> QED BY <1>1, <1>2, <1>3

LEMMA IdlePass ==
    /\ Idle \in Passes /\ Idle.stage = "idle" /\ DOMAIN Idle.want = {} /\ Idle.todo = <<>>
    /\ Idle.cur = NoPane /\ Idle.made = {} /\ Idle.tried = {} /\ Idle.skipped = {}
<1>1. NoWish \in [{} -> Hashes] /\ DOMAIN NoWish = {}
  BY DEF NoWish
<1>2. NoWish \in Wishes
  BY <1>1 DEF Wishes
<1> QED BY <1>1, <1>2 DEF Idle, Passes

\* What is left of a pass when its step is done, and when it is tried.
LEMMA DoneIs ==
    ASSUME NEW p \in Passes, Tail(p.todo) \in Seq(Steps)
    PROVE /\ Done(p) \in Passes /\ Done(p).todo = Tail(p.todo) /\ Done(p).cur = NoPane
          /\ Done(p).stage = p.stage /\ Done(p).want = p.want /\ Done(p).made = p.made
          /\ Done(p).tried = p.tried /\ Done(p).skipped = p.skipped
BY DEF Done, Passes

LEMMA TriedIs ==
    ASSUME pass \in Passes, step.who \in People
    PROVE /\ Tried \in Passes /\ Tried.todo = pass.todo /\ Tried.cur = pass.cur
          /\ Tried.stage = pass.stage /\ Tried.want = pass.want /\ Tried.made = pass.made
          /\ Tried.tried = pass.tried \cup {step.who} /\ Tried.skipped = pass.skipped
BY DEF Tried, Passes

\* Panes only go.
Shrinks == Panes' \subseteq Panes /\ \A q \in Panes' : panes'[q] = panes[q]

LEMMA Shrunk ==
    ASSUME PanesOK, Shrinks
    PROVE /\ PanesOK'
          /\ \A p : Of(p)' = Of(p) \cap Panes'
          /\ \A q \in Panes' : Told(q)' <=> Told(q)
BY DEF PanesOK, Shrinks, Of, Owned, Told, Panes

LEMMA WithoutIs ==
    ASSUME NEW gone, Without(gone)
    PROVE /\ Shrinks /\ Panes' = Panes \ gone /\ windows' \subseteq windows
          /\ rails \subseteq windows => rails \subseteq windows'
          /\ \A q \in Panes' : panes[q].managed /\ panes[q].who \in windows => panes[q].who \in windows'
BY DEF Without, Shrinks, Panes, Restrict

\* The plan stands while what is remembered keeps its launch.
LEMMA PlanStands ==
    ASSUME Typed, AsPlanned, pass'.want = pass.want, loop'.panes = loop.panes,
           \A p \in People : loop.panes[p] \in Panes' =>
               loop.panes[p] \in Panes /\ panes'[loop.panes[p]].hash = panes[loop.panes[p]].hash,
           pass'.todo = pass.todo \/ (pass.todo # <<>> /\ pass'.todo = Tail(pass.todo))
    PROVE AsPlanned'
<1> DEFINE P == Planned(pass.want, loop.panes)
<1>0. P = Planned(pass.want, loop.panes)'
  BY DEF Planned
<1>1. \A i \in 1..Len(pass.todo) : pass.todo[i] \in P
  BY ElementOfSeq DEF AsPlanned
<1>2. pass'.todo \in Seq(P) /\ RespawnsOnce(pass'.todo)
      /\ \A i \in 1..Len(pass'.todo) : \E j \in 1..Len(pass.todo) : pass'.todo[i] = pass.todo[j]
  <2>1. CASE pass'.todo = pass.todo
    BY <2>1 DEF AsPlanned
  <2>2. CASE pass.todo # <<>> /\ pass'.todo = Tail(pass.todo)
    <3>1. /\ Tail(pass.todo) \in Seq(P) /\ Len(pass.todo) \in Nat
          /\ Len(Tail(pass.todo)) = Len(pass.todo) - 1
          /\ \A i \in 1..Len(Tail(pass.todo)) :
                i + 1 \in 1..Len(pass.todo) /\ Tail(pass.todo)[i] = pass.todo[i + 1]
      BY <2>2, StepAtHand
    <3>2. RespawnsOnce(Tail(pass.todo))
      <4>1. RespawnsOnce(pass.todo)
        BY DEF AsPlanned
      <4> QED BY <3>1, <4>1 DEF RespawnsOnce
    <3> QED BY <2>2, <3>1, <3>2
  <2> QED BY <2>1, <2>2
<1>3. ASSUME NEW i \in 1..Len(pass'.todo), pass'.todo[i].do = "respawn", pass'.todo[i].pane \in Panes'
      PROVE panes'[pass'.todo[i].pane].hash # pass'.want[pass'.todo[i].who]
  <2>1. PICK j \in 1..Len(pass.todo) : pass'.todo[i] = pass.todo[j]
    BY <1>2
  <2> DEFINE s == pass.todo[j]
  <2>2. s \in P
    BY <1>1
  <2>3. s.pane = loop.panes[s.who] /\ s.who \in People
    BY <1>3, <2>1, <2>2 DEF Planned, Steps
  <2>4. s.pane \in Panes /\ panes'[s.pane].hash = panes[s.pane].hash
    BY <1>3, <2>1, <2>3
  <2>5. panes[s.pane].hash # pass.want[s.who]
    BY <1>3, <2>1, <2>4 DEF AsPlanned
  <2> QED BY <2>1, <2>4, <2>5
<1> HIDE DEF P
<1>4. pass'.todo \in Seq(Planned(pass.want, loop.panes)')
  BY <1>0, <1>2
<1> QED BY <1>2, <1>3, <1>4 DEF AsPlanned, RespawnsOnce

LEMMA NothingPlanned ==
    ASSUME pass'.todo = <<>>
    PROVE AsPlanned'
<1>1. pass'.todo \in Seq(Planned(pass.want, loop.panes)')
  BY EmptySeq
<1>2. Len(pass'.todo) = 0
  BY EmptySeq
<1> QED BY <1>1, <1>2 DEF AsPlanned, RespawnsOnce

(***************************************************************************)
(* Steps that make no pane.                                                 *)
(***************************************************************************)
SpentOK == spent \in [changes : Nat, mishaps : Nat]

\* A step is taken off the plan: whoever is skipped was not booted, and what
\* goes belongs to people unwanted.
PassesOver ==
    /\ pass.stage = "steps" /\ pass.todo # <<>> /\ pass.cur = NoPane
    /\ pass' \in Passes /\ pass'.stage = "steps" /\ pass'.want = pass.want
    /\ pass'.todo = Tail(pass.todo) /\ pass'.cur = NoPane
    /\ pass'.tried \subseteq DOMAIN pass.want
    /\ attempted_boots' \subseteq attempted_boots
    /\ Shrinks /\ windows' \subseteq windows /\ rails' \subseteq windows'
    /\ \A p \in DOMAIN pass.want : Of(p) \subseteq Panes' /\ (p \in rails => p \in windows')
    /\ SpentOK'
    /\ UNCHANGED <<desired, refused, loop, died>>

\* Between two steps no pane is marked.
LEMMA NoneMarked ==
    ASSUME Typed, Tagged, pass.stage # "idle", pass.cur = NoPane
    PROVE \A q \in Panes : ~panes[q].marked /\ (Told(q) => Owned(q))
<1>1. \A q \in Panes : q # NoPane /\ panes[q].tags \in Range(Tags) /\ panes[q].marked \in BOOLEAN
  BY OrderFacts DEF Typed, PanesOK, Pane
<1>2. \A t \in Range(Tags) : t \in {"none", "part", "person", "all"}
  BY DEF Range, Tags
<1>3. \A q \in Panes : ~panes[q].marked
  BY <1>1 DEF Tagged
<1> QED BY <1>1, <1>2, <1>3 DEF Tagged, Told, Owned

LEMMA PassesOverKeeps ==
    ASSUME IInv, PassesOver
    PROVE IInv'
<1>0. Typed /\ PanesOK /\ AsPlanned
  BY DEF IInv, Typed
<1>1. /\ PanesOK' /\ \A p : Of(p)' = Of(p) \cap Panes'
      /\ \A q \in Panes' : q \in Panes /\ panes'[q] = panes[q] /\ (Told(q)' <=> Told(q))
  BY <1>0, Shrunk DEF PassesOver, Shrinks
<1>2. Typed'
  BY <1>0, <1>1 DEF PassesOver, Typed, SpentOK
<1>3. Tagged'
  <2>1. \A q \in Panes : ~panes[q].marked
    BY NoneMarked DEF IInv, PassesOver
  <2> QED BY <1>1, <2>1 DEF IInv, Tagged
<1>4. OnePane'
  BY <1>1 DEF IInv, OnePane
<1>5. Resting' /\ RailsStand'
  BY DEF PassesOver, Resting, RailsStand
<1>6. AsPlanned'
  <2>1. \A p \in People : loop.panes[p] \in Panes' =>
            loop.panes[p] \in Panes /\ panes'[loop.panes[p]].hash = panes[loop.panes[p]].hash
    BY <1>1
  <2> QED BY <1>0, <2>1, PlanStands DEF PassesOver
<1>7. AtWork'
  BY DEF PassesOver, AtWork
<1>8. Remembers'
  BY <1>1 DEF IInv, Remembers, PassesOver
<1>9. Booted'
  <2>1. attempted_boots \subseteq DOMAIN pass.want
    BY DEF IInv, Booted, attempted_boots
  <2>2. \A p \in attempted_boots' : Of(p)' # {} \/ p \in died'
    BY <1>1, <2>1 DEF IInv, Booted, PassesOver
  <2>3. loop.pending = {}
    BY DEF IInv, Booted, PassesOver
  <2> QED BY <2>2, <2>3 DEF Booted, PassesOver
<1> QED BY <1>2, <1>3, <1>4, <1>5, <1>6, <1>7, <1>8, <1>9 DEF IInv

LEMMA Mishaps0 ==
    ASSUME SpentOK
    PROVE /\ \A kind : Mishap(kind) => SpentOK'
          /\ UNCHANGED spent => SpentOK'
BY DEF SpentOK, Mishap

\* The steps that pass over one.
LEMMA PassOvers ==
    ASSUME IInv, Skip \/ apply_layout \/ defer_if_operator_watching \/ kill_window \/ stop_session
    PROVE PassesOver
<1>0. /\ Typed /\ PanesOK /\ AsPlanned /\ pass \in Passes /\ SpentOK /\ rails \subseteq windows
      /\ pass.tried \subseteq DOMAIN pass.want
  BY DEF IInv, Typed, SpentOK, RailsStand, Booted
<1>1. pass.stage = "steps" /\ pass.todo # <<>> /\ pass.cur = NoPane
  BY DEF Skip, apply_layout, defer_if_operator_watching, kill_window, stop_session, Doing
<1>2. step \in Planned(pass.want, loop.panes) /\ step.who \in People /\ Tail(pass.todo) \in Seq(Steps)
  BY <1>0, <1>1, StepAtHand
<1>3. ASSUME pass' = Done(pass), UNCHANGED <<desired, refused, loop, died>>, SpentOK',
             Shrinks /\ windows' \subseteq windows /\ rails' \subseteq windows',
             \A p \in DOMAIN pass.want : Of(p) \subseteq Panes' /\ (p \in rails => p \in windows')
      PROVE PassesOver
  <2>1. /\ pass' \in Passes /\ pass'.todo = Tail(pass.todo) /\ pass'.cur = NoPane
        /\ pass'.stage = pass.stage /\ pass'.want = pass.want
        /\ pass'.tried = pass.tried /\ pass'.skipped = pass.skipped
    BY <1>0, <1>2, <1>3, DoneIs
  <2> QED BY <1>0, <1>1, <1>3, <2>1 DEF PassesOver, attempted_boots
<1>4. UNCHANGED panes => Shrinks /\ \A p : Of(p) \subseteq Panes'
  BY DEF Shrinks, Panes, Of
<1>5. CASE Skip
  <2>1. step.do \in Boots \cup {"respawn"} /\ pass' = Done([Tried EXCEPT !.skipped = @ \cup {step.who}])
        /\ UNCHANGED <<desired, refused, panes, windows, rails, loop, died, spent>>
    BY <1>5 DEF Skip, Doing
  <2>2. step.who \in DOMAIN pass.want
    BY <1>2, <2>1 DEF Planned
  <2> DEFINE t == [Tried EXCEPT !.skipped = @ \cup {step.who}]
  <2>3. t \in Passes /\ t.todo = pass.todo /\ t.stage = pass.stage /\ t.want = pass.want
        /\ t.tried = pass.tried \cup {step.who} /\ t.skipped = pass.skipped \cup {step.who}
    <3>1. /\ Tried \in Passes /\ Tried.todo = pass.todo
          /\ Tried.stage = pass.stage /\ Tried.want = pass.want
          /\ Tried.tried = pass.tried \cup {step.who} /\ Tried.skipped = pass.skipped
      BY <1>0, <1>2, TriedIs
    <3> QED BY <1>2, <3>1 DEF Passes
  <2>4. pass' = Done(t)
    BY <2>1
  <2> HIDE DEF t
  <2>5. /\ pass' \in Passes /\ pass'.todo = Tail(pass.todo) /\ pass'.cur = NoPane
        /\ pass'.stage = pass.stage /\ pass'.want = pass.want
        /\ pass'.tried = pass.tried \cup {step.who} /\ pass'.skipped = pass.skipped \cup {step.who}
    BY <1>2, <2>3, <2>4, DoneIs
  <2>6. attempted_boots' \subseteq attempted_boots
    BY <2>5 DEF attempted_boots
  <2>7. SpentOK'
    BY <1>0, <2>1, Mishaps0
  <2> QED BY <1>0, <1>1, <1>4, <2>1, <2>2, <2>5, <2>6, <2>7 DEF PassesOver
<1>6. CASE apply_layout
  <2>1. SpentOK'
    BY <1>0, <1>6, Mishaps0 DEF apply_layout
  <2> QED BY <1>0, <1>3, <1>4, <1>6, <2>1 DEF apply_layout
<1>7. CASE defer_if_operator_watching
  <2>1. SpentOK'
    BY <1>0, <1>7, Mishaps0 DEF defer_if_operator_watching
  <2> QED BY <1>0, <1>3, <1>4, <1>7, <2>1 DEF defer_if_operator_watching
<1>8. CASE kill_window
  <2>1. step.do = "close"
    BY <1>8 DEF kill_window, Doing
  <2>2. step.who \notin DOMAIN pass.want
    BY <1>2, <2>1 DEF Planned
  <2>3. panes' = Restrict(panes, {q \in Panes : ~(panes[q].managed /\ panes[q].who = step.who)})
    BY <1>8 DEF kill_window
  <2>4. Shrinks /\ \A p : p # step.who => Of(p) \subseteq Panes'
    BY <2>3 DEF Shrinks, Restrict, Panes, Of, Owned
  <2>5. windows' \subseteq windows /\ rails' \subseteq windows' /\ UNCHANGED <<desired, refused, loop, died, spent>>
        /\ pass' = Done(pass) /\ \A p \in rails : p # step.who => p \in windows'
    BY <1>0, <1>8 DEF kill_window
  <2>6. SpentOK'
    BY <1>0, <2>5, Mishaps0
  <2> QED BY <1>3, <2>2, <2>4, <2>5, <2>6
<1>9. CASE stop_session
  <2>1. step.do = "stop"
    BY <1>9 DEF stop_session, Doing
  <2>2. DOMAIN pass.want = {}
    BY <1>2, <2>1 DEF Planned
  <2>3. panes' = <<>> /\ windows' = {} /\ rails' = {} /\ UNCHANGED <<desired, refused, loop, died, spent>>
        /\ pass' = Done(pass)
    BY <1>9 DEF stop_session
  <2>4. Panes' = {}
    BY <2>3 DEF Panes
  <2>5. Shrinks
    BY <2>4 DEF Shrinks
  <2>6. SpentOK'
    BY <1>0, <2>3, Mishaps0
  <2> QED BY <1>3, <2>2, <2>3, <2>5, <2>6
<1> QED BY <1>5, <1>6, <1>7, <1>8, <1>9

\* What goes on around a pass: the wish and the delays change.
Aside ==
    /\ UNCHANGED <<panes, windows, rails, pass, died>>
    /\ loop' \in Loops /\ loop'.panes = loop.panes /\ loop'.pending = loop.pending /\ loop'.failed = loop.failed
    /\ desired' \in Wishes /\ refused' \subseteq People /\ SpentOK'

LEMMA AsideKeeps ==
    ASSUME IInv, Aside
    PROVE IInv'
<1>1. Typed'
  BY DEF IInv, Typed, Aside, SpentOK, PanesOK, Panes
<1>2. Tagged' /\ OnePane' /\ Resting' /\ RailsStand'
  BY DEF IInv, Aside, Tagged, OnePane, Resting, RailsStand, Told, MintStep, step, Panes
<1>3. AsPlanned'
  BY PlanStands DEF IInv, Aside, Panes
<1>4. AtWork' /\ Remembers' /\ Booted'
  BY DEF IInv, Aside, AtWork, Remembers, Booted, Told, MintStep, step, Panes, Of, Owned, attempted_boots, interrupted
<1> QED BY <1>1, <1>2, <1>3, <1>4 DEF IInv

LEMMA Asides ==
    ASSUME Typed, retry_due \/ Change \/ UNCHANGED vars
    PROVE Aside
<1>0. loop \in Loops /\ SpentOK /\ desired \in Wishes /\ refused \subseteq People
  BY DEF Typed, SpentOK
<1>1. CASE retry_due
  BY <1>0, <1>1 DEF retry_due, Aside, Loops, SpentOK
<1>2. CASE Change
  <2>1. PICK p \in People :
          \/ \E h \in Hashes : desired' = Put(desired, p, h) /\ UNCHANGED refused
          \/ desired' = Restrict(desired, DOMAIN desired \ {p}) /\ UNCHANGED refused
          \/ refused' = refused \cup {p} /\ UNCHANGED desired
          \/ refused' = refused \ {p} /\ UNCHANGED desired
    BY <1>2 DEF Change
  <2>2. desired' \in Wishes /\ refused' \subseteq People
    BY <1>0, <2>1, WishChanges
  <2>3. SpentOK'
    BY <1>0, <1>2 DEF Change, SpentOK
  <2> QED BY <1>0, <1>2, <2>2, <2>3 DEF Change, Aside
<1>3. CASE UNCHANGED vars
  BY <1>0, <1>3 DEF vars, Aside, SpentOK
<1> QED BY <1>1, <1>2, <1>3

\* Somebody's process exits.
LEMMA ExitKeeps ==
    ASSUME IInv, Exit
    PROVE IInv'
<1>0. Typed /\ PanesOK /\ AsPlanned /\ SpentOK
  BY DEF IInv, Typed, SpentOK
<1>1. PICK x \in Panes : Without({x}) /\ died' = died \cup {panes[x].who}
  BY DEF Exit
<1>2. UNCHANGED <<desired, refused, rails, pass, loop>> /\ SpentOK'
  BY <1>0, Mishaps0 DEF Exit
<1>3. /\ Shrinks /\ Panes' = Panes \ {x} /\ windows' \subseteq windows /\ rails' \subseteq windows'
      /\ \A q \in Panes' : panes[q].managed /\ panes[q].who \in windows => panes[q].who \in windows'
  BY <1>1, <1>2, WithoutIs DEF IInv, RailsStand
<1>4. /\ PanesOK' /\ \A p : Of(p)' = Of(p) \cap Panes'
      /\ \A q \in Panes' : q \in Panes /\ panes'[q] = panes[q] /\ (Told(q)' <=> Told(q))
  BY <1>0, <1>3, Shrunk DEF Shrinks
<1>5. step' = step /\ (MintStep' <=> MintStep) /\ attempted_boots' = attempted_boots
  BY <1>2 DEF step, MintStep, attempted_boots
<1>6. \A p : p \notin died' => Of(p)' = Of(p)
  BY <1>1, <1>3, <1>4 DEF Of
<1>7. Typed'
  <2>1. panes[x].who \in People
    BY <1>0 DEF PanesOK, Pane
  <2> QED BY <1>0, <1>1, <1>2, <1>3, <1>4, <2>1 DEF Typed, SpentOK
<1>8. Tagged'
  BY <1>2, <1>4, <1>5 DEF IInv, Tagged
<1>9. OnePane' /\ Resting' /\ RailsStand'
  BY <1>2, <1>3, <1>4 DEF IInv, OnePane, Resting, RailsStand
<1>10. AsPlanned'
  BY <1>0, <1>2, <1>4, PlanStands
<1>11. AtWork'
  <2>1. SUFFICES ASSUME pass.cur # NoPane PROVE AtWork'
    BY <1>2 DEF AtWork
  <2>2. pass.cur \in Panes' /\ MintStep /\ panes'[pass.cur].tags # "none" => step.who \in windows'
    BY <1>3, <1>4, <2>1 DEF IInv, AtWork, Tagged
  <2>3. \A q \in Panes' : q # pass.cur /\ MintStep /\ panes'[q].who = step.who => ~Told(q)'
    BY <1>4, <2>1 DEF IInv, AtWork
  <2> QED BY <1>2, <1>4, <1>5, <2>1, <2>2, <2>3 DEF IInv, AtWork
<1>12. Remembers'
  BY <1>1, <1>2, <1>4 DEF IInv, Remembers
<1>13. Booted'
  <2>1. \A p \in attempted_boots : Of(p)' # {} \/ p \in died' \/ (pass.cur # NoPane /\ MintStep /\ step.who = p)
    BY <1>1, <1>6 DEF IInv, Booted
  <2>2. ~loop.failed => \A p \in loop.pending : Of(p)' # {} \/ p \in died'
    BY <1>1, <1>6 DEF IInv, Booted
  <2>3. interrupted' \subseteq interrupted
    BY <1>4 DEF interrupted
  <2> QED BY <1>2, <1>5, <2>1, <2>2, <2>3 DEF IInv, Booted
<1> QED BY <1>7, <1>8, <1>9, <1>10, <1>11, <1>12, <1>13 DEF IInv

\* A pass observes: what is marked is taken down first.
LEMMA ObserveKeeps ==
    ASSUME IInv, Observe
    PROVE IInv'
<1>0. Typed /\ PanesOK /\ desired \in Wishes /\ refused \subseteq People
  BY DEF IInv, Typed
<1>1. /\ pass.stage = "idle" /\ Without(interrupted) /\ rails' = windows'
      /\ UNCHANGED <<desired, refused, loop, died, spent>>
  BY DEF Observe
<1>2. /\ pass' \in Passes /\ pass'.stage = "observed" /\ pass'.todo = <<>> /\ pass'.cur = NoPane
      /\ pass'.made = {} /\ pass'.tried = {} /\ pass'.skipped = {}
  <2>1. pass' = [Idle EXCEPT !.stage = "observed", !.want = desired, !.gate = refused]
    BY DEF Observe
  <2> QED BY <1>0, <2>1, IdlePass DEF Passes
<1>3. Shrinks /\ Panes' = Panes \ interrupted /\ windows' \subseteq windows
  BY <1>1, WithoutIs
<1>4. /\ PanesOK' /\ \A p : Of(p)' = Of(p) \cap Panes'
      /\ \A q \in Panes' : q \in Panes /\ panes'[q] = panes[q] /\ (Told(q)' <=> Told(q))
  BY <1>0, <1>3, Shrunk DEF Shrinks
<1>5. \A q \in Panes' : ~panes'[q].marked
  BY <1>3, <1>4 DEF interrupted
<1>6. Typed'
  BY <1>0, <1>1, <1>2, <1>3, <1>4 DEF Typed
<1>7. Tagged' /\ OnePane'
  BY <1>4, <1>5 DEF IInv, Tagged, OnePane
<1>8. Resting' /\ RailsStand' /\ AtWork'
  BY <1>1, <1>2 DEF Resting, RailsStand, AtWork
<1>9. AsPlanned'
  BY <1>2, NothingPlanned
<1>10. Remembers'
  BY <1>1, <1>4 DEF IInv, Remembers
<1>11. Booted'
  <2>1. loop.pending # {} => interrupted = {}
    BY <1>1 DEF IInv, Booted
  <2>2. loop.pending # {} => \A p : Of(p)' = Of(p)
    BY <1>3, <1>4, <2>1 DEF Of
  <2>3. attempted_boots' = {}
    BY <1>2 DEF attempted_boots
  <2> QED BY <1>1, <1>2, <2>2, <2>3 DEF IInv, Booted
<1> QED BY <1>6, <1>7, <1>8, <1>9, <1>10, <1>11 DEF IInv

\* What is remembered of an observation. A boot is counted as failed, or its
\* delay begun, for those whose boot is judged to have failed.
Absent(want, at)   == {p \in loop.pending : p \in DOMAIN want /\ at[p] = NoPane}
Replaced(want, at) == {p \in DOMAIN want : at[p] # NoPane /\ loop.panes[p] \notin {NoPane, at[p]}}

LEMMA ObservedIs ==
    ASSUME loop \in Loops, NEW want \in Wishes, NEW at \in [People -> PaneIds \cup {NoPane}]
    PROVE LET l == observed(want, at)
          IN  /\ l \in Loops /\ l.pending = {} /\ l.panes = at /\ l.failed = loop.failed
              /\ \A p \in People :
                    l.counted[p] \notin {NoHash, loop.counted[p]} \/ (p \in loop.due /\ p \notin l.due)
                        => ~loop.failed /\ p \in Absent(want, at) \cup Replaced(want, at)
<1> DEFINE failing == IF loop.failed THEN {} ELSE Absent(want, at) \cup Replaced(want, at)
           keep(p) == /\ p \in DOMAIN want /\ want[p] = loop.counted[p]
                      /\ p \notin {x \in DOMAIN want : at[x] # NoPane /\ loop.panes[x] = at[x]}
           counted == [p \in People |-> IF p \in failing THEN want[p]
                                        ELSE IF keep(p) THEN loop.counted[p] ELSE NoHash]
           l == observed(want, at)
<1>1. l = [loop EXCEPT !.counted = counted, !.due = @ \ failing, !.pending = {}, !.panes = at]
  BY DEF observed, Absent, Replaced, Loops
<1>2. failing \subseteq DOMAIN want /\ DOMAIN want \subseteq People /\ \A p \in DOMAIN want : want[p] \in Hashes
  BY DEF Absent, Replaced, Wishes
<1> HIDE DEF failing, keep
<1>3. counted \in [People -> Hashes \cup {NoHash}]
  BY <1>2 DEF Loops
<1>4. \A p \in People : counted[p] \notin {NoHash, loop.counted[p]} => p \in failing
  OBVIOUS
<1> HIDE DEF counted, l
<1>5. /\ l \in Loops /\ l.pending = {} /\ l.panes = at /\ l.failed = loop.failed
      /\ l.counted = counted /\ l.due = loop.due \ failing
  BY <1>1, <1>3 DEF Loops
<1>6. \A p \in failing : ~loop.failed /\ p \in Absent(want, at) \cup Replaced(want, at)
  BY DEF failing
<1> QED BY <1>4, <1>5, <1>6 DEF l

\* What Plan reads and leaves.
LEMMA PlanSteps ==
    ASSUME Typed, Plan
    PROVE LET at == [p \in People |-> PaneOf(p)]
              l == observed(pass.want, at)
              todo == compute_converge_plan(pass.want)
          IN  /\ pass.want \in Wishes /\ at \in [People -> PaneIds \cup {NoPane}]
              /\ pass.stage = "observed" /\ died' = {}
              /\ UNCHANGED <<desired, refused, panes, windows, rails, spent>>
              /\ loop' \in Loops /\ loop'.pending = {} /\ loop'.panes = at
              /\ loop'.counted = l.counted /\ loop'.due = l.due
              /\ \/ pass' = Idle
                 \/ /\ pass' \in Passes /\ pass'.stage = "steps" /\ pass'.todo = todo
                    /\ pass'.want = pass.want /\ pass'.cur = pass.cur /\ pass'.tried = pass.tried
                    /\ pass'.made = pass.made
<1> DEFINE at == [p \in People |-> PaneOf(p)]
           l == observed(pass.want, at)
           todo == compute_converge_plan(pass.want)
<1>0. pass \in Passes /\ loop \in Loops /\ pass.want \in Wishes /\ PanesOK /\ windows \subseteq People
  BY DEF Typed, Passes
<1>1. at \in [People -> PaneIds \cup {NoPane}]
  BY <1>0, PaneOfFact
<1>2. /\ pass.stage = "observed" /\ died' = {}
      /\ UNCHANGED <<desired, refused, panes, windows, rails, spent>>
      /\ \/ todo = <<>> /\ loop' = [l EXCEPT !.failed = FALSE] /\ pass' = Idle
         \/ /\ loop' = l
            /\ pass' = [pass EXCEPT !.stage = "steps", !.todo = todo, !.wait = waiting(l)]
  BY DEF Plan
<1>3. todo \in Seq(Steps)
  <2>1. todo \in Seq(Planned(pass.want, at) \cap Outdated(pass.want))
    BY <1>0, PlanIs
  <2>2. Planned(pass.want, at) \cap Outdated(pass.want) \subseteq Steps
    BY DEF Planned
  <2> HIDE DEF todo, at
  <2> QED BY <2>1, <2>2, SeqMonotonic
<1> HIDE DEF at
<1>4. l \in Loops /\ l.pending = {} /\ l.panes = at /\ l.failed = loop.failed
  BY <1>0, <1>1, ObservedIs
<1>5. waiting(l) \subseteq People
  BY DEF waiting
<1> HIDE DEF l, todo
<1>6. loop' \in Loops /\ loop'.pending = {} /\ loop'.panes = at /\ loop'.counted = l.counted /\ loop'.due = l.due
  BY <1>2, <1>4 DEF Loops
<1>7. \/ pass' = Idle
      \/ /\ pass' \in Passes /\ pass'.stage = "steps" /\ pass'.todo = todo
         /\ pass'.want = pass.want /\ pass'.cur = pass.cur /\ pass'.tried = pass.tried
         /\ pass'.made = pass.made
  BY <1>0, <1>2, <1>3, <1>5 DEF Passes
<1> QED BY <1>0, <1>1, <1>2, <1>6, <1>7 DEF at, l, todo

LEMMA PlanKeeps ==
    ASSUME IInv, Plan
    PROVE IInv'
<1> DEFINE at == [p \in People |-> PaneOf(p)]
           T == Planned(pass.want, at) \cap Outdated(pass.want)
           todo == compute_converge_plan(pass.want)
<1>0. Typed /\ PanesOK /\ windows \subseteq People /\ Tagged
  BY DEF IInv, Typed
<1>1. /\ pass.want \in Wishes /\ at \in [People -> PaneIds \cup {NoPane}]
      /\ pass.stage = "observed" /\ died' = {}
      /\ UNCHANGED <<desired, refused, panes, windows, rails, spent>>
      /\ loop' \in Loops /\ loop'.pending = {} /\ loop'.panes = at
      /\ \/ pass' = Idle
         \/ /\ pass' \in Passes /\ pass'.stage = "steps" /\ pass'.todo = todo
            /\ pass'.want = pass.want /\ pass'.cur = pass.cur /\ pass'.tried = pass.tried
            /\ pass'.made = pass.made
  BY <1>0, PlanSteps
<1>2. pass.cur = NoPane /\ pass.tried = {} /\ pass.made = {}
  BY <1>1 DEF IInv, Resting
<1>3. pass' \in Passes /\ pass'.cur = NoPane /\ pass'.tried = {} /\ pass'.made = {}
  BY <1>1, <1>2, IdlePass
<1>4. \A q \in Panes : ~panes[q].marked /\ (Told(q) => Owned(q))
  BY <1>0, <1>1, <1>2, NoneMarked
<1>5. todo \in Seq(T) /\ RespawnsOnce(todo)
  BY <1>0, <1>1, PlanIs
<1> HIDE DEF todo
<1>6. Typed'
  BY <1>1, <1>3 DEF IInv, Typed, PanesOK, Panes
<1>7. Tagged' /\ OnePane'
  BY <1>1, <1>4 DEF IInv, Tagged, OnePane, Panes, Told
<1>8. Resting' /\ RailsStand' /\ AtWork'
  BY <1>1, <1>3, IdlePass DEF IInv, Resting, RailsStand, AtWork
<1>9. AsPlanned'
  <2>1. CASE pass' = Idle
    BY <2>1, IdlePass, NothingPlanned
  <2>2. CASE pass'.todo = todo /\ pass'.want = pass.want
    <3>1. T \subseteq Planned(pass.want, at) /\ Planned(pass.want, loop.panes)' = Planned(pass.want, at)
      BY <1>1, <2>2 DEF Planned
    <3>2. todo \in Seq(Planned(pass.want, at))
      <4> HIDE DEF T
      <4> QED BY <1>5, <3>1, SeqMonotonic
    <3>3. \A i \in 1..Len(todo) : todo[i] \in Outdated(pass.want)
      <4>1. \A i \in 1..Len(todo) : todo[i] \in T
        BY <1>5, ElementOfSeq
      <4> QED BY <4>1
    <3>4. \A i \in 1..Len(todo) : todo[i].do = "respawn" =>
              todo[i].pane \in Panes /\ panes[todo[i].pane].hash # pass.want[todo[i].who]
      BY <3>3 DEF Outdated
    <3>5. \A i \in 1..Len(todo) : todo[i].do = "respawn" =>
              panes'[todo[i].pane].hash # pass'.want[todo[i].who]
      BY <1>1, <2>2, <3>4
    <3> HIDE DEF at, T
    <3>6. pass'.todo \in Seq(Planned(pass.want, loop.panes)') /\ RespawnsOnce(pass'.todo)
      BY <1>5, <2>2, <3>1, <3>2
    <3> QED BY <2>2, <3>5, <3>6 DEF AsPlanned, RespawnsOnce
  <2> QED BY <1>1, <2>1, <2>2
<1>10. Remembers'
  <2>1. ASSUME NEW p \in People, at[p] # NoPane
        PROVE at[p] \in Of(p) /\ Of(p) \subseteq {at[p]}
    <3>1. at[p] = PaneOf(p) /\ at[p] \in Of(p)
      BY <1>0, <2>1, PaneOfFact
    <3>2. \A q \in Of(p) : q \in Panes /\ Told(q) /\ panes[q].who = p
      BY DEF Of, Owned, Told
    <3> QED BY <3>1, <3>2 DEF IInv, OnePane
  <2>2. \A p : Of(p)' = Of(p)
    BY <1>1 DEF Of, Owned, Panes
  <2> HIDE DEF at
  <2> QED BY <1>1, <2>1, <2>2 DEF Remembers
<1>11. Booted'
  <2>1. attempted_boots' = {}
    BY <1>3 DEF attempted_boots
  <2> QED BY <1>1, <1>3, <2>1 DEF Booted
<1> QED BY <1>6, <1>7, <1>8, <1>9, <1>10, <1>11 DEF IInv

\* A pass ends and another will begin: nothing is marked, unless the actuator
\* itself died, which remembers nothing then.
Ends ==
    /\ pass' = Idle /\ loop' \in Loops /\ SpentOK'
    /\ Shrinks /\ windows' \subseteq windows /\ rails \subseteq windows'
    /\ Panes \ (pass.made \cup {pass.cur}) \subseteq Panes'
    /\ UNCHANGED <<desired, refused, rails, died>>
    /\ loop'.panes = loop.panes \/ \A p \in People : loop'.panes[p] = NoPane
    /\ loop'.failed \/ \A p \in loop'.pending : Of(p)' # {} \/ p \in died
    /\ interrupted' = {} \/ loop'.pending = {}

LEMMA EndsKeeps ==
    ASSUME IInv, Ends
    PROVE IInv'
<1>0. Typed /\ PanesOK
  BY DEF IInv, Typed
<1>1. /\ PanesOK' /\ \A p : Of(p)' = Of(p) \cap Panes'
      /\ \A q \in Panes' : q \in Panes /\ panes'[q] = panes[q] /\ (Told(q)' <=> Told(q))
  BY <1>0, Shrunk DEF Ends, Shrinks
<1>2. /\ pass' \in Passes /\ pass'.stage = "idle" /\ pass'.todo = <<>> /\ pass'.cur = NoPane
      /\ pass'.made = {} /\ pass'.tried = {} /\ pass'.skipped = {} /\ DOMAIN pass'.want = {}
  BY IdlePass DEF Ends
<1>3. Typed'
  BY <1>0, <1>1, <1>2 DEF Ends, Typed, SpentOK
<1>4. Tagged' /\ OnePane'
  BY <1>1, <1>2 DEF IInv, Tagged, OnePane
<1>5. Resting' /\ RailsStand' /\ AtWork'
  BY <1>2 DEF Ends, Resting, RailsStand, AtWork
<1>6. AsPlanned'
  BY <1>2, NothingPlanned
<1>7. Remembers'
  BY <1>1 DEF IInv, Remembers, Ends
<1>8. Booted'
  <2>1. attempted_boots' = {}
    BY <1>2 DEF attempted_boots
  <2> QED BY <1>2, <2>1 DEF Ends, Booted
<1> QED BY <1>3, <1>4, <1>5, <1>6, <1>7, <1>8 DEF IInv

LEMMA Endings ==
    ASSUME IInv, Fail \/ Fault \/ Finish \/ Crash
    PROVE Ends
<1>0. Typed /\ PanesOK /\ AsPlanned /\ loop \in Loops /\ SpentOK /\ pass \in Passes /\ rails \subseteq windows /\ Tagged
  BY DEF IInv, Typed, SpentOK, RailsStand
<1>1. UNCHANGED panes => Shrinks /\ Panes' = Panes
  BY DEF Shrinks, Panes
<1>2. attempted_boots \subseteq People
  BY <1>0 DEF attempted_boots, Passes
<1>3. CASE Fail \/ Fault
  <2>1. Stop /\ SpentOK'
    BY <1>0, <1>3, Mishaps0 DEF Fail, Fault
  <2>2. pass.stage = "steps" /\ pass.todo # <<>> /\ pass' = Idle /\ UNCHANGED <<desired, refused, rails, died>>
    BY <2>1 DEF Stop
  <2> DEFINE minting == IF MintStep THEN {pass.cur} ELSE {}
  <2>3. Without(pass.made \cup minting)
    BY <2>1 DEF Stop, reap_created_panes, MintStep
  <2>4. Shrinks /\ Panes' = Panes \ (pass.made \cup minting) /\ windows' \subseteq windows /\ rails \subseteq windows'
    BY <1>0, <2>3, WithoutIs
  <2>5. interrupted' = {}
    <3>1. \A q \in Panes' : q \in Panes /\ q \notin minting /\ panes'[q] = panes[q]
      BY <2>4 DEF Shrinks
    <3>2. \A q \in Panes : panes[q].marked => q \in minting
      BY <1>0, <2>2 DEF Tagged
    <3> QED BY <3>1, <3>2 DEF interrupted
  <2>6. step.who \in People
    BY <1>0, <2>2, StepAtHand
  <2>7. loop' \in Loops /\ loop'.panes = loop.panes /\ loop'.failed
    BY <1>0, <1>2, <2>1, <2>6 DEF Stop, Loops
  <2> QED BY <2>1, <2>2, <2>4, <2>5, <2>7 DEF Ends
<1>4. CASE Finish
  <2>1. /\ pass.stage = "steps" /\ pass.todo = <<>> /\ pass' = Idle
        /\ UNCHANGED <<desired, refused, panes, windows, rails, died, spent>>
        /\ loop' = [loop EXCEPT !.pending = attempted_boots, !.failed = FALSE]
    BY <1>4 DEF Finish
  <2>2. pass.cur = NoPane
    BY <2>1 DEF IInv, AtWork
  <2>3. loop' \in Loops /\ loop'.panes = loop.panes /\ loop'.pending = attempted_boots
    BY <1>0, <1>2, <2>1 DEF Loops
  <2>4. \A p \in attempted_boots : Of(p)' # {} \/ p \in died
    BY <2>1, <2>2 DEF IInv, Booted, Of, Owned, Panes
  <2>5. interrupted' = {}
    BY <1>0, <2>1, <2>2, NoneMarked DEF interrupted, Panes
  <2>6. SpentOK'
    BY <1>0, <2>1, Mishaps0
  <2> QED BY <1>0, <1>1, <2>1, <2>3, <2>4, <2>5, <2>6 DEF Ends
<1>5. CASE Crash
  <2>1. /\ pass' = Idle /\ loop' = NewLoop /\ SpentOK'
        /\ UNCHANGED <<desired, refused, panes, windows, rails, died>>
    BY <1>0, <1>5, Mishaps0 DEF Crash
  <2>2. loop' \in Loops /\ loop'.pending = {} /\ \A p \in People : loop'.panes[p] = NoPane
    BY <2>1 DEF NewLoop, Loops
  <2> QED BY <1>0, <1>1, <2>1, <2>2 DEF Ends
<1> QED BY <1>3, <1>4, <1>5

(***************************************************************************)
(* Steps that make a pane.                                                  *)
(***************************************************************************)
\* A boot's person is wanted and nothing of theirs is remembered.
LEMMA BootFacts ==
    ASSUME IInv, pass.todo # <<>>, step.do \in Boots
    PROVE /\ step.who \in People /\ step.who \in DOMAIN pass.want /\ pass.want[step.who] \in Hashes
          /\ loop.panes[step.who] = NoPane
<1>1. step \in Planned(pass.want, loop.panes) /\ step.who \in People /\ pass.want \in Wishes
  BY StepAtHand DEF IInv, Typed, Passes
<1>2. step.who \in DOMAIN pass.want /\ loop.panes[step.who] = NoPane
  BY <1>1 DEF Planned
<1> QED BY <1>1, <1>2, WishChanges

\* Process puts one pane on the server, and leaves the others alone.
LEMMA ProcessIs ==
    ASSUME PanesOK, NEW q \in PaneIds, q \notin Panes, NEW p \in People, pass.want[p] \in Hashes,
           NEW managed \in BOOLEAN, NEW tags \in Range(Tags), NEW hash \in Hashes \cup {NoHash},
           Process(p, q, managed, tags, hash)
    PROVE /\ PanesOK' /\ Panes' = Panes \cup {q}
          /\ \A r \in Panes : panes'[r] = panes[r]
          /\ panes'[q].who = p /\ panes'[q].managed = managed /\ panes'[q].tags = tags
          /\ panes'[q].marked = FALSE
<1> DEFINE new == [who |-> p, runs |-> pass.want[p], managed |-> managed,
                   marked |-> FALSE, tags |-> tags, hash |-> hash]
<1>1. panes' = Put(panes, q, new)
  BY DEF Process
<1>2. new \in Pane /\ new.who = p /\ new.managed = managed /\ new.tags = tags /\ new.marked = FALSE
  BY DEF Pane
<1> HIDE DEF new
<1>3. Panes' = Panes \cup {q} /\ panes'[q] = new /\ \A r \in Panes : panes'[r] = panes[r]
  BY <1>1 DEF Put, Panes
<1> QED BY <1>2, <1>3 DEF PanesOK

LEMMA CreateKeeps ==
    ASSUME IInv, create_session
    PROVE IInv'
<1>0. Typed /\ PanesOK /\ AsPlanned /\ pass \in Passes /\ Tagged
  BY DEF IInv, Typed
<1>1. /\ pass.stage = "steps" /\ pass.todo # <<>> /\ pass.cur = NoPane /\ step.do = "session"
      /\ ~Session /\ Room
      /\ Process(step.who, NewPane, TRUE, "all", pass.want[step.who])
      /\ windows' = windows \cup {step.who}
      /\ pass' = Done([Tried EXCEPT !.made = @ \cup {NewPane}])
      /\ UNCHANGED <<desired, refused, rails, loop, died, spent>>
  BY DEF create_session, Doing
<1>2. NewPane \in PaneIds /\ NewPane \notin Panes /\ \A p \in People : loop.panes[p] # NewPane
  BY <1>1, FreshPane DEF Fresh
<1>3. Panes = {} /\ windows = {}
  BY <1>1 DEF Session
<1>4. /\ step.who \in People /\ step.who \in DOMAIN pass.want /\ pass.want[step.who] \in Hashes
      /\ loop.panes[step.who] = NoPane
  BY <1>1, BootFacts DEF Boots
<1>5. /\ PanesOK' /\ Panes' = {NewPane} /\ panes'[NewPane].who = step.who
      /\ panes'[NewPane].managed /\ panes'[NewPane].tags = "all" /\ ~panes'[NewPane].marked
  <2>1. "all" \in Range(Tags)
    BY DEF Range, Tags
  <2>2. /\ PanesOK' /\ Panes' = Panes \cup {NewPane} /\ panes'[NewPane].who = step.who
        /\ panes'[NewPane].managed = TRUE /\ panes'[NewPane].tags = "all" /\ panes'[NewPane].marked = FALSE
    <3> DEFINE hash == pass.want[step.who]
    <3>1. Process(step.who, NewPane, TRUE, "all", hash) /\ hash \in Hashes \cup {NoHash}
      BY <1>1, <1>4
    <3> HIDE DEF hash
    <3> QED BY <1>0, <1>2, <1>4, <2>1, <3>1, ProcessIs
  <2> QED BY <1>3, <2>2
<1>6. /\ pass' \in Passes /\ pass'.todo = Tail(pass.todo) /\ pass'.cur = NoPane
      /\ pass'.stage = "steps" /\ pass'.want = pass.want
      /\ pass'.tried = pass.tried \cup {step.who} /\ pass'.skipped = pass.skipped
  <2> DEFINE t == [Tried EXCEPT !.made = @ \cup {NewPane}]
  <2>1. /\ Tried \in Passes /\ Tried.todo = pass.todo
        /\ Tried.stage = pass.stage /\ Tried.want = pass.want
        /\ Tried.tried = pass.tried \cup {step.who} /\ Tried.skipped = pass.skipped
    BY <1>0, <1>4, TriedIs
  <2>2. t \in Passes /\ t.todo = pass.todo /\ t.stage = pass.stage /\ t.want = pass.want
        /\ t.tried = pass.tried \cup {step.who} /\ t.skipped = pass.skipped
    BY <1>2, <2>1 DEF Passes
  <2>3. Tail(t.todo) \in Seq(Steps) /\ pass' = Done(t)
    BY <1>0, <1>1, <2>2, StepAtHand
  <2> HIDE DEF t
  <2> QED BY <1>1, <2>2, <2>3, DoneIs
<1>7. \A p \in People : Of(p)' = IF p = step.who THEN {NewPane} ELSE {}
  BY <1>5 DEF Of, Owned
<1>8. Typed'
  BY <1>0, <1>1, <1>4, <1>5, <1>6 DEF Typed
<1>9. Tagged' /\ OnePane'
  BY <1>5 DEF Tagged, OnePane
<1>10. Resting' /\ RailsStand' /\ AtWork'
  BY <1>1, <1>6 DEF IInv, Resting, RailsStand, AtWork
<1>11. AsPlanned'
  <2>1. \A p \in People : loop.panes[p] \notin Panes'
    BY <1>2, <1>5
  <2> QED BY <1>0, <1>1, <1>6, <2>1, PlanStands
<1>12. Remembers'
  BY <1>1, <1>2, <1>4, <1>5, <1>7 DEF Remembers
<1>13. Booted'
  <2>1. attempted_boots' \subseteq attempted_boots \cup {step.who} /\ attempted_boots \subseteq People
    BY <1>0, <1>6 DEF attempted_boots, Passes
  <2>2. \A p \in attempted_boots : p \in died
    BY <1>1, <1>3 DEF IInv, Booted, Of
  <2>3. \A p \in attempted_boots' : Of(p)' # {} \/ p \in died'
    BY <1>1, <1>4, <1>7, <2>1, <2>2
  <2>4. loop.pending = {} /\ pass.tried \subseteq DOMAIN pass.want
    BY <1>1 DEF IInv, Booted
  <2> QED BY <1>1, <1>4, <1>6, <2>3, <2>4 DEF Booted
<1> QED BY <1>8, <1>9, <1>10, <1>11, <1>12, <1>13 DEF IInv

LEMMA SpawnKeeps ==
    ASSUME IInv, Spawn
    PROVE IInv'
<1>0. Typed /\ PanesOK /\ AsPlanned /\ pass \in Passes /\ Tagged
  BY DEF IInv, Typed
<1>1. /\ pass.stage = "steps" /\ pass.todo # <<>> /\ pass.cur = NoPane /\ MintStep
      /\ Of(step.who) = {} /\ Room
      /\ Process(step.who, NewPane, step.do = "split", "none", NoHash)
      /\ pass' = [Tried EXCEPT !.cur = NewPane]
      /\ UNCHANGED <<desired, refused, windows, rails, loop, died, spent>>
  BY DEF Spawn, Doing, MintStep
<1>2. NewPane \in PaneIds /\ NewPane \notin Panes /\ NewPane # NoPane
      /\ \A p \in People : loop.panes[p] # NewPane
  BY <1>1, FreshPane, OrderFacts DEF Fresh
<1>3. /\ step.who \in People /\ step.who \in DOMAIN pass.want /\ pass.want[step.who] \in Hashes
      /\ loop.panes[step.who] = NoPane
  BY <1>1, BootFacts DEF Boots, MintStep
<1>4. /\ PanesOK' /\ Panes' = Panes \cup {NewPane} /\ \A r \in Panes : panes'[r] = panes[r]
      /\ panes'[NewPane].who = step.who /\ panes'[NewPane].tags = "none" /\ ~panes'[NewPane].marked
  <2>1. "none" \in Range(Tags) /\ (step.do = "split") \in BOOLEAN
    BY DEF Range, Tags
  <2> QED BY <1>0, <1>1, <1>2, <1>3, <2>1, ProcessIs
<1>5. /\ pass' \in Passes /\ pass'.todo = pass.todo /\ pass'.cur = NewPane
      /\ pass'.stage = "steps" /\ pass'.want = pass.want
      /\ pass'.tried = pass.tried \cup {step.who} /\ pass'.skipped = pass.skipped
  <2>1. /\ Tried \in Passes /\ Tried.todo = pass.todo
        /\ Tried.stage = pass.stage /\ Tried.want = pass.want
        /\ Tried.tried = pass.tried \cup {step.who} /\ Tried.skipped = pass.skipped
    BY <1>0, <1>3, TriedIs
  <2> QED BY <1>1, <1>2, <2>1 DEF Passes
<1>6. step' = step /\ (MintStep' <=> MintStep)
  BY <1>5 DEF step, MintStep
<1>7. \A p : Of(p)' = Of(p)
  BY <1>2, <1>4 DEF Of, Owned
<1>8. \A q \in Panes : ~panes[q].marked /\ (Told(q) => Owned(q))
  BY <1>0, <1>1, NoneMarked
<1>9. Typed'
  BY <1>0, <1>1, <1>4, <1>5 DEF Typed
<1>10. Tagged' /\ OnePane'
  BY <1>4, <1>8 DEF IInv, Tagged, OnePane, Told
<1>11. Resting' /\ RailsStand'
  BY <1>1, <1>5 DEF IInv, Resting, RailsStand
<1>12. AsPlanned'
  <2>1. \A p \in People : loop.panes[p] \in Panes' =>
            loop.panes[p] \in Panes /\ panes'[loop.panes[p]].hash = panes[loop.panes[p]].hash
    BY <1>2, <1>4
  <2> QED BY <1>0, <1>1, <1>5, <2>1, PlanStands
<1>13. AtWork'
  <2>1. \A q \in Panes' \ {NewPane} : panes'[q].who = step.who => ~Told(q)'
    <3>1. \A q \in Panes : Told(q) /\ panes[q].who = step.who => q \in Of(step.who)
      BY <1>8 DEF Of
    <3>2. ASSUME NEW q \in Panes', q # NewPane PROVE q \in Panes /\ panes'[q] = panes[q] /\ (Told(q)' <=> Told(q))
      BY <1>4, <3>2 DEF Told
    <3> QED BY <1>1, <3>1, <3>2
  <2> QED BY <1>1, <1>2, <1>4, <1>5, <1>6, <2>1 DEF AtWork
<1>14. Remembers'
  BY <1>1, <1>2, <1>4, <1>7 DEF IInv, Remembers
<1>15. Booted'
  <2>1. attempted_boots' \subseteq attempted_boots \cup {step.who}
    BY <1>5 DEF attempted_boots
  <2>2. \A p \in attempted_boots : Of(p)' # {} \/ p \in died
    BY <1>1, <1>7 DEF IInv, Booted
  <2>3. loop.pending = {} /\ pass.tried \subseteq DOMAIN pass.want
    BY <1>1 DEF IInv, Booted
  <2> QED BY <1>1, <1>2, <1>3, <1>5, <1>6, <2>1, <2>2, <2>3 DEF Booted
<1> QED BY <1>9, <1>10, <1>11, <1>12, <1>13, <1>14, <1>15 DEF IInv

(***************************************************************************)
(* Steps on one pane.                                                       *)
(***************************************************************************)
\* Only one pane is written to, and it stays its person's.
Writes(c) ==
    /\ c \in Panes /\ Panes' = Panes /\ PanesOK'
    /\ \A q \in Panes : q # c => panes'[q] = panes[q]
    /\ panes'[c].who = panes[c].who

LEMMA Written ==
    ASSUME NEW c, Writes(c)
    PROVE /\ \A q \in Panes : q # c => (Told(q)' <=> Told(q)) /\ (Owned(q)' <=> Owned(q))
          /\ (Owned(c)' <=> Owned(c)) => \A p : Of(p)' = Of(p)
          /\ \A p : p # panes[c].who => Of(p)' = Of(p)
          /\ \A p : Of(p)' \subseteq Of(p) \cup {c}
<1>1. \A q \in Panes : q # c => (Told(q)' <=> Told(q)) /\ (Owned(q)' <=> Owned(q))
  BY DEF Writes, Told, Owned
<1>2. \A q \in Panes : panes'[q].who = panes[q].who
  BY DEF Writes
<1>3. \A p : Of(p)' = {q \in Panes : Owned(q)' /\ panes[q].who = p}
  BY <1>2 DEF Of, Writes
<1> QED BY <1>1, <1>3 DEF Of, Writes

\* The tag after this one.
LEMMA NextTag ==
    ASSUME NEW t \in Range(Tags), t # "all"
    PROVE LET next == Tags[1 + CHOOSE i \in DOMAIN Tags : Tags[i] = t]
          IN  next \in Range(Tags) /\ next # "none" /\ next \in {"part", "person", "all"}
<1>1. DOMAIN Tags = 1..4 /\ Tags[1] = "none" /\ Tags[2] = "part" /\ Tags[3] = "person" /\ Tags[4] = "all"
  BY DEF Tags
<1>2. \E i \in DOMAIN Tags : Tags[i] = t
  BY DEF Range
<1> DEFINE i == CHOOSE j \in DOMAIN Tags : Tags[j] = t
<1>3. i \in 1..4 /\ Tags[i] = t
  BY <1>1, <1>2
<1> HIDE DEF i
<1>4. i \in {1, 2, 3}
  BY <1>1, <1>3
<1>5. 1 + i \in 2..4 /\ Tags[1 + i] \in {"part", "person", "all"}
  BY <1>1, <1>4
<1> QED BY <1>1, <1>5 DEF i, Range

\* What the pane of a mint under way is.
LEMMA MintFacts ==
    ASSUME IInv, Minting
    PROVE /\ pass.stage = "steps" /\ pass.todo # <<>> /\ MintStep /\ pass.cur \in Panes
          /\ pass.cur # NoPane /\ pass.cur \in PaneIds
          /\ panes[pass.cur].who = step.who
          /\ \A p \in People : loop.panes[p] # pass.cur
          /\ \A q \in Panes : q # pass.cur => ~panes[q].marked
          /\ \A q \in Panes \ {pass.cur} : panes[q].who = step.who => ~Told(q)
          /\ step.who \in People /\ loop.panes[step.who] = NoPane
          /\ Tail(pass.todo) \in Seq(Steps)
<1>1. pass.stage = "steps" /\ MintStep /\ pass.cur \in Panes
  BY DEF Minting, MintStep
<1>2. pass.cur \in PaneIds /\ pass.cur # NoPane
  BY <1>1, OrderFacts DEF IInv, Typed, PanesOK
<1>3. /\ pass.todo # <<>> /\ panes[pass.cur].who = step.who
      /\ \A p \in People : loop.panes[p] # pass.cur
      /\ \A q \in Panes \ {pass.cur} : panes[q].who = step.who => ~Told(q)
  BY <1>1, <1>2 DEF IInv, AtWork
<1>4. \A q \in Panes : q # pass.cur => ~panes[q].marked
  BY <1>1 DEF IInv, Tagged
<1>5. step.who \in People /\ loop.panes[step.who] = NoPane
  BY <1>1, <1>3, BootFacts DEF MintStep, Boots
<1>6. Tail(pass.todo) \in Seq(Steps)
  BY <1>3, StepAtHand DEF IInv
<1> QED BY <1>1, <1>2, <1>3, <1>4, <1>5, <1>6

\* A mint goes on: a marker or a tag is written.
LEMMA MintKeeps ==
    ASSUME IInv, mark_minting \/ tag_pane
    PROVE IInv'
<1> DEFINE c == pass.cur
<1>0. Typed /\ PanesOK /\ AsPlanned /\ panes[c] \in Pane
  BY MintFacts DEF IInv, Typed, PanesOK, mark_minting, tag_pane
<1>1. /\ pass.stage = "steps" /\ pass.todo # <<>> /\ MintStep /\ c \in Panes
      /\ c # NoPane /\ panes[c].who = step.who
      /\ \A p \in People : loop.panes[p] # c
      /\ \A q \in Panes : q # c => ~panes[q].marked
      /\ \A q \in Panes \ {c} : panes[q].who = step.who => ~Told(q)
      /\ step.who \in People /\ loop.panes[step.who] = NoPane
  BY MintFacts DEF mark_minting, tag_pane
<1>2. /\ UNCHANGED <<desired, refused, rails, pass, loop, died, spent>>
      /\ windows' \in {windows, windows \cup {step.who}}
      /\ panes'[c].tags # "none" => step.who \in windows'
      /\ Panes' = Panes /\ \A q \in Panes : q # c => panes'[q] = panes[q]
      /\ panes'[c] \in Pane /\ panes'[c].who = panes[c].who
      /\ panes'[c].tags # "none" => panes'[c].managed
      /\ panes'[c].marked
  <2>1. CASE mark_minting
    <3>1. /\ UNCHANGED <<desired, refused, windows, rails, pass, loop, died, spent>>
          /\ panes[c].tags = "none" /\ panes' = [panes EXCEPT ![c].marked = TRUE]
      BY <2>1 DEF mark_minting
    <3> QED BY <1>0, <1>1, <3>1 DEF Panes, Pane
  <2>2. CASE tag_pane
    <3> DEFINE next == Tags[1 + CHOOSE i \in DOMAIN Tags : Tags[i] = panes[c].tags]
               hash == IF next = "all" THEN panes[c].runs ELSE NoHash
    <3>1. /\ UNCHANGED <<desired, refused, rails, pass, loop, died, spent>>
          /\ windows' = windows \cup {step.who} /\ panes[c].marked /\ panes[c].tags # "all"
          /\ panes' = [panes EXCEPT ![c].tags = next, ![c].managed = TRUE, ![c].hash = hash]
      BY <2>2 DEF tag_pane
    <3>2. next \in Range(Tags) /\ panes[c].tags \in Range(Tags)
      BY <1>0, <3>1, NextTag DEF Pane
    <3>3. hash \in Hashes \cup {NoHash}
      BY <1>0 DEF Pane
    <3> HIDE DEF next, hash
    <3>4. /\ Panes' = Panes /\ \A q \in Panes : q # c => panes'[q] = panes[q]
          /\ panes'[c] = [panes[c] EXCEPT !.tags = next, !.managed = TRUE, !.hash = hash]
      BY <1>1, <3>1 DEF Panes
    <3>5. /\ panes'[c] \in Pane /\ panes'[c].who = panes[c].who
          /\ panes'[c].managed /\ panes'[c].marked = panes[c].marked
      BY <1>0, <3>2, <3>3, <3>4 DEF Pane
    <3> QED BY <3>1, <3>4, <3>5
  <2> QED BY <2>1, <2>2
<1>3. Writes(c)
  BY <1>0, <1>1, <1>2 DEF Writes, PanesOK
<1>4. /\ \A q \in Panes : q # c => (Told(q)' <=> Told(q))
      /\ \A p : p # step.who => Of(p)' = Of(p)
  BY <1>1, <1>3, Written
<1>5. step' = step /\ (MintStep' <=> MintStep) /\ attempted_boots' = attempted_boots
  BY <1>2 DEF step, MintStep, attempted_boots
<1>6. Typed'
  BY <1>0, <1>1, <1>2, <1>3 DEF Typed, Writes
<1>7. Tagged'
  BY <1>1, <1>2, <1>5 DEF IInv, Tagged
<1>8. OnePane'
  BY <1>1, <1>2, <1>4 DEF IInv, OnePane
<1>9. Resting' /\ RailsStand'
  BY <1>1, <1>2 DEF IInv, Resting, RailsStand
<1>10. AsPlanned'
  <2>1. \A p \in People : loop.panes[p] \in Panes' =>
            loop.panes[p] \in Panes /\ panes'[loop.panes[p]].hash = panes[loop.panes[p]].hash
    BY <1>1, <1>2
  <2> QED BY <1>0, <1>2, <2>1, PlanStands
<1>11. AtWork'
  BY <1>1, <1>2, <1>4, <1>5 DEF AtWork
<1>12. Remembers'
  <2>1. \A p \in People : loop.panes[p] # NoPane => p # step.who
    BY <1>1
  <2> QED BY <1>2, <1>4, <2>1 DEF IInv, Remembers
<1>13. Booted'
  <2>1. \A p \in attempted_boots : Of(p)' # {} \/ p \in died \/ step.who = p
    BY <1>4 DEF IInv, Booted
  <2>2. loop.pending = {} /\ pass.tried \subseteq DOMAIN pass.want
    BY <1>1 DEF IInv, Booted
  <2> QED BY <1>1, <1>2, <1>5, <2>1, <2>2 DEF Booted
<1> QED BY <1>6, <1>7, <1>8, <1>9, <1>10, <1>11, <1>12, <1>13 DEF IInv

LEMMA UnmarkedIs ==
    ASSUME NEW r \in Pane
    PROVE LET u == [r EXCEPT !.marked = FALSE]
          IN  u \in Pane /\ u.who = r.who /\ u.tags = r.tags /\ ~u.marked /\ (u.managed <=> r.managed)
BY DEF Pane

\* A mint is done: its marker goes.
LEMMA ClearKeeps ==
    ASSUME IInv, clear_minting
    PROVE IInv'
<1>c. PICK c : c = pass.cur
  OBVIOUS
<1>0. Typed /\ PanesOK /\ AsPlanned /\ pass \in Passes /\ panes[c] \in Pane
  BY <1>c, MintFacts DEF IInv, Typed, PanesOK, clear_minting
<1>1. /\ pass.stage = "steps" /\ pass.todo # <<>> /\ MintStep /\ c \in Panes
      /\ c # NoPane /\ c \in PaneIds /\ panes[c].who = step.who
      /\ \A p \in People : loop.panes[p] # c
      /\ \A q \in Panes : q # c => ~panes[q].marked
      /\ step.who \in People /\ Tail(pass.todo) \in Seq(Steps)
  BY <1>c, MintFacts DEF clear_minting
<1>2. /\ panes[c].tags = "all" /\ panes' = [panes EXCEPT ![c].marked = FALSE]
      /\ rails' = rails \cup {step.who} /\ pass' = Done([pass EXCEPT !.made = @ \cup {c}])
      /\ UNCHANGED <<desired, refused, windows, loop, died, spent>>
  BY <1>c DEF clear_minting
<1>3. /\ Panes' = Panes /\ \A q \in Panes : q # c => panes'[q] = panes[q]
      /\ panes'[c] = [panes[c] EXCEPT !.marked = FALSE]
  BY <1>1, <1>2 DEF Panes
<1>4. /\ panes'[c] \in Pane /\ panes'[c].who = panes[c].who /\ panes'[c].tags = "all"
      /\ ~panes'[c].marked /\ (panes'[c].managed <=> panes[c].managed)
  <2> DEFINE u == [panes[c] EXCEPT !.marked = FALSE]
  <2>1. u \in Pane /\ u.who = panes[c].who /\ u.tags = panes[c].tags /\ ~u.marked /\ (u.managed <=> panes[c].managed)
    BY <1>0, UnmarkedIs
  <2>2. panes'[c] = u
    BY <1>3
  <2> HIDE DEF u
  <2> QED BY <1>2, <2>1, <2>2
<1>5. ~panes'[c].marked /\ panes[c].managed /\ panes'[c].managed /\ Told(c) /\ Told(c)' /\ step.who \in windows
  <2>1. panes[c].managed
    BY <1>1, <1>2 DEF IInv, Tagged
  <2>2. step.who \in windows
    BY <1>c, <1>1, <1>2 DEF IInv, AtWork
  <2>3. Told(c) /\ Told(c)'
    BY <1>2, <1>4 DEF Told
  <2>4. panes'[c].managed /\ ~panes'[c].marked
    BY <1>4, <2>1
  <2> QED BY <2>1, <2>2, <2>3, <2>4
<1>6. Writes(c)
  BY <1>0, <1>1, <1>3, <1>4 DEF Writes, PanesOK
<1>7. Owned(c) /\ Owned(c)'
  BY <1>2, <1>4, <1>5 DEF Owned
<1>8. /\ \A q \in Panes : Told(q)' <=> Told(q)
      /\ \A p : Of(p)' = Of(p)
  BY <1>5, <1>6, <1>7, Written
<1>9. /\ pass' \in Passes /\ pass'.todo = Tail(pass.todo) /\ pass'.cur = NoPane
      /\ pass'.stage = "steps" /\ pass'.want = pass.want
      /\ pass'.tried = pass.tried /\ pass'.skipped = pass.skipped
  <2> DEFINE t == [pass EXCEPT !.made = @ \cup {c}]
  <2>1. t \in Passes /\ t.todo = pass.todo /\ t.stage = pass.stage /\ t.want = pass.want
        /\ t.tried = pass.tried /\ t.skipped = pass.skipped
    BY <1>0, <1>1 DEF Passes
  <2>2. pass' = Done(t)
    BY <1>2
  <2> HIDE DEF t
  <2> QED BY <1>1, <2>1, <2>2, DoneIs
<1>10. Typed'
  BY <1>0, <1>1, <1>2, <1>6, <1>9 DEF Typed, Writes
<1>11. Tagged'
  <2>1. ASSUME NEW q \in Panes', q # c
        PROVE /\ panes'[q].tags # "none" => panes'[q].managed
              /\ panes'[q].tags \in {"part", "person"} => panes'[q].marked
              /\ ~panes'[q].marked
    BY <1>1, <1>3, <2>1 DEF IInv, Tagged
  <2> QED BY <1>4, <1>5, <2>1 DEF Tagged
<1>12. OnePane'
  <2>1. \A q \in Panes : panes'[q].who = panes[q].who
    BY <1>3, <1>4
  <2> QED BY <1>3, <1>8, <2>1 DEF IInv, OnePane
<1>13. Resting' /\ RailsStand' /\ AtWork'
  BY <1>2, <1>5, <1>9 DEF IInv, Resting, RailsStand, AtWork
<1>14. AsPlanned'
  <2>1. \A p \in People : loop.panes[p] \in Panes' =>
            loop.panes[p] \in Panes /\ panes'[loop.panes[p]].hash = panes[loop.panes[p]].hash
    BY <1>1, <1>3
  <2> QED BY <1>0, <1>1, <1>2, <1>9, <2>1, PlanStands
<1>15. Remembers'
  BY <1>2, <1>3, <1>8 DEF IInv, Remembers
<1>16. Booted'
  <2>1. c \in Of(step.who)
    BY <1>1, <1>7 DEF Of
  <2>2. attempted_boots' = attempted_boots
    BY <1>9 DEF attempted_boots
  <2>3. \A p \in attempted_boots : Of(p)' # {} \/ p \in died
    BY <1>8, <2>1 DEF IInv, Booted
  <2>4. loop.pending = {} /\ pass.tried \subseteq DOMAIN pass.want
    BY <1>1 DEF IInv, Booted
  <2> QED BY <1>2, <1>9, <2>2, <2>3, <2>4 DEF Booted
<1> QED BY <1>10, <1>11, <1>12, <1>13, <1>14, <1>15, <1>16 DEF IInv

\* What respawn-pane and its tag do to a pane.
LEMMA RespawnedIs ==
    ASSUME NEW r \in Pane, NEW h \in Hashes
    PROVE /\ LET u == [r EXCEPT !.runs = h]
             IN  /\ u \in Pane /\ u.who = r.who /\ u.tags = r.tags /\ u.hash = r.hash
                 /\ (u.marked <=> r.marked) /\ (u.managed <=> r.managed)
          /\ LET u == [r EXCEPT !.hash = h]
             IN  /\ u \in Pane /\ u.who = r.who /\ u.tags = r.tags /\ u.runs = r.runs
                 /\ (u.marked <=> r.marked) /\ (u.managed <=> r.managed)
BY DEF Pane

\* A pane about to be respawned is its person's, and the one remembered.
LEMMA RespawnFacts ==
    ASSUME IInv, pass.todo # <<>>, step.do = "respawn"
    PROVE /\ step.who \in People /\ step.who \in DOMAIN pass.want /\ pass.want[step.who] \in Hashes
          /\ step.pane = loop.panes[step.who] /\ step.pane # NoPane /\ step.pane \in PaneIds
          /\ step.pane \in Panes => step.pane \in Of(step.who) /\ panes[step.pane].who = step.who
          /\ ~MintStep /\ Tail(pass.todo) \in Seq(Steps)
<1>1. /\ step \in Planned(pass.want, loop.panes) /\ step.who \in People /\ pass.want \in Wishes
      /\ step.pane \in PaneIds \cup {NoPane} /\ Tail(pass.todo) \in Seq(Steps)
  BY StepAtHand DEF IInv, Typed, Passes
<1>2. step.who \in DOMAIN pass.want /\ step.pane = loop.panes[step.who] /\ step.pane # NoPane
  BY <1>1 DEF Planned
<1>3. pass.want[step.who] \in Hashes
  BY <1>1, <1>2, WishChanges
<1>4. step.pane \in Panes => step.pane \in Of(step.who)
  BY <1>1, <1>2 DEF IInv, Remembers
<1> QED BY <1>1, <1>2, <1>3, <1>4 DEF Of, MintStep

\* Whatever a respawn writes, it tells of the pane what was told before.
Rewrites(c) ==
    /\ Writes(c)
    /\ (Told(c)' <=> Told(c)) /\ (Owned(c)' <=> Owned(c))
    /\ panes'[c].tags = panes[c].tags /\ (panes'[c].marked <=> panes[c].marked)
    /\ (panes'[c].managed <=> panes[c].managed)

LEMMA Rewritten ==
    ASSUME PanesOK, NEW c \in Panes, NEW h \in Hashes,
           panes' = [panes EXCEPT ![c].runs = h] \/ panes' = [panes EXCEPT ![c].hash = h]
    PROVE /\ Rewrites(c)
          /\ \A q \in Panes : Told(q)' <=> Told(q)
          /\ \A p : Of(p)' = Of(p)
          /\ \A q \in Panes : panes'[q].who = panes[q].who /\ (panes'[q].marked <=> panes[q].marked)
          /\ panes' = [panes EXCEPT ![c].runs = h] => panes'[c].hash = panes[c].hash
<1> DEFINE run == [panes[c] EXCEPT !.runs = h]
           tag == [panes[c] EXCEPT !.hash = h]
<1>0. panes[c] \in Pane
  BY DEF PanesOK
<1>1. /\ run \in Pane /\ run.who = panes[c].who /\ run.tags = panes[c].tags /\ run.hash = panes[c].hash
      /\ (run.marked <=> panes[c].marked) /\ (run.managed <=> panes[c].managed)
  BY <1>0, RespawnedIs
<1>2. /\ tag \in Pane /\ tag.who = panes[c].who /\ tag.tags = panes[c].tags
      /\ (tag.marked <=> panes[c].marked) /\ (tag.managed <=> panes[c].managed)
  BY <1>0, RespawnedIs
<1>3. /\ Panes' = Panes /\ \A q \in Panes : q # c => panes'[q] = panes[q]
      /\ panes'[c] \in {run, tag} /\ (panes' = [panes EXCEPT ![c].runs = h] => panes'[c] = run)
  BY DEF Panes
<1> HIDE DEF run, tag
<1>4. /\ panes'[c] \in Pane /\ panes'[c].who = panes[c].who /\ panes'[c].tags = panes[c].tags
      /\ (panes'[c].marked <=> panes[c].marked) /\ (panes'[c].managed <=> panes[c].managed)
  BY <1>1, <1>2, <1>3
<1>5. Writes(c)
  BY <1>3, <1>4 DEF Writes, PanesOK
<1>6. (Told(c)' <=> Told(c)) /\ (Owned(c)' <=> Owned(c))
  BY <1>4 DEF Told, Owned
<1>7. /\ \A q \in Panes : Told(q)' <=> Told(q)
      /\ \A p : Of(p)' = Of(p)
  BY <1>5, <1>6, Written
<1> QED BY <1>1, <1>3, <1>4, <1>5, <1>6, <1>7 DEF Rewrites

LEMMA RespawnKeeps ==
    ASSUME IInv, respawn
    PROVE IInv'
<1>c. PICK c : c = step.pane
  OBVIOUS
<1>0. Typed /\ PanesOK /\ AsPlanned /\ pass \in Passes /\ Tagged
  BY DEF IInv, Typed
<1>1. /\ pass.stage = "steps" /\ pass.todo # <<>> /\ pass.cur = NoPane /\ step.do = "respawn"
      /\ c \in Panes /\ panes' = [panes EXCEPT ![c].runs = pass.want[step.who]]
      /\ pass' = [Tried EXCEPT !.cur = c]
      /\ UNCHANGED <<desired, refused, windows, rails, loop, died, spent>>
  BY <1>c DEF respawn, Doing
<1>2. /\ step.who \in People /\ step.who \in DOMAIN pass.want /\ pass.want[step.who] \in Hashes
      /\ c # NoPane /\ c \in PaneIds /\ c \in Of(step.who) /\ ~MintStep
  BY <1>c, <1>1, RespawnFacts
<1>3. /\ Writes(c) /\ \A q \in Panes : Told(q)' <=> Told(q)
      /\ \A p : Of(p)' = Of(p)
      /\ \A q \in Panes : panes'[q].who = panes[q].who /\ (panes'[q].marked <=> panes[q].marked)
      /\ panes'[c].hash = panes[c].hash /\ panes'[c].tags = panes[c].tags
      /\ (panes'[c].managed <=> panes[c].managed)
  BY <1>0, <1>1, <1>2, Rewritten DEF Rewrites
<1>4. Panes' = Panes /\ PanesOK' /\ \A q \in Panes : q # c => panes'[q] = panes[q]
  BY <1>3 DEF Writes
<1>5. /\ pass' \in Passes /\ pass'.todo = pass.todo /\ pass'.cur = c
      /\ pass'.stage = "steps" /\ pass'.want = pass.want
      /\ pass'.tried = pass.tried \cup {step.who} /\ pass'.skipped = pass.skipped
  <2>1. /\ Tried \in Passes /\ Tried.todo = pass.todo
        /\ Tried.stage = pass.stage /\ Tried.want = pass.want
        /\ Tried.tried = pass.tried \cup {step.who} /\ Tried.skipped = pass.skipped
    BY <1>0, <1>2, TriedIs
  <2> QED BY <1>1, <1>2, <2>1 DEF Passes
<1>6. step' = step /\ (MintStep' <=> MintStep)
  BY <1>5 DEF step, MintStep
<1>7. \A q \in Panes : ~panes[q].marked
  BY <1>0, <1>1, NoneMarked
<1>8. Typed'
  BY <1>0, <1>1, <1>4, <1>5 DEF Typed
<1>9. Tagged'
  BY <1>3, <1>4, <1>7 DEF IInv, Tagged
<1>10. OnePane'
  BY <1>3, <1>4 DEF IInv, OnePane
<1>11. Resting' /\ RailsStand'
  BY <1>1, <1>5 DEF IInv, Resting, RailsStand
<1>12. AsPlanned'
  <2>1. \A p \in People : loop.panes[p] \in Panes' =>
            loop.panes[p] \in Panes /\ panes'[loop.panes[p]].hash = panes[loop.panes[p]].hash
    BY <1>3, <1>4
  <2> QED BY <1>0, <1>1, <1>5, <2>1, PlanStands
<1>13. AtWork'
  BY <1>c, <1>1, <1>2, <1>5, <1>6 DEF AtWork
<1>14. Remembers'
  BY <1>1, <1>3, <1>4 DEF IInv, Remembers
<1>15. Booted'
  <2>1. attempted_boots' \subseteq attempted_boots \cup {step.who}
    BY <1>5 DEF attempted_boots
  <2>2. \A p \in attempted_boots \cup {step.who} : Of(p)' # {} \/ p \in died
    BY <1>1, <1>2, <1>3 DEF IInv, Booted
  <2>3. loop.pending = {} /\ pass.tried \subseteq DOMAIN pass.want
    BY <1>1 DEF IInv, Booted
  <2> QED BY <1>1, <1>2, <1>5, <2>1, <2>2, <2>3 DEF Booted
<1> QED BY <1>8, <1>9, <1>10, <1>11, <1>12, <1>13, <1>14, <1>15 DEF IInv

LEMMA RespawnTagKeeps ==
    ASSUME IInv, respawn_tag
    PROVE IInv'
<1>c. PICK c : c = pass.cur
  OBVIOUS
<1>0. Typed /\ PanesOK /\ AsPlanned /\ pass \in Passes /\ Tagged
  BY DEF IInv, Typed
<1>1. /\ pass.stage = "steps" /\ step.do = "respawn" /\ c \in Panes
      /\ panes' = [panes EXCEPT ![c].hash = pass.want[step.who]] /\ pass' = Done(pass)
      /\ UNCHANGED <<desired, refused, windows, rails, loop, died, spent>>
  BY <1>c DEF respawn_tag
<1>2. pass.todo # <<>> /\ c = step.pane
  <2>1. c # NoPane
    BY <1>0, <1>1, OrderFacts DEF PanesOK
  <2> QED BY <1>c, <1>1, <2>1 DEF IInv, AtWork, MintStep
<1>3. /\ step.who \in People /\ pass.want[step.who] \in Hashes
      /\ c \in Of(step.who) /\ panes[c].who = step.who /\ ~MintStep /\ Tail(pass.todo) \in Seq(Steps)
  BY <1>1, <1>2, RespawnFacts
<1>4. /\ Writes(c) /\ \A q \in Panes : Told(q)' <=> Told(q)
      /\ \A p : Of(p)' = Of(p)
      /\ \A q \in Panes : panes'[q].who = panes[q].who /\ (panes'[q].marked <=> panes[q].marked)
      /\ panes'[c].tags = panes[c].tags /\ (panes'[c].managed <=> panes[c].managed)
  BY <1>0, <1>1, <1>3, Rewritten DEF Rewrites
<1>5. Panes' = Panes /\ PanesOK' /\ \A q \in Panes : q # c => panes'[q] = panes[q]
  BY <1>4 DEF Writes
<1>6. /\ pass' \in Passes /\ pass'.todo = Tail(pass.todo) /\ pass'.cur = NoPane
      /\ pass'.stage = "steps" /\ pass'.want = pass.want
      /\ pass'.tried = pass.tried /\ pass'.skipped = pass.skipped
  BY <1>0, <1>1, <1>3, DoneIs
<1>7. \A q \in Panes : ~panes[q].marked
  BY <1>0, <1>1, <1>3 DEF Tagged
<1>8. Typed'
  BY <1>0, <1>1, <1>5, <1>6 DEF Typed
<1>9. Tagged'
  BY <1>4, <1>5, <1>7 DEF IInv, Tagged
<1>10. OnePane'
  BY <1>4, <1>5 DEF IInv, OnePane
<1>11. Resting' /\ RailsStand' /\ AtWork'
  BY <1>1, <1>6 DEF IInv, Resting, RailsStand, AtWork
<1>12. AsPlanned'
  <2> DEFINE P == Planned(pass.want, loop.panes)
             todo == pass.todo
  <2>1. /\ step = todo[1] /\ Len(todo) \in Nat /\ 1 \in 1..Len(todo) /\ Tail(todo) \in Seq(P)
        /\ Len(Tail(todo)) = Len(todo) - 1
        /\ \A i \in 1..Len(Tail(todo)) : i + 1 \in 1..Len(todo) /\ Tail(todo)[i] = todo[i + 1]
    BY <1>0, <1>2, StepAtHand
  <2>2. RespawnsOnce(Tail(todo))
    BY <1>0, <2>1 DEF AsPlanned, RespawnsOnce
  <2>3. ASSUME NEW i \in 1..Len(Tail(todo)), Tail(todo)[i].do = "respawn", Tail(todo)[i].pane \in Panes
        PROVE panes'[Tail(todo)[i].pane].hash # pass.want[Tail(todo)[i].who]
    <3> DEFINE s == Tail(todo)[i]
    <3>1. s \in P /\ i \in Nat /\ i + 1 \in 1..Len(todo) /\ s = todo[i + 1] /\ i + 1 # 1
      <4> HIDE DEF P, todo
      <4>1. s \in P
        BY <2>1, ElementOfSeq
      <4> QED BY <2>1, <4>1
    <3>2. s.who \in People /\ s.pane = loop.panes[s.who] /\ s.pane # NoPane
      BY <2>3, <3>1 DEF Planned, Steps
    <3>3. s.pane \in Of(s.who)
      BY <2>3, <3>2 DEF IInv, Remembers
    <3>4. s.who # step.who
      <4>1. \A j, k \in 1..Len(todo) :
                todo[j].do = "respawn" /\ todo[k].do = "respawn" /\ todo[j].who = todo[k].who => j = k
        BY <1>0 DEF AsPlanned, RespawnsOnce
      <4>2. todo[i + 1].do = "respawn" /\ todo[1].do = "respawn" /\ s = todo[i + 1] /\ step = todo[1]
        BY <1>1, <2>1, <2>3, <3>1
      <4> HIDE DEF s, todo
      <4> QED BY <2>1, <3>1, <4>1, <4>2
    <3>5. s.pane # c
      BY <1>3, <3>3, <3>4 DEF Of
    <3>6. panes[s.pane].hash # pass.want[s.who]
      BY <1>0, <2>3, <3>1 DEF AsPlanned
    <3> QED BY <1>5, <2>3, <3>5, <3>6
  <2>4. P = Planned(pass.want, loop.panes)'
    BY <1>1, <1>6 DEF Planned
  <2> HIDE DEF P
  <2>5. pass'.todo \in Seq(Planned(pass.want, loop.panes)')
    BY <1>6, <2>1, <2>4
  <2> QED BY <1>5, <1>6, <2>2, <2>3, <2>5 DEF AsPlanned, RespawnsOnce
<1>13. Remembers'
  BY <1>1, <1>4, <1>5 DEF IInv, Remembers
<1>14. Booted'
  <2>1. attempted_boots' = attempted_boots
    BY <1>6 DEF attempted_boots
  <2>2. \A p \in attempted_boots : Of(p)' # {} \/ p \in died
    BY <1>3, <1>4 DEF IInv, Booted
  <2>3. loop.pending = {} /\ pass.tried \subseteq DOMAIN pass.want
    BY <1>1 DEF IInv, Booted
  <2> QED BY <1>1, <1>6, <2>1, <2>2, <2>3 DEF Booted
<1> QED BY <1>8, <1>9, <1>10, <1>11, <1>12, <1>13, <1>14 DEF IInv

(***************************************************************************)
(* The invariant.                                                           *)
(***************************************************************************)
LEMMA InitInv ==
    ASSUME Init
    PROVE IInv
<1>1. Panes = {}
  BY DEF Init, Panes
<1>2. /\ pass \in Passes /\ pass.stage = "idle" /\ pass.todo = <<>> /\ pass.cur = NoPane
      /\ pass.made = {} /\ pass.tried = {} /\ pass.skipped = {} /\ DOMAIN pass.want = {}
  BY IdlePass DEF Init
<1>3. loop \in Loops /\ loop.pending = {} /\ \A p \in People : loop.panes[p] = NoPane
  BY DEF Init, NewLoop, Loops
<1>4. Typed
  BY <1>1, <1>2, <1>3 DEF Init, Typed, PanesOK
<1>5. Tagged /\ OnePane /\ Resting /\ AtWork /\ RailsStand /\ Remembers
  BY <1>1, <1>2, <1>3 DEF Init, Tagged, OnePane, Resting, AtWork, RailsStand, Remembers
<1>6. AsPlanned
  <2>1. pass.todo \in Seq(Planned(pass.want, loop.panes)) /\ Len(pass.todo) = 0
    BY <1>2, EmptySeq
  <2> QED BY <2>1 DEF AsPlanned, RespawnsOnce
<1>7. Booted
  <2>1. attempted_boots = {}
    BY <1>2 DEF attempted_boots
  <2> QED BY <1>2, <1>3, <2>1 DEF Booted
<1> QED BY <1>4, <1>5, <1>6, <1>7 DEF IInv

LEMMA NextInv ==
    ASSUME IInv, [Next]_vars
    PROVE IInv'
<1>1. CASE Skip \/ apply_layout \/ defer_if_operator_watching \/ kill_window \/ stop_session
  BY <1>1, PassOvers, PassesOverKeeps
<1>2. CASE retry_due \/ Change \/ UNCHANGED vars
  BY <1>2, Asides, AsideKeeps DEF IInv
<1>3. CASE Fail \/ Fault \/ Finish \/ Crash
  BY <1>3, Endings, EndsKeeps
<1>4. CASE Exit \/ Observe \/ Plan
  BY <1>4, ExitKeeps, ObserveKeeps, PlanKeeps
<1>5. CASE create_session \/ Spawn \/ mark_minting \/ tag_pane \/ clear_minting
  BY <1>5, CreateKeeps, SpawnKeeps, MintKeeps, ClearKeeps
<1>6. CASE respawn \/ respawn_tag
  BY <1>6, RespawnKeeps, RespawnTagKeeps
<1> QED BY <1>1, <1>2, <1>3, <1>4, <1>5, <1>6 DEF Next, Converge

\* The inductive invariant holds in every state.
THEOREM Invariance == Spec => []IInv
<1>1. Init => IInv
  BY InitInv
<1>2. IInv /\ [Next]_vars => IInv'
  BY NextInv
<1> QED BY <1>1, <1>2, PTL DEF Spec

(***************************************************************************)
(* The theorems.                                                            *)
(***************************************************************************)
\* The state is well formed: the wish, the panes and their tags, the plan's
\* steps and the crash loop's memory (resident.rs, crash_loop.rs).
THEOREM TypeCorrect == Spec => []TypeOK
<1>1. IInv => TypeOK
  <2>1. SUFFICES ASSUME IInv PROVE TypeOK
    OBVIOUS
  <2>2. pass \in Passes /\ loop \in Loops /\ PanesOK
    BY <2>1 DEF IInv, Typed
  <2>3. Range(pass.todo) \subseteq Steps
    BY <2>2, RangeOfSeq DEF Passes
  <2>4. pass.want \in Wishes
    BY <2>2 DEF Passes
  <2> QED BY <2>1, <2>2, <2>3, <2>4 DEF IInv, Typed, TypeOK, PanesOK, Loops
<1> QED BY <1>1, Invariance, PTL

\* However passes fail and actuators die, nobody has two processes that a tag
\* or a marker tells of (interpret.rs:3895).
THEOREM OneProcess == Spec => []OneProcessEach
<1>1. IInv => OneProcessEach
  <2>1. SUFFICES ASSUME IInv, NEW p \in People
                 PROVE Cardinality({q \in Panes : panes[q].who = p /\ (panes[q].marked \/ panes[q].tags # "none")}) <= 1
    BY DEF OneProcessEach
  <2> DEFINE S == {q \in Panes : panes[q].who = p /\ (panes[q].marked \/ panes[q].tags # "none")}
  <2>2. \A q, r \in S : q = r
    BY <2>1 DEF IInv, OnePane, Told
  <2> HIDE DEF S
  <2>3. CASE S = {}
    <3>1. Cardinality(S) = 0
      BY <2>3, FS_EmptySet
    <3> QED BY <3>1 DEF S
  <2>4. CASE S # {}
    <3>1. PICK q : S = {q}
      BY <2>2, <2>4
    <3>2. Cardinality(S) = 1
      BY <3>1, FS_Singleton
    <3> QED BY <3>2 DEF S
  <2> QED BY <2>3, <2>4
<1> QED BY <1>1, Invariance, PTL

\* A step that counts somebody's boot as failed, or begins their delay.
Counts(p) == /\ loop'.counted[p] # NoHash
             /\ loop'.counted[p] # loop.counted[p] \/ (p \in loop.due /\ p \notin loop'.due)

\* Only a process that exited of itself is counted against its person's
\* launch: never a pass that stopped, a refusal, a wait, or the work of an
\* actuator before this one (crash_loop.rs:31).
THEOREM OnlyDeathsCount == Spec => FailuresAreDeaths
<1>1. ASSUME IInv, [Next]_vars, NEW p \in People, Counts(p)
      PROVE p \in died
  <2>0. loop \in Loops
    BY <1>1 DEF IInv, Typed
  <2>1. CASE Plan
    <3> DEFINE at == [x \in People |-> PaneOf(x)]
               l == observed(pass.want, at)
    <3>1. /\ pass.want \in Wishes /\ at \in [People -> PaneIds \cup {NoPane}] /\ pass.stage = "observed"
          /\ loop'.counted = l.counted /\ loop'.due = l.due /\ PanesOK
      BY <1>1, <2>1, PlanSteps DEF IInv, Typed
    <3>2. \A x \in People :
              l.counted[x] \notin {NoHash, loop.counted[x]} \/ (x \in loop.due /\ x \notin l.due)
                  => ~loop.failed /\ x \in Absent(pass.want, at) \cup Replaced(pass.want, at)
      BY <2>0, <3>1, ObservedIs
    <3>3. at[p] = PaneOf(p)
      OBVIOUS
    <3> HIDE DEF l, at
    <3>4. ~loop.failed /\ p \in Absent(pass.want, at) \cup Replaced(pass.want, at)
      BY <1>1, <3>1, <3>2 DEF Counts
    <3>5. CASE p \in Absent(pass.want, at)
      <4>1. p \in loop.pending /\ Of(p) = {}
        BY <3>1, <3>3, <3>5, PaneOfFact DEF Absent
      <4> QED BY <1>1, <3>4, <4>1 DEF IInv, Booted
    <3>6. CASE p \in Replaced(pass.want, at)
      <4>1. at[p] # NoPane /\ loop.panes[p] # NoPane /\ loop.panes[p] # at[p] /\ at[p] \in Of(p)
        BY <3>1, <3>3, <3>6, PaneOfFact DEF Replaced
      <4> QED BY <1>1, <4>1 DEF IInv, Remembers
    <3> QED BY <3>4, <3>5, <3>6
  <2>2. CASE Fail \/ Fault \/ Finish
    <3>1. loop'.counted = loop.counted /\ loop'.due = loop.due
      BY <2>0, <2>2 DEF Fail, Fault, Stop, Finish, Loops
    <3> QED BY <1>1, <3>1 DEF Counts
  <2>3. CASE retry_due
    <3>1. loop'.counted = loop.counted /\ loop.due \subseteq loop'.due
      BY <2>0, <2>3 DEF retry_due, Loops
    <3> QED BY <1>1, <3>1 DEF Counts
  <2>4. CASE Crash
    <3>1. loop'.counted[p] = NoHash
      BY <2>4 DEF Crash, NewLoop
    <3> QED BY <1>1, <3>1 DEF Counts
  <2>5. CASE UNCHANGED loop
    BY <1>1, <2>5 DEF Counts
  <2>6. \/ Plan \/ Fail \/ Fault \/ Finish \/ retry_due \/ Crash \/ UNCHANGED loop
    BY <1>1 DEF Next, Converge, vars, Observe, Skip, create_session, Spawn, mark_minting, tag_pane,
                clear_minting, respawn, respawn_tag, kill_window, stop_session, apply_layout,
                defer_if_operator_watching, Exit, Change
  <2> QED BY <2>1, <2>2, <2>3, <2>4, <2>5, <2>6
<1>2. IInv /\ [Next]_vars => [\A p \in People : Counts(p) => p \in died]_vars
  BY <1>1
<1>3. Spec => [][\A p \in People : Counts(p) => p \in died]_vars
  BY <1>2, Invariance, PTL DEF Spec
<1> QED BY <1>3 DEF FailuresAreDeaths, Counts

\* What runs for somebody who is wanted all along, at the launch wanted, is
\* there after the step, and so is their window if it has a sidebar.
Wanted(p) == p \in DOMAIN desired /\ p \in DOMAIN pass.want /\ pass.want[p] = desired[p]

LeftAlone(p) ==
    /\ \A q \in Of(p) \ (pass.made \cup {pass.cur}) :
          panes[q].hash = desired[p] => q \in Panes' /\ panes'[q].runs = panes[q].runs
    /\ p \in rails => p \in windows'

\* A step that touches no pane but one of the pass, and no window with a
\* sidebar, leaves everybody alone.
Spares == /\ \A q \in Panes \ (pass.made \cup {pass.cur}) : q \in Panes' /\ panes'[q] = panes[q]
          /\ rails \subseteq windows'

LEMMA SparesAll ==
    ASSUME Spares, NEW p
    PROVE LeftAlone(p)
BY DEF Spares, LeftAlone, Of

\* A pass takes nothing from whoever is wanted all along, at the launch
\* wanted: not their process, nor the window they are to come back to
\* (resident.rs:811).
THEOREM WantedIsKept == Spec => KeepsWanted
<1>1. ASSUME IInv, [Next]_vars, NEW p \in People, Wanted(p), p \notin died'
      PROVE LeftAlone(p)
  <2>0. Typed /\ PanesOK /\ pass \in Passes /\ rails \subseteq windows
    BY <1>1 DEF IInv, Typed, RailsStand
  <2>1. CASE PassesOver
    <3>1. Of(p) \subseteq Panes' /\ (p \in rails => p \in windows') /\ \A q \in Panes' : panes'[q] = panes[q]
      BY <1>1, <2>1 DEF PassesOver, Shrinks, Wanted
    <3> QED BY <3>1 DEF LeftAlone
  <2>2. CASE Ends
    <3>1. Spares
      BY <2>2 DEF Ends, Shrinks, Spares
    <3> QED BY <3>1, SparesAll
  <2>3. CASE UNCHANGED <<panes, windows>>
    <3>1. Spares
      BY <2>0, <2>3 DEF Spares, Panes
    <3> QED BY <3>1, SparesAll
  <2>4. CASE Exit
    <3>1. PICK q \in Panes : Without({q}) /\ died' = died \cup {panes[q].who}
      BY <2>4 DEF Exit
    <3>2. /\ Panes' = Panes \ {q} /\ rails \subseteq windows'
          /\ \A r \in Panes' : panes'[r] = panes[r]
      BY <2>0, <3>1, WithoutIs DEF Shrinks
    <3>3. q \notin Of(p)
      BY <1>1, <3>1 DEF Of
    <3> QED BY <3>2, <3>3 DEF LeftAlone, Of
  <2>5. CASE Observe
    <3>1. DOMAIN pass.want = {}
      BY <1>1, <2>5 DEF IInv, Resting, Observe
    <3> QED BY <1>1, <3>1 DEF Wanted
  <2>6. CASE create_session \/ Spawn
    <3>1. CASE create_session
      <4>1. Panes = {} /\ windows = {}
        BY <3>1 DEF create_session, Session
      <4>2. Spares
        BY <2>0, <4>1 DEF Spares
      <4> QED BY <4>2, SparesAll
    <3>2. CASE Spawn
      <4>1. /\ pass.todo # <<>> /\ step.do \in Boots /\ Room /\ UNCHANGED windows
            /\ Process(step.who, NewPane, step.do = "split", "none", NoHash)
        BY <3>2 DEF Spawn, Doing, Boots
      <4>2. step.who \in People /\ pass.want[step.who] \in Hashes /\ NewPane \in PaneIds /\ NewPane \notin Panes
        BY <1>1, <4>1, BootFacts, FreshPane DEF Fresh
      <4>3. "none" \in Range(Tags) /\ (step.do = "split") \in BOOLEAN
        BY DEF Range, Tags
      <4>4. Panes' = Panes \cup {NewPane} /\ \A r \in Panes : panes'[r] = panes[r]
        BY <2>0, <4>1, <4>2, <4>3, ProcessIs
      <4>5. Spares
        BY <2>0, <4>1, <4>4 DEF Spares
      <4> QED BY <4>5, SparesAll
    <3> QED BY <2>6, <3>1, <3>2
  <2>7. CASE mark_minting \/ tag_pane \/ clear_minting \/ respawn_tag
    <3>1. /\ Panes' = Panes /\ windows \subseteq windows'
          /\ \A q \in Panes : q # pass.cur => panes'[q] = panes[q]
      BY <2>7 DEF mark_minting, tag_pane, clear_minting, respawn_tag, Panes
    <3>2. Spares
      BY <2>0, <3>1 DEF Spares
    <3> QED BY <3>2, SparesAll
  <2>8. CASE respawn
    <3>c. PICK c : c = step.pane
      OBVIOUS
    <3>1. /\ pass.todo # <<>> /\ step.do = "respawn" /\ c \in Panes /\ UNCHANGED windows
          /\ panes' = [panes EXCEPT ![c].runs = pass.want[step.who]]
      BY <2>8, <3>c DEF respawn, Doing
    <3>2. panes[c].who = step.who
      BY <1>1, <3>c, <3>1, RespawnFacts
    <3>3. panes[c].hash # pass.want[step.who]
      <4>1. step = pass.todo[1] /\ 1 \in 1..Len(pass.todo)
        BY <1>1, <2>0, <3>1, StepAtHand DEF IInv
      <4> QED BY <1>1, <3>c, <3>1, <4>1 DEF IInv, AsPlanned
    <3>4. Panes' = Panes /\ \A q \in Panes : q # c => panes'[q] = panes[q]
      BY <3>1 DEF Panes
    <3>5. c \in Of(p) => panes[c].hash # desired[p]
      BY <1>1, <3>2, <3>3 DEF Of, Wanted
    <3> QED BY <2>0, <3>1, <3>4, <3>5 DEF LeftAlone, Of
  <2>9. \/ Skip \/ apply_layout \/ defer_if_operator_watching \/ kill_window \/ stop_session => PassesOver
    BY <1>1, PassOvers
  <2>10. Fail \/ Fault \/ Finish \/ Crash => Ends
    BY <1>1, Endings
  <2>11. Plan \/ retry_due \/ Change \/ UNCHANGED vars => UNCHANGED <<panes, windows>>
    BY DEF Plan, retry_due, Change, vars
  <2> QED BY <1>1, <2>1, <2>2, <2>3, <2>4, <2>5, <2>6, <2>7, <2>8, <2>9, <2>10, <2>11 DEF Next, Converge
<1>2. IInv /\ [Next]_vars => [\A p \in People : Wanted(p) /\ p \notin died' => LeftAlone(p)]_vars
  BY <1>1
<1>3. Spec => [][\A p \in People : Wanted(p) /\ p \notin died' => LeftAlone(p)]_vars
  BY <1>2, Invariance, PTL DEF Spec
<1> QED BY <1>3 DEF KeepsWanted, Wanted, LeftAlone
=============================================================================
