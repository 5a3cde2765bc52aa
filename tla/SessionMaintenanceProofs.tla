----------------------- MODULE SessionMaintenanceProofs -----------------------
(***************************************************************************)
(* Proofs about SessionMaintenance, for every number of attempts, every     *)
(* replay window and every bound on processes, requests, entries and calls. *)
(***************************************************************************)
EXTENDS SessionMaintenance, FiniteSetTheorems, SequenceTheorems, TLAPS

(***************************************************************************)
(* The inductive invariant                                                  *)
(***************************************************************************)

\* What is named is there: asks, the worker's request, and those compactions
\* were made for.
Named ==
    /\ \A i \in DOMAIN requests :
          requests[i].ask \in 1..i /\ requests[requests[i].ask].ask = requests[i].ask
    /\ worker.at \in {"claiming", "compacting", "deferring", "returning"} =>
          worker.req \in DOMAIN requests
    /\ \A k \in DOMAIN log : log[k] <= Len(requests)

\* An anchor is a leaf the transcript has had; a claim is anchored, and goes
\* when the request is handed back.
Anchored == \A i \in DOMAIN requests :
    /\ requests[i].anchor.leaf <= Len(log)
    /\ requests[i].status = "queued" => requests[i].claim = 0 /\ requests[i].anchor = NoAnchor
    /\ requests[i].status = "running" => requests[i].claim # 0
    /\ requests[i].claim # 0 => requests[i].anchor # NoAnchor

\* A turn followed the leaf.
Moved(a) == a.leaf + 1 \in DOMAIN log /\ log[a.leaf + 1] = 0

\* A compaction followed the leaf, and is the entry named.
Proved(q, entry) ==
    /\ q.anchor # NoAnchor /\ entry = q.anchor.leaf + 1
    /\ entry \in DOMAIN log /\ log[entry] # 0

\* What is true of a call for as long as it is on its way: only a claim that a
\* turn made stale is handed back, and a verdict names the entry that proves it.
Sound(c) ==
    /\ c.by <= proc /\ c.anchor.leaf <= Len(log)
    /\ c.verb # "recover" => c.req \in DOMAIN requests
    /\ c.verb = "start" => c.anchor # NoAnchor
    /\ c.verb = "finish" => c.outcome \in {"completed", "failed"}
    /\ c.verb = "defer" /\ owns(c, requests[c.req]) => Moved(requests[c.req].anchor)
    /\ c.verb = "finish" /\ c.entry # 0 =>
          requests[c.req].status # "queued" /\ Proved(requests[c.req], c.entry)

InFlight == {calls[k] : k \in DOMAIN calls}

Sent == \A c \in InFlight : Sound(c)

\* A living process has no claim or return under way that it does not wait for,
\* and none had both.
Awaited ==
    /\ \A c \in InFlight : c.by = proc /\ alive =>
          /\ c.verb = "start" => worker.at = "claiming" /\ worker.req = c.req
          /\ c.verb = "defer" => worker.at = "returning" /\ worker.req = c.req
    /\ \A c, d \in InFlight : c.by = d.by => ~(c.verb = "start" /\ d.verb = "defer")

Mine(r) == requests[r].claim = proc

\* The anchor of a claim under way is where the transcript stands, until a turn
\* makes it stale.
Fits(a) == IF worker.fresh THEN a.leaf = Len(log) ELSE Moved(a)

Claiming ==
    worker.at = "claiming" =>
        /\ Mine(worker.req) => Fits(requests[worker.req].anchor)
        /\ \A c \in InFlight : c.verb = "start" /\ c.by = proc => Fits(c.anchor)
        /\ worker.told => Mine(worker.req)

HandingBack ==
    worker.at \in {"deferring", "returning"} /\ Mine(worker.req) =>
        Moved(requests[worker.req].anchor)

Compacting ==
    worker.at = "compacting" => Mine(worker.req) /\ requests[worker.req].anchor = leaf

\* A compaction follows the leaf its request is anchored at.
Followed == \A k \in DOMAIN log : log[k] # 0 =>
    /\ requests[log[k]].status # "queued" /\ requests[log[k]].anchor # NoAnchor
    /\ k = requests[log[k]].anchor.leaf + 1

Completed == \A i \in DOMAIN requests :
    requests[i].status = "completed" => Proved(requests[i], requests[i].entry)

\* Of the attempts at an ask only the last may be open.
OneOpen == \A i, j \in DOMAIN requests :
    i < j /\ requests[i].ask = requests[j].ask => ~is_open(requests[i])

Facts == /\ Named /\ Anchored /\ Sent /\ Awaited
         /\ Claiming /\ HandingBack /\ Compacting /\ Followed /\ Completed
         /\ OneOpen

Inv == TypeOK /\ Facts /\ MintsAreSpaced

(***************************************************************************)
(* Numbers: the smallest and the largest of a set, and its n-th element     *)
(***************************************************************************)
LEMMA Bounds ==
    /\ MaxAttempts \in Nat \ {0} /\ MaxProcs \in Nat \ {0}
    /\ Window \in Nat /\ MaxTime \in Nat /\ MaxRecords \in Nat
    /\ MaxEntries \in Nat /\ MaxCalls \in Nat
BY ConstantsAssumption

\* Min finds the smallest of a set of numbers that is not empty.
LEMMA Smallest ==
    ASSUME NEW S, S \subseteq Nat, S # {}
    PROVE Min(S) \in S /\ \A x \in S : Min(S) <= x
<1>1. PICK x \in S : \A y \in S : ~(<<y, x>> \in OpToRel(<, Nat))
  BY WFMin, NatLessThanWellFounded
<1>2. ASSUME NEW y \in S PROVE x <= y
  <2>1. x \in Nat /\ y \in Nat
    OBVIOUS
  <2>2. y < x => <<y, x>> \in OpToRel(<, Nat)
    BY <2>1 DEF OpToRel
  <2>3. ~(y < x)
    BY <1>1, <2>2
  <2> QED BY <2>1, <2>3
<1> QED BY <1>2 DEF Min

\* Max finds the largest of a bounded set of numbers that is not empty.
LEMMA Largest ==
    ASSUME NEW n \in Nat, NEW S, S \subseteq 1..n, S # {}
    PROVE Max(S) \in S /\ \A x \in S : x <= Max(S)
<1> DEFINE T == {n - x : x \in S}
<1>0. \A x \in S : x \in Nat /\ x <= n
  OBVIOUS
<1>1. T \subseteq Nat /\ T # {}
  BY <1>0
<1>2. PICK t \in T : \A u \in T : t <= u
  BY <1>1, Smallest
<1>3. PICK x \in S : t = n - x
  OBVIOUS
<1>4. \A y \in S : n - y \in T
  OBVIOUS
<1>5. \A y \in S : y <= x
  <2>1. ASSUME NEW y \in S PROVE y <= x
    <3>1. n - x <= n - y
      BY <1>2, <1>3, <1>4
    <3> QED BY <1>0, <3>1
  <2> QED BY <2>1
<1> QED BY <1>5 DEF Max

\* Every number up to a set's size is the rank of exactly one of its elements.
LEMMA Ranks ==
    ASSUME NEW m \in Nat, NEW S, S \subseteq 1..m
    PROVE /\ Cardinality(S) \in Nat
          /\ \A n \in 1..Cardinality(S) : nth(S, n) \in S
          /\ \A n, o \in 1..Cardinality(S) : nth(S, n) = nth(S, o) => n = o
          /\ \A i \in S : \E n \in 1..Cardinality(S) : nth(S, n) = i
<1> DEFINE N == Cardinality(S)
           upto(i) == {k \in S : k <= i}
           rank == [i \in S |-> Cardinality(upto(i))]
<1>0. \A i \in S : i \in Nat
  OBVIOUS
<1>1. IsFiniteSet(S) /\ N \in Nat
  <2>1. IsFiniteSet(1..m) /\ S \in SUBSET (1..m)
    BY FS_Interval
  <2>2. IsFiniteSet(S)
    BY <2>1, FS_Subset
  <2> QED BY <2>2, FS_CardinalityType
<1>2. ASSUME NEW i \in S PROVE IsFiniteSet(upto(i)) /\ rank[i] \in 1..N
  <2>1. IsFiniteSet(upto(i)) /\ Cardinality(upto(i)) <= N /\ Cardinality(upto(i)) \in Nat
    BY <1>1, FS_Subset, FS_CardinalityType
  <2>2. Cardinality(upto(i)) # 0
    BY <2>1, FS_EmptySet
  <2> QED BY <1>1, <2>1, <2>2
<1>3. ASSUME NEW i \in S, NEW j \in S, i < j PROVE rank[i] < rank[j]
  <2>1. upto(i) \in SUBSET upto(j) /\ j \notin upto(i) /\ j \in upto(j)
    <3>1. ASSUME NEW k \in upto(i) PROVE k \in S /\ k <= j
      BY <1>0, <1>3
    <3>2. i \in Nat /\ j \in Nat /\ ~(j <= i) /\ j <= j
      BY <1>0, <1>3
    <3> QED BY <3>1, <3>2
  <2>2. /\ Cardinality(upto(i)) <= Cardinality(upto(j))
        /\ Cardinality(upto(j)) = Cardinality(upto(i)) => upto(j) = upto(i)
    BY <1>2, <2>1, FS_Subset
  <2>3. Cardinality(upto(i)) # Cardinality(upto(j))
    BY <2>1, <2>2
  <2> QED BY <1>2, <2>2, <2>3
<1>4. ASSUME NEW i \in S, NEW j \in S, rank[i] = rank[j] PROVE i = j
  BY <1>2, <1>3, <1>4
<1>5. rank \in Injection(S, 1..N)
  BY <1>2, <1>4 DEF Injection, IsInjective
<1>6. IsFiniteSet(1..N) /\ Cardinality(1..N) = N
  BY <1>1, FS_Interval
<1>7. rank \in Surjection(S, 1..N)
  BY <1>5, <1>6, FS_Injection
<1>8. \A n \in 1..N : \E i \in S : Cardinality(upto(i)) = n
  BY <1>7 DEF Surjection
<1>9. \A n \in 1..N : nth(S, n) \in S /\ Cardinality(upto(nth(S, n))) = n
  BY <1>8 DEF nth
<1>10. \A i \in S : nth(S, rank[i]) = i
  <2>1. ASSUME NEW i \in S PROVE nth(S, rank[i]) = i
    <3>1. rank[i] \in 1..N
      BY <1>2
    <3>2. nth(S, rank[i]) \in S /\ Cardinality(upto(nth(S, rank[i]))) = rank[i]
      BY <3>1, <1>9
    <3> QED BY <3>2, <1>4
  <2> QED BY <2>1
<1> QED BY <1>1, <1>2, <1>9, <1>10

(***************************************************************************)
(* What the ledger's verbs make of a request                                *)
(***************************************************************************)

\* A leaver's open request is skipped, a dead claim fails; all else stays.
Kept(q, p) ==
    \/ p = q
    \/ is_open(q) /\ p = [q EXCEPT !.status = "skipped"]
    \/ q.status = "running" /\ p = [q EXCEPT !.status = "failed"]

Started(q, p, c) ==
    /\ c.verb = "start" /\ q.status = "queued"
    /\ \E s \in {"running", "skipped"} :
          p = [q EXCEPT !.status = s, !.claim = c.by, !.anchor = c.anchor]

Returned(q, p, c) ==
    /\ c.verb = "defer" /\ owns(c, q)
    /\ \E s \in {"queued", "skipped"} :
          p = [q EXCEPT !.status = s, !.claim = 0, !.anchor = NoAnchor]

Finished(q, p, c) ==
    /\ c.verb = "finish" /\ is_open(q)
    /\ c.outcome = "completed" <=> c.entry # 0
    /\ p = [q EXCEPT !.status = c.outcome, !.entry = c.entry]

\* A request that was not there before waits, or its person has left.
Minted(p) ==
    /\ p.status \in {"queued", "skipped"} /\ p.claim = 0 /\ p.anchor = NoAnchor
    /\ p.entry = 0

\* A new request is typed, and has what it was asked for.
LEMMA NewRequest ==
    ASSUME NEW force \in BOOLEAN, NEW at \in 0..MaxTime, NEW attempt \in 1..MaxAttempts,
           NEW ask \in Nat
    PROVE /\ new_request(force, at, attempt, ask) \in Request
          /\ Minted(new_request(force, at, attempt, ask))
          /\ new_request(force, at, attempt, ask).ask = ask
          /\ new_request(force, at, attempt, ask).attempt = attempt
          /\ new_request(force, at, attempt, ask).at = at
          /\ new_request(force, at, attempt, ask).force = force
          /\ new_request(force, at, attempt, ask).status = "queued"
BY Bounds DEF new_request, Request, Statuses, NoAnchor, Anchors, Minted

\* A successor is typed as long as attempts remain, and is the next attempt at
\* the same ask.
LEMMA Successor ==
    ASSUME NEW q \in Request, q.attempt < MaxAttempts
    PROVE /\ successor(q) \in Request /\ Minted(successor(q))
          /\ successor(q).ask = q.ask /\ successor(q).attempt = q.attempt + 1
<1>1. q.at \in 0..MaxTime /\ q.attempt \in 1..MaxAttempts /\ q.ask \in Nat
  BY DEF Request
<1>2. q.attempt + 1 \in 1..MaxAttempts /\ FALSE \in BOOLEAN
  BY <1>1, Bounds
<1> DEFINE at == q.at
           attempt == q.attempt + 1
           ask == q.ask
<1>3. at \in 0..MaxTime /\ attempt \in 1..MaxAttempts /\ ask \in Nat
  BY <1>1, <1>2
<1> HIDE DEF at, attempt, ask
<1>4. /\ new_request(FALSE, at, attempt, ask) \in Request
      /\ Minted(new_request(FALSE, at, attempt, ask))
      /\ new_request(FALSE, at, attempt, ask).ask = ask
      /\ new_request(FALSE, at, attempt, ask).attempt = attempt
  BY <1>2, <1>3, Bounds DEF new_request, Request, Statuses, NoAnchor, Anchors, Minted
<1> QED BY <1>4 DEF successor, at, attempt, ask

\* The end of every verb leaves each request as it is or skips it.
LEMMA Reconciled ==
    ASSUME NEW rs \in Seq(Request)
    PROVE /\ reconcile_people(rs) \in Seq(Request)
          /\ DOMAIN reconcile_people(rs) = DOMAIN rs
          /\ Len(reconcile_people(rs)) = Len(rs)
          /\ \A i \in DOMAIN rs :
                \/ reconcile_people(rs)[i] = rs[i]
                \/ is_open(rs[i]) /\ reconcile_people(rs)[i] = [rs[i] EXCEPT !.status = "skipped"]
<1>1. \A i \in DOMAIN rs : rs[i] \in Request /\ [rs[i] EXCEPT !.status = "skipped"] \in Request
  <2>1. ASSUME NEW i \in DOMAIN rs PROVE rs[i] \in Request
    OBVIOUS
  <2>2. ASSUME NEW q \in Request PROVE [q EXCEPT !.status = "skipped"] \in Request
    BY DEF Request, Statuses
  <2> QED BY <2>1, <2>2
<1>2. DOMAIN rs = 1..Len(rs) /\ Len(rs) \in Nat
  OBVIOUS
<1>3. reconcile_people(rs) \in [1..Len(rs) -> Request]
  BY <1>1, <1>2 DEF reconcile_people
<1>4. reconcile_people(rs) \in Seq(Request) /\ Len(reconcile_people(rs)) = Len(rs)
  BY <1>2, <1>3
<1> QED BY <1>1, <1>2, <1>4 DEF reconcile_people

\* An interrupted request has failed; those that may be retried have one
\* successor each, after everything there was.
LEMMA Recovered ==
    ASSUME NEW rs \in Seq(Request), NEW by \in Nat
    PROVE LET new == recover_interrupted(rs, by)
              N   == Cardinality(again(rs, by))
          IN /\ new \in Seq(Request) /\ N \in Nat /\ Len(new) = Len(rs) + N
             /\ \A i \in DOMAIN rs :
                   new[i] = IF i \in interrupted(rs, by) THEN [rs[i] EXCEPT !.status = "failed"]
                            ELSE rs[i]
             /\ \A n \in 1..N :
                   /\ nth(again(rs, by), n) \in again(rs, by)
                   /\ new[Len(rs) + n] = successor(rs[nth(again(rs, by), n)])
             /\ \A n, o \in 1..N : nth(again(rs, by), n) = nth(again(rs, by), o) => n = o
             /\ \A i \in again(rs, by) : \E n \in 1..N : nth(again(rs, by), n) = i
<1> DEFINE new == recover_interrupted(rs, by)
           S == again(rs, by)
           N == Cardinality(S)
           old == failed(rs, interrupted(rs, by))
           more == [n \in 1..N |-> successor(rs[nth(S, n)])]
<1>1. Len(rs) \in Nat /\ DOMAIN rs = 1..Len(rs) /\ S \subseteq 1..Len(rs)
  BY DEF again, interrupted
<1>2. /\ N \in Nat
      /\ \A n \in 1..N : nth(S, n) \in S
      /\ \A n, o \in 1..N : nth(S, n) = nth(S, o) => n = o
      /\ \A i \in S : \E n \in 1..N : nth(S, n) = i
  <2> HIDE DEF S
  <2>1. N \in Nat
    BY <1>1, Ranks
  <2>2. \A n \in 1..N : nth(S, n) \in S
    BY <1>1, Ranks
  <2>3. \A n, o \in 1..N : nth(S, n) = nth(S, o) => n = o
    BY <1>1, Ranks, Zenon
  <2>4. ASSUME NEW i \in S PROVE \E n \in 1..N : nth(S, n) = i
    BY <1>1, Ranks
  <2> QED BY <2>1, <2>2, <2>3, <2>4
<1>3. old \in Seq(Request) /\ Len(old) = Len(rs)
  <2>1. ASSUME NEW i \in DOMAIN rs PROVE rs[i] \in Request
    OBVIOUS
  <2>2. ASSUME NEW q \in Request PROVE [q EXCEPT !.status = "failed"] \in Request
    BY DEF Request, Statuses
  <2>3. old \in [1..Len(rs) -> Request]
    BY <1>1, <2>1, <2>2 DEF failed
  <2> QED BY <1>1, <2>3
<1>4. ASSUME NEW i \in S PROVE successor(rs[i]) \in Request
  <2>1. i \in DOMAIN rs /\ rs[i] \in Request /\ rs[i].attempt < MaxAttempts
    BY DEF again, interrupted
  <2> QED BY <2>1, Successor
<1>5. more \in Seq(Request) /\ Len(more) = N
  <2> HIDE DEF S
  <2>1. more \in [1..N -> Request]
    BY <1>2, <1>4
  <2> QED BY <1>2, <2>1
<1>6. new = old \o more
  BY DEF recover_interrupted
<1>7. /\ new \in Seq(Request) /\ Len(new) = Len(rs) + N
      /\ \A i \in 1..(Len(rs) + N) : new[i] = IF i <= Len(rs) THEN old[i] ELSE more[i - Len(rs)]
  <2> HIDE DEF new, old, more, S
  <2>1. old \o more \in Seq(Request) /\ Len(old \o more) = Len(old) + Len(more)
    BY <1>3, <1>5, ConcatProperties
  <2>2. \A i \in 1..(Len(old) + Len(more)) :
           (old \o more)[i] = IF i <= Len(old) THEN old[i] ELSE more[i - Len(old)]
    BY <1>3, <1>5, ConcatProperties
  <2> QED BY <1>3, <1>5, <1>6, <2>1, <2>2
<1>8. ASSUME NEW i \in DOMAIN rs PROVE new[i] = old[i]
  <2> HIDE DEF new, old, more, S
  <2> QED BY <1>1, <1>2, <1>7
<1>9. ASSUME NEW n \in 1..N PROVE new[Len(rs) + n] = more[n]
  <2> HIDE DEF new, old, more, S
  <2> QED BY <1>1, <1>2, <1>7
<1>10. \A i \in DOMAIN rs : new[i] = IF i \in interrupted(rs, by)
                                    THEN [rs[i] EXCEPT !.status = "failed"] ELSE rs[i]
  BY <1>8 DEF failed
<1> QED BY <1>2, <1>7, <1>9, <1>10

\* What the types of requests and calls say of their fields.
LEMMA RequestFields ==
    ASSUME NEW q \in Request
    PROVE /\ q.force \in BOOLEAN /\ q.status \in Statuses /\ q.at \in 0..MaxTime
          /\ q.attempt \in 1..MaxAttempts /\ q.ask \in Nat /\ q.claim \in 0..MaxProcs
          /\ q.anchor \in Anchors /\ q.entry \in 0..MaxEntries
BY DEF Request

LEMMA CallFields ==
    ASSUME NEW c \in Call
    PROVE /\ c.verb \in {"start", "defer", "finish", "recover"} /\ c.by \in 1..MaxProcs
          /\ c.req \in Nat /\ c.anchor \in Anchors /\ c.outcome \in Statuses
          /\ c.entry \in 0..MaxEntries
BY DEF Call

\* A verb other than a recovery acts on the request it names.
LEMMA Verb ==
    ASSUME NEW rs \in Seq(Request), NEW c \in Call, c.verb # "recover", c.req \in DOMAIN rs
    PROVE /\ applied(rs, c) \in Seq(Request) /\ Len(applied(rs, c)) = Len(rs)
          /\ \A i \in DOMAIN rs \ {c.req} : applied(rs, c)[i] = rs[i]
          /\ LET q == rs[c.req]
                 p == applied(rs, c)[c.req]
             IN \/ p = q
                \/ /\ c.verb = "start" /\ q.status = "queued"
                   /\ p = [q EXCEPT !.status = "running", !.claim = c.by, !.anchor = c.anchor]
                \/ /\ c.verb = "defer" /\ owns(c, q)
                   /\ p = [q EXCEPT !.status = "queued", !.claim = 0, !.anchor = NoAnchor]
                \/ Finished(q, p, c)
<1> DEFINE q == rs[c.req]
<1>1. q \in Request /\ DOMAIN rs = 1..Len(rs) /\ Len(rs) \in Nat
  OBVIOUS
<1>2. ASSUME NEW p \in Request
      PROVE /\ [rs EXCEPT ![c.req] = p] \in Seq(Request)
            /\ Len([rs EXCEPT ![c.req] = p]) = Len(rs)
            /\ [rs EXCEPT ![c.req] = p][c.req] = p
            /\ \A i \in DOMAIN rs \ {c.req} : [rs EXCEPT ![c.req] = p][i] = rs[i]
  BY <1>1
<1>3. CASE c.verb = "start"
  <2> DEFINE p == [q EXCEPT !.status = "running", !.claim = c.by, !.anchor = c.anchor]
  <2>0. c.by \in 0..MaxProcs /\ c.anchor \in Anchors /\ "running" \in Statuses
    BY CallFields, Bounds DEF Statuses
  <2>1. p \in Request
    BY <1>1, <2>0 DEF Request
  <2>2. CASE q.status = "queued"
    <3>1. applied(rs, c) = [rs EXCEPT ![c.req] = p]
      BY <1>3, <2>2 DEF applied, start
    <3> QED BY <1>2, <1>3, <2>1, <2>2, <3>1
  <2>3. CASE q.status # "queued"
    <3>1. applied(rs, c) = rs
      BY <1>3, <2>3 DEF applied, start
    <3> QED BY <3>1
  <2> QED BY <2>2, <2>3
<1>4. CASE c.verb = "defer"
  <2> DEFINE p == [q EXCEPT !.status = "queued", !.claim = 0, !.anchor = NoAnchor]
  <2>0. 0 \in 0..MaxProcs /\ NoAnchor \in Anchors /\ "queued" \in Statuses
    BY Bounds DEF NoAnchor, Anchors, Statuses
  <2>1. p \in Request
    BY <1>1, <2>0 DEF Request
  <2>2. CASE owns(c, q)
    <3>1. applied(rs, c) = [rs EXCEPT ![c.req] = p]
      BY <1>4, <2>2 DEF applied, defer
    <3> QED BY <1>2, <1>4, <2>1, <2>2, <3>1
  <2>3. CASE ~owns(c, q)
    <3>1. applied(rs, c) = rs
      BY <1>4, <2>3 DEF applied, defer
    <3> QED BY <3>1
  <2> QED BY <2>2, <2>3
<1>5. CASE c.verb = "finish"
  <2> DEFINE p == [q EXCEPT !.status = c.outcome, !.entry = c.entry]
             fit == /\ is_open(q)
                    /\ c.outcome = "completed" <=> c.entry # 0
                    /\ c.entry # 0 => q.anchor # NoAnchor
  <2>1. p \in Request
    BY <1>1, CallFields DEF Request
  <2>2. CASE fit
    <3>1. applied(rs, c) = [rs EXCEPT ![c.req] = p]
      BY <1>5, <2>2 DEF applied, finish
    <3> QED BY <1>2, <1>5, <2>1, <2>2, <3>1 DEF Finished
  <2>3. CASE ~fit
    <3>1. applied(rs, c) = rs
      BY <1>5, <2>3 DEF applied, finish
    <3> QED BY <3>1
  <2> QED BY <2>2, <2>3
<1> QED BY <1>3, <1>4, <1>5, CallFields

\* A step of the writer, of whichever kind, makes of each request that was
\* there one of these, and mints the rest.
Moves(q, p, i) ==
    \/ Kept(q, p)
    \/ /\ calls # <<>> /\ calls' = Tail(calls) /\ i = Head(calls).req
       /\ Started(q, p, Head(calls)) \/ Returned(q, p, Head(calls))
             \/ Finished(q, p, Head(calls))

New == DOMAIN requests' \ DOMAIN requests

\* What is minted is an ask, a window after the last one like it,
FirstAttempt ==
    /\ Len(requests') = Len(requests) + 1
    /\ LET m == requests'[Len(requests) + 1]
           S == family(requests, m.force)
       IN /\ m.ask = Len(requests) + 1 /\ m.attempt = 1
          /\ S # {} => m.at - requests[Max(S)].at > Window

\* or the next attempts at asks, each at that of one that has just failed.
NextAttempts ==
    \E f \in [New -> DOMAIN requests] :
       /\ \A i, j \in New : f[i] = f[j] => i = j
       /\ \A i \in New :
             /\ requests[f[i]].status = "running" /\ requests'[f[i]].status = "failed"
             /\ requests'[i].ask = requests[f[i]].ask
             /\ requests'[i].attempt = requests[f[i]].attempt + 1

Writes ==
    /\ requests' \in Seq(Request) /\ Len(requests) <= Len(requests')
    /\ \A i \in DOMAIN requests : Moves(requests[i], requests'[i], i)
    /\ \A i \in New : Minted(requests'[i])
    /\ Len(requests') = Len(requests) \/ FirstAttempt \/ NextAttempts

Asked == \E force \in BOOLEAN, at \in 0..MaxTime : Queue(force, at)

\* The oldest call is one, and names a request that is there.
LEMMA Oldest ==
    ASSUME TypeOK, Sent, calls # <<>>
    PROVE /\ Head(calls) \in Call /\ Head(calls) \in InFlight
          /\ Tail(calls) \in Seq(Call) /\ Len(Tail(calls)) <= MaxCalls
          /\ \A k \in DOMAIN Tail(calls) : Tail(calls)[k] \in InFlight
          /\ Head(calls).verb # "recover" => Head(calls).req \in DOMAIN requests
          /\ Head(calls).verb = "finish" => Head(calls).outcome \in {"completed", "failed"}
<1>1. calls \in Seq(Call) /\ Len(calls) <= MaxCalls
  BY DEF TypeOK
<1>2. /\ Head(calls) \in Call /\ 1 \in DOMAIN calls /\ Head(calls) = calls[1]
      /\ Tail(calls) \in Seq(Call) /\ Len(Tail(calls)) = Len(calls) - 1
  BY <1>1
<1>3. \A k \in DOMAIN Tail(calls) : k + 1 \in DOMAIN calls /\ Tail(calls)[k] = calls[k + 1]
  BY <1>1, <1>2
<1>4. Len(Tail(calls)) <= MaxCalls
  BY <1>1, <1>2, Bounds
<1>5. Head(calls) \in InFlight /\ \A k \in DOMAIN Tail(calls) : Tail(calls)[k] \in InFlight
  BY <1>2, <1>3 DEF InFlight
<1> QED BY <1>2, <1>4, <1>5 DEF Sent, Sound

\* Recovery followed by the end of the verb.
LEMMA RecoveryWrites ==
    ASSUME TypeOK, NEW by \in Nat,
           requests' = reconcile_people(recover_interrupted(requests, by))
    PROVE Writes
<1> DEFINE new == recover_interrupted(requests, by)
           N == Cardinality(again(requests, by))
<1>1. requests \in Seq(Request)
  BY DEF TypeOK
<1>2. /\ new \in Seq(Request) /\ N \in Nat /\ Len(new) = Len(requests) + N
      /\ \A i \in DOMAIN requests : new[i] = IF i \in interrupted(requests, by)
                                             THEN [requests[i] EXCEPT !.status = "failed"]
                                             ELSE requests[i]
      /\ \A n \in 1..N :
            /\ nth(again(requests, by), n) \in again(requests, by)
            /\ new[Len(requests) + n] = successor(requests[nth(again(requests, by), n)])
      /\ \A n, o \in 1..N : nth(again(requests, by), n) = nth(again(requests, by), o) => n = o
  BY <1>1, Recovered
<1>3. /\ requests' \in Seq(Request) /\ DOMAIN requests' = DOMAIN new /\ Len(requests') = Len(new)
      /\ \A i \in DOMAIN new :
            \/ requests'[i] = new[i]
            \/ is_open(new[i]) /\ requests'[i] = [new[i] EXCEPT !.status = "skipped"]
  BY <1>2, Reconciled
<1>4. ASSUME NEW i \in DOMAIN requests PROVE Kept(requests[i], requests'[i])
  <2>1. i \in DOMAIN new /\ requests[i] \in Request
    BY <1>1, <1>2
  <2>2. CASE i \in interrupted(requests, by)
    <3>1. requests[i].status = "running" /\ new[i] = [requests[i] EXCEPT !.status = "failed"]
      BY <1>2, <2>2 DEF interrupted
    <3>2. ~is_open(new[i])
      BY <2>1, <3>1 DEF is_open, Request
    <3> QED BY <1>3, <2>1, <3>1, <3>2 DEF Kept
  <2>3. CASE i \notin interrupted(requests, by)
    BY <1>2, <1>3, <2>1, <2>3 DEF Kept
  <2> QED BY <2>2, <2>3
<1> DEFINE f == [i \in New |-> nth(again(requests, by), i - Len(requests))]
<1>5. ASSUME NEW i \in New
      PROVE /\ i - Len(requests) \in 1..N /\ f[i] \in again(requests, by)
            /\ f[i] \in DOMAIN requests /\ requests[f[i]].status = "running"
            /\ Minted(requests'[i]) /\ requests'[f[i]].status = "failed"
            /\ requests'[i].ask = requests[f[i]].ask
            /\ requests'[i].attempt = requests[f[i]].attempt + 1
  <2> DEFINE n == i - Len(requests)
             j == nth(again(requests, by), n)
  <2>1. n \in 1..N /\ i = Len(requests) + n /\ i \in DOMAIN new
    <3>1. i \in 1..(Len(requests) + N) /\ i \notin 1..Len(requests) /\ Len(requests) \in Nat
      BY <1>1, <1>2, <1>3 DEF New
    <3> QED BY <1>2, <1>3, <3>1
  <2>2. /\ j \in again(requests, by) /\ j \in interrupted(requests, by)
        /\ j \in DOMAIN requests /\ requests[j] \in Request /\ requests[j].attempt < MaxAttempts
        /\ requests[j].status = "running"
    BY <1>1, <1>2, <2>1 DEF again, interrupted
  <2>4. new[i] = successor(requests[j])
    BY <1>2, <2>1
  <2>5. /\ new[i] \in Request /\ Minted(new[i]) /\ new[i].ask = requests[j].ask
        /\ new[i].attempt = requests[j].attempt + 1
    <3> HIDE DEF new, j, n, f
    <3> QED BY <2>2, <2>4, Successor
  <2>6. Minted(requests'[i]) /\ requests'[i].ask = new[i].ask /\ requests'[i].attempt = new[i].attempt
    BY <1>3, <2>1, <2>5 DEF Minted, Request
  <2>7. requests'[j].status = "failed"
    <3>1. new[j] = [requests[j] EXCEPT !.status = "failed"] /\ j \in DOMAIN new
      BY <1>1, <1>2, <2>2
    <3>2. new[j].status = "failed"
      BY <2>2, <3>1 DEF Request
    <3> QED BY <1>3, <3>1, <3>2 DEF is_open
  <2>8. f[i] = j
    OBVIOUS
  <2> HIDE DEF n, j, f, new
  <2> QED BY <2>1, <2>2, <2>5, <2>6, <2>7, <2>8 DEF n
<1>6. NextAttempts
  <2>1. f \in [New -> DOMAIN requests]
    BY <1>5
  <2>2. ASSUME NEW i \in New, NEW j \in New, f[i] = f[j] PROVE i = j
    <3>1. i - Len(requests) = j - Len(requests)
      BY <1>2, <1>5, <2>2
    <3>2. i \in Nat /\ j \in Nat /\ Len(requests) \in Nat
      BY <1>1, <1>2, <1>3 DEF New
    <3> QED BY <3>1, <3>2
  <2> HIDE DEF f
  <2> QED BY <1>5, <2>1, <2>2 DEF NextAttempts
<1> HIDE DEF new, N, f
<1> QED BY <1>1, <1>2, <1>3, <1>4, <1>5, <1>6 DEF Writes, Moves

\* A verb that names a request, followed by its end.
LEMMA VerbWrites ==
    ASSUME TypeOK, Sent, calls # <<>>, calls' = Tail(calls), Head(calls).verb # "recover",
           requests' = reconcile_people(applied(requests, Head(calls)))
    PROVE Writes /\ DOMAIN requests' = DOMAIN requests
<1> DEFINE c == Head(calls)
           new == applied(requests, c)
<1>1. /\ requests \in Seq(Request) /\ c \in Call /\ c.req \in DOMAIN requests
      /\ c.verb = "finish" => c.outcome \in {"completed", "failed"}
  BY Oldest DEF TypeOK
<1>2. /\ new \in Seq(Request) /\ Len(new) = Len(requests)
      /\ \A i \in DOMAIN requests \ {c.req} : new[i] = requests[i]
      /\ LET q == requests[c.req]
             p == new[c.req]
         IN \/ p = q
            \/ /\ c.verb = "start" /\ q.status = "queued"
               /\ p = [q EXCEPT !.status = "running", !.claim = c.by, !.anchor = c.anchor]
            \/ /\ c.verb = "defer" /\ owns(c, q)
               /\ p = [q EXCEPT !.status = "queued", !.claim = 0, !.anchor = NoAnchor]
            \/ Finished(q, p, c)
  <2> HIDE DEF c, new
  <2> QED BY <1>1, Verb DEF c, new
<1>3. /\ requests' \in Seq(Request) /\ DOMAIN requests' = DOMAIN new /\ Len(requests') = Len(new)
      /\ \A i \in DOMAIN new :
            \/ requests'[i] = new[i]
            \/ is_open(new[i]) /\ requests'[i] = [new[i] EXCEPT !.status = "skipped"]
  BY <1>2, Reconciled
<1>4. DOMAIN requests = DOMAIN new /\ Len(requests) \in Nat
  BY <1>1, <1>2
<1>5. ASSUME NEW i \in DOMAIN requests PROVE Moves(requests[i], requests'[i], i)
  <2> DEFINE q == requests[i]
             p == new[i]
             r == requests'[i]
  <2>1. /\ q \in Request
        /\ r = p \/ (is_open(p) /\ r = [p EXCEPT !.status = "skipped"])
    BY <1>1, <1>3, <1>4
  <2>2. CASE p = q
    BY <2>1, <2>2 DEF Moves, Kept
  <2>3. CASE /\ i = c.req /\ c.verb = "start" /\ q.status = "queued"
             /\ p = [q EXCEPT !.status = "running", !.claim = c.by, !.anchor = c.anchor]
    <3>1. \E s \in {"running", "skipped"} :
             r = [q EXCEPT !.status = s, !.claim = c.by, !.anchor = c.anchor]
      <4>1. CASE r = p
        BY <2>3, <4>1
      <4>2. CASE r = [p EXCEPT !.status = "skipped"]
        <5>1. r = [q EXCEPT !.status = "skipped", !.claim = c.by, !.anchor = c.anchor]
          BY <2>1, <2>3, <4>2 DEF Request
        <5> QED BY <5>1
      <4> QED BY <2>1, <4>1, <4>2
    <3> QED BY <2>3, <3>1 DEF Moves, Started
  <2>4. CASE /\ i = c.req /\ c.verb = "defer" /\ owns(c, q)
             /\ p = [q EXCEPT !.status = "queued", !.claim = 0, !.anchor = NoAnchor]
    <3>1. \E s \in {"queued", "skipped"} :
             r = [q EXCEPT !.status = s, !.claim = 0, !.anchor = NoAnchor]
      <4>1. CASE r = p
        BY <2>4, <4>1
      <4>2. CASE r = [p EXCEPT !.status = "skipped"]
        <5>1. r = [q EXCEPT !.status = "skipped", !.claim = 0, !.anchor = NoAnchor]
          BY <2>1, <2>4, <4>2 DEF Request
        <5> QED BY <5>1
      <4> QED BY <2>1, <4>1, <4>2
    <3> QED BY <2>4, <3>1 DEF Moves, Returned
  <2>5. CASE i = c.req /\ Finished(q, p, c)
    <3>1. p.status \in {"completed", "failed"}
      BY <1>1, <2>1, <2>5 DEF Finished, Request
    <3>2. r = p
      BY <2>1, <3>1 DEF is_open
    <3> QED BY <2>5, <3>2 DEF Moves
  <2>6. \/ p = q
        \/ /\ i = c.req /\ c.verb = "start" /\ q.status = "queued"
           /\ p = [q EXCEPT !.status = "running", !.claim = c.by, !.anchor = c.anchor]
        \/ /\ i = c.req /\ c.verb = "defer" /\ owns(c, q)
           /\ p = [q EXCEPT !.status = "queued", !.claim = 0, !.anchor = NoAnchor]
        \/ i = c.req /\ Finished(q, p, c)
    <3>1. CASE i = c.req
      BY <1>2, <3>1
    <3>2. CASE i # c.req
      BY <1>2, <3>2
    <3> QED BY <3>1, <3>2
  <2> QED BY <2>2, <2>3, <2>4, <2>5, <2>6
<1> QED BY <1>1, <1>2, <1>3, <1>4, <1>5 DEF Writes, New

\* The writer's commit of any call writes so,
LEMMA CommitWrites ==
    ASSUME TypeOK, Sent, Commit
    PROVE Writes
<1>1. calls # <<>> /\ calls' = Tail(calls)
  BY DEF Commit
<1>2. CASE requests' = requests
  <2>1. requests \in Seq(Request)
    BY DEF TypeOK
  <2>2. Len(requests) <= Len(requests)
    BY <2>1
  <2> QED BY <1>2, <2>1, <2>2 DEF Writes, New, Moves, Kept
<1>3. CASE requests' = reconcile_people(applied(requests, Head(calls)))
  <2>1. CASE Head(calls).verb = "recover"
    <3>1. Head(calls) \in Call
      BY <1>1, Oldest
    <3>2. Head(calls).by \in Nat
      BY <3>1, CallFields, Bounds
    <3>3. applied(requests, Head(calls)) = recover_interrupted(requests, Head(calls).by)
      BY <2>1 DEF applied
    <3> QED BY <1>3, <3>2, <3>3, RecoveryWrites
  <2>2. CASE Head(calls).verb # "recover"
    BY <1>1, <1>3, <2>2, VerbWrites
  <2> QED BY <2>1, <2>2
<1> QED BY <1>2, <1>3 DEF Commit

\* A verb that finds nothing to do.
LEMMA EndWrites ==
    ASSUME TypeOK, requests' = reconcile_people(requests)
    PROVE Writes
<1>1. requests \in Seq(Request)
  BY DEF TypeOK
<1>2. /\ requests' \in Seq(Request) /\ DOMAIN requests' = DOMAIN requests
      /\ Len(requests') = Len(requests) /\ Len(requests) \in Nat
      /\ \A i \in DOMAIN requests :
            \/ requests'[i] = requests[i]
            \/ is_open(requests[i]) /\ requests'[i] = [requests[i] EXCEPT !.status = "skipped"]
  BY <1>1, Reconciled
<1> QED BY <1>1, <1>2 DEF Writes, New, Moves, Kept

\* and so does the duty's recovery,
LEMMA DutyWrites ==
    ASSUME TypeOK, DutyRecovers
    PROVE Writes
<1>1. 0 \in Nat
  OBVIOUS
<1>2. \/ requests' = reconcile_people(recover_interrupted(requests, 0))
      \/ requests' = reconcile_people(requests)
  BY DEF DutyRecovers
<1> QED BY <1>1, <1>2, RecoveryWrites, EndWrites

\* and so does an ask, which mints at most one request.
LEMMA AskedWrites ==
    ASSUME TypeOK, Asked
    PROVE Writes
<1>1. PICK force \in BOOLEAN, at \in 0..MaxTime : Queue(force, at)
  BY DEF Asked
<1>2. CASE absorbs(requests, force, at)
  BY <1>1, <1>2, EndWrites DEF Queue, queue
<1>3. CASE ~absorbs(requests, force, at)
  <2> DEFINE m == new_request(force, at, 1, Len(requests) + 1)
             new == Append(requests, m)
  <2>1. requests \in Seq(Request) /\ Len(requests) \in Nat
    BY DEF TypeOK
  <2>2. m \in Request /\ Minted(m)
    BY <2>1, NewRequest, Bounds
  <2> HIDE DEF m
  <2>3. /\ new \in Seq(Request) /\ Len(new) = Len(requests) + 1
        /\ \A i \in 1..Len(requests) : new[i] = requests[i]
        /\ new[Len(requests) + 1] = m
    BY <2>1, <2>2, AppendProperties
  <2>4. requests' = reconcile_people(new)
    BY <1>1, <1>3 DEF Queue, queue, m
  <2> HIDE DEF new
  <2>5. /\ requests' \in Seq(Request) /\ DOMAIN requests' = DOMAIN new /\ Len(requests') = Len(new)
        /\ \A i \in DOMAIN new :
              \/ requests'[i] = new[i]
              \/ is_open(new[i]) /\ requests'[i] = [new[i] EXCEPT !.status = "skipped"]
    BY <2>3, <2>4, Reconciled
  <2>6. ASSUME NEW i \in DOMAIN requests PROVE Kept(requests[i], requests'[i])
    <3>1. i \in DOMAIN new /\ new[i] = requests[i]
      BY <2>1, <2>3
    <3> QED BY <2>5, <3>1 DEF Kept
  <2>7. LET p == requests'[Len(requests) + 1]
        IN Minted(p) /\ p.ask = m.ask /\ p.attempt = m.attempt /\ p.at = m.at /\ p.force = m.force
    <3>1. Len(requests) + 1 \in DOMAIN new
      BY <2>1, <2>3
    <3>2. \/ requests'[Len(requests) + 1] = m
          \/ requests'[Len(requests) + 1] = [m EXCEPT !.status = "skipped"]
      BY <2>3, <2>5, <3>1
    <3> QED BY <2>2, <3>2 DEF Minted, Request
  <2>8. FirstAttempt
    <3>1. m.ask = Len(requests) + 1 /\ m.attempt = 1 /\ m.at = at /\ m.force = force
      BY DEF m, new_request
    <3>2. family(requests, force) # {} => at - requests[Max(family(requests, force))].at > Window
      <4>1. ASSUME NEW i \in family(requests, force) PROVE i \in 1..Len(requests)
        BY <2>1 DEF family
      <4>2. ASSUME family(requests, force) # {} PROVE requests[Max(family(requests, force))].at \in Nat
        <5>1. Max(family(requests, force)) \in 1..Len(requests)
          BY <2>1, <4>1, <4>2, Largest
        <5> QED BY <2>1, <5>1, RequestFields
      <4> QED BY <1>3, <4>2, Bounds DEF absorbs
    <3> QED BY <2>3, <2>5, <2>7, <3>1, <3>2 DEF FirstAttempt
  <2>9. Len(requests) <= Len(requests') /\ \A i \in New : i = Len(requests) + 1
    BY <2>1, <2>3, <2>5 DEF New
  <2> QED BY <2>5, <2>6, <2>7, <2>8, <2>9 DEF Writes, Moves
<1> QED BY <1>2, <1>3

(***************************************************************************)
(* The steps that leave the worker where it is                              *)
(***************************************************************************)

Queueing ==
    /\ Writes /\ UNCHANGED <<proc, log, session>>
    /\ \/ calls' = calls
       \/ calls # <<>> /\ calls' = Tail(calls)
    /\ \/ worker' = worker
       \/ /\ calls # <<>> /\ calls' = Tail(calls) /\ waited_for(Head(calls))
          /\ \E told \in BOOLEAN : worker' = [worker EXCEPT !.told = told]
    /\ worker.at = "claiming" /\ worker'.told =>
          worker.told \/ requests'[worker.req].claim = proc

Outside == Commit \/ Lose \/ DutyReads \/ DutyRecovers \/ Asked \/ Depart

\* A claim that its caller is told of is the caller's.
LEMMA ToldIsMine ==
    ASSUME TypeOK, Sent, Awaited, Commit, waited_for(Head(calls)),
           worker.at = "claiming", accepts(requests, Head(calls))
    PROVE requests'[worker.req].claim = proc
<1> DEFINE c == Head(calls)
           r == c.req
           new == applied(requests, c)
<1>1. calls # <<>> /\ c.by = proc /\ c.verb = "start"
  BY DEF Commit, waited_for, awaited
<1>2. /\ c \in Call /\ c \in InFlight /\ r \in DOMAIN requests
      /\ requests \in Seq(Request) /\ requests[r] \in Request
  BY <1>1, Oldest DEF TypeOK
<1>3. worker.req = r
  BY <1>1, <1>2 DEF Awaited, alive
<1>4. requests[r].status = "queued"
  BY <1>1 DEF accepts
<1>5. /\ requests' = reconcile_people(new)
      /\ new = [requests EXCEPT ![r].status = "running", ![r].claim = c.by, ![r].anchor = c.anchor]
  BY <1>1, <1>4 DEF Commit, applied, start
<1>6. new \in Seq(Request)
  BY <1>1, <1>2, Verb
<1>7. r \in DOMAIN new /\ new[r].claim = proc /\ new[r] \in Request
  <2>1. r \in DOMAIN new /\ new[r] = [requests[r] EXCEPT !.status = "running", !.claim = c.by, !.anchor = c.anchor]
    BY <1>2, <1>5
  <2>2. new[r] \in Request
    <3> HIDE DEF new
    <3> QED BY <1>6, <2>1
  <2>3. new[r].claim = c.by
    BY <1>2, <2>1 DEF Request
  <2> QED BY <1>1, <2>1, <2>2, <2>3
<1>8. requests'[r] = new[r] \/ requests'[r] = [new[r] EXCEPT !.status = "skipped"]
  <2> HIDE DEF new
  <2> QED BY <1>5, <1>6, <1>7, Reconciled
<1>9. requests'[r].claim = proc
  <2> HIDE DEF new
  <2> QED BY <1>7, <1>8 DEF Request
<1> QED BY <1>3, <1>9

\* The writer's, the duty's, the operator's and the person's steps are all such.
LEMMA OutsideSteps ==
    ASSUME TypeOK, Sent, Awaited, Outside
    PROVE Queueing
<1>1. requests' = requests => Writes
  <2>1. requests \in Seq(Request)
    BY DEF TypeOK
  <2>2. Len(requests) <= Len(requests)
    BY <2>1
  <2> QED BY <2>1, <2>2 DEF Writes, New, Moves, Kept
<1>2. CASE Commit
  <2>1. Writes /\ calls # <<>> /\ calls' = Tail(calls) /\ UNCHANGED <<proc, log, session>>
    BY <1>2, CommitWrites DEF Commit
  <2>2. accepts(requests, Head(calls)) \in BOOLEAN /\ worker \in Worker
    <3>1. Head(calls).verb \in {"start", "defer", "finish", "recover"}
      BY <2>1, Oldest, CallFields
    <3>2. worker \in Worker
      BY DEF TypeOK
    <3> QED BY <3>1, <3>2 DEF accepts, owns, is_open
  <2>3. CASE waited_for(Head(calls))
    <3>1. worker' = [worker EXCEPT !.told = accepts(requests, Head(calls))]
      BY <1>2, <2>3 DEF Commit
    <3>2. /\ \E told \in BOOLEAN : worker' = [worker EXCEPT !.told = told]
          /\ worker'.told = accepts(requests, Head(calls))
      BY <2>2, <3>1 DEF Worker
    <3>3. worker.at = "claiming" /\ worker'.told => requests'[worker.req].claim = proc
      BY <1>2, <2>3, <3>2, ToldIsMine
    <3> QED BY <2>1, <2>3, <3>2, <3>3 DEF Queueing
  <2>4. CASE ~waited_for(Head(calls))
    <3>1. worker' = worker
      BY <1>2, <2>4 DEF Commit
    <3>2. worker'.told = worker.told
      BY <3>1
    <3> QED BY <2>1, <3>1, <3>2 DEF Queueing
  <2> QED BY <2>3, <2>4
<1>3. CASE ~Commit
  <2>1. Writes
    <3>1. CASE requests' = requests
      BY <1>1, <3>1
    <3>2. CASE DutyRecovers
      BY <3>2, DutyWrites
    <3>3. CASE Asked
      BY <3>3, AskedWrites
    <3> QED BY <1>3, <3>1, <3>2, <3>3 DEF Outside, Lose, DutyReads, Depart
  <2>2. UNCHANGED <<proc, log, session, worker>>
    BY <1>3 DEF Outside, Lose, DutyReads, DutyRecovers, Asked, Queue, Depart
  <2>3. calls' = calls \/ (calls # <<>> /\ calls' = Tail(calls))
    BY <1>3 DEF Outside, Lose, DutyReads, DutyRecovers, Asked, Queue, Depart
  <2>4. worker'.told = worker.told
    BY <2>2
  <2> QED BY <2>1, <2>2, <2>3, <2>4 DEF Queueing
<1> QED BY <1>2, <1>3

\* What such a step makes of a request, by its fields.
Fate(q, p, i) ==
    /\ p.ask = q.ask /\ p.force = q.force /\ p.at = q.at /\ p.attempt = q.attempt
    /\ \/ /\ p.claim = q.claim /\ p.anchor = q.anchor /\ p.entry = q.entry
          /\ \/ p.status = q.status
             \/ is_open(q) /\ p.status = "skipped"
             \/ q.status = "running" /\ p.status = "failed"
       \/ \E c \in InFlight :
             /\ c \in Call /\ c.req = i
             /\ \/ /\ c.verb = "start" /\ q.status = "queued" /\ p.status \in {"running", "skipped"}
                   /\ p.claim = c.by /\ p.anchor = c.anchor /\ p.entry = q.entry
                \/ /\ c.verb = "defer" /\ owns(c, q) /\ p.status \in {"queued", "skipped"}
                   /\ p.claim = 0 /\ p.anchor = NoAnchor /\ p.entry = q.entry
                \/ /\ c.verb = "finish" /\ is_open(q) /\ p.status \in {"completed", "failed"}
                   /\ p.status = "completed" => c.entry # 0
                   /\ p.claim = q.claim /\ p.anchor = q.anchor /\ p.entry = c.entry

\* Every write is one of these.
LEMMA Fates ==
    ASSUME TypeOK, Sent, NEW i \in DOMAIN requests, NEW p, Moves(requests[i], p, i)
    PROVE Fate(requests[i], p, i)
<1> DEFINE q == requests[i]
           c == Head(calls)
<1>1. q \in Request
  BY DEF TypeOK
<1>2. calls # <<>> => /\ c \in Call /\ c \in InFlight
                      /\ c.verb = "finish" => c.outcome \in {"completed", "failed"}
  BY Oldest
<1>3. CASE Kept(q, p)
  BY <1>1, <1>3 DEF Kept, Fate, Request
<1>4. CASE calls # <<>> /\ i = c.req /\ Started(q, p, c)
  BY <1>1, <1>2, <1>4 DEF Started, Fate, Request
<1>5. CASE calls # <<>> /\ i = c.req /\ Returned(q, p, c)
  BY <1>1, <1>2, <1>5 DEF Returned, Fate, Request
<1>6. CASE calls # <<>> /\ i = c.req /\ Finished(q, p, c)
  BY <1>1, <1>2, <1>6 DEF Finished, Fate, Request
<1> QED BY <1>3, <1>4, <1>5, <1>6 DEF Moves

\* What such a step leaves alone.
LEMMA QueueingFrame ==
    ASSUME TypeOK, Sent, Queueing
    PROVE /\ calls' \in Seq(Call) /\ Len(calls') <= MaxCalls /\ InFlight' \subseteq InFlight
          /\ worker' \in Worker /\ worker'.at = worker.at /\ worker'.req = worker.req
          /\ worker'.fresh = worker.fresh
          /\ alive' = alive /\ proc' = proc /\ log' = log /\ session' = session /\ leaf' = leaf
          /\ requests' \in Seq(Request) /\ DOMAIN requests \subseteq DOMAIN requests'
          /\ DOMAIN requests = 1..Len(requests) /\ DOMAIN requests' = 1..Len(requests')
          /\ Len(requests) \in Nat /\ Len(requests') \in Nat /\ Len(requests) <= Len(requests')
<1>1. calls' \in Seq(Call) /\ Len(calls') <= MaxCalls /\ InFlight' \subseteq InFlight
  <2>1. CASE calls' = calls
    BY <2>1 DEF TypeOK, InFlight
  <2>2. CASE calls # <<>> /\ calls' = Tail(calls)
    BY <2>2, Oldest DEF InFlight
  <2> QED BY <2>1, <2>2 DEF Queueing
<1>2. /\ worker' \in Worker /\ worker'.at = worker.at /\ worker'.req = worker.req
      /\ worker'.fresh = worker.fresh
  <2>1. worker \in Worker
    BY DEF TypeOK
  <2>2. CASE worker' = worker
    BY <2>1, <2>2
  <2>3. ASSUME NEW told \in BOOLEAN, worker' = [worker EXCEPT !.told = told]
        PROVE /\ worker' \in Worker /\ worker'.at = worker.at /\ worker'.req = worker.req
              /\ worker'.fresh = worker.fresh
    BY <2>1, <2>3 DEF Worker
  <2> QED BY <2>2, <2>3 DEF Queueing
<1>3. requests \in Seq(Request) /\ requests' \in Seq(Request) /\ Len(requests) <= Len(requests')
  BY DEF TypeOK, Queueing, Writes
<1>4. /\ DOMAIN requests = 1..Len(requests) /\ DOMAIN requests' = 1..Len(requests')
      /\ Len(requests) \in Nat /\ Len(requests') \in Nat
  BY <1>3
<1>5. DOMAIN requests \subseteq DOMAIN requests'
  BY <1>3, <1>4
<1>6. proc' = proc /\ log' = log /\ session' = session
  BY DEF Queueing
<1> QED BY <1>1, <1>2, <1>3, <1>4, <1>5, <1>6 DEF alive, leaf

\* Each request that was there before such a step.
LEMMA QueueingFates ==
    ASSUME TypeOK, Sent, Queueing, NEW i \in DOMAIN requests
    PROVE Fate(requests[i], requests'[i], i)
BY Fates DEF Queueing, Writes

\* The parts of the invariant that speak of one request, call or claim survive
\* a step of the ledger: what a claim rests on is undone only by its own process.
LEMMA QueueingKeeps ==
    ASSUME TypeOK, Facts, Queueing
    PROVE /\ Anchored' /\ Sent' /\ Awaited' /\ Claiming'
          /\ HandingBack' /\ Compacting' /\ Followed' /\ Completed'
<1> USE DEF Facts
<1>0. /\ proc \in 1..MaxProcs /\ requests \in Seq(Request) /\ worker \in Worker
      /\ log \in Seq(Nat) /\ DOMAIN log = 1..Len(log) /\ Len(log) \in Nat
  BY DEF TypeOK
<1>1. Anchored'
  <2>1. ASSUME NEW i \in DOMAIN requests'
        PROVE LET p == requests'[i] IN
              /\ p.anchor.leaf <= Len(log)
              /\ p.status = "queued" => p.claim = 0 /\ p.anchor = NoAnchor
              /\ p.status = "running" => p.claim # 0
              /\ p.claim # 0 => p.anchor # NoAnchor
    <3>1. CASE i \in DOMAIN requests
      <4>1. Fate(requests[i], requests'[i], i)
        BY <3>1, QueueingFates
      <4>2. \A c \in InFlight : c \in Call => c.by # 0
        BY CallFields, Bounds
      <4>3. NoAnchor.leaf <= Len(log)
        BY <1>0 DEF NoAnchor
      <4> QED BY <3>1, <4>1, <4>2, <4>3 DEF Fate, Anchored, Sent, Sound, is_open
    <3>2. CASE i \notin DOMAIN requests
      <4>1. Minted(requests'[i])
        BY <3>2 DEF Queueing, Writes, New
      <4> QED BY <1>0, <4>1 DEF Minted, NoAnchor
    <3> QED BY <3>1, <3>2
  <2>2. log' = log
    BY QueueingFrame
  <2> QED BY <2>1, <2>2 DEF Anchored
<1>2. Sent'
  <2>1. ASSUME NEW c \in InFlight' PROVE Sound(c)'
    <3>1. c \in InFlight /\ Sound(c) /\ c \in Call
      <4>1. c \in InFlight
        BY <2>1, QueueingFrame
      <4>2. c \in Call
        BY <4>1 DEF TypeOK, InFlight
      <4> QED BY <4>1, <4>2 DEF Sent
    <3>2. proc' = proc /\ log' = log
      BY QueueingFrame
    <3>3. CASE c.verb = "recover"
      BY <3>1, <3>2, <3>3 DEF Sound
    <3>4. CASE c.verb # "recover"
      <4> DEFINE q == requests[c.req]
                 p == requests'[c.req]
      <4>1. c.req \in DOMAIN requests /\ c.req \in DOMAIN requests'
        BY <3>1, <3>4, QueueingFrame DEF Sound
      <4>2. Fate(q, p, c.req)
        BY <4>1, QueueingFates
      <4>3. \A d \in InFlight : d.verb = "defer" /\ d.req = c.req /\ owns(d, q) => Moved(q.anchor)
        BY DEF Sent, Sound
      <4>4. c.verb = "defer" /\ p.status = "running" /\ p.claim = c.by => Moved(p.anchor)
        <5> SUFFICES ASSUME c.verb = "defer", p.status = "running", p.claim = c.by
                     PROVE Moved(p.anchor)
          OBVIOUS
        <5>1. \A d \in InFlight : d.verb = "start" => d.by # c.by
          BY <3>1 DEF Awaited
        <5>2. q.status = "running" /\ q.claim = c.by /\ p.anchor = q.anchor
          BY <4>2, <5>1 DEF Fate, is_open
        <5> QED BY <3>1, <4>3, <5>2 DEF owns
      <4>5. c.verb = "finish" /\ c.entry # 0 => p.status # "queued" /\ Proved(p, c.entry)
        <5> SUFFICES ASSUME c.verb = "finish", c.entry # 0
                     PROVE p.status # "queued" /\ Proved(p, c.entry)
          OBVIOUS
        <5>1. q.status # "queued" /\ Proved(q, c.entry)
          BY <3>1 DEF Sound
        <5>2. ~Moved(q.anchor)
          BY <5>1 DEF Proved, Moved
        <5>3. p.status # "queued" /\ p.anchor = q.anchor
          BY <4>2, <4>3, <5>1, <5>2 DEF Fate, is_open
        <5> QED BY <5>1, <5>3 DEF Proved
      <4> QED BY <3>1, <3>2, <4>1, <4>4, <4>5 DEF Sound, owns, Moved, Proved
    <3> QED BY <3>3, <3>4
  <2> QED BY <2>1 DEF Sent
<1>3. Awaited'
  BY QueueingFrame DEF Awaited
<1>4. ASSUME NEW r \in DOMAIN requests, requests'[r].claim = proc, alive,
             worker.at = "claiming" => worker.req = r
      PROVE \/ requests'[r].anchor = requests[r].anchor /\ requests[r].claim = proc
            \/ \E c \in InFlight : /\ c.verb = "start" /\ c.by = proc
                                   /\ requests'[r].anchor = c.anchor
  <2>1. Fate(requests[r], requests'[r], r)
    BY QueueingFates
  <2> QED BY <1>0, <1>4, <2>1 DEF Fate
<1>5. Claiming'
  <2> SUFFICES ASSUME worker.at = "claiming"
               PROVE /\ requests'[worker.req].claim = proc => Fits(requests'[worker.req].anchor)
                     /\ worker'.told => requests'[worker.req].claim = proc
    <3>1. worker.at = "claiming" =>
             \A c \in InFlight' : c.verb = "start" /\ c.by = proc => Fits(c.anchor)
      BY QueueingFrame DEF Claiming
    <3> QED BY <3>1, QueueingFrame DEF Claiming, Mine, Fits, Moved
  <2> DEFINE r == worker.req
  <2>1. worker.at = "claiming" /\ alive /\ r \in DOMAIN requests
    BY QueueingFrame DEF Named, alive
  <2>2. ASSUME requests'[r].claim = proc PROVE Fits(requests'[r].anchor)
    BY <1>4, <2>1, <2>2 DEF Claiming, Mine
  <2>3. ASSUME worker'.told PROVE requests'[r].claim = proc
    <3>1. CASE requests'[r].claim = proc
      BY <3>1
    <3>2. CASE worker.told
      <4>1. requests[r].claim = proc
        BY <2>1, <3>2 DEF Claiming, Mine
      <4>2. \A c \in InFlight : c.verb = "defer" => c.by # proc
        BY <2>1 DEF Awaited
      <4>3. requests[r].status # "queued"
        BY <1>0, <2>1, <4>1 DEF Anchored
      <4> QED BY <2>1, <4>1, <4>2, <4>3, QueueingFates DEF Fate, owns
    <3> QED BY <2>1, <2>3, <3>1, <3>2 DEF Queueing
  <2> QED BY <2>2, <2>3
<1>6. HandingBack'
  <2> SUFFICES ASSUME worker.at \in {"deferring", "returning"}, requests'[worker.req].claim = proc
               PROVE Moved(requests'[worker.req].anchor)
    BY QueueingFrame DEF HandingBack, Mine, Moved
  <2>1. worker.req \in DOMAIN requests /\ alive
    BY DEF Named, alive
  <2>2. \A c \in InFlight : c.verb = "start" => c.by # proc
    BY <2>1 DEF Awaited
  <2>3. requests'[worker.req].anchor = requests[worker.req].anchor /\ Mine(worker.req)
    BY <1>4, <2>1, <2>2 DEF Mine
  <2> QED BY <2>3 DEF HandingBack
<1>7. Compacting'
  <2> SUFFICES ASSUME worker.at = "compacting"
               PROVE requests'[worker.req].claim = proc /\ requests'[worker.req].anchor = leaf
    BY QueueingFrame DEF Compacting, Mine
  <2> DEFINE r == worker.req
  <2>1. r \in DOMAIN requests /\ alive
    BY DEF Named, alive
  <2>2. requests[r].claim = proc /\ requests[r].anchor = leaf /\ requests[r].status # "queued"
    BY <1>0, <2>1 DEF Compacting, Mine, Anchored
  <2>3. \A c \in InFlight : c.verb = "defer" => c.by # proc
    BY <2>1 DEF Awaited
  <2>4. Fate(requests[r], requests'[r], r)
    BY <2>1, QueueingFates
  <2> QED BY <2>2, <2>3, <2>4 DEF Fate, owns
<1>8. Followed'
  <2>1. ASSUME NEW k \in DOMAIN log, log[k] # 0
        PROVE LET p == requests'[log[k]] IN
              p.status # "queued" /\ p.anchor # NoAnchor /\ k = p.anchor.leaf + 1
    <3> DEFINE r == log[k]
               q == requests[r]
    <3>1. r \in DOMAIN requests
      <4>1. r \in Nat /\ r <= Len(requests) /\ r # 0
        BY <1>0, <2>1 DEF Named
      <4> QED BY <1>0, <4>1
    <3>2. q.status # "queued" /\ q.anchor # NoAnchor /\ k = q.anchor.leaf + 1
      BY <2>1 DEF Followed
    <3>3. ~Moved(q.anchor)
      BY <2>1, <3>2 DEF Moved
    <3>4. \A c \in InFlight : c.verb = "defer" /\ c.req = r => ~owns(c, q)
      BY <3>3 DEF Sent, Sound
    <3>5. Fate(q, requests'[r], r)
      BY <3>1, QueueingFates
    <3> QED BY <3>2, <3>4, <3>5 DEF Fate, is_open
  <2>2. log' = log
    BY QueueingFrame
  <2> QED BY <2>1, <2>2 DEF Followed
<1>9. Completed'
  <2>1. ASSUME NEW i \in DOMAIN requests', requests'[i].status = "completed"
        PROVE Proved(requests'[i], requests'[i].entry)
    <3>1. i \in DOMAIN requests
      BY <2>1 DEF Queueing, Writes, New, Minted
    <3>2. Fate(requests[i], requests'[i], i)
      BY <3>1, QueueingFates
    <3>3. \A c \in InFlight : c.verb = "finish" /\ c.req = i /\ c.entry # 0 =>
             Proved(requests[i], c.entry)
      BY DEF Sent, Sound
    <3>4. \/ /\ requests[i].status = "completed" /\ requests'[i].anchor = requests[i].anchor
             /\ requests'[i].entry = requests[i].entry
          \/ /\ requests'[i].anchor = requests[i].anchor
             /\ Proved(requests[i], requests'[i].entry)
      BY <2>1, <3>2, <3>3 DEF Fate
    <3> QED BY <3>1, <3>4 DEF Completed, Proved
  <2>2. log' = log
    BY QueueingFrame
  <2> QED BY <2>1, <2>2 DEF Completed, Proved
<1> QED BY <1>1, <1>2, <1>3, <1>5, <1>6, <1>7, <1>8, <1>9

\* Where the asks of the requests that are minted come from.
LEMMA MintedAsks ==
    ASSUME TypeOK, Facts, Queueing, NEW i \in New
    PROVE \/ FirstAttempt /\ i = Len(requests) + 1 /\ requests'[i].ask = i
          \/ \E j \in DOMAIN requests :
                /\ requests[j].status = "running" /\ requests'[j].status = "failed"
                /\ requests'[i].ask = requests[j].ask
                /\ requests'[i].attempt = requests[j].attempt + 1
<1> USE DEF Facts
<1>1. i \in Nat /\ i > Len(requests) /\ i <= Len(requests')
  BY QueueingFrame DEF New
<1>2. Len(requests) \in Nat /\ Len(requests') \in Nat
  BY QueueingFrame
<1>3. CASE Len(requests') = Len(requests)
  BY <1>1, <1>2, <1>3
<1>4. CASE FirstAttempt
  <2>1. i = Len(requests) + 1
    BY <1>1, <1>2, <1>4 DEF FirstAttempt
  <2> QED BY <1>4, <2>1 DEF FirstAttempt
<1>5. CASE NextAttempts
  BY <1>5 DEF NextAttempts
<1> QED BY <1>3, <1>4, <1>5 DEF Queueing, Writes

\* Asks stay named by their first attempt.
LEMMA QueueingNames ==
    ASSUME TypeOK, Facts, Queueing
    PROVE Named'
<1> USE DEF Facts
<1>1. ASSUME NEW i \in DOMAIN requests
      PROVE /\ requests[i].ask \in 1..i /\ requests[i].ask \in DOMAIN requests
            /\ requests'[i].ask = requests[i].ask
            /\ requests'[requests[i].ask].ask = requests[i].ask
  <2>1. requests[i].ask \in 1..i /\ requests[requests[i].ask].ask = requests[i].ask
    BY DEF Named
  <2>2. requests[i].ask \in DOMAIN requests
    BY <2>1, QueueingFrame
  <2>3. requests'[i].ask = requests[i].ask
    BY QueueingFates DEF Fate
  <2>4. requests'[requests[i].ask].ask = requests[requests[i].ask].ask
    BY <2>2, QueueingFates DEF Fate
  <2> QED BY <2>1, <2>2, <2>3, <2>4
<1>2. ASSUME NEW i \in DOMAIN requests'
      PROVE requests'[i].ask \in 1..i /\ requests'[requests'[i].ask].ask = requests'[i].ask
  <2>1. CASE i \in DOMAIN requests
    BY <1>1, <2>1
  <2>2. CASE i \in New
    <3>1. i \in Nat \ {0} /\ i > Len(requests) /\ Len(requests) \in Nat
      BY <2>2, QueueingFrame DEF New
    <3>2. CASE requests'[i].ask = i
      BY <3>1, <3>2
    <3>3. ASSUME NEW j \in DOMAIN requests, requests'[i].ask = requests[j].ask
          PROVE requests'[i].ask \in 1..i /\ requests'[requests'[i].ask].ask = requests'[i].ask
      <4>1. requests[j].ask \in 1..j /\ j \in 1..Len(requests)
        BY <1>1, QueueingFrame
      <4>2. requests[j].ask \in 1..i
        BY <3>1, <4>1
      <4> QED BY <1>1, <3>3, <4>2
    <3> QED BY <2>2, <3>2, <3>3, MintedAsks
  <2> QED BY <2>1, <2>2 DEF New
<1>3. worker.at \in {"claiming", "compacting", "deferring", "returning"} =>
         worker.req \in DOMAIN requests'
  BY QueueingFrame DEF Named
<1>4. ASSUME NEW k \in DOMAIN log PROVE log[k] <= Len(requests')
  <2>1. log[k] \in Nat /\ log[k] <= Len(requests)
    BY DEF TypeOK, Named
  <2> QED BY <2>1, QueueingFrame
<1> QED BY <1>2, <1>3, <1>4, QueueingFrame DEF Named

\* A request that is closed stays closed.
LEMMA StaysClosed ==
    ASSUME TypeOK, Facts, Queueing, NEW i \in DOMAIN requests, ~is_open(requests[i])
    PROVE ~is_open(requests'[i])
<1>1. Fate(requests[i], requests'[i], i)
  BY QueueingFates DEF Facts
<1> QED BY <1>1 DEF Fate, is_open, owns

\* An ask gets a new attempt only as its last one fails, and only one.
LEMMA QueueingOneOpen ==
    ASSUME TypeOK, Facts, Queueing
    PROVE OneOpen'
<1> USE DEF Facts
<1> SUFFICES ASSUME NEW i \in DOMAIN requests', NEW k \in DOMAIN requests',
                    i < k, requests'[i].ask = requests'[k].ask
             PROVE ~is_open(requests'[i])
  BY DEF OneOpen, is_open
<1>1. i \in Nat /\ k \in Nat /\ DOMAIN requests = 1..Len(requests) /\ Len(requests) \in Nat
  BY QueueingFrame
<1>2. CASE k \in DOMAIN requests
  <2>1. i \in DOMAIN requests
    BY <1>1, <1>2, QueueingFrame
  <2>2. requests[i].ask = requests[k].ask
    BY <1>2, <2>1, QueueingFates DEF Fate
  <2> QED BY <1>2, <2>1, <2>2, StaysClosed DEF OneOpen
<1>3. CASE k \in New
  <2>1. CASE i \in DOMAIN requests
    <3>1. requests[i].ask = requests'[i].ask /\ requests[i].ask \in 1..i
      BY <2>1, QueueingFates DEF Fate, Named
    <3>2. requests'[k].ask # k
      BY <1>1, <3>1
    <3>3. PICK j \in DOMAIN requests : /\ requests[j].status = "running" /\ requests'[j].status = "failed"
                                       /\ requests'[k].ask = requests[j].ask
      BY <1>3, <3>2, MintedAsks
    <3>4. CASE i < j
      BY <2>1, <3>1, <3>3, <3>4, StaysClosed DEF OneOpen
    <3>5. CASE i = j
      BY <3>3, <3>5 DEF is_open
    <3>6. CASE j < i
      BY <2>1, <3>1, <3>3, <3>6 DEF OneOpen, is_open
    <3> QED BY <1>1, <3>4, <3>5, <3>6
  <2>2. CASE i \in New
    <3>1. CASE Len(requests') = Len(requests) \/ FirstAttempt
      <4>1. Len(requests') <= Len(requests) + 1
        BY <1>1, <3>1 DEF FirstAttempt
      <4>2. i > Len(requests) /\ k <= Len(requests')
        BY <1>1, <1>3, <2>2, QueueingFrame DEF New
      <4>3. Len(requests') \in Nat
        BY QueueingFrame
      <4> QED BY <1>1, <4>1, <4>2, <4>3
    <3>2. CASE NextAttempts
      <4>1. PICK f \in [New -> DOMAIN requests] :
               /\ \A x, y \in New : f[x] = f[y] => x = y
               /\ \A x \in New : /\ requests[f[x]].status = "running"
                                 /\ requests'[x].ask = requests[f[x]].ask
        BY <3>2 DEF NextAttempts
      <4> DEFINE x == f[i]
                 y == f[k]
      <4>2. /\ x \in DOMAIN requests /\ y \in DOMAIN requests
            /\ requests[x].status = "running" /\ requests[y].status = "running"
            /\ requests[x].ask = requests[y].ask
        BY <1>3, <2>2, <4>1
      <4>3. x # y
        BY <1>1, <1>3, <2>2, <4>1
      <4>4. x < y \/ y < x
        BY <1>1, <4>2, <4>3
      <4> HIDE DEF x, y
      <4> QED BY <4>2, <4>4 DEF OneOpen, is_open
    <3> QED BY <3>1, <3>2 DEF Queueing, Writes
  <2> QED BY <2>1, <2>2 DEF New
<1> QED BY <1>2, <1>3 DEF New

\* A new ask is a window after the newest of its family, and so after them all.
LEMMA QueueingSpaces ==
    ASSUME TypeOK, Facts, MintsAreSpaced, Queueing
    PROVE MintsAreSpaced'
<1> USE DEF Facts
<1> SUFFICES ASSUME NEW i \in DOMAIN requests', NEW k \in DOMAIN requests',
                    i < k, requests'[i].ask = i, requests'[k].ask = k,
                    requests'[i].force = requests'[k].force
             PROVE requests'[k].at - requests'[i].at > Window
  BY DEF MintsAreSpaced
<1>1. i \in Nat /\ k \in Nat /\ DOMAIN requests = 1..Len(requests) /\ Len(requests) \in Nat
  BY QueueingFrame
<1>2. \A j \in DOMAIN requests :
         /\ requests'[j].ask = requests[j].ask /\ requests'[j].force = requests[j].force
         /\ requests'[j].at = requests[j].at
  BY QueueingFates DEF Fate
<1>3. CASE k \in DOMAIN requests
  <2>1. i \in DOMAIN requests
    BY <1>1, <1>3, QueueingFrame
  <2> QED BY <1>2, <1>3, <2>1 DEF MintsAreSpaced
<1>4. CASE k \in New
  <2>1. FirstAttempt /\ k = Len(requests) + 1
    <3>1. ASSUME NEW j \in DOMAIN requests, requests'[k].ask = requests[j].ask PROVE FALSE
      <4>1. requests[j].ask \in 1..j /\ j \in 1..Len(requests)
        BY <1>1 DEF Named
      <4> QED BY <1>1, <1>4, <3>1, <4>1 DEF New
    <3> QED BY <1>4, <3>1, MintedAsks
  <2>2. i \in DOMAIN requests
    BY <1>1, <2>1, QueueingFrame
  <2> DEFINE S == family(requests, requests'[k].force)
             m == Max(S)
  <2>3. i \in S
    BY <1>2, <2>2 DEF family
  <2>4. \A j \in S : /\ j \in 1..Len(requests) /\ requests[j].ask = j
                     /\ requests[j].force = requests'[k].force
    BY <1>1 DEF family
  <2>5. requests'[k].at - requests[m].at > Window
    BY <2>1, <2>3 DEF FirstAttempt
  <2> HIDE DEF S
  <2>6. m \in S /\ i <= m
    BY <1>1, <2>3, <2>4, Largest
  <2>7. i < m => requests[m].at - requests[i].at > Window
    BY <1>1, <1>2, <2>2, <2>4, <2>6 DEF MintsAreSpaced
  <2>8. requests[m].at \in Nat /\ requests[i].at \in Nat /\ requests'[k].at \in Nat
    <3>1. \A q \in Request : q.at \in Nat
      BY Bounds DEF Request
    <3>2. requests[m] \in Request /\ requests[i] \in Request /\ requests'[k] \in Request
      BY <1>1, <2>2, <2>4, <2>6, QueueingFrame DEF TypeOK
    <3> QED BY <3>1, <3>2
  <2>9. m \in Nat /\ requests'[i].at = requests[i].at
    BY <1>2, <2>2, <2>4, <2>6
  <2> HIDE DEF m
  <2>10. CASE i = m
    BY <2>5, <2>9, <2>10
  <2>11. CASE i < m
    BY <2>5, <2>7, <2>8, <2>9, <2>11, Bounds
  <2> QED BY <1>1, <2>6, <2>9, <2>10, <2>11
<1> QED BY <1>3, <1>4 DEF New

(***************************************************************************)
(* The steps of the worker that leave ledger and transcript as they are     *)
(***************************************************************************)

Standing ==
    /\ UNCHANGED <<requests, employed, proc, log, session, duty>>
    /\ worker' \in Worker /\ calls' \in Seq(Call) /\ Len(calls') <= MaxCalls

\* The process has neither a claim nor a return under way.
Free == \A c \in InFlight : c.by = proc => c.verb \notin {"start", "defer"}

\* Nothing is claimed, or the process is gone.
Settles ==
    /\ Standing /\ worker'.at \in {"down", "receipt", "recover", "ready", "unready"}
    /\ worker'.at = "down" \/ Free
    /\ \A c \in InFlight' : c \in InFlight \/ (Sound(c) /\ c.verb \notin {"start", "defer"})

\* A claim anchored where the transcript stands.
AtLeaf(c) == Sound(c) /\ c.verb = "start" /\ c.by = proc /\ c.anchor = leaf

BeginsClaiming ==
    /\ Standing /\ worker'.at = "claiming" /\ worker'.fresh /\ ~worker'.told /\ Free
    /\ worker'.req \in DOMAIN requests /\ requests[worker'.req].claim = 0
    /\ \A c \in InFlight' : c \in InFlight \/ (AtLeaf(c) /\ c.req = worker'.req)

BeginsCompacting ==
    /\ Standing /\ worker'.at = "compacting" /\ Free
    /\ worker'.req \in DOMAIN requests /\ Mine(worker'.req)
    /\ requests[worker'.req].anchor = leaf
    /\ InFlight' \subseteq InFlight

HandsBack ==
    /\ Standing /\ worker'.at \in {"deferring", "returning"} /\ Free
    /\ worker'.req \in DOMAIN requests
    /\ Mine(worker'.req) => Moved(requests[worker'.req].anchor)
    /\ \A c \in InFlight' :
          \/ c \in InFlight
          \/ /\ Sound(c) /\ c.verb = "defer" /\ c.by = proc
             /\ worker'.at = "returning" /\ c.req = worker'.req

\* What such a step cannot disturb.
LEMMA Stands ==
    ASSUME TypeOK, Facts, Standing,
           worker'.at \in {"claiming", "compacting", "deferring", "returning"} =>
               worker'.req \in DOMAIN requests,
           \A c \in InFlight' : c \in InFlight \/ Sound(c)
    PROVE TypeOK' /\ Named' /\ Anchored' /\ Sent' /\ Followed' /\ Completed' /\ OneOpen'
<1>1. UNCHANGED <<requests, employed, proc, log, session, duty>>
  BY DEF Standing
<1>2. TypeOK'
  BY <1>1 DEF TypeOK, Standing
<1>3. Named'
  BY <1>1 DEF Named, Facts
<1>4. Anchored'
  BY <1>1 DEF Anchored, Facts
<1>5. Sent'
  <2>1. ASSUME NEW c, Sound(c) PROVE Sound(c)'
    BY <1>1, <2>1 DEF Sound, Moved, Proved, owns
  <2>2. ASSUME NEW c \in InFlight' PROVE Sound(c)'
    BY <2>1, <2>2 DEF Facts, Sent
  <2> QED BY <2>2 DEF Sent
<1>6. Followed' /\ Completed'
  BY <1>1 DEF Followed, Completed, Proved, Facts
<1>7. OneOpen'
  BY <1>1 DEF OneOpen, is_open, Facts
<1> QED BY <1>2, <1>3, <1>4, <1>5, <1>6, <1>7

\* With no claim under way, the invariant says nothing more of the worker.
LEMMA SettlesKeeps ==
    ASSUME TypeOK, Facts, Settles
    PROVE TypeOK' /\ Facts'
<1>1. Standing
  BY DEF Settles
<1>2. TypeOK' /\ Named' /\ Anchored' /\ Sent' /\ Followed' /\ Completed' /\ OneOpen'
  BY <1>1, Stands DEF Settles
<1>3. Awaited'
  BY DEF Settles, Standing, Free, Awaited, alive, Facts
<1>4. Claiming' /\ HandingBack' /\ Compacting'
  BY DEF Settles, Claiming, HandingBack, Compacting
<1> QED BY <1>2, <1>3, <1>4 DEF Facts

\* A claim is sent with the leaf as its anchor.
LEMMA BeginsClaimingKeeps ==
    ASSUME TypeOK, Facts, BeginsClaiming
    PROVE TypeOK' /\ Facts'
<1>1. Standing
  BY DEF BeginsClaiming
<1>2. TypeOK' /\ Named' /\ Anchored' /\ Sent' /\ Followed' /\ Completed' /\ OneOpen'
  BY <1>1, Stands DEF BeginsClaiming, AtLeaf
<1>3. Awaited'
  BY DEF BeginsClaiming, AtLeaf, Standing, Free, Awaited, alive, Facts
<1>4. Claiming'
  <2>1. requests'[worker'.req].claim # proc'
    <3>1. requests' = requests /\ proc' = proc /\ proc # 0 /\ requests[worker'.req].claim = 0
      BY Bounds DEF BeginsClaiming, Standing, TypeOK
    <3> QED BY <3>1
  <2>2. ASSUME NEW c \in InFlight', c.verb = "start", c.by = proc PROVE c.anchor = leaf
    BY <2>2 DEF BeginsClaiming, Free, AtLeaf
  <2>3. leaf.leaf = Len(log)
    BY DEF leaf
  <2>4. log' = log /\ proc' = proc /\ worker'.fresh /\ ~worker'.told
    BY DEF BeginsClaiming, Standing
  <2> QED BY <2>1, <2>2, <2>3, <2>4 DEF Claiming, Fits, Mine
<1>5. HandingBack' /\ Compacting'
  BY DEF BeginsClaiming, HandingBack, Compacting
<1> QED BY <1>2, <1>3, <1>4, <1>5 DEF Facts

\* A compaction begins on a claim anchored at the leaf.
LEMMA BeginsCompactingKeeps ==
    ASSUME TypeOK, Facts, BeginsCompacting
    PROVE TypeOK' /\ Facts'
<1>1. Standing
  BY DEF BeginsCompacting
<1>2. TypeOK' /\ Named' /\ Anchored' /\ Sent' /\ Followed' /\ Completed' /\ OneOpen'
  BY <1>1, Stands DEF BeginsCompacting
<1>3. Awaited'
  BY DEF BeginsCompacting, Standing, Free, Awaited, alive, Facts
<1>4. Compacting'
  BY DEF BeginsCompacting, Standing, Compacting, Mine, leaf
<1>5. HandingBack' /\ Claiming'
  BY DEF BeginsCompacting, HandingBack, Claiming
<1> QED BY <1>2, <1>3, <1>4, <1>5 DEF Facts

\* A claim is handed back when a turn has followed its anchor.
LEMMA HandsBackKeeps ==
    ASSUME TypeOK, Facts, HandsBack
    PROVE TypeOK' /\ Facts'
<1>1. Standing
  BY DEF HandsBack
<1>2. TypeOK' /\ Named' /\ Anchored' /\ Sent' /\ Followed' /\ Completed' /\ OneOpen'
  BY <1>1, Stands DEF HandsBack
<1>3. Awaited'
  BY DEF HandsBack, Standing, Free, Awaited, alive, Facts
<1>4. HandingBack'
  BY DEF HandsBack, Standing, HandingBack, Mine, Moved
<1>5. Compacting' /\ Claiming'
  BY DEF HandsBack, Compacting, Claiming
<1> QED BY <1>2, <1>3, <1>4, <1>5 DEF Facts

\* A call that is sent is the only one new on its way.
LEMMA Posted ==
    ASSUME TypeOK, NEW c \in Call, Post(c)
    PROVE /\ calls' \in Seq(Call) /\ Len(calls') <= MaxCalls
          /\ \A d \in InFlight' : d \in InFlight \/ d = c
<1>1. /\ calls \in Seq(Call) /\ Len(calls) < MaxCalls /\ calls' = Append(calls, c)
      /\ Len(calls) \in Nat
  BY DEF TypeOK, Post
<1>2. /\ calls' \in Seq(Call) /\ Len(calls') = Len(calls) + 1
      /\ \A k \in 1..Len(calls) : calls'[k] = calls[k]
      /\ calls'[Len(calls) + 1] = c
  BY <1>1, AppendProperties
<1>3. ASSUME NEW k \in DOMAIN calls' PROVE calls'[k] \in InFlight \/ calls'[k] = c
  <2>1. k \in 1..Len(calls) \/ k = Len(calls) + 1
    BY <1>1, <1>2
  <2> QED BY <1>1, <1>2, <2>1 DEF InFlight
<1>4. Len(calls') <= MaxCalls
  BY <1>1, <1>2, Bounds
<1> QED BY <1>2, <1>3, <1>4 DEF InFlight

\* No call is sent.
LEMMA Unposted ==
    ASSUME TypeOK, UNCHANGED calls
    PROVE calls' \in Seq(Call) /\ Len(calls') <= MaxCalls /\ InFlight' = InFlight
BY DEF TypeOK, InFlight

\* Where the worker goes, by its fields.
LEMMA Goes ==
    ASSUME NEW at \in {"down", "boot", "receipt", "recover", "unready", "ready",
                       "claiming", "compacting", "deferring", "returning"},
           NEW r \in Nat, goes(at, r)
    PROVE /\ worker' \in Worker /\ worker'.at = at /\ worker'.req = r
          /\ worker'.fresh /\ ~worker'.told
BY DEF goes, Worker

\* The fields of a plain call.
LEMMA CallType ==
    ASSUME TypeOK, NEW verb \in {"start", "defer", "finish", "recover"}, NEW r \in Nat
    PROVE /\ call(verb, r) \in Call /\ call(verb, r).verb = verb /\ call(verb, r).by = proc
          /\ call(verb, r).req = r /\ call(verb, r).anchor = NoAnchor
          /\ call(verb, r).outcome = "failed" /\ call(verb, r).entry = 0
BY Bounds DEF TypeOK, call, Call, NoAnchor, Anchors, Statuses

\* A recovery is sound whatever it finds,
LEMMA RecoverCall ==
    ASSUME TypeOK
    PROVE /\ Sound(call("recover", 0)) /\ call("recover", 0) \in Call
          /\ call("recover", 0).verb = "recover"
<1>1. proc \in Nat /\ Len(log) \in Nat
  BY Bounds DEF TypeOK
<1> QED BY <1>1, CallType DEF Sound, NoAnchor

\* and so is a verdict that names no entry.
LEMMA FailedCall ==
    ASSUME TypeOK, NEW r \in DOMAIN requests
    PROVE /\ Sound(call("finish", r)) /\ call("finish", r) \in Call
          /\ call("finish", r).verb = "finish"
<1>1. proc \in Nat /\ Len(log) \in Nat /\ r \in Nat
  BY Bounds DEF TypeOK
<1> QED BY <1>1, CallType DEF Sound, NoAnchor

\* The verdict that a claim's anchor and the transcript give is sound.
LEMMA Receipts ==
    ASSUME TypeOK, Facts, NEW r \in DOMAIN requests, requests[r].status # "queued"
    PROVE /\ Sound(receipt(r)) /\ receipt(r) \in Call /\ receipt(r).verb = "finish"
<1> DEFINE a == requests[r].anchor
           c == [call("finish", r) EXCEPT !.outcome = "completed", !.entry = a.leaf + 1]
<1>1. /\ proc \in 1..MaxProcs /\ proc \in Nat /\ r \in Nat /\ a \in Anchors
      /\ Len(log) \in Nat /\ DOMAIN log = 1..Len(log) /\ Len(log) <= MaxEntries
      /\ requests[r] \in Request
  BY Bounds, RequestFields DEF TypeOK
<1>2. CASE proof(a) # "proven"
  <2>1. receipt(r) = call("finish", r)
    BY <1>2 DEF receipt
  <2> QED BY <2>1, FailedCall
<1>3. CASE proof(a) = "proven"
  <2>1. a # NoAnchor /\ Len(log) # a.leaf /\ log[a.leaf + 1] # 0
    BY <1>3 DEF proof
  <2>2. a.leaf \in Nat /\ a.leaf <= Len(log)
    BY <1>1, Bounds DEF Anchors, Facts, Anchored
  <2>3. a.leaf + 1 \in DOMAIN log /\ a.leaf + 1 \in 0..MaxEntries
    BY <1>1, <2>1, <2>2, Bounds
  <2>4. receipt(r) = c
    BY <1>3 DEF receipt
  <2> DEFINE d == call("finish", r)
             e == a.leaf + 1
  <2>5. /\ d \in Call /\ d.verb = "finish" /\ d.by = proc /\ d.req = r /\ d.anchor = NoAnchor
    BY <1>1, CallType
  <2> HIDE DEF d, e
  <2>6. e \in 0..MaxEntries /\ "completed" \in Statuses /\ c = [d EXCEPT !.outcome = "completed", !.entry = e]
    BY <2>3 DEF e, d, Statuses
  <2> HIDE DEF c
  <2>7. /\ c \in Call /\ c.verb = "finish" /\ c.by = proc /\ c.req = r /\ c.anchor = NoAnchor
        /\ c.outcome = "completed" /\ c.entry = e
    BY <2>5, <2>6 DEF Call
  <2>8. Proved(requests[r], e)
    BY <2>1, <2>3 DEF Proved, e
  <2> QED BY <1>1, <2>4, <2>7, <2>8 DEF Sound, NoAnchor
<1> QED BY <1>2, <1>3

\* The worker asks for the ledger's word only when it waits for no other.
LEMMA Frees ==
    ASSUME TypeOK, Facts, alive, worker.at \notin {"claiming", "returning"} \/ answered
    PROVE Free
<1> SUFFICES ASSUME NEW c \in InFlight, c.by = proc, c.verb \in {"start", "defer"}
             PROVE FALSE
  BY DEF Free
<1>1. \/ c.verb = "start" /\ worker.at = "claiming"
      \/ c.verb = "defer" /\ worker.at = "returning"
  BY DEF Facts, Awaited
<1>2. waited_for(c)
  BY <1>1 DEF waited_for, awaited
<1>3. ~waited_for(c)
  BY <1>1 DEF answered, InFlight
<1> QED BY <1>2, <1>3

\* A claim is carried out where it was made, or closed.
LEMMA CarriesOut ==
    ASSUME TypeOK, Facts, NEW r \in DOMAIN requests, Mine(r), Free, CarryOut(r),
           UNCHANGED <<requests, employed, proc, log, session, duty>>
    PROVE Settles \/ BeginsCompacting
<1> DEFINE a == requests[r].anchor
<1>1. /\ proc \in 1..MaxProcs /\ proc # 0 /\ r \in Nat /\ a \in Anchors
      /\ requests[r].claim # 0
  BY Bounds, RequestFields DEF TypeOK, Mine
<1>2. a # NoAnchor /\ requests[r].status # "queued"
  BY <1>1 DEF Facts, Anchored
<1>3. CASE proof(a) = "absent"
  <2>1. goes("compacting", r) /\ UNCHANGED calls
    BY <1>3 DEF CarryOut
  <2>2. a.session = session /\ a.leaf = Len(log)
    BY <1>2, <1>3 DEF proof
  <2>3. a = leaf
    BY <1>1, <2>2 DEF Anchors, leaf
  <2>4. worker' \in Worker /\ worker'.at = "compacting" /\ worker'.req = r
    BY <1>1, <2>1, Goes
  <2>5. calls' \in Seq(Call) /\ Len(calls') <= MaxCalls /\ InFlight' = InFlight
    BY <2>1, Unposted
  <2> QED BY <2>3, <2>4, <2>5 DEF BeginsCompacting, Standing
<1>4. CASE proof(a) # "absent"
  <2>1. goes("ready", 0) /\ Post(receipt(r))
    BY <1>4 DEF CarryOut
  <2>2. Sound(receipt(r)) /\ receipt(r) \in Call /\ receipt(r).verb = "finish"
    BY <1>2, Receipts
  <2>3. worker' \in Worker /\ worker'.at = "ready"
    BY <2>1, Goes
  <2>4. /\ calls' \in Seq(Call) /\ Len(calls') <= MaxCalls
        /\ \A d \in InFlight' : d \in InFlight \/ d = receipt(r)
    BY <2>1, <2>2, Posted
  <2> QED BY <2>2, <2>3, <2>4 DEF Settles, Standing
<1> QED BY <1>3, <1>4

\* Settling with a verdict or a recovery on its way,
LEMMA SettlesPosting ==
    ASSUME TypeOK, Facts, Free, NEW c \in Call, Post(c), Sound(c), c.verb \in {"finish", "recover"},
           NEW at \in {"receipt", "recover", "ready"}, goes(at, 0),
           UNCHANGED <<requests, employed, proc, log, session, duty>>
    PROVE Settles
<1>1. worker' \in Worker /\ worker'.at = at
  BY Goes
<1>2. /\ calls' \in Seq(Call) /\ Len(calls') <= MaxCalls
      /\ \A d \in InFlight' : d \in InFlight \/ d = c
  BY Posted
<1> QED BY <1>1, <1>2 DEF Settles, Standing

\* and with nothing sent.
LEMMA SettlesQuietly ==
    ASSUME TypeOK, UNCHANGED calls,
           NEW at \in {"down", "ready", "unready"}, goes(at, 0), at = "down" \/ Free,
           UNCHANGED <<requests, employed, proc, log, session, duty>>
    PROVE Settles
<1>1. worker' \in Worker /\ worker'.at = at
  BY Goes
<1>2. calls' \in Seq(Call) /\ Len(calls') <= MaxCalls /\ InFlight' = InFlight
  BY Unposted
<1> QED BY <1>1, <1>2 DEF Settles, Standing

\* The steps of the extension, one by one.
LEMMA SessionStartSettles ==
    ASSUME TypeOK, Facts, SessionStart
    PROVE Settles
<1>1. Free /\ UNCHANGED <<requests, employed, proc, log, session, duty>>
  BY Frees DEF SessionStart, alive
<1>2. CASE running # {} /\ Post(receipt(Min(running))) /\ goes("receipt", Min(running))
  <2>1. running \subseteq Nat
    BY DEF running, TypeOK
  <2>2. Min(running) \in DOMAIN requests /\ requests[Min(running)].status = "running"
    BY <1>2, <2>1, Smallest DEF running
  <2>3. /\ Sound(receipt(Min(running))) /\ receipt(Min(running)) \in Call
        /\ receipt(Min(running)).verb = "finish"
    BY <2>2, Receipts
  <2>4. worker' \in Worker /\ worker'.at = "receipt"
    BY <1>2, <2>1, <2>2, Goes DEF TypeOK
  <2>5. /\ calls' \in Seq(Call) /\ Len(calls') <= MaxCalls
        /\ \A d \in InFlight' : d \in InFlight \/ d = receipt(Min(running))
    BY <1>2, <2>3, Posted
  <2> QED BY <1>1, <2>3, <2>4, <2>5 DEF Settles, Standing
<1>3. CASE Post(call("recover", 0)) /\ goes("recover", 0)
  BY <1>1, <1>3, RecoverCall, SettlesPosting
<1>4. CASE goes("ready", 0) /\ UNCHANGED calls
  BY <1>1, <1>4, SettlesQuietly
<1> QED BY <1>2, <1>3, <1>4 DEF SessionStart

LEMMA AnswersSettle ==
    ASSUME TypeOK, Facts, ReceiptAnswered \/ RecoverAnswered
    PROVE Settles
<1>1. Free /\ UNCHANGED <<requests, employed, proc, log, session, duty>>
  BY Frees DEF ReceiptAnswered, RecoverAnswered, alive
<1>2. CASE Post(call("recover", 0)) /\ goes("recover", 0)
  BY <1>1, <1>2, RecoverCall, SettlesPosting
<1>3. CASE goes("ready", 0) /\ UNCHANGED calls
  BY <1>1, <1>3, SettlesQuietly
<1>4. CASE goes("unready", 0) /\ UNCHANGED calls
  BY <1>1, <1>4, SettlesQuietly
<1> QED BY <1>2, <1>3, <1>4 DEF ReceiptAnswered, RecoverAnswered

\* A cycle settles its own request, compacts it, or claims the newest queued one.
LEMMA PollSteps ==
    ASSUME TypeOK, Facts, Poll
    PROVE Settles \/ BeginsClaiming \/ BeginsCompacting
<1>1. Free /\ UNCHANGED <<requests, employed, proc, log, session, duty>>
  BY Frees DEF Poll, alive
<1>2. CASE own # {} /\ CarryOut(Min(own))
  <2>1. own \subseteq Nat
    BY DEF own, running, TypeOK
  <2>2. Min(own) \in DOMAIN requests /\ Mine(Min(own))
    BY <1>2, <2>1, Smallest DEF own, running, Mine
  <2> QED BY <1>1, <1>2, <2>2, CarriesOut
<1>3. CASE /\ queued # {} /\ goes("claiming", Max(queued))
           /\ Post([call("start", Max(queued)) EXCEPT !.anchor = leaf])
  <2> DEFINE r == Max(queued)
             d == call("start", r)
             c == [d EXCEPT !.anchor = leaf]
  <2>1. Len(requests) \in Nat /\ queued \subseteq 1..Len(requests)
    BY DEF queued, TypeOK
  <2>2. r \in queued
    BY <1>3, <2>1, Largest
  <2>3. r \in DOMAIN requests /\ r \in Nat /\ requests[r].claim = 0
    BY <2>1, <2>2 DEF queued, Facts, Anchored
  <2>4. /\ leaf \in Anchors /\ leaf # NoAnchor /\ leaf.leaf = Len(log) /\ Len(log) \in Nat
        /\ proc \in Nat
    BY Bounds DEF leaf, Anchors, NoAnchor, TypeOK
  <2> HIDE DEF r
  <2>5. d \in Call /\ d.verb = "start" /\ d.by = proc /\ d.req = r
    BY <2>3, CallType
  <2> HIDE DEF d
  <2>6. c \in Call /\ c.verb = "start" /\ c.by = proc /\ c.req = r /\ c.anchor = leaf
    BY <2>4, <2>5 DEF Call
  <2> HIDE DEF c
  <2>7. Sound(c)
    BY <2>3, <2>4, <2>6 DEF Sound
  <2>8. goes("claiming", r) /\ Post(c)
    BY <1>3 DEF r, c, d
  <2>9. /\ worker' \in Worker /\ worker'.at = "claiming" /\ worker'.req = r
        /\ worker'.fresh /\ ~worker'.told
    BY <2>3, <2>8, Goes
  <2>10. /\ calls' \in Seq(Call) /\ Len(calls') <= MaxCalls
         /\ \A e \in InFlight' : e \in InFlight \/ e = c
    BY <2>6, <2>8, Posted
  <2> QED BY <1>1, <2>3, <2>6, <2>7, <2>9, <2>10 DEF BeginsClaiming, Standing, AtLeaf
<1> QED BY <1>2, <1>3 DEF Poll

\* A claim is carried out, handed back because a turn made it stale, or not had.
LEMMA ClaimedSteps ==
    ASSUME TypeOK, Facts, Claimed
    PROVE Settles \/ BeginsCompacting \/ HandsBack
<1> DEFINE r == worker.req
<1>1. /\ Free /\ UNCHANGED <<requests, employed, proc, log, session, duty>>
      /\ r \in DOMAIN requests /\ r \in Nat
  BY Frees DEF Claimed, alive, Facts, Named, TypeOK, Worker
<1>2. worker.told \/ r \in own => Mine(r)
  BY DEF Claimed, Facts, Claiming, own, Mine
<1>3. CASE Mine(r) /\ worker.fresh /\ CarryOut(r)
  BY <1>1, <1>3, CarriesOut
<1>4. CASE Mine(r) /\ ~worker.fresh /\ goes("deferring", r) /\ UNCHANGED calls
  <2>1. Moved(requests[r].anchor)
    BY <1>4 DEF Claimed, Facts, Claiming, Fits
  <2>2. worker' \in Worker /\ worker'.at = "deferring" /\ worker'.req = r
    BY <1>1, <1>4, Goes
  <2>3. calls' \in Seq(Call) /\ Len(calls') <= MaxCalls /\ InFlight' = InFlight
    BY <1>4, Unposted
  <2> QED BY <1>1, <2>1, <2>2, <2>3 DEF HandsBack, Standing
<1>5. CASE goes("ready", 0) /\ UNCHANGED calls
  BY <1>1, <1>5, SettlesQuietly
<1> QED BY <1>2, <1>3, <1>4, <1>5 DEF Claimed

\* A claim that is the worker's is handed back with its anchor passed.
LEMMA DeferSteps ==
    ASSUME TypeOK, Facts, Defer
    PROVE Settles \/ HandsBack
<1> DEFINE r == worker.req
<1>1. /\ Free /\ UNCHANGED <<requests, employed, proc, log, session, duty>>
      /\ r \in DOMAIN requests /\ r \in Nat /\ proc \in Nat /\ Len(log) \in Nat
  BY Frees, Bounds DEF Defer, alive, Facts, Named, TypeOK, Worker
<1>2. CASE r \in own /\ Post(call("defer", r)) /\ goes("returning", r)
  <2> DEFINE c == call("defer", r)
  <2>1. Moved(requests[r].anchor)
    BY <1>2 DEF Defer, Facts, HandingBack, own, Mine
  <2>2. c \in Call /\ c.verb = "defer" /\ c.by = proc /\ c.req = r /\ c.anchor = NoAnchor
    BY <1>1, CallType
  <2>3. Post(c)
    BY <1>2
  <2> HIDE DEF c
  <2>4. Sound(c)
    BY <1>1, <2>1, <2>2 DEF Sound, NoAnchor
  <2>5. worker' \in Worker /\ worker'.at = "returning" /\ worker'.req = r
    BY <1>1, <1>2, Goes
  <2>6. /\ calls' \in Seq(Call) /\ Len(calls') <= MaxCalls
        /\ \A e \in InFlight' : e \in InFlight \/ e = c
    BY <2>2, <2>3, Posted
  <2> QED BY <1>1, <2>1, <2>2, <2>4, <2>5, <2>6 DEF HandsBack, Standing
<1>3. CASE goes("ready", 0) /\ UNCHANGED calls
  BY <1>1, <1>3, SettlesQuietly
<1> QED BY <1>2, <1>3 DEF Defer

LEMMA DeferAnsweredSteps ==
    ASSUME TypeOK, Facts, DeferAnswered
    PROVE Settles \/ HandsBack
<1> DEFINE r == worker.req
<1>1. /\ Free /\ UNCHANGED <<requests, employed, proc, calls, log, session, duty>>
      /\ r \in DOMAIN requests /\ r \in Nat
  BY Frees DEF DeferAnswered, alive, Facts, Named, TypeOK, Worker
<1>2. CASE goes("deferring", r)
  <2>1. Mine(r) => Moved(requests[r].anchor)
    BY DEF DeferAnswered, Facts, HandingBack
  <2>2. worker' \in Worker /\ worker'.at = "deferring" /\ worker'.req = r
    BY <1>1, <1>2, Goes
  <2>3. calls' \in Seq(Call) /\ Len(calls') <= MaxCalls /\ InFlight' = InFlight
    BY <1>1, Unposted
  <2> QED BY <1>1, <2>1, <2>2, <2>3 DEF HandsBack, Standing
<1>3. CASE goes("ready", 0)
  BY <1>1, <1>3, SettlesQuietly
<1> QED BY <1>2, <1>3 DEF DeferAnswered

LEMMA DieSettles ==
    ASSUME TypeOK, Die
    PROVE Settles
BY SettlesQuietly DEF Die

(***************************************************************************)
(* The steps that add an entry to the transcript, and a new process         *)
(***************************************************************************)

\* An entry is added: a turn, or the compaction of a claim anchored at the leaf.
Enters(e) ==
    /\ UNCHANGED <<requests, employed, proc, session, duty>>
    /\ Len(log) < MaxEntries /\ log' = Append(log, e)
    /\ worker' \in Worker /\ calls' \in Seq(Call) /\ Len(calls') <= MaxCalls
    /\ e # 0 => /\ e \in DOMAIN requests
                /\ requests[e].status # "queued" /\ requests[e].anchor # NoAnchor
                /\ requests[e].anchor.leaf = Len(log)

\* The transcript after an entry.
LEMMA Entered ==
    ASSUME TypeOK, NEW e \in Nat, Enters(e)
    PROVE /\ log' \in Seq(Nat) /\ Len(log') = Len(log) + 1 /\ Len(log') <= MaxEntries
          /\ Len(log) \in Nat /\ DOMAIN log = 1..Len(log) /\ DOMAIN log' = 1..(Len(log) + 1)
          /\ \A k \in DOMAIN log : k \in DOMAIN log' /\ log'[k] = log[k]
          /\ log'[Len(log) + 1] = e /\ Len(log) + 1 \in DOMAIN log'
          /\ \A k \in DOMAIN log' : k \in DOMAIN log \/ k = Len(log) + 1
<1>1. /\ log \in Seq(Nat) /\ Len(log) \in Nat /\ Len(log) < MaxEntries
      /\ log' = Append(log, e) /\ MaxEntries \in Nat
  BY Bounds DEF TypeOK, Enters
<1>2. /\ log' \in Seq(Nat) /\ Len(log') = Len(log) + 1
      /\ \A k \in 1..Len(log) : log'[k] = log[k]
      /\ log'[Len(log) + 1] = e
  BY <1>1, AppendProperties
<1>3. DOMAIN log = 1..Len(log) /\ DOMAIN log' = 1..(Len(log) + 1)
  BY <1>1, <1>2
<1> QED BY <1>1, <1>2, <1>3

\* What the transcript has shown, it still shows.
LEMMA StillShown ==
    ASSUME TypeOK, NEW e \in Nat, Enters(e)
    PROVE /\ \A a : Moved(a) => Moved(a)'
          /\ \A q, n : Proved(q, n) => Proved(q, n)'
          /\ \A c \in Call : Sound(c) => Sound(c)'
<1>1. ASSUME NEW a, Moved(a) PROVE Moved(a)'
  BY <1>1, Entered DEF Moved
<1>2. ASSUME NEW q, NEW n, Proved(q, n) PROVE Proved(q, n)'
  BY <1>2, Entered DEF Proved
<1>3. ASSUME NEW c \in Call, Sound(c) PROVE Sound(c)'
  <2>1. requests' = requests /\ proc' = proc
    BY DEF Enters
  <2>2. c.anchor.leaf <= Len(log')
    <3>1. c.anchor.leaf \in Nat /\ c.anchor.leaf <= Len(log)
      BY <1>3, CallFields, Bounds DEF Anchors, Sound
    <3> QED BY <3>1, Entered
  <2>3. c.verb = "defer" /\ owns(c, requests[c.req]) => Moved(requests[c.req].anchor)'
    BY <1>1, <1>3, <2>1 DEF Sound, Moved
  <2>4. c.verb = "finish" /\ c.entry # 0 => Proved(requests[c.req], c.entry)'
    BY <1>2, <1>3, <2>1 DEF Sound, Proved
  <2> QED BY <1>3, <2>1, <2>2, <2>3, <2>4 DEF Sound, owns
<1> QED BY <1>1, <1>2, <1>3

\* An entry disturbs nothing the invariant says of ledger and transcript.
LEMMA EntersKeeps ==
    ASSUME TypeOK, Facts, NEW e \in Nat, Enters(e),
           worker'.at \in {"claiming", "compacting", "deferring", "returning"} =>
               worker'.req \in DOMAIN requests
    PROVE TypeOK' /\ Named' /\ Anchored' /\ Followed' /\ Completed' /\ OneOpen'
<1> USE DEF Facts
<1>1. UNCHANGED <<requests, employed, proc, session, duty>>
  BY DEF Enters
<1>2. TypeOK'
  BY <1>1, Entered DEF TypeOK, Enters
<1>3. Len(requests) \in Nat /\ DOMAIN requests = 1..Len(requests)
  BY DEF TypeOK
<1>4. Named'
  <2>1. ASSUME NEW k \in DOMAIN log' PROVE log'[k] <= Len(requests)
    <3>1. CASE k \in DOMAIN log
      BY <3>1, Entered DEF Named
    <3>2. CASE k = Len(log) + 1
      BY <1>3, <3>2, Entered DEF Enters
    <3> QED BY <3>1, <3>2, Entered
  <2> QED BY <1>1, <2>1 DEF Named
<1>5. Anchored'
  <2>1. ASSUME NEW i \in DOMAIN requests PROVE requests[i].anchor.leaf <= Len(log')
    <3>1. requests[i].anchor \in Anchors /\ requests[i].anchor.leaf <= Len(log)
      BY RequestFields DEF TypeOK, Anchored
    <3>2. requests[i].anchor.leaf \in Nat
      BY <3>1, Bounds DEF Anchors
    <3> QED BY <3>1, <3>2, Entered
  <2> QED BY <1>1, <2>1 DEF Anchored
<1>6. Followed'
  <2>1. ASSUME NEW k \in DOMAIN log', log'[k] # 0
        PROVE LET q == requests[log'[k]] IN
              q.status # "queued" /\ q.anchor # NoAnchor /\ k = q.anchor.leaf + 1
    <3>1. CASE k \in DOMAIN log
      BY <2>1, <3>1, Entered DEF Followed
    <3>2. CASE k = Len(log) + 1
      BY <2>1, <3>2, Entered DEF Enters
    <3> QED BY <3>1, <3>2, Entered
  <2> QED BY <1>1, <2>1 DEF Followed
<1>7. Completed'
  BY <1>1, StillShown DEF Completed, Proved
<1>8. OneOpen'
  BY <1>1 DEF OneOpen, is_open
<1> QED BY <1>2, <1>4, <1>5, <1>6, <1>7, <1>8

\* A compaction's entry follows the leaf its request is anchored at, and its
\* verdict names that entry.
LEMMA CompactedKeeps ==
    ASSUME TypeOK, Facts, Compacted
    PROVE TypeOK' /\ Facts'
<1> DEFINE r == worker.req
<1>1. /\ Free /\ UNCHANGED <<requests, employed, proc, session, duty>> /\ goes("ready", 0)
      /\ r \in DOMAIN requests /\ r \in Nat /\ r # 0
  BY Frees DEF Compacted, alive, Facts, Named, TypeOK, Worker
<1>2. CASE Post(call("finish", r)) /\ UNCHANGED log
  <2>1. Sound(call("finish", r)) /\ call("finish", r) \in Call /\ call("finish", r).verb = "finish"
    BY <1>1, FailedCall
  <2>2. Settles
    BY <1>1, <1>2, <2>1, SettlesPosting
  <2> QED BY <2>2, SettlesKeeps
<1>3. CASE /\ Len(log) < MaxEntries /\ log' = Append(log, r)
           /\ Post([call("finish", r) EXCEPT !.outcome = "completed", !.entry = Len(log) + 1])
  <2>1. /\ requests[r].anchor = leaf /\ requests[r].claim # 0 /\ leaf.leaf = Len(log)
        /\ requests[r].status # "queued" /\ requests[r].anchor # NoAnchor
    <3>1. proc # 0 /\ requests[r].claim = proc /\ requests[r].anchor = leaf
      BY Bounds DEF Compacted, Facts, Compacting, Mine, TypeOK
    <3> QED BY <1>1, <3>1 DEF Facts, Anchored, leaf
  <2>2. PICK n \in Nat : n = Len(log) + 1
    BY DEF TypeOK
  <2>3. n \in 0..MaxEntries /\ "completed" \in Statuses /\ proc \in Nat /\ Len(log) \in Nat
    BY <1>3, <2>2, Bounds DEF TypeOK, Statuses
  <2>4. PICK c \in Call : /\ c.verb = "finish" /\ c.by = proc /\ c.req = r /\ c.anchor = NoAnchor
                          /\ c.outcome = "completed" /\ c.entry = n /\ Post(c)
    <3> DEFINE d == call("finish", r)
               x == [d EXCEPT !.outcome = "completed", !.entry = n]
    <3>1. d \in Call /\ d.verb = "finish" /\ d.by = proc /\ d.req = r /\ d.anchor = NoAnchor
      BY <1>1, CallType
    <3> HIDE DEF d
    <3>2. /\ x \in Call /\ x.verb = "finish" /\ x.by = proc /\ x.req = r /\ x.anchor = NoAnchor
          /\ x.outcome = "completed" /\ x.entry = n
      BY <2>3, <3>1 DEF Call
    <3>3. Post(x)
      BY <1>3, <2>2 DEF d
    <3> HIDE DEF x
    <3> QED BY <3>2, <3>3
  <2>6. worker' \in Worker /\ worker'.at = "ready"
    BY <1>1, Goes
  <2>7. /\ calls' \in Seq(Call) /\ Len(calls') <= MaxCalls
        /\ \A e \in InFlight' : e \in InFlight \/ e = c
    BY <2>4, Posted
  <2>8. Enters(r)
    BY <1>1, <1>3, <2>1, <2>6, <2>7 DEF Enters
  <2>9. TypeOK' /\ Named' /\ Anchored' /\ Followed' /\ Completed' /\ OneOpen'
    BY <1>1, <2>6, <2>8, EntersKeeps
  <2>10. Sound(c)'
    <3>1. requests' = requests /\ proc' = proc
      BY <1>1
    <3>2. n \in DOMAIN log' /\ log'[n] # 0
      BY <1>1, <2>2, <2>8, Entered
    <3>3. c.anchor.leaf <= Len(log') /\ c.by <= proc
      BY <2>3, <2>4, <2>8, Entered, <1>1 DEF NoAnchor
    <3> QED BY <1>1, <2>1, <2>2, <2>4, <3>1, <3>2, <3>3 DEF Sound, Proved
  <2>11. Sent'
    <3>1. ASSUME NEW e \in InFlight' PROVE Sound(e)'
      <4>1. CASE e = c
        BY <2>10, <4>1
      <4>2. CASE e \in InFlight
        <5>1. e \in Call /\ Sound(e)
          BY <4>2 DEF TypeOK, InFlight, Facts, Sent
        <5> QED BY <1>1, <2>8, <5>1, StillShown
      <4> QED BY <2>7, <3>1, <4>1, <4>2
    <3> QED BY <3>1 DEF Sent
  <2>12. Awaited'
    BY <1>1, <2>4, <2>6, <2>7 DEF Free, Awaited, alive, Facts
  <2>13. Claiming' /\ HandingBack' /\ Compacting'
    BY <2>6 DEF Claiming, HandingBack, Compacting
  <2> QED BY <2>9, <2>11, <2>12, <2>13 DEF Facts
<1> QED BY <1>2, <1>3 DEF Compacted

\* A turn makes every claim under way stale.
LEMMA TurnKeeps ==
    ASSUME TypeOK, Facts, Turn
    PROVE TypeOK' /\ Facts'
<1>1. /\ UNCHANGED <<requests, employed, proc, calls, session, duty>>
      /\ Len(log) < MaxEntries /\ log' = Append(log, 0)
      /\ worker.at \in {"ready", "unready", "claiming", "deferring", "returning"}
      /\ worker \in Worker
  BY DEF Turn, TypeOK
<1>2. /\ worker' \in Worker /\ worker'.req = worker.req /\ worker'.told = worker.told
      /\ worker'.fresh = (worker.at # "claiming")
      /\ worker'.at = IF worker.at = "unready" THEN "ready" ELSE worker.at
  BY <1>1 DEF Turn, Worker
<1>3. calls' \in Seq(Call) /\ Len(calls') <= MaxCalls /\ InFlight' = InFlight
  BY <1>1, Unposted
<1>4. Enters(0) /\ 0 \in Nat
  BY <1>1, <1>2, <1>3 DEF Enters
<1>5. TypeOK' /\ Named' /\ Anchored' /\ Followed' /\ Completed' /\ OneOpen'
  <2>1. worker'.at \in {"claiming", "compacting", "deferring", "returning"} =>
           worker'.req \in DOMAIN requests
    BY <1>1, <1>2 DEF Facts, Named
  <2> QED BY <1>4, <2>1, EntersKeeps
<1>6. Sent'
  <2>1. ASSUME NEW c \in InFlight PROVE Sound(c)'
    <3>1. c \in Call /\ Sound(c)
      BY DEF TypeOK, InFlight, Facts, Sent
    <3> QED BY <1>4, <3>1, StillShown
  <2> QED BY <1>3, <2>1 DEF Sent
<1>7. Awaited'
  BY <1>1, <1>2, <1>3 DEF Awaited, alive, Facts
<1>8. Claiming'
  <2>1. ASSUME NEW a \in Anchors, a.leaf <= Len(log), Fits(a), worker.at = "claiming" PROVE Moved(a)'
    <3>1. CASE Moved(a)
      BY <1>4, <3>1, StillShown
    <3>2. CASE a.leaf = Len(log)
      BY <1>4, <3>2, Entered DEF Moved
    <3> QED BY <2>1, <3>1, <3>2 DEF Fits
  <2>2. ASSUME worker.at = "claiming"
        PROVE /\ Mine(worker.req) => Moved(requests[worker.req].anchor)'
              /\ \A c \in InFlight : c.verb = "start" /\ c.by = proc => Moved(c.anchor)'
              /\ worker.told => Mine(worker.req)
    <3>1. worker.req \in DOMAIN requests
      BY <2>2 DEF Facts, Named
    <3>2. requests[worker.req].anchor \in Anchors /\ requests[worker.req].anchor.leaf <= Len(log)
      BY <3>1, RequestFields DEF TypeOK, Facts, Anchored
    <3>3. \A c \in InFlight : c.anchor \in Anchors /\ c.anchor.leaf <= Len(log)
      BY CallFields DEF TypeOK, InFlight, Facts, Sent, Sound
    <3>4. ASSUME Mine(worker.req) PROVE Moved(requests[worker.req].anchor)'
      <4>1. Fits(requests[worker.req].anchor)
        BY <2>2, <3>4 DEF Facts, Claiming
      <4> QED BY <1>1, <1>2, <2>1, <2>2, <3>2, <4>1 DEF Moved
    <3>5. ASSUME NEW c \in InFlight, c.verb = "start", c.by = proc PROVE Moved(c.anchor)'
      <4>1. Fits(c.anchor)
        BY <2>2, <3>5 DEF Facts, Claiming
      <4> QED BY <2>1, <2>2, <3>3, <4>1
    <3> QED BY <2>2, <3>4, <3>5 DEF Facts, Claiming
  <2> QED BY <1>1, <1>2, <1>3, <2>2 DEF Claiming, Fits, Mine, Moved
<1>9. HandingBack'
  <2>1. worker.at \in {"deferring", "returning"} /\ Mine(worker.req) =>
           Moved(requests[worker.req].anchor)
    BY DEF Facts, HandingBack
  <2>2. worker.at \in {"deferring", "returning"} /\ Mine(worker.req) =>
           log'[requests[worker.req].anchor.leaf + 1] = 0
           /\ requests[worker.req].anchor.leaf + 1 \in DOMAIN log'
    BY <1>4, <2>1, Entered DEF Moved
  <2> QED BY <1>1, <1>2, <2>2 DEF HandingBack, Mine, Moved
<1>10. Compacting'
  BY <1>1, <1>2 DEF Compacting
<1> QED BY <1>5, <1>6, <1>7, <1>8, <1>9, <1>10 DEF Facts

\* A new process has sent nothing.
LEMMA BootKeeps ==
    ASSUME TypeOK, Facts, Boot
    PROVE TypeOK' /\ Facts'
<1>1. /\ UNCHANGED <<requests, employed, calls, log, duty>> /\ goes("boot", 0)
      /\ proc' = proc + 1 /\ proc < MaxProcs /\ proc \in 1..MaxProcs
      /\ session' \in {proc + 1, session} /\ session \in 1..MaxProcs
  BY DEF Boot, TypeOK
<1>2. proc' \in 1..MaxProcs /\ session' \in 1..MaxProcs /\ proc \in Nat
  BY <1>1, Bounds
<1>3. worker' \in Worker /\ worker'.at = "boot"
  BY <1>1, Goes
<1>4. InFlight' = InFlight
  BY <1>1 DEF InFlight
<1>5. TypeOK'
  BY <1>1, <1>2, <1>3 DEF TypeOK
<1>6. Named' /\ Anchored' /\ Followed' /\ Completed' /\ OneOpen'
  BY <1>1, <1>3 DEF Facts, Named, Anchored, Followed, Completed, Proved, OneOpen, is_open
<1>7. ASSUME NEW c \in InFlight PROVE Sound(c)' /\ c.by # proc'
  <2>1. c \in Call /\ Sound(c)
    BY DEF TypeOK, InFlight, Facts, Sent
  <2>2. c.by \in Nat /\ c.by <= proc
    BY <2>1, CallFields, Bounds DEF Sound
  <2>3. c.by <= proc' /\ c.by # proc'
    BY <1>1, <1>2, <2>2
  <2> QED BY <1>1, <2>1, <2>3 DEF Sound, owns, Moved, Proved
<1>8. Sent' /\ Awaited'
  BY <1>4, <1>7 DEF Sent, Awaited, Facts
<1>9. Claiming' /\ HandingBack' /\ Compacting'
  BY <1>3 DEF Claiming, HandingBack, Compacting
<1> QED BY <1>5, <1>6, <1>8, <1>9 DEF Facts

\* The duty's claims and the person's employment keep their types.
LEMMA OutsideTypes ==
    ASSUME TypeOK, Facts, Outside
    PROVE TypeOK'
<1>1. Queueing
  BY OutsideSteps DEF Facts
<1>2. employed' \in BOOLEAN
  BY DEF TypeOK, Outside, Commit, Lose, DutyReads, DutyRecovers, Asked, Queue, Depart
<1>3. duty' \in SUBSET Claims
  <2>1. CASE DutyReads
    <3>1. ASSUME NEW i \in running, requests[i].claim \in Dead
          PROVE [req |-> i, by |-> requests[i].claim] \in Claims
      BY <3>1 DEF running, Dead, Claims, TypeOK
    <3> QED BY <2>1, <3>1 DEF DutyReads
  <2>2. CASE ~DutyReads
    BY <2>2 DEF TypeOK, Outside, Commit, Lose, DutyRecovers, Asked, Queue, Depart
  <2> QED BY <2>1, <2>2
<1> QED BY <1>1, <1>2, <1>3, QueueingFrame DEF TypeOK, Facts

(***************************************************************************)
(* The theorems                                                             *)
(***************************************************************************)
LEMMA InitInv ==
    Init => Inv
<1> SUFFICES ASSUME Init PROVE Inv
  OBVIOUS
<1> USE DEF Init
<1>1. TypeOK
  BY Bounds DEF TypeOK, Worker
<1>2. Named /\ Anchored /\ Followed /\ Completed /\ OneOpen /\ MintsAreSpaced
  BY DEF Named, Anchored, Followed, Completed, OneOpen, MintsAreSpaced
<1>3. InFlight = {}
  BY DEF InFlight
<1>4. Sent /\ Awaited
  BY <1>3 DEF Sent, Awaited
<1>5. Claiming /\ HandingBack /\ Compacting
  BY DEF Claiming, HandingBack, Compacting
<1> QED BY <1>1, <1>2, <1>4, <1>5 DEF Inv, Facts

\* Every step preserves the invariant.
LEMMA StepInv ==
    Inv /\ [Next]_vars => Inv'
<1> SUFFICES ASSUME TypeOK, Facts, MintsAreSpaced, [Next]_vars
             PROVE TypeOK' /\ Facts' /\ MintsAreSpaced'
  BY DEF Inv
<1>1. CASE Outside
  <2>1. Queueing
    BY <1>1, OutsideSteps DEF Facts
  <2> QED BY <1>1, <2>1, OutsideTypes, QueueingKeeps, QueueingNames, QueueingOneOpen,
             QueueingSpaces DEF Facts
<1>2. CASE WorkerStep \/ Boot \/ Turn \/ Die
  <2>1. MintsAreSpaced'
    <3>1. UNCHANGED requests
      BY <1>2 DEF WorkerStep, SessionStart, ReceiptAnswered, RecoverAnswered, Poll, Claimed,
                  Defer, DeferAnswered, Compacted, Boot, Turn, Die
    <3> QED BY <3>1 DEF MintsAreSpaced
  <2>2. CASE SessionStart \/ ReceiptAnswered \/ RecoverAnswered \/ Die
    BY <2>1, <2>2, SessionStartSettles, AnswersSettle, DieSettles, SettlesKeeps
  <2>3. CASE Poll
    BY <2>1, <2>3, PollSteps, SettlesKeeps, BeginsClaimingKeeps, BeginsCompactingKeeps
  <2>4. CASE Claimed
    BY <2>1, <2>4, ClaimedSteps, SettlesKeeps, BeginsCompactingKeeps, HandsBackKeeps
  <2>5. CASE Defer \/ DeferAnswered
    BY <2>1, <2>5, DeferSteps, DeferAnsweredSteps, SettlesKeeps, HandsBackKeeps
  <2>6. CASE Compacted \/ Turn \/ Boot
    BY <2>1, <2>6, CompactedKeeps, TurnKeeps, BootKeeps
  <2> QED BY <1>2, <2>2, <2>3, <2>4, <2>5, <2>6 DEF WorkerStep
<1>3. CASE UNCHANGED vars
  <2> USE <1>3 DEF vars
  <2>1. TypeOK' /\ Named' /\ Anchored' /\ Followed' /\ Completed' /\ OneOpen' /\ MintsAreSpaced'
    BY DEF TypeOK, Facts, Named, Anchored, Followed, Completed, Proved, OneOpen, is_open,
           MintsAreSpaced
  <2>2. InFlight' = InFlight
    BY DEF InFlight
  <2>3. Sent' /\ Awaited'
    BY <2>2 DEF Facts, Sent, Sound, owns, Moved, Proved, Awaited, alive
  <2>4. Claiming' /\ HandingBack' /\ Compacting'
    BY <2>2 DEF Facts, Claiming, HandingBack, Compacting, Mine, Fits, Moved, leaf
  <2> QED BY <2>1, <2>3, <2>4 DEF Facts
<1> QED BY <1>1, <1>2, <1>3 DEF Next, Outside, Asked

LEMMA Invariant ==
    Spec => []Inv
BY InitInv, StepInv, PTL DEF Spec

\* Ledger, worker, calls, transcript and duty keep their types: no attempt is
\* minted past the ceiling, and no entry is named beyond the transcript.
THEOREM TypeCorrect ==
    Spec => []TypeOK
<1>1. Inv => TypeOK
  BY DEF Inv
<1> QED BY <1>1, Invariant, PTL

\* Whatever is reported completed was compacted, at the entry that follows the
\* leaf its claim was anchored at (finish and nativeCompactionProof).
THEOREM Completion ==
    Spec => []CompletedIsCompacted
<1>1. Inv => CompletedIsCompacted
  <2> SUFFICES ASSUME Inv, NEW i \in DOMAIN requests, requests[i].status = "completed"
               PROVE /\ requests[i].anchor # NoAnchor
                     /\ requests[i].entry = requests[i].anchor.leaf + 1
                     /\ requests[i].entry <= Len(log) /\ log[requests[i].entry] # 0
    BY DEF CompletedIsCompacted
  <2>1. Proved(requests[i], requests[i].entry) /\ DOMAIN log = 1..Len(log)
    BY DEF Inv, Facts, Completed, TypeOK
  <2> QED BY <2>1 DEF Proved
<1> QED BY <1>1, Invariant, PTL

\* The transcript holds at most one compaction for an attempt, through lost
\* answers, repeated verdicts, and claims handed back and taken again.
THEOREM CompactsOnce ==
    Spec => []AttemptCompactsOnce
<1>1. Inv => AttemptCompactsOnce
  <2> SUFFICES ASSUME Inv, NEW i \in DOMAIN requests
               PROVE Cardinality(compactions({i})) <= 1
    BY DEF AttemptCompactsOnce
  <2>1. i # 0
    BY DEF Inv, TypeOK
  <2>2. ASSUME NEW k \in compactions({i}), NEW o \in compactions({i}) PROVE k = o
    BY <2>1 DEF compactions, Inv, Facts, Followed
  <2>3. CASE compactions({i}) = {}
    BY <2>3, FS_EmptySet
  <2>4. CASE compactions({i}) # {}
    <3>1. PICK k : compactions({i}) = {k}
      BY <2>2, <2>4
    <3> QED BY <3>1, FS_Singleton
  <2> QED BY <2>3, <2>4
<1> QED BY <1>1, Invariant, PTL

\* The session a compaction runs in stands at the leaf its claim is anchored at:
\* no turn has come between the claim and the compaction.
THEOREM AnchoredCompaction ==
    Spec => []CompactsAtAnchor
<1>1. Inv => CompactsAtAnchor
  <2> SUFFICES ASSUME Inv, worker.at = "compacting"
               PROVE /\ requests[worker.req].status # "queued"
                     /\ requests[worker.req].anchor = leaf
    BY DEF CompactsAtAnchor
  <2>1. worker.req \in DOMAIN requests /\ requests[worker.req].anchor = leaf /\ Mine(worker.req)
    BY DEF Inv, Facts, Named, Compacting
  <2>2. requests[worker.req].claim # 0
    BY <2>1, Bounds DEF Inv, TypeOK, Mine
  <2> QED BY <2>1, <2>2 DEF Inv, Facts, Anchored
<1> QED BY <1>1, Invariant, PTL

\* Two requests minted for the same ask are more than the replay window apart,
\* however many attempts came in between (queue).
THEOREM SpacedMints ==
    Spec => []MintsAreSpaced
<1>1. Inv => MintsAreSpaced
  BY DEF Inv
<1> QED BY <1>1, Invariant, PTL

(***************************************************************************)
(* The refinement                                                           *)
(***************************************************************************)

\* An ask has a last attempt.
LEMMA LastAttempt ==
    ASSUME NEW rs \in Seq(Request), NEW a \in DOMAIN rs, rs[a].ask = a
    PROVE \E l \in DOMAIN rs : rs[l].ask = a /\ \A j \in DOMAIN rs : j > l => rs[j].ask # a
<1> DEFINE S == {i \in DOMAIN rs : rs[i].ask = a}
<1>1. Len(rs) \in Nat /\ S \subseteq 1..Len(rs) /\ S # {}
  OBVIOUS
<1>2. Max(S) \in S /\ \A x \in S : x <= Max(S)
  <2> HIDE DEF S
  <2> QED BY <1>1, Largest
<1>3. ASSUME NEW j \in DOMAIN rs, j > Max(S) PROVE rs[j].ask # a
  <2>1. j \in Nat /\ Max(S) \in Nat
    BY <1>1, <1>2
  <2>2. j \in S => j <= Max(S)
    BY <1>2
  <2> HIDE DEF S
  <2>3. j \notin S
    BY <1>3, <2>1, <2>2
  <2> QED BY <2>3 DEF S
<1> QED BY <1>2, <1>3

\* The attempt an ask stands at, before a step,
LEMMA Latest ==
    ASSUME TypeOK, NEW a \in DOMAIN requests, requests[a].ask = a
    PROVE /\ latest_attempt(a) \in DOMAIN requests /\ requests[latest_attempt(a)].ask = a
          /\ \A j \in DOMAIN requests : j > latest_attempt(a) => requests[j].ask # a
<1>1. requests \in Seq(Request)
  BY DEF TypeOK
<1>2. \E l \in DOMAIN requests :
         requests[l].ask = a /\ \A j \in DOMAIN requests : j > l => requests[j].ask # a
  BY <1>1, LastAttempt
<1> QED BY <1>2 DEF latest_attempt

\* and after it.
LEMMA LatestNext ==
    ASSUME requests' \in Seq(Request), NEW a \in DOMAIN requests', requests'[a].ask = a
    PROVE \E m \in DOMAIN requests' :
             /\ m = latest_attempt(a)' /\ requests'[m].ask = a
             /\ \A j \in DOMAIN requests' : j > m => requests'[j].ask # a
<1>1. \E l \in DOMAIN requests' :
         requests'[l].ask = a /\ \A j \in DOMAIN requests' : j > l => requests'[j].ask # a
  BY LastAttempt
<1> QED BY <1>1 DEF latest_attempt

\* What an ask is seen as, for the attempt it stands at.
Seen(q) == [phase |-> phase(q), attempt |-> q.attempt]

LEMMA SeenAsAsk ==
    ASSUME NEW q \in Request
    PROVE Seen(q) \in A!Ask /\ Seen(q).phase = phase(q) /\ Seen(q).attempt = q.attempt
<1>1. phase(q) \in {"waiting", "taken"} \cup A!Ends
  BY DEF Request, Statuses, phase, is_open, A!Ends
<1>2. q.attempt \in 1..MaxAttempts
  BY DEF Request
<1> HIDE DEF A!Ends
<1> QED BY <1>1, <1>2 DEF Seen, A!Ask

\* One attempt, from before a step of the ledger to after it.
LEMMA AttemptMoves ==
    ASSUME NEW q \in Request, NEW p \in Request, NEW i, Fate(q, p, i)
    PROVE A!Moves(Seen(q), Seen(p))
<1>1. p.attempt = q.attempt
  BY DEF Fate
<1>2. CASE p.status = q.status
  BY <1>1, <1>2 DEF Seen, phase, is_open, A!Moves
<1>3. CASE q.status = "queued" /\ p.status = "running"
  BY <1>1, <1>3 DEF Seen, phase, is_open, A!Moves, A!Take
<1>4. CASE q.status = "running" /\ p.status = "queued"
  BY <1>1, <1>4 DEF Seen, phase, is_open, A!Moves, A!HandBack
<1>5. CASE is_open(q) /\ p.status \in {"skipped", "failed", "completed"}
  <2>1. Seen(p) = [Seen(q) EXCEPT !.phase = p.status] /\ Seen(q).phase \in {"waiting", "taken"}
    BY <1>1, <1>5 DEF Seen, phase, is_open
  <2> QED BY <1>5, <2>1 DEF A!Moves, A!End, A!Ends
<1>6. \/ p.status = q.status
      \/ q.status = "queued" /\ p.status = "running"
      \/ q.status = "running" /\ p.status = "queued"
      \/ is_open(q) /\ p.status \in {"skipped", "failed", "completed"}
  BY DEF Fate, is_open, owns
<1> QED BY <1>2, <1>3, <1>4, <1>5, <1>6

\* A step of the ledger is a step of Asks: an ask whose last attempt is still the
\* last moves as that attempt does, the others are tried again or new.
LEMMA AsksStep ==
    ASSUME TypeOK, Facts, Queueing
    PROVE A!Step(asks, asks')
<1> USE DEF Facts
<1>0. /\ requests \in Seq(Request) /\ requests' \in Seq(Request)
      /\ DOMAIN requests \subseteq DOMAIN requests'
      /\ DOMAIN requests = 1..Len(requests) /\ DOMAIN requests' = 1..Len(requests')
      /\ Len(requests) \in Nat /\ Len(requests') \in Nat
  BY QueueingFrame DEF TypeOK
<1>1. /\ DOMAIN asks = {i \in DOMAIN requests : requests[i].ask = i}
      /\ DOMAIN asks' = {i \in DOMAIN requests' : requests'[i].ask = i}
      /\ \A a \in DOMAIN asks : asks[a] = Seen(requests[latest_attempt(a)])
      /\ \A a \in DOMAIN asks' : asks'[a] = Seen(requests'[latest_attempt(a)'])
  BY DEF asks, Seen, phase, is_open
<1>2. DOMAIN asks \subseteq DOMAIN asks'
  BY <1>0, <1>1, QueueingFates DEF Fate
<1>3. ASSUME NEW a \in DOMAIN asks'
      PROVE /\ asks'[a] \in A!Ask
            /\ a \in DOMAIN asks => A!Moves(asks[a], asks'[a])
            /\ a \notin DOMAIN asks => asks'[a].phase # "taken" /\ asks'[a].attempt = 1
  <2>1. a \in DOMAIN requests' /\ requests'[a].ask = a
    BY <1>1
  <2>2. PICK m \in DOMAIN requests' :
           /\ m = latest_attempt(a)' /\ requests'[m].ask = a
           /\ \A j \in DOMAIN requests' : j > m => requests'[j].ask # a
    BY <1>0, <2>1, LatestNext
  <2>3. asks'[a] = Seen(requests'[m]) /\ requests'[m] \in Request
    BY <1>0, <1>1, <2>2
  <2>4. asks'[a] \in A!Ask
    BY <2>3, SeenAsAsk
  <2>5. m \in Nat /\ a \in Nat /\ \A j \in DOMAIN requests : j \in Nat
    BY <1>0, <2>1, <2>2
  <2>6. ASSUME a \in DOMAIN asks PROVE A!Moves(asks[a], asks'[a])
    <3>1. a \in DOMAIN requests /\ requests[a].ask = a
      BY <1>1, <2>6
    <3>2. PICK l \in DOMAIN requests :
             /\ l = latest_attempt(a) /\ requests[l].ask = a
             /\ \A j \in DOMAIN requests : j > l => requests[j].ask # a
      BY <3>1, Latest
    <3>3. asks[a] = Seen(requests[l]) /\ requests[l] \in Request
      BY <1>0, <1>1, <2>6, <3>2
    <3>4. CASE m \in DOMAIN requests
      <4>1. requests[m].ask = a /\ requests'[l].ask = a
        BY <2>2, <3>2, <3>4, QueueingFates DEF Fate
      <4>2. m = l
        BY <1>0, <2>2, <2>5, <3>2, <3>4, <4>1
      <4>3. Fate(requests[m], requests'[m], m)
        BY <3>4, QueueingFates
      <4> QED BY <2>3, <3>3, <4>2, <4>3, AttemptMoves
    <3>5. CASE m \in New
      <4>1. m # a
        BY <3>1, <3>5 DEF New
      <4>2. PICK j \in DOMAIN requests :
               /\ requests[j].status = "running" /\ requests'[m].ask = requests[j].ask
               /\ requests'[m].attempt = requests[j].attempt + 1
        BY <2>2, <3>5, <4>1, MintedAsks
      <4>3. requests[j].ask = a /\ ~(j > l)
        BY <2>2, <3>2, <4>2
      <4>4. ~(j < l)
        BY <3>2, <4>2, <4>3 DEF OneOpen, is_open
      <4>5. j = l
        BY <2>5, <4>3, <4>4
      <4>6. Minted(requests'[m])
        BY <3>5 DEF Queueing, Writes
      <4>7. /\ Seen(requests[l]).phase = "taken" /\ Seen(requests'[m]).phase # "taken"
            /\ Seen(requests'[m]).attempt = Seen(requests[l]).attempt + 1
        BY <4>2, <4>5, <4>6 DEF Seen, phase, is_open, Minted
      <4> QED BY <2>3, <3>3, <4>7 DEF A!Moves, A!TryAgain
    <3> QED BY <2>2, <3>4, <3>5 DEF New
  <2>7. ASSUME a \notin DOMAIN asks
        PROVE asks'[a].phase # "taken" /\ asks'[a].attempt = 1
    <3>1. a \in New
      <4>1. a \in DOMAIN requests => requests[a].ask = a
        BY <2>1, QueueingFates DEF Fate
      <4> QED BY <1>1, <2>1, <2>7, <4>1 DEF New
    <3>2. ASSUME NEW j \in DOMAIN requests PROVE requests[j].ask # a
      <4>1. requests[j].ask \in 1..j /\ j \in 1..Len(requests)
        BY <1>0 DEF Named
      <4> QED BY <1>0, <2>1, <3>1, <4>1 DEF New
    <3>3. FirstAttempt /\ a = Len(requests) + 1
      BY <2>1, <3>1, <3>2, MintedAsks
    <3>4. m = a
      <4>1. Len(requests') = a
        BY <3>3 DEF FirstAttempt
      <4> QED BY <1>0, <2>1, <2>2, <2>5, <4>1
    <3>5. requests'[a].attempt = 1 /\ Minted(requests'[a])
      BY <3>1, <3>3 DEF FirstAttempt, Queueing, Writes
    <3> QED BY <2>3, <3>4, <3>5 DEF Seen, phase, is_open, Minted
  <2> QED BY <2>4, <2>6, <2>7
<1> QED BY <1>2, <1>3 DEF A!Step

\* What leaves the ledger alone leaves the asks alone.
LEMMA AsksStand ==
    ASSUME UNCHANGED requests
    PROVE UNCHANGED asks
BY DEF asks, latest_attempt, phase, is_open

\* The ledger implements Asks: an ask is taken up, handed back, tried again or
\* ended by every verb, recovery and departure as the abstract ledger allows,
\* and one that has ended never moves again.
THEOREM Implements ==
    Spec => ImplementsAsks
<1>1. Init => A!Init
  BY DEF Init, A!Init, asks
<1>2. Inv /\ [Next]_vars => [A!Next]_asks
  <2> SUFFICES ASSUME Inv, [Next]_vars PROVE [A!Next]_asks
    OBVIOUS
  <2>1. CASE Outside
    <3>1. TypeOK /\ Facts /\ Queueing
      BY <2>1, OutsideSteps DEF Inv, Facts
    <3> QED BY <3>1, AsksStep DEF A!Next
  <2>2. CASE UNCHANGED requests
    BY <2>2, AsksStand
  <2>3. Outside \/ UNCHANGED requests
    BY DEF Next, Outside, Asked, WorkerStep, SessionStart, ReceiptAnswered, RecoverAnswered, Poll,
           Claimed, Defer, DeferAnswered, Compacted, Boot, Turn, Die, vars
  <2> QED BY <2>1, <2>2, <2>3
<1> QED BY <1>1, <1>2, Invariant, PTL DEF Spec, ImplementsAsks, A!Spec
=============================================================================
