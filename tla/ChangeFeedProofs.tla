--------------------------- MODULE ChangeFeedProofs ---------------------------
(***************************************************************************)
(* Proofs about ChangeFeed, for every set of stores, every capacity of the *)
(* ring and every bound on commits, faults and frames under way.           *)
(***************************************************************************)
EXTENDS ChangeFeed, SequenceTheorems, TLAPS

\* The open connection is to the daemon that runs, and is behind its feed.
Behind ==
    watch.link \in {"subscribed", "live"} =>
        /\ up /\ watch.epoch = epoch
        /\ watch.pos <= seq + 1 /\ watch.last_seq <= seq

\* A connection whose daemon is gone is not to the one that runs now.
Gone == watch.link = "lost" /\ up => watch.epoch < epoch

Epochs == watch.epoch <= epoch /\ client.known <= epoch

\* Nothing is under way on a connection that is not live, and what is under
\* way on one that is has a seq the feed has given out.
UnderWay ==
    /\ watch.link \in {"none", "subscribed"} => wire = <<>>
    /\ watch.link # "live" => watch.replay = {}
    /\ watch.link = "live" => \A i \in 1..Len(wire) : wire[i] <= seq

\* A cursor of this epoch was given out by its feed.
CursorGiven == up /\ client.known = epoch => client.cursor <= seq

\* What is left of the replay comes after everything forwarded, and the
\* channel's hints come after the replay.
ReplayFirst ==
    /\ watch.link = "subscribed" => watch.sent = 0
    /\ watch.link = "live" =>
          /\ watch.sent <= watch.last_seq
          /\ \A n \in watch.replay :
                n <= watch.last_seq /\ (n = Reorg \/ n > watch.sent)

\* Commits are hinted at after they are made, and read in order.
Commits ==
    /\ told <= mail /\ mail <= commits
    /\ \A h \in pending : h.store = Mail => h.at <= mail
    /\ client.seen <= mail /\ client.got <= mail
    /\ client.read = "answered" => client.seen <= client.got

\* What a trigger leaves: a read that starts from now on, that the end of the
\* compaction will start, or that was lost.
Triggered(c) ==
    \/ c.read = "asked"
    \/ c.read = "answered" /\ c.again
    \/ "compacting" \in c.held
    \/ c.lost

\* The agent has read what it was told of, or the reads to come will.
Fresh ==
    \/ client.seen >= told
    \/ Triggered(client)
    \/ client.read = "answered" /\ client.got >= told

\* A mailbox hint lies after a seq, and at or after a position of the channel.
After(c, pos) == \E n \in 1..seq : n > c /\ n >= pos /\ published[n] = Mail

\* Whoever resumes from a cursor of this epoch finds every hint not acted on.
CursorCovers == up /\ client.known = epoch => Fresh \/ After(client.cursor, 0)

\* So does whoever stays connected: in what is under way, or ahead of it.
StreamCovers ==
    watch.link = "live" /\ ~client.blind =>
        \/ Fresh \/ wire # <<>> \/ watch.replay # {} \/ watch.pos < oldest
        \/ After(watch.last_seq, watch.pos)

\* The parts that each step keeps without looking at the mailbox.
Simple == Behind /\ Gone /\ Epochs /\ UnderWay /\ CursorGiven /\ ReplayFirst /\ Commits

Inv == TypeOK /\ Simple /\ CursorCovers /\ StreamCovers

-----------------------------------------------------------------------------
LEMMA Bounds == Capacity \in Nat \ {0} /\ MaxFaults \in Nat
BY FeedAssumption

LEMMA InitInv == Init => Inv
BY Bounds DEF Init, Inv, Simple, TypeOK, Hint, Watch, Client, Behind, Gone, Epochs, UnderWay,
       CursorGiven, ReplayFirst, Commits, CursorCovers, StreamCovers, Fresh, seq

\* The parts of Next, by name.
LEMMA Cases ==
    ASSUME Next
    PROVE \/ \E s \in Stores : commit(s)
          \/ \E h \in pending : publish(h)
          \/ \E h \in pending : Drop(h)
          \/ Stop \/ Start
          \/ subscribe \/ replay_from
          \/ \E n \in watch.replay : Replay(n)
          \/ Lagged \/ Recv
          \/ dispatchEvent \/ Heartbeat \/ handleDisconnect
          \/ Answer \/ Deliver \/ Deferred \/ Session
BY DEF Next, Writer, Daemon, Stream, Watcher, Reader

\* A watcher that differs in its reads alone, none of them answered since.
Same(c, d) ==
    /\ d.seen = c.seen /\ d.got = c.got /\ d.blind = c.blind
    /\ d.cursor = c.cursor /\ d.known = c.known
    /\ d.read = "answered" => c.read = "answered"

LEMMA DrainType ==
    ASSUME NEW c \in Client
    PROVE drain(c) \in Client /\ Same(c, drain(c)) /\ Triggered(drain(c))
<1>1. CASE "compacting" \in c.held
  BY <1>1 DEF drain, Same, Triggered
<1>2. CASE "compacting" \notin c.held /\ c.read = "none"
  <2>1. drain(c) = [c EXCEPT !.read = "asked", !.lost = FALSE]
    BY <1>2 DEF drain, asks
  <2>2. drain(c) \in Client
    BY <2>1 DEF Client
  <2>3. drain(c).read = "asked" /\ Same(c, drain(c))
    BY <2>1 DEF Client, Same
  <2> QED BY <2>2, <2>3 DEF Triggered
<1>3. CASE "compacting" \notin c.held /\ c.read # "none"
  <2>1. drain(c) = [c EXCEPT !.again = TRUE]
    BY <1>3 DEF drain
  <2>2. drain(c) \in Client /\ drain(c).again /\ drain(c).read = c.read /\ Same(c, drain(c))
    BY <2>1 DEF Client, Same
  <2>3. c.read \in {"asked", "answered"}
    BY <1>3 DEF Client
  <2> QED BY <2>2, <2>3 DEF Triggered
<1> QED BY <1>1, <1>2, <1>3

LEMMA CycleType ==
    ASSUME NEW c \in Client
    PROVE /\ runMaintenanceCycle(c) \in Client
          /\ Same(c, runMaintenanceCycle(c)) /\ Triggered(runMaintenanceCycle(c))
<1>1. CASE "starting" \in c.held
  BY <1>1 DEF runMaintenanceCycle, Client, Same, Triggered
<1>2. CASE "starting" \notin c.held
  BY <1>2, DrainType DEF runMaintenanceCycle
<1> QED BY <1>1, <1>2

LEMMA SettledType ==
    ASSUME NEW c \in Client
    PROVE /\ settled(c) \in Client /\ Same(c, settled(c)) /\ settled(c).read # "answered"
          /\ c.again \/ c.lost \/ "compacting" \in c.held => Triggered(settled(c))
<1> DEFINE over == [c EXCEPT !.read = "none", !.again = FALSE]
<1>1. /\ over \in Client /\ Same(c, over) /\ over.read = "none"
      /\ over.held = c.held /\ over.lost = c.lost
  BY DEF Client, Same
<1>2. CASE c.again
  <2>1. settled(c) = drain(over)
    BY <1>2 DEF settled
  <2>2. drain(over).read # "answered"
    BY <1>1 DEF Client, drain, asks
  <2>3. drain(over) \in Client /\ Same(over, drain(over)) /\ Triggered(drain(over))
    BY <1>1, DrainType
  <2> QED BY <1>1, <2>1, <2>2, <2>3 DEF Same
<1>3. CASE ~c.again
  BY <1>1, <1>3 DEF settled, Triggered
<1> QED BY <1>2, <1>3

\* A failed read and the session's own steps concern the agent's reads alone,
\* and leave a read to come, a read lost, or what the agent knew.
LEMMA ReadsAlone ==
    ASSUME client \in Client, Deferred \/ Session
    PROVE /\ UNCHANGED <<up, epoch, commits, mail, pending, published, told, watch, wire>>
          /\ client' \in Client /\ Same(client, client')
          /\ Fresh => Fresh'
          /\ UNCHANGED spent \/ Spend
<1>1. CASE Deferred
  <2> DEFINE c == [client EXCEPT !.lost = TRUE]
  <2>1. c \in Client /\ Same(client, c) /\ c.lost
    BY DEF Client, Same
  <2>2. settled(c) \in Client /\ Same(c, settled(c)) /\ Triggered(settled(c))
    BY <2>1, SettledType
  <2>3. client' = settled(c)
    BY <1>1 DEF Deferred
  <2>4. Same(client, client') /\ Fresh'
    BY <2>1, <2>2, <2>3 DEF Same, Fresh
  <2> QED BY <1>1, <2>2, <2>3, <2>4 DEF Deferred
<1>2. CASE Compact
  <2>1. /\ client' = [client EXCEPT !.held = @ \cup {"compacting"}]
        /\ UNCHANGED <<up, epoch, commits, mail, pending, published, told, watch, wire>> /\ Spend
    BY <1>2 DEF Compact
  <2>2. client' \in Client /\ Same(client, client') /\ "compacting" \in client'.held
    BY <2>1 DEF Client, Same
  <2> QED BY <2>1, <2>2 DEF Fresh, Triggered
<1>3. CASE resumeAfterNativeCompaction
  <2> DEFINE c == [client EXCEPT !.held = @ \ {"compacting"}]
  <2>1. c \in Client /\ Same(client, c)
    BY DEF Client, Same
  <2>2. client' = drain(c)
    BY <1>3 DEF resumeAfterNativeCompaction
  <2>3. drain(c) \in Client /\ Same(c, drain(c)) /\ Triggered(drain(c))
    BY <2>1, DrainType
  <2>4. Same(client, client') /\ Fresh'
    BY <2>1, <2>2, <2>3 DEF Same, Fresh
  <2> QED BY <1>3, <2>2, <2>3, <2>4 DEF resumeAfterNativeCompaction
<1>4. CASE session_start
  <2>1. /\ client' = [client EXCEPT !.held = @ \cup {"starting"}, !.read = "none",
                        !.again = FALSE, !.lost = client.lost \/ client.read # "none"]
        /\ UNCHANGED <<up, epoch, commits, mail, pending, published, told, watch, wire>> /\ Spend
    BY <1>4 DEF session_start
  <2>2. (client.lost \/ client.read # "none") \in BOOLEAN
    BY DEF Client
  <2>3. /\ client' \in Client
        /\ client'.lost = (client.lost \/ client.read # "none") /\ client'.read = "none"
        /\ client'.held = client.held \cup {"starting"}
        /\ client'.seen = client.seen /\ client'.got = client.got
        /\ client'.blind = client.blind /\ client'.cursor = client.cursor
        /\ client'.known = client.known
    BY <2>1, <2>2 DEF Client
  <2>4. Same(client, client')
    BY <2>3 DEF Same
  <2>5. Fresh => Fresh'
    BY <2>1, <2>3 DEF Fresh, Triggered
  <2> QED BY <2>1, <2>3, <2>4, <2>5
<1>5. CASE StartupReady \/ agent_settled
  <2> DEFINE c == [client EXCEPT !.held = @ \ {"starting"}]
  <2>1. /\ c \in Client /\ Same(client, c) /\ c.held = client.held \ {"starting"}
        /\ c.read = client.read /\ c.again = client.again /\ c.lost = client.lost
    BY DEF Client, Same
  <2>2. /\ client' = c \/ client' = drain(c)
        /\ UNCHANGED <<up, epoch, commits, mail, pending, published, told, watch, wire, spent>>
    BY <1>5 DEF StartupReady, agent_settled
  <2>3. drain(c) \in Client /\ Same(c, drain(c)) /\ Triggered(drain(c))
    BY <2>1, DrainType
  <2>4. CASE client' = c
    <3>1. Fresh => Fresh'
      BY <2>1, <2>2, <2>4 DEF Fresh, Triggered, Same
    <3> QED BY <2>1, <2>2, <2>4, <3>1
  <2>5. CASE client' = drain(c)
    <3>1. Same(client, client') /\ Fresh'
      BY <2>1, <2>3, <2>5 DEF Same, Fresh
    <3> QED BY <2>2, <2>3, <2>5, <3>1
  <2> QED BY <2>2, <2>4, <2>5
<1> QED
  BY <1>1, <1>2, <1>3, <1>4, <1>5 DEF Session

LEMMA OldestType ==
    ASSUME published \in Seq(Stores)
    PROVE /\ seq \in Nat /\ oldest \in Nat \ {0} /\ oldest <= seq + 1
BY Bounds DEF seq, oldest

LEMMA SpentType ==
    ASSUME spent \in 0..MaxFaults, UNCHANGED spent \/ Spend
    PROVE spent' \in 0..MaxFaults
BY Bounds DEF Spend

LEMMA WireType ==
    ASSUME wire \in Seq(Nat)
    PROVE /\ \A n \in Nat : Append(wire, n) \in Seq(Nat)
          /\ wire # <<>> => Head(wire) \in Nat /\ Tail(wire) \in Seq(Nat)
OBVIOUS

LEMMA TypeStep ==
    ASSUME TypeOK, Next
    PROVE TypeOK'
<1>1. ASSUME NEW s \in Stores, commit(s) PROVE TypeOK'
  BY <1>1 DEF TypeOK, commit, Hint
<1>2. ASSUME NEW h \in pending, publish(h) PROVE TypeOK'
  BY <1>2 DEF TypeOK, publish, Hint
<1>3. ASSUME NEW h \in pending, Drop(h) PROVE TypeOK'
  <2>1. spent' \in 0..MaxFaults
    BY <1>3, SpentType DEF TypeOK, Drop
  <2> QED
    BY <1>3, <2>1 DEF TypeOK, Drop
<1>4. CASE Stop
  <2>1. spent' \in 0..MaxFaults
    BY <1>4, SpentType DEF TypeOK, Stop
  <2>2. watch' \in Watch
    BY <1>4 DEF TypeOK, Stop, Watch
  <2>3. pending' \subseteq Hint /\ published' \in Seq(Stores)
    BY <1>4 DEF Stop
  <2> QED
    BY <1>4, <2>1, <2>2, <2>3 DEF TypeOK, Stop
<1>5. CASE Start
  BY <1>5 DEF TypeOK, Start
<1>6. CASE subscribe
  BY <1>6, OldestType DEF TypeOK, subscribe, Watch, upcoming
<1>7. CASE replay_from
  <2> DEFINE after == client.cursor
             rest == IF gap(after) THEN {Reorg}
                     ELSE {n \in retained(after) : published[n] = Mail}
             last == IF gap(after) THEN 0
                     ELSE IF retained(after) = {} THEN after ELSE seq
  <2>0. after \in Nat
    BY DEF TypeOK, Client
  <2>1. rest \in SUBSET Nat /\ last \in Nat
    BY <2>0, OldestType DEF TypeOK, retained, Reorg
  <2>2. watch' = [watch EXCEPT !.link = "live", !.replay = rest, !.last_seq = last]
    BY <1>7 DEF replay_from
  <2>3. watch' \in Watch
    <3> HIDE DEF rest, last
    <3> QED BY <2>1, <2>2 DEF TypeOK, Watch
  <2>4. hidden(after) \in BOOLEAN
    BY DEF hidden
  <2>5. client' = [client EXCEPT !.blind = hidden(after)]
    BY <1>7 DEF replay_from
  <2>6. client' \in Client
    BY <2>4, <2>5 DEF TypeOK, Client
  <2> QED
    BY <1>7, <2>3, <2>6 DEF TypeOK, replay_from
<1>8. ASSUME NEW n \in watch.replay, Replay(n) PROVE TypeOK'
  <2>1. n \in Nat /\ watch.replay \in SUBSET Nat
    BY DEF TypeOK, Watch
  <2>2. watch' \in Watch
    BY <1>8, <2>1 DEF TypeOK, Replay, Watch
  <2> QED
    BY <1>8, <2>1, <2>2, WireType DEF TypeOK, Replay, Forward
<1>9. CASE Lagged
  <2>1. watch' \in Watch
    BY <1>9, OldestType DEF TypeOK, Lagged, Watch
  <2> QED
    BY <1>9, <2>1, WireType DEF TypeOK, Lagged, Forward, Reorg
<1>10. CASE Recv
  <2>0. watch.pos \in Nat /\ watch.pos + 1 \in Nat \ {0} /\ watch \in Watch
    BY DEF TypeOK, Watch
  <2>1. watch' \in Watch
    <3>1. CASE watch' = [watch EXCEPT !.pos = @ + 1]
      BY <2>0, <3>1 DEF Watch
    <3>2. CASE watch' = [watch EXCEPT !.pos = @ + 1, !.last_seq = watch.pos]
      BY <2>0, <3>2 DEF Watch
    <3>3. CASE watch' = [watch EXCEPT !.pos = @ + 1, !.last_seq = watch.pos,
                                      !.sent = watch.pos]
      BY <2>0, <3>3 DEF Watch
    <3> QED
      BY <1>10, <3>1, <3>2, <3>3 DEF Recv
  <2> QED
    BY <1>10, <2>0, <2>1, WireType DEF TypeOK, Recv, Forward
<1>11. CASE dispatchEvent
  <2> DEFINE c == [client EXCEPT !.cursor = Head(wire), !.known = watch.epoch,
                                 !.blind = FALSE, !.channel = "healthy"]
  <2>0. Head(wire) \in Nat /\ Tail(wire) \in Seq(Nat) /\ watch.epoch \in Nat
    BY <1>11, WireType DEF TypeOK, dispatchEvent, Watch
  <2>1. c \in Client
    BY <2>0 DEF TypeOK, Client
  <2>2. (client' = drain(c) \/ client' = runMaintenanceCycle(c)) /\ wire' = Tail(wire)
    BY <1>11 DEF dispatchEvent
  <2>3. client' \in Client
    <3> HIDE DEF c
    <3> QED BY <2>1, <2>2, DrainType, CycleType
  <2> QED
    BY <1>11, <2>0, <2>2, <2>3 DEF TypeOK, dispatchEvent
<1>12. CASE Heartbeat
  BY <1>12 DEF TypeOK, Heartbeat, Client
<1>13. CASE handleDisconnect
  <2>1. [client EXCEPT !.channel = "dead"] \in Client
    BY DEF TypeOK, Client
  <2>2. client' \in Client
    BY <1>13, <2>1, CycleType DEF TypeOK, handleDisconnect
  <2>3. watch' \in Watch
    BY <1>13 DEF TypeOK, handleDisconnect, Watch
  <2>4. spent' \in 0..MaxFaults
    BY <1>13, SpentType DEF TypeOK, handleDisconnect
  <2>5. wire' \in Seq(Nat)
    BY <1>13 DEF handleDisconnect
  <2> QED
    BY <1>13, <2>2, <2>3, <2>4, <2>5 DEF TypeOK, handleDisconnect
<1>14. CASE Answer
  BY <1>14 DEF TypeOK, Answer, Client
<1>15. CASE Deliver
  <2>1. [client EXCEPT !.seen = client.got] \in Client
    BY DEF TypeOK, Client
  <2>2. client' \in Client
    BY <1>15, <2>1, SettledType DEF Deliver
  <2> QED
    BY <1>15, <2>2 DEF TypeOK, Deliver
<1>16. CASE Deferred \/ Session
  BY <1>16, ReadsAlone, SpentType DEF TypeOK
<1> QED
  BY <1>1, <1>2, <1>3, <1>4, <1>5, <1>6, <1>7, <1>8, <1>9, <1>10, <1>11, <1>12,
     <1>13, <1>14, <1>15, <1>16, Cases

\* What the type of the state says of the fields it is read through.
LEMMA FieldTypes ==
    ASSUME Inv
    PROVE /\ up \in BOOLEAN /\ epoch \in Nat /\ commits \in Nat /\ mail \in Nat /\ told \in Nat
          /\ pending \subseteq Hint /\ published \in Seq(Stores) /\ wire \in Seq(Nat)
          /\ watch \in Watch /\ client \in Client /\ seq \in Nat
          /\ watch.link \in {"none", "subscribed", "live", "lost"}
          /\ watch.epoch \in Nat /\ watch.replay \subseteq Nat /\ watch.pos \in Nat \ {0}
          /\ watch.last_seq \in Nat /\ watch.sent \in Nat
          /\ client.cursor \in Nat /\ client.known \in Nat /\ client.got \in Nat
          /\ client.seen \in Nat /\ client.blind \in BOOLEAN /\ client.again \in BOOLEAN
          /\ client.read \in {"none", "asked", "answered"}
BY DEF Inv, TypeOK, Watch, Client, seq

\* A frame of a seq given out joins the frames under way.
LEMMA WireBound ==
    ASSUME wire \in Seq(Nat), NEW k \in Nat, NEW n \in Nat, n <= k,
           \A i \in 1..Len(wire) : wire[i] <= k
    PROVE \A i \in 1..Len(Append(wire, n)) : Append(wire, n)[i] <= k
OBVIOUS

\* Taking one off leaves the bound in place.
LEMMA TailBound ==
    ASSUME wire \in Seq(Nat), wire # <<>>, NEW k \in Nat,
           \A i \in 1..Len(wire) : wire[i] <= k
    PROVE \A i \in 1..Len(Tail(wire)) : Tail(wire)[i] <= k
OBVIOUS

\* Steps that concern the agent's reads alone keep the simple parts.
LEMMA SimpleKept ==
    ASSUME Inv, Same(client, client'),
           UNCHANGED <<up, epoch, commits, mail, pending, published, told, watch, wire>>
    PROVE Simple'
BY DEF Same, Simple, Inv, seq, Behind, Gone, Epochs, UnderWay, CursorGiven, ReplayFirst, Commits

LEMMA SimpleStep ==
    ASSUME Inv, Next
    PROVE Simple'
<1>1. ASSUME NEW s \in Stores, commit(s) PROVE Simple'
  <2>1. Behind'
    BY <1>1, FieldTypes DEF Inv, Simple, Behind, commit, seq
  <2>2. Gone'
    BY <1>1, FieldTypes DEF Inv, Simple, Gone, commit, seq
  <2>3. Epochs'
    BY <1>1, FieldTypes DEF Inv, Simple, Epochs, commit, seq
  <2>4. UnderWay'
    BY <1>1, FieldTypes DEF Inv, Simple, UnderWay, commit, seq
  <2>5. CursorGiven'
    BY <1>1, FieldTypes DEF Inv, Simple, CursorGiven, commit, seq
  <2>6. ReplayFirst'
    BY <1>1, FieldTypes DEF Inv, Simple, ReplayFirst, commit, seq
  <2>7. Commits'
    <3>1. /\ mail \in Nat /\ commits \in Nat /\ mail <= commits
          /\ mail' = (IF s = Mail THEN commits + 1 ELSE mail)
          /\ commits' = commits + 1 /\ told' = told /\ client' = client
      BY <1>1, FieldTypes DEF Inv, Simple, Commits, commit
    <3>2. ASSUME NEW h \in pending', h.store = Mail
          PROVE h.at <= mail'
      <4>1. CASE h \in pending
        <5>1. h.at \in Nat /\ h.at <= mail
          BY <3>2, <4>1, FieldTypes DEF Inv, Simple, Commits, Hint
        <5> QED BY <3>1, <5>1
      <4>2. CASE h = [store |-> s, at |-> commits + 1]
        BY <3>1, <3>2, <4>2
      <4> QED BY <1>1, <4>1, <4>2 DEF commit
    <3>3. /\ told <= mail /\ client.seen <= mail /\ client.got <= mail
          /\ client.read = "answered" => client.seen <= client.got
      BY DEF Inv, Simple, Commits
    <3>4. told' <= mail' /\ mail' <= commits' /\ client'.seen <= mail' /\ client'.got <= mail'
      <4>1. told \in Nat /\ client.seen \in Nat /\ client.got \in Nat
        BY FieldTypes
      <4>2. mail' \in Nat /\ mail <= mail' /\ mail' <= commits + 1
        BY <3>1
      <4> QED BY <3>1, <3>3, <4>1, <4>2
    <3> QED
      BY <3>1, <3>2, <3>3, <3>4 DEF Commits
  <2> QED
    BY <2>1, <2>2, <2>3, <2>4, <2>5, <2>6, <2>7 DEF Simple
<1>2. ASSUME NEW h \in pending, publish(h) PROVE Simple'
  <2>1. Behind'
    <3>1. seq' = seq + 1 /\ watch' = watch /\ up' = up /\ epoch' = epoch
      BY <1>2, FieldTypes DEF publish, seq, Hint
    <3> QED BY <3>1, FieldTypes DEF Inv, Simple, Behind
  <2>2. Gone'
    BY <1>2, FieldTypes DEF Inv, Simple, Gone, publish, seq, Hint
  <2>3. Epochs'
    BY <1>2, FieldTypes DEF Inv, Simple, Epochs, publish, seq, Hint
  <2>4. UnderWay'
    <3>1. seq' = seq + 1 /\ watch' = watch /\ wire' = wire
      BY <1>2, FieldTypes DEF publish, seq, Hint
    <3>2. ASSUME NEW i \in 1..Len(wire) PROVE wire[i] \in Nat
      <4>1. wire \in Seq(Nat)
        BY FieldTypes
      <4> QED BY <4>1, ElementOfSeq
    <3>3. ASSUME watch.link = "live", NEW i \in 1..Len(wire) PROVE wire[i] <= seq + 1
      <4>1. wire[i] \in Nat /\ seq \in Nat /\ wire[i] <= seq
        BY <3>2, <3>3, FieldTypes DEF Inv, Simple, UnderWay
      <4> QED BY <4>1
    <3> QED BY <3>1, <3>3 DEF Inv, Simple, UnderWay
  <2>5. CursorGiven'
    BY <1>2, FieldTypes DEF Inv, Simple, CursorGiven, publish, seq, Hint
  <2>6. ReplayFirst'
    BY <1>2, FieldTypes DEF Inv, Simple, ReplayFirst, publish, seq, Hint
  <2>7. Commits'
    BY <1>2, FieldTypes DEF Inv, Simple, Commits, publish, seq, Hint
  <2> QED
    BY <2>1, <2>2, <2>3, <2>4, <2>5, <2>6, <2>7 DEF Simple
<1>3. ASSUME NEW h \in pending, Drop(h) PROVE Simple'
  BY <1>3 DEF Simple, Inv, TypeOK, Watch, Client, Drop, seq,
     Behind, Gone, Epochs, UnderWay, CursorGiven, ReplayFirst, Commits
<1>4. CASE Stop
  BY <1>4 DEF Simple, Inv, TypeOK, Watch, Client, Stop, seq,
     Behind, Gone, Epochs, UnderWay, CursorGiven, ReplayFirst, Commits
<1>5. CASE Start
  <2>1. /\ ~up /\ up' = TRUE /\ epoch' = epoch + 1 /\ published' = published
        /\ mail' = mail /\ commits' = commits /\ told' = told /\ pending' = pending
        /\ watch' = watch /\ wire' = wire /\ client' = client /\ seq' = seq
    BY <1>5 DEF Start, seq
  <2>2. Behind' /\ Gone'
    BY <2>1, FieldTypes DEF Inv, Simple, Behind, Gone, Epochs
  <2>3. Epochs'
    BY <2>1, FieldTypes DEF Inv, Simple, Epochs
  <2>4. UnderWay' /\ ReplayFirst'
    BY <2>1 DEF Inv, Simple, UnderWay, ReplayFirst
  <2>5. CursorGiven'
    BY <2>1, FieldTypes DEF Inv, Simple, Epochs, CursorGiven
  <2>6. Commits'
    BY <2>1 DEF Inv, Simple, Commits
  <2> QED
    BY <2>2, <2>3, <2>4, <2>5, <2>6 DEF Simple
<1>6. CASE subscribe
  BY <1>6 DEF Simple, Inv, TypeOK, Watch, Client, subscribe, upcoming, seq,
     Behind, Gone, Epochs, UnderWay, CursorGiven, ReplayFirst, Commits
<1>7. CASE replay_from
  <2>1. /\ watch.link = "subscribed" /\ watch'.link = "live" /\ watch'.epoch = watch.epoch
        /\ watch'.pos = watch.pos /\ watch'.sent = watch.sent /\ wire' = wire
        /\ up' = up /\ epoch' = epoch /\ published' = published
        /\ mail' = mail /\ commits' = commits /\ told' = told /\ pending' = pending
        /\ client'.cursor = client.cursor /\ client'.known = client.known
        /\ client'.seen = client.seen /\ client'.got = client.got /\ client'.read = client.read
    BY <1>7, FieldTypes DEF replay_from, Watch, Client
  <2>2. watch'.replay = IF gap(client.cursor) THEN {Reorg}
                        ELSE {n \in retained(client.cursor) : published[n] = Mail}
    BY <1>7, FieldTypes DEF replay_from, Watch
  <2>3. watch'.last_seq = IF gap(client.cursor) THEN 0
                          ELSE IF retained(client.cursor) = {} THEN client.cursor ELSE seq
    BY <1>7, FieldTypes DEF replay_from, Watch
  <2>4. Behind'
    BY <2>1, <2>2, <2>3, FieldTypes DEF Inv, Simple, Behind, seq, gap, retained, Reorg
  <2>5. Gone'
    BY <2>1, <2>2, <2>3, FieldTypes DEF Inv, Simple, Gone, seq, gap, retained, Reorg
  <2>6. Epochs'
    BY <2>1, <2>2, <2>3, FieldTypes DEF Inv, Simple, Epochs, seq, gap, retained, Reorg
  <2>7. UnderWay'
    BY <2>1, <2>2, <2>3, FieldTypes DEF Inv, Simple, UnderWay, seq, gap, retained, Reorg
  <2>8. CursorGiven'
    BY <2>1, <2>2, <2>3, FieldTypes DEF Inv, Simple, CursorGiven, seq, gap, retained, Reorg
  <2>9. ReplayFirst'
    BY <2>1, <2>2, <2>3, FieldTypes DEF Inv, Simple, ReplayFirst, seq, gap, retained, Reorg
  <2>10. Commits'
    BY <2>1, <2>2, <2>3, FieldTypes DEF Inv, Simple, Commits, seq, gap, retained, Reorg
  <2> QED
    BY <2>4, <2>5, <2>6, <2>7, <2>8, <2>9, <2>10 DEF Simple
<1>8. ASSUME NEW n \in watch.replay, Replay(n) PROVE Simple'
  <2>1. /\ n \in Nat /\ watch.link = "live" /\ watch'.link = "live"
        /\ watch'.epoch = watch.epoch /\ watch'.pos = watch.pos
        /\ watch'.last_seq = watch.last_seq /\ watch'.replay = watch.replay \ {n}
        /\ watch'.sent = (IF n = Reorg THEN watch.sent ELSE n)
        /\ \A m \in watch.replay : n <= m
    BY <1>8, FieldTypes DEF Replay, Demand, Watch
  <2>2. /\ wire' = Append(wire, n) /\ up' = up /\ epoch' = epoch /\ published' = published
        /\ mail' = mail /\ commits' = commits /\ told' = told /\ pending' = pending
        /\ client' = client
    BY <1>8 DEF Replay, Forward
  <2>3. n <= seq
    BY <2>1, FieldTypes DEF Inv, Simple, ReplayFirst, Behind
  <2>4. Behind'
    BY <2>1, <2>2, <2>3, FieldTypes DEF Inv, Simple, Behind, seq, Reorg
  <2>5. Gone'
    BY <2>1, <2>2, <2>3, FieldTypes DEF Inv, Simple, Gone, seq, Reorg
  <2>6. Epochs'
    BY <2>1, <2>2, <2>3, FieldTypes DEF Inv, Simple, Epochs, seq, Reorg
  <2>7. UnderWay'
    BY <2>1, <2>2, <2>3, FieldTypes, WireBound DEF Inv, Simple, UnderWay, seq
  <2>8. CursorGiven'
    BY <2>1, <2>2, <2>3, FieldTypes DEF Inv, Simple, CursorGiven, seq, Reorg
  <2>9. ReplayFirst'
    <3>1. watch.sent <= watch.last_seq /\ n <= watch.last_seq
      BY <2>1 DEF Inv, Simple, ReplayFirst
    <3>2. ASSUME NEW m \in watch.replay \ {n}
          PROVE m <= watch.last_seq /\ (m = Reorg \/ m > watch'.sent)
      <4>1. m \in Nat /\ n < m
        <5>1. watch.replay \subseteq Nat /\ n \in watch.replay
          BY <2>1, FieldTypes
        <5>2. m \in Nat /\ n \in Nat /\ m # n
          BY <5>1
        <5>3. n <= m
          BY <2>1
        <5> QED BY <5>2, <5>3
      <4>2. m <= watch.last_seq /\ (m = Reorg \/ m > watch.sent)
        BY <2>1 DEF Inv, Simple, ReplayFirst
      <4> QED BY <2>1, <4>1, <4>2
    <3>3. watch'.sent <= watch'.last_seq
      BY <2>1, <3>1
    <3> QED
      BY <2>1, <3>2, <3>3 DEF ReplayFirst
  <2>10. Commits'
    BY <2>1, <2>2, <2>3, FieldTypes DEF Inv, Simple, Commits, seq, Reorg
  <2> QED
    BY <2>4, <2>5, <2>6, <2>7, <2>8, <2>9, <2>10 DEF Simple
<1>9. CASE Lagged
  <2>1. /\ watch.link = "live" /\ watch'.link = "live"
        /\ watch'.epoch = watch.epoch /\ watch'.pos = oldest
        /\ watch'.last_seq = watch.last_seq /\ watch'.replay = watch.replay
        /\ watch'.sent = watch.sent
    BY <1>9, FieldTypes DEF Lagged, Demand, Watch
  <2>2. /\ wire' = Append(wire, 0) /\ up' = up /\ epoch' = epoch /\ published' = published
        /\ mail' = mail /\ commits' = commits /\ told' = told /\ pending' = pending
        /\ client' = client
    BY <1>9 DEF Lagged, Forward, Reorg
  <2>3. Behind'
    BY <2>1, <2>2, OldestType, FieldTypes DEF Inv, Simple, Behind, seq
  <2>4. Gone'
    BY <2>1, <2>2, OldestType, FieldTypes DEF Inv, Simple, Gone, seq
  <2>5. Epochs'
    BY <2>1, <2>2, OldestType, FieldTypes DEF Inv, Simple, Epochs, seq
  <2>6. UnderWay'
    <3>1. \A i \in 1..Len(wire) : wire[i] <= seq
      BY <2>1 DEF Inv, Simple, UnderWay
    <3>2. \A i \in 1..Len(wire') : wire'[i] <= seq
      <4>1. wire \in Seq(Nat) /\ seq \in Nat /\ 0 \in Nat /\ 0 <= seq
        BY FieldTypes
      <4>2. \A i \in 1..Len(Append(wire, 0)) : Append(wire, 0)[i] <= seq
        BY <3>1, <4>1, WireBound
      <4> QED BY <2>2, <4>2
    <3> QED
      BY <2>1, <2>2, <3>2 DEF UnderWay, seq
  <2>7. CursorGiven'
    BY <2>1, <2>2, OldestType, FieldTypes DEF Inv, Simple, CursorGiven, seq
  <2>8. ReplayFirst'
    BY <2>1, <2>2, OldestType, FieldTypes DEF Inv, Simple, ReplayFirst, seq
  <2>9. Commits'
    BY <2>1, <2>2, OldestType, FieldTypes DEF Inv, Simple, Commits, seq
  <2> QED
    BY <2>3, <2>4, <2>5, <2>6, <2>7, <2>8, <2>9 DEF Simple
<1>10. CASE Recv
  <2>1. /\ watch.link = "live" /\ watch'.link = "live" /\ watch.replay = {}
        /\ watch'.epoch = watch.epoch /\ watch'.pos = watch.pos + 1
        /\ watch'.replay = watch.replay /\ watch.pos <= seq
        /\ \/ /\ watch'.last_seq = watch.last_seq /\ watch'.sent = watch.sent /\ wire' = wire
           \/ /\ watch.pos > watch.last_seq /\ watch'.last_seq = watch.pos
              /\ watch'.sent = watch.sent /\ wire' = wire
           \/ /\ watch.pos > watch.last_seq /\ watch'.last_seq = watch.pos
              /\ watch'.sent = watch.pos /\ wire' = Append(wire, watch.pos)
    <3>1. CASE repeated
      BY <1>10, <3>1, FieldTypes DEF Recv, Demand, Watch
    <3>2. CASE ~repeated /\ published[watch.pos] = Mail
      <4>1. /\ watch' = [watch EXCEPT !.pos = @ + 1, !.last_seq = watch.pos,
                                       !.sent = watch.pos]
            /\ wire' = Append(wire, watch.pos)
            /\ watch.link = "live" /\ watch.replay = {} /\ watch.pos <= seq
        BY <1>10, <3>2 DEF Recv, Demand, Forward
      <4>2. watch.pos > watch.last_seq
        BY <3>2, FieldTypes DEF repeated
      <4> QED BY <4>1, <4>2, FieldTypes DEF Watch
    <3>3. CASE ~repeated /\ published[watch.pos] # Mail
      <4>1. /\ watch' = [watch EXCEPT !.pos = @ + 1, !.last_seq = watch.pos]
            /\ wire' = wire
            /\ watch.link = "live" /\ watch.replay = {} /\ watch.pos <= seq
        BY <1>10, <3>3 DEF Recv, Demand
      <4>2. watch.pos > watch.last_seq
        BY <3>3, FieldTypes DEF repeated
      <4> QED BY <4>1, <4>2, FieldTypes DEF Watch
    <3> QED BY <3>1, <3>2, <3>3
  <2>2. /\ up' = up /\ epoch' = epoch /\ published' = published
        /\ mail' = mail /\ commits' = commits /\ told' = told /\ pending' = pending
        /\ client' = client
    BY <1>10 DEF Recv, Forward
  <2>3. Behind'
    <3>1. up /\ watch.epoch = epoch /\ watch.last_seq <= seq
      BY <2>1 DEF Inv, Simple, Behind
    <3>2. seq' = seq /\ seq \in Nat /\ watch.pos \in Nat
      BY <2>2, FieldTypes DEF seq
    <3>3. watch'.pos <= seq + 1
      BY <2>1, <3>2
    <3>4. watch'.last_seq <= seq
      BY <2>1, <3>1
    <3> QED
      BY <2>1, <2>2, <3>1, <3>2, <3>3, <3>4 DEF Behind
  <2>4. Gone'
    BY <2>1, <2>2, FieldTypes DEF Inv, Simple, Gone, seq
  <2>5. Epochs'
    BY <2>1, <2>2, FieldTypes DEF Inv, Simple, Epochs, seq
  <2>6. UnderWay'
    BY <2>1, <2>2, WireBound, FieldTypes DEF Inv, Simple, UnderWay, seq
  <2>7. CursorGiven'
    BY <2>1, <2>2, FieldTypes DEF Inv, Simple, CursorGiven, seq
  <2>8. ReplayFirst'
    BY <2>1, <2>2, FieldTypes DEF Inv, Simple, ReplayFirst, seq
  <2>9. Commits'
    BY <2>1, <2>2, FieldTypes DEF Inv, Simple, Commits, seq
  <2> QED
    BY <2>3, <2>4, <2>5, <2>6, <2>7, <2>8, <2>9 DEF Simple
<1>11. CASE dispatchEvent
  <2>1. /\ wire # <<>> /\ wire' = Tail(wire) /\ up' = up /\ epoch' = epoch
        /\ published' = published /\ mail' = mail /\ commits' = commits
        /\ told' = told /\ pending' = pending /\ watch' = watch
    BY <1>11 DEF dispatchEvent
  <2>2. /\ client'.cursor = Head(wire) /\ client'.known = watch.epoch
        /\ client'.seen = client.seen /\ client'.got = client.got
        /\ client.read # "answered" => client'.read # "answered"
    <3> DEFINE c == [client EXCEPT !.cursor = Head(wire), !.known = watch.epoch,
                                   !.blind = FALSE, !.channel = "healthy"]
    <3>1. Head(wire) \in Nat
      BY <2>1, WireType, FieldTypes
    <3>2. /\ c \in Client /\ c.cursor = Head(wire) /\ c.known = watch.epoch
          /\ c.seen = client.seen /\ c.got = client.got /\ c.read = client.read
      BY <3>1, FieldTypes DEF Client
    <3>3. client' = drain(c) \/ client' = runMaintenanceCycle(c)
      BY <1>11 DEF dispatchEvent
    <3>4. Same(c, client')
      <4> HIDE DEF c
      <4> QED BY <3>2, <3>3, DrainType, CycleType
    <3> QED BY <3>2, <3>4 DEF Same
  <2>3. watch.link \in {"live", "lost"} /\ Head(wire) = wire[1] /\ 1 \in 1..Len(wire)
    BY <2>1, FieldTypes DEF Inv, Simple, UnderWay, Watch
  <2>4. Behind'
    BY <2>1, <2>2, <2>3, FieldTypes DEF Inv, Simple, Behind, seq
  <2>5. Gone'
    BY <2>1, <2>2, <2>3, FieldTypes DEF Inv, Simple, Gone, seq
  <2>6. Epochs'
    BY <2>1, <2>2, <2>3, FieldTypes DEF Inv, Simple, Epochs, seq
  <2>7. UnderWay'
    <3>1. CASE watch.link = "live"
      <4>1. \A i \in 1..Len(wire) : wire[i] <= seq
        BY <3>1 DEF Inv, Simple, UnderWay
      <4>2. wire \in Seq(Nat) /\ seq \in Nat /\ seq' = seq
        BY <2>1, FieldTypes DEF seq
      <4>3. \A i \in 1..Len(Tail(wire)) : Tail(wire)[i] <= seq
        BY <2>1, <4>1, <4>2, TailBound
      <4> QED BY <2>1, <3>1, <4>2, <4>3 DEF UnderWay
    <3>2. CASE watch.link = "lost"
      <4>1. watch.replay = {}
        BY <3>2 DEF Inv, Simple, UnderWay
      <4> QED BY <2>1, <3>2, <4>1 DEF UnderWay
    <3> QED BY <2>3, <3>1, <3>2
  <2>8. CursorGiven'
    <3>1. ASSUME up, watch.epoch = epoch PROVE watch.link = "live"
      <4>1. epoch \in Nat
        BY FieldTypes
      <4>2. ~(epoch < epoch)
        BY <4>1
      <4> QED BY <2>3, <3>1, <4>2 DEF Inv, Simple, Gone
    <3>2. ASSUME watch.link = "live" PROVE Head(wire) <= seq
      BY <2>3, <3>2 DEF Inv, Simple, UnderWay
    <3>3. seq' = seq
      BY <2>1 DEF seq
    <3> QED BY <2>1, <2>2, <3>1, <3>2, <3>3 DEF CursorGiven
  <2>9. ReplayFirst'
    BY <2>1, <2>2, <2>3, FieldTypes DEF Inv, Simple, ReplayFirst, seq
  <2>10. Commits'
    BY <2>1, <2>2, <2>3, FieldTypes DEF Inv, Simple, Commits, seq
  <2> QED
    BY <2>4, <2>5, <2>6, <2>7, <2>8, <2>9, <2>10 DEF Simple
<1>12. CASE Heartbeat
  BY <1>12 DEF Simple, Inv, TypeOK, Watch, Client, Heartbeat, seq,
     Behind, Gone, Epochs, UnderWay, CursorGiven, ReplayFirst, Commits
<1>13. CASE handleDisconnect
  <2>1. [client EXCEPT !.channel = "dead"] \in Client /\ Same(client, [client EXCEPT !.channel = "dead"])
    BY FieldTypes DEF Client, Same
  <2>2. Same(client, client')
    BY <1>13, <2>1, CycleType DEF handleDisconnect, Same
  <2>3. /\ watch'.link = "none" /\ watch'.replay = {} /\ watch'.epoch = watch.epoch /\ wire' = <<>>
        /\ UNCHANGED <<up, epoch, commits, mail, pending, published, told>>
    BY <1>13, FieldTypes DEF handleDisconnect, Watch
  <2> QED
    BY <2>2, <2>3 DEF Same, Simple, Inv, seq, Behind, Gone, Epochs, UnderWay, CursorGiven,
       ReplayFirst, Commits
<1>14. CASE Answer
  <2>1. Behind'
    BY <1>14, FieldTypes DEF Inv, Simple, Behind, Answer, seq, Client
  <2>2. Gone'
    BY <1>14, FieldTypes DEF Inv, Simple, Gone, Answer, seq, Client
  <2>3. Epochs'
    BY <1>14, FieldTypes DEF Inv, Simple, Epochs, Answer, seq, Client
  <2>4. UnderWay'
    BY <1>14, FieldTypes DEF Inv, Simple, UnderWay, Answer, seq, Client
  <2>5. CursorGiven'
    BY <1>14, FieldTypes DEF Inv, Simple, CursorGiven, Answer, seq, Client
  <2>6. ReplayFirst'
    BY <1>14, FieldTypes DEF Inv, Simple, ReplayFirst, Answer, seq, Client
  <2>7. Commits'
    BY <1>14, FieldTypes DEF Inv, Simple, Commits, Answer, seq, Client
  <2> QED
    BY <2>1, <2>2, <2>3, <2>4, <2>5, <2>6, <2>7 DEF Simple
<1>15. CASE Deliver
  <2> DEFINE c == [client EXCEPT !.seen = client.got]
  <2>1. /\ c \in Client /\ c.seen = client.got /\ c.got = client.got /\ c.cursor = client.cursor
        /\ c.known = client.known
    BY FieldTypes DEF Client
  <2>2. client' = settled(c)
    BY <1>15 DEF Deliver
  <2>3. Same(c, settled(c)) /\ settled(c).read # "answered"
    BY <2>1, SettledType
  <2>4. /\ client'.seen = client.got /\ client'.got = client.got /\ client'.cursor = client.cursor
        /\ client'.known = client.known /\ client'.read # "answered"
    BY <2>1, <2>2, <2>3 DEF Same
  <2> QED
    BY <1>15, <2>4 DEF Simple, Inv, Deliver, seq,
       Behind, Gone, Epochs, UnderWay, CursorGiven, ReplayFirst, Commits
<1>16. CASE Deferred \/ Session
  BY <1>16, ReadsAlone, SimpleKept, FieldTypes
<1> QED
  BY <1>1, <1>2, <1>3, <1>4, <1>5, <1>6, <1>7, <1>8, <1>9, <1>10, <1>11, <1>12,
     <1>13, <1>14, <1>15, <1>16, Cases DEF Inv

Covers == CursorCovers /\ StreamCovers

\* Steps that touch neither the feed nor the agent, nor the stream's side.
LEMMA Untouched ==
    ASSUME Inv, UNCHANGED <<up, epoch, published, told, client>>
    PROVE /\ CursorCovers' /\ Fresh' = Fresh /\ seq' = seq /\ oldest' = oldest
          /\ UNCHANGED <<watch, wire>> => StreamCovers'
BY DEF Inv, CursorCovers, StreamCovers, Fresh, Triggered, After, seq, oldest

\* So do the steps that concern its reads alone, if nothing is forgotten.
LEMMA CoversKept ==
    ASSUME Inv, UNCHANGED <<up, epoch, published, told, watch, wire>>,
           Same(client, client'), Fresh => Fresh'
    PROVE Covers'
BY DEF Same, Inv, Covers, CursorCovers, StreamCovers, After, seq, oldest

LEMMA CoversStep ==
    ASSUME Inv, Next
    PROVE Covers'
<1>1. ASSUME NEW s \in Stores, commit(s) PROVE Covers'
  BY <1>1, Untouched DEF commit, Covers
<1>2. ASSUME NEW h \in pending, publish(h) PROVE Covers'
  <2>1. /\ published' = Append(published, h.store) /\ published \in Seq(Stores)
        /\ UNCHANGED <<up, epoch, watch, wire, client>>
        /\ told' = (IF h.store = Mail /\ h.at > told THEN h.at ELSE told)
    BY <1>2, FieldTypes DEF publish
  <2>2. /\ seq' = seq + 1 /\ seq \in Nat /\ published'[seq + 1] = h.store
        /\ \A n \in 1..seq : published'[n] = published[n]
    BY <2>1 DEF seq
  <2>3. CASE h.store = Mail
    <3>1. seq + 1 \in 1..seq' /\ published'[seq + 1] = Mail
      BY <2>2, <2>3
    <3>2. up /\ client.known = epoch => client.cursor < seq + 1
      BY <2>2, FieldTypes DEF Inv, Simple, CursorGiven
    <3>3. CursorCovers'
      <4>1. ASSUME up, client.known = epoch
            PROVE seq + 1 > client.cursor /\ seq + 1 >= 0
        BY <2>2, <3>2, <4>1, FieldTypes
      <4> QED BY <2>1, <3>1, <4>1 DEF CursorCovers, After
    <3>4. watch.link = "live" => watch.last_seq < seq + 1 /\ watch.pos <= seq + 1
      BY <2>2, FieldTypes DEF Inv, Simple, Behind
    <3>5. StreamCovers'
      BY <2>1, <2>2, <3>1, <3>4 DEF StreamCovers, After
    <3> QED BY <3>3, <3>5 DEF Covers
  <2>4. CASE h.store # Mail
    <3>1. Fresh' = Fresh
      BY <2>1, <2>4 DEF Fresh, Triggered
    <3>2. ASSUME NEW n \in 1..seq, published[n] = Mail
          PROVE n \in 1..seq' /\ published'[n] = Mail
      BY <2>2, <3>2
    <3>3. watch.pos < oldest => watch.pos < oldest'
      BY <2>2, FieldTypes, Bounds DEF oldest
    <3>4. After(client.cursor, 0) => After(client.cursor, 0)'
      BY <2>1, <3>2 DEF After
    <3>5. After(watch.last_seq, watch.pos) => After(watch.last_seq, watch.pos)'
      BY <2>1, <3>2 DEF After
    <3>6. After(client.cursor, 0)' => CursorCovers'
      BY DEF CursorCovers
    <3>7. CursorCovers'
      BY <2>1, <3>1, <3>4, <3>6 DEF Inv, CursorCovers
    <3>8. After(watch.last_seq, watch.pos)' => StreamCovers'
      BY DEF StreamCovers
    <3>9. StreamCovers'
      BY <2>1, <3>1, <3>3, <3>5, <3>8 DEF Inv, StreamCovers
    <3> QED BY <3>7, <3>9 DEF Covers
  <2> QED BY <2>3, <2>4
<1>3. ASSUME NEW h \in pending, Drop(h) PROVE Covers'
  BY <1>3, Untouched DEF Drop, Covers
<1>4. CASE Stop
  <2>1. ~up' /\ watch'.link # "live"
    BY <1>4, FieldTypes DEF Stop, Watch
  <2> QED BY <2>1 DEF Covers, CursorCovers, StreamCovers
<1>5. CASE Start
  <2>1. ~up /\ epoch' = epoch + 1 /\ client' = client /\ watch' = watch
    BY <1>5 DEF Start
  <2>2. client'.known # epoch' /\ watch'.link # "live"
    BY <2>1, FieldTypes DEF Inv, Simple, Epochs, Behind
  <2> QED BY <2>2 DEF Covers, CursorCovers, StreamCovers
<1>6. CASE subscribe
  <2>1. CursorCovers' /\ watch'.link # "live"
    BY <1>6, Untouched DEF subscribe
  <2> QED BY <2>1 DEF Covers, StreamCovers
<1>7. CASE replay_from
  <2>1. /\ watch.link = "subscribed" /\ up
        /\ watch'.replay = (IF gap(client.cursor) THEN {Reorg}
                             ELSE {n \in retained(client.cursor) : published[n] = Mail})
    BY <1>7, FieldTypes DEF replay_from, Watch, Inv, Simple, Behind
  <2>2. /\ UNCHANGED <<up, epoch, published, told>> /\ client'.blind = hidden(client.cursor)
        /\ client'.cursor = client.cursor /\ client'.known = client.known
        /\ client'.read = client.read /\ client'.seen = client.seen
        /\ client'.got = client.got /\ client'.again = client.again
        /\ client'.held = client.held /\ client'.lost = client.lost
    BY <1>7, FieldTypes DEF replay_from, Client
  <2>3. Fresh' = Fresh
    BY <2>2 DEF Fresh, Triggered
  <2>4. CursorCovers'
    BY <2>2, <2>3 DEF Inv, CursorCovers, After, seq
  <2>5. ASSUME ~hidden(client.cursor), ~gap(client.cursor), ~Fresh
        PROVE watch'.replay # {}
    <3>1. client.known = epoch /\ (client.cursor = 0 => oldest <= 1)
          /\ (client.cursor > 0 => client.cursor + 1 >= oldest)
      BY <2>5, FieldTypes, OldestType DEF hidden, gap, Inv, TypeOK
    <3>2. PICK n \in 1..seq : n > client.cursor /\ published[n] = Mail
      BY <2>1, <2>5, <3>1 DEF Inv, CursorCovers, After
    <3>3. n \in (client.cursor + 1)..seq /\ n >= oldest
      <4>1. n \in Nat /\ seq \in Nat /\ client.cursor \in Nat /\ oldest \in Nat
        BY FieldTypes, OldestType DEF Inv, TypeOK
      <4>2. n > client.cursor /\ n <= seq
        BY <3>2, <4>1
      <4> QED BY <3>1, <4>1, <4>2
    <3>4. n \in watch'.replay
      BY <2>1, <2>5, <3>2, <3>3 DEF retained
    <3> QED BY <3>4
  <2>6. StreamCovers'
    BY <2>1, <2>2, <2>3, <2>5 DEF StreamCovers
  <2> QED BY <2>4, <2>6 DEF Covers
<1>8. ASSUME NEW n \in watch.replay, Replay(n) PROVE Covers'
  <2>1. CursorCovers'
    BY <1>8, Untouched DEF Replay, Forward
  <2>2. wire' # <<>>
    <3>1. n \in Nat /\ wire \in Seq(Nat) /\ wire' = Append(wire, n)
      BY <1>8, FieldTypes DEF Replay, Forward
    <3> QED BY <3>1
  <2> QED BY <2>1, <2>2 DEF Covers, StreamCovers
<1>9. CASE Lagged
  <2>1. CursorCovers'
    BY <1>9, Untouched DEF Lagged, Forward
  <2>2. wire' # <<>>
    BY <1>9, FieldTypes DEF Lagged, Forward, Reorg
  <2> QED BY <2>1, <2>2 DEF Covers, StreamCovers
<1>10. CASE Recv
  <2>1. UNCHANGED <<up, epoch, published, told, client>>
    BY <1>10 DEF Recv, Forward
  <2>2. CursorCovers' /\ Fresh' = Fresh /\ seq' = seq
    BY <2>1, Untouched
  <2>3. /\ watch.link = "live" /\ watch.replay = {} /\ watch.pos >= oldest
    BY <1>10 DEF Recv, Demand
  <2>4. oldest \in Nat
    BY OldestType DEF Inv, TypeOK
  <2>5. ASSUME ~Fresh, wire = <<>>, ~client.blind
        PROVE \E n \in 1..seq : n > watch.last_seq /\ n >= watch.pos /\ published[n] = Mail
    BY <2>3, <2>4, <2>5, FieldTypes DEF Inv, StreamCovers, After
  <2>6. CASE repeated
    <3>1. /\ watch'.pos = watch.pos + 1 /\ watch'.last_seq = watch.last_seq /\ wire' = wire
          /\ watch.pos <= watch.last_seq
      BY <1>10, <2>6, FieldTypes DEF Recv, Watch, repeated
    <3>2. ASSUME ~Fresh, wire = <<>>, ~client.blind
          PROVE \E n \in 1..seq : n > watch.last_seq /\ n >= watch.pos + 1 /\ published[n] = Mail
      <4>1. PICK n \in 1..seq : n > watch.last_seq /\ published[n] = Mail
        BY <2>5, <3>2
      <4>2. n >= watch.pos + 1
        BY <3>1, <4>1, FieldTypes
      <4> QED BY <4>1, <4>2
    <3> QED
      BY <2>1, <2>2, <3>1, <3>2 DEF Covers, StreamCovers, After
  <2>7. CASE ~repeated /\ published[watch.pos] = Mail
    <3>1. wire' # <<>>
      BY <1>10, <2>7, FieldTypes DEF Recv, Forward
    <3> QED BY <2>2, <3>1 DEF Covers, StreamCovers
  <2>8. CASE ~repeated /\ published[watch.pos] # Mail
    <3>1. watch' = [watch EXCEPT !.pos = @ + 1, !.last_seq = watch.pos] /\ wire' = wire
      BY <1>10, <2>8 DEF Recv
    <3>2. watch'.pos = watch.pos + 1 /\ watch'.last_seq = watch.pos
      BY <3>1, FieldTypes DEF Watch
    <3>3. ASSUME ~Fresh, wire = <<>>, ~client.blind
          PROVE \E n \in 1..seq : n > watch.pos /\ n >= watch.pos + 1 /\ published[n] = Mail
      <4>1. PICK n \in 1..seq : n >= watch.pos /\ published[n] = Mail
        BY <2>5, <3>3
      <4>2. n # watch.pos
        BY <2>8, <4>1
      <4>3. n >= watch.pos + 1
        BY <4>1, <4>2, FieldTypes
      <4> QED BY <4>1, <4>3, FieldTypes
    <3> QED
      BY <2>1, <2>2, <3>1, <3>2, <3>3 DEF Covers, StreamCovers, After
  <2> QED BY <2>6, <2>7, <2>8
<1>11. CASE dispatchEvent
  <2> DEFINE c == [client EXCEPT !.cursor = Head(wire), !.known = watch.epoch,
                                 !.blind = FALSE, !.channel = "healthy"]
  <2>1. c \in Client
    <3>1. Head(wire) \in Nat
      BY <1>11, WireType, FieldTypes DEF dispatchEvent
    <3> QED BY <3>1, FieldTypes DEF Client
  <2>2. client' = drain(c) \/ client' = runMaintenanceCycle(c)
    BY <1>11 DEF dispatchEvent
  <2>3. Triggered(client')
    <3> HIDE DEF c
    <3> QED BY <2>1, <2>2, DrainType, CycleType
  <2>4. Fresh'
    BY <2>3 DEF Fresh
  <2> QED BY <2>4 DEF Covers, CursorCovers, StreamCovers
<1>12. CASE Heartbeat
  <2>1. /\ UNCHANGED <<up, epoch, published, told, watch, wire>> /\ client'.blind = client.blind
        /\ client'.cursor = client.cursor /\ client'.known = client.known
        /\ client'.read = client.read /\ client'.seen = client.seen
        /\ client'.got = client.got /\ client'.again = client.again
        /\ client'.held = client.held /\ client'.lost = client.lost
    BY <1>12, FieldTypes DEF Heartbeat, Client
  <2>2. Fresh => Fresh'
    BY <2>1 DEF Same, Fresh, Triggered
  <2>3. Same(client, client')
    BY <2>1 DEF Same
  <2> QED BY <2>1, <2>2, <2>3, CoversKept
<1>13. CASE handleDisconnect
  <2>1. StreamCovers'
    BY <1>13, FieldTypes DEF handleDisconnect, StreamCovers, Watch
  <2>2. CASE client.channel = "dead"
    <3>1. CursorCovers'
      BY <1>13, <2>2, Untouched DEF handleDisconnect
    <3> QED BY <2>1, <3>1 DEF Covers
  <2>3. CASE client.channel # "dead"
    <3>1. [client EXCEPT !.channel = "dead"] \in Client
      BY FieldTypes DEF Client
    <3>2. Triggered(client')
      BY <1>13, <2>3, <3>1, CycleType DEF handleDisconnect
    <3> QED BY <2>1, <3>2 DEF Covers, CursorCovers, Fresh
  <2> QED BY <2>2, <2>3
<1>14. CASE Answer
  <2>1. client'.read = "answered" /\ client'.got = mail /\ told' = told
    BY <1>14, FieldTypes DEF Answer, Client
  <2>2. mail >= told
    BY FieldTypes DEF Inv, Simple, Commits
  <2> QED BY <2>1, <2>2 DEF Covers, CursorCovers, StreamCovers, Fresh
<1>15. CASE Deliver
  <2> DEFINE c == [client EXCEPT !.seen = client.got]
  <2>1. /\ c \in Client /\ c.seen = client.got /\ c.cursor = client.cursor
        /\ c.known = client.known /\ c.blind = client.blind /\ c.again = client.again
        /\ c.lost = client.lost /\ c.held = client.held
    BY FieldTypes DEF Client
  <2>2. /\ client' = settled(c) /\ client.read = "answered"
        /\ UNCHANGED <<up, epoch, published, told, watch, wire>>
    BY <1>15 DEF Deliver
  <2>3. /\ Same(c, settled(c))
        /\ c.again \/ c.lost \/ "compacting" \in c.held => Triggered(settled(c))
    BY <2>1, SettledType
  <2>4. /\ client'.seen = client.got /\ client'.blind = client.blind
        /\ client'.cursor = client.cursor /\ client'.known = client.known
        /\ client.again \/ client.lost \/ "compacting" \in client.held => Triggered(client')
    BY <2>1, <2>2, <2>3 DEF Same
  <2>5. Fresh => Fresh'
    <3>1. client.got >= client.seen
      BY <2>2, FieldTypes DEF Inv, Simple, Commits
    <3>2. client.seen >= told => client.got >= told
      BY <3>1, FieldTypes
    <3> QED BY <2>2, <2>4, <3>2 DEF Fresh, Triggered
  <2> QED
    BY <2>2, <2>4, <2>5 DEF Inv, Covers, CursorCovers, StreamCovers, After, seq, oldest
<1>16. CASE Deferred \/ Session
  BY <1>16, ReadsAlone, CoversKept, FieldTypes
<1> QED
  BY <1>1, <1>2, <1>3, <1>4, <1>5, <1>6, <1>7, <1>8, <1>9, <1>10, <1>11, <1>12,
     <1>13, <1>14, <1>15, <1>16, Cases

LEMMA InvStep ==
    ASSUME Inv, [Next]_vars
    PROVE Inv'
<1>1. CASE Next
  BY <1>1, TypeStep, SimpleStep, CoversStep DEF Inv, Covers
<1>2. CASE UNCHANGED vars
  BY <1>2 DEF vars, Inv, Simple, TypeOK, Behind, Gone, Epochs, UnderWay, CursorGiven,
     ReplayFirst, Commits, CursorCovers, StreamCovers, Fresh, Triggered, After, seq, oldest
<1> QED
  BY <1>1, <1>2

LEMMA Invariant == Spec => []Inv
BY InitInv, InvStep, PTL DEF Spec

\* The state of the feed, the connection and the watcher keeps its types.
THEOREM TypeCorrect == Spec => []TypeOK
<1>1. Inv => TypeOK
  BY DEF Inv
<1> QED
  BY <1>1, Invariant, PTL

\* Once nothing is under way or withheld, an agent whose replay was not blind and
\* whose last read did not fail has read all it was told of: whoever resumes or stays connected had it ahead of them
\* (CursorCovers, StreamCovers), and here nothing is ahead.
THEOREM NothingIsMissed == Spec => []NothingMissed
<1>1. ASSUME Inv, Quiet, ~client.blind, ~client.lost
      PROVE client.seen >= told
  <2>1. ~After(watch.last_seq, watch.pos)
    BY <1>1, FieldTypes DEF Quiet, After
  <2>2. ~(watch.pos < oldest)
    BY <1>1, OldestType DEF Quiet, Inv, TypeOK
  <2>3. Fresh
    BY <1>1, <2>1, <2>2 DEF Quiet, Inv, StreamCovers
  <2> QED
    BY <1>1, <2>3 DEF Quiet, Fresh, Triggered
<1>2. Inv => NothingMissed
  BY <1>1 DEF NothingMissed
<1> QED
  BY <1>2, Invariant, PTL

\* What a connection forwards comes after all it has forwarded: the replay is
\* in order, and what the receiver holds of it again is skipped (last_seq).
THEOREM InOrder == Spec => ForwardedInOrder
<1>1. ASSUME Inv, [Next]_vars, NEW n \in 1..seq, wire' = Append(wire, n)
      PROVE n > watch.sent
  <2>a. wire \in Seq(Nat) /\ n \in Nat \ {0}
    BY <1>1, FieldTypes
  <2>b. Len(wire') = Len(wire) + 1 /\ wire'[Len(wire) + 1] = n
    BY <1>1, <2>a
  <2>0. wire' # wire /\ wire' # <<>>
    BY <2>a, <2>b
  <2>1. ASSUME NEW m \in Nat, wire' = Append(wire, m) PROVE m = n
    <3>1. wire'[Len(wire) + 1] = m
      BY <2>a, <2>1
    <3> QED BY <2>b, <3>1
  <2>2. wire # <<>> => wire' # Tail(wire)
    BY <2>a, <2>b
  <2>3. ASSUME NEW m \in watch.replay, Replay(m) PROVE n > watch.sent
    <3>1. m = n
      <4>1. m \in Nat /\ wire' = Append(wire, m)
        BY <1>1, <2>3, FieldTypes DEF Replay, Forward
      <4> QED BY <2>1, <4>1
    <3>2. m = Reorg \/ m > watch.sent
      BY <1>1, <2>3 DEF Inv, Simple, ReplayFirst, Replay, Demand
    <3> QED
      BY <2>a, <3>1, <3>2 DEF Reorg
  <2>4. ~Lagged
    BY <2>a, <2>1 DEF Lagged, Forward, Reorg
  <2>5. CASE Recv
    <3>1. ~repeated /\ watch.link = "live" /\ wire' = Append(wire, watch.pos)
      BY <2>0, <2>5 DEF Recv, Forward, Demand
    <3>2. watch.pos = n
      BY <1>1, <2>1, <3>1, FieldTypes
    <3>3. watch.sent <= watch.last_seq /\ ~(watch.pos <= watch.last_seq)
      BY <1>1, <3>1 DEF repeated, Inv, Simple, ReplayFirst
    <3> QED
      BY <1>1, <3>2, <3>3, FieldTypes
  <2>6. CASE UNCHANGED wire
    BY <2>0, <2>6
  <2>7. ~dispatchEvent /\ ~handleDisconnect
    BY <2>0, <2>2 DEF dispatchEvent, handleDisconnect
  <2> QED
    <3>1. UNCHANGED vars => UNCHANGED wire
      BY DEF vars
    <3>2. CASE Next
      BY <2>3, <2>4, <2>5, <2>6, <2>7, <3>2, Cases
         DEF commit, publish, Drop, Stop, Start, subscribe, replay_from, Heartbeat,
             Answer, Deliver, Deferred, Session, Compact, resumeAfterNativeCompaction,
             session_start, StartupReady, agent_settled
    <3> QED
      BY <1>1, <2>6, <3>1, <3>2
<1>2. Inv /\ [Next]_vars =>
          [\A n \in 1..seq : wire' = Append(wire, n) => n > watch.sent]_vars
  BY <1>1
<1> QED
  BY <1>2, Invariant, PTL DEF Spec, ForwardedInOrder
=============================================================================
