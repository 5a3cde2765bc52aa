------------------------------ MODULE ChangeFeed ------------------------------
(***************************************************************************)
(* How an agent learns that its mailbox changed: chiefd commits, publishes  *)
(* a hint in a bounded ring, and streams the ring to the agent's watcher,   *)
(* which reads the mailbox again at every hint.  Connections are cut, the   *)
(* daemon stops and starts, callers go away before their hint is published. *)
(* A read can fail while the daemon is up, is withheld while the agent's    *)
(* session is compacted, and is not made for a resync that arrives before   *)
(* the session is ready.  The company-wide maintenance that also withholds  *)
(* reads is left out: nothing can start one any more.                       *)
(***************************************************************************)
EXTENDS Naturals, Sequences

CONSTANTS Stores,     \* the stores of the company
          Mail,       \* the one this agent watches: its mailbox
          Capacity,   \* hints the ring and the broadcast channel retain
          WireRoom,   \* frames under way to the watcher
          MaxCommits, \* bound: commits to any store
          MaxFaults   \* bound: stops, cuts, lost hints, compactions, sessions

ASSUME FeedAssumption ==
    /\ Mail \in Stores
    /\ Capacity \in Nat \ {0} /\ WireRoom \in Nat \ {0}
    /\ MaxCommits \in Nat /\ MaxFaults \in Nat

VARIABLES
    up,         \* the daemon serves
    epoch,      \* how often it has started
    commits,    \* commits to any store; a commit is known by its number
    mail,       \* the latest commit that wrote the mailbox
    pending,    \* hints of committed writes that are not published yet
    published,  \* the stores of this epoch's hints, by seq
    told,       \* the latest mailbox commit a hint was published for
    watch,      \* the daemon's side of the connection (WatchState)
    wire,       \* frames under way to the watcher
    client,     \* the agent's watcher and its reads (SseWatcher, drain)
    spent       \* how much of MaxFaults is used up

vars == <<up, epoch, commits, mail, pending, published, told, watch, wire,
          client, spent>>

Reorg == 0                 \* a frame is the seq of its hint, or a reorg
seq == Len(published)

\* The oldest seq the ring retains, 1 when nothing was evicted.
oldest == IF seq > Capacity THEN seq - Capacity + 1 ELSE 1

Hint == [store : Stores, at : Nat]

Watch == [link : {"none", "subscribed", "live", "lost"},
          epoch : Nat,        \* of the daemon it was opened to
          replay : SUBSET Nat, \* outcomes of the replay not sent yet
          pos : Nat \ {0},    \* the next hint of the broadcast receiver
          last_seq : Nat,
          sent : Nat]         \* the latest hint forwarded on this connection

Client == [cursor : Nat,      \* lastEventId; 0 when there is none
           known : Nat,       \* the epoch of the daemon last heard of
           blind : BOOLEAN,   \* the last replay could not tell what was lost
           channel : {"healthy", "dead"},
           read : {"none", "asked", "answered"},
           got : Nat,         \* what the read under way was answered
           again : BOOLEAN,   \* the dirty flag: another read follows
           held : SUBSET {"compacting", "starting"},  \* what the session is at
           lost : BOOLEAN,    \* the last read failed, or was not made
           seen : Nat]        \* the mailbox commit the agent has read

Spend == spent < MaxFaults /\ spent' = spent + 1

-----------------------------------------------------------------------------
(* The daemon. *)

commit(s) ==
    /\ up /\ commits < MaxCommits
    /\ commits' = commits + 1
    /\ mail' = IF s = Mail THEN commits + 1 ELSE mail
    /\ pending' = pending \cup {[store |-> s, at |-> commits + 1]}
    /\ UNCHANGED <<up, epoch, published, told, watch, wire, client, spent>>

\* The seq, the ring and the broadcast are one step, in any order of commits.
publish(h) ==
    /\ h \in pending
    /\ pending' = pending \ {h}
    /\ published' = Append(published, h.store)
    /\ told' = IF h.store = Mail /\ h.at > told THEN h.at ELSE told
    /\ UNCHANGED <<up, epoch, commits, mail, watch, wire, client, spent>>

\* The caller that was to publish the hint of a row write is gone.
Drop(h) ==
    /\ Spend /\ h \in pending
    /\ pending' = pending \ {h}
    /\ UNCHANGED <<up, epoch, commits, mail, published, told, watch, wire, client>>

Stop ==
    /\ Spend /\ up
    /\ up' = FALSE
    /\ pending' = {} /\ published' = <<>>
    /\ watch' = [watch EXCEPT !.link = IF @ = "none" THEN "none" ELSE "lost",
                              !.replay = {}]
    /\ UNCHANGED <<epoch, commits, mail, told, wire, client>>

Start ==
    /\ ~up
    /\ up' = TRUE /\ epoch' = epoch + 1
    /\ UNCHANGED <<commits, mail, pending, published, told, watch, wire, client, spent>>

latest == seq  \* mutant of upcoming

\* A receiver is subscribed to what is published from now on.
upcoming == seq + 1

\* The stream subscribes first and takes the replay snapshot afterwards.
subscribe ==
    /\ up /\ watch.link = "none"
    /\ watch' = [link |-> "subscribed", epoch |-> epoch, replay |-> {},
                 pos |-> upcoming, last_seq |-> 0, sent |-> 0]
    /\ UNCHANGED <<up, epoch, commits, mail, pending, published, told, wire, client, spent>>

gap(after) == after > seq \/ (after > 0 /\ after + 1 < oldest)

retained(after) == {n \in (after + 1)..seq : n >= oldest}

\* A gap the two comparisons of replay_from cannot see.
hidden(after) == ~gap(after) /\ (client.known # epoch \/ (after = 0 /\ oldest > 1))

replay_from ==
    LET after == client.cursor IN
    /\ watch.link = "subscribed"
    /\ watch' = [watch EXCEPT
           !.link = "live",
           !.replay = IF gap(after) THEN {Reorg}
                      ELSE {n \in retained(after) : published[n] = Mail},
           !.last_seq = IF gap(after) THEN 0
                        ELSE IF retained(after) = {} THEN after ELSE seq]
    /\ client' = [client EXCEPT !.blind = hidden(after)]
    /\ UNCHANGED <<up, epoch, commits, mail, pending, published, told, wire, spent>>

Forward(n) ==
    /\ wire' = Append(wire, n)
    /\ UNCHANGED <<up, epoch, commits, mail, pending, published, told, client, spent>>

Demand == watch.link = "live" /\ Len(wire) < WireRoom

\* watch_step: the replay is drained in order before the channel is read.
Replay(n) ==
    /\ Demand /\ n \in watch.replay /\ \A m \in watch.replay : n <= m
    /\ watch' = [watch EXCEPT !.replay = @ \ {n},
                              !.sent = IF n = Reorg THEN @ ELSE n]
    /\ Forward(n)

Lagged ==
    /\ Demand /\ watch.replay = {} /\ watch.pos < oldest
    /\ watch' = [watch EXCEPT !.pos = oldest]
    /\ Forward(Reorg)

repeatsTheLast == watch.pos < watch.last_seq  \* mutant of repeated
repeated == watch.pos <= watch.last_seq

Recv ==
    /\ Demand /\ watch.replay = {} /\ watch.pos >= oldest /\ watch.pos <= seq
    /\ IF repeated
       THEN /\ watch' = [watch EXCEPT !.pos = @ + 1]
            /\ UNCHANGED <<up, epoch, commits, mail, pending, published, told,
                           wire, client, spent>>
       ELSE IF published[watch.pos] = Mail
       THEN /\ watch' = [watch EXCEPT !.pos = @ + 1, !.last_seq = watch.pos,
                                      !.sent = watch.pos]
            /\ Forward(watch.pos)
       ELSE /\ watch' = [watch EXCEPT !.pos = @ + 1, !.last_seq = watch.pos]
            /\ UNCHANGED <<up, epoch, commits, mail, pending, published, told,
                           wire, client, spent>>

-----------------------------------------------------------------------------
(* The agent. *)

asks(c) == [c EXCEPT !.read = "asked", !.lost = FALSE]

joins(c) == IF "compacting" \notin c.held /\ c.read = "none" THEN asks(c) ELSE c  \* mutant of drain

\* A trigger starts a read, or has the one under way followed by another.
\* Nothing is read during a compaction, whose end is a trigger of its own.
drain(c) == IF "compacting" \in c.held THEN c
            ELSE IF c.read = "none" THEN asks(c)
            ELSE [c EXCEPT !.again = TRUE]

\* A resync before the session is ready is dropped.
runMaintenanceCycle(c) == IF "starting" \in c.held THEN [c EXCEPT !.lost = TRUE]
                          ELSE drain(c)

\* A read is over: the dirty flag is the next trigger.
settled(c) == LET over == [c EXCEPT !.read = "none", !.again = FALSE]
              IN  IF c.again THEN drain(over) ELSE over

\* A frame sets the cursor, a reorg drops it, and either has the mailbox read.
dispatchEvent ==
    LET heard == [client EXCEPT !.cursor = Head(wire), !.known = watch.epoch,
                                !.blind = FALSE, !.channel = "healthy"] IN
    /\ wire # <<>>
    /\ wire' = Tail(wire)
    /\ client' = IF Head(wire) = Reorg THEN runMaintenanceCycle(heard) ELSE drain(heard)
    /\ UNCHANGED <<up, epoch, commits, mail, pending, published, told, watch, spent>>

Heartbeat ==
    /\ watch.link = "live" /\ client.channel = "dead"
    /\ client' = [client EXCEPT !.channel = "healthy"]
    /\ UNCHANGED <<up, epoch, commits, mail, pending, published, told, watch, wire, spent>>

\* The connection is gone, with the frames under way. A channel that turns
\* dead has the mailbox read once.
handleDisconnect ==
    /\ \/ watch.link = "lost" /\ UNCHANGED spent
       \/ watch.link \in {"subscribed", "live"} /\ Spend
    /\ watch' = [watch EXCEPT !.link = "none", !.replay = {}]
    /\ wire' = <<>>
    /\ client' = IF client.channel = "dead" THEN client
                 ELSE runMaintenanceCycle([client EXCEPT !.channel = "dead"])
    /\ UNCHANGED <<up, epoch, commits, mail, pending, published, told>>

Answer ==
    /\ up /\ client.read = "asked"
    /\ client' = [client EXCEPT !.read = "answered", !.got = mail]
    /\ UNCHANGED <<up, epoch, commits, mail, pending, published, told, watch, wire, spent>>

Deliver ==
    /\ client.read = "answered"
    /\ client' = settled([client EXCEPT !.seen = client.got])
    /\ UNCHANGED <<up, epoch, commits, mail, pending, published, told, watch, wire, spent>>

\* A read that fails, with the daemon down or up, is left to the next trigger.
Deferred ==
    /\ client.read # "none"
    /\ client' = settled([client EXCEPT !.lost = TRUE])
    /\ UNCHANGED <<up, epoch, commits, mail, pending, published, told, watch, wire, spent>>

-----------------------------------------------------------------------------
(* The session the agent's mail is delivered to. *)

Compact ==
    /\ Spend /\ "compacting" \notin client.held
    /\ client' = [client EXCEPT !.held = @ \cup {"compacting"}]
    /\ UNCHANGED <<up, epoch, commits, mail, pending, published, told, watch, wire>>

resumeAfterNativeCompaction ==
    /\ "compacting" \in client.held
    /\ client' = drain([client EXCEPT !.held = @ \ {"compacting"}])
    /\ UNCHANGED <<up, epoch, commits, mail, pending, published, told, watch, wire, spent>>

\* Another session takes over, and what the last one was reading is dropped.
session_start ==
    /\ Spend
    /\ client' = [client EXCEPT !.held = @ \cup {"starting"}, !.read = "none",
                                !.again = FALSE,
                                !.lost = client.lost \/ client.read # "none"]
    /\ UNCHANGED <<up, epoch, commits, mail, pending, published, told, watch, wire>>

\* The session is ready; it reads its mailbox when it is found to be idle.
StartupReady ==
    LET ready == [client EXCEPT !.held = @ \ {"starting"}] IN
    /\ "starting" \in client.held
    /\ client' = ready \/ client' = drain(ready)
    /\ UNCHANGED <<up, epoch, commits, mail, pending, published, told, watch, wire, spent>>

\* The end of a turn is a trigger.
agent_settled ==
    /\ client' = drain([client EXCEPT !.held = @ \ {"starting"}])
    /\ UNCHANGED <<up, epoch, commits, mail, pending, published, told, watch, wire, spent>>

-----------------------------------------------------------------------------
Init ==
    /\ up = TRUE /\ epoch = 1
    /\ commits = 0 /\ mail = 0 /\ pending = {} /\ published = <<>> /\ told = 0
    /\ watch = [link |-> "none", epoch |-> 1, replay |-> {}, pos |-> 1,
                last_seq |-> 0, sent |-> 0]
    /\ wire = <<>>
    /\ client = [cursor |-> 0, known |-> 1, blind |-> FALSE, channel |-> "healthy",
                 read |-> "none", got |-> 0, again |-> FALSE, held |-> {},
                 lost |-> FALSE, seen |-> 0]
    /\ spent = 0

Writer   == (\E s \in Stores : commit(s)) \/ (\E h \in pending : publish(h) \/ Drop(h))
Daemon   == Stop \/ Start
Stream   == subscribe \/ replay_from \/ (\E n \in watch.replay : Replay(n)) \/ Lagged \/ Recv
Watcher  == dispatchEvent \/ Heartbeat \/ handleDisconnect
Reader   == Answer \/ Deliver \/ Deferred

Session  == Compact \/ resumeAfterNativeCompaction \/ session_start
            \/ StartupReady \/ agent_settled

Next == Writer \/ Daemon \/ Stream \/ Watcher \/ Reader \/ Session

Spec == Init /\ [][Next]_vars

-----------------------------------------------------------------------------
(* Properties *)

TypeOK ==
    /\ up \in BOOLEAN /\ epoch \in Nat
    /\ commits \in Nat /\ mail \in Nat /\ told \in Nat
    /\ pending \subseteq Hint
    /\ published \in Seq(Stores)
    /\ watch \in Watch /\ wire \in Seq(Nat) /\ client \in Client
    /\ spent \in 0..MaxFaults

\* Connected to the daemon that runs, with nothing under way or withheld.
Quiet ==
    /\ up /\ watch.link = "live" /\ watch.replay = {} /\ watch.pos = seq + 1
    /\ wire = <<>> /\ client.read = "none" /\ "compacting" \notin client.held

\* A quiet agent has read every mailbox commit a hint was published for, unless
\* the last read it was to make failed or was dropped, or the replay it was
\* opened with was blind: over a restart the counter has passed again, or
\* without a cursor once the ring has lost something. Cuts, lag, evictions,
\* hints in any order, reads overtaken by commits and reads withheld during a
\* compaction lose nothing.
NothingMissed == Quiet /\ ~client.blind /\ ~client.lost => client.seen >= told

\* A connection forwards a hint at most once, and after those of smaller seqs,
\* though the receiver is opened before the replay and holds part of it again.
ForwardedInOrder ==
    [][\A n \in 1..seq : wire' = Append(wire, n) => n > watch.sent]_vars

\* Resuming after a cursor is lossless, as the watcher takes it for granted: a
\* quiet agent that holds one, and whose last read did not fail, has read every
\* mailbox commit hinted at.
ResumeIsLossless ==
    Quiet /\ client.cursor > 0 /\ ~client.lost => client.seen >= told
=============================================================================
