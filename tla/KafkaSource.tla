---------------------------- MODULE KafkaSource ----------------------------
(***************************************************************************)
(* The kafka source (run/source/kafka/kafka.go, consumer.go) in members of *)
(* one consumer group, each under the restart loop of cmd/fnrunner.        *)
(*                                                                         *)
(* Serve calls Consume in a loop; a Consume is one session of the group,   *)
(* in which every claimed partition is served by a ConsumeClaim goroutine. *)
(* The group itself, broker and client library, is outside the repository: *)
(* who owns a partition, what is committed, when a session ends.           *)
(***************************************************************************)
EXTENDS Naturals

CONSTANTS
  Nodes,         \* the processes that run fnrunner
  Partitions,    \* the partitions of the topics
  None,          \* no owner
  Last,          \* the messages of a partition are numbered 1 .. Last
  Oldest,        \* the nodes whose k.Oldest is set
  IgnoreErrors,  \* k.IgnoreErrors
  Faults         \* what may go wrong, a subset of FaultKinds

FaultKinds == {"setup",      \* the group client cannot be created
               "consume",    \* Consume returns an error
               "rebalance",  \* the group ends a session
               "evict",      \* the group takes a partition from a slow member
               "crash",      \* the process dies, and is started again
               "cancel"}     \* the context of Serve ends

ASSUME KafkaAssumption ==
  /\ None \notin Nodes
  /\ Last \in Nat
  /\ Oldest \subseteq Nodes
  /\ IgnoreErrors \in BOOLEAN
  /\ Faults \subseteq FaultKinds

VARIABLES
  client,     \* k.client of each node
  serve,      \* where Serve, with its goroutine, is
  cancelled,  \* the nodes whose context has ended
  ending,     \* the nodes whose session the library is closing
  claim,      \* the ConsumeClaim of a node for a partition
  next,       \* the message that ConsumeClaim works on, or receives next
  marked,     \* the last message marked in the session
  owner,      \* the member that owns a partition: the group's view
  committed,  \* the last message committed, at the broker; 0 if none is
  log,        \* the last message of a partition so far
  handled,    \* history: messages f has returned no error for
  skipped     \* history: messages that a claim started after, none being committed

session == <<ending, claim, next, marked>>
broker == <<owner, committed, log>>
history == <<handled, skipped>>

vars == <<client, serve, cancelled, session, broker, history>>

Messages == 1 .. Last

Init ==
  /\ client = [n \in Nodes |-> "none"]
  /\ serve = [n \in Nodes |-> "start"]
  /\ cancelled = {}
  /\ ending = {}
  /\ claim = [n \in Nodes |-> [p \in Partitions |-> "none"]]
  /\ next = [n \in Nodes |-> [p \in Partitions |-> 1]]
  /\ marked = [n \in Nodes |-> [p \in Partitions |-> 0]]
  /\ owner = [p \in Partitions |-> None]
  /\ committed = [p \in Partitions |-> 0]
  /\ log \in [Partitions -> 0 .. Last]
  /\ handled = [p \in Partitions |-> {}]
  /\ skipped = [p \in Partitions |-> {}]

-----------------------------------------------------------------------------
(* Serve.  "start" is also where the restart loop calls it again.          *)

\* setUpConsumerGroup: a client that exists is used again, closed or not.
SetUp(n) ==
  /\ serve[n] = "start"
  /\ client' = [client EXCEPT ![n] = IF @ = "none" THEN "open" ELSE @]
  /\ serve' = [serve EXCEPT ![n] = "loop"]
  /\ UNCHANGED <<cancelled, session, broker, history>>

\* Serve returns the error and the restart loop waits and calls it again.
SetUpFails(n) ==
  /\ serve[n] = "start"
  /\ client[n] = "none"
  /\ "setup" \in Faults
  /\ UNCHANGED vars

\* Mutant of Stop: the loop goes on.
StopContinues(n) ==
  /\ serve[n] = "loop"
  /\ n \in cancelled
  /\ UNCHANGED vars

\* ctx.Err() != nil: the deferred calls close the client and errorCh, and
\* Serve returns nil.
Stop(n) ==
  /\ serve[n] = "loop"
  /\ n \in cancelled
  /\ serve' = [serve EXCEPT ![n] = "stopped"]
  /\ client' = [client EXCEPT ![n] = "closed"]
  /\ UNCHANGED <<cancelled, session, broker, history>>

Free == {p \in Partitions : owner[p] = None}

Joining(n) == serve[n] = "loop" /\ n \notin cancelled /\ client[n] = "open"

\* The message a claim starts with: the one after the last committed message.  If
\* none is committed it is the first, where Offsets.Initial is OffsetOldest, or
\* else the next one that will be produced.
StartAt(n, p) ==
  IF committed[p] > 0 \/ n \in Oldest THEN committed[p] + 1 ELSE log[p] + 1

\* Consume joins the group, is assigned the partitions that nobody owns, or
\* shares them with members that are joining too, and starts a ConsumeClaim for
\* each.
Join(n) ==
  /\ Joining(n)
  /\ \E P \in (SUBSET Free) \ {{}} :
       /\ P # Free => \E m \in Nodes \ {n} : Joining(m)
       /\ owner' = [p \in Partitions |-> IF p \in P THEN n ELSE owner[p]]
       /\ claim' = [claim EXCEPT ![n] =
            [p \in Partitions |-> IF p \in P THEN "ready" ELSE "none"]]
       /\ next' = [next EXCEPT ![n] =
            [p \in Partitions |-> IF p \in P THEN StartAt(n, p) ELSE @[p]]]
       /\ marked' = [marked EXCEPT ![n] =
            [p \in Partitions |-> IF p \in P THEN committed[p] ELSE @[p]]]
       /\ skipped' = [p \in Partitions |->
            skipped[p] \cup
              IF p \in P THEN committed[p] + 1 .. StartAt(n, p) - 1 ELSE {}]
  /\ serve' = [serve EXCEPT ![n] = "session"]
  /\ UNCHANGED <<client, cancelled, ending, committed, log, handled>>

\* Consume returns an error: it goes to errorCh, the client is closed, Serve
\* returns the error, and the restart loop calls Serve again.
ConsumeFails(n) ==
  /\ serve[n] = "loop"
  /\ n \notin cancelled
  /\ "consume" \in Faults \/ client[n] = "closed"
  /\ client' = [client EXCEPT ![n] = "closed"]
  /\ serve' = [serve EXCEPT ![n] = "start"]
  /\ UNCHANGED <<cancelled, session, broker, history>>

\* All claims have ended: the marks are committed where the node still is the
\* owner, and it leaves its partitions.  The library keeps the error of a claim
\* to itself: Consume returns nil and the loop goes on.  It may also return an
\* error of a session, as the stand-in for the library in TestServe_withFnError
\* does with f's: that goes the way of ConsumeFails.
EndSession(n) ==
  /\ serve[n] = "session"
  /\ n \in ending
  /\ \A p \in Partitions : claim[n][p] \in {"none", "ended"}
  /\ committed' = [p \in Partitions |->
                     IF owner[p] = n THEN marked[n][p] ELSE committed[p]]
  /\ owner' = [p \in Partitions |-> IF owner[p] = n THEN None ELSE owner[p]]
  /\ claim' = [claim EXCEPT ![n] = [p \in Partitions |-> "none"]]
  /\ ending' = ending \ {n}
  /\ \/ /\ serve' = [serve EXCEPT ![n] = "loop"]
        /\ UNCHANGED client
     \/ /\ "consume" \in Faults
        /\ serve' = [serve EXCEPT ![n] = "start"]
        /\ client' = [client EXCEPT ![n] = "closed"]
  /\ UNCHANGED <<cancelled, next, marked, log, history>>

Serve(n) == SetUp(n) \/ SetUpFails(n) \/ Stop(n) \/ Join(n) \/ ConsumeFails(n)
              \/ EndSession(n)

-----------------------------------------------------------------------------
(* ConsumeClaim of node n for partition p.                                 *)

SetClaim(n, p, c) == claim' = [claim EXCEPT ![n][p] = c]

\* for message := range claim.Messages(): a closing session may still deliver
\* what it has fetched.
Receive(n, p) ==
  /\ claim[n][p] = "ready"
  /\ next[n][p] <= log[p]
  /\ SetClaim(n, p, "invoking")
  /\ UNCHANGED <<client, serve, cancelled, ending, next, marked, broker,
                 history>>

\* The channel is closed: return nil.
MessagesClosed(n, p) ==
  /\ claim[n][p] = "ready"
  /\ n \in ending
  /\ SetClaim(n, p, "ended")
  /\ UNCHANGED <<client, serve, cancelled, ending, next, marked, broker,
                 history>>

\* session.MarkMessage(message, ""), and the next turn of the loop.
Mark(n, p) ==
  /\ marked' = [marked EXCEPT ![n][p] = next[n][p]]
  /\ next' = [next EXCEPT ![n][p] = @ + 1]
  /\ SetClaim(n, p, "ready")

InvokeSucceeds(n, p) ==
  /\ claim[n][p] = "invoking"
  /\ Mark(n, p)
  /\ handled' = [handled EXCEPT ![p] = @ \cup {next[n][p]}]
  /\ UNCHANGED <<client, serve, cancelled, ending, broker, skipped>>

\* Mutant of InvokeFails: the message is skipped and the claim goes on.
InvokeFailsAndContinues(n, p) ==
  /\ claim[n][p] = "invoking"
  /\ IF IgnoreErrors
     THEN Mark(n, p)
     ELSE /\ next' = [next EXCEPT ![n][p] = @ + 1]
          /\ SetClaim(n, p, "ready")
          /\ UNCHANGED marked
  /\ UNCHANGED <<client, serve, cancelled, ending, broker, history>>

\* Mutant of InvokeFails: the message is marked before the error is looked at.
InvokeFailsMarked(n, p) ==
  /\ claim[n][p] = "invoking"
  /\ marked' = [marked EXCEPT ![n][p] = next[n][p]]
  /\ next' = [next EXCEPT ![n][p] = @ + 1]
  /\ SetClaim(n, p, IF IgnoreErrors THEN "ready" ELSE "ended")
  /\ ending' = IF IgnoreErrors THEN ending ELSE ending \cup {n}
  /\ UNCHANGED <<client, serve, cancelled, broker, history>>

\* An error that is not ignored ends the claim, which ends the session.
InvokeFails(n, p) ==
  /\ claim[n][p] = "invoking"
  /\ IF IgnoreErrors
     THEN Mark(n, p) /\ UNCHANGED ending
     ELSE /\ SetClaim(n, p, "ended")
          /\ ending' = ending \cup {n}
          /\ UNCHANGED <<next, marked>>
  /\ UNCHANGED <<client, serve, cancelled, broker, history>>

ConsumeClaim(n, p) ==
  Receive(n, p) \/ MessagesClosed(n, p) \/ InvokeSucceeds(n, p)
    \/ InvokeFails(n, p)

-----------------------------------------------------------------------------
(* The client library, the broker and the environment.                     *)

\* Another message is sent to the partition.
Produce(p) ==
  /\ log[p] < Last
  /\ log' = [log EXCEPT ![p] = @ + 1]
  /\ UNCHANGED <<client, serve, cancelled, session, owner, committed, history>>

\* Marks are committed from time to time.
AutoCommit(n, p) ==
  /\ serve[n] = "session"
  /\ owner[p] = n
  /\ committed' = [committed EXCEPT ![p] = marked[n][p]]
  /\ UNCHANGED <<client, serve, cancelled, session, owner, log, history>>

\* The group rebalances, because a partition is free or for another reason, or
\* the context has ended.
CloseSession(n) ==
  /\ serve[n] = "session"
  /\ "rebalance" \in Faults \/ Free # {} \/ n \in cancelled
  /\ ending' = ending \cup {n}
  /\ UNCHANGED <<client, serve, cancelled, claim, next, marked, broker,
                 history>>

\* The group gives up a member that, say, is busy in f for too long: the
\* partition is free, while f runs on there.
Evict(n, p) ==
  /\ "evict" \in Faults
  /\ owner[p] = n
  /\ owner' = [owner EXCEPT ![p] = None]
  /\ UNCHANGED <<client, serve, cancelled, session, committed, log, history>>

Crash(n) ==
  /\ "crash" \in Faults
  /\ serve[n] # "start"
  /\ client' = [client EXCEPT ![n] = "none"]
  /\ serve' = [serve EXCEPT ![n] = "start"]
  /\ cancelled' = cancelled \ {n}
  /\ ending' = ending \ {n}
  /\ claim' = [claim EXCEPT ![n] = [p \in Partitions |-> "none"]]
  /\ owner' = [p \in Partitions |-> IF owner[p] = n THEN None ELSE owner[p]]
  /\ UNCHANGED <<next, marked, committed, log, history>>

Cancel(n) ==
  /\ "cancel" \in Faults
  /\ cancelled' = cancelled \cup {n}
  /\ UNCHANGED <<client, serve, session, broker, history>>

Closing(n) == (n \in cancelled \/ Free # {}) /\ CloseSession(n)

Group(n, p) == AutoCommit(n, p) \/ CloseSession(n) \/ Evict(n, p)

Next ==
  \/ \E n \in Nodes :
       \/ Serve(n) \/ Crash(n) \/ Cancel(n)
       \/ \E p \in Partitions : ConsumeClaim(n, p) \/ Group(n, p)
  \/ \E p \in Partitions : Produce(p)

Spec == Init /\ [][Next]_vars

\* The loop of Serve and the claims run, f does not hang, a consumer that tries
\* again and again to join the group can join it, and marks are committed.
Fairness ==
  \A n \in Nodes :
    /\ WF_vars(SetUp(n) \/ Stop(n) \/ EndSession(n))
    /\ SF_vars(Join(n))
    /\ WF_vars(Closing(n))
    /\ \A p \in Partitions :
         /\ WF_vars(ConsumeClaim(n, p))
         /\ WF_vars(AutoCommit(n, p))

LiveSpec == Spec /\ Fairness

\* Besides, f does not fail for ever on a message.
FairSpec ==
  LiveSpec /\ \A n \in Nodes, p \in Partitions : SF_vars(InvokeSucceeds(n, p))

-----------------------------------------------------------------------------
(* Properties.                                                             *)

TypeOK ==
  /\ client \in [Nodes -> {"none", "open", "closed"}]
  /\ serve \in [Nodes -> {"start", "loop", "session", "stopped"}]
  /\ cancelled \in SUBSET Nodes
  /\ ending \in SUBSET Nodes
  /\ claim \in [Nodes -> [Partitions -> {"none", "ready", "invoking", "ended"}]]
  /\ next \in [Nodes -> [Partitions -> 1 .. Last + 1]]
  /\ marked \in [Nodes -> [Partitions -> 0 .. Last]]
  /\ owner \in [Partitions -> Nodes \cup {None}]
  /\ committed \in [Partitions -> 0 .. Last]
  /\ log \in [Partitions -> 0 .. Last]
  /\ handled \in [Partitions -> SUBSET Messages]
  /\ skipped \in [Partitions -> SUBSET Messages]

\* Messages of a partition are handled in order: f is not called for one
\* before it has succeeded for all those before it, except for those that some
\* claim was started after (none where k.Oldest is set everywhere).
InOrder ==
  ~IgnoreErrors =>
    \A n \in Nodes, p \in Partitions : \A m \in Messages :
      claim[n][p] = "invoking" /\ m < next[n][p] => m \in handled[p] \cup skipped[p]

Delivery == INSTANCE DeliveryContract WITH
  Messages <- Partitions \X Messages,
  handled <- UNION {{p} \X handled[p] : p \in Partitions},
  skipped <- UNION {{p} \X skipped[p] : p \in Partitions},
  settled <- UNION {{p} \X (1 .. committed[p]) : p \in Partitions}

\* "will mark the message as received unless the function returns an error":
\* what is committed was handled before, on whatever members, and stays
\* committed, for all partitions of a session together, and whatever sessions,
\* crashes and evictions there are in between.  (If errors are not ignored.)
\* Without k.Oldest a claim that starts while nothing is committed skips what is
\* there, also a message that f has failed for or had in hand: a later commit
\* covers those too.
ImplementsDelivery == Delivery!Spec

\* The group, the process or its context disturb the source.
Disturbance ==
  \E n \in Nodes :
    \/ Crash(n) \/ Cancel(n) \/ (Free = {} /\ CloseSession(n))
    \/ \E p \in Partitions : Evict(n, p)

\* A node that can still join the group.
Sound(n) == n \notin cancelled /\ client[n] # "closed"

\* If the disturbances end, and a node is left that can join, every message that
\* was produced, and not skipped, is committed in the end: the errors of f, if
\* they are ignored or not for ever, hold nothing up.
AllCommitted ==
  <>[][~Disturbance]_vars /\ <>[](\E n \in Nodes : Sound(n))
    => <>[](\A p \in Partitions :
              \/ committed[p] = log[p]
              \/ committed[p] = 0 /\ 1 .. log[p] \subseteq skipped[p])

\* Serve returns when its context has ended, if the process does not crash first.
StopsWhenCancelled ==
  \A n \in Nodes : n \in cancelled ~> serve[n] = "stopped" \/ n \notin cancelled

\* "fnrunner restarts (...) after receiving an error while serving": a node
\* that does not go away again ends up in a session.
Restarts ==
  \A n \in Nodes : []<>(serve[n] = "session" \/ n \in cancelled)
=============================================================================
