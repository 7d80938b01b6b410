---------------------------- MODULE KafkaProofs ----------------------------
(***************************************************************************)
(* Proofs about KafkaSource, for any number of members, partitions and     *)
(* messages and all faults: the messages of a partition are handled in     *)
(* order, and only what was handled is committed.  About KafkaMiddleware,  *)
(* for any number of processes and overlapping Invokes and any faults: f is*)
(* called only with a producer in place, and what callers are told agrees  *)
(* with the topics.  And about their composition, KafkaRelay: it implements*)
(* both, and only what was relayed is committed.                           *)
(***************************************************************************)
EXTENDS KafkaRelay, TLAPS

-----------------------------------------------------------------------------
(* The inductive invariant.                                                *)

\* A claim works on a message behind the last marked one, which was produced.
Claims ==
  \A n \in Nodes, p \in Partitions :
    /\ claim[n][p] # "none" => marked[n][p] < next[n][p]
    /\ claim[n][p] = "invoking" => next[n][p] <= log[p]

\* A member that owns a partition is in a session, in which the partition has a
\* claim, whose mark is not behind what is committed: the commit of an owner
\* takes nothing back.
Owners ==
  \A n \in Nodes, p \in Partitions :
    owner[p] = n => /\ serve[n] = "session"
                    /\ claim[n][p] # "none"
                    /\ committed[p] <= marked[n][p]

\* What was handled or skipped.
Past(p) == handled[p] \cup skipped[p]

\* What is committed, or before the message of a claim, was handled, by this claim
\* or before its session began, or was skipped.
MarkedHandled ==
  ~IgnoreErrors =>
    \A p \in Partitions :
      /\ 1 .. committed[p] \subseteq Past(p)
      /\ \A n \in Nodes :
           claim[n][p] # "none" => 1 .. (next[n][p] - 1) \subseteq Past(p)

Inv == TypeOK /\ Claims /\ Owners /\ MarkedHandled

LEMMA InitInv == Init => Inv
  BY KafkaAssumption
     DEF Init, Inv, TypeOK, Claims, Owners, MarkedHandled, Past, Messages

-----------------------------------------------------------------------------
(* Every action keeps the invariant.                                       *)

LEMMA SetUpInv ==
  ASSUME Inv, NEW n \in Nodes, SetUp(n)  PROVE Inv'
<1> USE DEF SetUp, session, broker, history, Inv
<1>1. TypeOK'
  BY DEF TypeOK
<1>2. Claims' /\ MarkedHandled'
  BY DEF Claims, MarkedHandled, Past
<1>3. Owners'
  BY DEF Owners, TypeOK
<1>. QED
  BY <1>1, <1>2, <1>3

LEMMA StopInv ==
  ASSUME Inv, NEW n \in Nodes, Stop(n)  PROVE Inv'
<1> USE DEF Stop, session, broker, history, Inv
<1>1. TypeOK'
  BY DEF TypeOK
<1>2. Claims' /\ MarkedHandled'
  BY DEF Claims, MarkedHandled, Past
<1>3. Owners'
  BY DEF Owners, TypeOK
<1>. QED
  BY <1>1, <1>2, <1>3

LEMMA ConsumeFailsInv ==
  ASSUME Inv, NEW n \in Nodes, ConsumeFails(n)  PROVE Inv'
<1> USE DEF ConsumeFails, session, broker, history, Inv
<1>1. TypeOK'
  BY DEF TypeOK
<1>2. Claims' /\ MarkedHandled'
  BY DEF Claims, MarkedHandled, Past
<1>3. Owners'
  BY DEF Owners, TypeOK
<1>. QED
  BY <1>1, <1>2, <1>3

\* Where a claim starts, and what that skips.
LEMMA StartFacts ==
  ASSUME TypeOK, NEW n \in Nodes, NEW p \in Partitions
  PROVE  /\ StartAt(n, p) \in 1 .. Last + 1
         /\ committed[p] < StartAt(n, p)
         /\ committed[p] + 1 .. StartAt(n, p) - 1 \subseteq Messages
         /\ 1 .. (StartAt(n, p) - 1)
              = (1 .. committed[p]) \cup (committed[p] + 1 .. StartAt(n, p) - 1)
<1>1. committed[p] \in 0 .. Last /\ log[p] \in 0 .. Last /\ Last \in Nat
  BY KafkaAssumption DEF TypeOK
<1>2. \/ StartAt(n, p) = committed[p] + 1
      \/ committed[p] = 0 /\ StartAt(n, p) = log[p] + 1
  BY <1>1 DEF StartAt
<1>. QED
  BY <1>1, <1>2 DEF Messages

\* A session starts after the last committed message, or after what is skipped.
\* The node owned nothing, so no partition that it owns loses its claim.
LEMMA JoinInv ==
  ASSUME Inv, NEW n \in Nodes, Join(n)  PROVE Inv'
<1> USE DEF Inv
<1>1. PICK P \in SUBSET Partitions :
        /\ \A p \in P : owner[p] = None
        /\ owner' = [p \in Partitions |-> IF p \in P THEN n ELSE owner[p]]
        /\ claim' = [claim EXCEPT ![n] =
             [p \in Partitions |-> IF p \in P THEN "ready" ELSE "none"]]
        /\ next' = [next EXCEPT ![n] =
             [p \in Partitions |-> IF p \in P THEN StartAt(n, p) ELSE @[p]]]
        /\ marked' = [marked EXCEPT ![n] =
             [p \in Partitions |-> IF p \in P THEN committed[p] ELSE @[p]]]
        /\ skipped' = [p \in Partitions |->
             skipped[p] \cup
               IF p \in P THEN committed[p] + 1 .. StartAt(n, p) - 1 ELSE {}]
  BY DEF Join, Free
<1>2. /\ serve[n] = "loop" /\ serve' = [serve EXCEPT ![n] = "session"]
      /\ UNCHANGED <<client, cancelled, ending, committed, log, handled>>
  BY DEF Join, Joining
<1>3. ASSUME NEW p \in Partitions, NEW m \in Nodes
      PROVE  /\ m # n => /\ claim'[m][p] = claim[m][p]
                         /\ next'[m][p] = next[m][p]
                         /\ marked'[m][p] = marked[m][p]
             /\ p \in P => /\ claim'[n][p] = "ready"
                           /\ next'[n][p] = StartAt(n, p)
                           /\ marked'[n][p] = committed[p]
                           /\ owner'[p] = n
             /\ p \notin P => claim'[n][p] = "none" /\ owner'[p] = owner[p]
  BY <1>1 DEF TypeOK
<1>4. TypeOK'
  <2>1. skipped' \in [Partitions -> SUBSET Messages]
    BY <1>1, StartFacts DEF TypeOK
  <2>2. next' \in [Nodes -> [Partitions -> 1 .. Last + 1]]
    BY <1>1, StartFacts DEF TypeOK
  <2>. QED
    BY <1>1, <1>2, <2>1, <2>2 DEF TypeOK
<1>5. Claims'
  <2> SUFFICES ASSUME NEW m \in Nodes, NEW p \in Partitions
               PROVE  /\ claim'[m][p] # "none" => marked'[m][p] < next'[m][p]
                      /\ claim'[m][p] = "invoking" => next'[m][p] <= log[p]
    BY <1>2 DEF Claims
  <2>1. CASE m # n
    BY <2>1, <1>3 DEF Claims
  <2>2. CASE m = n
    BY <2>2, <1>3, StartFacts
  <2>. QED
    BY <2>1, <2>2
<1>6. Owners'
  <2> SUFFICES ASSUME NEW m \in Nodes, NEW p \in Partitions, owner'[p] = m
               PROVE  /\ serve'[m] = "session"
                      /\ claim'[m][p] # "none"
                      /\ committed'[p] <= marked'[m][p]
    BY DEF Owners
  <2>1. CASE p \in P
    BY <2>1, <1>2, <1>3 DEF TypeOK
  <2>2. CASE p \notin P
    <3>1. owner[p] = m /\ serve[m] = "session" /\ m # n
      BY <2>2, <1>2, <1>3 DEF Owners
    <3>. QED
      BY <3>1, <1>2, <1>3 DEF Owners, TypeOK
  <2>. QED
    BY <2>1, <2>2
<1>7. MarkedHandled'
  <2> SUFFICES ASSUME ~IgnoreErrors, NEW p \in Partitions
               PROVE  /\ 1 .. committed[p] \subseteq Past(p)'
                      /\ \A m \in Nodes : claim'[m][p] # "none" =>
                           1 .. (next'[m][p] - 1) \subseteq Past(p)'
    BY <1>2 DEF MarkedHandled
  <2>1. Past(p) \subseteq Past(p)'
    BY <1>1, <1>2 DEF Past
  <2>2. 1 .. committed[p] \subseteq Past(p)
    BY DEF MarkedHandled
  <2>3. ASSUME NEW m \in Nodes, claim'[m][p] # "none"
        PROVE  1 .. (next'[m][p] - 1) \subseteq Past(p)'
    <3>1. CASE m # n
      BY <2>1, <2>3, <3>1, <1>3 DEF MarkedHandled
    <3>2. CASE m = n
      <4>1. p \in P /\ next'[m][p] = StartAt(n, p)
        BY <2>3, <3>2, <1>3
      <4>2. committed[p] + 1 .. StartAt(n, p) - 1 \subseteq Past(p)'
        BY <4>1, <1>1 DEF Past
      <4>. QED
        BY <4>1, <4>2, <2>1, <2>2, StartFacts
    <3>. QED
      BY <3>1, <3>2
  <2>. QED
    BY <2>1, <2>2, <2>3
<1>. QED
  BY <1>4, <1>5, <1>6, <1>7

\* What a claim has marked is in the past.
LEMMA MarkedPast ==
  ASSUME Inv, ~IgnoreErrors, NEW n \in Nodes, NEW p \in Partitions,
         claim[n][p] # "none"
  PROVE  1 .. marked[n][p] \subseteq Past(p)
<1>1. 1 .. (next[n][p] - 1) \subseteq Past(p) /\ marked[n][p] < next[n][p]
  BY DEF Inv, Claims, MarkedHandled
<1>2. marked[n][p] \in Nat /\ next[n][p] \in Nat
  BY DEF Inv, TypeOK
<1>. QED
  BY <1>1, <1>2

\* The marks that are committed belong to partitions the node owns.
LEMMA EndSessionInv ==
  ASSUME Inv, NEW n \in Nodes, EndSession(n)  PROVE Inv'
<1> USE DEF EndSession, history, Inv
<1>1. ASSUME NEW p \in Partitions, NEW m \in Nodes
      PROVE  /\ m # n => claim'[m][p] = claim[m][p]
             /\ claim'[n][p] = "none"
             /\ owner[p] = n => committed'[p] = marked[n][p] /\ owner'[p] = None
             /\ owner[p] # n => committed'[p] = committed[p] /\ owner'[p] = owner[p]
  BY DEF TypeOK
<1>2. TypeOK'
  <2>1. /\ client' \in [Nodes -> {"none", "open", "closed"}]
        /\ serve' \in [Nodes -> {"start", "loop", "session", "stopped"}]
    BY DEF TypeOK
  <2>. QED
    BY <2>1 DEF TypeOK
<1>3. Claims'
  BY <1>1 DEF Claims
<1>4. Owners'
  <2>1. \A m \in Nodes : m # n => serve'[m] = serve[m]
    BY DEF TypeOK
  <2>. QED
    BY <1>1, <2>1, KafkaAssumption DEF Owners
<1>5. MarkedHandled'
  BY <1>1, MarkedPast DEF MarkedHandled, Past, Owners
<1>. QED
  BY <1>2, <1>3, <1>4, <1>5

LEMMA ReceiveInv ==
  ASSUME Inv, NEW n \in Nodes, NEW p \in Partitions, Receive(n, p)  PROVE Inv'
<1> USE DEF Receive, SetClaim, broker, history, Inv
<1>1. TypeOK'
  BY DEF TypeOK
<1>2. Claims'
  BY DEF Claims, TypeOK
<1>3. Owners'
  BY DEF Owners, TypeOK
<1>4. MarkedHandled'
  BY DEF MarkedHandled, Past, TypeOK
<1>. QED
  BY <1>1, <1>2, <1>3, <1>4

LEMMA MessagesClosedInv ==
  ASSUME Inv, NEW n \in Nodes, NEW p \in Partitions, MessagesClosed(n, p)
  PROVE  Inv'
<1> USE DEF MessagesClosed, SetClaim, broker, history, Inv
<1>1. TypeOK'
  BY DEF TypeOK
<1>2. Claims'
  BY DEF Claims, TypeOK
<1>3. Owners'
  BY DEF Owners, TypeOK
<1>4. MarkedHandled'
  BY DEF MarkedHandled, Past, TypeOK
<1>. QED
  BY <1>1, <1>2, <1>3, <1>4

\* What Mark does to the claim it is called for, and to the others.
LEMMA MarkFacts ==
  ASSUME TypeOK, Claims, NEW n \in Nodes, NEW p \in Partitions,
         claim[n][p] = "invoking", Mark(n, p)
  PROVE  /\ claim' \in [Nodes -> [Partitions -> {"none", "ready", "invoking", "ended"}]]
         /\ next' \in [Nodes -> [Partitions -> 1 .. Last + 1]]
         /\ marked' \in [Nodes -> [Partitions -> 0 .. Last]]
         /\ claim'[n][p] = "ready"
         /\ marked'[n][p] = next[n][p]
         /\ marked[n][p] < next[n][p]
         /\ next'[n][p] = next[n][p] + 1
         /\ next[n][p] \in 1 .. Last
         /\ \A m \in Nodes, q \in Partitions : m # n \/ q # p =>
              /\ claim'[m][q] = claim[m][q]
              /\ next'[m][q] = next[m][q]
              /\ marked'[m][q] = marked[m][q]
<1>1. marked[n][p] < next[n][p] /\ next[n][p] \in 1 .. Last
  BY KafkaAssumption DEF Claims, TypeOK
<1>2. next[n][p] + 1 \in 1 .. Last + 1 /\ next[n][p] \in 0 .. Last
  BY <1>1, KafkaAssumption
<1>. QED
  BY <1>1, <1>2 DEF Mark, SetClaim, TypeOK

\* A mark moves a claim on: it gets behind no commit.
LEMMA MarkKeeps ==
  ASSUME Inv, NEW n \in Nodes, NEW p \in Partitions, claim[n][p] = "invoking",
         Mark(n, p), UNCHANGED <<serve, owner, committed, log>>
  PROVE  Claims' /\ Owners'
<1> USE DEF Inv
<1> SUFFICES ASSUME NEW m \in Nodes, NEW q \in Partitions
             PROVE  /\ claim'[m][q] # "none" => marked'[m][q] < next'[m][q]
                    /\ claim'[m][q] = "invoking" => next'[m][q] <= log[q]
                    /\ owner[q] = m => /\ serve[m] = "session"
                                       /\ claim'[m][q] # "none"
                                       /\ committed[q] <= marked'[m][q]
  BY DEF Claims, Owners
<1>1. CASE m = n /\ q = p
  <2>. TypeOK /\ Claims
    OBVIOUS
  <2>1. /\ claim'[n][p] = "ready" /\ marked'[n][p] = next[n][p]
        /\ marked[n][p] < next[n][p] /\ next'[n][p] = next[n][p] + 1
    BY MarkFacts, Zenon
  <2>2. marked[n][p] \in Nat /\ next[n][p] \in Nat /\ committed[p] \in Nat
    BY DEF TypeOK
  <2>. QED
    BY <1>1, <2>1, <2>2 DEF Owners
<1>2. CASE m # n \/ q # p
  <2>1. /\ claim'[m][q] = claim[m][q] /\ next'[m][q] = next[m][q]
        /\ marked'[m][q] = marked[m][q]
    BY <1>2, MarkFacts
  <2>. QED
    BY <2>1 DEF Claims, Owners
<1>. QED
  BY <1>1, <1>2

LEMMA InvokeSucceedsInv ==
  ASSUME Inv, NEW n \in Nodes, NEW p \in Partitions, InvokeSucceeds(n, p)
  PROVE  Inv'
<1> USE DEF InvokeSucceeds, broker, Inv
<1>1. claim[n][p] = "invoking" /\ Mark(n, p)
  OBVIOUS
<1>2. TypeOK'
  BY <1>1, MarkFacts DEF TypeOK, Messages
<1>3. Claims'
  BY <1>1, MarkKeeps
<1>4. Owners'
  BY <1>1, MarkKeeps
<1>5. MarkedHandled'
  <2> SUFFICES ASSUME ~IgnoreErrors, NEW q \in Partitions
               PROVE  /\ 1 .. committed[q] \subseteq Past(q)'
                      /\ \A m \in Nodes : claim'[m][q] # "none" =>
                           1 .. (next'[m][q] - 1) \subseteq Past(q)'
    BY DEF MarkedHandled
  <2>1. Past(q) \subseteq Past(q)' /\ (q = p => next[n][p] \in Past(q)')
    BY DEF TypeOK, Past
  <2>2. 1 .. committed[q] \subseteq Past(q)'
    BY <2>1 DEF MarkedHandled
  <2>3. ASSUME NEW m \in Nodes, claim'[m][q] # "none"
        PROVE  1 .. (next'[m][q] - 1) \subseteq Past(q)'
    <3>1. CASE m = n /\ q = p
      <4>1. 1 .. (next[n][p] - 1) \subseteq Past(p)
        BY <1>1 DEF MarkedHandled
      <4>2. 1 .. (next'[n][p] - 1) = (1 .. (next[n][p] - 1)) \cup {next[n][p]}
        <5>1. next'[n][p] = next[n][p] + 1 /\ next[n][p] \in 1 .. Last
          BY <1>1, MarkFacts
        <5>. QED
          BY <5>1
      <4>. QED
        BY <3>1, <4>1, <4>2, <2>1
    <3>2. CASE m # n \/ q # p
      <4>1. claim[m][q] # "none" /\ next'[m][q] = next[m][q]
        BY <1>1, <2>3, <3>2, MarkFacts
      <4>. QED
        BY <4>1, <2>1 DEF MarkedHandled
    <3>. QED
      BY <3>1, <3>2
  <2>. QED
    BY <2>2, <2>3
<1>. QED
  BY <1>2, <1>3, <1>4, <1>5

\* An error that is ignored is marked, one that is not ends the claim.
LEMMA InvokeFailsInv ==
  ASSUME Inv, NEW n \in Nodes, NEW p \in Partitions, InvokeFails(n, p)
  PROVE  Inv'
<1> USE DEF InvokeFails, broker, history, Inv
<1>1. CASE IgnoreErrors
  <2>1. claim[n][p] = "invoking" /\ Mark(n, p)
    BY <1>1
  <2>2. TypeOK'
    BY <1>1, <2>1, MarkFacts DEF TypeOK
  <2>3. Claims' /\ Owners'
    BY <2>1, MarkKeeps
  <2>5. MarkedHandled'
    BY <1>1 DEF MarkedHandled, Past
  <2>. QED
    BY <2>2, <2>3, <2>5
<1>2. CASE ~IgnoreErrors
  <2>1. /\ claim' = [claim EXCEPT ![n][p] = "ended"] /\ claim[n][p] = "invoking"
        /\ ending' = ending \cup {n}
        /\ UNCHANGED <<client, serve, cancelled, next, marked, broker, history>>
    BY <1>2 DEF SetClaim
  <2> HIDE DEF InvokeFails
  <2>2. TypeOK'
    BY <2>1 DEF TypeOK
  <2>3. Claims'
    BY <2>1 DEF Claims, TypeOK
  <2>4. Owners'
    BY <2>1 DEF Owners, TypeOK
  <2>5. MarkedHandled'
    BY <2>1 DEF MarkedHandled, Past, TypeOK
  <2>. QED
    BY <2>2, <2>3, <2>4, <2>5
<1>. QED
  BY <1>1, <1>2

LEMMA AutoCommitInv ==
  ASSUME Inv, NEW n \in Nodes, NEW p \in Partitions, AutoCommit(n, p)
  PROVE  Inv'
<1> USE DEF AutoCommit, session, history, Inv
<1>1. TypeOK'
  BY DEF TypeOK
<1>2. Claims'
  BY DEF Claims
<1>3. Owners'
  BY DEF Owners, TypeOK
<1>4. MarkedHandled'
  BY MarkedPast DEF MarkedHandled, Past, Owners, TypeOK
<1>. QED
  BY <1>1, <1>2, <1>3, <1>4

LEMMA CloseSessionInv ==
  ASSUME Inv, NEW n \in Nodes, CloseSession(n)  PROVE Inv'
  BY DEF CloseSession, broker, history, Inv, TypeOK, Claims, Owners, MarkedHandled, Past

\* The claim of an evicted member runs on: what it marks is still handled.
LEMMA EvictInv ==
  ASSUME Inv, NEW n \in Nodes, NEW p \in Partitions, Evict(n, p)  PROVE Inv'
<1> USE DEF Evict, session, history, Inv
<1>1. TypeOK'
  BY DEF TypeOK
<1>2. Claims' /\ MarkedHandled'
  BY DEF Claims, MarkedHandled, Past
<1>3. Owners'
  BY KafkaAssumption DEF Owners, TypeOK
<1>. QED
  BY <1>1, <1>2, <1>3

LEMMA CrashInv ==
  ASSUME Inv, NEW n \in Nodes, Crash(n)  PROVE Inv'
<1> USE DEF Crash, history, Inv
<1>1. ASSUME NEW p \in Partitions, NEW m \in Nodes
      PROVE  /\ m # n => claim'[m][p] = claim[m][p] /\ serve'[m] = serve[m]
             /\ claim'[n][p] = "none"
             /\ owner[p] = n => owner'[p] = None
             /\ owner[p] # n => owner'[p] = owner[p]
  BY DEF TypeOK
<1>2. TypeOK'
  BY DEF TypeOK
<1>3. Claims'
  BY <1>1 DEF Claims
<1>4. Owners'
  BY <1>1, KafkaAssumption DEF Owners, TypeOK
<1>5. MarkedHandled'
  BY <1>1 DEF MarkedHandled, Past
<1>. QED
  BY <1>2, <1>3, <1>4, <1>5

LEMMA CancelInv ==
  ASSUME Inv, NEW n \in Nodes, Cancel(n)  PROVE Inv'
  BY DEF Cancel, session, broker, history, Inv, TypeOK, Claims, Owners, MarkedHandled, Past

LEMMA ProduceInv ==
  ASSUME Inv, NEW p \in Partitions, Produce(p)  PROVE Inv'
<1> USE DEF Produce, session, history, Inv
<1>1. TypeOK'
  BY KafkaAssumption DEF TypeOK
<1>2. Claims'
  <2>1. \A q \in Partitions : log[q] \in Nat /\ log[q] <= log'[q]
    BY DEF TypeOK
  <2>. QED
    BY <2>1, KafkaAssumption DEF Claims, TypeOK
<1>3. Owners'
  BY DEF Owners
<1>4. MarkedHandled'
  BY DEF MarkedHandled, Past
<1>. QED
  BY <1>1, <1>2, <1>3, <1>4

LEMMA StepInv == Inv /\ [Next]_vars => Inv'
<1> SUFFICES ASSUME Inv, [Next]_vars  PROVE Inv'
  OBVIOUS
<1>1. CASE UNCHANGED vars
  BY <1>1
     DEF vars, session, broker, history, Inv, TypeOK, Claims, Owners, MarkedHandled, Past
<1>2. ASSUME NEW n \in Nodes, Serve(n)
      PROVE  Inv'
  <2>1. SetUpFails(n) => Inv'
    BY <1>1 DEF SetUpFails
  <2>. QED
    BY <1>2, <2>1, SetUpInv, StopInv, JoinInv, ConsumeFailsInv, EndSessionInv
       DEF Serve
<1>3. ASSUME NEW n \in Nodes, NEW p \in Partitions, ConsumeClaim(n, p)
      PROVE  Inv'
  BY <1>3, ReceiveInv, MessagesClosedInv, InvokeSucceedsInv, InvokeFailsInv
     DEF ConsumeClaim
<1>4. ASSUME NEW n \in Nodes, NEW p \in Partitions, Group(n, p)
      PROVE  Inv'
  BY <1>4, AutoCommitInv, CloseSessionInv, EvictInv DEF Group
<1>. QED
  BY <1>1, <1>2, <1>3, <1>4, CrashInv, CancelInv, ProduceInv DEF Next

LEMMA Invariance == Spec => []Inv
  BY InitInv, StepInv, PTL DEF Spec

-----------------------------------------------------------------------------
(* The theorems.                                                           *)

\* The type invariant of the source: a claim never works on a message after the
\* last one of its partition, whatever was ignored, committed or evicted.
THEOREM Typing == Spec => []TypeOK
<1>1. Inv => TypeOK
  BY DEF Inv
<1>. QED
  BY <1>1, Invariance, PTL

\* ConsumeClaim calls f for a message after it has succeeded, here or on another
\* member, for all messages before it in the partition that were not skipped.
THEOREM PartitionOrder == Spec => []InOrder
<1>1. Inv => InOrder
  <2> SUFFICES ASSUME Inv, ~IgnoreErrors, NEW n \in Nodes, NEW p \in Partitions,
                      NEW m \in Messages, claim[n][p] = "invoking", m < next[n][p]
               PROVE  m \in handled[p] \cup skipped[p]
    BY DEF InOrder
  <2>1. m \in 1 .. (next[n][p] - 1)
    BY KafkaAssumption DEF Messages, Inv, TypeOK
  <2>. QED
    BY <2>1 DEF Inv, MarkedHandled, Past
<1>. QED
  BY <1>1, Invariance, PTL

-----------------------------------------------------------------------------
(* The refinement.                                                         *)

Handled == UNION {{p} \X handled[p] : p \in Partitions}
Skipped == UNION {{p} \X skipped[p] : p \in Partitions}
Settled == UNION {{p} \X (1 .. committed[p]) : p \in Partitions}

\* A step that leaves the histories alone and takes no commit back settles what it
\* commits, which was handled or skipped before.
LEMMA CommitSettles ==
  ASSUME Inv, Inv', ~IgnoreErrors, UNCHANGED history,
         \A p \in Partitions : committed[p] <= committed'[p]
  PROVE  \E S \in SUBSET (Partitions \X Messages) : Delivery!Settle(S)
<1>1. \A p \in Partitions : /\ committed[p] \in 0 .. Last
                            /\ committed'[p] \in 0 .. Last
                            /\ 1 .. committed'[p] \subseteq handled[p] \cup skipped[p]
  BY DEF Inv, TypeOK, MarkedHandled, Past, history
<1>2. UNCHANGED <<Handled, Skipped>>
  BY DEF Handled, Skipped, history
<1>3. Settled' \subseteq Handled \cup Skipped
  BY <1>1 DEF Handled, Skipped, Settled
<1>4. Settled \subseteq Settled'
  <2> SUFFICES ASSUME NEW p \in Partitions, NEW m \in 1 .. committed[p]
               PROVE  m \in 1 .. committed'[p]
    BY DEF Settled
  <2>. QED
    BY <1>1, KafkaAssumption
<1>5. Settled' \in SUBSET (Partitions \X Messages)
  <2> SUFFICES ASSUME NEW p \in Partitions, NEW m \in 1 .. committed'[p]
               PROVE  m \in Messages
    BY DEF Settled
  <2>. QED
    BY <1>1, KafkaAssumption DEF Messages
<1>6. PICK S \in SUBSET (Partitions \X Messages) : S = Settled'
  BY <1>5
<1>7. S \subseteq Handled \cup Skipped /\ Settled' = Settled \cup S
  BY <1>3, <1>4, <1>6
<1>8. Delivery!Settle(S)
  BY <1>2, <1>7 DEF Delivery!Settle, Handled, Skipped, Settled
<1>. QED
  BY <1>8

\* A session skips what its claims start behind.
LEMMA JoinSkips ==
  ASSUME Inv, Inv', NEW n \in Nodes, Join(n)
  PROVE  Delivery!Next
<1>1. /\ UNCHANGED <<committed, handled>>
      /\ \A p \in Partitions : skipped[p] \subseteq skipped'[p]
  BY DEF Join
<1>2. Skipped' \in SUBSET (Partitions \X Messages)
  BY DEF Inv, TypeOK, Skipped
<1>3. Skipped' = Skipped \cup Skipped'
  BY <1>1 DEF Skipped
<1>4. UNCHANGED <<Handled, Settled>>
  BY <1>1 DEF Handled, Settled
<1>5. PICK S \in SUBSET (Partitions \X Messages) : S = Skipped'
  BY <1>2
<1>6. Delivery!Skip(S)
  BY <1>3, <1>4, <1>5 DEF Delivery!Skip, Handled, Skipped, Settled
<1>. QED
  BY <1>6 DEF Delivery!Next

LEMMA EndSessionSettles ==
  ASSUME Inv, Inv', ~IgnoreErrors, NEW n \in Nodes, EndSession(n)
  PROVE  Delivery!Next
<1>1. \A p \in Partitions : committed[p] <= committed'[p]
  BY DEF Inv, Owners, TypeOK, EndSession
<1>. QED
  BY <1>1, CommitSettles DEF EndSession, history, Delivery!Next

LEMMA AutoCommitSettles ==
  ASSUME Inv, Inv', ~IgnoreErrors, NEW n \in Nodes, NEW p \in Partitions,
         AutoCommit(n, p)
  PROVE  Delivery!Next
<1>1. \A q \in Partitions : committed[q] <= committed'[q]
  BY DEF Inv, Owners, TypeOK, AutoCommit
<1>. QED
  BY <1>1, CommitSettles DEF AutoCommit, Delivery!Next

LEMMA InvokeSucceedsHandles ==
  ASSUME Inv, NEW n \in Nodes, NEW p \in Partitions, InvokeSucceeds(n, p)
  PROVE  Delivery!Next
<1>1. PICK m \in Partitions \X Messages : m = <<p, next[n][p]>>
  <2>1. next[n][p] \in Messages
    BY KafkaAssumption DEF Inv, TypeOK, Claims, InvokeSucceeds, Messages
  <2>. QED
    BY <2>1
<1>2. Handled' = Handled \cup {m}
  <2>1. handled' = [handled EXCEPT ![p] = @ \cup {next[n][p]}]
    BY DEF InvokeSucceeds
  <2>2. \A q \in Partitions :
          handled'[q] = IF q = p THEN handled[p] \cup {next[n][p]} ELSE handled[q]
    BY <2>1 DEF Inv, TypeOK
  <2>3. ASSUME NEW x \in Handled'
        PROVE  x \in Handled \cup {m}
    BY <1>1, <2>2 DEF Handled
  <2>4. ASSUME NEW x \in Handled \cup {m}
        PROVE  x \in Handled'
    BY <1>1, <2>2 DEF Handled
  <2>. QED
    BY <2>3, <2>4
<1>3. UNCHANGED <<Skipped, Settled>>
  BY DEF InvokeSucceeds, broker, Skipped, Settled
<1>4. Delivery!Handle(m)
  BY <1>2, <1>3 DEF Delivery!Handle, Handled, Skipped, Settled
<1>. QED
  BY <1>1, <1>4 DEF Delivery!Next

\* "will mark the message as received unless the function returns an error": a
\* commit, by the library from time to time or at the end of a session, covers
\* messages that were handled, or that a claim without a commit to start from has
\* skipped, and takes no commit of another member back.
THEOREM Refinement ==
  ASSUME ~IgnoreErrors
  PROVE  Spec => ImplementsDelivery
<1>1. Init => Delivery!Init
  BY DEF Init, Delivery!Init
<1> DEFINE Same == UNCHANGED history /\ UNCHANGED committed
<1>2. ASSUME Inv, Inv', [Next]_vars
      PROVE  Delivery!Next \/ Same
  <2>1. CASE UNCHANGED vars
    BY <2>1 DEF vars, broker
  <2>2. ASSUME NEW n \in Nodes, Serve(n)
        PROVE  Delivery!Next \/ Same
    <3>1. CASE Join(n)
      BY <1>2, <3>1, JoinSkips
    <3>2. CASE EndSession(n)
      BY <1>2, <3>2, EndSessionSettles
    <3>. QED
      BY <2>2, <3>1, <3>2 DEF Serve, SetUp, SetUpFails, Stop, ConsumeFails, broker, vars
  <2>3. ASSUME NEW n \in Nodes, NEW p \in Partitions, ConsumeClaim(n, p)
        PROVE  Delivery!Next \/ Same
    BY <1>2, <2>3, InvokeSucceedsHandles
       DEF ConsumeClaim, Receive, MessagesClosed, InvokeFails, broker
  <2>4. ASSUME NEW n \in Nodes, NEW p \in Partitions, Group(n, p)
        PROVE  Delivery!Next \/ Same
    BY <1>2, <2>4, AutoCommitSettles DEF Group, CloseSession, Evict, broker
  <2>5. ASSUME NEW n \in Nodes, Crash(n) \/ Cancel(n)
        PROVE  Same
    BY <2>5 DEF Crash, Cancel, broker
  <2>6. ASSUME NEW p \in Partitions, Produce(p)
        PROVE  Same
    BY <2>6 DEF Produce
  <2>. QED
    BY <1>2, <2>1, <2>2, <2>3, <2>4, <2>5, <2>6 DEF Next
<1>3. Same => UNCHANGED <<Handled, Skipped, Settled>>
  BY DEF Handled, Skipped, Settled, history
<1>4. Inv /\ Inv' /\ [Next]_vars => [Delivery!Next]_<<Handled, Skipped, Settled>>
  BY <1>2, <1>3
<1>. QED
  BY <1>1, <1>4, Invariance, PTL
     DEF Spec, ImplementsDelivery, Delivery!Spec, Handled, Skipped, Settled

\* Where every member has k.Oldest, nothing is skipped: what the theorems say of
\* messages handled or skipped, they then say of messages handled.
THEOREM NothingSkipped ==
  ASSUME Oldest = Nodes
  PROVE  Spec => []( /\ \A p \in Partitions : skipped[p] = {}
                     /\ ~IgnoreErrors =>
                          \A p \in Partitions : 1 .. committed[p] \subseteq handled[p])
<1> DEFINE Nothing == \A p \in Partitions : skipped[p] = {}
<1>1. Init => Nothing
  BY DEF Init
<1>2. TypeOK /\ Nothing /\ [Next]_vars => Nothing'
  <2> SUFFICES ASSUME TypeOK, Nothing, [Next]_vars
               PROVE  Nothing'
    OBVIOUS
  <2>1. ASSUME NEW n \in Nodes, Join(n)
        PROVE  Nothing'
    <3>1. \A p \in Partitions : committed[p] + 1 .. StartAt(n, p) - 1 = {}
      BY DEF StartAt, TypeOK
    <3>2. \A p \in Partitions : skipped'[p] \subseteq
            skipped[p] \cup (committed[p] + 1 .. StartAt(n, p) - 1)
      BY <2>1 DEF Join
    <3>. QED
      BY <3>1, <3>2
  <2>2. CASE ~\E n \in Nodes : Join(n)
    <3>1. UNCHANGED skipped
      BY <2>2 DEF Next, Serve, SetUp, SetUpFails, Stop, ConsumeFails, EndSession,
         ConsumeClaim, Receive, MessagesClosed, InvokeSucceeds, InvokeFails, Group,
         AutoCommit, CloseSession, Evict, Crash, Cancel, Produce, history, vars
    <3>. QED
      BY <3>1
  <2>. QED
    BY <2>1, <2>2
<1>3. Inv /\ Nothing => (~IgnoreErrors =>
        \A p \in Partitions : 1 .. committed[p] \subseteq handled[p])
  BY DEF Inv, MarkedHandled, Past
<1>4. Inv => TypeOK
  BY DEF Inv
<1>. QED
  BY <1>1, <1>2, <1>3, <1>4, Invariance, PTL DEF Spec

\* From its first commit on no message of a partition is skipped, whichever members
\* have k.Oldest set: a claim that starts later starts behind the commit.
THEOREM SkippedAtFirst ==
  Spec => [][\A p \in Partitions : committed[p] > 0 => skipped'[p] = skipped[p]]_vars
<1> DEFINE Keeps == \A p \in Partitions : committed[p] > 0 => skipped'[p] = skipped[p]
<1>1. TypeOK /\ [Next]_vars => Keeps
  <2> SUFFICES ASSUME TypeOK, [Next]_vars
               PROVE  Keeps
    OBVIOUS
  <2>1. ASSUME NEW n \in Nodes, Join(n)
        PROVE  Keeps
    <3> SUFFICES ASSUME NEW p \in Partitions, committed[p] > 0
                 PROVE  skipped'[p] = skipped[p]
      OBVIOUS
    <3>1. committed[p] + 1 .. StartAt(n, p) - 1 = {}
      BY DEF StartAt, TypeOK
    <3>2. \/ skipped'[p] = skipped[p] \cup (committed[p] + 1 .. StartAt(n, p) - 1)
          \/ skipped'[p] = skipped[p] \cup {}
      BY <2>1 DEF Join
    <3>. QED
      BY <3>1, <3>2
  <2>2. CASE ~\E n \in Nodes : Join(n)
    <3>1. UNCHANGED skipped
      BY <2>2 DEF Next, Serve, SetUp, SetUpFails, Stop, ConsumeFails, EndSession,
         ConsumeClaim, Receive, MessagesClosed, InvokeSucceeds, InvokeFails, Group,
         AutoCommit, CloseSession, Evict, Crash, Cancel, Produce, history, vars
    <3>. QED
      BY <3>1
  <2>. QED
    BY <2>1, <2>2
<1>. QED
  BY <1>1, Typing, PTL DEF Spec

-----------------------------------------------------------------------------
(* A client that Serve has closed.                                         *)

\* Claims run in a session, and a session needs a client that is open.
SessionsOpen ==
  \A n \in Nodes :
    /\ serve[n] = "session" => client[n] = "open"
    /\ serve[n] # "session" => \A p \in Partitions : claim[n][p] = "none"

LEMMA SessionsOpenStep ==
  ASSUME TypeOK, SessionsOpen, [Next]_vars
  PROVE  SessionsOpen'
<1> USE DEF TypeOK, SessionsOpen, session, broker
<1>1. CASE UNCHANGED vars
  BY <1>1 DEF vars
<1>2. ASSUME NEW n \in Nodes, Serve(n)
      PROVE  SessionsOpen'
  <2>1. CASE SetUp(n)
    BY <2>1 DEF SetUp
  <2>2. CASE SetUpFails(n)
    BY <1>1, <2>2 DEF SetUpFails
  <2>3. CASE Stop(n)
    BY <2>3 DEF Stop
  <2>4. CASE Join(n)
    <3>1. /\ client[n] = "open" /\ client' = client
          /\ serve' = [serve EXCEPT ![n] = "session"]
          /\ \E c \in [Partitions -> {"ready", "none"}] : claim' = [claim EXCEPT ![n] = c]
      BY <2>4 DEF Join, Joining
    <3>. QED
      BY <3>1
  <2>5. CASE ConsumeFails(n)
    BY <2>5 DEF ConsumeFails
  <2>6. CASE EndSession(n)
    BY <2>6 DEF EndSession
  <2>. QED
    BY <1>2, <2>1, <2>2, <2>3, <2>4, <2>5, <2>6 DEF Serve
<1>3. ASSUME NEW n \in Nodes, NEW p \in Partitions, ConsumeClaim(n, p)
      PROVE  SessionsOpen'
  <2>1. claim[n][p] # "none" /\ UNCHANGED <<client, serve>>
    BY <1>3 DEF ConsumeClaim, Receive, MessagesClosed, InvokeSucceeds, InvokeFails
  <2>2. \E c : claim' = [claim EXCEPT ![n][p] = c]
    BY <1>3 DEF ConsumeClaim, Receive, MessagesClosed, InvokeSucceeds, InvokeFails, Mark,
       SetClaim
  <2>. QED
    BY <2>1, <2>2
<1>4. ASSUME NEW n \in Nodes, NEW p \in Partitions, Group(n, p)
      PROVE  SessionsOpen'
  BY <1>4 DEF Group, AutoCommit, CloseSession, Evict
<1>5. ASSUME NEW n \in Nodes, Crash(n) \/ Cancel(n)
      PROVE  SessionsOpen'
  BY <1>5 DEF Crash, Cancel
<1>6. ASSUME NEW p \in Partitions, Produce(p)
      PROVE  SessionsOpen'
  BY <1>6 DEF Produce
<1>. QED
  BY <1>1, <1>2, <1>3, <1>4, <1>5, <1>6 DEF Next

\* What the run KafkaRestart meets in a small group is so in every one: as long as
\* the client is closed, however often Serve is called again, the member is in no
\* session, has no claim and owns no partition.
THEOREM ClosedServesNobody ==
  Spec => [](\A n \in Nodes :
               client[n] = "closed" =>
                 /\ serve[n] # "session"
                 /\ \A p \in Partitions : claim[n][p] = "none" /\ owner[p] # n)
<1>1. Init => SessionsOpen
  <2> SUFFICES ASSUME Init, NEW n \in Nodes
               PROVE  serve[n] = "start" /\ \A p \in Partitions : claim[n][p] = "none"
    BY DEF SessionsOpen
  <2>1. claim[n] = [p \in Partitions |-> "none"]
    BY DEF Init
  <2>. QED
    BY <2>1 DEF Init
<1>2. Spec => []SessionsOpen
  BY <1>1, SessionsOpenStep, Typing, PTL DEF Spec
<1>3. Inv /\ SessionsOpen =>
        \A n \in Nodes :
          client[n] = "closed" =>
            /\ serve[n] # "session"
            /\ \A p \in Partitions : claim[n][p] = "none" /\ owner[p] # n
  BY DEF Inv, SessionsOpen, Owners
<1>. QED
  BY <1>2, <1>3, Invariance, PTL

\* And only the end of the process gets it out of there: no call of Serve or of
\* setUpConsumerGroup replaces a client that is closed.
THEOREM ClosedUntilCrash ==
  Spec => [][\A n \in Nodes :
               client[n] = "closed" => client'[n] = "closed" \/ Crash(n)]_vars
<1>1. ASSUME TypeOK, [Next]_vars, NEW n \in Nodes, client[n] = "closed"
      PROVE  client'[n] = "closed" \/ Crash(n)
  <2>1. CASE UNCHANGED vars
    BY <1>1, <2>1 DEF vars
  <2>2. ASSUME NEW m \in Nodes, Serve(m)
        PROVE  client'[n] = "closed"
    BY <1>1, <2>2 DEF TypeOK, Serve, SetUp, SetUpFails, Stop, Join, ConsumeFails, EndSession,
       vars
  <2>3. ASSUME NEW m \in Nodes, NEW p \in Partitions, ConsumeClaim(m, p) \/ Group(m, p)
        PROVE  client'[n] = "closed"
    BY <1>1, <2>3 DEF ConsumeClaim, Receive, MessagesClosed, InvokeSucceeds, InvokeFails,
       Group, AutoCommit, CloseSession, Evict
  <2>4. ASSUME NEW m \in Nodes, Crash(m)
        PROVE  client'[n] = "closed" \/ Crash(n)
    <3>1. CASE m = n
      BY <2>4, <3>1
    <3>2. CASE m # n
      BY <1>1, <2>4, <3>2 DEF TypeOK, Crash
    <3>. QED
      BY <3>1, <3>2
  <2>5. ASSUME NEW m \in Nodes, Cancel(m)
        PROVE  client'[n] = "closed"
    BY <1>1, <2>5 DEF Cancel
  <2>6. ASSUME NEW p \in Partitions, Produce(p)
        PROVE  client'[n] = "closed"
    BY <1>1, <2>6 DEF Produce
  <2>. QED
    BY <1>1, <2>1, <2>2, <2>3, <2>4, <2>5, <2>6 DEF Next
<1>2. TypeOK /\ [Next]_vars =>
        [\A n \in Nodes : client[n] = "closed" => client'[n] = "closed" \/ Crash(n)]_vars
  BY <1>1
<1>. QED
  BY <1>2, Typing, PTL DEF Spec

-----------------------------------------------------------------------------
(* The kafka middleware.                                                   *)

LEMMA AfterFnType ==
  ASSUME NEW o \in {"output", "nil", "error"}
  PROVE  /\ AfterFn(o) \in {"sendError", "sendSuccess", "end"}
         /\ AfterFn(o) = "sendError" => o = "error"
         /\ AfterFn(o) = "sendSuccess" => o = "output"
         /\ AfterFn(o) = "end" /\ SuccessTopic => o # "output"
  BY KafkaMiddlewareAssumption DEF AfterFn

LEMMA MiddlewareTypeStep ==
  ASSUME MiddlewareTypeOK, [MiddlewareNext]_middlewareVars
  PROVE  MiddlewareTypeOK'
<1>1. CASE UNCHANGED middlewareVars
  BY <1>1 DEF MiddlewareTypeOK, middlewareVars
<1>2. ASSUME NEW i \in Inputs, Invoke(i)
      PROVE  MiddlewareTypeOK'
  <2>1. CASE BeginInit(i)
    BY <2>1, KafkaMiddlewareAssumption
       DEF MiddlewareTypeOK, BeginInit, SetOnce, Goto, topics
  <2>2. CASE InitializeProducer(i)
    BY <2>2, KafkaMiddlewareAssumption
       DEF MiddlewareTypeOK, InitializeProducer, SetOnce, Goto, topics
  <2>3. CASE AwaitInit(i)
    BY <2>3 DEF MiddlewareTypeOK, AwaitInit, Goto, topics, init
  <2>4. CASE CheckInit(i)
    BY <2>4 DEF MiddlewareTypeOK, CheckInit, Return, Goto, topics, init
  <2>5. CASE FnReturns(i)
    BY <2>5, AfterFnType DEF MiddlewareTypeOK, FnReturns, Goto, topics, init
  <2>6. CASE ReturnOutcome(i)
    BY <2>6 DEF MiddlewareTypeOK, ReturnOutcome, Return, Goto, topics, init
  <2>7. CASE SendError(i)
    BY <2>7 DEF MiddlewareTypeOK, SendError, SendMessage, Return, Goto, init
  <2>8. CASE SendSuccess(i)
    BY <2>8 DEF MiddlewareTypeOK, SendSuccess, SendMessage, Return, Goto, init
  <2>. QED
    BY <1>2, <2>1, <2>2, <2>3, <2>4, <2>5, <2>6, <2>7, <2>8 DEF Invoke
<1>3. ASSUME NEW n \in Processes, ProcessEnds(n)
      PROVE  MiddlewareTypeOK'
  BY <1>3 DEF MiddlewareTypeOK, ProcessEnds, topics
<1>. QED
  BY <1>1, <1>2, <1>3 DEF MiddlewareNext

\* The variables keep their types, for any inputs, topics and faults.
THEOREM MiddlewareTyping ==
  MiddlewareSpec => []MiddlewareTypeOK
<1>1. MiddlewareInit => MiddlewareTypeOK
  BY DEF MiddlewareInit, MiddlewareTypeOK
<1>. QED
  BY <1>1, MiddlewareTypeStep, PTL DEF MiddlewareSpec

-----------------------------------------------------------------------------
(* The inductive invariant of the middleware.                              *)

\* Once the sync.Once of a process has done, there is a producer or an error, and
\* nobody is past it before.
Initialized ==
  /\ \A n \in Processes :
       once[n] = "done" => n \in producer \cup initializationError
  /\ \A i \in Inputs :
       /\ pc[i] \in {"check", "invoke", "sendError", "sendSuccess"}
            => once[Process[i]] = "done"
       /\ pc[i] = "init" => once[Process[i]] = "running"
       /\ pc[i] \in {"invoke", "sendError", "sendSuccess"}
            => Process[i] \notin initializationError
  /\ \A i, j \in Inputs :
       pc[i] = "init" /\ pc[j] = "init" /\ Process[i] = Process[j] => i = j

\* What is known of an Invoke from where it is, and of the topics.
Told ==
  \A i \in Inputs :
    /\ pc[i] \notin {"sendError", "sendSuccess", "end", "done"} => outcome[i] = "none"
    /\ pc[i] # "done" => result[i] = "none" /\ i \notin success \cup errors
    /\ pc[i] = "sendError" => outcome[i] = "error"
    /\ pc[i] = "sendSuccess" => outcome[i] = "output"
    /\ pc[i] = "end" /\ SuccessTopic => outcome[i] # "output"

MiddlewareInv == MiddlewareTypeOK /\ Initialized /\ Told /\ TopicsTellOutcome

LEMMA InitializedStep ==
  ASSUME MiddlewareTypeOK, Initialized, NEW k \in Inputs, Invoke(k)
  PROVE  Initialized'
<1>1. CASE BeginInit(k)
  <2> DEFINE n == Process[k]
  <2>1. /\ n \in Processes /\ once[n] = "new" /\ once' = [once EXCEPT ![n] = "running"]
        /\ pc[k] = "new" /\ pc' = [pc EXCEPT ![k] = "init"]
        /\ UNCHANGED <<producer, initializationError>>
    BY <1>1, KafkaMiddlewareAssumption DEF BeginInit, SetOnce, Goto
  <2>2. \A i \in Inputs :
          Process[i] \in Processes /\ (Process[i] = n => pc[i] \in {"new", "done", "end"})
    BY <2>1, KafkaMiddlewareAssumption DEF MiddlewareTypeOK, Initialized
  <2> HIDE DEF n
  <2>3. \A m \in Processes : m # n => once'[m] = once[m]
    BY <2>1 DEF MiddlewareTypeOK
  <2>4. \A i \in Inputs \ {k} : pc'[i] = pc[i]
    BY <2>1 DEF MiddlewareTypeOK
  <2>5. once'[n] = "running" /\ pc'[k] = "init"
    BY <2>1 DEF MiddlewareTypeOK
  <2>6. Process[k] = n
    BY DEF n
  <2>. QED
    BY <2>1, <2>2, <2>3, <2>4, <2>5, <2>6 DEF Initialized
<1>2. CASE InitializeProducer(k)
  BY <1>2, KafkaMiddlewareAssumption
     DEF MiddlewareTypeOK, Initialized, InitializeProducer, SetOnce, Goto
<1>3. CASE AwaitInit(k)
  BY <1>3 DEF MiddlewareTypeOK, Initialized, AwaitInit, Goto, init
<1>4. CASE CheckInit(k)
  BY <1>4 DEF MiddlewareTypeOK, Initialized, CheckInit, Return, Goto, init
<1>5. CASE FnReturns(k)
  <2>1. PICK o \in {"output", "nil", "error"} : Goto(k, AfterFn(o))
    BY <1>5 DEF FnReturns
  <2>. QED
    BY <1>5, <2>1, AfterFnType DEF MiddlewareTypeOK, Initialized, FnReturns, Goto,
       init
<1>6. CASE ReturnOutcome(k)
  BY <1>6 DEF MiddlewareTypeOK, Initialized, ReturnOutcome, Return, Goto, init
<1>7. CASE SendError(k)
  BY <1>7 DEF MiddlewareTypeOK, Initialized, SendError, SendMessage, Return,
     Goto, init
<1>8. CASE SendSuccess(k)
  BY <1>8 DEF MiddlewareTypeOK, Initialized, SendSuccess, SendMessage, Return,
     Goto, init
<1>. QED
  BY <1>1, <1>2, <1>3, <1>4, <1>5, <1>6, <1>7, <1>8 DEF Invoke

LEMMA ProcessEndsKeeps ==
  ASSUME MiddlewareInv, NEW n \in Processes, ProcessEnds(n)
  PROVE  Initialized' /\ Told' /\ TopicsTellOutcome'
<1>1. Initialized'
  BY KafkaMiddlewareAssumption
     DEF MiddlewareInv, MiddlewareTypeOK, Initialized, ProcessEnds
<1>2. Told' /\ TopicsTellOutcome'
  BY DEF MiddlewareInv, MiddlewareTypeOK, Told, TopicsTellOutcome, ProcessEnds,
     topics
<1>. QED
  BY <1>1, <1>2

LEMMA ToldStep ==
  ASSUME MiddlewareTypeOK, Told, TopicsTellOutcome, NEW k \in Inputs, Invoke(k)
  PROVE  Told' /\ TopicsTellOutcome'
<1> USE DEF MiddlewareTypeOK, Told, TopicsTellOutcome
<1>1. CASE BeginInit(k)
  BY <1>1 DEF BeginInit, Goto, topics
<1>2. CASE InitializeProducer(k)
  BY <1>2 DEF InitializeProducer, Goto, topics
<1>3. CASE AwaitInit(k)
  BY <1>3 DEF AwaitInit, Goto, topics
<1>4. CASE CheckInit(k)
  BY <1>4 DEF CheckInit, Return, Goto, topics
<1>5. CASE FnReturns(k)
  <2>1. PICK o \in {"output", "nil", "error"} :
          outcome' = [outcome EXCEPT ![k] = o] /\ Goto(k, AfterFn(o))
    BY <1>5 DEF FnReturns
  <2>. QED
    BY <1>5, <2>1, AfterFnType DEF FnReturns, Goto, topics
<1>6. CASE ReturnOutcome(k)
  BY <1>6 DEF ReturnOutcome, Return, Goto, topics
<1>7. CASE SendError(k)
  BY <1>7 DEF SendError, SendMessage, Return, Goto
<1>8. CASE SendSuccess(k)
  BY <1>8 DEF SendSuccess, SendMessage, Return, Goto
<1>. QED
  BY <1>1, <1>2, <1>3, <1>4, <1>5, <1>6, <1>7, <1>8 DEF Invoke

LEMMA MiddlewareInitInv == MiddlewareInit => MiddlewareInv
  BY DEF MiddlewareInit, MiddlewareInv, MiddlewareTypeOK, Initialized, Told,
     TopicsTellOutcome

LEMMA MiddlewareStep ==
  ASSUME MiddlewareInv, [MiddlewareNext]_middlewareVars
  PROVE  MiddlewareInv'
<1>1. MiddlewareTypeOK'
  BY MiddlewareTypeStep DEF MiddlewareInv
<1>2. CASE UNCHANGED middlewareVars
  BY <1>1, <1>2 DEF MiddlewareInv, Initialized, Told, TopicsTellOutcome, middlewareVars
<1>3. ASSUME NEW k \in Inputs, Invoke(k)
      PROVE  MiddlewareInv'
  BY <1>1, <1>3, InitializedStep, ToldStep DEF MiddlewareInv
<1>4. ASSUME NEW n \in Processes, ProcessEnds(n)
      PROVE  MiddlewareInv'
  BY <1>1, <1>4, ProcessEndsKeeps DEF MiddlewareInv
<1>. QED
  BY <1>2, <1>3, <1>4 DEF MiddlewareNext

LEMMA MiddlewareInvariance ==
  MiddlewareSpec => []MiddlewareInv
<1>1. MiddlewareInv /\ [MiddlewareNext]_middlewareVars => MiddlewareInv'
  BY MiddlewareStep
<1>. QED
  BY <1>1, MiddlewareInitInv, PTL DEF MiddlewareSpec

\* f, and sendMessage after it, never meet a producer that is nil, however many
\* first Invokes overlap and whether or not the brokers can be reached.
THEOREM ProducerFirst ==
  MiddlewareSpec => []ProducerIsReady
<1>1. MiddlewareInv => ProducerIsReady
  BY KafkaMiddlewareAssumption DEF MiddlewareInv, Initialized, ProducerIsReady
<1>. QED
  BY <1>1, MiddlewareInvariance, PTL

\* A caller that got an output finds it in the success topic, and the topics
\* hold nothing that f did not return.
THEOREM TopicsAgree ==
  MiddlewareSpec => []TopicsTellOutcome
<1>1. MiddlewareInv => TopicsTellOutcome
  BY DEF MiddlewareInv
<1>. QED
  BY <1>1, MiddlewareInvariance, PTL

-----------------------------------------------------------------------------
(* The source and the middleware together.                                 *)

\* A claim in an Invoke has called it, in its own process, for the message it
\* works on.
Calls ==
  \A n \in Nodes, p \in Partitions :
    claim[n][p] = "invoking" =>
      /\ call[n][p] \in Inputs
      /\ Process[call[n][p]] = n
      /\ subject[call[n][p]] = <<p, next[n][p]>>

\* An Invoke gets one message, before it begins.
Subjects ==
  /\ call \in [Nodes -> [Partitions -> Inputs \cup {None}]]
  /\ subject \in [Inputs -> (Partitions \X Messages) \cup {None}]
  /\ \A i \in Inputs : subject[i] = None => pc[i] = "new"

HandledIsRelayed ==
  \A p \in Partitions : \A m \in handled[p] : Relayed(p, m)

RelayInv == Inv /\ MiddlewareInv /\ Calls /\ Subjects /\ HandledIsRelayed

\* The composition takes steps of its parts only.
LEMMA RelaySteps ==
  ASSUME [RelayNext]_relayVars
  PROVE  [Next]_vars /\ [MiddlewareNext]_middlewareVars
<1>1. CASE UNCHANGED relayVars
  BY <1>1 DEF relayVars
<1>2. ASSUME NEW n \in Nodes,
             \/ StepSource(n) \/ CrashProcess(n)
             \/ \E p \in Partitions : Deliver(n, p) \/ HandleResult(n, p)
      PROVE  Next /\ [MiddlewareNext]_middlewareVars
  BY <1>2, RelayAssumption
     DEF StepSource, CrashProcess, Deliver, HandleResult, ConsumeClaim, Next,
         MiddlewareNext
<1>3. ASSUME NEW i \in Inputs, InvokeMiddleware(i)
      PROVE  [Next]_vars /\ MiddlewareNext
  BY <1>3 DEF InvokeMiddleware, MiddlewareNext
<1>. QED
  BY <1>1, <1>2, <1>3 DEF RelayNext

\* What the source and the middleware promise, they keep together: nothing in the
\* proofs about the one depends on how the other behaves.
THEOREM RelayIsBoth == RelaySpec => Spec /\ MiddlewareSpec
<1>1. RelayInit => Init /\ MiddlewareInit
  BY DEF RelayInit
<1>2. [RelayNext]_relayVars => [Next]_vars /\ [MiddlewareNext]_middlewareVars
  BY RelaySteps
<1>. QED
  BY <1>1, <1>2, PTL DEF RelaySpec, Spec, MiddlewareSpec

\* Only Receive puts a claim into an Invoke; as long as it is in it, the claim
\* works on the same message.
LEMMA NoNewCall ==
  ASSUME TypeOK, NEW n \in Nodes,
         \/ Serve(n) \/ Cancel(n) \/ Crash(n)
         \/ \E p \in Partitions :
              \/ MessagesClosed(n, p) \/ Group(n, p) \/ Produce(p)
              \/ InvokeSucceeds(n, p) \/ InvokeFails(n, p)
  PROVE  \A m \in Nodes, q \in Partitions :
           claim'[m][q] = "invoking" =>
             claim[m][q] = "invoking" /\ next'[m][q] = next[m][q]
<1> USE DEF TypeOK
<1>1. CASE Serve(n)
  <2>1. CASE Join(n)
    <3>1. PICK P \in SUBSET Partitions :
            /\ claim' = [claim EXCEPT ![n] =
                 [q \in Partitions |-> IF q \in P THEN "ready" ELSE "none"]]
            /\ \E N : next' = [next EXCEPT ![n] = N]
      BY <2>1 DEF Join, Free
    <3>. QED
      BY <3>1
  <2>2. CASE EndSession(n)
    BY <2>2 DEF EndSession
  <2>3. CASE SetUp(n) \/ SetUpFails(n) \/ Stop(n) \/ ConsumeFails(n)
    BY <2>3 DEF SetUp, SetUpFails, Stop, ConsumeFails, session, vars
  <2>. QED
    BY <1>1, <2>1, <2>2, <2>3 DEF Serve
<1>2. ASSUME NEW p \in Partitions, Cancel(n) \/ Group(n, p) \/ Produce(p)
      PROVE  UNCHANGED <<claim, next>>
  BY <1>2 DEF Cancel, Group, AutoCommit, CloseSession, Evict, Produce, session
<1>3. CASE Crash(n)
  <2>1. /\ claim' = [claim EXCEPT ![n] = [q \in Partitions |-> "none"]]
        /\ next' = next
    BY <1>3 DEF Crash
  <2>. QED
    BY <2>1
<1>4. ASSUME NEW p \in Partitions, MessagesClosed(n, p)
      PROVE  \A m \in Nodes, q \in Partitions :
               claim'[m][q] = "invoking" =>
                 claim[m][q] = "invoking" /\ next'[m][q] = next[m][q]
  <2>1. claim' = [claim EXCEPT ![n][p] = "ended"] /\ next' = next
    BY <1>4 DEF MessagesClosed, SetClaim
  <2>. QED
    BY <2>1
<1>5. ASSUME NEW p \in Partitions, InvokeSucceeds(n, p) \/ InvokeFails(n, p)
      PROVE  \A m \in Nodes, q \in Partitions :
               claim'[m][q] = "invoking" =>
                 claim[m][q] = "invoking" /\ next'[m][q] = next[m][q]
  <2>1. /\ \A m \in Nodes, q \in Partitions : m # n \/ q # p =>
             claim'[m][q] = claim[m][q] /\ next'[m][q] = next[m][q]
        /\ claim'[n][p] \in {"ready", "ended"}
    BY <1>5 DEF InvokeSucceeds, InvokeFails, Mark, SetClaim
  <2>. QED
    BY <2>1
<1>. QED
  BY <1>1, <1>2, <1>3, <1>4, <1>5

\* What an Invoke does to results and to the success topic.
LEMMA InvokeFacts ==
  ASSUME MiddlewareInv, NEW i \in Inputs, Invoke(i)
  PROVE  /\ result[i] = "none"
         /\ \A j \in Inputs \ {i} : result'[j] = result[j] /\ pc'[j] = pc[j]
         /\ success \subseteq success' /\ success' \subseteq success \cup {i}
<1> USE DEF MiddlewareInv, MiddlewareTypeOK, Told
<1>1. CASE BeginInit(i) \/ InitializeProducer(i) \/ AwaitInit(i) \/ FnReturns(i)
  BY <1>1 DEF BeginInit, InitializeProducer, AwaitInit, FnReturns, Goto, topics
<1>2. CASE CheckInit(i) \/ ReturnOutcome(i)
  BY <1>2 DEF CheckInit, ReturnOutcome, Return, Goto, topics
<1>3. CASE SendError(i)
  BY <1>3 DEF SendError, SendMessage, Return, Goto
<1>4. CASE SendSuccess(i)
  BY <1>4 DEF SendSuccess, SendMessage, Return, Goto
<1>. QED
  BY <1>1, <1>2, <1>3, <1>4 DEF Invoke

\* A message that has been relayed stays so, if Invokes that have returned keep
\* their messages and results and the topic its messages.
LEMMA RelayedStays ==
  ASSUME NEW p, NEW m, Relayed(p, m), success \subseteq success',
         \A i \in Inputs : result[i] # "none" =>
           result'[i] = result[i] /\ subject'[i] = subject[i]
  PROVE  Relayed(p, m)'
BY DEF Relayed, Successful

LEMMA RelayInitInv == RelayInit => RelayInv
<1> SUFFICES ASSUME RelayInit PROVE RelayInv
  OBVIOUS
<1>1. Inv /\ MiddlewareInv
  BY InitInv, MiddlewareInitInv DEF RelayInit
<1>2. Calls
  BY DEF RelayInit, Init, Calls
<1>3. Subjects
  BY DEF RelayInit, MiddlewareInit, Subjects
<1>4. HandledIsRelayed
  BY DEF RelayInit, Init, HandledIsRelayed
<1>. QED
  BY <1>1, <1>2, <1>3, <1>4 DEF RelayInv

\* Steps of the source in which no claim calls the middleware.
LEMMA SourceKeepsRelayed ==
  ASSUME RelayInv, NEW n \in Nodes,
         \/ Serve(n) \/ Cancel(n) \/ Crash(n)
         \/ \E p \in Partitions :
              \/ MessagesClosed(n, p) \/ Group(n, p) \/ Produce(p)
              \/ InvokeSucceeds(n, p) \/ InvokeFails(n, p),
         \A q \in Partitions : \A m \in handled'[q] \ handled[q] : Relayed(q, m),
         \A i \in Inputs : pc[i] = "new" => pc'[i] = "new",
         UNCHANGED <<success, result, call, subject>>
  PROVE  Calls' /\ Subjects' /\ HandledIsRelayed'
<1>1. Calls'
  BY NoNewCall DEF RelayInv, Inv, Calls
<1>2. Subjects'
  BY DEF RelayInv, Subjects
<1>3. ASSUME NEW q, NEW m, Relayed(q, m) PROVE Relayed(q, m)'
  BY <1>3, RelayedStays
<1>4. HandledIsRelayed'
  BY <1>3 DEF RelayInv, HandledIsRelayed
<1>. QED
  BY <1>1, <1>2, <1>4

LEMMA HandledUnchanged ==
  ASSUME NEW n \in Nodes,
         \/ Serve(n) \/ Cancel(n) \/ Crash(n)
         \/ \E p \in Partitions : \/ Receive(n, p) \/ MessagesClosed(n, p)
                                \/ Group(n, p) \/ Produce(p) \/ InvokeFails(n, p)
  PROVE  /\ UNCHANGED handled
         /\ ~Join(n) => UNCHANGED skipped
BY DEF Serve, SetUp, SetUpFails, Stop, Join, ConsumeFails, EndSession, Cancel,
   Crash, Receive, MessagesClosed, Group, AutoCommit, CloseSession, Evict, Produce,
   InvokeFails, history, vars

LEMMA CalledWithMessage ==
  ASSUME RelayInv, NEW n \in Nodes, NEW p \in Partitions, claim[n][p] = "invoking"
  PROVE  /\ subject[call[n][p]] \in Partitions \X Messages
         /\ subject[call[n][p]] # None
<1>1. next[n][p] \in Messages
  BY KafkaAssumption DEF RelayInv, Inv, Claims, TypeOK, Messages
<1>2. subject[call[n][p]] = <<p, next[n][p]>>
  BY DEF RelayInv, Calls
<1>. QED
  BY <1>1, <1>2, RelayAssumption

LEMMA DeliverKeepsRelayed ==
  ASSUME RelayInv, NEW n \in Nodes, NEW p \in Partitions, Deliver(n, p)
  PROVE  Calls' /\ Subjects' /\ HandledIsRelayed'
<1>1. PICK i \in Inputs :
        /\ Process[i] = n
        /\ subject[i] = None
        /\ subject' = [subject EXCEPT ![i] = <<p, next[n][p]>>]
        /\ call' = [call EXCEPT ![n][p] = i]
  BY DEF Deliver
<1>2. /\ claim[n][p] = "ready" /\ next[n][p] \in Messages
      /\ claim' = [claim EXCEPT ![n][p] = "invoking"]
      /\ UNCHANGED <<next, handled>>
  BY KafkaAssumption
     DEF Deliver, Receive, SetClaim, history, RelayInv, Inv, TypeOK, Messages
<1>3. UNCHANGED <<pc, success, result>>
  BY DEF Deliver, middlewareVars, topics
<1>4. /\ call \in [Nodes -> [Partitions -> Inputs \cup {None}]]
      /\ subject \in [Inputs -> (Partitions \X Messages) \cup {None}]
      /\ claim \in [Nodes -> [Partitions -> {"none", "ready", "invoking", "ended"}]]
  BY DEF RelayInv, Subjects, Inv, TypeOK
<1>5. \A m \in Nodes, q \in Partitions : m # n \/ q # p =>
        claim'[m][q] = claim[m][q] /\ call'[m][q] = call[m][q]
  BY <1>1, <1>2, <1>4
<1>6. call'[n][p] = i /\ subject'[i] = <<p, next[n][p]>>
  BY <1>1, <1>4
<1>7. Calls'
  <2> SUFFICES ASSUME NEW m \in Nodes, NEW q \in Partitions, claim'[m][q] = "invoking"
               PROVE  /\ call'[m][q] \in Inputs
                      /\ Process[call'[m][q]] = m
                      /\ subject'[call'[m][q]] = <<q, next'[m][q]>>
    BY DEF Calls
  <2>1. CASE m = n /\ q = p
    BY <2>1, <1>1, <1>2, <1>6
  <2>2. CASE m # n \/ q # p
    <3>1. /\ call[m][q] \in Inputs /\ Process[call[m][q]] = m
          /\ subject[call[m][q]] = <<q, next[m][q]>>
          /\ call'[m][q] = call[m][q]
      BY <2>2, <1>5 DEF RelayInv, Calls
    <3>2. subject[call[m][q]] # None
      BY <2>2, <1>5, CalledWithMessage
    <3>. QED
      BY <3>1, <3>2, <1>1, <1>2, <1>4
  <2>. QED
    BY <2>1, <2>2
<1>8. Subjects'
  <2>1. <<p, next[n][p]>> \in Partitions \X Messages
    BY <1>2
  <2>2. subject' \in [Inputs -> (Partitions \X Messages) \cup {None}]
    BY <1>1, <1>4, <2>1
  <2>3. call' \in [Nodes -> [Partitions -> Inputs \cup {None}]]
    BY <1>1, <1>4
  <2>4. \A j \in Inputs : subject'[j] = None => subject[j] = None
    BY <1>1, <1>4, <2>1, RelayAssumption
  <2>. QED
    BY <2>2, <2>3, <2>4, <1>3 DEF RelayInv, Subjects
<1>9. HandledIsRelayed'
  <2>1. result[i] = "none"
    BY <1>1 DEF RelayInv, Subjects, MiddlewareInv, Told
  <2>2. \A j \in Inputs : result[j] # "none" =>
          result'[j] = result[j] /\ subject'[j] = subject[j]
    BY <1>1, <1>3, <1>4, <2>1
  <2>3. \A q, m : Relayed(q, m) => Relayed(q, m)'
    BY <1>3, <2>2, RelayedStays
  <2>. QED
    BY <1>2, <2>3 DEF RelayInv, HandledIsRelayed
<1>. QED
  BY <1>7, <1>8, <1>9

LEMMA RelayStep ==
  ASSUME RelayInv, [RelayNext]_relayVars
  PROVE  RelayInv'
<1>1. Inv' /\ MiddlewareInv'
  BY RelaySteps, StepInv, MiddlewareStep DEF RelayInv
<1>2. CASE UNCHANGED relayVars
  <2>1. UNCHANGED <<claim, next, handled, pc, success, result, call, subject>>
    BY <1>2 DEF relayVars, vars, session, history, middlewareVars, topics, relay
  <2>2. \A q, m : Relayed(q, m) => Relayed(q, m)'
    BY <2>1, RelayedStays
  <2>. QED
    BY <1>1, <2>1, <2>2 DEF RelayInv, Calls, Subjects, HandledIsRelayed
<1>3. ASSUME NEW n \in Nodes, StepSource(n)
      PROVE  RelayInv'
  <2>1. UNCHANGED <<handled, pc, success, result, call, subject>>
    BY <1>3, HandledUnchanged DEF StepSource, middlewareVars, topics, relay
  <2>. QED
    BY <1>1, <1>3, <2>1, SourceKeepsRelayed DEF StepSource, RelayInv
<1>4. ASSUME NEW n \in Nodes, CrashProcess(n)
      PROVE  RelayInv'
  <2>1. UNCHANGED <<handled, success, result, call, subject>>
    BY <1>4, HandledUnchanged DEF CrashProcess, ProcessEnds, topics, relay
  <2>2. \A i \in Inputs : pc[i] = "new" => pc'[i] = "new"
    BY <1>4 DEF CrashProcess, ProcessEnds
  <2>. QED
    BY <1>1, <1>4, <2>1, <2>2, SourceKeepsRelayed DEF CrashProcess, RelayInv
<1>5. ASSUME NEW n \in Nodes, NEW p \in Partitions, Deliver(n, p)
      PROVE  RelayInv'
  BY <1>1, <1>5, DeliverKeepsRelayed DEF RelayInv
<1>6. ASSUME NEW n \in Nodes, NEW p \in Partitions, HandleResult(n, p)
      PROVE  RelayInv'
  <2>1. /\ claim[n][p] = "invoking"
        /\ InvokeSucceeds(n, p) \/ InvokeFails(n, p)
        /\ UNCHANGED <<pc, success, result, call, subject>>
    BY <1>6 DEF HandleResult, middlewareVars, topics, relay
  <2>2. \A q \in Partitions : \A m \in handled'[q] \ handled[q] : Relayed(q, m)
    <3>1. CASE ~Successful(call[n][p])
      BY <1>6, <3>1, HandledUnchanged DEF HandleResult
    <3>2. CASE Successful(call[n][p])
      <4>1. Relayed(p, next[n][p])
        BY <2>1, <3>2
           DEF RelayInv, Calls, MiddlewareInv, TopicsTellOutcome, Relayed
      <4>2. handled' = [handled EXCEPT ![p] = @ \cup {next[n][p]}]
        BY <1>6, <3>2 DEF HandleResult, InvokeSucceeds
      <4>. QED
        BY <4>1, <4>2 DEF RelayInv, Inv, TypeOK
    <3>. QED
      BY <3>1, <3>2
  <2>. QED
    BY <1>1, <2>1, <2>2, SourceKeepsRelayed DEF RelayInv
<1>7. ASSUME NEW i \in Inputs, InvokeMiddleware(i)
      PROVE  RelayInv'
  <2>1. Invoke(i) /\ MiddlewareInv /\ UNCHANGED <<vars, relay>>
    BY <1>7 DEF InvokeMiddleware, RelayInv
  <2>2. subject[i] # None
    <3>1. PICK p \in Partitions : /\ claim[Process[i]][p] = "invoking"
                                  /\ call[Process[i]][p] = i
      BY <1>7 DEF InvokeMiddleware, Awaited
    <3>2. Process[i] \in Nodes
      BY KafkaMiddlewareAssumption, RelayAssumption
    <3>. QED
      BY <3>1, <3>2, CalledWithMessage
  <2>3. Subjects'
    BY <2>1, <2>2, InvokeFacts DEF relay, RelayInv, Subjects
  <2>4. ASSUME NEW q, NEW m, Relayed(q, m) PROVE Relayed(q, m)'
    BY <2>1, <2>4, InvokeFacts, RelayedStays DEF relay
  <2>5. Calls' /\ HandledIsRelayed'
    BY <2>1, <2>4 DEF vars, session, history, relay, RelayInv, Calls, HandledIsRelayed
  <2>. QED
    BY <1>1, <2>3, <2>5 DEF RelayInv
<1>. QED
  BY <1>2, <1>3, <1>4, <1>5, <1>6, <1>7 DEF RelayNext

LEMMA RelayInvariance == RelaySpec => []RelayInv
<1>1. RelayInv /\ [RelayNext]_relayVars => RelayInv'
  BY RelayStep
<1>. QED
  BY RelayInitInv, <1>1, PTL DEF RelaySpec

-----------------------------------------------------------------------------
(* The source and the middleware together keep the promise of a delivery.  *)

\* No step takes a commit back.
LEMMA CommitsGrow ==
  ASSUME Inv, [Next]_vars
  PROVE  \A p \in Partitions : committed[p] <= committed'[p]
<1>0. \A p \in Partitions : committed[p] \in Nat
  BY DEF Inv, TypeOK
<1>1. CASE UNCHANGED committed
  BY <1>0, <1>1
<1>2. ASSUME NEW n \in Nodes, EndSession(n)
      PROVE  \A p \in Partitions : committed[p] <= committed'[p]
  BY <1>0, <1>2 DEF Inv, Owners, TypeOK, EndSession
<1>3. ASSUME NEW n \in Nodes, NEW p \in Partitions, AutoCommit(n, p)
      PROVE  \A q \in Partitions : committed[q] <= committed'[q]
  BY <1>0, <1>3 DEF Inv, Owners, TypeOK, AutoCommit
<1>. QED
  BY <1>1, <1>2, <1>3
     DEF Next, Serve, SetUp, SetUpFails, Stop, Join, ConsumeFails, ConsumeClaim,
         Receive, MessagesClosed, InvokeSucceeds, InvokeFails, Group, CloseSession,
         Evict, Crash, Cancel, Produce, broker, vars

\* A step that leaves what has been relayed or skipped settles what it commits.
LEMMA RelayedIsSettled ==
  ASSUME RelayInv, RelayInv', ~IgnoreErrors, UNCHANGED <<relayed, skipped>>,
         \A p \in Partitions : committed[p] <= committed'[p]
  PROVE  RelayDelivery!Next
<1>1. ASSUME NEW p \in Partitions, NEW m \in 1 .. committed'[p]
      PROVE  m \in Messages /\ <<p, m>> \in relayed \cup Skipped
  <2>1. m \in Messages
    BY KafkaAssumption DEF RelayInv, Inv, TypeOK, Messages
  <2>2. m \in handled'[p] \cup skipped'[p]
    BY DEF RelayInv, Inv, MarkedHandled, Past
  <2>3. CASE m \in handled'[p]
    <3>1. Relayed(p, m)'
      BY <2>3 DEF RelayInv, HandledIsRelayed
    <3>2. <<p, m>> \in relayed'
      BY <2>1, <3>1 DEF relayed
    <3>. QED
      BY <2>1, <3>2
  <2>4. CASE m \in skipped[p]
    BY <2>1, <2>4 DEF Skipped
  <2>. QED
    BY <2>2, <2>3, <2>4
<1>2. Settled' \subseteq relayed \cup Skipped /\ Settled' \subseteq Partitions \X Messages
  BY <1>1 DEF Settled
<1>3. Settled \subseteq Settled'
  <2> SUFFICES ASSUME NEW p \in Partitions, NEW m \in 1 .. committed[p]
               PROVE  m \in 1 .. committed'[p]
    BY DEF Settled
  <2>. QED
    BY DEF RelayInv, Inv, TypeOK
<1>4. UNCHANGED Skipped
  BY DEF Skipped
<1>5. PICK S \in SUBSET (Partitions \X Messages) : S = Settled'
  BY <1>2
<1>6. S \subseteq relayed \cup Skipped /\ Settled' = Settled \cup S
  BY <1>2, <1>3, <1>5
<1>7. RelayDelivery!Settle(S)
  BY <1>4, <1>6 DEF RelayDelivery!Settle, Settled, Skipped
<1>. QED
  BY <1>7 DEF RelayDelivery!Next

\* Only an Invoke of the middleware relays, and that for its own message.
LEMMA InvokeRelays ==
  ASSUME RelayInv, NEW i \in Inputs, InvokeMiddleware(i)
  PROVE  \/ UNCHANGED <<relayed, skipped, committed>>
         \/ RelayDelivery!Next
<1>1. Invoke(i) /\ MiddlewareInv /\ UNCHANGED <<skipped, committed, subject>>
  BY DEF InvokeMiddleware, RelayInv, vars, broker, history, relay
<1>2. subject[i] \in Partitions \X Messages
  <2>1. PICK p \in Partitions : /\ claim[Process[i]][p] = "invoking"
                                /\ call[Process[i]][p] = i
    BY DEF InvokeMiddleware, Awaited
  <2>2. Process[i] \in Nodes
    BY KafkaMiddlewareAssumption, RelayAssumption
  <2>. QED
    BY <2>1, <2>2, CalledWithMessage
<1>3. relayed \subseteq relayed'
  <2>1. ASSUME NEW p, NEW m, Relayed(p, m) PROVE Relayed(p, m)'
    BY <1>1, <2>1, InvokeFacts, RelayedStays
  <2>. QED
    BY <2>1 DEF relayed
<1>4. relayed' \subseteq relayed \cup {subject[i]}
  <2> SUFFICES ASSUME NEW d \in Partitions \X Messages, Relayed(d[1], d[2])',
                      d # subject[i]
               PROVE  Relayed(d[1], d[2])
    BY DEF relayed
  <2>1. PICK j \in Inputs :
          /\ subject'[j] = <<d[1], d[2]>>
          /\ Successful(j)'
          /\ result'[j] = "output" /\ SuccessTopic => j \in success'
    BY DEF Relayed
  <2>2. j # i
    BY <1>1, <2>1
  <2>. QED
    BY <1>1, <2>1, <2>2, InvokeFacts DEF Relayed, Successful
<1>5. CASE subject[i] \in relayed'
  <2>1. relayed' = relayed \cup {subject[i]} /\ UNCHANGED <<Skipped, Settled>>
    BY <1>1, <1>3, <1>4, <1>5 DEF Skipped, Settled
  <2>2. RelayDelivery!Handle(subject[i])
    BY <2>1 DEF RelayDelivery!Handle, Skipped, Settled
  <2>. QED
    BY <1>2, <2>2 DEF RelayDelivery!Next
<1>6. CASE subject[i] \notin relayed'
  BY <1>1, <1>3, <1>4, <1>6
<1>. QED
  BY <1>5, <1>6

\* All other steps leave results, and the topic, alone.
LEMMA NothingElseRelays ==
  ASSUME RelayInv, NEW n \in Nodes,
         \/ StepSource(n) \/ CrashProcess(n)
         \/ \E p \in Partitions : Deliver(n, p) \/ HandleResult(n, p)
  PROVE  UNCHANGED relayed
<1>1. UNCHANGED <<result, success>>
  BY DEF StepSource, CrashProcess, ProcessEnds, Deliver, HandleResult,
     middlewareVars, topics
<1>2. \A i \in Inputs : result[i] # "none" => subject'[i] = subject[i]
  <2>1. CASE \E p \in Partitions : Deliver(n, p)
    <3>1. PICK i \in Inputs : /\ subject[i] = None
                              /\ \E d : subject' = [subject EXCEPT ![i] = d]
      BY <2>1 DEF Deliver
    <3>2. result[i] = "none"
      BY <3>1 DEF RelayInv, Subjects, MiddlewareInv, Told
    <3>. QED
      BY <3>1, <3>2 DEF RelayInv, Subjects
  <2>2. CASE ~\E p \in Partitions : Deliver(n, p)
    BY <2>2 DEF StepSource, CrashProcess, HandleResult, relay
  <2>. QED
    BY <2>1, <2>2
<1>3. ASSUME NEW p, NEW m PROVE Relayed(p, m)' <=> Relayed(p, m)
  BY <1>1, <1>2 DEF Relayed, Successful
<1>. QED
  BY <1>3 DEF relayed

\* Joining the group skips, and commits nothing.
LEMMA JoinSkipsRelayed ==
  ASSUME RelayInv', NEW n \in Nodes, Join(n), UNCHANGED relayed
  PROVE  RelayDelivery!Next
<1>1. /\ UNCHANGED committed
      /\ \A p \in Partitions : skipped[p] \subseteq skipped'[p]
  BY DEF Join
<1>2. Skipped' \in SUBSET (Partitions \X Messages)
  BY DEF RelayInv, Inv, TypeOK, Skipped
<1>3. Skipped' = Skipped \cup Skipped' /\ UNCHANGED Settled
  BY <1>1 DEF Skipped, Settled
<1>4. PICK S \in SUBSET (Partitions \X Messages) : S = Skipped'
  BY <1>2
<1>5. RelayDelivery!Skip(S)
  BY <1>3, <1>4 DEF RelayDelivery!Skip, Skipped, Settled
<1>. QED
  BY <1>5 DEF RelayDelivery!Next

\* From topic to topic: if errors are not ignored, a message is committed only
\* after an Invoke for it has succeeded and its output is in the success topic,
\* or if the group has skipped it (which it does not where k.Oldest is set:
\* NothingSkipped), and a commit stays, for any group and any faults of the
\* members and brokers.
THEOREM RelayRefinement ==
  ASSUME ~IgnoreErrors
  PROVE  RelaySpec => ImplementsRelay
<1>1. RelayInit => RelayDelivery!Init
  <2> SUFFICES ASSUME RelayInit PROVE relayed = {} /\ Skipped = {} /\ Settled = {}
    BY DEF RelayDelivery!Init, Skipped, Settled
  <2>1. relayed = {}
    BY DEF RelayInit, MiddlewareInit, relayed, Relayed, Successful
  <2>2. Skipped = {} /\ Settled = {}
    BY DEF RelayInit, Init, Skipped, Settled
  <2>. QED
    BY <2>1, <2>2
<1>2. RelayInv /\ RelayInv' /\ [RelayNext]_relayVars
        => [RelayDelivery!Next]_<<relayed, Skipped, Settled>>
  <2> SUFFICES ASSUME RelayInv, RelayInv', [RelayNext]_relayVars
               PROVE  RelayDelivery!Next \/ UNCHANGED <<relayed, Skipped, Settled>>
    OBVIOUS
  <2>1. CASE UNCHANGED relayVars
    BY <2>1 DEF relayVars, vars, broker, history, middlewareVars, topics, relay,
       relayed, Relayed, Successful, Skipped, Settled
  <2>2. ASSUME NEW n \in Nodes,
               \/ StepSource(n) \/ CrashProcess(n)
               \/ \E p \in Partitions : Deliver(n, p) \/ HandleResult(n, p)
        PROVE  RelayDelivery!Next
    <3>1. \A p \in Partitions : committed[p] <= committed'[p]
      BY RelaySteps, CommitsGrow DEF RelayInv
    <3>2. UNCHANGED relayed
      BY <2>2, NothingElseRelays
    <3>3. CASE Join(n)
      BY <3>2, <3>3, JoinSkipsRelayed
    <3>4. CASE ~Join(n)
      <4>1. UNCHANGED skipped
        BY <2>2, <3>4, HandledUnchanged
           DEF StepSource, CrashProcess, Deliver, HandleResult, InvokeSucceeds
      <4>. QED
        BY <3>1, <3>2, <4>1, RelayedIsSettled
    <3>. QED
      BY <3>3, <3>4
  <2>3. ASSUME NEW i \in Inputs, InvokeMiddleware(i)
        PROVE  RelayDelivery!Next \/ UNCHANGED <<relayed, Skipped, Settled>>
    BY <2>3, InvokeRelays DEF Skipped, Settled
  <2>. QED
    BY <2>1, <2>2, <2>3 DEF RelayNext
<1>. QED
  BY <1>1, <1>2, RelayInvariance, PTL
     DEF RelaySpec, ImplementsRelay, RelayDelivery!Spec, Skipped, Settled
=============================================================================
