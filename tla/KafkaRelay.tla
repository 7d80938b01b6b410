----------------------------- MODULE KafkaRelay -----------------------------
(***************************************************************************)
(* From topic to topic: KafkaSource with a pipeline in which the kafka     *)
(* middleware is, KafkaMiddleware.  Every member of the group calls the    *)
(* middleware of its process for the messages of its claims, and marks     *)
(* them or not by what the middleware returns; what the middleware is      *)
(* around, f, is free.                                                     *)
(*                                                                         *)
(* The middleware is made once for a process, and stays when the restart   *)
(* loop calls Serve again: only a crash replaces it.                       *)
(***************************************************************************)
EXTENDS KafkaSource, KafkaMiddleware

ASSUME RelayAssumption ==
  /\ Processes = Nodes
  /\ None \notin Partitions \X Messages

VARIABLES
  call,     \* the Invoke that a ConsumeClaim waits for, or waited for last
  subject   \* history: the message that is the input of each Invoke

relay == <<call, subject>>
relayVars == <<vars, middlewareVars, relay>>

RelayInit ==
  /\ Init
  /\ MiddlewareInit
  /\ call = [n \in Nodes |-> [p \in Partitions |-> None]]
  /\ subject = [i \in Inputs |-> None]

\* input := createInput(message), and f.Invoke is called in this process.
Deliver(n, p) ==
  /\ Receive(n, p)
  /\ \E i \in Inputs :
       /\ Process[i] = n
       /\ subject[i] = None
       /\ subject' = [subject EXCEPT ![i] = <<p, next[n][p]>>]
       /\ call' = [call EXCEPT ![n][p] = i]
  /\ UNCHANGED middlewareVars

\* A ConsumeClaim that has not ended with its process waits for Invoke i.
Awaited(i) ==
  \E p \in Partitions :
    claim[Process[i]][p] = "invoking" /\ call[Process[i]][p] = i

InvokeMiddleware(i) ==
  /\ Awaited(i)
  /\ Invoke(i)
  /\ UNCHANGED <<vars, relay>>

Successful(i) == result[i] \in {"output", "nil"}

\* _, err := f.Invoke(...) has returned, and the claim looks at err.
HandleResult(n, p) ==
  LET i == call[n][p]
  IN  /\ claim[n][p] = "invoking"
      /\ pc[i] = "done"
      /\ IF Successful(i) THEN InvokeSucceeds(n, p) ELSE InvokeFails(n, p)
      /\ UNCHANGED <<middlewareVars, relay>>

\* The process dies, with its claims and its middleware.
CrashProcess(n) ==
  /\ Crash(n)
  /\ ProcessEnds(n)
  /\ UNCHANGED relay

\* The steps of the source in which the middleware has no part.
StepSource(n) ==
  /\ \/ Serve(n) \/ Cancel(n)
     \/ \E p \in Partitions : MessagesClosed(n, p) \/ Group(n, p) \/ Produce(p)
  /\ UNCHANGED <<middlewareVars, relay>>

RelayNext ==
  \/ \E n \in Nodes :
       \/ StepSource(n) \/ CrashProcess(n)
       \/ \E p \in Partitions : Deliver(n, p) \/ HandleResult(n, p)
  \/ \E i \in Inputs : InvokeMiddleware(i)

RelaySpec == RelayInit /\ [][RelayNext]_relayVars

-----------------------------------------------------------------------------
(* Properties.                                                             *)

\* An Invoke for the message has succeeded, on whatever member, and the success
\* topic has its output if there is one.
Relayed(p, m) ==
  \E i \in Inputs :
    /\ subject[i] = <<p, m>>
    /\ Successful(i)
    /\ result[i] = "output" /\ SuccessTopic => i \in success

relayed == {d \in Partitions \X Messages : Relayed(d[1], d[2])}

RelayDelivery == INSTANCE DeliveryContract WITH
  Messages <- Partitions \X Messages,
  handled <- relayed,
  skipped <- UNION {{p} \X skipped[p] : p \in Partitions},
  settled <- UNION {{p} \X (1 .. committed[p]) : p \in Partitions}

\* Nothing gets lost between the topics: a message is committed only after it
\* has been relayed, and stays so, whatever members crash, are evicted or
\* cannot send in between.  (If errors are not ignored, and but for the messages
\* that a member without k.Oldest skips.)
ImplementsRelay == RelayDelivery!Spec
=============================================================================
