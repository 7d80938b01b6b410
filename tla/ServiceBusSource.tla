-------------------------- MODULE ServiceBusSource --------------------------
(***************************************************************************)
(* The Azure servicebus source, run/source/azure/servicebus/servicebus.go. *)
(* Receivers on several nodes share a queue.  Each handles one message at  *)
(* a time; a renewal goroutine per delivery keeps the lock on the message, *)
(* and cancels the delivery's context when it cannot.  `running` and the   *)
(* context are all that handler and goroutine share, and both go on by     *)
(* themselves: the goroutine outlives the handler by up to an interval.    *)
(*                                                                         *)
(* The queue is outside the repository.  A delivery is named by a token    *)
(* that is used again when the handler and the goroutine have both ended.  *)
(***************************************************************************)
EXTENDS FiniteSets

CONSTANTS
  Nodes,       \* the processes that run fnrunner
  Messages,    \* the messages of the queue
  Tokens,      \* the deliveries that can be under way at a time
  None,        \* no message, node or delivery
  AutoRenew,   \* AutoRenewLockInterval is not 0s
  DeadLetter,  \* q.IsDeadLetterReceiver: serveDLQ instead of serveQueue
  Faults       \* a subset of FaultKinds

FaultKinds == {"expire",    \* a lock ends before it is renewed or given up
               "renew",     \* RenewLocks returns an error, the lock remains
               "settle",    \* Complete or Abandon fails
               "receive"}   \* ReceiveOne fails

ASSUME ServiceBusAssumption ==
  /\ None \notin Nodes \cup Messages \cup Tokens
  /\ AutoRenew \in BOOLEAN
  /\ DeadLetter \in BOOLEAN
  /\ Faults \subseteq FaultKinds

VARIABLES
  serve,      \* the delivery a node works on
  of,         \* the message of a delivery
  handler,    \* where the handler of a delivery is
  outcome,    \* what f returned for it
  running,    \* the variable `running` of a delivery
  cancelled,  \* the deliveries whose newCtx is cancelled
  renewer,    \* where the renewal goroutine of a delivery is
  lock,       \* the queue: the delivery that holds the lock of a message
  completed,  \* the queue: messages that are gone
  handled     \* history: messages f has returned no error for

vars == <<serve, of, handler, outcome, running, cancelled, renewer, lock,
          completed, handled>>

queue == <<lock, completed>>

Init ==
  /\ serve = [n \in Nodes |-> None]
  /\ of = [d \in Tokens |-> None]
  /\ handler = [d \in Tokens |-> "none"]
  /\ outcome = [d \in Tokens |-> "none"]
  /\ running = [d \in Tokens |-> FALSE]
  /\ cancelled = {}
  /\ renewer = [d \in Tokens |-> "none"]
  /\ lock = [m \in Messages |-> None]
  /\ completed = {}
  /\ handled = {}

-----------------------------------------------------------------------------
(* serveQueue and serveDLQ.                                                *)

Renews == AutoRenew /\ ~DeadLetter

\* ReceiveOne locks a message and calls the handler, which starts the renewal.
Receive(n, d, m) ==
  /\ serve[n] = None
  /\ handler[d] = "none" /\ renewer[d] = "none"
  /\ m \notin completed /\ lock[m] = None
  /\ lock' = [lock EXCEPT ![m] = d]
  /\ serve' = [serve EXCEPT ![n] = d]
  /\ of' = [of EXCEPT ![d] = m]
  /\ handler' = [handler EXCEPT ![d] = "invoke"]
  /\ outcome' = [outcome EXCEPT ![d] = "none"]
  /\ running' = [running EXCEPT ![d] = TRUE]
  /\ cancelled' = cancelled \ {d}
  /\ renewer' = [renewer EXCEPT ![d] = IF Renews THEN "loop" ELSE "none"]
  /\ UNCHANGED <<completed, handled>>

\* ReceiveOne fails: Serve returns the error and the restart loop calls it
\* again, with a new client.
ReceiveFails(n) ==
  /\ "receive" \in Faults
  /\ serve[n] = None
  /\ UNCHANGED vars

\* _, err := f.Invoke(newCtx, ...).  A cancelled context may be why f fails,
\* or it may go unnoticed.
FnReturns(d) ==
  /\ handler[d] = "invoke"
  /\ \/ /\ outcome' = [outcome EXCEPT ![d] = "output"]
        /\ handled' = handled \cup {of[d]}
     \/ /\ outcome' = [outcome EXCEPT ![d] = "error"]
        /\ UNCHANGED handled
  /\ handler' = [handler EXCEPT ![d] = "returned"]
  /\ UNCHANGED <<serve, of, running, cancelled, renewer, queue>>

\* Mutant of StopRenewal: running stays true.
KeepRenewal(d) ==
  /\ handler[d] = "returned"
  /\ handler' = [handler EXCEPT ![d] = "settle"]
  /\ UNCHANGED <<serve, of, outcome, running, cancelled, renewer, queue,
                 handled>>

\* running = false, which nothing synchronizes with the goroutine's reads.
StopRenewal(d) ==
  /\ handler[d] = "returned"
  /\ running' = [running EXCEPT ![d] = FALSE]
  /\ handler' = [handler EXCEPT ![d] = "settle"]
  /\ UNCHANGED <<serve, of, outcome, cancelled, renewer, queue, handled>>

EndHandler(d) ==
  /\ handler' = [handler EXCEPT ![d] = "none"]
  /\ serve' = [n \in Nodes |-> IF serve[n] = d THEN None ELSE serve[n]]

\* Mutant of Settle: Complete and Abandon change places.
SettleSwapped(d) ==
  /\ handler[d] = "settle"
  /\ lock[of[d]] = d
  /\ completed' = IF outcome[d] = "error" THEN completed \cup {of[d]}
                                          ELSE completed
  /\ lock' = [lock EXCEPT ![of[d]] = None]
  /\ EndHandler(d)
  /\ UNCHANGED <<of, outcome, running, cancelled, renewer, handled>>

\* msg.Complete(newCtx) or msg.Abandon(newCtx), with the lock still held.  That
\* the context is cancelled may go unnoticed here too ...
Settle(d) ==
  /\ handler[d] = "settle"
  /\ lock[of[d]] = d
  /\ completed' = IF outcome[d] = "output" THEN completed \cup {of[d]}
                                           ELSE completed
  /\ lock' = [lock EXCEPT ![of[d]] = None]
  /\ EndHandler(d)
  /\ UNCHANGED <<of, outcome, running, cancelled, renewer, handled>>

\* ... or make it fail, as a lost lock does, or a queue that is out of reach.
\* serveQueue returns the error, serveDLQ logs it; on either path ReceiveOne is
\* called next.
SettleFails(d) ==
  /\ handler[d] = "settle"
  /\ d \in cancelled \/ lock[of[d]] # d \/ "settle" \in Faults
  /\ EndHandler(d)
  /\ UNCHANGED <<of, outcome, running, cancelled, renewer, queue, handled>>

Handler(d) ==
  FnReturns(d) \/ StopRenewal(d) \/ Settle(d) \/ SettleFails(d)

-----------------------------------------------------------------------------
(* The renewal goroutine of a delivery.                                    *)

SetRenewer(d, l) == renewer' = [renewer EXCEPT ![d] = l]

\* for running { time.Sleep(...)
RenewalLoop(d) ==
  /\ renewer[d] = "loop"
  /\ SetRenewer(d, IF running[d] THEN "sleep" ELSE "none")
  /\ UNCHANGED <<serve, of, handler, outcome, running, cancelled, queue,
                 handled>>

\* Mutant of RenewLocks: the error is tested the wrong way round.
RenewLocksInverted(d) ==
  /\ renewer[d] = "sleep"
  /\ \/ /\ d \notin cancelled /\ lock[of[d]] = d
        /\ SetRenewer(d, "failed")
     \/ /\ d \in cancelled \/ lock[of[d]] # d \/ "renew" \in Faults
        /\ SetRenewer(d, "loop")
  /\ UNCHANGED <<serve, of, handler, outcome, running, cancelled, queue,
                 handled>>

\* err := queue.RenewLocks(newCtx, msg)
RenewLocks(d) ==
  /\ renewer[d] = "sleep"
  /\ \/ /\ d \notin cancelled /\ lock[of[d]] = d
        /\ SetRenewer(d, "loop")
     \/ /\ d \in cancelled \/ lock[of[d]] # d \/ "renew" \in Faults
        /\ SetRenewer(d, "failed")
  /\ UNCHANGED <<serve, of, handler, outcome, running, cancelled, queue,
                 handled>>

\* err != nil && running
CheckRunning(d) ==
  /\ renewer[d] = "failed"
  /\ SetRenewer(d, IF running[d] THEN "cancel" ELSE "loop")
  /\ UNCHANGED <<serve, of, handler, outcome, running, cancelled, queue,
                 handled>>

CancelContext(d) ==
  /\ renewer[d] = "cancel"
  /\ cancelled' = cancelled \cup {d}
  /\ SetRenewer(d, "loop")
  /\ UNCHANGED <<serve, of, handler, outcome, running, queue, handled>>

Renewer(d) ==
  RenewalLoop(d) \/ RenewLocks(d) \/ CheckRunning(d) \/ CancelContext(d)

-----------------------------------------------------------------------------
(* The queue.  The lock of a delivery that is over, and was not given up,  *)
(* ends by itself.                                                         *)

LockExpires(m) ==
  /\ lock[m] # None
  /\ "expire" \in Faults \/ handler[lock[m]] = "none"
  /\ lock' = [lock EXCEPT ![m] = None]
  /\ UNCHANGED <<serve, of, handler, outcome, running, cancelled, renewer,
                 completed, handled>>

Delivered(m) == \E n \in Nodes, d \in Tokens : Receive(n, d, m)

Next ==
  \/ \E m \in Messages : Delivered(m) \/ LockExpires(m)
  \/ \E n \in Nodes : ReceiveFails(n)
  \/ \E d \in Tokens : Handler(d) \/ Renewer(d)

Spec == Init /\ [][Next]_vars

\* f succeeds on m; Complete succeeds for m.
Succeeds(m) ==
  \E d \in Tokens : of[d] = m /\ FnReturns(d) /\ outcome'[d] = "output"

Completes(m) ==
  \E d \in Tokens : of[d] = m /\ outcome[d] = "output" /\ Settle(d)

\* Handlers and goroutines run, and locks end.  A message that is free again
\* and again is delivered, one f is called with again and again is handled, one
\* that the source tries to complete again and again is completed.
Fairness ==
  /\ \A d \in Tokens : WF_vars(Handler(d)) /\ WF_vars(Renewer(d))
  /\ \A m \in Messages :
       /\ WF_vars(LockExpires(m) /\ handler[lock[m]] = "none")
       /\ SF_vars(Delivered(m))
       /\ SF_vars(Succeeds(m))
       /\ SF_vars(Completes(m))

FairSpec == Spec /\ Fairness

-----------------------------------------------------------------------------
(* Properties.                                                             *)

TypeOK ==
  /\ serve \in [Nodes -> Tokens \cup {None}]
  /\ of \in [Tokens -> Messages \cup {None}]
  /\ handler \in [Tokens -> {"none", "invoke", "returned", "settle"}]
  /\ outcome \in [Tokens -> {"none", "output", "error"}]
  /\ running \in [Tokens -> BOOLEAN]
  /\ cancelled \in SUBSET Tokens
  /\ renewer \in [Tokens -> {"none", "loop", "sleep", "failed", "cancel"}]
  /\ lock \in [Messages -> Tokens \cup {None}]
  /\ completed \in SUBSET Messages
  /\ handled \in SUBSET Messages

Delivery == INSTANCE DeliveryContract WITH skipped <- {}, settled <- completed

\* A message is completed only after f has handled it, whatever receivers,
\* lock losses and failing calls there were.
ImplementsDelivery == Delivery!Spec

\* As long as its delivery holds the lock, no f has its context cancelled: not
\* by the end of another delivery, nor by a goroutine left from one before.
\* Only a renewal that fails although the lock remains makes an exception.
UndisturbedFn ==
  "renew" \notin Faults =>
    \A d \in cancelled : handler[d] # "none" => lock[of[d]] # d

\* The renewal goroutine ends when the handler has ended: none is left behind.
RenewalEnds ==
  \A d \in Tokens : handler[d] = "none" ~> renewer[d] = "none"

LockLost == \E m \in Messages : LockExpires(m) /\ handler[lock[m]] # "none"

\* If locks are lost and renewals fail for some time only, every message is
\* completed in the end, by whichever receiver.
AllCompleted == <>[][~LockLost]_vars => <>(completed = Messages)
=============================================================================
