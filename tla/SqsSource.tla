------------------------------ MODULE SqsSource ------------------------------
(***************************************************************************)
(* The sqs source, run/source/sqs/sqs.go: Serve receives a batch of        *)
(* messages, invokes f with one after the other, and deletes those f has   *)
(* handled.  Several nodes poll one queue.  A message that is received is  *)
(* invisible for the configured timeout, which runs for the whole batch    *)
(* from the time it is received.                                           *)
(*                                                                         *)
(* The queue is outside the repository.  The order of a batch is its own.  *)
(***************************************************************************)
EXTENDS Naturals, FiniteSets

CONSTANTS
  Nodes,      \* the processes that run fnrunner
  Messages,   \* the messages of the queue
  None,       \* no message, no node
  BatchSize,  \* s.config.BatchSize
  Faults      \* "expire": the visibility timeout ends while a node still has
              \* the message; "delete": DeleteMessage fails; "receive":
              \* ReceiveMessage, or the set-up of Serve, fails

ASSUME SqsAssumption ==
  /\ None \notin Nodes \cup Messages
  /\ BatchSize \in Nat \ {0}
  /\ Faults \subseteq {"expire", "delete", "receive"}

VARIABLES
  batch,     \* the messages of a node's batch that it has not come to
  deleting,  \* the message of a node that f has handled and Serve deletes
  holder,    \* the queue: the last receiver of a message that is invisible
  deleted,   \* the queue: messages that are gone
  handled,   \* history: messages f has returned no error for
  retried    \* history: messages that became visible while a node still had
             \* them, or could not be deleted

vars == <<batch, deleting, holder, deleted, handled, retried>>

Init ==
  /\ batch = [n \in Nodes |-> {}]
  /\ deleting = [n \in Nodes |-> None]
  /\ holder = [m \in Messages |-> None]
  /\ deleted = {}
  /\ handled = {}
  /\ retried = {}

-----------------------------------------------------------------------------
(* Serve.                                                                  *)

Polling(n) == batch[n] = {} /\ deleting[n] = None

Visible == {m \in Messages : holder[m] = None} \ deleted

Receive(n) ==
  /\ Polling(n)
  /\ \E B \in (SUBSET Visible) \ {{}} :
       /\ Cardinality(B) <= BatchSize
       /\ batch' = [batch EXCEPT ![n] = B]
       /\ holder' = [m \in Messages |-> IF m \in B THEN n ELSE holder[m]]
  /\ UNCHANGED <<deleting, deleted, handled, retried>>

\* Serve returns the error; the restart loop calls it again.
ReceiveFails(n) ==
  /\ Polling(n)
  /\ "receive" \in Faults
  /\ UNCHANGED vars

\* err == nil: the message is to be deleted.
InvokeSucceeds(n, m) ==
  /\ deleting[n] = None
  /\ m \in batch[n]
  /\ batch' = [batch EXCEPT ![n] = @ \ {m}]
  /\ deleting' = [deleting EXCEPT ![n] = m]
  /\ handled' = handled \cup {m}
  /\ UNCHANGED <<holder, deleted, retried>>

\* Mutant of InvokeFails: the message is deleted all the same.
InvokeFailsUnnoticed(n, m) ==
  /\ deleting[n] = None
  /\ m \in batch[n]
  /\ batch' = [batch EXCEPT ![n] = @ \ {m}]
  /\ deleting' = [deleting EXCEPT ![n] = m]
  /\ UNCHANGED <<holder, deleted, handled, retried>>

\* continue: the message is left to its visibility timeout.
InvokeFails(n, m) ==
  /\ deleting[n] = None
  /\ m \in batch[n]
  /\ batch' = [batch EXCEPT ![n] = @ \ {m}]
  /\ UNCHANGED <<deleting, holder, deleted, handled, retried>>

\* Mutant of Delete: the message is forgotten, not deleted.
DeleteNothing(n) ==
  /\ deleting[n] # None
  /\ deleting' = [deleting EXCEPT ![n] = None]
  /\ UNCHANGED <<batch, holder, deleted, handled, retried>>

\* DeleteMessage.  The receipt of a node that is not the last receiver any
\* more is accepted, but need not have an effect.
Delete(n) ==
  /\ deleting[n] # None
  /\ \/ deleted' = deleted \cup {deleting[n]}
     \/ holder[deleting[n]] # n /\ UNCHANGED deleted
  /\ deleting' = [deleting EXCEPT ![n] = None]
  /\ UNCHANGED <<batch, holder, handled, retried>>

\* Serve returns the error: the rest of the batch is given up.
DeleteFails(n) ==
  /\ "delete" \in Faults
  /\ deleting[n] # None
  /\ deleting' = [deleting EXCEPT ![n] = None]
  /\ batch' = [batch EXCEPT ![n] = {}]
  /\ retried' = retried \cup {deleting[n]}
  /\ UNCHANGED <<holder, deleted, handled>>

-----------------------------------------------------------------------------
(* The queue.                                                              *)

Has(n, m) == m \in batch[n] \/ deleting[n] = m

VisibilityEnds(m) ==
  /\ holder[m] # None
  /\ "expire" \in Faults \/ ~Has(holder[m], m)
  /\ holder' = [holder EXCEPT ![m] = None]
  /\ retried' = IF Has(holder[m], m) THEN retried \cup {m} ELSE retried
  /\ UNCHANGED <<batch, deleting, deleted, handled>>

Serve(n) ==
  \/ Receive(n) \/ ReceiveFails(n) \/ Delete(n) \/ DeleteFails(n)
  \/ \E m \in Messages : InvokeSucceeds(n, m) \/ InvokeFails(n, m)

Next == (\E n \in Nodes : Serve(n)) \/ (\E m \in Messages : VisibilityEnds(m))

Spec == Init /\ [][Next]_vars

\* The loop runs, f does not hang, timeouts end; and a message that is visible,
\* given to f, or deleted again and again is received, handled, or gone.
Fairness ==
  /\ \A n \in Nodes :
       WF_vars(\/ Delete(n) \/ DeleteFails(n)
               \/ \E m \in Messages : InvokeSucceeds(n, m) \/ InvokeFails(n, m))
  /\ \A m \in Messages :
       /\ WF_vars(VisibilityEnds(m) /\ ~Has(holder[m], m))
       /\ SF_vars(\E n \in Nodes : Receive(n) /\ m \in batch'[n])
       /\ SF_vars(\E n \in Nodes : InvokeSucceeds(n, m))
       /\ SF_vars(\E n \in Nodes : deleting[n] = m /\ Delete(n))

FairSpec == Spec /\ Fairness

-----------------------------------------------------------------------------
(* Properties.                                                             *)

TypeOK ==
  /\ batch \in [Nodes -> SUBSET Messages]
  /\ deleting \in [Nodes -> Messages \cup {None}]
  /\ holder \in [Messages -> Nodes \cup {None}]
  /\ deleted \in SUBSET Messages
  /\ handled \in SUBSET Messages
  /\ retried \in SUBSET Messages

Delivery == INSTANCE DeliveryContract WITH skipped <- {}, settled <- deleted

\* "only deletes a message if it is handled successfully": so for every
\* interleaving of the nodes' batches, timeouts and failing calls.
ImplementsDelivery == Delivery!Spec

\* A message f has handled is not given to f again, on no node, unless it became
\* visible while a node still had it, or could not be deleted.
HandledOnce ==
  \A n \in Nodes : batch[n] \cap handled \subseteq retried

VisibleEarly ==
  \E m \in Messages : VisibilityEnds(m) /\ Has(holder[m], m)

\* If messages are handled in time from some point on, every message is deleted
\* in the end: neither a failing message nor a delete that fails, nor the batch
\* that is given up then, keeps others for ever.
AllDeleted == <>[][~VisibleEarly]_vars => <>(deleted = Messages)
=============================================================================
