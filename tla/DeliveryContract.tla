-------------------------- MODULE DeliveryContract --------------------------
(***************************************************************************)
(* What the message sources (kafka, servicebus, sqs) promise to whoever    *)
(* sent a message: it is marked, completed or deleted only after the Fn    *)
(* has handled it without an error, on whatever node and however often it  *)
(* was delivered, and that is not taken back.  What a source skips, because *)
(* it was there before the source asked for messages, is not promised.     *)
(***************************************************************************)
CONSTANT Messages

VARIABLES
  handled,   \* the messages the Fn has handled without an error
  skipped,   \* the messages the source does not ask for
  settled    \* the messages the broker will not deliver again

Init == handled = {} /\ skipped = {} /\ settled = {}

Handle(m) == /\ handled' = handled \cup {m}
             /\ UNCHANGED <<skipped, settled>>

Skip(S) == /\ skipped' = skipped \cup S
           /\ UNCHANGED <<handled, settled>>

\* A commit may settle several messages at once.
Settle(S) == /\ S \subseteq handled \cup skipped
             /\ settled' = settled \cup S
             /\ UNCHANGED <<handled, skipped>>

Next == \/ \E m \in Messages : Handle(m)
        \/ \E S \in SUBSET Messages : Skip(S) \/ Settle(S)

Spec == Init /\ [][Next]_<<handled, skipped, settled>>
=============================================================================
