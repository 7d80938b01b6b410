-------------------------- MODULE SqsSourceProofs --------------------------
(***************************************************************************)
(* Proofs about SqsSource, for any number of nodes and messages, any batch *)
(* size and all faults: only handled messages are deleted, and a message   *)
(* that was handled is not handled again without a reason.                 *)
(***************************************************************************)
EXTENDS SqsSource, TLAPS

LEMMA NoneType == None \notin Nodes /\ None \notin Messages
  BY SqsAssumption

-----------------------------------------------------------------------------
(* The type invariant.                                                     *)

LEMMA TypeStep ==
  ASSUME TypeOK, [Next]_vars
  PROVE  TypeOK'
<1> USE DEF TypeOK
<1>1. CASE UNCHANGED vars
  BY <1>1 DEF vars
<1>2. ASSUME NEW n \in Nodes, Serve(n)
      PROVE  TypeOK'
  <2>1. CASE Receive(n)
    BY <2>1 DEF Receive, Visible
  <2>2. CASE ReceiveFails(n)
    BY <2>2 DEF ReceiveFails, vars
  <2>3. CASE Delete(n)
    BY <2>3 DEF Delete
  <2>4. CASE DeleteFails(n)
    BY <2>4 DEF DeleteFails
  <2>5. ASSUME NEW m \in Messages, InvokeSucceeds(n, m) \/ InvokeFails(n, m)
        PROVE  TypeOK'
    BY <2>5 DEF InvokeSucceeds, InvokeFails
  <2>. QED
    BY <1>2, <2>1, <2>2, <2>3, <2>4, <2>5 DEF Serve
<1>3. ASSUME NEW m \in Messages, VisibilityEnds(m)
      PROVE  TypeOK'
  BY <1>3 DEF VisibilityEnds
<1>. QED
  BY <1>1, <1>2, <1>3 DEF Next

\* The variables keep their types, for any nodes, messages, batches and faults.
THEOREM Typing == Spec => []TypeOK
<1>1. Init => TypeOK
  BY DEF Init, TypeOK
<1>. QED
  BY <1>1, TypeStep, PTL DEF Spec

-----------------------------------------------------------------------------
(* The inductive invariant.                                                *)

\* What is, or is to be, deleted was handled.
DeletesHandled ==
  /\ deleted \subseteq handled
  /\ \A n \in Nodes : deleting[n] # None => deleting[n] \in handled

\* The message that a node works on is invisible, and the node its receiver,
\* unless it became visible while the node had it.
Held == \A n \in Nodes, m \in Messages :
          Has(n, m) => holder[m] = n \/ m \in retried

\* A handled message is gone, or about to be deleted by the node that holds it;
\* else there is a reason to see it again.
Settling ==
  \A m \in handled \ retried :
    \/ m \in deleted
    \/ \E n \in Nodes : holder[m] = n /\ deleting[n] = m

IInv == TypeOK /\ DeletesHandled /\ Held /\ Settling /\ HandledOnce

LEMMA Invariant == Spec => []IInv
<1> USE NoneType DEF TypeOK, DeletesHandled, Held, Settling, HandledOnce, Has
<1>1. Init => IInv
  BY DEF Init, IInv
<1>2. ASSUME IInv, [Next]_vars
      PROVE  IInv'
  <2> USE <1>2 DEF IInv
  <2>0. TypeOK'
    BY TypeStep
  <2>1. CASE UNCHANGED vars
    BY <2>1 DEF vars
  <2>2. ASSUME NEW n \in Nodes, Receive(n)
        PROVE  IInv'
    <3>1. PICK B \in SUBSET Visible :
            /\ batch' = [batch EXCEPT ![n] = B]
            /\ holder' = [m \in Messages |-> IF m \in B THEN n ELSE holder[m]]
      BY <2>2 DEF Receive
    <3>2. UNCHANGED <<deleting, deleted, handled, retried>> /\ Polling(n)
      BY <2>2 DEF Receive
    <3>3. B \cap handled \subseteq retried
      BY DEF Visible
    <3>. QED
      BY <2>0, <3>1, <3>2, <3>3 DEF Polling, Visible
  <2>3. ASSUME NEW n \in Nodes, ReceiveFails(n)
        PROVE  IInv'
    BY <2>3 DEF ReceiveFails, vars
  <2>4. ASSUME NEW n \in Nodes, Delete(n)
        PROVE  IInv'
    BY <2>0, <2>4 DEF Delete
  <2>5. ASSUME NEW n \in Nodes, DeleteFails(n)
        PROVE  IInv'
    BY <2>0, <2>5 DEF DeleteFails
  <2>6. ASSUME NEW n \in Nodes, NEW m \in Messages, InvokeSucceeds(n, m)
        PROVE  IInv'
    BY <2>0, <2>6 DEF InvokeSucceeds
  <2>7. ASSUME NEW n \in Nodes, NEW m \in Messages, InvokeFails(n, m)
        PROVE  IInv'
    BY <2>0, <2>7 DEF InvokeFails
  <2>8. ASSUME NEW m \in Messages, VisibilityEnds(m)
        PROVE  IInv'
    BY <2>0, <2>8 DEF VisibilityEnds
  <2>. QED
    BY <2>1, <2>2, <2>3, <2>4, <2>5, <2>6, <2>7, <2>8 DEF Next, Serve
<1>. QED
  BY <1>1, <1>2, PTL DEF Spec

\* Between the polls of any number of nodes, batches that expire half-way and
\* deletes that fail, f gets no message twice without a reason.
THEOREM OnceHandled == Spec => []HandledOnce
<1>1. IInv => HandledOnce
  BY DEF IInv
<1>. QED
  BY <1>1, Invariant, PTL

-----------------------------------------------------------------------------
\* The queue source deletes a message only if f has handled it, on whatever
\* node, and that is not taken back: it implements DeliveryContract.
THEOREM Refinement == Spec => ImplementsDelivery
<1>1. Init => Delivery!Init
  BY DEF Init, Delivery!Init
<1>2. ASSUME IInv, [Next]_vars
      PROVE  [Delivery!Next]_<<handled, {}, deleted>>
  <2> USE <1>2 DEF IInv, TypeOK, DeletesHandled
  <2>1. ASSUME NEW n \in Nodes, Delete(n)
        PROVE  Delivery!Next \/ UNCHANGED <<handled, deleted>>
    <3>1. CASE deleted' = deleted \cup {deleting[n]}
      <4>1. Delivery!Settle({deleting[n]})
        BY <2>1, <3>1 DEF Delete, Delivery!Settle
      <4>. QED
        BY <2>1, <4>1 DEF Delivery!Next, Delete
    <3>. QED
      BY <2>1, <3>1 DEF Delete
  <2>2. ASSUME NEW n \in Nodes, NEW m \in Messages, InvokeSucceeds(n, m)
        PROVE  Delivery!Next
    BY <2>2 DEF InvokeSucceeds, Delivery!Next, Delivery!Handle
  <2>3. ASSUME NEW n \in Nodes, NEW m \in Messages, InvokeFails(n, m)
        PROVE  UNCHANGED <<handled, deleted>>
    BY <2>3 DEF InvokeFails
  <2>4. ASSUME NEW n \in Nodes, Receive(n) \/ ReceiveFails(n) \/ DeleteFails(n)
        PROVE  UNCHANGED <<handled, deleted>>
    BY <2>4 DEF Receive, ReceiveFails, DeleteFails, vars
  <2>5. ASSUME NEW m \in Messages, VisibilityEnds(m)
        PROVE  UNCHANGED <<handled, deleted>>
    BY <2>5 DEF VisibilityEnds
  <2>6. CASE UNCHANGED vars
    BY <2>6 DEF vars
  <2>. QED
    BY <2>1, <2>2, <2>3, <2>4, <2>5, <2>6 DEF Next, Serve
<1>. QED
  BY <1>1, <1>2, Invariant, PTL DEF Spec, ImplementsDelivery, Delivery!Spec
=============================================================================
