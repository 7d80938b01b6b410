----------------------- MODULE ServiceBusSourceProofs -----------------------
(***************************************************************************)
(* Proofs about ServiceBusSource, for any number of receivers, messages    *)
(* and deliveries, with or without renewal, queue or dead-letter queue,    *)
(* and all faults: only handled messages are completed, and no delivery    *)
(* that holds its lock is disturbed.                                       *)
(***************************************************************************)
EXTENDS ServiceBusSource, TLAPS

LEMMA NoneType == None \notin Nodes /\ None \notin Messages /\ None \notin Tokens
  BY ServiceBusAssumption

-----------------------------------------------------------------------------
(* The type invariant, and what a handler works on.                        *)

HasMessage == \A d \in Tokens : handler[d] # "none" => of[d] \in Messages

Typed == TypeOK /\ HasMessage

LEMMA TypeStep ==
  ASSUME Typed, [Next]_vars
  PROVE  Typed'
<1> USE NoneType DEF Typed, TypeOK, HasMessage
<1>1. CASE UNCHANGED vars
  BY <1>1 DEF vars
<1>2. ASSUME NEW m \in Messages, NEW n \in Nodes, NEW d \in Tokens, Receive(n, d, m)
      PROVE  Typed'
  BY <1>2 DEF Receive
<1>3. ASSUME NEW m \in Messages, LockExpires(m)
      PROVE  Typed'
  BY <1>3 DEF LockExpires
<1>4. ASSUME NEW n \in Nodes, ReceiveFails(n)
      PROVE  Typed'
  BY <1>4 DEF ReceiveFails, vars
<1>5. ASSUME NEW d \in Tokens, Handler(d)
      PROVE  Typed'
  <2>1. CASE FnReturns(d)
    BY <2>1 DEF FnReturns, queue
  <2>2. CASE StopRenewal(d)
    BY <2>2 DEF StopRenewal, queue
  <2>3. CASE Settle(d)
    BY <2>3 DEF Settle, EndHandler
  <2>4. CASE SettleFails(d)
    BY <2>4 DEF SettleFails, EndHandler, queue
  <2>. QED
    BY <1>5, <2>1, <2>2, <2>3, <2>4 DEF Handler
<1>6. ASSUME NEW d \in Tokens, Renewer(d)
      PROVE  Typed'
  <2>1. CASE RenewalLoop(d)
    BY <2>1 DEF RenewalLoop, SetRenewer, queue
  <2>2. CASE RenewLocks(d)
    BY <2>2 DEF RenewLocks, SetRenewer, queue
  <2>3. CASE CheckRunning(d)
    BY <2>3 DEF CheckRunning, SetRenewer, queue
  <2>4. CASE CancelContext(d)
    BY <2>4 DEF CancelContext, SetRenewer, queue
  <2>. QED
    BY <1>6, <2>1, <2>2, <2>3, <2>4 DEF Renewer
<1>. QED
  BY <1>1, <1>2, <1>3, <1>4, <1>5, <1>6 DEF Next, Delivered

LEMMA AlwaysTyped == Spec => []Typed
<1>1. Init => Typed
  BY DEF Init, Typed, TypeOK, HasMessage
<1>. QED
  BY <1>1, TypeStep, PTL DEF Spec

\* The variables keep their types, for any receivers, messages and faults.
THEOREM Typing == Spec => []TypeOK
<1>1. Typed => TypeOK
  BY DEF Typed
<1>. QED
  BY <1>1, AlwaysTyped, PTL

-----------------------------------------------------------------------------
(* The refinement.                                                         *)

\* What is, or is to be, completed was handled.
CompletesHandled ==
  /\ completed \subseteq handled
  /\ \A d \in Tokens :
       handler[d] \in {"returned", "settle"} /\ outcome[d] = "output"
         => of[d] \in handled

LEMMA CompletesStep ==
  ASSUME Typed, CompletesHandled, [Next]_vars
  PROVE  /\ CompletesHandled'
         /\ [Delivery!Next]_<<handled, {}, completed>>
<1> USE NoneType DEF Typed, TypeOK, HasMessage, CompletesHandled
<1> DEFINE Goal == CompletesHandled' /\ [Delivery!Next]_<<handled, {}, completed>>
<1>1. CASE UNCHANGED vars
  BY <1>1 DEF vars
<1>2. ASSUME NEW m \in Messages, NEW n \in Nodes, NEW d \in Tokens, Receive(n, d, m)
      PROVE  Goal
  BY <1>2 DEF Receive
<1>3. ASSUME NEW m \in Messages, LockExpires(m)
      PROVE  Goal
  BY <1>3 DEF LockExpires
<1>4. ASSUME NEW n \in Nodes, ReceiveFails(n)
      PROVE  Goal
  BY <1>4 DEF ReceiveFails, vars
<1>5. ASSUME NEW d \in Tokens, FnReturns(d)
      PROVE  Goal
  <2>1. CompletesHandled'
    BY <1>5 DEF FnReturns, queue
  <2>2. Delivery!Next \/ UNCHANGED <<handled, completed>>
    BY <1>5 DEF FnReturns, queue, Delivery!Next, Delivery!Handle
  <2>. QED
    BY <2>1, <2>2
<1>6. ASSUME NEW d \in Tokens, StopRenewal(d)
      PROVE  Goal
  BY <1>6 DEF StopRenewal, queue
<1>7. ASSUME NEW d \in Tokens, Settle(d)
      PROVE  Goal
  <2>1. CompletesHandled'
    BY <1>7 DEF Settle, EndHandler
  <2>2. CASE outcome[d] = "output"
    <3>1. Delivery!Settle({of[d]})
      BY <1>7, <2>2 DEF Settle, Delivery!Settle
    <3>. QED
      BY <1>7, <2>1, <3>1 DEF Delivery!Next, Settle
  <2>. QED
    BY <1>7, <2>1, <2>2 DEF Settle
<1>8. ASSUME NEW d \in Tokens, SettleFails(d)
      PROVE  Goal
  BY <1>8 DEF SettleFails, EndHandler, queue
<1>9. ASSUME NEW d \in Tokens, Renewer(d)
      PROVE  Goal
  BY <1>9 DEF Renewer, RenewalLoop, RenewLocks, CheckRunning, CancelContext, queue
<1>. QED
  BY <1>1, <1>2, <1>3, <1>4, <1>5, <1>6, <1>7, <1>8, <1>9
     DEF Next, Delivered, Handler

\* A message is completed only if f has handled it, whichever receiver holds
\* the lock by then: the source implements DeliveryContract.
THEOREM Refinement == Spec => ImplementsDelivery
<1>1. Init => CompletesHandled /\ Delivery!Init
  BY DEF Init, CompletesHandled, Delivery!Init
<1>. QED
  BY <1>1, CompletesStep, AlwaysTyped, PTL
     DEF Spec, ImplementsDelivery, Delivery!Spec

-----------------------------------------------------------------------------
(* The renewal.                                                            *)

\* A goroutine that is about to cancel has lost the lock, or works for a
\* delivery that is over.
RenewalFailed ==
  "renew" \notin Faults =>
    \A d \in Tokens :
      renewer[d] \in {"failed", "cancel"} /\ handler[d] # "none" => lock[of[d]] # d

Undisturbed == UndisturbedFn /\ RenewalFailed

LEMMA UndisturbedStep ==
  ASSUME Typed, Undisturbed, [Next]_vars
  PROVE  Undisturbed'
<1> USE NoneType DEF Typed, TypeOK, HasMessage, Undisturbed, UndisturbedFn, RenewalFailed
<1>1. CASE UNCHANGED vars
  BY <1>1 DEF vars
<1>2. ASSUME NEW m \in Messages, NEW n \in Nodes, NEW d \in Tokens, Receive(n, d, m)
      PROVE  Undisturbed'
  BY <1>2 DEF Receive
<1>3. ASSUME NEW m \in Messages, LockExpires(m)
      PROVE  Undisturbed'
  BY <1>3 DEF LockExpires
<1>4. ASSUME NEW n \in Nodes, ReceiveFails(n)
      PROVE  Undisturbed'
  BY <1>4 DEF ReceiveFails, vars
<1>5. ASSUME NEW d \in Tokens, Handler(d)
      PROVE  Undisturbed'
  BY <1>5 DEF Handler, FnReturns, StopRenewal, Settle, SettleFails, EndHandler, queue
<1>6. ASSUME NEW d \in Tokens, Renewer(d)
      PROVE  Undisturbed'
  BY <1>6 DEF Renewer, RenewalLoop, RenewLocks, CheckRunning, CancelContext,
              SetRenewer, queue
<1>. QED
  BY <1>1, <1>2, <1>3, <1>4, <1>5, <1>6 DEF Next, Delivered

\* However many goroutines of past deliveries are still about, none of them
\* cancels the context of a delivery that holds its lock.
THEOREM NotDisturbed == Spec => []UndisturbedFn
<1>1. Init => Undisturbed
  BY DEF Init, Undisturbed, UndisturbedFn, RenewalFailed
<1>2. Undisturbed => UndisturbedFn
  BY DEF Undisturbed
<1>. QED
  BY <1>1, <1>2, UndisturbedStep, AlwaysTyped, PTL DEF Spec
-----------------------------------------------------------------------------
(* The end of the renewal.                                                 *)

\* running is what the renewal goroutine goes by, and serve what a receiver
\* comes back from.
Told ==
  /\ \A d \in Tokens : running[d] <=> handler[d] \in {"invoke", "returned"}
  /\ \A d \in Tokens : handler[d] # "none" => \E n \in Nodes : serve[n] = d
  /\ \A n \in Nodes : serve[n] # None => handler[serve[n]] # "none"
  /\ \A n, m \in Nodes : serve[n] = serve[m] /\ serve[n] # None => n = m

LEMMA ToldStep ==
  ASSUME Typed, Told, [Next]_vars
  PROVE  Told'
<1> USE NoneType DEF Typed, TypeOK, Told
<1>1. CASE UNCHANGED vars
  BY <1>1 DEF vars
<1>2. ASSUME NEW m \in Messages, NEW n \in Nodes, NEW d \in Tokens, Receive(n, d, m)
      PROVE  Told'
  BY <1>2 DEF Receive
<1>3. ASSUME NEW m \in Messages, LockExpires(m)
      PROVE  Told'
  BY <1>3 DEF LockExpires
<1>4. ASSUME NEW n \in Nodes, ReceiveFails(n)
      PROVE  Told'
  BY <1>1, <1>4 DEF ReceiveFails
<1>5. ASSUME NEW d \in Tokens, Renewer(d)
      PROVE  Told'
  BY <1>5 DEF Renewer, RenewalLoop, RenewLocks, CheckRunning, CancelContext
<1>6. ASSUME NEW d \in Tokens, FnReturns(d)
      PROVE  Told'
  BY <1>6 DEF FnReturns
<1>7. ASSUME NEW d \in Tokens, StopRenewal(d)
      PROVE  Told'
  BY <1>7 DEF StopRenewal
<1>8. ASSUME NEW d \in Tokens, Settle(d) \/ SettleFails(d)
      PROVE  Told'
  <2>1. /\ handler[d] = "settle" /\ UNCHANGED running
        /\ handler' = [handler EXCEPT ![d] = "none"]
        /\ serve' = [n \in Nodes |-> IF serve[n] = d THEN None ELSE serve[n]]
    BY <1>8 DEF Settle, SettleFails, EndHandler
  <2>2. \A e \in Tokens : running'[e] <=> handler'[e] \in {"invoke", "returned"}
    BY <2>1
  <2>3. \A e \in Tokens : handler'[e] # "none" => \E n \in Nodes : serve'[n] = e
    BY <2>1
  <2>4. \A n \in Nodes : serve'[n] # None => serve'[n] = serve[n] /\ serve[n] # d
    BY <2>1
  <2>. QED
    BY <2>1, <2>2, <2>3, <2>4
<1>. QED
  BY <1>1, <1>2, <1>3, <1>4, <1>5, <1>6, <1>7, <1>8 DEF Next, Delivered, Handler

\* However a delivery ends, its renewal goroutine is told so before the message is
\* settled, and finds running false at its next look; and each receiver is in the
\* handler of one delivery, which is nobody else's.
THEOREM RenewalIsTold ==
  Spec => [](/\ \A d \in Tokens : handler[d] \in {"settle", "none"} => ~running[d]
             /\ \A n, m \in Nodes : serve[n] = serve[m] /\ serve[n] # None => n = m)
<1>1. Init => Told
  BY NoneType DEF Init, Told
<1>2. Spec => []Told
  BY <1>1, ToldStep, AlwaysTyped, PTL DEF Spec
<1>3. Told => /\ \A d \in Tokens : handler[d] \in {"settle", "none"} => ~running[d]
              /\ \A n, m \in Nodes : serve[n] = serve[m] /\ serve[n] # None => n = m
  BY DEF Told
<1>. QED
  BY <1>2, <1>3, PTL
=============================================================================
