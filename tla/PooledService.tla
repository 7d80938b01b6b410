---------------------------- MODULE PooledService ----------------------------
(***************************************************************************)
(* A pool of long-running cli fns, the way fnrunner runs one under a       *)
(* source whose Invokes overlap: Pool composed with CliService.  The       *)
(* documentation of the cli fn leaves it to the pool to keep the Invokes   *)
(* of a service apart; here nothing else does.                             *)
(*                                                                         *)
(* The Fns of a pool share nothing, so one of them, Observed, is modelled  *)
(* as a service, and the others as the Fns of Pool, which may do more than *)
(* a service does.                                                         *)
(***************************************************************************)
EXTENDS Pool

CONSTANTS
  Observed,  \* the Fn whose service is modelled
  Faults     \* what the environment may do to that service

VARIABLES
  alive, cmd, stdin, outputChannel, errorChannel,  \* the fields of the service
  at,        \* where the Invoke of each input is in the service
  proc, inbox, stdout, waiter, wrote,              \* as in CliService
  answer     \* what the service returned to the pool

poolVars == <<config, fnChan, pc, held, result>>

serviceVars == <<alive, cmd, stdin, outputChannel, errorChannel, at, proc, inbox,
                 stdout, waiter, wrote, answer>>

\* The service by itself accepts Invokes that overlap.
Service == INSTANCE CliService WITH Serial <- FALSE, pc <- at, result <- answer

\* The same service with a caller that keeps them apart.
Apart == INSTANCE CliService WITH Serial <- TRUE, pc <- at, result <- answer

ASSUME PooledAssumption ==
  /\ Observed \in Fns
  /\ None \notin Inputs
  /\ Faults \subseteq Service!FaultKinds

PooledInit == Init /\ Service!Init

Uses(i) == pc[i] = "invoke" /\ held[i] = Observed

-----------------------------------------------------------------------------
(* Steps of the pool.                                                      *)

\* Everything but the call of the service; another Fn returns, or panics, when
\* it likes.
InvokePool(i) ==
  /\ \/ Call(i) \/ Acquire(i) \/ AvailabilityTimeout(i) \/ PutBack(i)
     \/ (FnReturns(i) \/ FnPanics(i)) /\ ~Uses(i)
  /\ UNCHANGED serviceVars

\* output, err := f.Invoke(ctx, input) has returned what the service returned.
ServiceReturns(i) ==
  /\ Uses(i)
  /\ at[i] = "done"
  /\ FnReturns(i)
  /\ result'[i] = IF answer[i].kind = "reply" THEN "output" ELSE "fnError"
  /\ UNCHANGED serviceVars

-----------------------------------------------------------------------------
(* Steps of the service and of its children.                               *)

\* f.Invoke is called, with the Fn the pool has handed out.
CallService(i) ==
  /\ Uses(i)
  /\ Service!Begin(i)
  /\ UNCHANGED poolVars

InvokeService(i) ==
  /\ \/ Service!StartFails(i) \/ Service!Spawn(i) \/ Service!SetStdin(i)
     \/ Service!SetAlive(i) \/ Service!Submit(i) \/ Service!Await(i)
     \/ Service!ContextDone(i) \/ Service!Kill(i)
     \/ Service!ChildReplies(i) \/ Service!ChildEnds(i) \/ Service!Goroutines(i)
  /\ UNCHANGED poolVars

PooledNext ==
  \/ Configure /\ UNCHANGED serviceVars
  \/ \E i \in Inputs : \/ InvokePool(i) \/ ServiceReturns(i)
                       \/ CallService(i) \/ InvokeService(i)

pooledVars == <<poolVars, serviceVars>>

PooledSpec == PooledInit /\ [][PooledNext]_pooledVars

\* Timers fire, goroutines that can run do run, and the other Fns return; that
\* the service returns is not assumed.
PooledFairness ==
  /\ \A i \in Inputs :
       WF_pooledVars(\/ CallService(i) \/ ServiceReturns(i)
                     \/ InvokePool(i) /\ pc[i] # "new")
  /\ Service!Fairness

PooledFairSpec == PooledSpec /\ PooledFairness

-----------------------------------------------------------------------------
(* Properties.                                                             *)

\* The pool is the caller a service needs: however the Invokes of the source
\* overlap, those of a service do not, and all that CliService shows for
\* Invokes one after the other holds in a pool.
KeepsInvokesApart == Apart!Spec

\* The status of an Invoke for the caller of the pool.  As in CliService, an
\* answer to another input counts as an error once an Invoke has failed, and
\* is no status of the contract before.
PooledStatus(i) ==
  CASE pc[i] = "new" -> "idle"
    [] pc[i] \in {"wait", "invoke", "return"} -> "running"
    [] pc[i] = "done" /\ result[i] # "output" -> "failed"
    [] pc[i] = "done" /\ result[i] = "output" ->
         CASE answer[i].kind = "none" \/ Service!Own(i) -> "replied"
           [] OTHER -> IF Service!Failed THEN "failed" ELSE "garbled"

pooledStatus == [i \in Inputs |-> PooledStatus(i)]

PooledContract == INSTANCE FnContract WITH status <- pooledStatus

\* Overlapping callers of a pool of services get the answers to their own
\* inputs or errors, until an Invoke of the service has failed.
ImplementsPooledContract == PooledContract!Spec

\* An Invoke of the pool returns, with a result or because no Fn became free in
\* time, and whatever becomes of the children of its service, unless its own
\* child ends with status 0 instead of an answer.
PooledInvokeReturns ==
  \A i \in Inputs : pc[i] = "wait" ~> pc[i] = "done" \/ Service!LeftAlone(i)
=============================================================================
