-------------------------------- MODULE Pool --------------------------------
(***************************************************************************)
(* The pool fn, run/fn/pool/pool.go: a buffered channel of Fns.  Invoke    *)
(* takes an Fn out of the channel, or gives up after maxWaitDuration, and  *)
(* puts the Fn back when it has returned.                                  *)
(*                                                                         *)
(* Each input is the subject of one Invoke; Invokes run in the goroutines  *)
(* of a source and overlap freely.  The pooled Fns are those the template  *)
(* creates while the pool is configured, numbered in that order.           *)
(***************************************************************************)
EXTENDS Integers, Sequences, Functions

CONSTANTS
  Inputs,       \* the inputs, one Invoke each
  None,         \* no Fn
  Concurrency,  \* the configured concurrency, 0 when it is left out
  Panics        \* TRUE: an Fn may panic, and the source recovers, as
                \* net/http does around a handler

\* A negative concurrency makes make(chan) panic: the program never starts.
ASSUME PoolAssumption ==
  /\ Concurrency \in Nat
  /\ Panics \in BOOLEAN
  /\ None \notin Nat

\* The capacity of the channel, which is the number of Fns.
Capacity == IF Concurrency = 0 THEN 8 ELSE Concurrency

Fns == 1 .. Capacity

VARIABLES
  config,   \* how far ConfigureMap has come
  fnChan,   \* p.fnChan: the Fns nobody uses, in the order they are taken
  pc,       \* where the Invoke of each input is
  held,     \* the Fn each Invoke has taken, in its local f
  result    \* what each Invoke returns

vars == <<config, fnChan, pc, held, result>>

Locations == {"new", "wait", "invoke", "return", "done"}

Results == {"none", "output", "fnError", "availabilityTimeout", "panic"}

Init ==
  /\ config = "running"
  /\ fnChan = <<>>
  /\ pc = [i \in Inputs |-> "new"]
  /\ held = [i \in Inputs |-> None]
  /\ result = [i \in Inputs |-> "none"]

-----------------------------------------------------------------------------
(* ConfigureMap.                                                           *)

\* One turn of the loop: createFnFromTemplate succeeds.
CreateFn ==
  /\ config = "running"
  /\ Len(fnChan) < Capacity
  /\ fnChan' = Append(fnChan, Len(fnChan) + 1)
  /\ config' = IF Len(fnChan) + 1 = Capacity THEN "done" ELSE config
  /\ UNCHANGED <<pc, held, result>>

\* The template is not usable; main panics and there is no Invoke.
CreateFnFails ==
  /\ config = "running"
  /\ config' = "failed"
  /\ UNCHANGED <<fnChan, pc, held, result>>

Configure == CreateFn \/ CreateFnFails

-----------------------------------------------------------------------------
(* Invoke.                                                                 *)

Goto(i, l) == pc' = [pc EXCEPT ![i] = l]

Outcome(i, r) == result' = [result EXCEPT ![i] = r]

Call(i) ==
  /\ pc[i] = "new"
  /\ config = "done"
  /\ Goto(i, "wait")
  /\ UNCHANGED <<config, fnChan, held, result>>

\* Mutant of Acquire: the Fn at the head is used but left in the channel.
PeekFn(i) ==
  /\ pc[i] = "wait"
  /\ fnChan # <<>>
  /\ held' = [held EXCEPT ![i] = Head(fnChan)]
  /\ Goto(i, "invoke")
  /\ UNCHANGED <<config, fnChan, result>>

\* case f := <-p.fnChan
Acquire(i) ==
  /\ pc[i] = "wait"
  /\ fnChan # <<>>
  /\ held' = [held EXCEPT ![i] = Head(fnChan)]
  /\ fnChan' = Tail(fnChan)
  /\ Goto(i, "invoke")
  /\ UNCHANGED <<config, result>>

\* case <-time.After(p.maxWaitDuration).  The timer may win although an Fn has
\* just become free: select takes any case that is ready.
AvailabilityTimeout(i) ==
  /\ pc[i] = "wait"
  /\ Goto(i, "done")
  /\ Outcome(i, "availabilityTimeout")
  /\ UNCHANGED <<config, fnChan, held>>

\* Mutant of FnReturns: an Fn that has failed is not put back.
DropFailedFn(i) ==
  /\ pc[i] = "invoke"
  /\ \/ Outcome(i, "output") /\ Goto(i, "return") /\ UNCHANGED held
     \/ /\ Outcome(i, "fnError")
        /\ Goto(i, "done")
        /\ held' = [held EXCEPT ![i] = None]
  /\ UNCHANGED <<config, fnChan>>

\* output, err := f.Invoke(ctx, input)
FnReturns(i) ==
  /\ pc[i] = "invoke"
  /\ \E r \in {"output", "fnError"} : Outcome(i, r)
  /\ Goto(i, "return")
  /\ UNCHANGED <<config, fnChan, held>>

\* f.Invoke panics: the call is unwound past line 41, nothing is deferred.
FnPanics(i) ==
  /\ pc[i] = "invoke"
  /\ Panics
  /\ Goto(i, "done")
  /\ held' = [held EXCEPT ![i] = None]
  /\ Outcome(i, "panic")
  /\ UNCHANGED <<config, fnChan>>

\* Mutant of PutBack: the channel has room for one Fn less.
PutBackInSmallerChannel(i) ==
  /\ pc[i] = "return"
  /\ Len(fnChan) < Capacity - 1
  /\ fnChan' = Append(fnChan, held[i])
  /\ held' = [held EXCEPT ![i] = None]
  /\ Goto(i, "done")
  /\ UNCHANGED <<config, result>>

\* p.fnChan <- f, which would block on a full channel; then Invoke returns.
PutBack(i) ==
  /\ pc[i] = "return"
  /\ Len(fnChan) < Capacity
  /\ fnChan' = Append(fnChan, held[i])
  /\ held' = [held EXCEPT ![i] = None]
  /\ Goto(i, "done")
  /\ UNCHANGED <<config, result>>

Invoke(i) ==
  Call(i) \/ Acquire(i) \/ AvailabilityTimeout(i) \/ FnReturns(i)
    \/ FnPanics(i) \/ PutBack(i)

Next == Configure \/ \E i \in Inputs : Invoke(i)

Spec == Init /\ [][Next]_vars

-----------------------------------------------------------------------------
(* Properties.                                                             *)

TypeOK ==
  /\ config \in {"running", "done", "failed"}
  /\ fnChan \in Seq(Fns)
  /\ pc \in [Inputs -> Locations]
  /\ held \in [Inputs -> Fns \cup {None}]
  /\ result \in [Inputs -> Results]

Users(f) == {i \in Inputs : held[i] = f}

\* "The pool will ensure that each Fn in the pool will process only one input
\* at a time": no Fn is used twice, or used while another may take it, on any
\* of the paths on which Invoke ends.
ExclusiveUse ==
  \A f \in Fns :
    /\ \A i, j \in Users(f) : i = j
    /\ Users(f) # {} => f \notin Range(fnChan)

\* An Fn comes back once: it is never in the channel twice, so the send that
\* puts it back never meets a full channel.
PutBackNeverBlocks ==
  /\ IsInjective(fnChan)
  /\ \A i \in Inputs : pc[i] = "return" => Len(fnChan) < Capacity

\* Until an Fn has panicked, every Fn is free or used, after errors and timeouts
\* too: the pool never shrinks.
AllFnsKept ==
  config = "done" /\ (\A i \in Inputs : result[i] # "panic")
    => \A f \in Fns : f \in Range(fnChan) \/ Users(f) # {}

-----------------------------------------------------------------------------
(* The pool is itself an Fn.                                               *)

ContractStatus(i) ==
  CASE pc[i] = "new" -> "idle"
    [] pc[i] \in {"wait", "invoke", "return"} -> "running"
    [] pc[i] = "done" /\ result[i] = "output" -> "replied"
    [] pc[i] = "done" /\ result[i] # "output" -> "failed"

contractStatus == [i \in Inputs |-> ContractStatus(i)]

Contract == INSTANCE FnContract WITH status <- contractStatus

\* A pool of Fns is an Fn: each Invoke is answered once, by a result or error.
ImplementsContract == Contract!Spec
=============================================================================
