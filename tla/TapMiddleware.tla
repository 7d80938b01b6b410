--------------------------- MODULE TapMiddleware ---------------------------
(***************************************************************************)
(* The tap middleware, run/middleware/tap/tap.go: every input, output and  *)
(* error of the wrapped Fn is copied to the stdin of an external process,  *)
(* which is started on demand.  An RWMutex is held for reading during the  *)
(* whole of Invoke, so that the process is not replaced under it, and for  *)
(* writing by the goroutines that start a process or have waited for one.  *)
(*                                                                         *)
(* Each input is the subject of one Invoke, and names the process that     *)
(* this Invoke started, if it started one.                                 *)
(***************************************************************************)
EXTENDS Naturals, Sequences

CONSTANTS
  Inputs,         \* the inputs, and the names of the processes
  None,           \* no process, no writer
  Lines,          \* what is tapped, a subset of {"input", "output", "error"}
  PipeCapacity,   \* how many lines fit into a pipe
  Faults          \* "start": cmd.Start fails; "end": the process ends

ASSUME TapAssumption ==
  /\ None \notin Inputs
  /\ Lines \subseteq {"input", "output", "error"}
  /\ PipeCapacity \in Nat \ {0}
  /\ Faults \subseteq {"start", "end"}

VARIABLES
  alive,      \* m.alive
  stdin,      \* m.stdin and m.cmd: the current process
  readers,    \* m.locker: the Invokes that hold it for reading
  writer,     \* m.locker: who holds, or waits with priority, for writing
  pc,         \* where the Invoke of each input is
  result,     \* what f returned, and Invoke returns
  proc,       \* the process started by each Invoke
  pipe,       \* lines in the stdin of a process that it has not read
  received,   \* history: lines a process has read
  waiter      \* the goroutine that waits for a process

vars == <<alive, stdin, readers, writer, pc, result, proc, pipe, received,
          waiter>>

locker == <<readers, writer>>
processes == <<proc, pipe, received, waiter>>

Locations == {"new", "lock", "start", "rlock", "input", "invoke", "output",
              "error", "unlock", "done"}

\* Who asks for the lock: the Invoke of i, or the goroutine waiting for p.
Starter(i) == [kind |-> "start", of |-> i]
Reaper(p) == [kind |-> "reap", of |-> p]

NoWriter == [kind |-> "none", of |-> None]

Line(k, i) == [kind |-> k, of |-> i]

Init ==
  /\ alive = FALSE
  /\ stdin = None
  /\ readers = {}
  /\ writer = NoWriter
  /\ pc = [i \in Inputs |-> "new"]
  /\ result = [i \in Inputs |-> "none"]
  /\ proc = [p \in Inputs |-> "none"]
  /\ pipe = [p \in Inputs |-> <<>>]
  /\ received = [p \in Inputs |-> <<>>]
  /\ waiter = [p \in Inputs |-> "none"]

Goto(i, l) == pc' = [pc EXCEPT ![i] = l]

-----------------------------------------------------------------------------
(* sync.RWMutex: a goroutine that asks for writing bars new readers, and   *)
(* gets the lock when the present ones have gone.                          *)

MayRead == writer = NoWriter

AskToWrite(w) == writer = NoWriter /\ writer' = w

MayWrite(w) == writer = w /\ readers = {}

-----------------------------------------------------------------------------
(* start(), the lines of which run under the lock.                         *)

\* getAlive, under the read lock.
CheckAlive(i) ==
  /\ pc[i] = "new"
  /\ MayRead
  /\ Goto(i, IF alive THEN "rlock" ELSE "lock")
  /\ UNCHANGED <<alive, stdin, locker, result, processes>>

Lock(i) ==
  /\ pc[i] = "lock"
  /\ AskToWrite(Starter(i))
  /\ Goto(i, "start")
  /\ UNCHANGED <<alive, stdin, readers, result, processes>>

\* "a race of two threads contending for a lock to start"
AlreadyStarted(i) ==
  /\ pc[i] = "start"
  /\ MayWrite(Starter(i))
  /\ alive
  /\ writer' = NoWriter
  /\ Goto(i, "rlock")
  /\ UNCHANGED <<alive, stdin, readers, result, processes>>

\* Mutant of StartProcess: no second look at alive.
StartProcessUnchecked(i) ==
  /\ pc[i] = "start"
  /\ MayWrite(Starter(i))
  /\ proc' = [proc EXCEPT ![i] = "running"]
  /\ waiter' = [waiter EXCEPT ![i] = "waiting"]
  /\ stdin' = i
  /\ alive' = TRUE
  /\ writer' = NoWriter
  /\ Goto(i, "rlock")
  /\ UNCHANGED <<readers, result, pipe, received>>

StartProcess(i) ==
  /\ pc[i] = "start"
  /\ MayWrite(Starter(i))
  /\ ~alive
  /\ proc' = [proc EXCEPT ![i] = "running"]
  /\ waiter' = [waiter EXCEPT ![i] = "waiting"]
  /\ stdin' = i
  /\ alive' = TRUE
  /\ writer' = NoWriter
  /\ Goto(i, "rlock")
  /\ UNCHANGED <<readers, result, pipe, received>>

\* Mutant of StartFails: the error return does not release the lock.
StartFailsLocked(i) ==
  /\ pc[i] = "start"
  /\ MayWrite(Starter(i))
  /\ ~alive
  /\ "start" \in Faults
  /\ result' = [result EXCEPT ![i] = "startError"]
  /\ Goto(i, "done")
  /\ UNCHANGED <<alive, stdin, locker, processes>>

StartFails(i) ==
  /\ pc[i] = "start"
  /\ MayWrite(Starter(i))
  /\ ~alive
  /\ "start" \in Faults
  /\ result' = [result EXCEPT ![i] = "startError"]
  /\ writer' = NoWriter
  /\ Goto(i, "done")
  /\ UNCHANGED <<alive, stdin, readers, processes>>

Start(i) == CheckAlive(i) \/ Lock(i) \/ AlreadyStarted(i) \/ StartProcess(i)
              \/ StartFails(i)

-----------------------------------------------------------------------------
(* The rest of Invoke.                                                     *)

\* Mutant of RLock: the lock is not held while f runs.
RLockBriefly(i) ==
  /\ pc[i] = "rlock"
  /\ MayRead
  /\ Goto(i, "input")
  /\ UNCHANGED <<alive, stdin, locker, result, processes>>

RLock(i) ==
  /\ pc[i] = "rlock"
  /\ MayRead
  /\ readers' = readers \cup {i}
  /\ Goto(i, "input")
  /\ UNCHANGED <<alive, stdin, writer, result, processes>>

\* fmt.Fprintln(m.stdin, ...) if the kind of line is tapped.  It blocks while
\* the pipe of a running process is full; its error is ignored.
Tap(k, i) ==
  \/ /\ k \notin Lines \/ proc[stdin] # "running"
     /\ UNCHANGED pipe
  \/ /\ k \in Lines /\ proc[stdin] = "running"
     /\ Len(pipe[stdin]) < PipeCapacity
     /\ pipe' = [pipe EXCEPT ![stdin] = Append(@, Line(k, i))]

TapInput(i) ==
  /\ pc[i] = "input"
  /\ Tap("input", i)
  /\ Goto(i, "invoke")
  /\ UNCHANGED <<alive, stdin, locker, result, proc, received, waiter>>

\* output, err := f.Invoke(ctx, input)
InvokeFn(i) ==
  /\ pc[i] = "invoke"
  /\ \E r \in {"output", "error"} : result' = [result EXCEPT ![i] = r]
  /\ Goto(i, "output")
  /\ UNCHANGED <<alive, stdin, locker, processes>>

\* Mutant of TapOutput: after an error the error is not tapped.
TapOutputLast(i) ==
  /\ pc[i] = "output"
  /\ Tap("output", i)
  /\ Goto(i, "unlock")
  /\ UNCHANGED <<alive, stdin, locker, result, proc, received, waiter>>

\* The output is tapped after an error too.
TapOutput(i) ==
  /\ pc[i] = "output"
  /\ Tap("output", i)
  /\ Goto(i, IF result[i] = "error" THEN "error" ELSE "unlock")
  /\ UNCHANGED <<alive, stdin, locker, result, proc, received, waiter>>

TapError(i) ==
  /\ pc[i] = "error"
  /\ Tap("error", i)
  /\ Goto(i, "unlock")
  /\ UNCHANGED <<alive, stdin, locker, result, proc, received, waiter>>

RUnlock(i) ==
  /\ pc[i] = "unlock"
  /\ readers' = readers \ {i}
  /\ Goto(i, "done")
  /\ UNCHANGED <<alive, stdin, writer, result, processes>>

Invoke(i) == RLock(i) \/ TapInput(i) \/ InvokeFn(i) \/ TapOutput(i)
               \/ TapError(i) \/ RUnlock(i)

-----------------------------------------------------------------------------
(* The external process, and the goroutine that waits for it.              *)

ProcessReads(p) ==
  /\ proc[p] = "running"
  /\ pipe[p] # <<>>
  /\ received' = [received EXCEPT ![p] = Append(@, Head(pipe[p]))]
  /\ pipe' = [pipe EXCEPT ![p] = Tail(@)]
  /\ UNCHANGED <<alive, stdin, locker, pc, result, proc, waiter>>

ProcessEnds(p) ==
  /\ proc[p] = "running"
  /\ "end" \in Faults
  /\ proc' = [proc EXCEPT ![p] = "ended"]
  /\ pipe' = [pipe EXCEPT ![p] = <<>>]
  /\ UNCHANGED <<alive, stdin, locker, pc, result, received, waiter>>

\* cmd.Wait has returned.
ReaperLock(p) ==
  /\ waiter[p] = "waiting"
  /\ proc[p] = "ended"
  /\ AskToWrite(Reaper(p))
  /\ waiter' = [waiter EXCEPT ![p] = "locking"]
  /\ UNCHANGED <<alive, stdin, readers, pc, result, proc, pipe, received>>

Reap(p) ==
  /\ waiter[p] = "locking"
  /\ MayWrite(Reaper(p))
  /\ alive' = FALSE
  /\ writer' = NoWriter
  /\ waiter' = [waiter EXCEPT ![p] = "gone"]
  /\ UNCHANGED <<stdin, readers, pc, result, proc, pipe, received>>

-----------------------------------------------------------------------------
Next ==
  \E i \in Inputs :
    \/ Start(i) \/ Invoke(i)
    \/ ProcessReads(i) \/ ProcessEnds(i)
    \/ ReaperLock(i) \/ Reap(i)

Spec == Init /\ [][Next]_vars

\* Goroutines run, and the Fn returns.  Of the process nothing is assumed.
Fairness ==
  \A i \in Inputs :
    WF_vars(Start(i) \/ Invoke(i)) /\ WF_vars(ReaperLock(i) \/ Reap(i))

FairSpec == Spec /\ Fairness

\* The process goes on reading its stdin as long as it runs.
ReadingSpec == FairSpec /\ \A p \in Inputs : WF_vars(ProcessReads(p))

-----------------------------------------------------------------------------
(* Properties.                                                             *)

TypeOK ==
  /\ alive \in BOOLEAN
  /\ stdin \in Inputs \cup {None}
  /\ readers \in SUBSET Inputs
  /\ writer \in [kind : {"none", "start", "reap"}, of : Inputs \cup {None}]
  /\ pc \in [Inputs -> Locations]
  /\ result \in [Inputs -> {"none", "startError", "output", "error"}]
  /\ proc \in [Inputs -> {"none", "running", "ended"}]
  /\ pipe \in [Inputs -> Seq([kind : Lines, of : Inputs])]
  /\ received \in [Inputs -> Seq([kind : Lines, of : Inputs])]
  /\ waiter \in [Inputs -> {"none", "waiting", "locking", "gone"}]

\* Whatever Invokes race to start one, there is one process at a time, and
\* alive says truly whether the goroutine of the current one still waits.
OneProcess ==
  \A p \in Inputs :
    waiter[p] \in {"waiting", "locking"} <=> alive /\ stdin = p

\* What a process has read, and what it will still find in its stdin.
Got(p) == received[p] \o pipe[p]

\* Where the lines of the Invoke of i are in it, and of what kinds they are.
LinesOf(i, p) == {n \in 1 .. Len(Got(p)) : Got(p)[n].of = i}

Kinds(i, p) == {Got(p)[n].kind : n \in LinesOf(i, p)}

Expected(i) == {k \in Lines : k = "error" => result[i] = "error"}

Before(k, l) == \/ k = "input" /\ l \in {"output", "error"}
                \/ k = "output" /\ l = "error"

\* No Invoke's lines are spread over two processes, even if the process ends
\* and is started again while f runs.
LinesStayTogether ==
  \A i, p, q \in Inputs :
    LinesOf(i, p) # {} /\ LinesOf(i, q) # {} => p = q

\* A process gets the lines of an Invoke in order and each once.  One that has
\* not ended gets all the lines of an Invoke that is over, or none because the
\* Invoke used another one.
TapIsComplete ==
  \A i, p \in Inputs :
    /\ \A m, n \in LinesOf(i, p) :
         m < n => Before(Got(p)[m].kind, Got(p)[n].kind)
    /\ pc[i] = "done" /\ proc[p] = "running" /\ LinesOf(i, p) # {}
         => Kinds(i, p) = Expected(i)

\* Every Invoke returns: nobody keeps the lock, nobody waits in a circle, and
\* a process that has ended delays an Invoke only until its goroutine has run.
InvokeReturns == \A i \in Inputs : <>(pc[i] = "done")
=============================================================================
