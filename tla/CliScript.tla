----------------------------- MODULE CliScript -----------------------------
(***************************************************************************)
(* The cli fn with "script: true", run/fn/cli/script.go.                   *)
(*                                                                         *)
(* Each Invoke writes its input to a pipe, starts a goroutine that runs a  *)
(* process of its own, and waits for the goroutine or for the end of its   *)
(* context.  The goroutine hands its outcome over unbuffered channels, so  *)
(* a send and its receive are one step.                                    *)
(***************************************************************************)
EXTENDS Transforms

CONSTANTS
  Inputs,
  Large     \* the inputs that do not fit into a pipe

VARIABLES
  status,   \* how far the Invoke of each input has come, as in FnContract
  value,    \* the argument, then the result, of each Invoke
  ended,    \* the inputs whose context has ended; others change it
  panicked, \* the program has ended by a panic
  pc,       \* where each Invoke is
  routine,  \* where its goroutine is
  proc      \* its process

scriptVars == <<pc, routine, proc>>

Init ==
  /\ pc = [i \in Inputs |-> "new"]
  /\ routine = [i \in Inputs |-> "none"]
  /\ proc = [i \in Inputs |-> "none"]

Locations == {"new", "write", "select", "returned", "gaveUp"}

Routines ==
  {"none", "starting", "forked", "waiting", "sendError", "sendOutput", "ended"}

\* cmd.Process as the Invoke sees it: Start has assigned it.
HasProcess(i) == proc[i] # "none" /\ routine[i] # "forked"

Return(i, to, outcome, v) ==
  /\ pc' = [pc EXCEPT ![i] = to]
  /\ status' = [status EXCEPT ![i] = outcome]
  /\ value' = [value EXCEPT ![i] = v]

Move(i, to) == routine' = [routine EXCEPT ![i] = to]

-----------------------------------------------------------------------------
(* Invoke.                                                                 *)

CreatePipes(i) ==
  /\ status[i] = "running"
  /\ pc[i] = "new"
  /\ pc' = [pc EXCEPT ![i] = "write"]
  /\ UNCHANGED <<status, value, panicked, routine, proc>>

\* A pipe cannot be made.  The goroutine that logs the process's stderr, which is
\* not modelled, has been started by then if it is the second one, for stdin: the
\* command never runs, and no step of the code ends that goroutine.
CreatePipesFails(i) ==
  /\ status[i] = "running"
  /\ pc[i] = "new"
  /\ Return(i, "returned", "failed", Error(i))
  /\ UNCHANGED <<panicked, routine, proc>>

\* Nothing reads the pipe yet: a large input blocks Invoke here for ever.
Write(i) ==
  /\ pc[i] = "write"
  /\ i \notin Large
  /\ pc' = [pc EXCEPT ![i] = "select"]
  /\ Move(i, "starting")
  /\ UNCHANGED <<status, value, panicked, proc>>

\* Kill on a process that was never started dereferences nil.
Panic ==
  /\ panicked' = TRUE
  /\ UNCHANGED <<status, value, scriptVars>>

\* Mutant of ContextDone: the process is left alone.
ContextDoneWithoutKill(i) ==
  /\ pc[i] = "select"
  /\ i \in ended
  /\ Return(i, "gaveUp", "failed", Error(i))
  /\ UNCHANGED <<panicked, routine, proc>>

\* case <-ctx.Done(): kill the process, return the error of the context.
ContextDone(i) ==
  /\ pc[i] = "select"
  /\ i \in ended
  /\ IF HasProcess(i)
     THEN /\ Return(i, "gaveUp", "failed", Error(i))
          /\ proc' = [proc EXCEPT ![i] = IF @ = "running" THEN "failed" ELSE @]
          /\ UNCHANGED <<panicked, routine>>
     ELSE Panic

\* case err := <-errorChan: Kill on a process that has ended does nothing.
ReceiveError(i) ==
  /\ pc[i] = "select"
  /\ routine[i] = "sendError"
  /\ IF HasProcess(i)
     THEN /\ Return(i, "returned", "failed", Error(i))
          /\ Move(i, "ended")
          /\ UNCHANGED <<panicked, proc>>
     ELSE Panic

\* case result := <-outputChan: what the process printed.
ReceiveOutput(i) ==
  /\ pc[i] = "select"
  /\ routine[i] = "sendOutput"
  /\ Return(i, "returned", "replied", Printed(i))
  /\ Move(i, "ended")
  /\ UNCHANGED <<panicked, proc>>

-----------------------------------------------------------------------------
(* The goroutine, cmd.Output: Start assigns cmd.Process after the fork, and *)
(* nothing orders that before the read by Invoke.                          *)

StartFails(i) ==
  /\ routine[i] = "starting"
  /\ Move(i, "sendError")
  /\ UNCHANGED <<status, value, panicked, pc, proc>>

Fork(i) ==
  /\ routine[i] = "starting"
  /\ Move(i, "forked")
  /\ proc' = [proc EXCEPT ![i] = "running"]
  /\ UNCHANGED <<status, value, panicked, pc>>

AssignProcess(i) ==
  /\ routine[i] = "forked"
  /\ Move(i, "waiting")
  /\ UNCHANGED <<status, value, panicked, pc, proc>>

\* Mutant of WaitForProcess: after an error the goroutine does not return, and
\* once the error has been received it sends the output too.
WaitAndSendBoth(i) ==
  /\ routine[i] = "waiting" \/ (routine[i] = "ended" /\ proc[i] = "failed")
  /\ proc[i] # "running"
  /\ Move(i, IF proc[i] = "succeeded" \/ routine[i] = "ended"
             THEN "sendOutput" ELSE "sendError")
  /\ UNCHANGED <<status, value, panicked, pc, proc>>

WaitForProcess(i) ==
  /\ routine[i] = "waiting"
  /\ proc[i] # "running"
  /\ Move(i, IF proc[i] = "succeeded" THEN "sendOutput" ELSE "sendError")
  /\ UNCHANGED <<status, value, panicked, pc, proc>>

\* External: the process may end, well or not, and need not.
ProcessEnds(i) ==
  /\ proc[i] = "running"
  /\ \E how \in {"succeeded", "failed"} : proc' = [proc EXCEPT ![i] = how]
  /\ UNCHANGED <<status, value, panicked, pc, routine>>

-----------------------------------------------------------------------------
Invoke(i) == \/ CreatePipes(i) \/ CreatePipesFails(i) \/ Write(i)
             \/ ContextDone(i) \/ ReceiveError(i) \/ ReceiveOutput(i)

Goroutine(i) == StartFails(i) \/ Fork(i) \/ AssignProcess(i) \/ WaitForProcess(i)

Step(i) == Invoke(i) \/ Goroutine(i)

-----------------------------------------------------------------------------
(* Properties.                                                             *)

TypeOK ==
  /\ pc \in [Inputs -> Locations]
  /\ routine \in [Inputs -> Routines]
  /\ proc \in [Inputs -> {"none", "running", "succeeded", "failed"}]

\* An Invoke that has returned, however, leaves no process running.
NoOrphans ==
  \A i \in Inputs : pc[i] \in {"returned", "gaveUp"} => proc[i] # "running"

\* Only an Invoke that gave up at the end of its context leaves its goroutine of
\* cmd.Output behind, which then waits for ever to send (line 41).  The goroutine
\* that logs stderr is another matter, see CreatePipesFails.
LeaksOnlyAfterDeadline ==
  \A i \in Inputs : pc[i] = "returned" => routine[i] \in {"none", "ended"}
=============================================================================
