----------------------------- MODULE CliService -----------------------------
(***************************************************************************)
(* The long-running cli fn, run/fn/cli/service.go.                         *)
(*                                                                         *)
(* One service object owns at most one current child process and talks to *)
(* it by lines: Invoke writes the input to the child's stdin and waits for *)
(* a line of output, an exit error or the end of its context.  Three kinds *)
(* of goroutine share the object: the callers of Invoke, one scanner per   *)
(* child (stdout lines -> outputChannel) and one waiter per child          *)
(* (cmd.Wait -> alive, errorChannel).                                      *)
(*                                                                         *)
(* Every Invoke handles an input of its own, and starts at most one child, *)
(* so an input names its Invoke, and the child that Invoke started.  The   *)
(* child answers line i with a line "the answer to i", again written i.    *)
(***************************************************************************)
EXTENDS Naturals, Sequences

CONSTANTS
  Inputs,    \* the inputs, and the names of the children started for them
  None,      \* no child, no line, no error
  Serial,    \* TRUE: Invokes do not overlap, as when a pool owns the service
  Faults     \* what the environment may do, a subset of FaultKinds

FaultKinds == {"start",     \* cmd.Start or a pipe cannot be created
               "exit",      \* a child exits with status 0
               "crash",     \* a child exits with another status
               "deadline",  \* the context of an Invoke ends
               "kill"}      \* Process.Kill fails on a running child

ASSUME CliAssumption ==
  /\ None \notin Inputs
  /\ Serial \in BOOLEAN
  /\ Faults \subseteq FaultKinds

VARIABLES
  alive,          \* s.alive
  cmd,            \* s.cmd: the child kill() will signal
  stdin,          \* s.stdin: the child Invoke writes to
  outputChannel,  \* s.outputChannel, capacity 1
  errorChannel,   \* s.errorChannel, capacity 1: the child whose error it holds
  pc,             \* where the Invoke of each input is
  proc,           \* the child started by each Invoke
  inbox,          \* lines written to a child that it has not read
  stdout,         \* lines a child has printed that are not in outputChannel
  waiter,         \* the goroutine that waits for a child
  wrote,          \* history: the child an input was written to
  result          \* what the Invoke of each input returned

vars == <<alive, cmd, stdin, outputChannel, errorChannel, pc, proc, inbox,
          stdout, waiter, wrote, result>>

shared == <<alive, cmd, stdin>>
channels == <<outputChannel, errorChannel>>
children == <<proc, inbox, stdout>>

Locations == {"new", "spawn", "setStdin", "setAlive", "write", "select",
              "killMark", "killSignal", "done"}

Kinds == {"none", "reply", "startError", "writeError", "deadline",
          "exitError", "killError"}

Result(k, v) == [kind |-> k, of |-> v]

Active(i) == pc[i] \notin {"new", "done"}

Goto(i, l) == pc' = [pc EXCEPT ![i] = l]

Return(i, r) == /\ Goto(i, "done")
                /\ result' = [result EXCEPT ![i] = r]

\* The first n lines of s, the part a scanner had already buffered.
Prefix(s, n) == SubSeq(s, 1, n)

Init ==
  /\ alive = FALSE
  /\ cmd = None
  /\ stdin = None
  /\ outputChannel = None
  /\ errorChannel = None
  /\ pc = [i \in Inputs |-> "new"]
  /\ proc = [p \in Inputs |-> "none"]
  /\ inbox = [p \in Inputs |-> <<>>]
  /\ stdout = [p \in Inputs |-> <<>>]
  /\ waiter = [p \in Inputs |-> "none"]
  /\ wrote = [i \in Inputs |-> None]
  /\ result = [i \in Inputs |-> Result("none", None)]

-----------------------------------------------------------------------------
(* Invoke and start(), in the goroutine of the caller.                     *)

\* Mutant of Begin: start() does not look at alive.
BeginAfresh(i) ==
  /\ pc[i] = "new"
  /\ Serial => \A j \in Inputs : ~Active(j)
  /\ Goto(i, "spawn")
  /\ UNCHANGED <<shared, channels, children, waiter, wrote, result>>

\* Invoke is called and start() reads alive, under the read lock.
Begin(i) ==
  /\ pc[i] = "new"
  /\ Serial => \A j \in Inputs : ~Active(j)
  /\ Goto(i, IF alive THEN "write" ELSE "spawn")
  /\ UNCHANGED <<shared, channels, children, waiter, wrote, result>>

StartFails(i) ==
  /\ pc[i] = "spawn"
  /\ "start" \in Faults
  /\ Return(i, Result("startError", None))
  /\ UNCHANGED <<shared, channels, children, waiter, wrote>>

\* cmd.Start succeeds and s.cmd = cmd.
Spawn(i) ==
  /\ pc[i] = "spawn"
  /\ proc' = [proc EXCEPT ![i] = "running"]
  /\ cmd' = i
  /\ Goto(i, "setStdin")
  /\ UNCHANGED <<alive, stdin, channels, inbox, stdout, waiter, wrote, result>>

\* s.stdin = stdin, without the lock.
SetStdin(i) ==
  /\ pc[i] = "setStdin"
  /\ stdin' = i
  /\ Goto(i, "setAlive")
  /\ UNCHANGED <<alive, cmd, channels, children, waiter, wrote, result>>

\* s.alive = true, without the lock; then the goroutines are started.
SetAlive(i) ==
  /\ pc[i] = "setAlive"
  /\ alive' = TRUE
  /\ waiter' = [waiter EXCEPT ![i] = "waiting"]
  /\ Goto(i, "write")
  /\ UNCHANGED <<cmd, stdin, channels, children, wrote, result>>

\* fmt.Fprintln(s.stdin, input) ...
Write(i) ==
  /\ pc[i] = "write"
  /\ proc[stdin] = "running"
  /\ inbox' = [inbox EXCEPT ![stdin] = Append(@, i)]
  /\ wrote' = [wrote EXCEPT ![i] = stdin]
  /\ Goto(i, "select")
  /\ UNCHANGED <<shared, channels, proc, stdout, waiter, result>>

\* ... which fails when nothing reads the other end of the pipe.
WriteFails(i) ==
  /\ pc[i] = "write"
  /\ proc[stdin] # "running"
  /\ Return(i, Result("writeError", None))
  /\ UNCHANGED <<shared, channels, children, waiter, wrote>>

\* Mutant of ReceiveOutput: the line is looked at and left in the channel.
PeekOutput(i) ==
  /\ pc[i] = "select"
  /\ outputChannel # None
  /\ Return(i, Result("reply", outputChannel))
  /\ UNCHANGED <<shared, channels, children, waiter, wrote>>

\* case response := <-s.outputChannel
ReceiveOutput(i) ==
  /\ pc[i] = "select"
  /\ outputChannel # None
  /\ Return(i, Result("reply", outputChannel))
  /\ outputChannel' = None
  /\ UNCHANGED <<shared, errorChannel, children, waiter, wrote>>

\* case err = <-s.errorChannel; the result stands unless the kill fails.
ReceiveError(i) ==
  /\ pc[i] = "select"
  /\ errorChannel # None
  /\ result' = [result EXCEPT ![i] = Result("exitError", errorChannel)]
  /\ errorChannel' = None
  /\ Goto(i, "killMark")
  /\ UNCHANGED <<shared, outputChannel, children, waiter, wrote>>

\* Mutant of ContextDone: a slow child is given up but not killed.
ContextDoneWithoutKill(i) ==
  /\ pc[i] = "select"
  /\ "deadline" \in Faults
  /\ Return(i, Result("deadline", None))
  /\ UNCHANGED <<shared, channels, children, waiter, wrote>>

\* case <-ctx.Done()
ContextDone(i) ==
  /\ pc[i] = "select"
  /\ "deadline" \in Faults
  /\ result' = [result EXCEPT ![i] = Result("deadline", None)]
  /\ Goto(i, "killMark")
  /\ UNCHANGED <<shared, channels, children, waiter, wrote>>

\* kill(): alive is cleared under the lock ...
KillMark(i) ==
  /\ pc[i] = "killMark"
  /\ alive' = FALSE
  /\ Goto(i, "killSignal")
  /\ UNCHANGED <<cmd, stdin, channels, children, waiter, wrote, result>>

\* ... and s.cmd is signalled without it.  ErrProcessDone is not an error.
KillSignal(i) ==
  /\ pc[i] = "killSignal"
  /\ IF proc[cmd] = "running"
     THEN /\ proc' = [proc EXCEPT ![cmd] = "failed"]
          /\ inbox' = [inbox EXCEPT ![cmd] = <<>>]
     ELSE UNCHANGED <<proc, inbox>>
  /\ Goto(i, "done")
  /\ UNCHANGED <<shared, channels, stdout, waiter, wrote, result>>

KillFails(i) ==
  /\ pc[i] = "killSignal"
  /\ "kill" \in Faults
  /\ proc[cmd] = "running"
  /\ Return(i, Result("killError", None))
  /\ UNCHANGED <<shared, channels, children, waiter, wrote>>

-----------------------------------------------------------------------------
(* The child process, which is outside the repository: a program that      *)
(* prints one line per line it reads, and may exit at any time.            *)

ChildReplies(p) ==
  /\ proc[p] = "running"
  /\ inbox[p] # <<>>
  /\ stdout' = [stdout EXCEPT ![p] = Append(@, Head(inbox[p]))]
  /\ inbox' = [inbox EXCEPT ![p] = Tail(@)]
  /\ UNCHANGED <<shared, channels, pc, proc, waiter, wrote, result>>

ChildEnds(p) ==
  /\ proc[p] = "running"
  /\ \/ /\ "exit" \in Faults
        /\ proc' = [proc EXCEPT ![p] = "exited"]
     \/ /\ "crash" \in Faults
        /\ proc' = [proc EXCEPT ![p] = "failed"]
  /\ inbox' = [inbox EXCEPT ![p] = <<>>]
  /\ UNCHANGED <<shared, channels, pc, stdout, waiter, wrote, result>>

-----------------------------------------------------------------------------
(* The goroutines of a child.                                              *)

\* The scanner passes a line on; the send blocks while the channel is full.
Scan(p) ==
  /\ waiter[p] # "none"
  /\ stdout[p] # <<>>
  /\ outputChannel = None
  /\ outputChannel' = Head(stdout[p])
  /\ stdout' = [stdout EXCEPT ![p] = Tail(@)]
  /\ UNCHANGED <<shared, errorChannel, pc, proc, inbox, waiter, wrote, result>>

\* cmd.Wait returns and closes the pipes: lines the scanner had not buffered
\* are lost.  Then alive is cleared, whichever child is the current one.
Reap(p) ==
  /\ waiter[p] = "waiting"
  /\ proc[p] \in {"exited", "failed"}
  /\ \E n \in 0 .. Len(stdout[p]) :
       stdout' = [stdout EXCEPT ![p] = Prefix(@, n)]
  /\ alive' = FALSE
  /\ waiter' = [waiter EXCEPT ![p] =
                  IF proc[p] = "failed" THEN "sending" ELSE "ended"]
  /\ UNCHANGED <<cmd, stdin, channels, pc, proc, inbox, wrote, result>>

\* Mutant of SendError: the error is dropped.
DropError(p) ==
  /\ waiter[p] = "sending"
  /\ waiter' = [waiter EXCEPT ![p] = "ended"]
  /\ UNCHANGED <<shared, channels, children, pc, wrote, result>>

\* s.errorChannel <- err, which blocks while the channel is full.
SendError(p) ==
  /\ waiter[p] = "sending"
  /\ errorChannel = None
  /\ errorChannel' = p
  /\ waiter' = [waiter EXCEPT ![p] = "ended"]
  /\ UNCHANGED <<shared, outputChannel, children, pc, wrote, result>>

-----------------------------------------------------------------------------
Submit(i) == Write(i) \/ WriteFails(i)

Start(i) == Begin(i) \/ StartFails(i) \/ Spawn(i) \/ SetStdin(i) \/ SetAlive(i)

Await(i) == ReceiveOutput(i) \/ ReceiveError(i)

Kill(i) == KillMark(i) \/ KillSignal(i) \/ KillFails(i)

Goroutines(p) == Scan(p) \/ Reap(p) \/ SendError(p)

Next ==
  \E i \in Inputs :
     \/ Start(i) \/ Submit(i) \/ Await(i) \/ ContextDone(i) \/ Kill(i)
     \/ ChildReplies(i) \/ ChildEnds(i)
     \/ Goroutines(i)

Spec == Init /\ [][Next]_vars

\* The Go scheduler runs every goroutine that can run, and a healthy child
\* answers what it reads.  Nothing makes a child end, and a context ends only
\* if it has a deadline.
Fairness ==
  \A i \in Inputs :
    /\ WF_vars(Spawn(i) \/ SetStdin(i) \/ SetAlive(i) \/ Submit(i) \/ Await(i)
                 \/ Kill(i))
    /\ WF_vars(ChildReplies(i))
    /\ WF_vars(Scan(i))
    /\ WF_vars(Reap(i))
    /\ WF_vars(SendError(i))

FairSpec == Spec /\ Fairness

-----------------------------------------------------------------------------
(* Properties.                                                             *)

Optional == Inputs \cup {None}

TypeOK ==
  /\ alive \in BOOLEAN
  /\ cmd \in Optional
  /\ stdin \in Optional
  /\ outputChannel \in Optional
  /\ errorChannel \in Optional
  /\ pc \in [Inputs -> Locations]
  /\ proc \in [Inputs -> {"none", "running", "exited", "failed"}]
  /\ inbox \in [Inputs -> Seq(Inputs)]
  /\ stdout \in [Inputs -> Seq(Inputs)]
  /\ waiter \in [Inputs -> {"none", "waiting", "sending", "ended"}]
  /\ wrote \in [Inputs -> Optional]
  /\ result \in [Inputs -> [kind : Kinds, of : Optional]]

\* An Invoke has received an exit error, given up or failed to kill.  From
\* then on output and errors of the abandoned child can reach later Invokes.
Failed ==
  \E i \in Inputs : result[i].kind \in {"deadline", "exitError", "killError"}

\* Until an Invoke has failed, a caller gets the answer to its own input: the
\* line it takes from outputChannel is never one a former input left there.
OwnReplyUntilFailure ==
  ~Failed => \A i \in Inputs :
               result[i].kind = "reply" => result[i].of = i

\* Until an Invoke has failed, start() never leaves a second child running,
\* in spite of the unlocked writes to cmd, stdin and alive (lines 75-77).
OneProcessUntilFailure ==
  ~Failed => \A p, q \in Inputs :
               proc[p] = "running" /\ proc[q] = "running" => p = q

\* Until an Invoke has failed, a child has at most one input to answer.
OneInputAtATimeUntilFailure ==
  ~Failed => \A p \in Inputs : Len(inbox[p]) + Len(stdout[p]) <= 1

\* When Invoke has returned a context or exit error, the child its input was
\* written to runs no more: kill() hits that child although s.cmd is read
\* without the lock, after alive was cleared.
FailureKills ==
  \A i \in Inputs :
    pc[i] = "done" /\ result[i].kind \in {"deadline", "exitError"}
      => proc[wrote[i]] # "running"

\* The child that has the input of this Invoke ended with status 0: no error is
\* sent (lines 93-95), and only the end of the context wakes the Invoke.
LeftAlone(i) == wrote[i] # None /\ proc[wrote[i]] = "exited"

\* An Invoke that has begun returns, by an answer, an error or its deadline,
\* whatever lines, errors and goroutines of abandoned children are on their
\* way, unless its own child ends with status 0.
InvokeReturns ==
  \A i \in Inputs : Active(i) ~> pc[i] = "done" \/ LeftAlone(i)

\* What sources rely on: a caller gets the answer to its own input, always.
OwnReply ==
  \A i \in Inputs : result[i].kind = "reply" => result[i].of = i

-----------------------------------------------------------------------------
(* The service keeps the promise of the Fn interface, except that the       *)
(* answer to another input, which a caller may get when an Invoke has       *)
(* failed, is to be taken for an error.                                     *)

Own(i) == result[i].kind = "reply" /\ result[i].of = i

\* Until an Invoke has failed, such an answer is no status of the contract.
ContractStatus(i) ==
  CASE pc[i] = "new" -> "idle"
    [] Active(i) -> "running"
    [] pc[i] = "done" /\ Own(i) -> "replied"
    [] pc[i] = "done" /\ ~Own(i) ->
         IF result[i].kind = "reply" /\ ~Failed THEN "garbled" ELSE "failed"

contractStatus == [i \in Inputs |-> ContractStatus(i)]

Contract == INSTANCE FnContract WITH status <- contractStatus

\* Every Invoke is called once, and returns its own answer, an error or, when an
\* Invoke has failed before, the answer to another input.
ImplementsContract == Contract!Spec
=============================================================================
