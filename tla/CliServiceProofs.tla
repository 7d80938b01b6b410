-------------------------- MODULE CliServiceProofs --------------------------
(***************************************************************************)
(* Proofs about CliService: type correctness for any use of the service,   *)
(* and, when the Invokes do not overlap, that a failed Invoke leaves its   *)
(* child dead and that no caller gets another's answer before an Invoke    *)
(* has failed.                                                             *)
(***************************************************************************)
EXTENDS CliService, TLAPS

-----------------------------------------------------------------------------
(* The inductive invariant of a service whose Invokes do not overlap.      *)

OneActive == \A i, j \in Inputs : Active(i) /\ Active(j) => i = j

\* What each step of start() may rely on, and the current child it leaves.
Starting ==
  /\ alive => cmd # None /\ stdin = cmd
  /\ \A i \in Inputs :
       /\ pc[i] \in {"new", "spawn"} => proc[i] = "none"
       /\ pc[i] \in {"spawn", "setStdin", "setAlive"} => ~alive
       /\ pc[i] \in {"setStdin", "setAlive"} => cmd = i
       /\ pc[i] = "setAlive" => stdin = i
       /\ pc[i] = "write" => cmd # None /\ stdin = cmd

\* An Invoke waits for, and then kills, the child it wrote to.
Waiting ==
  /\ \A i \in Inputs :
       /\ pc[i] \in {"select", "killMark", "killSignal"}
            => cmd # None /\ wrote[i] = cmd
       /\ pc[i] \in {"killMark", "killSignal"}
            => result[i].kind \in {"deadline", "exitError"}
       /\ pc[i] \notin {"killMark", "killSignal", "done"}
            => result[i].kind = "none"
       /\ wrote[i] # None => proc[wrote[i]] # "none"
       /\ pc[i] = "done" /\ result[i].kind \in {"deadline", "exitError"}
            => wrote[i] # None

SerialInv == TypeOK /\ OneActive /\ Starting /\ Waiting /\ FailureKills

\* Only the current child runs, and alive tells whether it is waited for.
OneChild ==
  /\ \A p \in Inputs :
       /\ proc[p] = "running" =>
            /\ p = cmd
            /\ waiter[p] = "waiting" \/ pc[p] \in {"setStdin", "setAlive"}
       /\ waiter[p] = "waiting" => alive /\ p = cmd

\* A line on its way belongs to the Invoke that waits for it ...
OwnLines ==
  /\ \A p \in Inputs :
       /\ inbox[p] = <<>> \/ \E i \in Inputs : pc[i] = "select" /\ inbox[p] = <<i>>
       /\ stdout[p] = <<>> \/ \E i \in Inputs : pc[i] = "select" /\ stdout[p] = <<i>>
  /\ outputChannel # None => pc[outputChannel] = "select"

\* ... and it is the only one.
OneLine ==
  \A p \in Inputs :
    /\ inbox[p] # <<>> =>
         /\ outputChannel = None
         /\ \A q \in Inputs : stdout[q] = <<>> /\ (q # p => inbox[q] = <<>>)
    /\ stdout[p] # <<>> =>
         /\ outputChannel = None
         /\ \A q \in Inputs : inbox[q] = <<>> /\ (q # p => stdout[q] = <<>>)

OwnReplies ==
  \A i \in Inputs : result[i].kind = "reply" => result[i].of = i

Clean == OneChild /\ OwnLines /\ OneLine /\ OwnReplies

CleanInv == SerialInv /\ (~Failed => Clean)

-----------------------------------------------------------------------------
(* Types.                                                                  *)

LEMMA LineType ==
  /\ <<>> \in Seq(Inputs)
  /\ \A s \in Seq(Inputs) :
       /\ \A i \in Inputs : Append(s, i) \in Seq(Inputs)
       /\ s # <<>> => Head(s) \in Inputs /\ Tail(s) \in Seq(Inputs)
       /\ \A n \in 0 .. Len(s) : Prefix(s, n) \in Seq(Inputs)
  BY DEF Prefix

\* What the operations on lines do to a single line.
LEMMA SingleLine ==
  /\ Len(<<>>) = 0 /\ Prefix(<<>>, 0) = <<>>
  /\ \A i \in Inputs :
       /\ Append(<<>>, i) = <<i>> /\ Len(<<i>>) = 1 /\ <<i>> # <<>>
       /\ Head(<<i>>) = i /\ Tail(<<i>>) = <<>>
       /\ Prefix(<<i>>, 0) = <<>> /\ Prefix(<<i>>, 1) = <<i>>
<1>1. Len(<<>>) = 0 /\ Prefix(<<>>, 0) = <<>>
  BY DEF Prefix
<1>2. ASSUME NEW i \in Inputs
      PROVE  /\ Append(<<>>, i) = <<i>> /\ Len(<<i>>) = 1 /\ <<i>> # <<>>
             /\ Head(<<i>>) = i /\ Tail(<<i>>) = <<>>
  OBVIOUS
<1>3. ASSUME NEW i \in Inputs
      PROVE  Prefix(<<i>>, 0) = <<>> /\ Prefix(<<i>>, 1) = <<i>>
  <2>1. Prefix(<<i>>, 0) = <<>>
    BY DEF Prefix
  <2>2. /\ Prefix(<<i>>, 1) \in Seq(Inputs) /\ Len(Prefix(<<i>>, 1)) = 1
        /\ Prefix(<<i>>, 1)[1] = i
    BY DEF Prefix
  <2>. QED
    BY <2>1, <2>2
<1>. QED
  BY <1>1, <1>2, <1>3

LEMMA TypingStep == TypeOK /\ [Next]_vars => TypeOK'
<1> SUFFICES ASSUME TypeOK, [Next]_vars PROVE TypeOK'
  OBVIOUS
<1> USE DEF Optional, Locations
<1>0. CASE UNCHANGED vars
  BY <1>0 DEF vars, TypeOK
<1>. SUFFICES ASSUME NEW i \in Inputs,
                     \/ Start(i) \/ Submit(i) \/ Await(i) \/ ContextDone(i)
                     \/ Kill(i) \/ ChildReplies(i) \/ ChildEnds(i)
                     \/ Goroutines(i)
              PROVE  TypeOK'
  BY <1>0 DEF Next
<1>1. CASE Begin(i)
  BY <1>1 DEF Begin, TypeOK, shared, channels, children, Goto
<1>2. CASE StartFails(i)
  BY <1>2 DEF StartFails, TypeOK, shared, channels, children, Return, Goto, Result, Kinds
<1>3. CASE Spawn(i)
  BY <1>3 DEF Spawn, TypeOK, shared, channels, children, Goto
<1>4. CASE SetStdin(i)
  BY <1>4 DEF SetStdin, TypeOK, shared, channels, children, Goto
<1>5. CASE SetAlive(i)
  BY <1>5 DEF SetAlive, TypeOK, shared, channels, children, Goto
<1>6. CASE Write(i)
  <2>1. inbox' \in [Inputs -> Seq(Inputs)]
    BY <1>6, LineType DEF Write, TypeOK
  <2>. QED
    BY <1>6, <2>1 DEF Write, TypeOK, shared, channels, Goto
<1>18. CASE WriteFails(i)
  BY <1>18 DEF WriteFails, TypeOK, shared, channels, children, Return, Goto, Result, Kinds
<1>7. CASE ReceiveOutput(i)
  BY <1>7 DEF ReceiveOutput, TypeOK, shared, channels, children, Return, Goto, Result, Kinds
<1>8. CASE ReceiveError(i)
  BY <1>8 DEF ReceiveError, TypeOK, shared, channels, children, Goto, Result, Kinds
<1>9. CASE ContextDone(i)
  BY <1>9 DEF ContextDone, TypeOK, shared, channels, children, Goto, Result, Kinds
<1>10. CASE KillMark(i)
  BY <1>10 DEF KillMark, TypeOK, shared, channels, children, Goto
<1>11. CASE KillSignal(i)
  <2>1. CASE proc[cmd] = "running"
    BY <1>11, <2>1, LineType DEF KillSignal, TypeOK, shared, channels, Goto
  <2>2. CASE proc[cmd] # "running"
    BY <1>11, <2>2 DEF KillSignal, TypeOK, shared, channels, Goto
  <2>. QED
    BY <2>1, <2>2
<1>12. CASE KillFails(i)
  BY <1>12 DEF KillFails, TypeOK, shared, channels, children, Return, Goto, Result, Kinds
<1>13. CASE ChildReplies(i)
  BY <1>13, LineType DEF ChildReplies, TypeOK, shared, channels, children
<1>14. CASE ChildEnds(i)
  BY <1>14, LineType DEF ChildEnds, TypeOK, shared, channels, children
<1>15. CASE Scan(i)
  BY <1>15, LineType DEF Scan, TypeOK, shared, channels, children
<1>16. CASE Reap(i)
  <2>1. PICK n \in 0 .. Len(stdout[i]) :
               stdout' = [stdout EXCEPT ![i] = Prefix(@, n)]
    BY <1>16 DEF Reap
  <2>. QED
    BY <1>16, <2>1, LineType DEF Reap, TypeOK, shared, channels
<1>17. CASE SendError(i)
  BY <1>17 DEF SendError, TypeOK, shared, channels, children
<1>. QED
  BY <1>1, <1>2, <1>3, <1>4, <1>5, <1>6, <1>7, <1>8, <1>9, <1>10, <1>11, <1>12, <1>13, <1>14, <1>15, <1>16, <1>17, <1>18
    DEF Start, Submit, Await, Kill, Goroutines

LEMMA TypingInit == Init => TypeOK
<1> SUFFICES ASSUME Init PROVE TypeOK
  OBVIOUS
<1>1. result \in [Inputs -> [kind : Kinds, of : Optional]]
  BY DEF Init, Result, Kinds, Optional
<1>2. inbox \in [Inputs -> Seq(Inputs)] /\ stdout \in [Inputs -> Seq(Inputs)]
  BY LineType DEF Init
<1>. QED
  BY <1>1, <1>2 DEF Init, TypeOK, Optional, Locations

\* The variables keep their types, however the Invokes overlap.
THEOREM Typing == Spec => []TypeOK
  BY TypingInit, TypingStep, PTL DEF Spec

-----------------------------------------------------------------------------
(* The invariant of a service whose Invokes do not overlap.                *)

LEMMA SerialInit == Init => SerialInv
<1> SUFFICES ASSUME Init PROVE SerialInv
  OBVIOUS
<1>1. TypeOK
  BY TypingInit
<1>2. OneActive
  BY DEF Init, OneActive, Active
<1>3. Starting
  BY DEF Init, Starting
<1>4. Waiting
  BY DEF Init, Waiting, Result
<1>5. FailureKills
  BY DEF Init, FailureKills
<1>. QED
  BY <1>1, <1>2, <1>3, <1>4, <1>5 DEF SerialInv

LEMMA SerialStep ==
  ASSUME Serial, SerialInv, [Next]_vars
  PROVE  SerialInv'
<1>1. TypeOK'
  BY TypingStep DEF SerialInv
<1>2. CASE UNCHANGED vars
  BY <1>1, <1>2 DEF vars, SerialInv, OneActive, Active, Starting, Waiting, FailureKills
<1> DEFINE Step(i) == \/ Start(i) \/ Submit(i) \/ Await(i) \/ ContextDone(i)
                      \/ Kill(i) \/ ChildReplies(i) \/ ChildEnds(i)
                      \/ Goroutines(i)
<1>3. ASSUME NEW i \in Inputs, Step(i)
      PROVE  OneActive' /\ Starting' /\ Waiting' /\ FailureKills'
  <2> USE DEF SerialInv, TypeOK, Optional, Active
  <2>1. CASE Begin(i)
    <3>1. OneActive'
      BY <2>1, CliAssumption DEF Begin, shared, channels, children, Goto, OneActive
    <3>2. Starting'
      BY <2>1, CliAssumption DEF Begin, shared, channels, children, Goto, Starting, OneActive, Waiting
    <3>3. Waiting'
      BY <2>1, CliAssumption DEF Begin, shared, channels, children, Goto, Waiting, OneActive, Starting
    <3>4. FailureKills'
      BY <2>1, CliAssumption DEF Begin, shared, channels, children, Goto, FailureKills, Starting, Waiting
    <3>. QED
      BY <3>1, <3>2, <3>3, <3>4
  <2>2. CASE StartFails(i)
    <3>1. OneActive'
      BY <2>2, CliAssumption DEF StartFails, shared, channels, children, Return, Goto, Result, OneActive
    <3>2. Starting'
      BY <2>2, CliAssumption DEF StartFails, shared, channels, children, Return, Goto, Result, Starting, OneActive, Waiting
    <3>3. Waiting'
      BY <2>2, CliAssumption DEF StartFails, shared, channels, children, Return, Goto, Result, Waiting, OneActive, Starting
    <3>4. FailureKills'
      BY <2>2, CliAssumption DEF StartFails, shared, channels, children, Return, Goto, Result, FailureKills, Starting, Waiting
    <3>. QED
      BY <3>1, <3>2, <3>3, <3>4
  <2>3. CASE Spawn(i)
    <3>1. OneActive'
      BY <2>3, CliAssumption DEF Spawn, shared, channels, children, Goto, OneActive
    <3>2. Starting'
      BY <2>3, CliAssumption DEF Spawn, shared, channels, children, Goto, Starting, OneActive, Waiting
    <3>3. Waiting'
      <4>1. \A j \in Inputs : j # i => pc'[j] = pc[j] /\ pc[j] \in {"new", "done"}
        BY <2>3 DEF Spawn, OneActive, Goto
      <4>2. \A p \in Inputs : proc[p] # "none" => proc'[p] # "none"
        BY <2>3 DEF Spawn
      <4>3. pc'[i] = "setStdin" /\ UNCHANGED <<wrote, result>>
        BY <2>3 DEF Spawn, Goto
      <4>. QED
        BY <4>1, <4>2, <4>3, <2>3 DEF Spawn, Waiting
    <3>4. FailureKills'
      BY <2>3, CliAssumption DEF Spawn, shared, channels, children, Goto, FailureKills, Starting, Waiting
    <3>. QED
      BY <3>1, <3>2, <3>3, <3>4
  <2>4. CASE SetStdin(i)
    <3>1. OneActive'
      BY <2>4, CliAssumption DEF SetStdin, shared, channels, children, Goto, OneActive
    <3>2. Starting'
      BY <2>4, CliAssumption DEF SetStdin, shared, channels, children, Goto, Starting, OneActive, Waiting
    <3>3. Waiting'
      BY <2>4, CliAssumption DEF SetStdin, shared, channels, children, Goto, Waiting, OneActive, Starting
    <3>4. FailureKills'
      BY <2>4, CliAssumption DEF SetStdin, shared, channels, children, Goto, FailureKills, Starting, Waiting
    <3>. QED
      BY <3>1, <3>2, <3>3, <3>4
  <2>5. CASE SetAlive(i)
    <3>1. OneActive'
      BY <2>5, CliAssumption DEF SetAlive, shared, channels, children, Goto, OneActive
    <3>2. Starting'
      <4>1. \A j \in Inputs : j # i => pc'[j] = pc[j] /\ pc[j] \in {"new", "done"}
        BY <2>5 DEF SetAlive, OneActive, Goto
      <4>2. pc'[i] = "write" /\ UNCHANGED <<cmd, stdin, proc>>
        BY <2>5 DEF SetAlive, Goto, children
      <4>3. cmd # None /\ stdin = cmd
        BY <2>5, CliAssumption DEF SetAlive, Starting
      <4>. QED
        BY <4>1, <4>2, <4>3 DEF Starting
    <3>3. Waiting'
      BY <2>5, CliAssumption DEF SetAlive, shared, channels, children, Goto, Waiting, OneActive, Starting
    <3>4. FailureKills'
      BY <2>5, CliAssumption DEF SetAlive, shared, channels, children, Goto, FailureKills, Starting, Waiting
    <3>. QED
      BY <3>1, <3>2, <3>3, <3>4
  <2>6. CASE Write(i)
    <3>1. OneActive'
      BY <2>6 DEF Write, Goto, OneActive
    <3>2. Starting'
      BY <2>6 DEF Write, shared, Goto, Starting
    <3>3. Waiting'
      BY <2>6, CliAssumption DEF Write, shared, Goto, Waiting, Starting
    <3>4. FailureKills'
      BY <2>6 DEF Write, Goto, FailureKills, Waiting
    <3>. QED
      BY <3>1, <3>2, <3>3, <3>4
  <2>18. CASE WriteFails(i)
    <3>1. OneActive'
      BY <2>18 DEF WriteFails, Return, Goto, OneActive
    <3>2. Starting'
      BY <2>18 DEF WriteFails, shared, children, Return, Goto, Starting
    <3>3. Waiting'
      BY <2>18 DEF WriteFails, shared, children, Return, Goto, Result, Waiting
    <3>4. FailureKills'
      BY <2>18 DEF WriteFails, children, Return, Goto, Result, FailureKills
    <3>. QED
      BY <3>1, <3>2, <3>3, <3>4
  <2>7. CASE ReceiveOutput(i)
    <3>1. OneActive'
      BY <2>7, CliAssumption DEF ReceiveOutput, shared, channels, children, Return, Goto, Result, OneActive
    <3>2. Starting'
      BY <2>7, CliAssumption DEF ReceiveOutput, shared, channels, children, Return, Goto, Result, Starting, OneActive, Waiting
    <3>3. Waiting'
      BY <2>7, CliAssumption DEF ReceiveOutput, shared, channels, children, Return, Goto, Result, Waiting, OneActive, Starting
    <3>4. FailureKills'
      BY <2>7, CliAssumption DEF ReceiveOutput, shared, channels, children, Return, Goto, Result, FailureKills, Starting, Waiting
    <3>. QED
      BY <3>1, <3>2, <3>3, <3>4
  <2>8. CASE ReceiveError(i)
    <3>1. OneActive'
      BY <2>8, CliAssumption DEF ReceiveError, shared, channels, children, Goto, Result, OneActive
    <3>2. Starting'
      BY <2>8, CliAssumption DEF ReceiveError, shared, channels, children, Goto, Result, Starting, OneActive, Waiting
    <3>3. Waiting'
      BY <2>8, CliAssumption DEF ReceiveError, shared, channels, children, Goto, Result, Waiting, OneActive, Starting
    <3>4. FailureKills'
      BY <2>8, CliAssumption DEF ReceiveError, shared, channels, children, Goto, Result, FailureKills, Starting, Waiting
    <3>. QED
      BY <3>1, <3>2, <3>3, <3>4
  <2>9. CASE ContextDone(i)
    <3>1. OneActive'
      BY <2>9, CliAssumption DEF ContextDone, shared, channels, children, Goto, Result, OneActive
    <3>2. Starting'
      BY <2>9, CliAssumption DEF ContextDone, shared, channels, children, Goto, Result, Starting, OneActive, Waiting
    <3>3. Waiting'
      BY <2>9, CliAssumption DEF ContextDone, shared, channels, children, Goto, Result, Waiting, OneActive, Starting
    <3>4. FailureKills'
      BY <2>9, CliAssumption DEF ContextDone, shared, channels, children, Goto, Result, FailureKills, Starting, Waiting
    <3>. QED
      BY <3>1, <3>2, <3>3, <3>4
  <2>10. CASE KillMark(i)
    <3>1. OneActive'
      BY <2>10, CliAssumption DEF KillMark, shared, channels, children, Goto, OneActive
    <3>2. Starting'
      BY <2>10, CliAssumption DEF KillMark, shared, channels, children, Goto, Starting, OneActive, Waiting
    <3>3. Waiting'
      BY <2>10, CliAssumption DEF KillMark, shared, channels, children, Goto, Waiting, OneActive, Starting
    <3>4. FailureKills'
      BY <2>10, CliAssumption DEF KillMark, shared, channels, children, Goto, FailureKills, Starting, Waiting
    <3>. QED
      BY <3>1, <3>2, <3>3, <3>4
  <2>11. CASE KillSignal(i)
    <3>1. OneActive'
      BY <2>11, CliAssumption DEF KillSignal, shared, channels, children, Goto, OneActive
    <3>2. Starting'
      BY <2>11, CliAssumption DEF KillSignal, shared, channels, children, Goto, Starting, OneActive, Waiting
    <3>3. Waiting'
      BY <2>11, CliAssumption DEF KillSignal, shared, channels, children, Goto, Waiting, OneActive, Starting
    <3>4. FailureKills'
      BY <2>11, CliAssumption DEF KillSignal, shared, channels, children, Goto, FailureKills, Starting, Waiting
    <3>. QED
      BY <3>1, <3>2, <3>3, <3>4
  <2>12. CASE KillFails(i)
    <3>1. OneActive'
      BY <2>12, CliAssumption DEF KillFails, shared, channels, children, Return, Goto, Result, OneActive
    <3>2. Starting'
      BY <2>12, CliAssumption DEF KillFails, shared, channels, children, Return, Goto, Result, Starting, OneActive, Waiting
    <3>3. Waiting'
      BY <2>12, CliAssumption DEF KillFails, shared, channels, children, Return, Goto, Result, Waiting, OneActive, Starting
    <3>4. FailureKills'
      BY <2>12, CliAssumption DEF KillFails, shared, channels, children, Return, Goto, Result, FailureKills, Starting, Waiting
    <3>. QED
      BY <3>1, <3>2, <3>3, <3>4
  <2>13. CASE ChildReplies(i)
    <3>1. OneActive'
      BY <2>13, CliAssumption DEF ChildReplies, shared, channels, children, OneActive
    <3>2. Starting'
      BY <2>13, CliAssumption DEF ChildReplies, shared, channels, children, Starting, OneActive, Waiting
    <3>3. Waiting'
      BY <2>13, CliAssumption DEF ChildReplies, shared, channels, children, Waiting, OneActive, Starting
    <3>4. FailureKills'
      BY <2>13, CliAssumption DEF ChildReplies, shared, channels, children, FailureKills, Starting, Waiting
    <3>. QED
      BY <3>1, <3>2, <3>3, <3>4
  <2>14. CASE ChildEnds(i)
    <3>1. OneActive'
      BY <2>14, CliAssumption DEF ChildEnds, shared, channels, children, OneActive
    <3>2. Starting'
      BY <2>14, CliAssumption DEF ChildEnds, shared, channels, children, Starting, OneActive, Waiting
    <3>3. Waiting'
      BY <2>14, CliAssumption DEF ChildEnds, shared, channels, children, Waiting, OneActive, Starting
    <3>4. FailureKills'
      BY <2>14, CliAssumption DEF ChildEnds, shared, channels, children, FailureKills, Starting, Waiting
    <3>. QED
      BY <3>1, <3>2, <3>3, <3>4
  <2>15. CASE Scan(i)
    <3>1. OneActive'
      BY <2>15, CliAssumption DEF Scan, shared, channels, children, OneActive
    <3>2. Starting'
      BY <2>15, CliAssumption DEF Scan, shared, channels, children, Starting, OneActive, Waiting
    <3>3. Waiting'
      BY <2>15, CliAssumption DEF Scan, shared, channels, children, Waiting, OneActive, Starting
    <3>4. FailureKills'
      BY <2>15, CliAssumption DEF Scan, shared, channels, children, FailureKills, Starting, Waiting
    <3>. QED
      BY <3>1, <3>2, <3>3, <3>4
  <2>16. CASE Reap(i)
    <3>1. OneActive'
      BY <2>16, CliAssumption DEF Reap, shared, channels, children, Prefix, OneActive
    <3>2. Starting'
      BY <2>16, CliAssumption DEF Reap, shared, channels, children, Prefix, Starting, OneActive, Waiting
    <3>3. Waiting'
      BY <2>16, CliAssumption DEF Reap, shared, channels, children, Prefix, Waiting, OneActive, Starting
    <3>4. FailureKills'
      BY <2>16, CliAssumption DEF Reap, shared, channels, children, Prefix, FailureKills, Starting, Waiting
    <3>. QED
      BY <3>1, <3>2, <3>3, <3>4
  <2>17. CASE SendError(i)
    <3>1. OneActive'
      BY <2>17, CliAssumption DEF SendError, shared, channels, children, OneActive
    <3>2. Starting'
      BY <2>17, CliAssumption DEF SendError, shared, channels, children, Starting, OneActive, Waiting
    <3>3. Waiting'
      BY <2>17, CliAssumption DEF SendError, shared, channels, children, Waiting, OneActive, Starting
    <3>4. FailureKills'
      BY <2>17, CliAssumption DEF SendError, shared, channels, children, FailureKills, Starting, Waiting
    <3>. QED
      BY <3>1, <3>2, <3>3, <3>4
  <2>. QED
    BY <1>3, <2>1, <2>2, <2>3, <2>4, <2>5, <2>6, <2>7, <2>8, <2>9, <2>10, <2>11, <2>12, <2>13, <2>14, <2>15, <2>16, <2>17, <2>18
      DEF Start, Submit, Await, Kill, Goroutines
<1>. QED
  BY <1>1, <1>2, <1>3 DEF Next, SerialInv

-----------------------------------------------------------------------------
(* What holds of such a service until an Invoke has failed.                *)

\* A failure is never taken back: only an Invoke that is under way returns.
LEMMA FailedStays ==
  ASSUME SerialInv, NEW i \in Inputs, Failed,
         \/ Start(i) \/ Submit(i) \/ Await(i) \/ ContextDone(i)
         \/ Kill(i) \/ ChildReplies(i) \/ ChildEnds(i)
         \/ Goroutines(i)
  PROVE  Failed'
<1>1. PICK f \in Inputs : result[f].kind \in {"deadline", "exitError", "killError"}
  BY DEF Failed
<1>2. CASE UNCHANGED result
  BY <1>1, <1>2 DEF Failed
<1>3. CASE StartFails(i) \/ WriteFails(i) \/ ReceiveOutput(i)
  <2>1. f # i
    BY <1>1, <1>3 DEF SerialInv, Waiting, StartFails, WriteFails, ReceiveOutput
  <2>. QED
    BY <1>1, <1>3, <2>1
       DEF SerialInv, TypeOK, StartFails, WriteFails, ReceiveOutput, Return, Failed
<1>4. CASE ReceiveError(i)
  BY <1>4 DEF SerialInv, TypeOK, ReceiveError, Result, Failed
<1>5. CASE ContextDone(i)
  BY <1>5 DEF SerialInv, TypeOK, ContextDone, Result, Failed
<1>6. CASE KillFails(i)
  BY <1>6 DEF SerialInv, TypeOK, KillFails, Return, Result, Failed
<1>. QED
  BY <1>2, <1>3, <1>4, <1>5, <1>6
     DEF Start, Submit, Await, Kill, Goroutines, Begin, Spawn, SetStdin, SetAlive,
         Write, KillMark, KillSignal, ChildReplies, ChildEnds, Scan, Reap, SendError

LEMMA CleanInit == Init => CleanInv
<1> SUFFICES ASSUME Init PROVE SerialInv /\ Clean
  BY DEF CleanInv
<1>1. OneChild /\ OwnLines /\ OneLine
  BY DEF Init, OneChild, OwnLines, OneLine
<1>2. OwnReplies
  BY DEF Init, OwnReplies, Result
<1>. QED
  BY <1>1, <1>2, SerialInit DEF Clean

LEMMA CleanStep ==
  ASSUME Serial, CleanInv, [Next]_vars
  PROVE  CleanInv'
<1>1. SerialInv'
  BY SerialStep DEF CleanInv
<1>2. CASE UNCHANGED vars
  BY <1>1, <1>2
     DEF vars, CleanInv, Failed, Clean, OneChild, OwnLines, OneLine, OwnReplies
<1>3. ASSUME NEW i \in Inputs, ~Failed',
             \/ Start(i) \/ Submit(i) \/ Await(i) \/ ContextDone(i)
             \/ Kill(i) \/ ChildReplies(i) \/ ChildEnds(i)
             \/ Goroutines(i)
      PROVE  Clean'
  <2>0. SerialInv /\ ~Failed /\ Clean
    BY <1>3, FailedStays DEF CleanInv
  <2> USE <2>0 DEF SerialInv, TypeOK, Optional, Active, Clean
  <2>1. CASE Begin(i)
    <3>1. OneChild'
      BY <2>1, CliAssumption DEF Begin, shared, channels, children, Goto, OneChild, OneActive, Starting
    <3>2. OwnLines'
      BY <2>1, CliAssumption DEF Begin, shared, channels, children, Goto, OwnLines, OneActive, OneLine
    <3>3. OneLine'
      BY <2>1, CliAssumption DEF Begin, shared, channels, children, Goto, OneLine, OneActive, OwnLines
    <3>4. OwnReplies'
      BY <2>1, CliAssumption DEF Begin, shared, channels, children, Goto, OwnReplies, OneActive, OwnLines
    <3>. QED
      BY <3>1, <3>2, <3>3, <3>4
  <2>2. CASE StartFails(i)
    <3>1. OneChild'
      BY <2>2, CliAssumption DEF StartFails, shared, channels, children, Return, Goto, Result, OneChild, OneActive, Starting
    <3>2. OwnLines'
      BY <2>2, CliAssumption DEF StartFails, shared, channels, children, Return, Goto, Result, OwnLines, OneActive, OneLine
    <3>3. OneLine'
      BY <2>2, CliAssumption DEF StartFails, shared, channels, children, Return, Goto, Result, OneLine, OneActive, OwnLines
    <3>4. OwnReplies'
      BY <2>2, CliAssumption DEF StartFails, shared, channels, children, Return, Goto, Result, OwnReplies, OneActive, OwnLines
    <3>. QED
      BY <3>1, <3>2, <3>3, <3>4
  <2>3. CASE Spawn(i)
    <3>1. OneChild'
      <4>1. \A p \in Inputs : proc[p] # "running" /\ waiter[p] # "waiting"
        BY <2>3 DEF Spawn, OneChild, OneActive, Starting
      <4>. QED
        BY <2>3, <4>1 DEF Spawn, Goto, OneChild
    <3>2. OwnLines'
      BY <2>3, CliAssumption DEF Spawn, shared, channels, children, Goto, OwnLines, OneActive, OneLine
    <3>3. OneLine'
      BY <2>3, CliAssumption DEF Spawn, shared, channels, children, Goto, OneLine, OneActive, OwnLines
    <3>4. OwnReplies'
      BY <2>3, CliAssumption DEF Spawn, shared, channels, children, Goto, OwnReplies, OneActive, OwnLines
    <3>. QED
      BY <3>1, <3>2, <3>3, <3>4
  <2>4. CASE SetStdin(i)
    <3>1. OneChild'
      BY <2>4, CliAssumption DEF SetStdin, shared, channels, children, Goto, OneChild, OneActive, Starting
    <3>2. OwnLines'
      BY <2>4, CliAssumption DEF SetStdin, shared, channels, children, Goto, OwnLines, OneActive, OneLine
    <3>3. OneLine'
      BY <2>4, CliAssumption DEF SetStdin, shared, channels, children, Goto, OneLine, OneActive, OwnLines
    <3>4. OwnReplies'
      BY <2>4, CliAssumption DEF SetStdin, shared, channels, children, Goto, OwnReplies, OneActive, OwnLines
    <3>. QED
      BY <3>1, <3>2, <3>3, <3>4
  <2>5. CASE SetAlive(i)
    <3>1. OneChild'
      BY <2>5, CliAssumption DEF SetAlive, shared, channels, children, Goto, OneChild, OneActive, Starting
    <3>2. OwnLines'
      BY <2>5, CliAssumption DEF SetAlive, shared, channels, children, Goto, OwnLines, OneActive, OneLine
    <3>3. OneLine'
      BY <2>5, CliAssumption DEF SetAlive, shared, channels, children, Goto, OneLine, OneActive, OwnLines
    <3>4. OwnReplies'
      BY <2>5, CliAssumption DEF SetAlive, shared, channels, children, Goto, OwnReplies, OneActive, OwnLines
    <3>. QED
      BY <3>1, <3>2, <3>3, <3>4
  <2>6. CASE Write(i)
    <3>1. OneChild'
      BY <2>6 DEF Write, shared, Goto, OneChild
    <3>2. outputChannel = None /\ \A p \in Inputs : inbox[p] = <<>> /\ stdout[p] = <<>>
      BY <2>6 DEF Write, OneActive, OwnLines
    <3>3. stdin \in Inputs
      BY <2>6 DEF Write, Starting
    <3>4. pc'[i] = "select" /\ UNCHANGED <<outputChannel, stdout>>
      BY <2>6 DEF Write, channels, Goto
    <3>5. /\ inbox'[stdin] = <<i>>
          /\ \A p \in Inputs : p # stdin => inbox'[p] = <<>>
      BY <2>6, <3>2, <3>3, SingleLine DEF Write
    <3>6. OwnLines'
      BY <3>2, <3>3, <3>4, <3>5 DEF OwnLines
    <3>7. OneLine'
      BY <3>2, <3>3, <3>4, <3>5 DEF OneLine
    <3>8. OwnReplies'
      BY <2>6 DEF Write, OwnReplies
    <3>. QED
      BY <3>1, <3>6, <3>7, <3>8
  <2>7. CASE WriteFails(i)
    <3>1. OneChild'
      BY <2>7, CliAssumption DEF WriteFails, shared, channels, children, Return, Goto, Result, OneChild, OneActive, Starting
    <3>2. OwnLines'
      BY <2>7, CliAssumption DEF WriteFails, shared, channels, children, Return, Goto, Result, OwnLines, OneActive, OneLine
    <3>3. OneLine'
      BY <2>7, CliAssumption DEF WriteFails, shared, channels, children, Return, Goto, Result, OneLine, OneActive, OwnLines
    <3>4. OwnReplies'
      BY <2>7, CliAssumption DEF WriteFails, shared, channels, children, Return, Goto, Result, OwnReplies, OneActive, OwnLines
    <3>. QED
      BY <3>1, <3>2, <3>3, <3>4
  <2>8. CASE ReceiveOutput(i)
    <3>1. OneChild'
      BY <2>8, CliAssumption DEF ReceiveOutput, shared, channels, children, Return, Goto, Result, OneChild, OneActive, Starting
    <3>2. OwnLines'
      BY <2>8, CliAssumption DEF ReceiveOutput, shared, channels, children, Return, Goto, Result, OwnLines, OneActive, OneLine
    <3>3. OneLine'
      BY <2>8, CliAssumption DEF ReceiveOutput, shared, channels, children, Return, Goto, Result, OneLine, OneActive, OwnLines
    <3>4. OwnReplies'
      <4>1. outputChannel = i
        BY <2>8 DEF ReceiveOutput, OneActive, OwnLines
      <4>2. result' = [result EXCEPT ![i] = [kind |-> "reply", of |-> i]]
        BY <2>8, <4>1 DEF ReceiveOutput, Return, Result
      <4>. QED
        BY <4>2 DEF OwnReplies
    <3>. QED
      BY <3>1, <3>2, <3>3, <3>4
  <2>9. CASE ReceiveError(i)
    BY <2>9, <1>3 DEF ReceiveError, Result, Failed
  <2>10. CASE ContextDone(i)
    BY <2>10, <1>3 DEF ContextDone, Result, Failed
  <2>11. CASE KillMark(i)
    BY <2>11, <2>0 DEF KillMark, Waiting, Failed
  <2>12. CASE KillSignal(i)
    BY <2>12, <2>0 DEF KillSignal, Waiting, Failed
  <2>13. CASE KillFails(i)
    BY <2>13, <2>0 DEF KillFails, Waiting, Failed
  <2>14. CASE ChildReplies(i)
    <3>1. OneChild'
      BY <2>14 DEF ChildReplies, shared, OneChild
    <3>2. PICK j \in Inputs : pc[j] = "select" /\ inbox[i] = <<j>>
      BY <2>14 DEF ChildReplies, OwnLines
    <3>3. /\ outputChannel = None
          /\ \A p \in Inputs : stdout[p] = <<>> /\ (p # i => inbox[p] = <<>>)
      BY <2>14 DEF ChildReplies, OneLine
    <3>4. UNCHANGED <<outputChannel, pc>>
      BY <2>14 DEF ChildReplies, channels
    <3>5. \A p \in Inputs : /\ inbox'[p] = <<>>
                            /\ stdout'[p] = IF p = i THEN <<j>> ELSE <<>>
      BY <2>14, <3>2, <3>3, SingleLine DEF ChildReplies
    <3>6. OwnLines'
      BY <3>2, <3>3, <3>4, <3>5 DEF OwnLines
    <3>7. OneLine'
      BY <3>3, <3>4, <3>5 DEF OneLine
    <3>8. OwnReplies'
      BY <2>14 DEF ChildReplies, OwnReplies
    <3>. QED
      BY <3>1, <3>6, <3>7, <3>8
  <2>15. CASE ChildEnds(i)
    <3>1. OneChild'
      BY <2>15, CliAssumption DEF ChildEnds, shared, channels, children, OneChild, OneActive, Starting
    <3>2. OwnLines'
      BY <2>15, CliAssumption DEF ChildEnds, shared, channels, children, OwnLines, OneActive, OneLine
    <3>3. OneLine'
      BY <2>15, CliAssumption DEF ChildEnds, shared, channels, children, OneLine, OneActive, OwnLines
    <3>4. OwnReplies'
      BY <2>15, CliAssumption DEF ChildEnds, shared, channels, children, OwnReplies, OneActive, OwnLines
    <3>. QED
      BY <3>1, <3>2, <3>3, <3>4
  <2>16. CASE Scan(i)
    <3>1. OneChild'
      BY <2>16 DEF Scan, shared, OneChild
    <3>2. PICK j \in Inputs : pc[j] = "select" /\ stdout[i] = <<j>>
      BY <2>16 DEF Scan, OwnLines
    <3>3. \A p \in Inputs : inbox[p] = <<>> /\ (p # i => stdout[p] = <<>>)
      BY <2>16 DEF Scan, OneLine
    <3>4. outputChannel' = j /\ UNCHANGED <<inbox, pc>>
      BY <2>16, <3>2, SingleLine DEF Scan
    <3>5. \A p \in Inputs : stdout'[p] = <<>>
      BY <2>16, <3>2, <3>3, SingleLine DEF Scan
    <3>6. OwnLines'
      BY <3>2, <3>3, <3>4, <3>5 DEF OwnLines
    <3>7. OneLine'
      BY <3>3, <3>4, <3>5 DEF OneLine
    <3>8. OwnReplies'
      BY <2>16 DEF Scan, OwnReplies
    <3>. QED
      BY <3>1, <3>6, <3>7, <3>8
  <2>17. CASE Reap(i)
    <3>1. OneChild'
      BY <2>17 DEF Reap, OneChild
    <3>2. PICK n \in 0 .. Len(stdout[i]) :
                 stdout' = [stdout EXCEPT ![i] = Prefix(@, n)]
      BY <2>17 DEF Reap
    <3>3. stdout'[i] \in {<<>>, stdout[i]}
      <4>1. stdout'[i] = Prefix(stdout[i], n)
        BY <3>2
      <4>2. CASE stdout[i] = <<>>
        <5>1. n = 0
          BY <3>2, <4>2, SingleLine
        <5>. QED
          BY <4>1, <4>2, <5>1, SingleLine
      <4>3. CASE stdout[i] # <<>>
        <5>1. PICK j \in Inputs : stdout[i] = <<j>>
          BY <4>3 DEF OwnLines
        <5>2. n = 0 \/ n = 1
          <6>1. Len(stdout[i]) = 1
            BY <5>1, SingleLine
          <6>. QED
            BY <3>2, <6>1
        <5>. QED
          BY <4>1, <5>1, <5>2, SingleLine
      <4>. QED
        BY <4>2, <4>3
    <3>4. /\ UNCHANGED <<outputChannel, inbox, pc>>
          /\ \A p \in Inputs : p # i => stdout'[p] = stdout[p]
      BY <2>17, <3>2 DEF Reap, channels
    <3>5. OwnLines'
      <4>1. \A p \in Inputs : stdout'[p] = <<>> \/ stdout'[p] = stdout[p]
        BY <3>3, <3>4
      <4>. QED
        <5>1. \A p \in Inputs : 
                inbox'[p] = <<>> \/ \E j \in Inputs : pc'[j] = "select" /\ inbox'[p] = <<j>>
          BY <3>4 DEF OwnLines
        <5>2. \A p \in Inputs :
                stdout'[p] = <<>> \/ \E j \in Inputs : pc'[j] = "select" /\ stdout'[p] = <<j>>
          BY <3>4, <4>1 DEF OwnLines
        <5>. QED
          BY <3>4, <5>1, <5>2 DEF OwnLines
    <3>6. OneLine'
      BY <3>3, <3>4 DEF OneLine
    <3>7. OwnReplies'
      BY <2>17 DEF Reap, OwnReplies
    <3>. QED
      BY <3>1, <3>5, <3>6, <3>7
  <2>18. CASE SendError(i)
    <3>1. OneChild'
      BY <2>18, CliAssumption DEF SendError, shared, channels, children, OneChild, OneActive, Starting
    <3>2. OwnLines'
      BY <2>18, CliAssumption DEF SendError, shared, channels, children, OwnLines, OneActive, OneLine
    <3>3. OneLine'
      BY <2>18, CliAssumption DEF SendError, shared, channels, children, OneLine, OneActive, OwnLines
    <3>4. OwnReplies'
      BY <2>18, CliAssumption DEF SendError, shared, channels, children, OwnReplies, OneActive, OwnLines
    <3>. QED
      BY <3>1, <3>2, <3>3, <3>4
  <2>. QED
    BY <1>3, <2>1, <2>2, <2>3, <2>4, <2>5, <2>6, <2>7, <2>8, <2>9, <2>10, <2>11, <2>12, <2>13, <2>14, <2>15, <2>16, <2>17, <2>18
       DEF Start, Submit, Await, Kill, Goroutines
<1>. QED
  BY <1>1, <1>2, <1>3 DEF Next, CleanInv

\* Serial Invokes: once Invoke has returned a context or exit error, the child
\* its input was written to is dead, whoever started it.
THEOREM FailureKillsChild == ASSUME Serial PROVE Spec => []FailureKills
<1>1. Init => SerialInv
  BY SerialInit
<1>2. SerialInv /\ [Next]_vars => SerialInv'
  BY SerialStep
<1>3. SerialInv => FailureKills
  BY DEF SerialInv
<1>. QED
  BY <1>1, <1>2, <1>3, PTL DEF Spec

LEMMA CleanIsInvariant == ASSUME Serial PROVE Spec => []CleanInv
<1>1. CleanInv /\ [Next]_vars => CleanInv'
  BY CleanStep
<1>. QED
  BY CleanInit, <1>1, PTL DEF Spec

\* Serial Invokes: until one has failed, a caller gets the answer to its input.
THEOREM RepliesAreOwn == ASSUME Serial PROVE Spec => []OwnReplyUntilFailure
<1>1. CleanInv => OwnReplyUntilFailure
  BY DEF CleanInv, Clean, OwnReplies, OwnReplyUntilFailure
<1>. QED
  BY CleanIsInvariant, <1>1, PTL

\* Serial Invokes: until one has failed, at most one child runs.
THEOREM ChildIsAlone == ASSUME Serial PROVE Spec => []OneProcessUntilFailure
<1>1. CleanInv => OneProcessUntilFailure
  BY DEF CleanInv, Clean, OneChild, OneProcessUntilFailure
<1>. QED
  BY CleanIsInvariant, <1>1, PTL

\* Serial Invokes: until one has failed, a child has one input to answer.
THEOREM InputIsAlone == ASSUME Serial PROVE Spec => []OneInputAtATimeUntilFailure
<1>1. CleanInv => OneInputAtATimeUntilFailure
  <2> SUFFICES ASSUME CleanInv, ~Failed, NEW p \in Inputs
               PROVE  Len(inbox[p]) + Len(stdout[p]) <= 1
    BY DEF OneInputAtATimeUntilFailure
  <2> DEFINE m == Len(inbox[p])
             n == Len(stdout[p])
  <2>1. inbox[p] = <<>> \/ stdout[p] = <<>>
    BY DEF CleanInv, Clean, OneLine
  <2>2. m = 0 \/ (inbox[p] # <<>> /\ m = 1)
    BY SingleLine DEF CleanInv, Clean, OwnLines
  <2>3. n = 0 \/ (stdout[p] # <<>> /\ n = 1)
    BY SingleLine DEF CleanInv, Clean, OwnLines
  <2> HIDE DEF m, n
  <2>4. m + n <= 1
    BY <2>1, <2>2, <2>3
  <2>. QED
    BY <2>4 DEF m, n
<1>. QED
  BY CleanIsInvariant, <1>1, PTL

-----------------------------------------------------------------------------
(* An Invoke that waits has something to wait for: what InvokeReturns rests *)
(* on, whatever abandoned children have left in the channels.              *)

Lines(s) == {s[n] : n \in 1 .. Len(s)}

\* The line of an Invoke is on its way as long as the child runs, and a failure
\* of the child is on its way until the Invoke has received it.
Served(i, c) ==
  /\ c # None /\ waiter[c] # "none"
  /\ proc[c] = "running" =>
       i \in Lines(inbox[c]) \cup Lines(stdout[c]) \cup {outputChannel}
  /\ proc[c] = "failed" =>
       waiter[c] \in {"waiting", "sending"} \/ errorChannel = c

WaiterIsServed == \A i \in Inputs : pc[i] = "select" => Served(i, wrote[i])

\* The goroutines of a child are started right after it, and its waiter is not
\* done before the child is.
Attended ==
  \A p \in Inputs :
    /\ proc[p] = "none" => waiter[p] = "none"
    /\ proc[p] # "none" /\ waiter[p] = "none" =>
         pc[p] \in {"setStdin", "setAlive"}
    /\ proc[p] = "running" => waiter[p] \in {"none", "waiting"}
    /\ p = cmd => proc[p] # "none"

ServedInv == SerialInv /\ Attended /\ WaiterIsServed

LEMMA LinesAppend ==
  ASSUME NEW s \in Seq(Inputs), NEW e \in Inputs
  PROVE  Lines(Append(s, e)) = Lines(s) \cup {e}
BY DEF Lines

LEMMA LinesHead ==
  ASSUME NEW s \in Seq(Inputs), s # <<>>
  PROVE  /\ Head(s) \in Inputs /\ Tail(s) \in Seq(Inputs)
         /\ Lines(s) = Lines(Tail(s)) \cup {Head(s)}
<1>1. /\ Len(s) \in Nat \ {0} /\ Head(s) = s[1]
      /\ Len(Tail(s)) = Len(s) - 1
      /\ \A n \in 1 .. Len(s) - 1 : Tail(s)[n] = s[n + 1]
  OBVIOUS
<1>2. ASSUME NEW n \in 1 .. Len(s) PROVE s[n] \in Lines(Tail(s)) \cup {Head(s)}
  <2>1. CASE n = 1
    BY <1>1, <2>1
  <2>2. CASE n # 1
    <3>1. n - 1 \in 1 .. Len(s) - 1 /\ (n - 1) + 1 = n
      BY <1>1, <2>2
    <3>. QED
      BY <1>1, <3>1 DEF Lines
  <2>. QED
    BY <2>1, <2>2
<1>3. ASSUME NEW n \in 1 .. Len(Tail(s)) PROVE Tail(s)[n] \in Lines(s)
  <2>1. n + 1 \in 1 .. Len(s) /\ Tail(s)[n] = s[n + 1]
    BY <1>1
  <2>. QED
    BY <2>1 DEF Lines
<1>4. Head(s) \in Lines(s)
  BY <1>1 DEF Lines
<1>. QED
  BY <1>2, <1>3, <1>4 DEF Lines

LEMMA ServedStep ==
  ASSUME Serial, ServedInv, SerialInv', [Next]_vars
  PROVE  Attended' /\ WaiterIsServed'
<1>1. CASE UNCHANGED vars
  BY <1>1 DEF vars, ServedInv, Attended, WaiterIsServed, Served
<1>2. ASSUME NEW i \in Inputs,
             \/ Start(i) \/ Submit(i) \/ Await(i) \/ ContextDone(i) \/ Kill(i)
             \/ ChildReplies(i) \/ ChildEnds(i) \/ Goroutines(i)
      PROVE  Attended' /\ WaiterIsServed'
  <2> USE DEF ServedInv, SerialInv, TypeOK, Optional
  <2>0. ASSUME NEW j \in Inputs, pc[j] = "select", Active(i)
        PROVE  j = i
    BY <2>0 DEF OneActive, Active
  <2>1. CASE Start(i)
    <3>1. \A j \in Inputs : pc[j] # "select"
      BY <2>1, <2>0 DEF Start, Begin, StartFails, Spawn, SetStdin, SetAlive, Active
    <3>2. \A j \in Inputs : pc'[j] # "select"
      <4>1. pc'[i] # "select" /\ \A j \in Inputs \ {i} : pc'[j] = pc[j]
        BY <2>1 DEF Start, Begin, StartFails, Spawn, SetStdin, SetAlive,
           Return, Goto
      <4>. QED
        BY <3>1, <4>1
    <3>3. WaiterIsServed'
      BY <3>2 DEF WaiterIsServed
    <3>4. CASE Begin(i) \/ StartFails(i)
      BY <3>3, <3>4 DEF Begin, StartFails, Attended, Starting, Return, Goto,
         shared, children
    <3>5. CASE Spawn(i)
      BY <3>3, <3>5 DEF Spawn, Attended, Starting, Goto
    <3>6. CASE SetStdin(i) \/ SetAlive(i)
      BY <3>3, <3>6 DEF SetStdin, SetAlive, Attended, Starting, Goto, children
    <3>. QED
      BY <2>1, <3>4, <3>5, <3>6 DEF Start
  <2>2. CASE Write(i)
    <3>1. Attended'
      BY <2>2 DEF Write, Goto, shared, Attended
    <3>2. ASSUME NEW j \in Inputs, pc'[j] = "select" PROVE Served(j, wrote[j])'
      <4>1. j = i
        BY <2>2, <3>2 DEF Write, Goto, OneActive, Active
      <4>2. stdin \in Inputs /\ stdin = cmd /\ wrote'[i] = stdin
        BY <2>2, CliAssumption DEF Write, Starting
      <4>3. waiter[stdin] # "none"
        BY <2>2, <4>2 DEF Write, Attended, OneActive, Active
      <4>4. inbox'[stdin] = Append(inbox[stdin], i)
        BY <2>2, <4>2 DEF Write
      <4>5. i \in Lines(inbox'[stdin])
        BY <4>2, <4>4, LinesAppend
      <4>. QED
        BY <2>2, <4>1, <4>2, <4>3, <4>5, CliAssumption DEF Write, Served
    <3>. QED
      BY <3>1, <3>2 DEF WaiterIsServed
  <2>3. CASE WriteFails(i) \/ Await(i) \/ ContextDone(i) \/ Kill(i)
    <3>1. Active(i)
      BY <2>3 DEF WriteFails, Await, ReceiveOutput, ReceiveError, ContextDone,
         Kill, KillMark, KillSignal, KillFails, Active
    <3>2. \A j \in Inputs : pc'[j] # "select"
      <4>1. pc'[i] # "select" /\ \A j \in Inputs \ {i} : pc'[j] = pc[j]
        BY <2>3 DEF WriteFails, Await, ReceiveOutput, ReceiveError, ContextDone,
           Kill, KillMark, KillSignal, KillFails, Return, Goto
      <4>. QED
        BY <3>1, <2>0, <4>1
    <3>3. /\ UNCHANGED <<waiter, cmd>>
          /\ \A p \in Inputs : /\ (proc'[p] = "none") <=> (proc[p] = "none")
                               /\ proc'[p] = "running" => proc[p] = "running"
                               /\ p # i => pc'[p] = pc[p]
          /\ pc[i] \notin {"setStdin", "setAlive"}
      BY <2>3 DEF WriteFails, Await, ReceiveOutput, ReceiveError, ContextDone,
         Kill, KillMark, KillSignal, KillFails, Return, Goto, shared, children
    <3>. QED
      BY <3>2, <3>3 DEF WaiterIsServed, Attended
  <2>4. CASE ChildReplies(i)
    <3>1. /\ Lines(inbox[i]) = Lines(inbox'[i]) \cup {Head(inbox[i])}
          /\ Lines(stdout'[i]) = Lines(stdout[i]) \cup {Head(inbox[i])}
      BY <2>4, LinesAppend, LinesHead DEF ChildReplies
    <3>2. \A p \in Inputs \ {i} : inbox'[p] = inbox[p] /\ stdout'[p] = stdout[p]
      BY <2>4 DEF ChildReplies
    <3>3. \A c \in Inputs : Lines(inbox'[c]) \cup Lines(stdout'[c])
                              = Lines(inbox[c]) \cup Lines(stdout[c])
      BY <3>1, <3>2
    <3>4. Attended'
      BY <2>4 DEF ChildReplies, shared, Attended
    <3>5. ASSUME NEW j \in Inputs, pc[j] = "select" PROVE Served(j, wrote[j])'
      <4>1. wrote[j] \in Inputs /\ Served(j, wrote[j])
        BY <3>5, CliAssumption DEF WaiterIsServed, Served
      <4>. QED
        BY <2>4, <3>3, <4>1 DEF ChildReplies, channels, Served
    <3>. QED
      BY <2>4, <3>4, <3>5 DEF ChildReplies, WaiterIsServed
  <2>5. CASE ChildEnds(i)
    <3>1. Attended'
      BY <2>5 DEF ChildEnds, shared, Attended
    <3>2. ASSUME NEW j \in Inputs, pc[j] = "select" PROVE Served(j, wrote[j])'
      <4>1. wrote[j] \in Inputs /\ Served(j, wrote[j])
        BY <3>2, CliAssumption DEF WaiterIsServed, Served
      <4>2. wrote[j] = i => waiter[i] = "waiting"
        BY <2>5, <4>1 DEF ChildEnds, Attended, Served
      <4>. QED
        BY <2>5, <4>1, <4>2 DEF ChildEnds, channels, Served
    <3>. QED
      BY <2>5, <3>1, <3>2 DEF ChildEnds, WaiterIsServed
  <2>6. CASE Scan(i)
    <3>1. Lines(stdout[i]) = Lines(stdout'[i]) \cup {outputChannel'}
      BY <2>6, LinesHead DEF Scan
    <3>2. \A p \in Inputs \ {i} : stdout'[p] = stdout[p]
      BY <2>6 DEF Scan
    <3>3. Attended'
      BY <2>6 DEF Scan, shared, Attended
    <3>4. ASSUME NEW j \in Inputs, pc[j] = "select" PROVE Served(j, wrote[j])'
      <4>1. wrote[j] \in Inputs /\ Served(j, wrote[j])
        BY <3>4, CliAssumption DEF WaiterIsServed, Served
      <4>. QED
        BY <2>6, <3>1, <3>2, <4>1, CliAssumption DEF Scan, Served
    <3>. QED
      BY <2>6, <3>3, <3>4 DEF Scan, WaiterIsServed
  <2>7. CASE Reap(i)
    <3>1. Attended'
      BY <2>7 DEF Reap, Attended
    <3>2. ASSUME NEW j \in Inputs, pc[j] = "select" PROVE Served(j, wrote[j])'
      <4>1. wrote[j] \in Inputs /\ Served(j, wrote[j])
        BY <3>2, CliAssumption DEF WaiterIsServed, Served
      <4>2. \A p \in Inputs \ {i} : stdout'[p] = stdout[p] /\ waiter'[p] = waiter[p]
        BY <2>7 DEF Reap
      <4>3. proc[i] # "running" /\ waiter'[i] \in {"sending", "ended"}
            /\ (proc[i] = "failed" => waiter'[i] = "sending")
        BY <2>7 DEF Reap
      <4>. QED
        BY <2>7, <4>1, <4>2, <4>3 DEF Reap, channels, Served
    <3>. QED
      BY <2>7, <3>1, <3>2 DEF Reap, WaiterIsServed
  <2>8. CASE SendError(i)
    <3>1. Attended'
      BY <2>8 DEF SendError, shared, children, Attended
    <3>2. ASSUME NEW j \in Inputs, pc[j] = "select" PROVE Served(j, wrote[j])'
      <4>1. wrote[j] \in Inputs /\ Served(j, wrote[j])
        BY <3>2, CliAssumption DEF WaiterIsServed, Served
      <4>. QED
        BY <2>8, <4>1, CliAssumption DEF SendError, children, Served
    <3>. QED
      BY <2>8, <3>1, <3>2 DEF SendError, WaiterIsServed
  <2>. QED
    BY <1>2, <2>1, <2>2, <2>3, <2>4, <2>5, <2>6, <2>7, <2>8
       DEF Submit, Goroutines
<1>. QED
  BY <1>1, <1>2 DEF Next

\* Serial Invokes: whatever became of the Invokes before, one that waits has its
\* line, or the failure of its child, on the way to it, and the goroutines that
\* bring them have been started.
THEOREM NoneWaitsInVain == ASSUME Serial PROVE Spec => []WaiterIsServed
<1>1. Init => ServedInv
  BY SerialInit, CliAssumption DEF Init, ServedInv, Attended, WaiterIsServed
<1>2. ServedInv /\ [Next]_vars => ServedInv'
  BY SerialStep, ServedStep DEF ServedInv
<1>3. ServedInv => WaiterIsServed
  BY DEF ServedInv
<1>. QED
  BY <1>1, <1>2, <1>3, PTL DEF Spec

-----------------------------------------------------------------------------
(* The service implements FnContract.                                      *)

\* The caller sees that its Invoke begins and that it returns, nothing else.
LEMMA ContractStep ==
  ASSUME Serial, CleanInv, [Next]_vars
  PROVE  [Contract!Next]_contractStatus
<1> DEFINE Step(i) == \/ Start(i) \/ Submit(i) \/ Await(i) \/ ContextDone(i)
                      \/ Kill(i) \/ ChildReplies(i) \/ ChildEnds(i)
                      \/ Goroutines(i)
<1>1. CleanInv'
  BY CleanStep
<1>2. TypeOK
  BY DEF CleanInv, SerialInv
<1>OtherReplyAfter. \A j \in Inputs : result'[j].kind = "reply" /\ ~Own(j)' => Failed'
  BY <1>1 DEF CleanInv, Clean, OwnReplies, Own
<1>OtherReply. \A j \in Inputs : result[j].kind = "reply" /\ ~Own(j) => Failed
  BY DEF CleanInv, Clean, OwnReplies, Own
<1> USE <1>2 DEF TypeOK, Locations
<1>3. CASE UNCHANGED vars
  BY <1>3 DEF vars, contractStatus, ContractStatus, Own, Active, Failed
<1>4. ASSUME NEW i \in Inputs, Step(i)
      PROVE  [Contract!Next]_contractStatus
  <2>1. Failed => Failed'
    BY <1>4, FailedStays DEF CleanInv
  <2>2. ASSUME NEW j \in Inputs, pc'[j] = pc[j], result'[j] = result[j]
        PROVE  ContractStatus(j)' = ContractStatus(j)
    <3>1. Own(j)' = Own(j) /\ Active(j)' = Active(j)
      BY <2>2 DEF Own, Active
    <3>. QED
      BY <2>1, <2>2, <3>1, <1>OtherReplyAfter, <1>OtherReply DEF ContractStatus
  <2>3. ASSUME \A j \in Inputs : pc'[j] = pc[j] /\ result'[j] = result[j]
        PROVE  UNCHANGED contractStatus
    BY <2>2, <2>3 DEF contractStatus
  <2>4. ASSUME NEW s, ContractStatus(i)' = s,
               \A j \in Inputs \ {i} : pc'[j] = pc[j] /\ result'[j] = result[j]
        PROVE  contractStatus' = [contractStatus EXCEPT ![i] = s]
    BY <2>2, <2>4 DEF contractStatus
  <2>5. CASE Begin(i)
    <3>1. ContractStatus(i) = "idle" /\ ContractStatus(i)' = "running"
      BY <2>5 DEF Begin, Goto, ContractStatus, Active
    <3>2. \A j \in Inputs \ {i} : pc'[j] = pc[j] /\ result'[j] = result[j]
      BY <2>5 DEF Begin, Goto
    <3>. QED
      BY <2>4, <3>1, <3>2 DEF Contract!Next, Contract!Call, contractStatus
  <2>6. CASE ReceiveOutput(i)
    <3>1. ContractStatus(i) = "running"
      BY <2>6 DEF ReceiveOutput, ContractStatus, Active
    <3>2. pc'[i] = "done" /\ result'[i].kind = "reply"
      BY <2>6 DEF ReceiveOutput, Return, Goto, Result
    <3>3. ContractStatus(i)' \in {"replied", "failed"}
      BY <3>2, <1>OtherReplyAfter DEF ContractStatus, Active
    <3>4. \A j \in Inputs \ {i} : pc'[j] = pc[j] /\ result'[j] = result[j]
      BY <2>6 DEF ReceiveOutput, Return, Goto
    <3>. QED
      BY <2>4, <3>1, <3>3, <3>4
         DEF Contract!Next, Contract!Reply, Contract!Fail, contractStatus
  <2>7. CASE StartFails(i) \/ WriteFails(i) \/ KillFails(i)
    <3>1. ContractStatus(i) = "running"
      BY <2>7 DEF StartFails, WriteFails, KillFails, ContractStatus, Active
    <3>2. pc'[i] = "done" /\ result'[i].kind # "reply"
      BY <2>7 DEF StartFails, WriteFails, KillFails, Return, Goto, Result
    <3>3. ContractStatus(i)' = "failed"
      BY <3>2 DEF ContractStatus, Own, Active
    <3>4. \A j \in Inputs \ {i} : pc'[j] = pc[j] /\ result'[j] = result[j]
      BY <2>7 DEF StartFails, WriteFails, KillFails, Return, Goto
    <3>. QED
      BY <2>4, <3>1, <3>3, <3>4 DEF Contract!Next, Contract!Fail, contractStatus
  <2>8. CASE KillSignal(i)
    <3>1. ContractStatus(i) = "running"
      BY <2>8 DEF KillSignal, ContractStatus, Active
    <3>2. pc'[i] = "done" /\ result'[i].kind # "reply"
      BY <2>8 DEF KillSignal, Goto, CleanInv, SerialInv, Waiting
    <3>3. ContractStatus(i)' = "failed"
      BY <3>2 DEF ContractStatus, Own, Active
    <3>4. \A j \in Inputs \ {i} : pc'[j] = pc[j] /\ result'[j] = result[j]
      BY <2>8 DEF KillSignal, Goto
    <3>. QED
      BY <2>4, <3>1, <3>3, <3>4 DEF Contract!Next, Contract!Fail, contractStatus
  <2>9. CASE \/ Spawn(i) \/ SetStdin(i) \/ SetAlive(i) \/ Write(i)
             \/ ReceiveError(i) \/ ContextDone(i) \/ KillMark(i)
    <3>1. ContractStatus(i) = "running" /\ ContractStatus(i)' = "running"
      BY <2>9 DEF Spawn, SetStdin, SetAlive, Write, ReceiveError, ContextDone,
                  KillMark, Goto, ContractStatus, Active
    <3>2. \A j \in Inputs \ {i} : pc'[j] = pc[j] /\ result'[j] = result[j]
      BY <2>9 DEF Spawn, SetStdin, SetAlive, Write, ReceiveError, ContextDone,
                  KillMark, Goto
    <3>3. \A j \in Inputs : ContractStatus(j)' = ContractStatus(j)
      BY <2>2, <3>1, <3>2
    <3>. QED
      BY <3>3 DEF contractStatus
  <2>10. CASE ChildReplies(i) \/ ChildEnds(i) \/ Scan(i) \/ Reap(i) \/ SendError(i)
    BY <2>3, <2>10 DEF ChildReplies, ChildEnds, Scan, Reap, SendError
  <2>. QED
    BY <1>4, <2>5, <2>6, <2>7, <2>8, <2>9, <2>10
       DEF Start, Submit, Await, Kill, Goroutines
<1>. QED
  BY <1>3, <1>4 DEF Next

\* Invokes one after the other: every Invoke returns once, with its own reply
\* or an error; whatever fails, the answer to another input is given only after
\* an Invoke has failed.
THEOREM Refinement == ASSUME Serial PROVE Spec => ImplementsContract
<1>1. Init => Contract!Init
  <2> SUFFICES ASSUME Init PROVE \A i \in Inputs : ContractStatus(i) = "idle"
    BY DEF Contract!Init, contractStatus
  <2>. QED
    BY DEF Init, ContractStatus, Active
<1>2. CleanInv /\ [Next]_vars => [Contract!Next]_contractStatus
  BY ContractStep
<1>. QED
  BY CleanIsInvariant, <1>1, <1>2, PTL
     DEF Spec, ImplementsContract, Contract!Spec
=============================================================================
