------------------------ MODULE TapMiddlewareProofs ------------------------
(***************************************************************************)
(* Proofs about TapMiddleware, for any number of Invokes, any lines, pipe  *)
(* capacity and faults: there is one tapped process at a time, and it gets *)
(* the lines of an Invoke together, in their order, and all of them.       *)
(***************************************************************************)
EXTENDS TapMiddleware, SequenceTheorems, TLAPS

LEMMA NoneType == None \notin Inputs
  BY TapAssumption

-----------------------------------------------------------------------------
(* The type invariant.                                                     *)

Message == [kind : Lines, of : Inputs]

LEMMA TapType ==
  ASSUME pipe \in [Inputs -> Seq(Message)],
         NEW i \in Inputs, NEW k \in {"input", "output", "error"}, Tap(k, i)
  PROVE  pipe' \in [Inputs -> Seq(Message)]
<1>1. CASE UNCHANGED pipe
  BY <1>1
<1>2. ASSUME k \in Lines,
             pipe' = [pipe EXCEPT ![stdin] = Append(pipe[stdin], Line(k, i))]
      PROVE  pipe' \in [Inputs -> Seq(Message)]
  <2>1. Line(k, i) \in Message
    BY <1>2 DEF Line, Message
  <2>2. stdin \in Inputs => Append(pipe[stdin], Line(k, i)) \in Seq(Message)
    BY <2>1
  <2>. QED
    BY <1>2, <2>2
<1>. QED
  BY <1>1, <1>2 DEF Tap

LEMMA ReadType ==
  ASSUME NEW s \in Seq(Message), s # <<>>
  PROVE  Head(s) \in Message /\ Tail(s) \in Seq(Message)
  OBVIOUS

LEMMA AppendType ==
  ASSUME NEW s \in Seq(Message), NEW m \in Message
  PROVE  Append(s, m) \in Seq(Message)
  OBVIOUS

LEMMA EmptyType == <<>> \in Seq(Message)
  OBVIOUS

LEMMA StarterType ==
  ASSUME NEW i \in Inputs
  PROVE  /\ Starter(i) \in [kind : {"none", "start", "reap"}, of : Inputs \cup {None}]
         /\ Reaper(i) \in [kind : {"none", "start", "reap"}, of : Inputs \cup {None}]
         /\ NoWriter \in [kind : {"none", "start", "reap"}, of : Inputs \cup {None}]
  BY DEF Starter, Reaper, NoWriter

LEMMA TypeStep ==
  ASSUME TypeOK, [Next]_vars
  PROVE  TypeOK'
<1> USE NoneType DEF TypeOK, locker, processes, Goto, Locations
<1>1. CASE UNCHANGED vars
  BY <1>1 DEF vars
<1>2. ASSUME NEW i \in Inputs, Start(i)
      PROVE  TypeOK'
  <2>1. CASE CheckAlive(i)
    BY <2>1 DEF CheckAlive
  <2>2. CASE Lock(i)
    BY <2>2, StarterType DEF Lock, AskToWrite
  <2>3. CASE AlreadyStarted(i)
    BY <2>3, StarterType DEF AlreadyStarted
  <2>4. CASE StartProcess(i)
    BY <2>4, StarterType DEF StartProcess
  <2>5. CASE StartFails(i)
    BY <2>5, StarterType DEF StartFails
  <2>. QED
    BY <1>2, <2>1, <2>2, <2>3, <2>4, <2>5 DEF Start
<1>3. ASSUME NEW i \in Inputs, Invoke(i)
      PROVE  TypeOK'
  <2>1. CASE RLock(i)
    BY <2>1 DEF RLock
  <2>2. CASE TapInput(i)
    BY <2>2, TapType DEF TapInput, Message
  <2>3. CASE InvokeFn(i)
    <3>1. PICK r \in {"output", "error"} : result' = [result EXCEPT ![i] = r]
      BY <2>3 DEF InvokeFn
    <3>. QED
      BY <2>3, <3>1 DEF InvokeFn
  <2>4. CASE TapOutput(i)
    BY <2>4, TapType DEF TapOutput, Message
  <2>5. CASE TapError(i)
    BY <2>5, TapType DEF TapError, Message
  <2>6. CASE RUnlock(i)
    BY <2>6 DEF RUnlock
  <2>. QED
    BY <1>3, <2>1, <2>2, <2>3, <2>4, <2>5, <2>6 DEF Invoke
<1>4. ASSUME NEW p \in Inputs, ProcessReads(p)
      PROVE  TypeOK'
  <2>1. Head(pipe[p]) \in Message /\ Tail(pipe[p]) \in Seq(Message)
    BY <1>4, ReadType DEF ProcessReads, Message
  <2>2. Append(received[p], Head(pipe[p])) \in Seq(Message)
    BY <2>1, AppendType DEF Message
  <2>. QED
    BY <1>4, <2>1, <2>2 DEF ProcessReads, Message
<1>5. ASSUME NEW p \in Inputs, ProcessEnds(p)
      PROVE  TypeOK'
  BY <1>5, EmptyType DEF ProcessEnds, Message
<1>6. ASSUME NEW p \in Inputs, ReaperLock(p)
      PROVE  TypeOK'
  BY <1>6, StarterType DEF ReaperLock, AskToWrite
<1>7. ASSUME NEW p \in Inputs, Reap(p)
      PROVE  TypeOK'
  BY <1>7, StarterType DEF Reap
<1>. QED
  BY <1>1, <1>2, <1>3, <1>4, <1>5, <1>6, <1>7 DEF Next

\* The variables keep their types, for any inputs, lines, pipes and faults.
THEOREM Typing == Spec => []TypeOK
<1>1. Init => TypeOK
  <2>1. [p \in Inputs |-> <<>>] \in [Inputs -> Seq([kind : Lines, of : Inputs])]
    BY EmptyType DEF Message
  <2>2. [i \in Inputs |-> "new"] \in [Inputs -> Locations]
    BY DEF Locations
  <2>3. Init => writer \in [kind : {"none", "start", "reap"}, of : Inputs \cup {None}]
    BY DEF Init, NoWriter
  <2>4. Init => /\ alive \in BOOLEAN /\ stdin \in Inputs \cup {None}
                /\ readers \in SUBSET Inputs
    BY DEF Init
  <2>5. Init => /\ result \in [Inputs -> {"none", "startError", "output", "error"}]
                /\ proc \in [Inputs -> {"none", "running", "ended"}]
                /\ waiter \in [Inputs -> {"none", "waiting", "locking", "gone"}]
    BY DEF Init
  <2>. QED
    BY <2>1, <2>2, <2>3, <2>4, <2>5, Zenon DEF Init, TypeOK
<1>. QED
  BY <1>1, TypeStep, PTL DEF Spec

-----------------------------------------------------------------------------
(* One process.                                                            *)

LEMMA OneProcessStep ==
  ASSUME TypeOK, OneProcess, [Next]_vars
  PROVE  OneProcess'
<1> USE NoneType DEF TypeOK, OneProcess, locker, processes
<1>1. CASE UNCHANGED vars
  BY <1>1 DEF vars
<1>2. ASSUME NEW i \in Inputs, StartProcess(i)
      PROVE  OneProcess'
  BY <1>2 DEF StartProcess
<1>3. ASSUME NEW i \in Inputs,
             CheckAlive(i) \/ Lock(i) \/ AlreadyStarted(i) \/ StartFails(i)
      PROVE  OneProcess'
  BY <1>3 DEF CheckAlive, Lock, AlreadyStarted, StartFails
<1>4. ASSUME NEW i \in Inputs, Invoke(i)
      PROVE  OneProcess'
  BY <1>4 DEF Invoke, RLock, TapInput, InvokeFn, TapOutput, TapError, RUnlock
<1>5. ASSUME NEW p \in Inputs, ProcessReads(p) \/ ProcessEnds(p)
      PROVE  OneProcess'
  BY <1>5 DEF ProcessReads, ProcessEnds
<1>6. ASSUME NEW p \in Inputs, ReaperLock(p)
      PROVE  OneProcess'
  BY <1>6 DEF ReaperLock
<1>7. ASSUME NEW p \in Inputs, Reap(p)
      PROVE  OneProcess'
  BY <1>7 DEF Reap
<1>. QED
  BY <1>1, <1>2, <1>3, <1>4, <1>5, <1>6, <1>7 DEF Next, Start

\* However many Invokes find no process and contend for the lock, and however
\* often processes end: there is one at a time, and alive is true of it.
THEOREM ProcessIsAlone == Spec => []OneProcess
<1>1. Init => OneProcess
  BY DEF Init, OneProcess
<1>. QED
  BY <1>1, OneProcessStep, Typing, PTL DEF Spec

-----------------------------------------------------------------------------
(* The lines.  An Invoke that holds the lock for reading keeps the process  *)
(* in its place: it writes to no other one, and as long as that one runs,   *)
(* it gets a line for each step of the Invoke.                              *)

Reading == {"input", "invoke", "output", "error", "unlock"}

\* The kinds of lines the Invoke of i has written by now.
Tapped(i) ==
  {k \in Lines :
     \/ k = "input" /\ pc[i] \in {"invoke", "output", "error", "unlock", "done"}
     \/ k = "output" /\ pc[i] \in {"error", "unlock", "done"}
     \/ k = "error" /\ pc[i] \in {"unlock", "done"} /\ result[i] = "error"}

LockIsHeld ==
  /\ \A i \in Inputs : i \in readers <=> pc[i] \in Reading
  /\ \A i \in Inputs : pc[i] = "start" <=> writer = Starter(i)
  /\ alive => stdin \in Inputs
  /\ \A i \in Inputs : pc[i] \in Reading \cup {"rlock"} => stdin \in Inputs
  /\ \A i \in Inputs : pc[i] \in {"new", "lock", "start"} => proc[i] = "none"
  /\ \A p \in Inputs : proc[p] = "none" => Got(p) = <<>> /\ stdin # p
  /\ \A i \in Inputs : pc[i] = "error" => result[i] = "error"

\* About the lines of the Invoke of i that p got.
LinesAreGood(i, p) ==
  /\ LinesOf(i, p) # {} =>
       /\ pc[i] \in Reading => p = stdin
       /\ pc[i] \in Reading \cup {"done"}
  /\ \A n \in LinesOf(i, p) : Got(p)[n].kind \in Tapped(i)
  /\ \A m, n \in LinesOf(i, p) : m < n => Before(Got(p)[m].kind, Got(p)[n].kind)
  /\ \/ proc[p] # "running"
     \/ pc[i] = "done" /\ LinesOf(i, p) = {}
     \/ pc[i] \notin Reading \cup {"done"}
     \/ pc[i] \in Reading /\ p # stdin
     \/ \A k \in Tapped(i) : \E n \in LinesOf(i, p) : Got(p)[n].kind = k

LinesInv ==
  /\ LockIsHeld
  /\ LinesStayTogether
  /\ \A i, p \in Inputs : LinesAreGood(i, p)

LEMMA AppendAfter ==
  ASSUME NEW s \in Seq(Message), NEW t \in Seq(Message), NEW m \in Message
  PROVE  s \o Append(t, m) = Append(s \o t, m)
<1>1. s \o t \in Seq(Message) /\ <<m>> \in Seq(Message)
  BY ConcatProperties
<1>2. s \o (t \o <<m>>) = (s \o t) \o <<m>>
  BY <1>1, ConcatAssociative
<1>. QED
  BY <1>1, <1>2, AppendIsConcat

LEMMA ConcatExtends ==
  ASSUME NEW s \in Seq(Message), NEW t \in Seq(Message)
  PROVE  /\ Len(s) \in 0 .. Len(s \o t)
         /\ \A n \in 1 .. Len(s) : (s \o t)[n] = s[n]
<1>1. Len(s) \in Nat /\ Len(t) \in Nat
  BY LenProperties
<1>2. /\ Len(s \o t) = Len(s) + Len(t)
      /\ \A n \in 1 .. Len(s) + Len(t) :
           (s \o t)[n] = IF n <= Len(s) THEN s[n] ELSE t[n - Len(s)]
  BY ConcatProperties
<1>. QED
  BY <1>1, <1>2

LEMMA HeadMoves ==
  ASSUME NEW s \in Seq(Message), NEW t \in Seq(Message), t # <<>>
  PROVE  Append(s, Head(t)) \o Tail(t) = s \o t
<1> DEFINE r == Append(s, Head(t))
<1>1. Head(t) \in Message /\ Head(t) = t[1] /\ Tail(t) \in Seq(Message)
  BY HeadTailProperties
<1>2. r \in Seq(Message) /\ Len(r) = Len(s) + 1
      /\ (\A n \in 1 .. Len(s) : r[n] = s[n]) /\ r[Len(s) + 1] = t[1]
  BY <1>1, AppendProperties
<1>3. Len(Tail(t)) = Len(t) - 1 /\ \A n \in 1 .. Len(t) - 1 : Tail(t)[n] = t[n + 1]
  BY HeadTailProperties
<1>4. Len(s) \in Nat /\ Len(t) \in Nat \ {0}
  BY LenProperties, EmptySeq
<1> HIDE DEF r
<1>5. /\ r \o Tail(t) \in Seq(Message)
      /\ Len(r \o Tail(t)) = Len(s) + Len(t)
      /\ \A n \in 1 .. Len(s) + Len(t) :
           (r \o Tail(t))[n] = IF n <= Len(s) + 1 THEN r[n] ELSE Tail(t)[n - (Len(s) + 1)]
  <2>1. /\ r \o Tail(t) \in Seq(Message)
        /\ Len(r \o Tail(t)) = Len(r) + Len(Tail(t))
        /\ \A n \in 1 .. Len(r) + Len(Tail(t)) :
             (r \o Tail(t))[n] = IF n <= Len(r) THEN r[n] ELSE Tail(t)[n - Len(r)]
    BY <1>1, <1>2, ConcatProperties
  <2>2. Len(r) = Len(s) + 1 /\ Len(Tail(t)) = Len(t) - 1
    BY <1>2, <1>3
  <2>3. Len(r) + Len(Tail(t)) = Len(s) + Len(t)
    BY <1>4, <2>2
  <2>. QED
    BY <2>1, <2>2, <2>3
<1>6. /\ s \o t \in Seq(Message)
      /\ Len(s \o t) = Len(s) + Len(t)
      /\ \A n \in 1 .. Len(s) + Len(t) :
           (s \o t)[n] = IF n <= Len(s) THEN s[n] ELSE t[n - Len(s)]
  BY ConcatProperties
<1>7. ASSUME NEW n \in 1 .. Len(s) + Len(t)
      PROVE  (r \o Tail(t))[n] = (s \o t)[n]
  <2>1. CASE n <= Len(s)
    BY <1>2, <1>4, <1>5, <1>6, <2>1
  <2>2. CASE n = Len(s) + 1
    BY <1>2, <1>4, <1>5, <1>6, <2>2
  <2>3. CASE n > Len(s) + 1
    BY <1>3, <1>4, <1>5, <1>6, <2>3
  <2>4. n <= Len(s) \/ n = Len(s) + 1 \/ n > Len(s) + 1
    BY <1>4
  <2>. QED
    BY <2>1, <2>2, <2>3, <2>4, Zenon
<1>. QED
  BY <1>5, <1>6, <1>7, SeqEqual DEF r

\* What the steps do to the lines of the processes.
LEMMA TapAppends ==
  ASSUME TypeOK, NEW i \in Inputs, NEW k \in {"input", "output", "error"},
         stdin \in Inputs, Tap(k, i), UNCHANGED received
  PROVE  /\ \A p \in Inputs \ {stdin} : Got(p)' = Got(p)
         /\ \/ /\ k \notin Lines \/ proc[stdin] # "running"
               /\ received'[stdin] \o pipe'[stdin] = Got(stdin)
            \/ /\ k \in Lines /\ proc[stdin] = "running"
               /\ received'[stdin] \o pipe'[stdin] = Append(Got(stdin), Line(k, i))
<1>1. CASE (k \notin Lines \/ proc[stdin] # "running") /\ UNCHANGED pipe
  BY <1>1 DEF Got
<1>2. ASSUME k \in Lines, proc[stdin] = "running",
             pipe' = [pipe EXCEPT ![stdin] = Append(pipe[stdin], Line(k, i))]
      PROVE  /\ \A p \in Inputs \ {stdin} : Got(p)' = Got(p)
             /\ received'[stdin] \o pipe'[stdin] = Append(Got(stdin), Line(k, i))
  <2>1. Line(k, i) \in Message
    BY <1>2 DEF Line, Message
  <2>2. received[stdin] \in Seq(Message) /\ pipe[stdin] \in Seq(Message)
    BY DEF TypeOK, Message
  <2>3. received[stdin] \o Append(pipe[stdin], Line(k, i))
          = Append(received[stdin] \o pipe[stdin], Line(k, i))
    BY <2>1, <2>2, AppendAfter
  <2>. QED
    BY <1>2, <2>3 DEF Got, TypeOK
<1>. QED
  BY <1>1, <1>2 DEF Tap

LEMMA ReadKeeps ==
  ASSUME TypeOK, NEW p \in Inputs, ProcessReads(p)
  PROVE  \A q \in Inputs : Got(q)' = Got(q)
<1>1. received[p] \in Seq(Message) /\ pipe[p] \in Seq(Message) /\ pipe[p] # <<>>
  BY DEF TypeOK, Message, ProcessReads
<1>2. Append(received[p], Head(pipe[p])) \o Tail(pipe[p]) = received[p] \o pipe[p]
  BY <1>1, HeadMoves
<1>. QED
  BY <1>2 DEF TypeOK, ProcessReads, Got

LEMMA EndCuts ==
  ASSUME TypeOK, NEW p \in Inputs, ProcessEnds(p)
  PROVE  /\ \A q \in Inputs \ {p} : Got(q)' = Got(q)
         /\ Len(Got(p)') \in 0 .. Len(Got(p))
         /\ \A n \in 1 .. Len(Got(p)') : Got(p)'[n] = Got(p)[n]
<1>1. received[p] \in Seq(Message) /\ pipe[p] \in Seq(Message)
  BY DEF TypeOK, Message
<1>2. received[p] \o <<>> = received[p]
  BY <1>1, ConcatEmptySeq
<1>3. Got(p)' = received[p]
  BY <1>2 DEF TypeOK, ProcessEnds, Got
<1>4. /\ Len(received[p]) \in 0 .. Len(Got(p))
      /\ \A n \in 1 .. Len(received[p]) : Got(p)[n] = received[p][n]
  BY <1>1, ConcatExtends DEF Got
<1>. QED
  BY <1>3, <1>4 DEF TypeOK, ProcessEnds, Got

LEMMA GotType ==
  ASSUME TypeOK, NEW p \in Inputs
  PROVE  Got(p) \in Seq(Message)
<1>1. received[p] \in Seq(Message) /\ pipe[p] \in Seq(Message)
  BY DEF TypeOK, Message
<1>. QED
  BY <1>1, ConcatProperties DEF Got

LEMMA Writers ==
  ASSUME NEW i \in Inputs, NEW j \in Inputs
  PROVE  /\ Starter(i) = Starter(j) => i = j
         /\ Starter(i) # Reaper(j)
         /\ Starter(i) # NoWriter
  BY DEF Starter, Reaper, NoWriter

LEMMA TapKeeps ==
  ASSUME TypeOK, LockIsHeld, NEW i \in Inputs, pc[i] \in Reading,
         NEW k \in {"input", "output", "error"}, Tap(k, i),
         UNCHANGED <<received, stdin>>
  PROVE  \A p \in Inputs : proc[p] = "none" => Got(p)' = Got(p)
<1>1. stdin \in Inputs
  BY DEF LockIsHeld
<1>. QED
  BY <1>1, TapAppends DEF Got

LEMMA LockStep ==
  ASSUME TypeOK, LockIsHeld, [Next]_vars
  PROVE  LockIsHeld'
<1>0. ASSUME NEW i \in Inputs, pc[i] \in Reading,
             NEW k \in {"input", "output", "error"}, Tap(k, i),
             received' = received, stdin' = stdin
      PROVE  \A p \in Inputs : proc[p] = "none" => Got(p)' = Got(p)
  BY <1>0, TapKeeps
<1> USE NoneType, Writers DEF TypeOK, LockIsHeld, Reading, locker, processes, Goto
<1>1. CASE UNCHANGED vars
  BY <1>1 DEF vars, Got
<1>2. ASSUME NEW i \in Inputs, StartProcess(i)
      PROVE  LockIsHeld'
  BY <1>2 DEF StartProcess, MayWrite, Got
<1>3. ASSUME NEW i \in Inputs,
             CheckAlive(i) \/ Lock(i) \/ AlreadyStarted(i) \/ StartFails(i)
      PROVE  LockIsHeld'
  BY <1>3 DEF CheckAlive, Lock, AlreadyStarted, StartFails, AskToWrite, MayWrite, Got
<1>4. ASSUME NEW i \in Inputs, Invoke(i)
      PROVE  LockIsHeld'
  <2>1. CASE RLock(i)
    BY <2>1 DEF RLock, Got
  <2>2. CASE InvokeFn(i)
    <3>1. /\ pc[i] = "invoke" /\ pc' = [pc EXCEPT ![i] = "output"]
          /\ \A j \in Inputs \ {i} : result'[j] = result[j]
      BY <2>2 DEF InvokeFn
    <3>2. UNCHANGED <<alive, stdin, readers, writer, proc, pipe, received>>
      BY <2>2 DEF InvokeFn
    <3>. QED
      BY <3>1, <3>2 DEF Got
  <2>3. CASE RUnlock(i)
    BY <2>3 DEF RUnlock, Got
  <2>4. ASSUME NEW k \in {"input", "output", "error"}, NEW l \in Reading,
               pc[i] \in {"input", "output", "error"}, Tap(k, i), Goto(i, l),
               l = "error" => result[i] = "error",
               UNCHANGED <<alive, stdin, locker, result, proc, received, waiter>>
        PROVE  LockIsHeld'
    <3>2. \A p \in Inputs : proc[p] = "none" => Got(p)' = Got(p)
      <4>1. pc[i] \in Reading /\ received' = received /\ stdin' = stdin
        BY <2>4
      <4>. QED
        BY <1>0, <2>4, <4>1
    <3>. QED
      BY <2>4, <3>2
  <2>5. CASE TapInput(i)
    BY <2>4, <2>5 DEF TapInput
  <2>6. CASE TapOutput(i)
    BY <2>4, <2>6 DEF TapOutput
  <2>7. CASE TapError(i)
    BY <2>4, <2>7 DEF TapError
  <2>. QED
    BY <1>4, <2>1, <2>2, <2>3, <2>5, <2>6, <2>7 DEF Invoke
<1>5. ASSUME NEW p \in Inputs, ProcessReads(p)
      PROVE  LockIsHeld'
  <2>1. \A q \in Inputs : Got(q)' = Got(q)
    BY <1>5, ReadKeeps
  <2>. QED
    BY <1>5, <2>1 DEF ProcessReads
<1>6. ASSUME NEW p \in Inputs, ProcessEnds(p)
      PROVE  LockIsHeld'
  <2>1. \A q \in Inputs \ {p} : Got(q)' = Got(q)
    BY <1>6, EndCuts
  <2>. QED
    BY <1>6, <2>1 DEF ProcessEnds
<1>7. ASSUME NEW p \in Inputs, ReaperLock(p) \/ Reap(p)
      PROVE  LockIsHeld'
  BY <1>7 DEF ReaperLock, Reap, AskToWrite, MayWrite, Got
<1>. QED
  BY <1>1, <1>2, <1>3, <1>4, <1>5, <1>6, <1>7 DEF Next, Start

\* What is said of lines is said still when they and the Invoke do not change.
LEMMA SameIsGood ==
  ASSUME NEW i \in Inputs, NEW p \in Inputs, LinesAreGood(i, p),
         Got(p)' = Got(p), stdin' = stdin, pc'[i] = pc[i], result'[i] = result[i],
         proc[p] = proc'[p]
  PROVE  LinesAreGood(i, p)'
  BY DEF LinesAreGood, LinesOf, Tapped

LEMMA SameIsTogether ==
  ASSUME LinesStayTogether, \A p \in Inputs : Got(p)' = Got(p)
  PROVE  LinesStayTogether'
  BY DEF LinesStayTogether, LinesOf


\* A line that Tap writes comes after those that its Invoke has written.
LEMMA TapIsGood ==
  ASSUME TypeOK, LockIsHeld, LinesStayTogether,
         \A j, p \in Inputs : LinesAreGood(j, p),
         NEW i \in Inputs, NEW k \in {"input", "output", "error"}, Tap(k, i),
         pc[i] \in Reading, pc'[i] \in Reading,
         \A j \in Inputs \ {i} : pc'[j] = pc[j],
         UNCHANGED <<stdin, result, proc, received>>,
         \A l \in Tapped(i) : Before(l, k),
         Tapped(i)' = Tapped(i) \cup (Lines \cap {k})
  PROVE  LinesStayTogether' /\ \A j, p \in Inputs : LinesAreGood(j, p)'
<1>1. stdin \in Inputs
  BY DEF LockIsHeld
<1>2. CASE (k \notin Lines \/ proc[stdin] # "running") /\ \A p \in Inputs : Got(p)' = Got(p)
  <2>1. \A j, p \in Inputs : LinesOf(j, p)' = LinesOf(j, p)
    BY <1>2 DEF LinesOf
  <2>2. ASSUME NEW p \in Inputs
        PROVE  LinesAreGood(i, p)'
    BY <1>1, <1>2, <2>1 DEF LinesAreGood, Reading
  <2>3. ASSUME NEW j \in Inputs \ {i}, NEW p \in Inputs
        PROVE  LinesAreGood(j, p)'
    BY <1>2, SameIsGood
  <2>. QED
    BY <1>2, <2>2, <2>3, SameIsTogether
<1>3. ASSUME k \in Lines, proc[stdin] = "running",
             \A p \in Inputs \ {stdin} : Got(p)' = Got(p),
             received'[stdin] \o pipe'[stdin] = Append(Got(stdin), Line(k, i))
      PROVE  LinesStayTogether' /\ \A j, p \in Inputs : LinesAreGood(j, p)'
  <2> DEFINE g == Got(stdin)
             new == Len(g) + 1
             h == received'[stdin] \o pipe'[stdin]
  <2>1. /\ Len(h) = new /\ Len(g) \in Nat
        /\ \A n \in 1 .. Len(g) : h[n] = g[n]
        /\ h[new] = Line(k, i)
    <3>1. Line(k, i) \in Message /\ g \in Seq(Message)
      BY <1>1, <1>3, GotType DEF Line, Message
    <3>. QED
      BY <1>3, <3>1, AppendProperties, LenProperties
  <2>2. ASSUME NEW p \in Inputs, p = stdin
        PROVE  Got(p)' = h /\ Got(p) = g
    BY <2>2 DEF Got
  <2>3. /\ \A j \in Inputs \ {i} : \A p \in Inputs : LinesOf(j, p)' = LinesOf(j, p)
        /\ \A p \in Inputs \ {stdin} : LinesOf(i, p)' = LinesOf(i, p)
    <3>1. \A j \in Inputs : \A p \in Inputs \ {stdin} : LinesOf(j, p)' = LinesOf(j, p)
      BY <1>3 DEF LinesOf
    <3>2. ASSUME NEW j \in Inputs \ {i}, NEW p \in Inputs, p = stdin
          PROVE  LinesOf(j, p)' = LinesOf(j, p)
      <4>1. LinesOf(j, p)' = {n \in 1 .. Len(h) : h[n].of = j}
        BY <2>2, <3>2 DEF LinesOf
      <4>2. LinesOf(j, p) = {n \in 1 .. Len(g) : g[n].of = j}
        BY <2>2, <3>2 DEF LinesOf
      <4>. HIDE DEF g, h
      <4>. QED
        BY <2>1, <4>1, <4>2 DEF Line
    <3>. QED
      BY <3>1, <3>2
  <2>4. ASSUME NEW p \in Inputs, p = stdin
        PROVE  LinesOf(i, p)' = LinesOf(i, p) \cup {new}
    <3>1. LinesOf(i, p)' = {n \in 1 .. Len(h) : h[n].of = i}
      BY <2>2, <2>4 DEF LinesOf
    <3>2. LinesOf(i, p) = {n \in 1 .. Len(g) : g[n].of = i}
      BY <2>2, <2>4 DEF LinesOf
    <3>. HIDE DEF g, h
    <3>. QED
      BY <2>1, <3>1, <3>2 DEF Line
  <2>5. \A p \in Inputs : LinesOf(i, p) # {} => p = stdin
    BY DEF LinesAreGood
  <2>6. LinesStayTogether'
    BY <2>3, <2>5 DEF LinesStayTogether
  <2>7. ASSUME NEW j \in Inputs \ {i}, NEW p \in Inputs \ {stdin}
        PROVE  LinesAreGood(j, p)'
    BY <1>3, SameIsGood
  <2>8. ASSUME NEW p \in Inputs \ {stdin}
        PROVE  LinesAreGood(i, p)'
    BY <1>3, <2>3, <2>5 DEF LinesAreGood
  <2>9. ASSUME NEW j \in Inputs \ {i}, NEW p \in Inputs, p = stdin
        PROVE  LinesAreGood(j, p)'
    <3>1. \A n \in LinesOf(j, p) : Got(p)'[n] = Got(p)[n]
      BY <2>1, <2>2, <2>9 DEF LinesOf
    <3>2. LinesOf(j, p)' = LinesOf(j, p) /\ Tapped(j)' = Tapped(j)
      BY <2>3 DEF Tapped
    <3>. QED
      BY <3>1, <3>2 DEF LinesAreGood
  <2>10. ASSUME NEW p \in Inputs, p = stdin
         PROVE  LinesAreGood(i, p)'
    <3>1. /\ \A n \in LinesOf(i, p) : Got(p)'[n] = Got(p)[n] /\ n < new
          /\ Got(p)'[new].kind = k
      <4>1. \A n \in LinesOf(i, p) : n \in 1 .. Len(g)
        BY <2>2, <2>10 DEF LinesOf
      <4>2. Got(p)' = h /\ Got(p) = g
        BY <2>2, <2>10
      <4>. HIDE DEF g, h
      <4>. QED
        BY <2>1, <4>1, <4>2 DEF Line
    <3>2. LinesOf(i, p)' = LinesOf(i, p) \cup {new}
      BY <2>4, <2>10
    <3>3. LinesAreGood(i, p)
      OBVIOUS
    <3>4. \A n \in LinesOf(i, p)' : Got(p)'[n].kind \in Tapped(i)'
      BY <1>3, <3>1, <3>2, <3>3 DEF LinesAreGood
    <3>5. \A m, n \in LinesOf(i, p)' :
            m < n => Before(Got(p)'[m].kind, Got(p)'[n].kind)
      <4>1. ~(new < new) /\ \A n \in LinesOf(i, p) : ~(new < n)
        BY <2>1, <3>1, <2>2, <2>10 DEF LinesOf
      <4>2. \A n \in LinesOf(i, p) : Before(Got(p)[n].kind, k)
        BY <3>3 DEF LinesAreGood
      <4>. QED
        BY <3>1, <3>2, <3>3, <4>1, <4>2 DEF LinesAreGood
    <3>6. \A l \in Tapped(i)' : \E n \in LinesOf(i, p)' : Got(p)'[n].kind = l
      BY <1>3, <2>10, <3>1, <3>2, <3>3 DEF LinesAreGood, Reading
    <3>. QED
      BY <2>10, <3>4, <3>5, <3>6 DEF LinesAreGood
  <2>. QED
    BY <2>6, <2>7, <2>8, <2>9, <2>10
<1>4. received'[stdin] \o pipe'[stdin] = Got(stdin) /\ (\A p \in Inputs \ {stdin} : Got(p)' = Got(p))
        => \A p \in Inputs : Got(p)' = Got(p)
  BY DEF Got
<1>. QED
  BY <1>1, <1>2, <1>3, <1>4, TapAppends

LEMMA LinesStep ==
  ASSUME TypeOK, LinesInv, [Next]_vars
  PROVE  LinesStayTogether' /\ \A i, p \in Inputs : LinesAreGood(i, p)'
<1> DEFINE Goal == LinesStayTogether' /\ \A i, p \in Inputs : LinesAreGood(i, p)'
<1> USE DEF locker, processes
<1>1. CASE UNCHANGED vars
  <2>1. \A p \in Inputs : Got(p)' = Got(p)
    BY <1>1 DEF vars, Got
  <2>. QED
    BY <1>1, <2>1, SameIsGood, SameIsTogether DEF LinesInv, vars
\* Steps of the Invoke of i that leave the processes alone.
<1>2. ASSUME NEW i \in Inputs, \A p \in Inputs : Got(p)' = Got(p),
             stdin' = stdin, proc' = proc,
             \A j \in Inputs \ {i} : pc'[j] = pc[j] /\ result'[j] = result[j],
             \A p \in Inputs : LinesAreGood(i, p)'
      PROVE  Goal
  BY <1>2, SameIsGood, SameIsTogether DEF LinesInv
<1>3. ASSUME NEW i \in Inputs,
             CheckAlive(i) \/ Lock(i) \/ AlreadyStarted(i) \/ StartFails(i)
      PROVE  Goal
  <2>1. UNCHANGED <<stdin, proc, pipe, received>>
    BY <1>3 DEF CheckAlive, Lock, AlreadyStarted, StartFails
  <2>2. \A j, p \in Inputs : Got(p)' = Got(p) /\ LinesOf(j, p)' = LinesOf(j, p)
    BY <2>1 DEF Got, LinesOf
  <2>3. pc[i] \in {"new", "lock", "start"} /\ pc'[i] \in {"rlock", "lock", "start", "done"}
        /\ \A j \in Inputs \ {i} : pc'[j] = pc[j] /\ result'[j] = result[j]
    BY <1>3 DEF CheckAlive, Lock, AlreadyStarted, StartFails, Goto, TypeOK
  <2>4. ASSUME NEW p \in Inputs
        PROVE  LinesAreGood(i, p)'
    <3>1. LinesOf(i, p) = {}
      BY <2>3 DEF LinesInv, LinesAreGood, Reading
    <3>. QED
      BY <2>2, <2>3, <3>1 DEF LinesAreGood, Reading
  <2>. QED
    BY <1>2, <2>1, <2>2, <2>3, <2>4
<1>4. ASSUME NEW i \in Inputs, RLock(i) \/ InvokeFn(i) \/ RUnlock(i)
      PROVE  Goal
  <2>1. UNCHANGED <<stdin, proc, pipe, received>>
    BY <1>4 DEF RLock, InvokeFn, RUnlock
  <2>2. \A j, p \in Inputs : Got(p)' = Got(p) /\ LinesOf(j, p)' = LinesOf(j, p)
    BY <2>1 DEF Got, LinesOf
  <2>3. \A j \in Inputs \ {i} : pc'[j] = pc[j] /\ result'[j] = result[j]
    BY <1>4 DEF RLock, InvokeFn, RUnlock, Goto, TypeOK
  <2>4. \/ pc[i] = "rlock" /\ pc'[i] = "input"
        \/ pc[i] = "invoke" /\ pc'[i] = "output"
        \/ pc[i] = "unlock" /\ pc'[i] = "done" /\ result' = result
    BY <1>4 DEF RLock, InvokeFn, RUnlock, Goto, TypeOK
  <2>5. ASSUME NEW p \in Inputs
        PROVE  LinesAreGood(i, p)'
    <3>1. LinesAreGood(i, p) /\ Got(p)' = Got(p) /\ LinesOf(i, p)' = LinesOf(i, p)
      BY <2>2 DEF LinesInv
    <3>2. CASE pc[i] = "rlock"
      <4>1. LinesOf(i, p) = {} /\ Tapped(i)' = {}
        BY <2>4, <3>1, <3>2 DEF LinesAreGood, Reading, Tapped
      <4>. QED
        BY <2>4, <3>1, <3>2, <4>1 DEF LinesAreGood, Reading
    <3>3. CASE pc[i] # "rlock"
      <4>1. Tapped(i)' = Tapped(i) /\ pc[i] \in Reading /\ pc'[i] \in Reading \cup {"done"}
        BY <2>4, <3>3 DEF Reading, Tapped
      <4>. QED
        BY <2>1, <3>1, <4>1 DEF LinesAreGood, Reading
    <3>. QED
      BY <3>2, <3>3
  <2>. QED
    BY <1>2, <2>1, <2>2, <2>3, <2>5
<1>5. ASSUME NEW i \in Inputs, TapInput(i) \/ TapOutput(i) \/ TapError(i)
      PROVE  Goal
  <2>1. /\ UNCHANGED <<stdin, result, proc, received>>
        /\ \A j \in Inputs \ {i} : pc'[j] = pc[j]
    BY <1>5 DEF TapInput, TapOutput, TapError, Goto, TypeOK
  <2>2. PICK k \in {"input", "output", "error"} :
          /\ Tap(k, i)
          /\ \/ k = "input" /\ pc[i] = "input" /\ pc'[i] = "invoke"
             \/ k = "output" /\ pc[i] = "output" /\ result[i] = "error" /\ pc'[i] = "error"
             \/ k = "output" /\ pc[i] = "output" /\ result[i] # "error" /\ pc'[i] = "unlock"
             \/ k = "error" /\ pc[i] = "error" /\ pc'[i] = "unlock"
    BY <1>5 DEF TapInput, TapOutput, TapError, Goto, TypeOK
  <2>3. k = "error" => result[i] = "error"
    BY <2>2 DEF LinesInv, LockIsHeld
  <2>4. \A l \in Tapped(i) : Before(l, k)
    BY <2>2 DEF Tapped, Before
  <2>5. Tapped(i)' = Tapped(i) \cup (Lines \cap {k})
    BY <2>1, <2>2, <2>3 DEF Tapped
  <2>6. pc[i] \in Reading /\ pc'[i] \in Reading
    BY <2>2 DEF Reading
  <2>. QED
    BY <2>1, <2>2, <2>4, <2>5, <2>6, TapIsGood DEF LinesInv
<1>6. ASSUME NEW i \in Inputs, StartProcess(i)
      PROVE  Goal
  <2>1. UNCHANGED <<pipe, received, result>> /\ readers = {} /\ pc[i] = "start"
        /\ pc'[i] = "rlock"
        /\ \A j \in Inputs \ {i} : pc'[j] = pc[j] /\ proc'[j] = proc[j]
    BY <1>6 DEF StartProcess, MayWrite, Goto, TypeOK
  <2>2. \A j, p \in Inputs : Got(p)' = Got(p) /\ LinesOf(j, p)' = LinesOf(j, p)
    BY <2>1 DEF Got, LinesOf
  <2>3. \A j \in Inputs : pc[j] \notin Reading
    BY <2>1 DEF LinesInv, LockIsHeld
  <2>4. \A j \in Inputs : LinesOf(j, i) = {}
    <3>1. Got(i) = <<>>
      BY <2>1 DEF LinesInv, LockIsHeld
    <3>. QED
      BY <3>1 DEF LinesOf
  <2>5. ASSUME NEW j \in Inputs, NEW p \in Inputs
        PROVE  LinesAreGood(j, p)'
    <3>1. /\ LinesAreGood(j, p) /\ Got(p)' = Got(p) /\ LinesOf(j, p)' = LinesOf(j, p)
          /\ pc[j] \notin Reading
      BY <2>2, <2>3 DEF LinesInv
    <3>2. CASE j = i
      <4>1. LinesOf(j, p) = {}
        BY <2>1, <3>1, <3>2 DEF LinesAreGood, Reading
      <4>. QED
        BY <2>1, <3>1, <3>2, <4>1 DEF LinesAreGood, Reading
    <3>3. CASE j # i
      <4>1. Tapped(j)' = Tapped(j) /\ pc'[j] = pc[j]
        BY <2>1, <3>3 DEF Tapped
      <4>2. p = i \/ proc'[p] = proc[p]
        BY <2>1
      <4>. QED
        BY <2>4, <3>1, <4>1, <4>2 DEF LinesAreGood, Reading
    <3>. QED
      BY <3>2, <3>3
  <2>. QED
    BY <2>2, <2>5, SameIsTogether DEF LinesInv
<1>7. ASSUME NEW p \in Inputs, ProcessReads(p) \/ ReaperLock(p) \/ Reap(p)
      PROVE  Goal
  <2>1. UNCHANGED <<stdin, pc, result, proc>>
    BY <1>7 DEF ProcessReads, ReaperLock, Reap
  <2>2. \A q \in Inputs : Got(q)' = Got(q)
    BY <1>7, ReadKeeps DEF ReaperLock, Reap, Got
  <2>. QED
    BY <2>1, <2>2, SameIsGood, SameIsTogether DEF LinesInv
<1>8. ASSUME NEW p \in Inputs, ProcessEnds(p)
      PROVE  Goal
  <2>1. UNCHANGED <<stdin, pc, result>> /\ proc'[p] = "ended"
        /\ \A q \in Inputs \ {p} : proc'[q] = proc[q]
    BY <1>8 DEF ProcessEnds, TypeOK
  <2>2. \A q \in Inputs \ {p} : Got(q)' = Got(q)
    BY <1>8, EndCuts
  <2>3. /\ \A n \in 1 .. Len(Got(p)') : n \in 1 .. Len(Got(p)) /\ Got(p)'[n] = Got(p)[n]
    <3>1. Len(Got(p)) \in Nat
      BY GotType, LenProperties
    <3>. QED
      BY <1>8, <3>1, EndCuts
  <2>4. \A i \in Inputs : LinesOf(i, p)' \subseteq LinesOf(i, p)
    BY <2>3 DEF LinesOf
  <2>5. \A i \in Inputs : \A q \in Inputs \ {p} : LinesOf(i, q)' = LinesOf(i, q)
    BY <2>2 DEF LinesOf
  <2>6. LinesStayTogether'
    BY <2>4, <2>5 DEF LinesInv, LinesStayTogether
  <2>7. ASSUME NEW i \in Inputs
        PROVE  LinesAreGood(i, p)'
    <3>1. LinesAreGood(i, p) /\ Tapped(i)' = Tapped(i)
      BY <2>1 DEF LinesInv, Tapped
    <3>2. \A n \in LinesOf(i, p)' : n \in LinesOf(i, p) /\ Got(p)'[n] = Got(p)[n]
      BY <2>3, <2>4 DEF LinesOf
    <3>. QED
      BY <2>1, <3>1, <3>2 DEF LinesAreGood
  <2>8. \A i \in Inputs : \A q \in Inputs \ {p} : LinesAreGood(i, q)'
    BY <2>1, <2>2, SameIsGood DEF LinesInv
  <2>. QED
    BY <2>6, <2>7, <2>8
<1>. QED
  BY <1>1, <1>3, <1>4, <1>5, <1>6, <1>7, <1>8 DEF Next, Start, Invoke

\* Between its first line and its last an Invoke holds the lock, which keeps stdin
\* in place, and the lines it has written are where the pipe has them.
THEOREM LinesInvariant == Spec => []LinesInv
<1>1. ASSUME Init
      PROVE  LinesInv
  <2>1. \A p \in Inputs : Got(p) = <<>>
    BY <1>1, ConcatEmptySeq, EmptySeq DEF Init, Got
  <2>2. ASSUME NEW i \in Inputs, NEW p \in Inputs
        PROVE  LinesOf(i, p) = {}
    <3>1. Got(p) = <<>> /\ Len(<<>>) = 0
      BY <2>1
    <3>. QED
      BY <3>1 DEF LinesOf
  <2>3. LockIsHeld
    <3>1. NoWriter.kind = "none" /\ \A i \in Inputs : Starter(i).kind = "start"
      BY DEF NoWriter, Starter
    <3>. QED
      BY <1>1, <2>1, <3>1, NoneType DEF Init, LockIsHeld, Reading
  <2>4. LinesStayTogether /\ \A i, p \in Inputs : LinesAreGood(i, p)
    BY <1>1, <2>2 DEF LinesStayTogether, LinesAreGood, Init, Reading
  <2>. QED
    BY <2>3, <2>4 DEF LinesInv
<1>2. TypeOK /\ LinesInv /\ [Next]_vars => LinesInv'
  BY LockStep, LinesStep DEF LinesInv
<1>. QED
  BY <1>1, <1>2, Typing, PTL DEF Spec

\* Whatever happens to the processes while Invokes run: the lines of an Invoke
\* are all in one process.
THEOREM LinesAreTogether == Spec => []LinesStayTogether
<1>1. LinesInv => LinesStayTogether
  BY DEF LinesInv
<1>. QED
  BY <1>1, LinesInvariant, PTL

\* A process gets the lines of an Invoke in order, and all of them unless it
\* ends, however many Invokes write to it at a time and however full it is.
THEOREM TapCompleteness == Spec => []TapIsComplete
<1>1. ASSUME TypeOK, LinesInv
      PROVE  TapIsComplete
  <2>1. ASSUME NEW i \in Inputs, NEW p \in Inputs, pc[i] = "done",
               proc[p] = "running", LinesOf(i, p) # {}
        PROVE  Kinds(i, p) = Expected(i)
    <3>1. LinesAreGood(i, p) /\ Tapped(i) = Expected(i)
      BY <1>1, <2>1, TapAssumption DEF LinesInv, Tapped, Expected
    <3>. QED
      BY <2>1, <3>1 DEF LinesAreGood, Kinds, Reading
  <2>2. ASSUME NEW i \in Inputs, NEW p \in Inputs
        PROVE  \A m, n \in LinesOf(i, p) :
                 m < n => Before(Got(p)[m].kind, Got(p)[n].kind)
    BY <1>1 DEF LinesInv, LinesAreGood
  <2>. QED
    BY <2>1, <2>2 DEF TapIsComplete
<1>. QED
  BY <1>1, LinesInvariant, Typing, PTL

-----------------------------------------------------------------------------
(* The lock.                                                               *)

\* A writer is an Invoke that starts a process, or the goroutine of one.
WriterIsThere ==
  /\ \A p \in Inputs : waiter[p] = "locking" => writer = Reaper(p)
  /\ writer # NoWriter =>
       \E w \in Inputs : \/ writer = Starter(w) /\ pc[w] = "start"
                         \/ writer = Reaper(w) /\ waiter[w] = "locking"

LEMMA Reapers ==
  ASSUME NEW p \in Inputs, NEW q \in Inputs
  PROVE  Reaper(p) # NoWriter /\ (Reaper(p) = Reaper(q) => p = q)
  BY DEF Reaper, NoWriter

LEMMA WriterStep ==
  ASSUME TypeOK, WriterIsThere, [Next]_vars
  PROVE  WriterIsThere'
<1> USE Writers, Reapers DEF TypeOK, WriterIsThere, locker, processes, Goto
<1>1. CASE UNCHANGED vars
  BY <1>1 DEF vars
<1>2. ASSUME NEW i \in Inputs, CheckAlive(i)
      PROVE  WriterIsThere'
  BY <1>2 DEF CheckAlive
<1>3. ASSUME NEW i \in Inputs, Lock(i)
      PROVE  WriterIsThere'
  <2>1. \A p \in Inputs : waiter[p] # "locking"
    BY <1>3 DEF Lock, AskToWrite
  <2>2. writer' = Starter(i) /\ pc'[i] = "start" /\ waiter' = waiter
    BY <1>3 DEF Lock, AskToWrite
  <2>. QED
    BY <2>1, <2>2
<1>4. ASSUME NEW i \in Inputs, AlreadyStarted(i) \/ StartProcess(i) \/ StartFails(i)
      PROVE  WriterIsThere'
  BY <1>4 DEF AlreadyStarted, StartProcess, StartFails, MayWrite
<1>5. ASSUME NEW i \in Inputs, Invoke(i)
      PROVE  WriterIsThere'
  <2>1. pc[i] # "start" /\ (\A j \in Inputs \ {i} : pc'[j] = pc[j])
    BY <1>5 DEF Invoke, RLock, TapInput, InvokeFn, TapOutput, TapError, RUnlock
  <2>2. writer' = writer /\ waiter' = waiter
    BY <1>5 DEF Invoke, RLock, TapInput, InvokeFn, TapOutput, TapError, RUnlock
  <2>. QED
    BY <2>1, <2>2
<1>6. ASSUME NEW p \in Inputs, ProcessReads(p) \/ ProcessEnds(p)
      PROVE  WriterIsThere'
  BY <1>6 DEF ProcessReads, ProcessEnds
<1>7. ASSUME NEW p \in Inputs, ReaperLock(p)
      PROVE  WriterIsThere'
  <2>1. \A q \in Inputs : waiter[q] # "locking"
    BY <1>7 DEF ReaperLock, AskToWrite
  <2>2. writer' = Reaper(p) /\ waiter' = [waiter EXCEPT ![p] = "locking"]
    BY <1>7 DEF ReaperLock, AskToWrite
  <2>3. waiter'[p] = "locking" /\ \A q \in Inputs : waiter'[q] = "locking" => q = p
    BY <2>1, <2>2
  <2>. QED
    BY <2>2, <2>3
<1>8. ASSUME NEW p \in Inputs, Reap(p)
      PROVE  WriterIsThere'
  <2>1. \A q \in Inputs : waiter[q] = "locking" => q = p
    BY <1>8 DEF Reap, MayWrite
  <2>2. writer' = NoWriter /\ waiter' = [waiter EXCEPT ![p] = "gone"]
    BY <1>8 DEF Reap
  <2>3. \A q \in Inputs : waiter'[q] # "locking"
    BY <2>1, <2>2
  <2>. QED
    BY <2>2, <2>3
<1>. QED
  BY <1>1, <1>2, <1>3, <1>4, <1>5, <1>6, <1>7, <1>8 DEF Next, Start

\* The lock is nobody's who does not need it: its readers are between their lines,
\* and its writer, who bars all others, is about to start a process or to note the
\* end of one.  Invoke gives it back on every way out, errors of start() included.
THEOREM LockIsGivenBack ==
  Spec => [](/\ \A i \in readers : pc[i] \in Reading
             /\ writer # NoWriter =>
                  \E w \in Inputs : \/ writer = Starter(w) /\ pc[w] = "start"
                                    \/ writer = Reaper(w) /\ waiter[w] = "locking")
<1>1. Init => WriterIsThere
  BY DEF Init, WriterIsThere
<1>2. Spec => []WriterIsThere
  BY <1>1, WriterStep, Typing, PTL DEF Spec
<1>3. TypeOK /\ LinesInv /\ WriterIsThere =>
        /\ \A i \in readers : pc[i] \in Reading
        /\ writer # NoWriter =>
             \E w \in Inputs : \/ writer = Starter(w) /\ pc[w] = "start"
                               \/ writer = Reaper(w) /\ waiter[w] = "locking"
  BY DEF TypeOK, LinesInv, LockIsHeld, WriterIsThere
<1>. QED
  BY <1>2, <1>3, LinesInvariant, Typing, PTL
=============================================================================
