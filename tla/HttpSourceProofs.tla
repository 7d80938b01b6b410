-------------------------- MODULE HttpSourceProofs --------------------------
(***************************************************************************)
(* Proofs about HttpSource, for any number of requests and all faults: a   *)
(* Serve that returns in time leaves no handler, the error of the server   *)
(* has room in its channel, and clients are told the truth about f.        *)
(***************************************************************************)
EXTENDS HttpSource, TLAPS

-----------------------------------------------------------------------------
(* The type invariant.                                                     *)

LEMMA ResponseType ==
  ASSUME NEW o \in Outputs
  PROVE  /\ Response(o) \in {"none", "sent", "500"}
         /\ Response(o) = "sent" =>
              o = "map" \/ (TreatOutputAsBody /\ o # "error")
         /\ Response(o) = "500" => o # "map"
  BY HttpAssumption DEF Response, Outputs

LEMMA TypeStep ==
  ASSUME TypeOK, [Next]_vars
  PROVE  TypeOK'
<1> USE DEF TypeOK, serving, running, requests
<1>1. CASE UNCHANGED vars
  BY <1>1 DEF vars
<1>2. CASE Serve
  <2>1. CASE StartServer \/ BeginShutdown \/ EndShutdown
    BY <2>1 DEF StartServer, BeginShutdown, EndShutdown
  <2>2. CASE EndGracePeriod \/ ReceiveError
    BY <2>2 DEF EndGracePeriod, ReceiveError
  <2>. QED
    BY <1>2, <2>1, <2>2 DEF Serve
<1>3. CASE Server
  BY <1>3 DEF Server, Accept, ServerEnds, SendError
<1>4. CASE Cancel
  BY <1>4 DEF Cancel
<1>5. ASSUME NEW r \in Requests, Connect(r) \/ CloseIdle(r)
      PROVE  TypeOK'
  BY <1>5 DEF Connect, CloseIdle, Goto
<1>6. ASSUME NEW r \in Requests, Handler(r)
      PROVE  TypeOK'
  <2>1. CASE CreateInput(r) \/ CreateInputFails(r)
    BY <2>1 DEF CreateInput, CreateInputFails, Goto
  <2>2. CASE Respond(r)
    BY <2>2, ResponseType DEF Respond, Goto
  <2>3. CASE FnPanics(r)
    BY <2>3 DEF FnPanics, Goto
  <2>. QED
    BY <1>6, <2>1, <2>2, <2>3 DEF Handler
<1>. QED
  BY <1>1, <1>2, <1>3, <1>4, <1>5, <1>6 DEF Next

\* The variables keep their types, for any requests and faults.
THEOREM Typing == Spec => []TypeOK
<1>1. Init => TypeOK
  BY DEF Init, TypeOK
<1>. QED
  BY <1>1, TypeStep, PTL DEF Spec

-----------------------------------------------------------------------------
(* The shutdown.                                                           *)

\* Once Shutdown has found no connection there is none, and none is opened.
Drained ==
  /\ serve = "shutdown" => shuttingDown
  /\ serve = "receive" \/ returned \in {"closed", "failed"} =>
       shuttingDown /\ \A r \in Requests : ~Open(r)

LEMMA DrainedStep ==
  ASSUME TypeOK, Drained, [Next]_vars
  PROVE  Drained'
<1> USE DEF TypeOK, Drained, Open, serving, running, requests
<1>1. CASE UNCHANGED vars
  BY <1>1 DEF vars
<1>2. CASE Serve
  <2>1. CASE StartServer
    BY <2>1 DEF StartServer
  <2>2. CASE BeginShutdown
    BY <2>2 DEF BeginShutdown
  <2>3. CASE EndShutdown
    BY <2>3 DEF EndShutdown
  <2>4. CASE EndGracePeriod
    BY <2>4 DEF EndGracePeriod
  <2>5. CASE ReceiveError
    BY <2>5 DEF ReceiveError
  <2>. QED
    BY <1>2, <2>1, <2>2, <2>3, <2>4, <2>5 DEF Serve
<1>3. CASE Server
  BY <1>3 DEF Server, Accept, ServerEnds, SendError
<1>4. CASE Cancel
  BY <1>4 DEF Cancel
<1>5. ASSUME NEW r \in Requests, Connect(r) \/ CloseIdle(r) \/ Handler(r)
      PROVE  Drained'
  BY <1>5 DEF Connect, CloseIdle, Handler, CreateInput, CreateInputFails, Respond,
              FnPanics, Goto
<1>. QED
  BY <1>1, <1>2, <1>3, <1>4, <1>5 DEF Next

\* Whenever the server fails or the context ends, and however many requests are
\* under way: a Serve that reports the server's own error has left no handler.
THEOREM NoHandlerLeft == Spec => []DrainedWhenClosed
<1>1. Init => Drained
  BY DEF Init, Drained
<1>2. Drained => DrainedWhenClosed
  BY DEF Drained, DrainedWhenClosed
<1>. QED
  BY <1>1, <1>2, DrainedStep, Typing, PTL DEF Spec

-----------------------------------------------------------------------------
(* The error of the server.                                                *)

\* The goroutine sends once, and Serve receives once.
OneError ==
  /\ serve = "new" <=> server = "none"
  /\ server # "ended" => errorChan = "none"
  /\ server = "ended" /\ serve # "returned" => errorChan # "none"
  /\ serve \in {"shutdown", "receive", "returned"} => cancelled

LEMMA OneErrorStep ==
  ASSUME TypeOK, OneError, [Next]_vars
  PROVE  OneError'
<1> USE DEF TypeOK, OneError, serving, running, requests
<1>1. CASE UNCHANGED vars
  BY <1>1 DEF vars
<1>2. CASE Serve
  BY <1>2 DEF Serve, StartServer, BeginShutdown, EndShutdown, EndGracePeriod, ReceiveError
<1>3. CASE Server
  BY <1>3 DEF Server, Accept, ServerEnds, SendError
<1>4. CASE Cancel
  BY <1>4 DEF Cancel
<1>5. ASSUME NEW r \in Requests, Connect(r) \/ CloseIdle(r) \/ Handler(r)
      PROVE  OneError'
  BY <1>5 DEF Connect, CloseIdle, Handler, CreateInput, CreateInputFails, Respond, FnPanics
<1>. QED
  BY <1>1, <1>2, <1>3, <1>4, <1>5 DEF Next

LEMMA OneErrorAlways == Spec => []OneError
<1>1. Init => OneError
  BY DEF Init, OneError
<1>. QED
  BY <1>1, OneErrorStep, Typing, PTL DEF Spec

\* The goroutine of the server finds room in errorChan, also when the grace period
\* is over and nobody will receive; and a Serve that waits for the error will find
\* one, because the goroutine has sent it or has it still to send.
THEOREM SendHasRoom ==
  Spec => []( /\ server \in {"closed", "failed"} => errorChan = "none"
              /\ serve = "receive" => \/ errorChan # "none"
                                      \/ server \in {"starting", "accepting", "closed", "failed"})
<1>1. TypeOK /\ OneError =>
        /\ server \in {"closed", "failed"} => errorChan = "none"
        /\ serve = "receive" => \/ errorChan # "none"
                                \/ server \in {"starting", "accepting", "closed", "failed"}
  BY DEF TypeOK, OneError
<1>. QED
  BY <1>1, OneErrorAlways, Typing, PTL

\* What the run HttpServerFails meets once is always so: Serve returns, and even
\* leaves its wait, only if its context has ended, whatever the server reported.
THEOREM ContextEndsServe ==
  Spec => [](serve \in {"shutdown", "receive", "returned"} => cancelled)
<1>1. OneError => (serve \in {"shutdown", "receive", "returned"} => cancelled)
  BY DEF OneError
<1>. QED
  BY <1>1, OneErrorAlways, PTL

-----------------------------------------------------------------------------
(* The responses.                                                          *)

\* A request is answered when its handler ends, not before.
NotAnswered ==
  \A r \in Requests : pc[r] # "closed" => output[r] = "none" /\ status[r] = "none"

LEMMA StatusStep ==
  ASSUME TypeOK, NotAnswered, StatusIsTrue, [Next]_vars
  PROVE  NotAnswered' /\ StatusIsTrue'
<1> USE DEF TypeOK, NotAnswered, StatusIsTrue, serving, running, requests
<1>1. CASE UNCHANGED vars
  BY <1>1 DEF vars
<1>2. CASE Serve \/ Server \/ Cancel
  BY <1>2 DEF Serve, StartServer, BeginShutdown, EndShutdown, EndGracePeriod,
              ReceiveError, Server, Accept, ServerEnds, SendError, Cancel
<1>3. ASSUME NEW r \in Requests, Connect(r) \/ CloseIdle(r) \/ CreateInput(r)
      PROVE  NotAnswered' /\ StatusIsTrue'
  BY <1>3 DEF Connect, CloseIdle, CreateInput, Goto
<1>4. ASSUME NEW r \in Requests, CreateInputFails(r)
      PROVE  NotAnswered' /\ StatusIsTrue'
  BY <1>4 DEF CreateInputFails, Goto
<1>5. ASSUME NEW r \in Requests, Respond(r)
      PROVE  NotAnswered' /\ StatusIsTrue'
  <2>1. PICK o \in Outputs : /\ output' = [output EXCEPT ![r] = o]
                             /\ status' = [status EXCEPT ![r] = Response(o)]
    BY <1>5 DEF Respond
  <2>. QED
    BY <1>5, <2>1, ResponseType DEF Respond, Goto
<1>6. ASSUME NEW r \in Requests, FnPanics(r)
      PROVE  NotAnswered' /\ StatusIsTrue'
  BY <1>6 DEF FnPanics, Goto
<1>. QED
  BY <1>1, <1>2, <1>3, <1>4, <1>5, <1>6 DEF Next, Handler

\* A client is told of success only if f succeeded, with an output that can be
\* written.
THEOREM StatusTrue == Spec => []StatusIsTrue
<1>1. Init => NotAnswered /\ StatusIsTrue
  BY DEF Init, NotAnswered, StatusIsTrue
<1>. QED
  BY <1>1, StatusStep, Typing, PTL DEF Spec
=============================================================================
