----------------------------- MODULE HttpSource -----------------------------
(***************************************************************************)
(* The http source, run/source/http/http.go.  Serve starts a goroutine     *)
(* that runs the web server, waits for the end of its context, shuts the   *)
(* server down within a grace period, and then returns what the goroutine  *)
(* has reported in errorChan.  Each request has a handler goroutine that   *)
(* invokes f with the context of Serve.                                    *)
(*                                                                         *)
(* The server, net/http, is outside the repository: it accepts connections *)
(* until it is shut down, and Shutdown waits for those in use.             *)
(***************************************************************************)
CONSTANTS
  Requests,            \* the requests, each on a connection of its own
  TreatOutputAsBody,   \* h.TreatOutputAsBody
  Faults               \* "listen": srv.Serve or ServeTLS ends with an error;
                       \* "body": a body cannot be read; "panic": f panics

ASSUME HttpAssumption ==
  /\ TreatOutputAsBody \in BOOLEAN
  /\ Faults \subseteq {"listen", "body", "panic"}

VARIABLES
  serve,         \* where Serve is
  returned,      \* what it has returned
  cancelled,     \* its context has ended
  server,        \* the goroutine that runs the server
  errorChan,     \* errorChan, capacity 1
  shuttingDown,  \* srv.Shutdown has been called
  pc,            \* where the connection and handler of a request are
  output,        \* what f returned, or that it panicked
  status         \* the response the client got

vars == <<serve, returned, cancelled, server, errorChan, shuttingDown, pc,
          output, status>>

serving == <<serve, returned, cancelled>>
running == <<server, errorChan>>
requests == <<pc, output, status>>

\* A map that writeResponse can decode, one it cannot, one with a status that
\* net/http does not take, a value that is not a map, or an error.
Outputs == {"map", "badMap", "badStatus", "other", "error"}

Init ==
  /\ serve = "new"
  /\ returned = "none"
  /\ cancelled = FALSE
  /\ server = "none"
  /\ errorChan = "none"
  /\ shuttingDown = FALSE
  /\ pc = [r \in Requests |-> "new"]
  /\ output = [r \in Requests |-> "none"]
  /\ status = [r \in Requests |-> "none"]

-----------------------------------------------------------------------------
(* Serve.                                                                  *)

StartServer ==
  /\ serve = "new"
  /\ serve' = "wait"
  /\ server' = "starting"
  /\ UNCHANGED <<returned, cancelled, errorChan, shuttingDown, requests>>

\* <-ctx.Done(), then srv.Shutdown(shutdownCtx) begins.
BeginShutdown ==
  /\ serve = "wait"
  /\ cancelled
  /\ shuttingDown' = TRUE
  /\ serve' = "shutdown"
  /\ UNCHANGED <<returned, cancelled, running, requests>>

Open(r) == pc[r] \in {"connected", "invoke"}

\* Mutant of EndShutdown: srv.Close() in place of srv.Shutdown.
EndShutdownAtOnce ==
  /\ serve = "shutdown"
  /\ serve' = "receive"
  /\ UNCHANGED <<returned, cancelled, running, shuttingDown, requests>>

\* Shutdown returns nil: no connection is left.
EndShutdown ==
  /\ serve = "shutdown"
  /\ \A r \in Requests : ~Open(r)
  /\ serve' = "receive"
  /\ UNCHANGED <<returned, cancelled, running, shuttingDown, requests>>

\* The grace period is over: Serve returns, the handlers go on.
EndGracePeriod ==
  /\ serve = "shutdown"
  /\ serve' = "returned"
  /\ returned' = "deadline"
  /\ UNCHANGED <<cancelled, running, shuttingDown, requests>>

\* return <-errorChan
ReceiveError ==
  /\ serve = "receive"
  /\ errorChan # "none"
  /\ returned' = errorChan
  /\ errorChan' = "none"
  /\ serve' = "returned"
  /\ UNCHANGED <<cancelled, server, shuttingDown, requests>>

Serve == StartServer \/ BeginShutdown \/ EndShutdown \/ EndGracePeriod
           \/ ReceiveError

-----------------------------------------------------------------------------
(* The goroutine: srv.Serve or srv.ServeTLS, and the send of its error.    *)

Accept ==
  /\ server = "starting"
  /\ ~shuttingDown
  /\ server' = "accepting"
  /\ UNCHANGED <<serving, errorChan, shuttingDown, requests>>

\* After Shutdown the server ends with ErrServerClosed; before, with an error
\* only, such as an unusable certificate or a broken listener.
ServerEnds ==
  /\ server \in {"starting", "accepting"}
  /\ \/ shuttingDown /\ server' = "closed"
     \/ ~shuttingDown /\ "listen" \in Faults /\ server' = "failed"
  /\ UNCHANGED <<serving, errorChan, shuttingDown, requests>>

\* Mutant of SendError: errorChan is not buffered.
SendErrorUnbuffered ==
  /\ server \in {"closed", "failed"}
  /\ serve = "receive"
  /\ errorChan = "none"
  /\ errorChan' = server
  /\ server' = "ended"
  /\ UNCHANGED <<serving, shuttingDown, requests>>

\* errorChan <- err
SendError ==
  /\ server \in {"closed", "failed"}
  /\ errorChan = "none"
  /\ errorChan' = server
  /\ server' = "ended"
  /\ UNCHANGED <<serving, shuttingDown, requests>>

Server == Accept \/ ServerEnds \/ SendError

-----------------------------------------------------------------------------
(* Clients, and the handler of a request.                                  *)

Goto(r, l) == pc' = [pc EXCEPT ![r] = l]

Cancel ==
  /\ ~cancelled
  /\ cancelled' = TRUE
  /\ UNCHANGED <<serve, returned, running, shuttingDown, requests>>

Connect(r) ==
  /\ pc[r] = "new"
  /\ server = "accepting"
  /\ ~shuttingDown
  /\ Goto(r, "connected")
  /\ UNCHANGED <<serving, running, shuttingDown, output, status>>

\* A connection on which no request arrives is closed by Shutdown.
CloseIdle(r) ==
  /\ pc[r] = "connected"
  /\ shuttingDown
  /\ Goto(r, "closed")
  /\ UNCHANGED <<serving, running, shuttingDown, output, status>>

\* createInput succeeds and f is invoked ...
CreateInput(r) ==
  /\ pc[r] = "connected"
  /\ Goto(r, "invoke")
  /\ UNCHANGED <<serving, running, shuttingDown, output, status>>

\* ... or the body cannot be read.
CreateInputFails(r) ==
  /\ pc[r] = "connected"
  /\ "body" \in Faults
  /\ status' = [status EXCEPT ![r] = "500"]
  /\ Goto(r, "closed")
  /\ UNCHANGED <<serving, running, shuttingDown, output>>

\* Mutant of Response: the type assertion's ok is not looked at.
ResponseUnchecked(o) ==
  CASE o \in {"error", "badMap"} -> "500"
    [] o = "badStatus" /\ ~TreatOutputAsBody -> "none"
    [] OTHER -> "sent"

\* What the handler writes when f has returned o.  A status that is out of
\* range makes WriteHeader panic, and the client gets no response.
Response(o) ==
  CASE o = "error" -> "500"
    [] o # "error" /\ TreatOutputAsBody -> "sent"
    [] o = "map" /\ ~TreatOutputAsBody -> "sent"
    [] o \in {"badMap", "other"} /\ ~TreatOutputAsBody -> "500"
    [] o = "badStatus" /\ ~TreatOutputAsBody -> "none"

\* Mutant of Respond: a response is written while Serve has not returned only.
RespondBeforeReturn(r) ==
  /\ pc[r] = "invoke"
  /\ serve # "returned"
  /\ \E o \in Outputs :
       /\ output' = [output EXCEPT ![r] = o]
       /\ status' = [status EXCEPT ![r] = Response(o)]
  /\ Goto(r, "closed")
  /\ UNCHANGED <<serving, running, shuttingDown>>

\* f returns, by itself or because the context has ended.
Respond(r) ==
  /\ pc[r] = "invoke"
  /\ \E o \in Outputs :
       /\ output' = [output EXCEPT ![r] = o]
       /\ status' = [status EXCEPT ![r] = Response(o)]
  /\ Goto(r, "closed")
  /\ UNCHANGED <<serving, running, shuttingDown>>

\* net/http recovers and closes the connection.
FnPanics(r) ==
  /\ pc[r] = "invoke"
  /\ "panic" \in Faults
  /\ output' = [output EXCEPT ![r] = "panic"]
  /\ Goto(r, "closed")
  /\ UNCHANGED <<serving, running, shuttingDown, status>>

Handler(r) ==
  CreateInput(r) \/ CreateInputFails(r) \/ Respond(r) \/ FnPanics(r)

Next ==
  \/ Serve \/ Server \/ Cancel
  \/ \E r \in Requests : Connect(r) \/ CloseIdle(r) \/ Handler(r)

Spec == Init /\ [][Next]_vars

\* Goroutines run, f returns if it does not panic, timers fire; clients and
\* contexts are free.
Fairness ==
  /\ WF_vars(StartServer) /\ WF_vars(BeginShutdown)
  /\ WF_vars(EndShutdown \/ EndGracePeriod) /\ WF_vars(ReceiveError)
  /\ WF_vars(Accept \/ (shuttingDown /\ ServerEnds) \/ SendError)
  /\ \A r \in Requests : WF_vars(CreateInput(r) \/ CreateInputFails(r) \/ Respond(r))

FairSpec == Spec /\ Fairness

-----------------------------------------------------------------------------
(* Properties.                                                             *)

TypeOK ==
  /\ serve \in {"new", "wait", "shutdown", "receive", "returned"}
  /\ returned \in {"none", "deadline", "closed", "failed"}
  /\ cancelled \in BOOLEAN
  /\ server \in {"none", "starting", "accepting", "closed", "failed", "ended"}
  /\ errorChan \in {"none", "closed", "failed"}
  /\ shuttingDown \in BOOLEAN
  /\ pc \in [Requests -> {"new", "connected", "invoke", "closed"}]
  /\ output \in [Requests -> Outputs \cup {"none", "panic"}]
  /\ status \in [Requests -> {"none", "sent", "500"}]

\* If Serve returns within the grace period no handler is left, and none
\* starts: f is not called again, nor still running.
DrainedWhenClosed ==
  returned \in {"closed", "failed"} => \A r \in Requests : ~Open(r)

\* A client is told of success only if f succeeded, with something that can be
\* written, and of failure otherwise.
StatusIsTrue ==
  \A r \in Requests :
    /\ status[r] = "sent" =>
         output[r] = "map" \/ (TreatOutputAsBody /\ output[r] # "error")
    /\ status[r] = "500" /\ output[r] # "none" => output[r] # "map"

\* Whatever becomes of Serve, a request for which f returns a map or an error is
\* answered; the other ways out are a panic and an invalid status.
RequestsAnswered ==
  \A r \in Requests :
    pc[r] = "invoke" ~> status[r] # "none" \/ output[r] \in {"badStatus", "panic"}

\* When its context has ended, Serve returns, in time or after the grace period,
\* and its goroutine does not stay behind, also if nobody receives from errorChan.
ServeEnds == cancelled ~> serve = "returned" /\ server = "ended"

\* "fnrunner restarts (...) after receiving an error while serving": when the
\* server has failed, Serve returns.
FailureEndsServe == server = "failed" ~> serve = "returned"
=============================================================================
