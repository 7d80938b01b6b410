---------------------------- MODULE LambdaSource ----------------------------
(***************************************************************************)
(* The lambda source, run/source/lambda/lambda.go: takes one event after   *)
(* the other from the runtime API, and posts the output or the error of f. *)
(* The API, and what becomes of an event without an answer, are external.  *)
(***************************************************************************)
EXTENDS Naturals, Transforms

CONSTANTS
  Inputs,    \* the events 1 .. n, in the order in which the API gives them
  Garbled    \* those whose body is not a JSON object

VARIABLES
  decodes,   \* jsonDeserializeEvent; the runner sets it
  serve,     \* where Serve is
  event,     \* the last event it got, or 0
  answers,   \* what the API was posted for each event
  cancelled, \* the context of Serve has ended; others change it
  outer,     \* the Invoke for each event, as in FnContract
  value

lambdaVars == <<event, answers>>

Init ==
  /\ event = 0
  /\ answers = [e \in Inputs |-> "none"]

Begin ==
  /\ serve = "idle"
  /\ serve' = "loop"
  /\ UNCHANGED <<lambdaVars, outer, value>>

\* if err := ctx.Err(); err != nil { return err }
CheckContext ==
  /\ serve = "loop"
  /\ serve' = IF cancelled THEN "returned" ELSE "next"
  /\ UNCHANGED <<lambdaVars, outer, value>>

\* http.Get fails, or the body of its response cannot be read.
GetFails ==
  /\ serve = "next"
  /\ serve' = "returned"
  /\ UNCHANGED <<lambdaVars, outer, value>>

\* createInput: a map that holds the event.
InputOf(e) ==
  CASE decodes -> Value("envelope", "map", e)
    [] ~decodes /\ e \in Garbled -> Value("envelope", "text", e)
    [] ~decodes /\ e \notin Garbled -> Value("envelope", "json", e)

Receive(e) ==
  /\ serve = "next"
  /\ e = event + 1
  /\ event' = e
  /\ UNCHANGED answers

\* An event that cannot be decoded ends Serve, and gets no answer.
ReceiveGarbled(e) ==
  /\ Receive(e)
  /\ decodes /\ e \in Garbled
  /\ serve' = "returned"
  /\ UNCHANGED <<outer, value>>

CallFn(e) ==
  /\ Receive(e)
  /\ ~(decodes /\ e \in Garbled)
  /\ serve' = "invoke"
  /\ outer' = [outer EXCEPT ![e] = "running"]
  /\ value' = [value EXCEPT ![e] = InputOf(e)]

\* A post may fail, whether or not the API has got it.
Post(answer) ==
  \E got \in BOOLEAN :
    answers' = [answers EXCEPT ![event] = IF got THEN answer ELSE @]

\* Mutant of PostError: the loop goes on below, to post the output too.
PostErrorAndOutput ==
  /\ serve = "invoke"
  /\ outer[event] = "failed"
  /\ Post("output")
  /\ serve' \in {"loop", "returned"}
  /\ UNCHANGED <<event, outer, value>>

\* postError, the failure of which ends Serve.
PostError ==
  /\ serve = "invoke"
  /\ outer[event] = "failed"
  /\ \/ /\ answers' = [answers EXCEPT ![event] = "error"]
        /\ serve' = "loop"
     \/ /\ Post("error")
        /\ serve' = "returned"
  /\ UNCHANGED <<event, outer, value>>

\* The failure of the post of an output is not noticed.
PostOutput ==
  /\ serve = "invoke"
  /\ outer[event] = "replied"
  /\ value[event].kind # "wild"
  /\ Post("output")
  /\ serve' = "loop"
  /\ UNCHANGED <<event, outer, value>>

\* A map that json.Marshal cannot write ends Serve, without an answer.
MarshalFails ==
  /\ serve = "invoke"
  /\ outer[event] = "replied"
  /\ value[event].kind = "wild"
  /\ serve' = "returned"
  /\ UNCHANGED <<lambdaVars, outer, value>>

Step == Begin \/ CheckContext \/ PostError \/ PostOutput \/ MarshalFails

-----------------------------------------------------------------------------
(* Properties.                                                             *)

TypeOK ==
  /\ event \in Inputs \cup {0}
  /\ answers \in [Inputs -> {"none", "output", "error"}]

\* The API is told of an output only if f has returned one for that very
\* event, and of an error only if f has failed.
AnswersAreTrue ==
  \A e \in Inputs :
    /\ answers[e] = "output" => outer[e] = "replied" /\ value[e].of = e
    /\ answers[e] = "error" => outer[e] = "failed"
=============================================================================
