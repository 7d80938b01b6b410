------------------------------ MODULE FnRunner ------------------------------
(***************************************************************************)
(* fnrunner as a whole: cmd/fnrunner and run/runner configure a source, a  *)
(* pipeline and an fn, call Serve, and call it again when it has returned. *)
(* The composition of Configuration, LambdaSource or CronSource, Pipeline, *)
(* and CliScript, the http fn or the identity fn.  Of the http source there *)
(* is Serve, without its requests, which are in HttpSource.                *)
(*                                                                         *)
(* The parts meet in three variables: outer is the Invoke that a source    *)
(* makes on the pipeline, inner the one the pipeline makes on the fn, and  *)
(* value their argument and then their result.                             *)
(***************************************************************************)
EXTENDS Configuration, Transforms

CONSTANTS
  Documents,  \* configurations: source, middleware, fn, and the host
  Inputs,     \* events or jobs, 1 .. n
  Garbled, Large, Burst, MaxFailures, MaxRequests

Hosts == {"restart",    \* fnrunner
          "no restart", \* fnrunner -restart=false
          "library"}    \* a program that uses the runner and ends its context

\* The items of an array are a sequence.
IsArray(v) == v.type = "array" => v.items \in Seq(Range(v.items))

ASSUME RunnerAssumption ==
  /\ Inputs \subseteq Nat \ {0}
  /\ Garbled \subseteq Inputs /\ Large \subseteq Inputs
  /\ Burst \in Nat /\ MaxFailures \in Nat /\ MaxRequests \in Nat \ {0}
  /\ \A d \in Documents :
       /\ d.host \in Hosts
       /\ IsArray(d.middleware)
       /\ d.middleware.type = "array" =>
            \A e \in Range(d.middleware.items) :
              \A p \in SinglePair(e) : IsArray(p[2])

VARIABLES
  document,  \* the configuration
  program,   \* how far main has come
  setup,     \* the configured runner
  cancelled, \* the host has ended the context
  panicked,  \* a goroutine has panicked, which ends the program
  serve, event, answers,                                 \* the source
  outer, inner, value,                                   \* the calls
  at, way, expired, limiter, breaker, admitted,          \* the pipeline
  given, reply,
  pc, routine, proc                                      \* the script fn

mainVars == <<document, program, setup, cancelled>>
sourceVars == <<serve, event, answers>>
calls == <<outer, inner, value>>
stageVars == <<at, way, expired, limiter, breaker, admitted, given, reply>>
scriptVars == <<pc, routine, proc>>
vars == <<mainVars, panicked, sourceVars, calls, stageVars, scriptVars>>

Source == setup.source.key
Fn == setup.fn.key

\* jsonDeserializeEvent, TRUE by default.
Decodes ==
  LET v == setup.source.with
  IN IF v.type = "map" /\ "jsonDeserializeEvent" \in DOMAIN v.pairs
     THEN v.pairs["jsonDeserializeEvent"].is ELSE TRUE

Lambda == INSTANCE LambdaSource WITH decodes <- Decodes
Cron == INSTANCE CronSource
Middleware == INSTANCE Pipeline WITH chain <- setup.chain

\* The inputs whose fn has a context that has ended.
Ended == {i \in Inputs : Middleware!Done(i, Len(setup.chain) + 1)}

Script == INSTANCE CliScript WITH status <- inner, ended <- Ended

Init ==
  /\ document \in Documents
  /\ program = "configuring"
  /\ setup = [source |-> [key |-> "none", with |-> Nil], chain |-> <<>>,
              fn |-> [key |-> "none", with |-> Nil]]
  /\ cancelled = FALSE
  /\ panicked = FALSE
  /\ serve = "idle"
  /\ outer = [i \in Inputs |-> "idle"]
  /\ inner = [i \in Inputs |-> "idle"]
  /\ value = [i \in Inputs |-> Error(i)]
  /\ Lambda!Init
  /\ Middleware!Init
  /\ Script!Init

-----------------------------------------------------------------------------
(* main.                                                                   *)

Alive == ~panicked /\ program \notin {"refused", "exited"}

\* config.Configure(runner, configMap); main panics if it fails.
ConfigureRunner ==
  /\ program = "configuring"
  /\ IF Runner(document) = {}
     THEN program' = "refused" /\ UNCHANGED setup
     ELSE program' = "serving" /\ setup' \in Runner(document)
  /\ UNCHANGED <<document, cancelled, panicked, sourceVars, calls, stageVars, scriptVars>>

\* Run has returned, with an error or not.
RunReturns ==
  /\ program = "serving"
  /\ serve = "returned"
  /\ program' = CASE document.host = "restart" -> "waiting"
                  [] document.host = "no restart" -> "exited"
                  [] document.host = "library" -> "returned"
  /\ UNCHANGED <<document, setup, cancelled, panicked, sourceVars, calls, stageVars, scriptVars>>

\* Mutant of Restart: the program has waited and ends.
RestartExits ==
  /\ program = "waiting"
  /\ program' = "exited"
  /\ UNCHANGED <<document, setup, cancelled, panicked, sourceVars, calls, stageVars, scriptVars>>

\* restartWait is over: Run is called again, on the same source and fn.
Restart ==
  /\ program = "waiting"
  /\ program' = "serving"
  /\ serve' = "idle"
  /\ UNCHANGED <<document, setup, cancelled, panicked, event, answers, calls, stageVars, scriptVars>>

\* External: main passes a context that never ends, other hosts need not.
Cancel ==
  /\ document.host = "library"
  /\ program = "serving"
  /\ ~cancelled
  /\ cancelled' = TRUE
  /\ UNCHANGED <<document, program, setup, panicked, sourceVars, calls, stageVars, scriptVars>>

Main == ConfigureRunner \/ RunReturns \/ Restart

-----------------------------------------------------------------------------
(* The sources.                                                            *)

Serving(source) == program = "serving" /\ Source = source

ServeLambda ==
  /\ Serving("source/lambda")
  /\ Lambda!Step
  /\ UNCHANGED <<mainVars, panicked, inner, stageVars, scriptVars>>

\* External: the API has an event, or cannot be reached.
ReceiveEvent ==
  /\ Serving("source/lambda")
  /\ \/ Lambda!GetFails
     \/ \E e \in Inputs : Lambda!ReceiveGarbled(e)
     \/ \E e \in Inputs : Lambda!CallFn(e)
  /\ UNCHANGED <<mainVars, panicked, inner, stageVars, scriptVars>>

ServeCron ==
  /\ Serving("source/cron")
  /\ Cron!Step
  /\ UNCHANGED <<mainVars, panicked, event, answers, inner, stageVars, scriptVars>>

\* External: the time for the next job has come.
FireJob ==
  /\ Serving("source/cron")
  /\ \E i \in Inputs : Cron!Fire(i)
  /\ UNCHANGED <<mainVars, panicked, event, answers, inner, stageVars, scriptVars>>

\* The listener, which only ConfigureMap makes.
HasListener == setup.source.with.type # "nil"

StartHttp ==
  /\ Serving("source/http")
  /\ serve = "idle"
  /\ serve' = "started"
  /\ UNCHANGED <<mainVars, panicked, event, answers, calls, stageVars, scriptVars>>

\* The goroutine of the server: srv.Serve(nil).
ServeWithoutListener ==
  /\ Serving("source/http")
  /\ serve = "started"
  /\ ~HasListener
  /\ panicked' = TRUE
  /\ UNCHANGED <<mainVars, sourceVars, calls, stageVars, scriptVars>>

\* The context has ended and the server is shut down.  Serve waits for what the
\* goroutine has to tell.
StopHttp ==
  /\ Serving("source/http")
  /\ serve = "started"
  /\ cancelled
  /\ HasListener
  /\ serve' = "returned"
  /\ UNCHANGED <<mainVars, panicked, event, answers, calls, stageVars, scriptVars>>

ServeHttp == StartHttp \/ ServeWithoutListener \/ StopHttp

-----------------------------------------------------------------------------
(* The pipeline and the fns, which go on while the program lives, also      *)
(* after Serve has returned.                                                *)

PassMiddleware(i) ==
  Middleware!Step(i) /\ UNCHANGED <<mainVars, sourceVars, scriptVars>>

Expire(i) ==
  Middleware!Expire(i) /\ UNCHANGED <<mainVars, sourceVars, scriptVars>>

Refill ==
  /\ Middleware!Refill
  /\ UNCHANGED <<mainVars, sourceVars, scriptVars>>

RunScript(i) ==
  /\ Fn = "fn/cli"
  /\ Script!Step(i)
  /\ UNCHANGED <<mainVars, sourceVars, outer, stageVars>>

ScriptEnds(i) ==
  Script!ProcessEnds(i) /\ UNCHANGED <<mainVars, sourceVars, outer, stageVars>>

FnReturns(i, outcome, v) ==
  /\ inner[i] = "running"
  /\ inner' = [inner EXCEPT ![i] = outcome]
  /\ value' = [value EXCEPT ![i] = v]
  /\ UNCHANGED <<mainVars, panicked, sourceVars, outer, stageVars, scriptVars>>

Identity(i) ==
  /\ Fn = "fn/identity"
  /\ FnReturns(i, "replied", value[i])

\* The http fn posts strings only, and does not look at its context; the
\* answer may be a failure, or any text.
PostInput(i) ==
  /\ Fn = "fn/http"
  /\ \/ FnReturns(i, "failed", Error(i))
     \/ /\ IsString(value[i])
        /\ FnReturns(i, "replied", Printed(i))

InvokeFn(i) == RunScript(i) \/ Identity(i) \/ PostInput(i)

-----------------------------------------------------------------------------
Environment == Cancel \/ ReceiveEvent \/ FireJob

Next ==
  /\ Alive
  /\ \/ Main \/ ServeLambda \/ ServeCron \/ ServeHttp \/ Environment \/ Refill
     \/ \E i \in Inputs : PassMiddleware(i) \/ Expire(i) \/ InvokeFn(i) \/ ScriptEnds(i)

Spec == Init /\ [][Next]_vars

\* The main goroutine, which calls Serve, and the goroutines of an Invoke run
\* when they can; timers fire, the limiter makes tokens, and an http endpoint
\* answers.  No process need end, no event or job need come, and nobody need
\* end the context.
Fairness ==
  /\ WF_vars(Alive /\ (Main \/ ServeLambda \/ ServeCron \/ ServeHttp))
  /\ WF_vars(Alive /\ Refill)
  /\ \A i \in Inputs :
       WF_vars(Alive /\ (PassMiddleware(i) \/ Expire(i) \/ InvokeFn(i)))

FairSpec == Spec /\ Fairness

-----------------------------------------------------------------------------
(* Properties.                                                             *)

TypeOK ==
  /\ program \in {"configuring", "refused", "serving", "waiting", "exited", "returned"}
  /\ cancelled \in BOOLEAN /\ panicked \in BOOLEAN
  /\ serve \in {"idle", "loop", "next", "invoke", "started", "returned"}
  /\ \A f \in {outer, inner} :
       f \in [Inputs -> {"idle", "running", "replied", "failed"}]
  /\ Lambda!TypeOK /\ Middleware!TypeOK /\ Script!TypeOK

\* What is accepted without a configuration although it cannot work without one.
Bare ==
  \/ Source = "source/http" /\ setup.source.with.type = "nil"
  \/ \E n \in DOMAIN setup.chain :
       setup.chain[n].key = "middleware/circuitbreaker" /\ ~setup.chain[n].set

\* A configuration that was accepted can be used, wherever the document had it: but
\* for http as a source and for a circuitbreaker, what needs a configuration to
\* work has one.  For these two the program panics, and for nothing else but a
\* script process that is not there.
AcceptedIsUsable ==
  /\ program = "serving" =>
       /\ Source \in {"source/cron", "source/kafka", "source/sqs",
                      "source/azure/servicebus"} => setup.source.with.type # "nil"
       /\ Source = "source/cron" => setup.source.with.type = "string"
       /\ Fn \in {"fn/cli", "fn/http", "fn/pool"} => setup.fn.with.type # "nil"
       /\ \A n \in DOMAIN setup.chain :
            setup.chain[n].key \in {"middleware/jq", "middleware/kafka", "middleware/tap"}
              => setup.chain[n].set
  /\ panicked => Bare \/ \E i \in Inputs : pc[i] = "select" /\ ~Script!HasProcess(i)

InputOf(i) ==
  IF Source = "source/cron" THEN Plain("map", i) ELSE Lambda!InputOf(i)

\* The fn is called with what all stages in their order make of the input, not
\* at all if one of them cannot, and the caller gets what all of them in the
\* opposite order make of the fn's output, whatever Invokes overlap.
PipelineInOrder ==
  \A i \in Inputs :
    /\ inner[i] # "idle" => /\ ~IsError(given[i])
                            /\ given[i] = AllInward(setup.chain, InputOf(i))
    /\ outer[i] = "replied" => value[i] = AllOutward(setup.chain, reply[i])

RateKept == Middleware!RateKept

NoOrphans == Script!NoOrphans

LeaksOnlyAfterDeadline == Script!LeaksOnlyAfterDeadline

AnswersAreTrue == Lambda!AnswersAreTrue

\* A success of the pipeline is one of the fn, on the same input.
PipelineStatus(i) ==
  IF outer[i] = "replied" /\ (inner[i] # "replied" \/ IsError(value[i]) \/ value[i].of # i)
  THEN "garbled" ELSE outer[i]

pipelineStatus == [i \in Inputs |-> PipelineStatus(i)]

PipelineContract == INSTANCE FnContract WITH status <- pipelineStatus
ScriptContract == INSTANCE FnContract WITH status <- inner

\* The promise of Fn is kept on both sides of the pipeline: what a source calls
\* returns once, with the success of the fn or an error, and calls the fn once
\* at most.
ImplementsContract == PipelineContract!Spec /\ ScriptContract!Spec

Timed == \E n \in DOMAIN setup.chain : setup.chain[n].key = "middleware/timeout"

\* An Invoke that nothing in the configuration can block for ever: a script
\* has an input that fits into the pipe, and a context that will end, and so has
\* a jq program that always has another result.
Bounded(i) ==
  /\ Fn = "fn/cli" => i \notin Large /\ (cancelled \/ Timed)
  /\ \A n \in DOMAIN setup.chain :
       LET s == setup.chain[n]
       IN s.key = "middleware/jq" /\ "endless" \in {s.in, s.out}
            => cancelled \/ Middleware!Timeouts(i, n) # {}

\* Such an Invoke returns, after Serve has returned too, although scripts need
\* not end, tokens are scarce, and others open the breaker.
InvokeReturns ==
  \A i \in Inputs :
    outer[i] = "running" /\ Bounded(i) ~> outer[i] # "running" \/ ~Alive

\* fnrunner always comes back to ask for the next event, after events that
\* cannot be decoded or answered, and an API that could not be reached.
AsksForEvents ==
  (Source = "source/lambda" /\ document.host = "restart")
    ~> \/ serve = "next"
       \/ panicked
       \/ \E i \in Inputs : outer[i] = "running" /\ ~Bounded(i)
=============================================================================
