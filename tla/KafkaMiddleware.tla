-------------------------- MODULE KafkaMiddleware --------------------------
(***************************************************************************)
(* The kafka middleware, run/middleware/kafka/kafka.go: the outputs of f   *)
(* are sent to a success topic and its errors to an error topic.  The      *)
(* producer is created by the first Invoke, under a sync.Once that all     *)
(* others wait for; if that fails, it is not tried again.                  *)
(*                                                                         *)
(* Each input is the subject of one Invoke, in one of several processes    *)
(* that run fnrunner with this middleware; Invokes overlap freely.  The    *)
(* brokers are outside the repository.  What KafkaSource has as well is    *)
(* named Middleware..., for KafkaRelay, which is about both.               *)
(***************************************************************************)
CONSTANTS
  Inputs,        \* the inputs, one Invoke each
  Processes,     \* the processes, each with a middleware of its own
  Process,       \* the process that the Invoke of each input is in
  SuccessTopic,  \* TRUE: m.SuccessTopic is not empty
  ErrorTopic,    \* TRUE: m.ErrorTopic is not empty
  SendingFaults  \* "connect": the producer, or its TLS set-up, cannot be
                 \* created; "send": SendMessage returns an error

ASSUME KafkaMiddlewareAssumption ==
  /\ Process \in [Inputs -> Processes]
  /\ SuccessTopic \in BOOLEAN
  /\ ErrorTopic \in BOOLEAN
  /\ SendingFaults \subseteq {"connect", "send"}

VARIABLES
  once,                 \* m.once, in each process
  producer,             \* the processes in which m.producer is set
  initializationError,  \* the processes in which m.initializationError is set
  pc,                   \* where the Invoke of each input is
  outcome,              \* what f returned
  success,              \* the success topic: the inputs of its messages
  errors,               \* the error topic: likewise
  result                \* what Invoke returned

middlewareVars == <<once, producer, initializationError, pc, outcome, success,
                    errors, result>>

init == <<once, producer, initializationError>>
topics == <<success, errors>>

MiddlewareInit ==
  /\ once = [n \in Processes |-> "new"]
  /\ producer = {}
  /\ initializationError = {}
  /\ pc = [i \in Inputs |-> "new"]
  /\ outcome = [i \in Inputs |-> "none"]
  /\ success = {}
  /\ errors = {}
  /\ result = [i \in Inputs |-> "none"]

Goto(i, l) == pc' = [pc EXCEPT ![i] = l]

\* The sync.Once of the process of i goes on to o.
SetOnce(i, o) == once' = [once EXCEPT ![Process[i]] = o]

Return(i, r) == Goto(i, "done") /\ result' = [result EXCEPT ![i] = r]

-----------------------------------------------------------------------------
(* m.once.Do(...)                                                          *)

\* The first Invoke runs initializeProducer.
BeginInit(i) ==
  /\ pc[i] = "new"
  /\ once[Process[i]] = "new"
  /\ SetOnce(i, "running")
  /\ Goto(i, "init")
  /\ UNCHANGED <<producer, initializationError, outcome, topics, result>>

InitializeProducer(i) ==
  /\ pc[i] = "init"
  /\ \/ producer' = producer \cup {Process[i]} /\ UNCHANGED initializationError
     \/ /\ "connect" \in SendingFaults
        /\ initializationError' = initializationError \cup {Process[i]}
        /\ UNCHANGED producer
  /\ SetOnce(i, "done")
  /\ Goto(i, "check")
  /\ UNCHANGED <<outcome, topics, result>>

\* Mutant of AwaitInit: the others do not wait for the first.
AwaitNothing(i) ==
  /\ pc[i] = "new"
  /\ once[Process[i]] # "new"
  /\ Goto(i, "check")
  /\ UNCHANGED <<init, outcome, topics, result>>

\* The others wait until the first has done.
AwaitInit(i) ==
  /\ pc[i] = "new"
  /\ once[Process[i]] = "done"
  /\ Goto(i, "check")
  /\ UNCHANGED <<init, outcome, topics, result>>

CheckInit(i) ==
  /\ pc[i] = "check"
  /\ IF Process[i] \in initializationError
     THEN Return(i, "initializationError")
     ELSE Goto(i, "invoke") /\ UNCHANGED result
  /\ UNCHANGED <<init, outcome, topics>>

-----------------------------------------------------------------------------
(* f, and the messages.                                                    *)

\* What comes after f has returned o.
AfterFn(o) ==
  CASE o = "error" /\ ErrorTopic -> "sendError"
    [] o = "output" /\ SuccessTopic -> "sendSuccess"
    [] OTHER -> "end"

\* output, err := f.Invoke(ctx, input); the output may be nil.
FnReturns(i) ==
  /\ pc[i] = "invoke"
  /\ \E o \in {"output", "nil", "error"} :
       /\ outcome' = [outcome EXCEPT ![i] = o]
       /\ Goto(i, AfterFn(o))
  /\ UNCHANGED <<init, topics, result>>

\* No topic is concerned: output and err are returned as they are.
ReturnOutcome(i) ==
  /\ pc[i] = "end"
  /\ Return(i, outcome[i])
  /\ UNCHANGED <<init, outcome, topics>>

\* SendMessage returns: nil when the brokers have the message, or an error,
\* which does not exclude that they have it.
SendMessage(i, topic, rest) ==
  \/ topic' = topic \cup {i} /\ rest
  \/ "send" \in SendingFaults /\ topic' \in {topic, topic \cup {i}} /\ Return(i, "error")

SendError(i) ==
  /\ pc[i] = "sendError"
  /\ SendMessage(i, errors, Return(i, "error"))
  /\ UNCHANGED <<init, outcome, success>>

\* Mutant of SendSuccess: the error of sendMessage is ignored.
SendSuccessUnchecked(i) ==
  /\ pc[i] = "sendSuccess"
  /\ \/ success' = success \cup {i}
     \/ "send" \in SendingFaults /\ UNCHANGED success
  /\ Return(i, "output")
  /\ UNCHANGED <<init, outcome, errors>>

\* The error of sendMessage becomes the error of Invoke.
SendSuccess(i) ==
  /\ pc[i] = "sendSuccess"
  /\ SendMessage(i, success, Return(i, "output"))
  /\ UNCHANGED <<init, outcome, errors>>

Invoke(i) ==
  \/ BeginInit(i) \/ InitializeProducer(i) \/ AwaitInit(i) \/ CheckInit(i)
  \/ FnReturns(i) \/ ReturnOutcome(i) \/ SendError(i) \/ SendSuccess(i)

\* A process ends, its Invokes with it, and is started again with a new
\* middleware.
ProcessEnds(n) ==
  /\ once' = [once EXCEPT ![n] = "new"]
  /\ producer' = producer \ {n}
  /\ initializationError' = initializationError \ {n}
  /\ pc' = [i \in Inputs |->
              IF Process[i] = n /\ pc[i] # "new" THEN "done" ELSE pc[i]]
  /\ UNCHANGED <<outcome, topics, result>>

MiddlewareNext ==
  \/ \E i \in Inputs : Invoke(i)
  \/ \E n \in Processes : ProcessEnds(n)

MiddlewareSpec == MiddlewareInit /\ [][MiddlewareNext]_middlewareVars

-----------------------------------------------------------------------------
(* Properties.                                                             *)

MiddlewareTypeOK ==
  /\ once \in [Processes -> {"new", "running", "done"}]
  /\ producer \in SUBSET Processes
  /\ initializationError \in SUBSET Processes
  /\ pc \in [Inputs -> {"new", "init", "check", "invoke", "sendError",
                        "sendSuccess", "end", "done"}]
  /\ outcome \in [Inputs -> {"none", "output", "nil", "error"}]
  /\ success \in SUBSET Inputs
  /\ errors \in SUBSET Inputs
  /\ result \in [Inputs -> {"none", "output", "nil", "error",
                            "initializationError"}]

\* However Invokes overlap, and processes end and begin, f is called only when
\* the producer is there, so that sendMessage never meets one that is nil.
ProducerIsReady ==
  \A i \in Inputs :
    pc[i] \in {"invoke", "sendError", "sendSuccess"} => Process[i] \in producer

\* A caller that gets an output can rely on it that the success topic has it,
\* and the topics tell the truth about f.
TopicsTellOutcome ==
  \A i \in Inputs :
    /\ result[i] = "output" /\ SuccessTopic => i \in success
    /\ i \in success => outcome[i] = "output"
    /\ i \in errors => outcome[i] = "error"
=============================================================================
