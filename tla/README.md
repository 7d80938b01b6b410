# TLA+ models of fnrunner

fnrunner connects an event *source* (a queue, a topic, a web server, a timer)
through a pipeline of *middleware* to a function, the *Fn*.  `cmd/fnrunner`
reads the configuration, builds the three, calls `source.Serve(ctx, fn)`, and
calls it again after a pause when it has returned an error.  This directory
holds TLA+ models of the parts in which goroutines, processes, brokers and
clients meet, a model of the program that is composed of them, the runs in which
TLC checks them, and TLAPS proofs about the parts and about the whole.

Paths below are relative to the root of the source tree (`run/...`, `fn/...`).

## 1. Inventory

| Part | State it keeps | Operations | What makes it correct |
|---|---|---|---|
| Fn interface, `fn/fn.go` | none | `Invoke` | each call returns once, with the answer to its own input or an error |
| cli fn, service, `run/fn/cli/service.go` | alive, cmd, stdin, two channels of capacity 1; two goroutines per child | `Invoke`, `start`, `kill` | own answers, one child with one input at a time, failed children die, no Invoke waits for ever |
| cli fn, script and configuration, `run/fn/cli/{script,cli}.go` | a process and a goroutine per Invoke | `Invoke`, `ConfigureMap` | no Invoke leaves a process behind, or a goroutine but after a deadline |
| pool fn, `run/fn/pool/pool.go` | a buffered channel of Fns | `ConfigureMap`, `Invoke` | an Fn has one user, none is lost, putting one back never blocks |
| tap middleware, `run/middleware/tap/tap.go` | alive, cmd, stdin, an RWMutex; a goroutine per process | `Invoke`, `start` | one process, whole records in order, no deadlock |
| kafka source, `run/source/kafka/*.go` | client; sarama's session and marks | `Serve`, `ConsumeClaim` | nothing is committed unhandled unless the initial offset skipped it, order in a partition, progress, restart, stop |
| servicebus source, `run/source/azure/servicebus/servicebus.go` | `running` and a context per delivery; a renewal goroutine | `Serve` (queue, dead letters) | completed only after handled, progress, renewal ends and disturbs nobody |
| sqs source, `run/source/sqs/sqs.go` | none but the batch in hand | `Serve` | deleted only after handled, progress, not handled twice without reason |
| http source, `run/source/http/http.go` | server goroutine, errorChan | `Serve`, handlers | drained on shutdown, true status, every request answered, Serve returns |
| kafka middleware, `run/middleware/kafka/kafka.go` | producer, Once, initialization error | `Invoke` | producer before f, topics agree with results |
| lambda source, `run/source/lambda/lambda.go` | request id | `Serve` | answers are true; the next event is always asked for |
| cron source, `run/source/cron/cron.go` | the library's jobs, which overlap | `Serve` | Serve ends with the context, and its jobs return |
| timeout middleware | none | `Invoke` | a deadline for the rest of the pipeline |
| circuitbreaker, ratelimiter middleware | the library's object of each stage; a Once | `Invoke` | Invokes share the object of a stage; f is not called while the breaker is open, or without a token |
| json, jq, key, debug middleware | none | `Invoke` | transformations in their order; no call of f for a value that has none |
| healthcheck middleware | none | a static web endpoint | pure I/O |
| http, identity fn | none | `Invoke` | one request; the input |
| registry, configuration, loaders, pipeline, `run/run.go`, `run/config`, `run/*/loader`, `run/middleware/pipeline` | registered factories | `Configure`, composition | a configuration reaches the right object; order of middleware |
| runner and fnrunner, `run/runner`, `cmd/fnrunner` | none | configuration, restart loop | Serve is called again after every return |

The parts interact by calls (source → middleware → Fn), by contexts (deadlines
of the timeout middleware, shutdown), and, inside the cli service, the tap
middleware, the servicebus source, the http source and the kafka middleware, by
variables, locks and channels that several goroutines share.

The behaviours that are hard: overlapping Invokes (http and cron sources, two
kafka partitions) against Fns that rely on being called one at a time; answers
and exit errors that arrive after their Invoke has given up; goroutines that
outlive the call that started them; locks that are held during blocking
writes; deliveries that are lost, repeated or handed to another node while f
runs; crashes between f's return and the commit; shutdown while requests are
under way; deadlines that end before a process exists; stages that turn a value
back on one way or the other.  `PROJECT.json` lists each of these hazards at the line where it
bites, with the properties that watch it.

## 2. Modules

| Module | Code | Role |
|---|---|---|
| `FnContract` | `fn/fn.go` | abstract: what an Fn promises |
| `DeliveryContract` | the message sources | abstract: what a source promises to the sender of a message |
| `CliService`, `MCCliService`, `CliServiceProofs` | `run/fn/cli/service.go` | component, instance, proofs |
| `Pool`, `PoolProofs` | `run/fn/pool/pool.go` | component, proofs |
| `PooledService`, `MCPooledService`, `PoolProofs` | `pool.go` over `service.go` | composition of `Pool` and `CliService`, instance, proofs |
| `TapMiddleware`, `MCTap`, `TapMiddlewareProofs` | `run/middleware/tap/tap.go` | component, instance, proofs |
| `KafkaSource`, `MCKafka`, `KafkaProofs` | `run/source/kafka/{kafka,consumer}.go` | component, instance, proofs |
| `ServiceBusSource`, `MCServiceBus`, `ServiceBusSourceProofs` | `run/source/azure/servicebus/servicebus.go` | component, instance, proofs |
| `SqsSource`, `MCSqs`, `SqsSourceProofs` | `run/source/sqs/sqs.go` | component, instance, proofs |
| `HttpSource`, `MCHttp`, `HttpSourceProofs` | `run/source/http/http.go` | component, instance, proofs |
| `KafkaMiddleware`, `KafkaProofs` | `run/middleware/kafka/kafka.go` | component, proofs |
| `KafkaRelay`, `MCKafkaRelay`, `KafkaProofs` | the kafka middleware under the kafka source | composition of `KafkaSource` and `KafkaMiddleware`, instance, proofs |
| `Configuration` | `run/run.go`, `run/config`, `run/*/loader`, `run/runner`, `ConfigureX` and `RequiresConfig` everywhere | operators |
| `Transforms` | `run/middleware/{json,jq,key}` | operators |
| `Pipeline` | `run/middleware/pipeline`, and the middleware without a module of its own | component |
| `CliScript` | `run/fn/cli/script.go` | component |
| `LambdaSource`, `CronSource` | `run/source/{lambda,cron}` | components |
| `FnRunner`, `MCFnRunner`, `FnRunnerProofs` | `cmd/fnrunner`, `run/fn/{http,identity}` | composition of the six modules above, instance, proofs |

Conventions.  Every Invoke has an input of its own, so an input names its
Invoke, and where an Invoke may start a process, that process too.  `pc` tells
where an Invoke is; one action is one step between two points at which another
goroutine can intervene.  `Faults` names what the environment may do; each
module lists the kinds.  An operator that a comment calls a *mutant of* another
one is a plausible bug in it: no specification uses it, and putting it in the
place of the original makes TLC find the property violated for which
`PROJECT.json` lists it.

**CliService.**  `alive`, `cmd`, `stdin`, `outputChannel` and `errorChannel`
are the fields of `service`.  `start()` is cut where other goroutines see its
unlocked writes: `Begin` (reads alive), `Spawn` (`s.cmd = cmd`), `SetStdin`,
`SetAlive`.  `Write`/`WriteFails` are the `Fprintln`; `ReceiveOutput`,
`ReceiveError` and `ContextDone` the branches of the select; `kill()` is
`KillMark` (under the lock) and `KillSignal`/`KillFails` (after it).  `Scan`,
`Reap` and `SendError` are the goroutines of a child.  The child is external: it
answers a line with a line and may end at any time.  When `cmd.Wait` returns it
closes the pipe, so lines the scanner had not buffered are lost (`Prefix`).
Lines have no length: the scanner's limit of 64 KiB and a full stdin pipe are
outside the model.  `Serial` is TRUE when the caller keeps Invokes apart, as
the pool does, and as the documentation of the fn requires.

**Pool.**  `fnChan` is the channel; `CreateFn` fills it during configuration.
`Acquire` and `AvailabilityTimeout` are the branches of the select, `FnReturns`
and `FnPanics` the call of the Fn, `PutBack` the send, which would block on a
full channel.  Panics matter because `net/http` recovers them.

**PooledService.**  What a configuration with `pool` over `cli` runs: one Fn of the
pool, `Observed`, is a `CliService` (`CallService`, `InvokeService`,
`ServiceReturns`), the others are the Fns of `Pool`, which return or panic when they
like.  The service is instantiated twice: `Service`, whose steps it takes, accepts
overlapping Invokes (`Serial <- FALSE`); `Apart` is the same with a caller that
keeps them apart, and `KeepsInvokesApart` says that the pool is one.

**TapMiddleware.**  The RWMutex is modelled with Go's rule that a waiting writer
bars new readers (`MayRead`, `AskToWrite`, `MayWrite`); `getAlive`, `start` and
`Invoke` follow.  `Tap` blocks while the pipe is full and the process runs.

**KafkaSource.**  `Serve`'s loop (`SetUp`, `Join`, `EndSession`, `Stop`,
`ConsumeFails`) and the goroutine per partition (`Receive`, `InvokeSucceeds`,
`InvokeFails`, `MessagesClosed`) are the repository's; ownership, commits and
the end of sessions belong to sarama and the broker and are modelled as freely
as the use of them allows.  `SetUp` keeps a closed client, as the code does.  The
restart loop of fnrunner is `serve = "start"`; a crash is external.  An error of f
ends its claim and the session; whether `Consume` then returns nil, as sarama does,
or an error, as the stand-in of `TestServe_withFnError` does, is open
(`EndSession`).

`StartAt` is the initial offset, `kafka.go`, lines 37 to 39.  Where a partition has
a committed message a claim starts behind it.  Where it has none, a member in
`Oldest` (`k.Oldest` is set) starts with the first message, and any other one, which
is the default, with the next message that is produced (`log`, `Produce`): what is
there already is `skipped`.  That can be a message that f has failed for, or had in
hand when its process died, if nothing of the partition was committed before; a
later message is then handled, and its commit covers the skipped one.  The code does
this, so the properties name it: `InOrder`, `ImplementsDelivery`, `AllCommitted` and
`ImplementsRelay` are about the messages that no claim has skipped.
`NothingSkipped` proves that with `Oldest` set everywhere there are no others, and
`SkippedAtFirst` that after the first commit of a partition none is added.

**ServiceBusSource.**  A delivery has a handler (`FnReturns`, `StopRenewal`,
`Settle`, `SettleFails`) and a renewal goroutine (`RenewalLoop`, `RenewLocks`,
`CheckRunning`, `CancelContext`).  They share `running`, which nothing
synchronizes, and the context; the model lets them interleave at every access.

**SqsSource.**  `Receive` takes a batch, each message of which is invoked and
deleted in turn; a delete that fails gives the rest of the batch up
(`DeleteFails`), a failing f does not (`InvokeFails`).  The visibility timeout
runs from the receive.  The order inside a batch is free, for the queue's is.

**HttpSource.**  `Serve` (`StartServer` ... `ReceiveError`), the server goroutine
(`Accept`, `ServerEnds`, `SendError`) and a handler per request.  `Response` is
what `writeResponse` does with each kind of output; headers and cookies are
left out.

**KafkaMiddleware.**  The Once of the first Invokes (`BeginInit`,
`InitializeProducer`, `AwaitInit`), f, and the two topics.  An error of a send
does not exclude that the brokers have the message.  Each process has a middleware
of its own (`Process`), with its Once and its producer, which end with it
(`ProcessEnds`); the topics are the brokers' and stay.

**KafkaRelay.**  A group of fnrunners that relay messages from one topic to another:
`Deliver` is the `Receive` of a ConsumeClaim with the Invoke it makes,
`InvokeMiddleware` the steps of that Invoke in the same process, `HandleResult`
what ConsumeClaim does with its error, and `CrashProcess` ends both.

**Configuration.**  What fnrunner makes of a document, as operators that return
a set: of one runner, or of none when an error stops it.  `Registry` is what
`main` registers; `ConfigureLeaf` is `config.Configure`, with `Configurers` the
objects that implement a `ConfigureX` and `Required` those whose
`RequiresConfig` is true; `SinglePair`, `Load` and `Pipeline` are the loaders and
the pipeline, whose nesting is flattened (`Compose`), one level deep.  A string
that its object cannot parse is the text `"invalid"`.

**Transforms.**  A value is a kind (map, JSON text, other text, list, ...), what
it holds and the event it is about.  `Transcode` is the json middleware, which
drops the error of `json.Unmarshal`; `Apply` is jq, by the number of results its
program makes, where an `"endless"` one returns an error once its context has ended and
nothing before (`Pipeline`'s `Endless`); `Select` is key.  `AllInward` and `AllOutward` are the reference
for `PipelineInOrder`: what becomes of an input or an output on its way through
the whole chain, by a recursive function over the stages (`Inwards`, `Outwards`),
with nothing happening meanwhile.

**Pipeline.**  An Invoke goes through the stages one by one (`at`, `way`), calls
the fn (`CallFn`), and comes back (`ComeBack`).  `expired` are the timeout stages
whose context has ended; `Done(i, k)` is what the stage at `k` sees of its
context.  Each ratelimiter stage has a limiter, which the first of the Invokes that
reach it makes under a Once (`MakeLimiter`), and each circuitbreaker stage a
breaker; all Invokes share them.  A jq program with endless results keeps its Invoke
at its stage until the context there ends (`Endless`).  The two
libraries are external: a token bucket, and a breaker with generations, as
`cb.Execute` has them; the interval that clears the counts of a closed breaker
is zero by default and left out.  A breaker without configuration panics
(`MissBreaker`).

**CliScript.**  The Invoke (`CreatePipes`, `Write`, the branches of the select)
and its goroutine (`Fork`, `AssignProcess`, `WaitForProcess`).  The channels are
unbuffered, so a send and its receive are one step, and a send without a receiver
stays.  `Invoke` reads `cmd.Process`, which the goroutine assigns without
synchronization after the fork: where it is still nil, `Kill` panics
(`HasProcess`, `Panic`).  Nothing reads the pipe while the input is written, so
an input in `Large` blocks `Write` for ever.  The goroutine that logs the process's
stderr is left out.  It is started before the pipe for stdin is made, so that it
stays when that fails (`CreatePipesFails`, script.go, lines 23 to 28);
`LeaksOnlyAfterDeadline` is about the goroutine of `cmd.Output` only.

**LambdaSource, CronSource.**  The loop of each `Serve`.  The lambda source asks
for an event, makes its input, and posts the output or the error; a post may
reach the API or not, whatever the source is told.  The cron library starts a
job whenever it likes; `Stop` does not wait for the jobs that run.

**FnRunner.**  Main configures (`ConfigureRunner`), calls `Serve`, and calls it
again (`RunReturns`, `Restart`), for three kinds of host: fnrunner, fnrunner
with `-restart=false`, and a program that uses the library and ends its context.
The parts are instances that share three variables: `outer`, the Invoke a source
makes on the pipeline, `inner`, the one the pipeline makes on the fn, and
`value`, the argument and then the result of either.  Each part changes the
variables of the call it is on and its own; the composition adds what it leaves
alone.  The chain that `Pipeline` runs is the one `Configuration` made of the
document.  A panic ends the program.  The fns `http` and `identity` have no state and
are actions of this module.  So is the `Serve` of the http source (`StartHttp`,
`ServeWithoutListener`, `StopHttp`), without its requests, which `HttpSource` has: a
source whose `ConfigureMap` was never called has no listener, and its server panics.

## 3. Runs

The runs are of safety and, where they name a specification with fairness, of
liveness.  Most invariants of types have no run because they are proved (section 4).

| Run | Instance | Shows |
|---|---|---|
| `CliSerial` | 3 inputs, all faults | one child until an Invoke has failed; a failed Invoke leaves its child dead; refines `FnContract`; an Invoke returns, even with a context that never ends, whatever lines and errors of abandoned children are on their way, unless its own child exits with status 0 |
| `CliStaleReply` | 2 inputs, deadlines | **violation**: after a deadline, the next caller gets the answer of the one before |
| `PooledServices` | 3 inputs, 2 Fns of which one is a service with all its faults, panics | exclusive use, no Fn lost before a panic; Invokes of a service never overlap; answers of the pool are answers to their callers; every Invoke returns unless its child exits with status 0 |
| `TapProcess` | 2 inputs, all lines, a pipe of 1 | one process, whole records, no deadlock |
| `KafkaGroup` | 2 members, one of them with `Oldest`, 1 partition of 2 messages that are there or come, all faults | order, progress, stop; refines `DeliveryContract`; but for skipped messages |
| `KafkaRestart` | 1 member, Consume may fail | **violation**: a restarted source uses the closed client and never gets back into a session |
| `BusReceivers` | 2 receivers, 1 message, 2 deliveries, lost locks, failing calls | progress, renewal ends and disturbs nobody; refines `DeliveryContract` |
| `SqsPollers` | 2 pollers, 2 messages, batches of 2, all faults | progress, handled again only for a reason; refines `DeliveryContract` |
| `HttpServe` | 2 requests, all faults | drained on shutdown, true status, requests answered, Serve returns and leaves no goroutine of its server |
| `HttpServerFails` | 1 request, a failing server | **violation**: Serve does not notice that its server has ended |
| `KafkaRelay` | 2 members with `Oldest`, 2 partitions of 1 message, 3 Invokes, one crash, eviction or shutdown, unreachable brokers, failing sends | producer before f, topics agree with results; a message is committed only when its output is in the success topic |
| `FnRunner` | 84 documents, 3 events or 2 to 3 overlapping jobs | what was accepted can be used, with two exceptions; values pass the stages in order both ways; the rate is kept; scripts leave no process, and no goroutine but after a deadline; the runtime API is told the truth; refines `FnContract` on both sides of the pipeline; Invokes return; the lambda source comes back for the next event |

*The documents* of `FnRunner` (`MCFnRunner`) are in five groups.  23 are to be
refused, each for one reason: a missing or unknown object, a configuration of the
wrong type, one that is required, one that cannot be parsed, two keys for one.
44 send three events of the lambda source, decoded and raw, through eleven
pipelines to the identity fn and to the http fn; the pipelines are chosen so that
each transformation meets each kind of value it distinguishes, on both ways, so
that order shows, and so that a nested pipeline has stages behind it.  8 let
Invokes meet: overlapping cron jobs that share a breaker or a limiter, with
timeouts, over scripts, and the three hosts.  7 are about what may never return: jq
programs with endless results, on either way, with a timeout in front of them, behind
them, or none, and http sources with and without a listener, whose context may end.
2 have two limiters, or two breakers, in one pipeline.

*Bounds.*  An Invoke, a delivery or a request is used once, so the number of
inputs bounds a behaviour.  Three serial Invokes are what the cli service's
stale lines and errors need: one that gives up, one that is hit, and one that
comes after (an error of the first child can kill the second, whose error can
hit the third).  They begin in the order of their numbers, which loses nothing,
for they are interchangeable; a symmetry set would not be sound for a liveness
property.  In the pool the same three Invokes overlap, on two Fns, so that one waits
for an Fn while the service and the other Fn are used, and each meets what those
before it have left in the service.  Two Invokes suffice for the tap process,
because each may start one, and a process started by the second replaces that of
the first.  Two members and one partition give
every race for the ownership of a partition; what two partitions of one session
add is in `KafkaRelay`, and in the proofs, which hold for any number.  Two messages are one
that fails and one behind it, and each may be there from the start or come later, so
that the member without `Oldest` skips none, one or both.  That member can skip a
message that the other one has failed for, or was given up with.  The two delivery tokens of the servicebus model
are as many as there are receivers, and are used again and again, so that the
goroutine of an earlier delivery meets later ones.

In `KafkaRelay` the claims of one member make two overlapping first Invokes
(`a1`, `a2`), which is what the Once is for, and a third Invoke is left to a member that
has a middleware of its own and takes a partition over from the first, or shares
the two with it: it joins when both have begun (`JoinsLate`).  One disturbance
(`MaxFaults`) is enough for a message to be relayed by a process that does not
commit it and again by one that does; sends may fail any number of times.  The messages
are there from the start and both members have `Oldest`: a member without it would
have nothing to do here, and what it skips is the matter of `KafkaGroup`.  The run stops
when the three Invokes are used; the proofs hold for any number of everything.

In `FnRunner` one of the three events is garbled and one too large for a pipe, so
each kind is met by an event before or behind it.  Jobs with a script or a timer
are two, because each brings a process or a timer of its own to interleave;
others are three, so that one is turned back by the breaker that another has
opened while a third is inside.  The breaker opens after its first failure
(`MaxFailures = 0`) and lets one trial through; the library's defaults differ in
the first number only (6 failures in a row), and the transitions do not depend on
it.  `Burst = 1` lets the second job wait.  Tokens and generations of the breaker
are bounded by the number of jobs.

*Fairness.*  Weak fairness of the goroutines: the Go scheduler runs what can
run.  In `PooledServices` the timer of the pool and the Fns that are not services
are fair besides; that the service returns is not assumed, it follows from its own
goroutines.  Besides: a child of the cli service that is alive answers what it reads, and
the tapped process reads what it is sent (`ReadingSpec`), but neither is made to
end; f returns; timers fire.  In `FnRunner` the main goroutine, the goroutines of an
Invoke and the timers are fair, the limiter makes tokens, and an http endpoint
answers; no script need end, no event or job need come, and no context is ended
by force, so `InvokeReturns` is about Invokes that nothing in their configuration
can block for ever (`Bounded`): a script or an endless jq program has a context that
will end.  The http fn is in `Bounded` because its endpoint is assumed to answer, not
because of a deadline, which it does not observe.  In no other run is a context made to end: those of the
cli service and the http source show that nothing waits for it that should not.
Strong fairness stands for brokers that do not discriminate: a member that tries
again and again to join joins; a message that is visible again and again is
received; an f called again and again on a message succeeds in the end, and so
does the commit, completion or deletion that is tried again and again.
The liveness properties of the queues say what must happen if the disturbances
end (`<>[][~Disturbance]_vars => ...`), because nothing can happen if, say, a
lock is always lost first; the disturbances themselves are unrestricted.

*CHECK_DEADLOCK FALSE* stands where a run ends: every input has been handled,
every message is gone, or the document was refused.

*Violations.*  The three runs that find a violation check what a test or a
document of the repository says; `PROJECT.json` quotes it under "findings".
Exceptions in the properties, and counterexamples to variations of them that are
not listed as runs, tell where the boundaries of the claims are:

- `CliSerial`, `InvokeReturns` without `LeftAlone`: a child that exits with status 0
  instead of an answer leaves its Invoke waiting until its deadline, if it has
  one, because only a non-nil error of `cmd.Wait` is sent (service.go, line 93).
- `CliSerial` without "until an Invoke has failed": the waiter of a killed child
  clears `alive` when its successor is the current child, and a second child is
  started beside it; and its exit error fails, and kills the child of, the next
  Invoke.  With `Serial = FALSE` one child is given two inputs.
- `PooledServices`, `AllFnsKept` without "before a panic": the pool loses the Fn that panics.
- `TapProcess` under `FairSpec`: a process that does not read blocks Invokes.
- `BusReceivers` with the fault `"renew"`, and no exception for it in
  `UndisturbedFn`: a renewal that fails just before f returns cancels the context
  that `Complete` uses after it, although the lock is held.
- `KafkaGroup`, `InOrder` and `ImplementsDelivery` without `skipped`: a member without
  `Oldest` skips the first message of a partition, which f may have failed for on the
  other one, handles the second, and commits both.
- `FnRunner`, `AcceptedIsUsable`: an http source given as a bare string is accepted
  and has no listener, so that its server panics (`http.go`, lines 47 to 52 and 72); a
  circuitbreaker given as a bare string is accepted and panics at its first Invoke; a script whose command cannot be
  started, or whose deadline comes before its process is there, panics in place of
  an error (script.go, lines 50 and 54).
- `FnRunner`, `LeaksOnlyAfterDeadline`: after a deadline the goroutine of a script
  stays for ever at its send.
- `FnRunner`, `Bounded`: an input too large for the pipe blocks a script's Invoke
  even beyond its deadline; without a deadline a script that does not end does, and
  a jq program that always has another result (`jq.go`, lines 45 to 54).  If the last
  is dropped from `Bounded`, both `InvokeReturns` and `AsksForEvents` are violated.

## 4. Proofs

TLAPS checks the theorems for every value of the constants that the named
assumptions of the modules allow.

`CliServiceProofs`.  `Typing` needs no assumption on the use of the service; the
others are for Invokes one after the other (`Serial`), any number of them, and
all faults.  The invariant has two layers.  `SerialInv` always holds: at most one
Invoke is under way, what each step of `start()` leaves for the next
(`Starting`: when `alive` is read as true, stdin belongs to the current child),
and an Invoke that waits does so for the child it wrote to, which is also the
one `kill()` hits (`Waiting`).  `Clean` holds until an Invoke has failed: only
the current child runs and is waited for (`OneChild`), and at most one line is
under way, of the Invoke that waits for it (`OwnLines`, `OneLine`).
`FailureKillsChild` follows from the first layer; `RepliesAreOwn`,
`ChildIsAlone`, `InputIsAlone` and the refinement of `FnContract` from the
second.  No failure is ever taken back (`FailedStays`), so the second layer is
left once and for all, and the refinement treats answers to other inputs from
then on as errors.

`WaiterIsServed` (`NoneWaitsInVain`) is the safety part of `InvokeReturns`, and
follows from the first layer too: an Invoke that waits has what will end its wait
ahead of it.  While its child runs, its line is in the child's stdin, or an answer
is in the pipe or the channel; when the child has failed, its error is on its way.
The exception is again the child that exits with status 0.  The invariant adds to
`SerialInv` that every child has its goroutines once it is started (`Attended`).

`PoolProofs`.  `PoolInv`: during configuration the channel holds the Fns made so
far; an Invoke holds an Fn exactly between `Acquire` and its end; an Fn is in
one place, the channel, without repetition, or one Invoke's hands (`OnePlace`).
That a put-back has room (`PutBackHasRoom`) is a counting argument: the channel
has no repetitions and misses the Fn that is put back (`RoomFor`).  For any
concurrency, the default included.

The second half is about `PooledService`, where the assumption of
`CliServiceProofs`, `Serial`, is discharged.  An Invoke is inside the service only
while it has the Fn (`InService`), and `OnePlace` lets one Invoke have it; so whoever
calls the service finds nobody in it (`CallServiceBegins`), and the composition
implements both of its parts, the pool (`PooledIsPool`) and the service with a caller
that keeps its Invokes apart (`InvokesAreApart`, which states
`KeepsInvokesApart`).  The invariants and the theorems of `CliServiceProofs`,
instantiated for `Apart`, then hold of a service in a pool without an assumption
(`ServiceInPool`).  `PooledRefinement` adds that what the pool returns is what
its service has returned (`Passed`).

`TapMiddlewareProofs`.  Types, and `ProcessIsAlone`: `OneProcess` is inductive with the
types, because it says of each goroutine under the write lock what it will do to
`alive`.  `LinesAreTogether` and `TapCompleteness` need the other side of the
RWMutex, the readers that write lines.  `LockIsHeld`: nobody starts a process
while an Invoke is between its lines, so stdin stays what it was.
`LinesAreGood` says of an Invoke and a process which lines have reached its pipe
or were read from it (`Got`), from where the Invoke is: those it has tapped, in
their order, none of those to come, and in no other process.  A line is appended
behind all that was got, a read moves the head of the pipe to what was read, and
the end of a process cuts the pipe, which excuses completeness only
(`TapAppends`, `ReadKeeps`, `EndCuts`).  `LockIsGivenBack` says who can hold the lock,
and that each holder has a step to go.  For any number of Invokes, lines and any
capacity of the pipe.

`KafkaProofs`.  About the source, for any number of members, partitions and messages, and all
faults: types, order and the refinement of `DeliveryContract`.  The invariant
says that whatever is committed was handled or skipped (`MarkedHandled`), that a claim's
mark has everything up to it handled or skipped and its next message is the one after the
mark (`Claims`), and that a partition's owner is in a session with a claim on it
whose mark is not behind the committed one (`Owners`).  The last part is what
keeps a commit: an evicted member still marks, but commits nothing, and who owns
a partition started where the last commit ended.  Order and refinement are about
sources that do not ignore errors; types hold for both.  `NothingSkipped` takes the
exception away where every member has `Oldest`: then what is committed was handled;
and `SkippedAtFirst` bounds it elsewhere: a partition that has a committed message
loses none.  `ClosedServesNobody` and
`ClosedUntilCrash` show for every group what the run `KafkaRestart` meets in one: a
member whose client was closed serves nobody until its process is started anew.

About the middleware: `Initialized` says that nobody is past the Once of a process
before it is done, and that there is then a producer or an error that stops them;
`Told` what is known of an Invoke, and of the topics, from where it is.
`ProducerFirst` and `TopicsAgree` state `ProducerIsReady` and
`TopicsTellOutcome`, for any number of processes, that end and begin again, and of
first Invokes.

About both: `KafkaRelay` implements its parts (`RelayIsBoth`), so their invariants
hold in it, `NothingSkipped` and `SkippedAtFirst` included.  `RelayRefinement` states
`ImplementsRelay`: a message that is committed has its output in the success topic,
unless it was skipped, and a commit stays.  The invariant
`RelayInv` ties a claim to its Invoke (`Calls`), an Invoke to one message
(`Subjects`), and what the source counts as handled to what has been relayed
(`HandledIsRelayed`): an Invoke that has returned an output told so because its output
was sent (`Told`).  Then what is committed was handled by the invariant of the source, and
nothing that was relayed is taken back (`RelayedStays`).

`ServiceBusSourceProofs`.  The refinement of `DeliveryContract` from
`CompletesHandled`: a delivery on its way to `Complete` has a handled message.
`NotDisturbed` needs `RenewalFailed` besides: a renewal goroutine that is about to
cancel, however old, has lost its lock or works for a delivery that is over, so it
never meets a later one that holds its lock.  `RenewalIsTold` is the safety part of
`RenewalEnds`: running is false before a message is settled, on every way out.

`SqsSourceProofs`.  `IInv`: what is being deleted was handled
(`DeletesHandled`); a message that a node has is still held by it, unless it
became visible meanwhile (`Held`); and a handled message with no reason to be seen
again is gone, or held by the node that is deleting it (`Settling`).
`HandledOnce` follows from the last two: nobody else can receive it.

`HttpSourceProofs`.  `NoHandlerLeft` from `Drained`: once Shutdown has found no
connection there is none, and none is opened, because the listener is closed
before.  `StatusTrue` from `NotAnswered` and what `Response` makes of each output.
`SendHasRoom` and `ContextEndsServe` from `OneError`: the goroutine sends once, Serve
receives once, and that the context has ended is what let it go on; the second holds
for the failure of the server in the run `HttpServerFails` too.

`FnRunnerProofs`.  All invariants that the run `FnRunner` checks, and the
refinement of `FnContract` on both sides of the pipeline, for any documents, with
pipelines of any length, any number of events, jobs and Invokes that overlap, any
burst and any breaker.  `RunnerAssumption` only says
what the constants are; that the items of an array are a sequence is part of it.

The argument has four layers.

- *What a configuration can be.*  `ConfigureRunner` takes what `Runner` makes of a
  document.  `ChainAccepted` shows, through the flattening of nested pipelines
  (`FlattenFunction`), that each stage of the chain was accepted by its own
  `Configure`, and `RunnerAccepted` the same of source and fn; `SetupOK` keeps it.
- *What a stage makes of a value.*  It is about the same input, an error stays
  one, and a stage whose context has ended either does what it does without one
  or makes an error (`DoneMakesErrors`).  The reference functions unfold from
  both ends (`InwardsUnfolds`, `OutwardsUnfolds`).  These are recursive functions;
  that they have a value at all is proved by `Iterates`, from an induction on the
  least element of a set (`Least`, `Induction`).
- *What a step is.*  `PipelineMoves`, `FnMoves`, `LambdaSteps`, `CronSteps` and
  `Arrivals` reduce each action of a part to a few kinds of steps of one Invoke
  (`Enters`, `Passes`, `TurnsBack`, `Calls`, `ComesBack`, `Finishes`, ...), which
  change nothing of other Invokes (`Only`).  This is where the part's definitions
  are expanded; what follows uses the kinds only.
- *The invariant* `IInv`, kept by each kind of step (`Preserved`).  `FlowOK`
  relates the two calls of an Invoke to where it is in the pipeline.  `OrderOK`
  gives its value at each stage: on its way in, what the stages it has passed
  have made of the input; on its way out, what those it has come back through have
  made of the reply, unless an error has taken its place.  `RateOK` is a counting argument
  for each limiter: those who are past its stage, with the tokens that are left in
  it, are no more than the tokens it ever had, and nobody is past a limiter that has
  not been made.  `ScriptOK` ties the goroutine of a script and its process to its
  Invoke: one that has returned has none, one that has given up has a process that
  was killed.  `SourceOK` says that no event is ahead of the loop of the lambda
  source, which makes the truth of its answers inductive.  `PanicOK` names the
  reasons of a panic: an http source or a circuitbreaker without a configuration, or a
  script process that is not there.

`PipelineInOrder` is `OrderOK` at the ends of the way; `RateKept`, `NoOrphans`,
`LeaksOnlyAfterDeadline`, `AnswersAreTrue`, `AcceptedIsUsable` and the types follow
from their parts; the contract from the kinds of steps, each of which starts,
ends or leaves alone a call, and from `ValuesOK`: an answer is about its own input.

*Only model-checked:* the liveness properties, which are out of the prover's reach
(`WaiterIsServed`, `RenewalIsTold`, `LockIsGivenBack` and `SendHasRoom` are the safety
parts of some).  Every invariant and every refinement that a passing run checks is
proved.

## 5. Not modelled, and the plan

Left out for good:

- The syntax of configurations: flags, files and YAML, decode hooks
  (`decode_hooks.go` of kafka and others), parsing of commands, durations and
  cron specs apart from whether it fails.  Errors that an accepted configuration
  rules out are no actions: `ErrUnconfiguredCmd`, an error of `AddFunc`.
- Pure input and output: the healthcheck's static endpoint, headers and cookies of
  http, the goroutines that log the stderr of a process, the debug output.
- The external libraries themselves: sarama and the brokers, the cron library, the
  token bucket, the circuit breaker and jq are modelled as the code uses them.
- Lengths of lines: `bufio.Scanner` gives up at 64 KiB in the cli service.
- Loaders in place of a source or an fn, and pipelines nested twice.

What could follow:

1. `CliService` with a line that is too long for its scanner: the child blocks, and the
   Invoke depends on its deadline.
2. The pooled service as an fn of `FnRunner`, and the http and kafka sources as its
   sources.
3. Proofs: action properties of the restart loop, and of the breaker's generations.
