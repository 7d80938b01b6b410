------------------------------ MODULE Pipeline ------------------------------
(***************************************************************************)
(* An fn wrapped in a pipeline of middleware: run/middleware/pipeline and  *)
(* the middleware timeout, ratelimiter, circuitbreaker, json, jq, key,     *)
(* debug and healthcheck.                                                  *)
(*                                                                         *)
(* An Invoke goes inwards through the stages of the chain, calls the fn,   *)
(* and comes back outwards; a stage may turn it back.  Overlapping Invokes *)
(* share the objects of the stages: every ratelimiter has a limiter, which *)
(* its first Invoke makes, and every circuitbreaker a breaker, which is    *)
(* there from the start.                                                   *)
(***************************************************************************)
EXTENDS Naturals, FiniteSets, Transforms

CONSTANTS
  Inputs,
  Burst,         \* of a rate limiter
  MaxFailures,   \* a breaker opens after more failures than these in a row
  MaxRequests    \* trial requests of a half-open breaker

VARIABLES
  chain,     \* the configured stages; the runner sets it
  cancelled, \* the context of the source has ended; others change it
  outer,     \* the Invoke of the pipeline, as in FnContract
  inner,     \* the Invoke of the fn, as in FnContract
  value,     \* the value on its way
  panicked,
  at,        \* the stage an Invoke has reached
  way,       \* the direction it goes
  expired,   \* the timeout stages that have ended the context behind them
  limiter,   \* the limiters that have been made, by their stages: the tokens left
             \* in them and, as history, all that were put in
  breaker,   \* the breakers that have been used, by their stages
  admitted,  \* the Invokes that are in a breaker, and its generation when they got in
  given,     \* history: what the fn was called with
  reply      \* history: what the fn returned

stages == <<at, way>>
objects == <<limiter, breaker, admitted>>
history == <<given, reply>>
pipelineVars == <<stages, expired, objects, history>>

Ways == {"idle", "inwards", "fn", "outwards", "done"}

Breakers == [state : {"closed", "open", "half"}, generation : Nat,
             failures : Nat, successes : Nat, requests : Nat]

NewBreaker(state, generation) ==
  [state |-> state, generation |-> generation,
   failures |-> 0, successes |-> 0, requests |-> 0]

Init ==
  /\ at = [i \in Inputs |-> 0]
  /\ way = [i \in Inputs |-> "idle"]
  /\ expired = [i \in Inputs |-> {}]
  /\ limiter = <<>>
  /\ breaker = <<>>
  /\ admitted = {}
  /\ given = [i \in Inputs |-> Error(i)]
  /\ reply = [i \in Inputs |-> Error(i)]

Stage(i) == chain[at[i]]

\* A function with another value at n, which may be new.
Update(f, n, x) == [m \in DOMAIN f \cup {n} |-> IF m = n THEN x ELSE f[m]]

Inside(i, key) ==
  /\ way[i] = "inwards"
  /\ at[i] <= Len(chain)
  /\ Stage(i).key = key

Outside(i) == way[i] = "outwards" /\ at[i] > 0

\* Mutant of Done: the timeout middleware does not pass its context on.
DoneIfCancelled(i, k) == cancelled

\* The context that the stage at k gets, or the fn if k is after the last one.
Done(i, k) == cancelled \/ \E t \in expired[i] : t < k

Timeouts(i, k) ==
  {t \in DOMAIN chain : t < k /\ chain[t].key = "middleware/timeout"}

Proceed(i, v) ==
  /\ at' = [at EXCEPT ![i] = @ + 1]
  /\ value' = [value EXCEPT ![i] = v]
  /\ UNCHANGED way

\* The stage does not call the next one: it returns an error.
TurnBack(i) ==
  /\ at' = [at EXCEPT ![i] = @ - 1]
  /\ way' = [way EXCEPT ![i] = "outwards"]
  /\ value' = [value EXCEPT ![i] = Error(i)]

-----------------------------------------------------------------------------
(* Inwards.                                                                *)

Enter(i) ==
  /\ outer[i] = "running"
  /\ way[i] = "idle"
  /\ way' = [way EXCEPT ![i] = "inwards"]
  /\ at' = [at EXCEPT ![i] = 1]
  /\ UNCHANGED <<outer, inner, value, panicked, expired, objects, history>>

\* iter.Next always has another result of this program, until its context ends.
Endless(i, jq) ==
  Stage(i).key = "middleware/jq" /\ jq = "endless" /\ ~Done(i, at[i])

\* The stages that look at nothing but the value; debug, healthcheck and
\* timeout leave it as it is.
Transform(i) ==
  /\ \E key \in {"middleware/json", "middleware/jq", "middleware/key",
                 "middleware/debug", "middleware/healthcheck",
                 "middleware/timeout"} : Inside(i, key)
  /\ ~Endless(i, Stage(i).in)
  /\ LET v == Inward(Stage(i), value[i], Done(i, at[i]))
     IN IF IsError(v) THEN TurnBack(i) ELSE Proceed(i, v)
  /\ UNCHANGED <<outer, inner, panicked, expired, objects, history>>

\* A timer of the timeout middleware ends the context it gave to what is
\* behind it; Invoke's return cancels the timer.
Expire(i) ==
  /\ way[i] \in {"inwards", "fn", "outwards"}
  /\ \E t \in Timeouts(i, IF way[i] = "outwards" THEN at[i] + 1 ELSE at[i]) :
       /\ t \notin expired[i]
       /\ expired' = [expired EXCEPT ![i] = @ \cup {t}]
  /\ UNCHANGED <<outer, inner, value, panicked, stages, objects, history>>

NewLimiter == [tokens |-> Burst, made |-> Burst]

\* Mutant of MakeLimiter: without the Once, every Invoke makes a limiter.
MakeLimiterAgain(i) ==
  /\ Inside(i, "middleware/ratelimiter")
  /\ limiter' = Update(limiter, at[i], NewLimiter)
  /\ UNCHANGED <<outer, inner, value, panicked, stages, expired, breaker, admitted, history>>

\* rl.once.Do: of overlapping first Invokes, one makes the limiter.
MakeLimiter(i) ==
  /\ Inside(i, "middleware/ratelimiter")
  /\ at[i] \notin DOMAIN limiter
  /\ limiter' = Update(limiter, at[i], NewLimiter)
  /\ UNCHANGED <<outer, inner, value, panicked, stages, expired, breaker, admitted, history>>

\* limiter.Wait(ctx) gets a token of the limiter that all Invokes share.
TakeToken(i) ==
  /\ Inside(i, "middleware/ratelimiter")
  /\ at[i] \in DOMAIN limiter
  /\ limiter[at[i]].tokens > 0
  /\ ~Done(i, at[i])
  /\ limiter' = [limiter EXCEPT ![at[i]].tokens = @ - 1]
  /\ Proceed(i, value[i])
  /\ UNCHANGED <<outer, inner, panicked, expired, breaker, admitted, history>>

\* limiter.Wait(ctx) fails: the context has ended, or would before the turn, or
\* the limiter never has a token.
GiveUpWaiting(i) ==
  /\ Inside(i, "middleware/ratelimiter")
  /\ at[i] \in DOMAIN limiter
  /\ \/ Done(i, at[i])
     \/ limiter[at[i]].tokens = 0 /\ (Timeouts(i, at[i]) # {} \/ Burst = 0)
  /\ TurnBack(i)
  /\ UNCHANGED <<outer, inner, panicked, expired, objects, history>>

\* External: time passes and a limiter makes a token.
Refill ==
  /\ \E n \in DOMAIN limiter :
       /\ limiter[n].tokens < Burst
       /\ limiter' = [limiter EXCEPT ![n] = [tokens |-> @.tokens + 1, made |-> @.made + 1]]
  /\ UNCHANGED <<outer, inner, value, panicked, stages, expired, breaker,
                 admitted, history>>

-----------------------------------------------------------------------------
(* The circuit breaker: cb.Execute of the gobreaker library, external but   *)
(* for the use of one cb by all Invokes.                                    *)

Breaker(n) == IF n \in DOMAIN breaker THEN breaker[n] ELSE NewBreaker("closed", 0)

\* An open breaker is half-open once its timeout has passed.
Current(b) ==
  {b} \cup {NewBreaker("half", b.generation + 1) : s \in {b.state} \cap {"open"}}

Admits(b) ==
  b.state = "closed" \/ (b.state = "half" /\ b.requests < MaxRequests)

\* A circuitbreaker that no Configure method has run on has no cb.
MissBreaker(i) ==
  /\ Inside(i, "middleware/circuitbreaker")
  /\ ~Stage(i).set
  /\ panicked' = TRUE
  /\ UNCHANGED <<outer, inner, value, pipelineVars>>

PassBreaker(i) ==
  /\ Inside(i, "middleware/circuitbreaker")
  /\ Stage(i).set
  /\ \E b \in Current(Breaker(at[i])) :
       IF Admits(b)
       THEN /\ breaker' = Update(breaker, at[i], [b EXCEPT !.requests = @ + 1])
            /\ admitted' = admitted \cup {<<i, at[i], b.generation>>}
            /\ Proceed(i, value[i])
       ELSE /\ breaker' = Update(breaker, at[i], b)
            /\ TurnBack(i)
            /\ UNCHANGED admitted
  /\ UNCHANGED <<outer, inner, panicked, expired, limiter, history>>

AfterSuccess(b) ==
  IF b.state = "half" /\ b.successes + 1 >= MaxRequests
  THEN NewBreaker("closed", b.generation + 1)
  ELSE [b EXCEPT !.failures = 0, !.successes = @ + 1]

AfterFailure(b) ==
  IF b.state = "half" \/ b.failures + 1 > MaxFailures
  THEN NewBreaker("open", b.generation + 1)
  ELSE [b EXCEPT !.failures = @ + 1, !.successes = 0]

\* A result of an earlier generation does not count.
BreakerAfter(i, ok) ==
  LET b == Breaker(at[i])
  IN CASE <<i, at[i], b.generation>> \notin admitted -> b
       [] <<i, at[i], b.generation>> \in admitted /\ ok -> AfterSuccess(b)
       [] <<i, at[i], b.generation>> \in admitted /\ ~ok -> AfterFailure(b)

-----------------------------------------------------------------------------
(* The fn, and outwards.                                                   *)

CallFn(i) ==
  /\ way[i] = "inwards"
  /\ at[i] = Len(chain) + 1
  /\ inner' = [inner EXCEPT ![i] = "running"]
  /\ way' = [way EXCEPT ![i] = "fn"]
  /\ given' = [given EXCEPT ![i] = value[i]]
  /\ UNCHANGED <<outer, value, panicked, at, expired, objects, reply>>

FnReturns(i) ==
  /\ way[i] = "fn"
  /\ inner[i] \in {"replied", "failed"}
  /\ way' = [way EXCEPT ![i] = "outwards"]
  /\ at' = [at EXCEPT ![i] = @ - 1]
  /\ reply' = [reply EXCEPT ![i] = value[i]]
  /\ UNCHANGED <<outer, inner, value, panicked, expired, objects, given>>

\* Mutant of ComeBack: the output is transformed on the way of the input.
ComeBackAsInput(i) ==
  /\ Outside(i)
  /\ value' = [value EXCEPT ![i] = IF IsError(@) THEN @
                                   ELSE Inward(Stage(i), @, Done(i, at[i]))]
  /\ at' = [at EXCEPT ![i] = @ - 1]
  /\ UNCHANGED <<outer, inner, panicked, way, expired, objects, history>>

\* A stage returns to the one in front of it; an error passes unchanged.  The
\* timeout middleware cancels its context.
ComeBack(i) ==
  /\ Outside(i)
  /\ IsError(value[i]) \/ ~Endless(i, Stage(i).out)
  /\ value' = [value EXCEPT ![i] = Outward(Stage(i), @, Done(i, at[i]))]
  /\ at' = [at EXCEPT ![i] = @ - 1]
  /\ expired' = [expired EXCEPT ![i] = @ \ {at[i]}]
  /\ IF Stage(i).key = "middleware/circuitbreaker"
     THEN /\ breaker' = Update(breaker, at[i], BreakerAfter(i, ~IsError(value[i])))
          /\ admitted' = {a \in admitted : a[1] # i \/ a[2] # at[i]}
     ELSE UNCHANGED <<breaker, admitted>>
  /\ UNCHANGED <<outer, inner, panicked, way, limiter, history>>

\* Mutant of Return: an error is returned as if it were an output.
ReturnOutput(i) ==
  /\ way[i] = "outwards"
  /\ at[i] = 0
  /\ way' = [way EXCEPT ![i] = "done"]
  /\ outer' = [outer EXCEPT ![i] = "replied"]
  /\ UNCHANGED <<inner, value, panicked, at, expired, objects, history>>

Return(i) ==
  /\ way[i] = "outwards"
  /\ at[i] = 0
  /\ way' = [way EXCEPT ![i] = "done"]
  /\ outer' = [outer EXCEPT ![i] =
                 IF IsError(value[i]) THEN "failed" ELSE "replied"]
  /\ UNCHANGED <<inner, value, panicked, at, expired, objects, history>>

-----------------------------------------------------------------------------
Step(i) == \/ Enter(i) \/ Transform(i)
           \/ MakeLimiter(i) \/ TakeToken(i) \/ GiveUpWaiting(i)
           \/ MissBreaker(i) \/ PassBreaker(i)
           \/ CallFn(i) \/ FnReturns(i) \/ ComeBack(i) \/ Return(i)

-----------------------------------------------------------------------------
(* Properties.                                                             *)

TypeOK ==
  /\ at \in [Inputs -> 0 .. Len(chain) + 1]
  /\ way \in [Inputs -> Ways]
  /\ expired \in [Inputs -> SUBSET DOMAIN chain]
  /\ DOMAIN limiter \subseteq DOMAIN chain
  /\ \A n \in DOMAIN limiter : limiter[n] \in [tokens : 0 .. Burst, made : Nat]
  /\ \A n \in DOMAIN breaker : breaker[n] \in Breakers
  /\ admitted \subseteq Inputs \X (DOMAIN chain) \X Nat

\* However many Invokes start at once, first Invokes included, the fn is called
\* no more often than the rate of each limiter in front of it allows: the burst,
\* and the tokens made since.
RateKept ==
  \A n \in DOMAIN chain :
    chain[n].key = "middleware/ratelimiter" =>
      Cardinality({i \in Inputs : inner[i] # "idle"})
        <= IF n \in DOMAIN limiter THEN limiter[n].made ELSE 0
=============================================================================
