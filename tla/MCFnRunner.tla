----------------------------- MODULE MCFnRunner -----------------------------
(* fnrunner for TLC: the documents that are tried, and the number of jobs. *)
EXTENDS FnRunner, TLC

Doc(host, source, middleware, fn) ==
  [host |-> host, source |-> source, middleware |-> middleware, fn |-> fn]

Pair(k, v) == Map(k :> v)
Pairs(k, v, l, w) == Map(k :> v @@ l :> w)

lambda == Str("source/lambda")
rawLambda == Pair("source/lambda", Pair("jsonDeserializeEvent", Bool(FALSE)))
cron == Pair("source/cron", Str("@hourly"))
identity == Str("fn/identity")
post == Pair("fn/http", Pair("targetURL", Str("an address")))
script == Pair("fn/cli", Pairs("command", Str("a program"), "script", Bool(TRUE)))

timeout == Str("middleware/timeout")
setBreaker == Pair("middleware/circuitbreaker", Pair("timeout", Str("invalid")))
bareBreaker == Str("middleware/circuitbreaker")
rateLimit == Pair("middleware/ratelimiter", Pair("every", Str("1s")))
debug == Pair("middleware/debug", Bool(TRUE))
health == Str("middleware/healthcheck")
bareKey == Str("middleware/key")
key == Pair("middleware/key", Str("event"))
Json(in, out) == Pair("middleware/json", Pairs("input", Str(in), "output", Str(out)))
Jq(in, out) == Pair("middleware/jq", Pairs("input", Str(in), "output", Str(out)))
Nested(items) == Pair("middleware", Array(items))

\* Documents that fnrunner refuses, each for one reason.
Refused ==
  {Doc("restart", s, Nil, identity) :
     s \in {Nil, Bool(TRUE), Str("source/cron"), Pair("source/cron", Str("invalid")),
            Str("source/unknown"), Pair("source/cron", Bool(TRUE)),
            Pairs("source/cron", Str("@hourly"), "source/lambda", Nil)}}
  \cup
  {Doc("restart", cron, Nil, f) :
     f \in {Nil, Str("fn/cli"), Str("fn/http"), Str("fn/unknown"), Array(<<>>),
            Pair("fn/cli", Str("invalid")), Pair("fn/identity", Str("text"))}}
  \cup
  {Doc("restart", lambda, m, identity) :
     m \in {Str("text"), Pair("middleware/timeout", Str("1s")),
            Array(<<timeout, Str("middleware/unknown")>>), Array(<<Bool(TRUE)>>),
            Array(<<Str("middleware/jq")>>), Array(<<Jq("invalid", "")>>),
            Array(<<Pair("middleware/timeout", Str("invalid"))>>),
            Array(<<Pair("middleware/debug", Str("text"))>>),
            Array(<<Nested(<<health, Bool(TRUE)>>)>>)}}

\* Values on their way through pipelines, one event after the other.
Transformed ==
  {Doc("restart", s, Array(m), f) :
     s \in {lambda, rawLambda}, f \in {identity, post},
     m \in {<<>>, <<key>>, <<bareKey, debug>>, <<key, Json("serialize", "deserialize")>>,
            <<Json("serialize", ""), key>>, <<key, Json("deserialize", "serialize")>>,
            <<Nested(<<key, health>>), Jq("one", "many"), Json("serialize", "deserialize")>>,
            <<Jq("", "infinity")>>, <<Json("", "serialize"), Jq("", "infinity")>>,
            <<Jq("fails", "")>>, <<Json("other", "")>>}}

\* Overlapping jobs, and events with scripts.
Overlapping ==
  {Doc("library", cron, Array(<<setBreaker, timeout>>), script),
   Doc("restart", cron, Array(<<setBreaker, Json("serialize", "")>>), post),
   Doc("library", cron, Array(<<timeout, rateLimit, Jq("one", "")>>), identity),
   Doc("restart", cron, Array(<<rateLimit>>), identity)}
  \cup
  {Doc(h, lambda, Array(<<timeout, setBreaker>>), script) : h \in {"restart", "no restart"}}
  \cup
  {Doc("restart", cron, Array(<<bareBreaker>>), identity),
   Doc("library", lambda, Nil, script)}

\* What may never return: a program with endless results, with and without a
\* context that will end, and sources that wait for the end of theirs.
Endless ==
  {Doc("restart", lambda, Array(m), identity) :
     m \in {<<Jq("endless", "")>>, <<Jq("", "endless"), timeout>>,
            <<timeout, Jq("", "endless")>>}}
  \cup
  {Doc("library", cron, Array(<<timeout, Jq("endless", "")>>), identity),
   Doc("library", cron, Array(<<Jq("", "endless")>>), identity)}
  \cup
  {Doc("library", s, Nil, identity) :
     s \in {Str("source/http"), Pair("source/http", Pair("address", Str(":8080")))}}

\* Every stage has a limiter, or a breaker, of its own.
Several ==
  {Doc("restart", cron, Array(<<rateLimit, rateLimit>>), identity),
   Doc("restart", cron, Array(<<setBreaker, setBreaker>>), post)}

MCDocuments == Refused \cup Transformed \cup Overlapping \cup Endless \cup Several

\* There are two jobs where each has a process or a timer, three otherwise.
MCNext ==
  /\ Next
  /\ Source = "source/cron" /\ (Fn = "fn/cli" \/ Timed) => outer'[3] = "idle"

MCSpec == Init /\ [][MCNext]_vars /\ Fairness
=============================================================================
