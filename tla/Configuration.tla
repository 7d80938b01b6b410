--------------------------- MODULE Configuration ---------------------------
(***************************************************************************)
(* How fnrunner builds a source, a pipeline and an fn from a configuration *)
(* document: the registry (run.go, main.go), the dispatch of               *)
(* config.Configure, the loaders, the middleware pipeline and              *)
(* runner.ConfigureMap.                                                    *)
(*                                                                         *)
(* What may fail is a set with one element, or none if it fails.  Keys are *)
(* written without their prefix "fnrun.".  A string that the object it is  *)
(* meant for cannot parse is written "invalid".                            *)
(***************************************************************************)
EXTENDS Naturals, SequencesExt

Nil == [type |-> "nil"]
Str(s) == [type |-> "string", text |-> s]
Bool(b) == [type |-> "bool", is |-> b]
Map(m) == [type |-> "map", pairs |-> m]
Array(s) == [type |-> "array", items |-> s]

Registry ==
  [source |-> {"source", "source/cron", "source/lambda", "source/http",
               "source/kafka", "source/sqs", "source/azure/servicebus"},
   middleware |-> {"middleware", "middleware/circuitbreaker",
                   "middleware/debug", "middleware/healthcheck",
                   "middleware/jq", "middleware/json", "middleware/kafka",
                   "middleware/key", "middleware/ratelimiter",
                   "middleware/tap", "middleware/timeout"},
   fn |-> {"fn", "fn/cli", "fn/http", "fn/identity", "fn/pool"}]

\* FindSource, FindMiddleware and FindFn.
Find(kind, key) == key \in Registry[kind]

-----------------------------------------------------------------------------
(* config.Configure.                                                       *)

\* The objects that have a Configure method for values of a type.
Configurers(type) ==
  CASE type = "nil" -> {"middleware/healthcheck"}
    [] type = "string" ->
         {"source", "fn", "source/cron", "source/sqs", "fn/cli",
          "middleware/key", "middleware/timeout", "middleware/tap"}
    [] type = "bool" -> {"middleware/debug"}
    [] type = "array" -> {"middleware"}
    [] type = "map" ->
         {"source", "fn", "source/lambda", "source/http", "source/kafka",
          "source/sqs", "source/azure/servicebus", "fn/cli", "fn/http",
          "fn/pool", "middleware/circuitbreaker", "middleware/jq",
          "middleware/json", "middleware/kafka", "middleware/ratelimiter",
          "middleware/tap"}
    [] OTHER -> {}

\* Mutant of Required: these objects do without a configuration.
RequiredByLoaders == {"source", "fn"}

\* The objects whose RequiresConfig returns true.
Required ==
  {"source", "fn", "source/cron", "source/kafka", "source/sqs",
   "source/azure/servicebus", "fn/cli", "fn/http", "fn/pool",
   "middleware/jq", "middleware/kafka", "middleware/tap"}

\* A cronspec, a duration or a command that can be parsed.
ConfigureString(v) == v.text # "invalid"

\* Values that can be decoded and parsed; circuitbreaker ignores the errors.
ConfigureMap(target, v) ==
  target = "middleware/circuitbreaker" \/ Str("invalid") \notin Range(v.pairs)

\* Configure(target, v) succeeds, for a target that holds no other objects.
ConfigureLeaf(target, v) ==
  IF target \in Configurers(v.type)
  THEN CASE v.type = "string" -> ConfigureString(v)
         [] v.type = "map" -> ConfigureMap(target, v)
         [] v.type \in {"nil", "bool"} -> TRUE
         [] v.type = "array" -> FALSE
  ELSE v.type = "nil" /\ target \notin Required

\* GetSinglePair, and a string as a key without a value.
SinglePair(v) ==
  CASE v.type = "string" -> {<<v.text, Nil>>}
    [] v.type = "map" ->
         {<<k, v.pairs[k]>> : k \in {x \in DOMAIN v.pairs : DOMAIN v.pairs = {x}}}
    [] OTHER -> {}

\* What the loaders of sources and fns make of their configuration.  No document
\* has a loader in place of a source or an fn.
Load(kind, v) ==
  {[key |-> p[1], with |-> p[2]] :
     p \in {q \in SinglePair(v) :
              Find(kind, q[1]) /\ ConfigureLeaf(q[1], q[2])}}

LoadSource(v) == Load("source", v)

LoadFn(v) == Load("fn", v)

-----------------------------------------------------------------------------
(* The pipeline.  A pipeline may have pipelines as its members, which may   *)
(* not; composing them one after the other is composing all of their        *)
(* middleware.                                                              *)

\* A middleware with its configuration, "set" if a Configure method ran.
Stage(key, v) ==
  LET Text(f) == IF v.type = "map" /\ f \in DOMAIN v.pairs
                 THEN v.pairs[f].text ELSE ""
  IN [key |-> key, set |-> v.type # "nil",
      in |-> IF v.type = "string" THEN v.text ELSE Text("input"),
      out |-> Text("output")]

\* A member of a nested pipeline is found and configured.
ConfigureMember(e) ==
  \E p \in SinglePair(e) : Find("middleware", p[1]) /\ ConfigureLeaf(p[1], p[2])

\* A member of the runner's pipeline, which may be a pipeline.
ConfigureEntry(e) ==
  \E p \in SinglePair(e) :
    /\ Find("middleware", p[1])
    /\ IF p[1] = "middleware" /\ p[2].type = "array"
       THEN \A n \in DOMAIN p[2].items : ConfigureMember(p[2].items[n])
       ELSE ConfigureLeaf(p[1], p[2])

Leaves(e) ==
  LET p == CHOOSE q \in SinglePair(e) : TRUE
  IN IF p[1] = "middleware"
     THEN IF p[2].type = "nil" THEN <<>> ELSE p[2].items
     ELSE <<e>>

LeafStage(e) ==
  LET p == CHOOSE q \in SinglePair(e) : TRUE IN Stage(p[1], p[2])

\* compose: the first middleware is the outermost one.
Compose(items) ==
  LET leaves == FlattenSeq([n \in DOMAIN items |-> Leaves(items[n])])
  IN [n \in DOMAIN leaves |-> LeafStage(leaves[n])]

\* ConfigureArray of the pipeline; without configuration it has no stages.
Pipeline(v) ==
  CASE v.type = "nil" -> {<<>>}
    [] v.type = "array" ->
         {Compose(items) :
            items \in {s \in {v.items} :
              \A n \in DOMAIN s : ConfigureEntry(s[n])}}
    [] OTHER -> {}

-----------------------------------------------------------------------------
\* runner.ConfigureMap: source and fn are required.
Runner(document) ==
  {[source |-> s, chain |-> c, fn |-> f] :
     f \in LoadFn(document.fn),
     c \in Pipeline(document.middleware),
     s \in LoadSource(document.source)}
=============================================================================
