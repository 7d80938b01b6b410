--------------------------- MODULE FnRunnerProofs ---------------------------
(***************************************************************************)
(* Proofs about FnRunner and the modules it is composed of, for any        *)
(* documents, inputs, bursts and breakers: what was accepted can be used,  *)
(* values go through the stages in order, the rate is kept, callers are    *)
(* told the truth, and scripts leave no process behind.                    *)
(***************************************************************************)
EXTENDS FnRunner, FiniteSetTheorems, SequenceTheorems, WellFoundedInduction, TLAPS

-----------------------------------------------------------------------------
(* The inductive invariant.                                                *)

Kinds == {"none", "envelope", "map", "wild", "json", "text", "list", "nil", "error"}

Values == [kind : Kinds, holds : Kinds, of : Inputs]

Statuses == {"idle", "running", "replied", "failed"}

Programs == {"configuring", "refused", "serving", "waiting", "exited", "returned"}

Serves == {"idle", "loop", "next", "invoke", "started", "returned"}

\* The types of what no part has for itself.
CallsOK ==
  /\ document \in Documents
  /\ program \in Programs
  /\ serve \in Serves
  /\ cancelled \in BOOLEAN /\ panicked \in BOOLEAN
  /\ setup.chain \in Seq(Range(setup.chain))
  /\ outer \in [Inputs -> Statuses]
  /\ inner \in [Inputs -> Statuses]
  /\ value \in [Inputs -> Values]
  /\ given \in [Inputs -> Values]
  /\ reply \in [Inputs -> Values]

\* A value is always about the input of its own Invoke.
ValuesOK == \A i \in Inputs : value[i].of = i

\* How far an Invoke is in the pipeline, and what its callers know of it.
FlowOK(i) ==
  LET n == Len(setup.chain)
  IN /\ outer[i] = "idle" => way[i] = "idle"
     /\ outer[i] \in {"replied", "failed"} <=> way[i] = "done"
     /\ way[i] = "idle" => at[i] = 0 /\ inner[i] = "idle" /\ expired[i] = {}
     /\ way[i] = "inwards" => at[i] \in 1 .. n + 1 /\ inner[i] = "idle"
     /\ way[i] = "fn" => at[i] = n + 1 /\ inner[i] # "idle"
     /\ way[i] = "outwards" => at[i] \in 0 .. n
     /\ way[i] = "done" => at[i] = 0
     /\ inner[i] = "running" => way[i] = "fn"
     /\ inner[i] = "failed" => IsError(value[i])
     /\ way[i] \in {"outwards", "done"} /\ inner[i] # "replied" => IsError(value[i])
     /\ outer[i] = "replied" => ~IsError(value[i])

\* A script, from where its Invoke and its goroutine are.
ScriptOK(i) ==
  /\ inner[i] = "idle" => pc[i] = "new"
  /\ pc[i] # "new" => Fn = "fn/cli"
  /\ pc[i] \in {"write", "select"} => inner[i] = "running"
  /\ pc[i] \in {"new", "write"} => routine[i] = "none"
  /\ pc[i] = "returned" => routine[i] \in {"none", "ended"}
  /\ pc[i] = "gaveUp" => /\ routine[i] \notin {"none", "starting", "forked"}
                         /\ proc[i] # "running"
  /\ routine[i] \in {"none", "starting"} => proc[i] = "none"
  /\ routine[i] \in {"forked", "waiting"} => proc[i] # "none"
  /\ routine[i] \in {"sendError", "sendOutput", "ended"} => proc[i] # "running"

\* Before Run, nothing has happened.
Configured == program \notin {"configuring", "refused"}

MainOK ==
  ~Configured => /\ serve = "idle" /\ event = 0 /\ setup.chain = <<>>
                 /\ \A i \in Inputs : outer[i] = "idle"

\* Of events to come the API has no answer, nor the pipeline an Invoke.
SourceOK ==
  /\ serve = "invoke" => event \in Inputs
  /\ serve = "invoke" => Source = "source/lambda"
  /\ \A e \in Inputs :
       /\ answers[e] # "none" => e <= event
       /\ Source = "source/lambda" /\ e > event => outer[e] = "idle"

\* Those who have had a token of the limiter of stage n, and may not have given it
\* back unused.
Past(i, n) == inner[i] # "idle" \/ (way[i] = "inwards" /\ n < at[i])

Pasts(n) == {i \in Inputs : Past(i, n)}

Rated(n) ==
  /\ IsFiniteSet(Pasts(n))
  /\ IF n \in DOMAIN limiter
     THEN Cardinality(Pasts(n)) + limiter[n].tokens <= limiter[n].made
     ELSE Pasts(n) = {}

RateOK ==
  \A n \in DOMAIN setup.chain :
    setup.chain[n].key = "middleware/ratelimiter" => Rated(n)

\* The value of an Invoke, from where it is in the pipeline.
OrderOK(i) ==
  LET in == Inwards(setup.chain, InputOf(i))
      out == Outwards(setup.chain, reply[i])
      n == Len(setup.chain)
  IN /\ outer[i] = "running" /\ way[i] = "idle" => value[i] = InputOf(i)
     /\ way[i] = "inwards" => value[i] = in[at[i] - 1] /\ ~IsError(value[i])
     /\ inner[i] # "idle" => given[i] = in[n] /\ ~IsError(given[i])
     /\ way[i] \in {"outwards", "done"} /\ ~IsError(value[i]) => value[i] = out[n - at[i]]

\* What the runner holds was accepted.
SetupOK ==
  Configured =>
    /\ Source \in {"source/cron", "source/kafka", "source/sqs",
                   "source/azure/servicebus"} => setup.source.with.type # "nil"
    /\ Source = "source/cron" => setup.source.with.type = "string"
    /\ Fn \in {"fn/cli", "fn/http", "fn/pool"} => setup.fn.with.type # "nil"
    /\ \A n \in DOMAIN setup.chain :
         setup.chain[n].key \in {"middleware/jq", "middleware/kafka", "middleware/tap"}
           => setup.chain[n].set

\* What a goroutine has panicked for.
PanicOK ==
  panicked => Bare \/ \E i \in Inputs : pc[i] = "select" /\ ~Script!HasProcess(i)

Types == CallsOK /\ ValuesOK /\ Lambda!TypeOK /\ Middleware!TypeOK /\ Script!TypeOK

IInv ==
  /\ Types /\ MainOK /\ SourceOK /\ RateOK /\ SetupOK /\ PanicOK
  /\ Lambda!AnswersAreTrue
  /\ \A i \in Inputs : FlowOK(i) /\ ScriptOK(i) /\ OrderOK(i)

-----------------------------------------------------------------------------
(* What the stages make of values.                                         *)

\* The parts have the definitions of Transforms in common.
LEMMA SameTransforms ==
  /\ \A e : /\ Middleware!Error(e) = Error(e) /\ Script!Error(e) = Error(e)
            /\ Script!Printed(e) = Printed(e)
            /\ Cron!Plain("map", e) = Plain("map", e)
  /\ \A v : /\ Middleware!IsError(v) <=> IsError(v)
            /\ Lambda!IsError(v) <=> IsError(v)
  /\ \A stage, v, done :
       /\ Middleware!Inward(stage, v, done) = Inward(stage, v, done)
       /\ Middleware!Outward(stage, v, done) = Outward(stage, v, done)
<1>1. /\ \A k, e : Middleware!Plain(k, e) = Plain(k, e) /\ Script!Plain(k, e) = Plain(k, e)
                   /\ Cron!Plain(k, e) = Plain(k, e)
      /\ \A k, h, e : Middleware!Value(k, h, e) = Value(k, h, e)
                      /\ Script!Value(k, h, e) = Value(k, h, e)
  BY DEF Middleware!Plain, Script!Plain, Cron!Plain, Plain, Middleware!Value,
         Script!Value, Cron!Value, Value
<1>2. /\ \A e : /\ Middleware!Error(e) = Error(e) /\ Script!Error(e) = Error(e)
                /\ Script!Printed(e) = Printed(e)
      /\ \A v : /\ Middleware!IsError(v) <=> IsError(v)
                /\ Lambda!IsError(v) <=> IsError(v)
  BY <1>1 DEF Middleware!Error, Script!Error, Error, Script!Printed, Printed,
              Middleware!IsError, Lambda!IsError, IsError
<1>3. /\ \A k, e : Middleware!Held(k, e) = Held(k, e)
      /\ \A v : Middleware!IsMap(v) <=> IsMap(v)
  BY <1>1 DEF Middleware!Held, Held, Middleware!IsMap, IsMap
<1>4. \A p, v, done : Middleware!Apply(p, v, done) = Apply(p, v, done)
  BY <1>1, <1>2 DEF Middleware!Apply, Apply
<1>5. \A p, v : Middleware!Transcode(p, v) = Transcode(p, v)
  BY <1>1, <1>2, <1>3 DEF Middleware!Transcode, Transcode
<1>6. \A p, v : Middleware!Select(p, v) = Select(p, v)
  BY <1>1, <1>2, <1>3 DEF Middleware!Select, Select
<1>. QED
  BY <1>1, <1>2, <1>4, <1>5, <1>6 DEF Middleware!Inward, Inward, Middleware!Outward, Outward

LEMMA ErrorType ==
  ASSUME NEW i \in Inputs
  PROVE  Error(i) \in Values /\ Error(i).of = i /\ IsError(Error(i))
  BY DEF Error, Plain, Value, Values, Kinds, IsError

LEMMA PlainType ==
  ASSUME NEW i \in Inputs, NEW k \in Kinds, NEW h \in Kinds
  PROVE  /\ Plain(k, i) \in Values /\ Plain(k, i).of = i /\ Plain(k, i).kind = k
         /\ Value(k, h, i) \in Values /\ Value(k, h, i).of = i /\ Value(k, h, i).kind = k
  BY DEF Plain, Value, Values, Kinds

LEMMA PrintedType ==
  ASSUME NEW i \in Inputs
  PROVE  Printed(i) \in Values /\ Printed(i).of = i /\ ~IsError(Printed(i))
  BY DEF Printed, Plain, Value, Values, Kinds, IsError

LEMMA InputType ==
  ASSUME NEW i \in Inputs
  PROVE  /\ Plain("map", i) \in Values /\ Plain("map", i).of = i
         /\ Lambda!InputOf(i) \in Values /\ Lambda!InputOf(i).of = i
         /\ InputOf(i) \in Values /\ InputOf(i).of = i /\ ~IsError(InputOf(i))
<1>1. \/ Lambda!InputOf(i) = Value("envelope", "map", i)
      \/ Lambda!InputOf(i) = Value("envelope", "text", i)
      \/ Lambda!InputOf(i) = Value("envelope", "json", i)
  BY DEF Lambda!InputOf, Lambda!Value, Value
<1>2. InputOf(i) = Plain("map", i) \/ InputOf(i) = Lambda!InputOf(i)
  BY DEF InputOf
<1>. QED
  BY <1>1, <1>2, PlainType DEF Kinds, IsError

LEMMA HeldType ==
  ASSUME NEW i \in Inputs, NEW k \in Kinds
  PROVE  Held(k, i) \in Values /\ Held(k, i).of = i
  BY DEF Held, Plain, Value, Values, Kinds

LEMMA TranscodeType ==
  ASSUME NEW v \in Values, NEW strategy
  PROVE  Transcode(strategy, v) \in Values /\ Transcode(strategy, v).of = v.of
<1>1. v.of \in Inputs /\ v.holds \in Kinds /\ v.kind \in Kinds
  BY DEF Values
<1>2. /\ Held(v.holds, v.of) \in Values /\ Held(v.holds, v.of).of = v.of
      /\ Error(v.of) \in Values /\ Error(v.of).of = v.of
  BY <1>1, HeldType, ErrorType
<1>3. Value("json", v.kind, v.of) \in Values /\ Value("json", v.kind, v.of).of = v.of
  BY <1>1, PlainType DEF Kinds
<1>. QED
  BY <1>2, <1>3 DEF Transcode

LEMMA ApplyType ==
  ASSUME NEW v \in Values, NEW jq, NEW done \in BOOLEAN
  PROVE  Apply(jq, v, done) \in Values /\ Apply(jq, v, done).of = v.of
<1>1. v.of \in Inputs
  BY DEF Values
<1>2. \A k \in Kinds : Plain(k, v.of) \in Values /\ Plain(k, v.of).of = v.of
  BY <1>1, PlainType
<1>. QED
  BY <1>2 DEF Apply, Error, Kinds

LEMMA SelectType ==
  ASSUME NEW v \in Values, NEW key
  PROVE  Select(key, v) \in Values /\ Select(key, v).of = v.of
<1>1. v.of \in Inputs /\ v.holds \in Kinds
  BY DEF Values
<1>2. Held(v.holds, v.of) \in Values /\ Held(v.holds, v.of).of = v.of
  BY <1>1, HeldType
<1>3. \A k \in Kinds : Plain(k, v.of) \in Values /\ Plain(k, v.of).of = v.of
  BY <1>1, PlainType
<1>. QED
  BY <1>2, <1>3 DEF Select, Error, Kinds

LEMMA InwardType ==
  ASSUME NEW v \in Values, NEW stage, NEW done \in BOOLEAN
  PROVE  Inward(stage, v, done) \in Values /\ Inward(stage, v, done).of = v.of
  BY TranscodeType, ApplyType, SelectType DEF Inward

LEMMA OutwardType ==
  ASSUME NEW v \in Values, NEW stage, NEW done \in BOOLEAN
  PROVE  Outward(stage, v, done) \in Values /\ Outward(stage, v, done).of = v.of
  BY TranscodeType, ApplyType DEF Outward

\* The end of a context can make an error of a value, and nothing else.
LEMMA DoneMakesErrors ==
  ASSUME NEW v \in Values, NEW stage, NEW done \in BOOLEAN
  PROVE  /\ ~IsError(Inward(stage, v, done)) => Inward(stage, v, done) = Inward(stage, v, FALSE)
         /\ ~IsError(Outward(stage, v, done)) => Outward(stage, v, done) = Outward(stage, v, FALSE)
<1>1. ~IsError(Apply(stage.in, v, done)) => Apply(stage.in, v, done) = Apply(stage.in, v, FALSE)
  BY DEF Apply, Error, Plain, Value, IsError
<1>2. ~IsError(Apply(stage.out, v, done)) => Apply(stage.out, v, done) = Apply(stage.out, v, FALSE)
  BY DEF Apply, Error, Plain, Value, IsError
<1>. QED
  BY <1>1, <1>2 DEF Inward, Outward

LEMMA ErrorStaysError ==
  ASSUME NEW v, NEW stage, NEW done
  PROVE  IsError(v) => Outward(stage, v, done) = v
  BY DEF Outward

-----------------------------------------------------------------------------
(* Recursive functions.  That one exists is shown by induction, here in the *)
(* form that a set of natural numbers has a least element.                  *)

LEMMA Least ==
  ASSUME NEW T, T \subseteq Nat, T # {}
  PROVE  \E n \in T : \A m \in T : ~(m < n)
<1> DEFINE R == {ss \in Nat \X Nat : ss[1] < ss[2]}
<1>1. IsWellFoundedOn(R, Nat)
  BY NatLessThanWellFounded, Zenon DEF OpToRel
<1>2. \A m, n \in Nat : m < n => <<m, n>> \in R
  OBVIOUS
<1> HIDE DEF R
<1>3. \E x \in T : \A y \in T : ~(<<y, x>> \in R)
  BY <1>1, WFMin
<1>. QED
  BY <1>2, <1>3

LEMMA Induction ==
  ASSUME NEW N \in Nat, NEW T, 0 \in T, \A n \in 1 .. N : n - 1 \in T => n \in T
  PROVE  0 .. N \subseteq T
<1> DEFINE U == {n \in 0 .. N : n \notin T}
<1>1. SUFFICES ASSUME U # {} PROVE FALSE
  OBVIOUS
<1>2. U \subseteq Nat /\ \A n \in 0 .. N : n \in U \/ n \in T
  OBVIOUS
<1>3. \A n \in U : n \in 0 .. N /\ n \notin T
  OBVIOUS
<1> HIDE DEF U
<1>4. PICK n \in U : \A m \in U : ~(m < n)
  BY <1>1, <1>2, Least
<1>5. n \in 1 .. N /\ n - 1 \in 0 .. N /\ n - 1 < n
  BY <1>3
<1>. QED
  BY <1>2, <1>3, <1>4, <1>5

\* The values that a chain of functions makes of a first one.
LEMMA Iterates ==
  ASSUME NEW S, NEW v \in S, NEW N \in Nat, NEW F \in [1 .. N -> [S -> S]]
  PROVE  \E g \in [0 .. N -> S] : g[0] = v /\ \A n \in 1 .. N : g[n] = F[n][g[n - 1]]
<1> DEFINE Has(m) == \E g \in [0 .. m -> S] :
                       g[0] = v /\ \A n \in 1 .. m : g[n] = F[n][g[n - 1]]
           T == {m \in 0 .. N : Has(m)}
<1>1. Has(0)
  <2> DEFINE g == [n \in 0 .. 0 |-> v]
  <2>1. g \in [0 .. 0 -> S] /\ g[0] = v
    OBVIOUS
  <2>2. \A n \in 1 .. 0 : g[n] = F[n][g[n - 1]]
    OBVIOUS
  <2> HIDE DEF g
  <2>. QED
    BY <2>1, <2>2
<1>2. ASSUME NEW m \in 1 .. N, Has(m - 1)
      PROVE  Has(m)
  <2>1. PICK g \in [0 .. m - 1 -> S] :
          g[0] = v /\ \A n \in 1 .. m - 1 : g[n] = F[n][g[n - 1]]
    BY <1>2
  <2> DEFINE h == [n \in 0 .. m |-> IF n = m THEN F[m][g[m - 1]] ELSE g[n]]
  <2>2. h \in [0 .. m -> S]
    <3>1. F[m][g[m - 1]] \in S
      OBVIOUS
    <3>2. \A n \in 0 .. m : n = m \/ n \in 0 .. m - 1
      OBVIOUS
    <3>. QED
      BY <3>1, <3>2
  <2>3. h[0] = v
    BY <2>1
  <2>4. ASSUME NEW n \in 1 .. m
        PROVE  h[n] = F[n][h[n - 1]]
    <3>1. h[n - 1] = g[n - 1]
      OBVIOUS
    <3>2. CASE n = m
      BY <3>1, <3>2
    <3>3. CASE n # m
      <4>1. n \in 1 .. m - 1 /\ h[n] = g[n]
        BY <3>3
      <4>. QED
        BY <2>1, <3>1, <4>1
    <3>. QED
      BY <3>2, <3>3
  <2>. QED
    BY <2>2, <2>3, <2>4
<1> HIDE DEF Has
<1>3. 0 .. N \subseteq T
  <2>1. 0 \in T /\ \A n \in 1 .. N : n - 1 \in T => n \in T
    BY <1>1, <1>2
  <2> HIDE DEF T
  <2>. QED
    BY <2>1, Induction
<1>. QED
  BY <1>3 DEF Has

LEMMA InwardsUnfolds ==
  ASSUME NEW c, Len(c) \in Nat, NEW v \in Values
  PROVE  /\ Inwards(c, v) \in [0 .. Len(c) -> Values]
         /\ Inwards(c, v)[0] = v
         /\ \A n \in 1 .. Len(c) :
              LET x == Inwards(c, v)[n - 1]
              IN Inwards(c, v)[n] = IF IsError(x) THEN x ELSE Inward(c[n], x, FALSE)
<1> DEFINE N == Len(c)
           Pass(n, x) == IF IsError(x) THEN x ELSE Inward(c[n], x, FALSE)
           F == [n \in 1 .. N |-> [x \in Values |-> Pass(n, x)]]
           Is(f) == f = [n \in 0 .. N |-> IF n = 0 THEN v
                                          ELSE IF IsError(f[n - 1]) THEN f[n - 1]
                                          ELSE Inward(c[n], f[n - 1], FALSE)]
<1>1. \A n \in 1 .. N : \A x \in Values : Pass(n, x) \in Values
  BY InwardType
<1>2. F \in [1 .. N -> [Values -> Values]]
  BY <1>1
<1>3. \A n \in 1 .. N : \A x \in Values : F[n][x] = Pass(n, x)
  OBVIOUS
<1> HIDE DEF F
<1>4. PICK g \in [0 .. N -> Values] : g[0] = v /\ \A n \in 1 .. N : g[n] = F[n][g[n - 1]]
  BY <1>2, Iterates
<1>5. \A n \in 1 .. N : n - 1 \in 0 .. N /\ g[n - 1] \in Values
  OBVIOUS
<1>6. \A n \in 1 .. N : g[n] = Pass(n, g[n - 1])
  BY <1>3, <1>4, <1>5
<1>7. Is(g)
  <2>1. ASSUME NEW n \in 0 .. N
        PROVE  g[n] = IF n = 0 THEN v
                      ELSE IF IsError(g[n - 1]) THEN g[n - 1]
                      ELSE Inward(c[n], g[n - 1], FALSE)
    <3>1. n = 0 \/ n \in 1 .. N
      OBVIOUS
    <3>2. CASE n = 0
      BY <1>4, <3>2
    <3>3. CASE n \in 1 .. N
      <4>1. g[n] = Pass(n, g[n - 1]) /\ n # 0
        BY <1>6, <3>3
      <4>. QED
        BY <4>1
    <3>. QED
      BY <3>1, <3>2, <3>3
  <2>. QED
    BY <2>1
<1>8. Inwards(c, v) = CHOOSE f : Is(f)
  BY DEF Inwards
<1> HIDE DEF Is
<1>9. Is(Inwards(c, v))
  BY <1>7, <1>8
<1> DEFINE h == Inwards(c, v)
<1> HIDE DEF h
<1>10. /\ h[0] = v
       /\ \A n \in 1 .. N : n - 1 \in 0 .. N /\ h[n] = Pass(n, h[n - 1])
       /\ h = [n \in 0 .. N |-> h[n]]
  BY <1>9 DEF Is, h
<1> DEFINE T == {n \in 0 .. N : h[n] \in Values}
<1>11. 0 .. N \subseteq T
  <2>1. 0 \in T
    BY <1>10
  <2>2. ASSUME NEW n \in 1 .. N, n - 1 \in T
        PROVE  n \in T
    <3>1. h[n - 1] \in Values
      BY <2>2
    <3>2. Pass(n, h[n - 1]) \in Values
      BY <1>1, <3>1
    <3>. QED
      BY <1>10, <3>2
  <2> HIDE DEF T
  <2>. QED
    BY <2>1, <2>2, Induction
<1>12. h \in [0 .. N -> Values]
  BY <1>10, <1>11
<1>. QED
  BY <1>10, <1>12 DEF h

LEMMA OutwardsUnfolds ==
  ASSUME NEW c, Len(c) \in Nat, NEW v \in Values
  PROVE  /\ Outwards(c, v) \in [0 .. Len(c) -> Values]
         /\ Outwards(c, v)[0] = v
         /\ \A n \in 1 .. Len(c) :
              Outwards(c, v)[n] = Outward(c[Len(c) + 1 - n], Outwards(c, v)[n - 1], FALSE)
<1> DEFINE N == Len(c)
           Pass(n, x) == Outward(c[N + 1 - n], x, FALSE)
           F == [n \in 1 .. N |-> [x \in Values |-> Pass(n, x)]]
           Is(f) == f = [n \in 0 .. N |-> IF n = 0 THEN v
                                          ELSE Outward(c[N + 1 - n], f[n - 1], FALSE)]
<1>1. \A n \in 1 .. N : \A x \in Values : Pass(n, x) \in Values
  BY OutwardType
<1>2. F \in [1 .. N -> [Values -> Values]]
  BY <1>1
<1>3. \A n \in 1 .. N : \A x \in Values : F[n][x] = Pass(n, x)
  OBVIOUS
<1> HIDE DEF F
<1>4. PICK g \in [0 .. N -> Values] : g[0] = v /\ \A n \in 1 .. N : g[n] = F[n][g[n - 1]]
  BY <1>2, Iterates
<1>5. \A n \in 1 .. N : n - 1 \in 0 .. N /\ g[n - 1] \in Values
  OBVIOUS
<1>6. \A n \in 1 .. N : g[n] = Pass(n, g[n - 1])
  BY <1>3, <1>4, <1>5
<1>7. Is(g)
  <2>1. ASSUME NEW n \in 0 .. N
        PROVE  g[n] = IF n = 0 THEN v
                      ELSE Outward(c[N + 1 - n], g[n - 1], FALSE)
    <3>1. n = 0 \/ n \in 1 .. N
      OBVIOUS
    <3>2. CASE n = 0
      BY <1>4, <3>2
    <3>3. CASE n \in 1 .. N
      <4>1. g[n] = Pass(n, g[n - 1]) /\ n # 0
        BY <1>6, <3>3
      <4>. QED
        BY <4>1
    <3>. QED
      BY <3>1, <3>2, <3>3
  <2>. QED
    BY <2>1
<1>8. Outwards(c, v) = CHOOSE f : Is(f)
  BY DEF Outwards
<1> HIDE DEF Is
<1>9. Is(Outwards(c, v))
  BY <1>7, <1>8
<1> DEFINE h == Outwards(c, v)
<1> HIDE DEF h
<1>10. /\ h[0] = v
       /\ \A n \in 1 .. N : n - 1 \in 0 .. N /\ h[n] = Pass(n, h[n - 1])
       /\ h = [n \in 0 .. N |-> h[n]]
  BY <1>9 DEF Is, h
<1> DEFINE T == {n \in 0 .. N : h[n] \in Values}
<1>11. 0 .. N \subseteq T
  <2>1. 0 \in T
    BY <1>10
  <2>2. ASSUME NEW n \in 1 .. N, n - 1 \in T
        PROVE  n \in T
    <3>1. h[n - 1] \in Values
      BY <2>2
    <3>2. Pass(n, h[n - 1]) \in Values
      BY <1>1, <3>1
    <3>3. h[n] = Pass(n, h[n - 1])
      BY <1>10
    <3>. QED
      BY <3>2, <3>3
  <2> HIDE DEF T
  <2>. QED
    BY <2>1, <2>2, Induction
<1>12. h \in [0 .. N -> Values]
  BY <1>10, <1>11
<1>. QED
  BY <1>10, <1>12 DEF h

-----------------------------------------------------------------------------
(* The chain of stages that a document gives.                              *)

LEMMA FlattenFunction ==
  ASSUME NEW S, NEW N \in Nat \ {0}, NEW ss, \A n \in 1 .. N : ss[n] \in Seq(S)
  PROVE  LET fl == CHOOSE f : f = [i \in 1 .. N |-> IF i = 1 THEN ss[i]
                                                   ELSE f[i - 1] \o ss[i]]
         IN fl[N] \in Seq(S)
<1> DEFINE M == N - 1
           F == [n \in 1 .. M |-> [x \in Seq(S) |-> x \o ss[n + 1]]]
           Is(f) == f = [i \in 1 .. N |-> IF i = 1 THEN ss[i] ELSE f[i - 1] \o ss[i]]
           fl == CHOOSE f : Is(f)
<1>1. /\ M \in Nat /\ M + 1 = N /\ ss[1] \in Seq(S)
      /\ \A n \in 1 .. M : n + 1 \in 1 .. N /\ ss[n + 1] \in Seq(S) /\ n - 1 \in 0 .. M
  OBVIOUS
<1>2. \A n \in 1 .. M : \A x \in Seq(S) : x \o ss[n + 1] \in Seq(S)
  BY <1>1, ConcatProperties
<1>3. F \in [1 .. M -> [Seq(S) -> Seq(S)]]
  BY <1>2
<1>4. \A n \in 1 .. M : \A x \in Seq(S) : F[n][x] = x \o ss[n + 1]
  OBVIOUS
<1> HIDE DEF F, M
<1>5. PICK g \in [0 .. M -> Seq(S)] : g[0] = ss[1] /\ \A n \in 1 .. M : g[n] = F[n][g[n - 1]]
  <2> DEFINE D == Seq(S)
             v == ss[1]
  <2>1. v \in D /\ F \in [1 .. M -> [D -> D]] /\ M \in Nat
    BY <1>1, <1>3
  <2> HIDE DEF D, v
  <2>2. \E g \in [0 .. M -> D] : g[0] = v /\ \A n \in 1 .. M : g[n] = F[n][g[n - 1]]
    BY <2>1, Iterates
  <2>. QED
    BY <2>2 DEF D, v
<1>6. ASSUME NEW n \in 1 .. M
      PROVE  g[n] = g[n - 1] \o ss[n + 1]
  BY <1>1, <1>4, <1>5
<1> DEFINE h == [i \in 1 .. N |-> g[i - 1]]
<1>7. Is(h)
  <2>1. ASSUME NEW i \in 1 .. N
        PROVE  h[i] = IF i = 1 THEN ss[i] ELSE h[i - 1] \o ss[i]
    <3>1. CASE i = 1
      BY <1>5, <3>1
    <3>2. CASE i # 1
      <4>1. i - 1 \in 1 .. M /\ i - 1 + 1 = i /\ i - 1 \in 1 .. N
        BY <1>1, <3>2
      <4>2. g[i - 1] = g[i - 1 - 1] \o ss[i - 1 + 1]
        BY <1>6, <4>1
      <4>3. h[i] = g[i - 1] /\ h[i - 1] = g[i - 1 - 1]
        BY <4>1
      <4>. QED
        BY <3>2, <4>1, <4>2, <4>3
    <3>. QED
      BY <3>1, <3>2
  <2>. QED
    BY <2>1
<1> HIDE DEF Is, h
<1>8. Is(fl)
  BY <1>7
<1>9. fl[N] \in Seq(S)
  <2> HIDE DEF fl
  <2>1. fl[1] = ss[1]
    BY <1>8 DEF Is
  <2>2. ASSUME NEW n \in 1 .. M
        PROVE  fl[n + 1] = fl[n] \o ss[n + 1]
    <3>1. n + 1 \in 1 .. N /\ n + 1 # 1 /\ n + 1 - 1 = n
      BY <1>1
    <3>2. \A i \in 1 .. N : i # 1 => fl[i] = fl[i - 1] \o ss[i]
      BY <1>8 DEF Is
    <3>3. ASSUME NEW i \in 1 .. N, i = n + 1
          PROVE  fl[i] = fl[n] \o ss[i]
      <4>1. i # 1 /\ i - 1 = n
        BY <1>1, <3>3
      <4>2. fl[i] = fl[i - 1] \o ss[i]
        BY <3>2, <4>1
      <4>. QED
        BY <4>1, <4>2
    <3>. QED
      BY <3>1, <3>3
  <2> DEFINE T == {n \in 0 .. M : fl[n + 1] \in Seq(S)}
  <2>3. 0 \in T
    BY <1>1, <2>1
  <2>4. ASSUME NEW n \in 1 .. M, n - 1 \in T
        PROVE  n \in T
    <3>1. fl[n] \in Seq(S)
      <4>1. n - 1 + 1 = n
        BY <1>1
      <4>2. fl[n - 1 + 1] \in Seq(S)
        BY <2>4
      <4>. QED
        BY <4>1, <4>2
    <3>2. fl[n + 1] \in Seq(S)
      BY <1>2, <2>2, <3>1
    <3>. QED
      BY <1>1, <3>2
  <2>5. \A n \in T : fl[n + 1] \in Seq(S)
    OBVIOUS
  <2> HIDE DEF T
  <2>6. 0 .. M \subseteq T
    BY <1>1, <2>3, <2>4, Induction
  <2>7. fl[M + 1] \in Seq(S)
    BY <1>1, <2>5, <2>6
  <2>. QED
    BY <1>1, <2>7
<1>. QED
  BY <1>9 DEF Is

LEMMA FlattenType ==
  ASSUME NEW S, NEW ss \in Seq(Seq(S))
  PROVE  FlattenSeq(ss) \in Seq(S)
<1>1. CASE Len(ss) = 0
  <2>1. ss = <<>>
    BY <1>1, EmptySeq
  <2>. QED
    BY <1>1, <2>1, EmptySeq DEF FlattenSeq
<1>2. CASE Len(ss) # 0
  <2>1. Len(ss) \in Nat \ {0} /\ \A n \in 1 .. Len(ss) : ss[n] \in Seq(S)
    BY <1>2, LenProperties, ElementOfSeq
  <2>. QED
    BY <1>2, <2>1, FlattenFunction DEF FlattenSeq
<1>. QED
  BY <1>1, <1>2

LEMMA SeqFromElements ==
  ASSUME NEW S, NEW T, NEW s \in Seq(T), \A n \in 1 .. Len(s) : s[n] \in S
  PROVE  s \in Seq(S)
<1>1. Len(s) \in Nat /\ DOMAIN s = 1 .. Len(s) /\ s \in [1 .. Len(s) -> T]
  BY LenProperties
<1>2. s \in [1 .. Len(s) -> S]
  BY <1>1
<1>. QED
  BY <1>1, <1>2, SeqDef

\* What ConfigureLeaf says of some objects.
LEMMA NeedsConfig ==
  ASSUME NEW v
  PROVE  /\ ConfigureLeaf("source/cron", v) => v.type = "string"
         /\ \A target \in Required : ConfigureLeaf(target, v) => v.type # "nil"
         /\ ConfigureLeaf("middleware", v) => v.type \in {"nil", "array"}
  BY DEF ConfigureLeaf, Configurers, Required

\* A string or a map has one pair at most.
LEMMA OnePair ==
  ASSUME NEW e, NEW p \in SinglePair(e)
  PROVE  (CHOOSE q \in SinglePair(e) : TRUE) = p
<1>1. \A q \in SinglePair(e) : q = p
  <2>1. CASE e.type = "string"
    BY <2>1 DEF SinglePair
  <2>2. CASE e.type = "map" /\ e.type # "string"
    <3>1. SinglePair(e) = {<<k, e.pairs[k]>> : k \in {x \in DOMAIN e.pairs : DOMAIN e.pairs = {x}}}
      BY <2>2 DEF SinglePair
    <3>. QED
      BY <3>1
  <2>3. CASE e.type \notin {"string", "map"}
    <3>1. SinglePair(e) = {}
      BY <2>3 DEF SinglePair
    <3>. QED
      BY <3>1
  <2>. QED
    BY <2>1, <2>2, <2>3
<1>. QED
  BY <1>1

\* The leaves of an entry that was accepted were accepted.
LEMMA LeavesAccepted ==
  ASSUME NEW e, ConfigureEntry(e), \A p \in SinglePair(e) : IsArray(p[2])
  PROVE  Leaves(e) \in Seq({x \in Range(Leaves(e)) : ConfigureMember(x)})
<1>1. PICK p \in SinglePair(e) :
        /\ Find("middleware", p[1])
        /\ IF p[1] = "middleware" /\ p[2].type = "array"
           THEN \A n \in DOMAIN p[2].items : ConfigureMember(p[2].items[n])
           ELSE ConfigureLeaf(p[1], p[2])
  BY DEF ConfigureEntry
<1> DEFINE S == {x \in Range(Leaves(e)) : ConfigureMember(x)}
<1>2. Leaves(e) = IF p[1] = "middleware"
                  THEN IF p[2].type = "nil" THEN <<>> ELSE p[2].items
                  ELSE <<e>>
  BY OnePair DEF Leaves
<1>3. CASE p[1] = "middleware" /\ p[2].type = "array"
  <2>1. Leaves(e) = p[2].items /\ p[2].items \in Seq(Range(p[2].items))
    BY <1>2, <1>3 DEF IsArray
  <2>2. \A n \in 1 .. Len(Leaves(e)) : Leaves(e)[n] \in S
    <3>1. DOMAIN Leaves(e) = 1 .. Len(Leaves(e))
      BY <2>1, LenProperties
    <3>. QED
      BY <1>1, <1>3, <2>1, <3>1 DEF Range
  <2> HIDE DEF S
  <2>3. Leaves(e) \in Seq(S)
    <3> DEFINE T == Range(p[2].items)
               l == Leaves(e)
    <3>1. l \in Seq(T) /\ \A n \in 1 .. Len(l) : l[n] \in S
      BY <2>1, <2>2
    <3> HIDE DEF T, l
    <3>2. l \in Seq(S)
      BY <3>1, SeqFromElements
    <3>. QED
      BY <3>2 DEF l
  <2>. QED
    BY <2>3 DEF S
<1>4. CASE p[1] = "middleware" /\ p[2].type # "array"
  BY <1>1, <1>2, <1>4, NeedsConfig
<1>5. CASE p[1] # "middleware"
  <2>1. ConfigureMember(e) /\ Leaves(e) = <<e>>
    BY <1>1, <1>2, <1>5 DEF ConfigureMember
  <2>2. e \in S
    BY <2>1 DEF Range
  <2> HIDE DEF S
  <2>3. Leaves(e) \in Seq(S)
    BY <2>1, <2>2
  <2>. QED
    BY <2>3 DEF S
<1>. QED
  BY <1>3, <1>4, <1>5

\* A pipeline that was accepted is a sequence of stages, and those that require a
\* configuration have one.
LEMMA ChainAccepted ==
  ASSUME NEW d \in Documents, NEW c \in Pipeline(d.middleware)
  PROVE  /\ c \in Seq(Range(c))
         /\ \A n \in DOMAIN c : c[n].key \in Required => c[n].set
<1>1. CASE d.middleware.type = "nil"
  <2>1. c = <<>>
    BY <1>1 DEF Pipeline
  <2>. QED
    BY <2>1
<1>2. CASE d.middleware.type = "array"
  <2> DEFINE items == d.middleware.items
             ss == [n \in DOMAIN items |-> Leaves(items[n])]
             S == {x \in UNION {Range(Leaves(items[n])) : n \in DOMAIN items} : ConfigureMember(x)}
             leaves == FlattenSeq(ss)
  <2>1. c = Compose(items) /\ \A n \in DOMAIN items : ConfigureEntry(items[n])
    BY <1>2 DEF Pipeline
  <2>2. /\ items \in Seq(Range(items))
        /\ \A e \in Range(items) : \A p \in SinglePair(e) : IsArray(p[2])
    BY <1>2, RunnerAssumption DEF IsArray
  <2>3. DOMAIN items = 1 .. Len(items) /\ Len(items) \in Nat
    BY <2>2, LenProperties
  <2>4. ASSUME NEW n \in DOMAIN items
        PROVE  Leaves(items[n]) \in Seq(S)
    <3>1. items[n] \in Range(items)
      BY DEF Range
    <3> DEFINE l == Leaves(items[n])
               U == {x \in Range(l) : ConfigureMember(x)}
    <3>2. l \in Seq(U)
      BY <2>1, <2>2, <3>1, LeavesAccepted
    <3>3. U \subseteq S
      OBVIOUS
    <3> HIDE DEF U, S
    <3>. QED
      BY <3>2, <3>3, SeqMonotonic
  <2> HIDE DEF S
  <2>5. ss \in Seq(Seq(S))
    <3>1. ss \in [1 .. Len(items) -> Seq(S)]
      BY <2>3, <2>4
    <3>. QED
      BY <2>3, <3>1, SeqDef
  <2> HIDE DEF ss
  <2>6. leaves \in Seq(S)
    BY <2>5, FlattenType
  <2> HIDE DEF leaves
  <2>7. c = [n \in DOMAIN leaves |-> LeafStage(leaves[n])]
    BY <2>1 DEF Compose, leaves, ss
  <2>8. DOMAIN leaves = 1 .. Len(leaves) /\ Len(leaves) \in Nat
        /\ \A n \in 1 .. Len(leaves) : leaves[n] \in S
    BY <2>6, LenProperties, ElementOfSeq
  <2>9. c \in Seq(Range(c))
    <3>1. c \in [1 .. Len(leaves) -> Range(c)]
      BY <2>7, <2>8 DEF Range
    <3>. QED
      BY <2>8, <3>1, SeqDef
  <2>10. ASSUME NEW n \in DOMAIN c, c[n].key \in Required
         PROVE  c[n].set
    <3>1. n \in 1 .. Len(leaves) /\ c[n] = LeafStage(leaves[n])
      BY <2>7, <2>8
    <3>2. ConfigureMember(leaves[n])
      BY <2>8, <3>1 DEF S
    <3>3. PICK p \in SinglePair(leaves[n]) : ConfigureLeaf(p[1], p[2])
      BY <3>2 DEF ConfigureMember
    <3>4. c[n] = Stage(p[1], p[2])
      BY <3>1, OnePair DEF LeafStage
    <3>5. p[1] \in Required /\ c[n].set = (p[2].type # "nil")
      <4>1. \A k, v : Stage(k, v).key = k /\ Stage(k, v).set = (v.type # "nil")
        BY DEF Stage
      <4>. QED
        BY <2>10, <3>4, <4>1
    <3>. QED
      BY <3>3, <3>5, NeedsConfig
  <2>. QED
    BY <2>9, <2>10
<1>3. CASE d.middleware.type \notin {"nil", "array"}
  BY <1>3 DEF Pipeline
<1>. QED
  BY <1>1, <1>2, <1>3

\* A set-up that was accepted.
LEMMA RunnerAccepted ==
  ASSUME NEW s \in Runner(document), document \in Documents
  PROVE  /\ s.chain \in Seq(Range(s.chain))
         /\ s.source.key \in Required => s.source.with.type # "nil"
         /\ s.source.key = "source/cron" => s.source.with.type = "string"
         /\ s.fn.key \in Required => s.fn.with.type # "nil"
         /\ \A n \in DOMAIN s.chain : s.chain[n].key \in Required => s.chain[n].set
<1>1. PICK f \in LoadFn(document.fn), c \in Pipeline(document.middleware),
           o \in LoadSource(document.source) : s = [source |-> o, chain |-> c, fn |-> f]
  BY DEF Runner
<1>2. /\ o.key \in Required => o.with.type # "nil"
      /\ o.key = "source/cron" => o.with.type = "string"
      /\ f.key \in Required => f.with.type # "nil"
  BY NeedsConfig DEF LoadSource, LoadFn, Load
<1>3. /\ c \in Seq(Range(c))
      /\ \A n \in DOMAIN c : c[n].key \in Required => c[n].set
  BY ChainAccepted
<1>. QED
  BY <1>1, <1>2, <1>3

-----------------------------------------------------------------------------
(* Types.                                                                  *)

LEMMA MainTypes ==
  ASSUME IInv, Main \/ Cancel
  PROVE  Types'
<1> USE DEF IInv, Types, CallsOK, ValuesOK, Lambda!TypeOK, Middleware!TypeOK, Script!TypeOK,
            sourceVars, calls, stageVars, scriptVars, Programs, Serves
<1>1. CASE ConfigureRunner
  <2>1. UNCHANGED <<document, cancelled, panicked, sourceVars, calls, stageVars, scriptVars>>
    BY <1>1 DEF ConfigureRunner
  <2>2. CASE program' = "refused" /\ UNCHANGED setup
    BY <2>1, <2>2
  <2>3. CASE program' = "serving" /\ setup' \in Runner(document)
    <3>1. setup'.chain \in Seq(Range(setup'.chain))
      BY <2>3, RunnerAccepted
    <3>2. \A i \in Inputs : at[i] = 0 /\ expired[i] = {}
      BY <1>1 DEF ConfigureRunner, MainOK, Configured, FlowOK
    <3>3. Len(setup'.chain) \in Nat
      BY <3>1, LenProperties
    <3>4. at' \in [Inputs -> 0 .. Len(setup'.chain) + 1]
      BY <2>1, <3>2, <3>3
    <3>5. expired' \in [Inputs -> SUBSET DOMAIN setup'.chain]
      BY <2>1, <3>2
    <3>6. DOMAIN limiter = {} /\ admitted = {}
      <4>1. setup.chain = <<>>
        BY <1>1 DEF ConfigureRunner, MainOK, Configured
      <4>2. DOMAIN setup.chain = {}
        BY <4>1
      <4>. QED
        BY <4>2
    <3>. QED
      BY <2>1, <2>3, <3>1, <3>4, <3>5, <3>6
  <2>. QED
    BY <1>1, <2>2, <2>3 DEF ConfigureRunner
<1>2. CASE RunReturns
  BY <1>2, RunnerAssumption DEF RunReturns, Hosts
<1>3. CASE Restart
  BY <1>3 DEF Restart
<1>4. CASE Cancel
  BY <1>4 DEF Cancel
<1>. QED
  BY <1>1, <1>2, <1>3, <1>4 DEF Main

-----------------------------------------------------------------------------
(* The steps of an Invoke, as they look to that Invoke.                    *)

\* Nothing of the script changes.
NotScript(i) == pc'[i] = pc[i] /\ routine'[i] = routine[i] /\ proc'[i] = proc[i]

\* Nothing of the calls but the value and where it is.
OnItsWay(i) ==
  /\ outer'[i] = outer[i] /\ inner'[i] = inner[i]
  /\ given'[i] = given[i] /\ reply'[i] = reply[i]
  /\ NotScript(i)

Enters(i) ==
  /\ outer[i] = "running" /\ way[i] = "idle"
  /\ way'[i] = "inwards" /\ at'[i] = 1 /\ value'[i] = value[i]
  /\ expired'[i] = expired[i]
  /\ OnItsWay(i)

Passes(i) ==
  /\ way[i] = "inwards" /\ at[i] <= Len(setup.chain)
  /\ way'[i] = "inwards" /\ at'[i] = at[i] + 1
  /\ \E done \in BOOLEAN : value'[i] = Inward(setup.chain[at[i]], value[i], done)
  /\ IsError(value'[i]) => value'[i] = value[i]
  /\ expired'[i] = expired[i]
  /\ OnItsWay(i)

TurnsBack(i) ==
  /\ way[i] = "inwards" /\ at[i] <= Len(setup.chain)
  /\ way'[i] = "outwards" /\ at'[i] = at[i] - 1 /\ value'[i] = Error(i)
  /\ expired'[i] = expired[i]
  /\ OnItsWay(i)

Calls(i) ==
  /\ way[i] = "inwards" /\ at[i] = Len(setup.chain) + 1
  /\ way'[i] = "fn" /\ inner'[i] = "running" /\ given'[i] = value[i]
  /\ at'[i] = at[i] /\ value'[i] = value[i]
  /\ outer'[i] = outer[i] /\ expired'[i] = expired[i] /\ reply'[i] = reply[i]
  /\ NotScript(i)

Returns(i) ==
  /\ way[i] = "fn" /\ inner[i] \in {"replied", "failed"}
  /\ way'[i] = "outwards" /\ at'[i] = at[i] - 1 /\ reply'[i] = value[i]
  /\ outer'[i] = outer[i] /\ inner'[i] = inner[i] /\ value'[i] = value[i]
  /\ expired'[i] = expired[i] /\ given'[i] = given[i]
  /\ NotScript(i)

ComesBack(i) ==
  /\ way[i] = "outwards" /\ at[i] > 0
  /\ way'[i] = "outwards" /\ at'[i] = at[i] - 1
  /\ \E done \in BOOLEAN : value'[i] = Outward(setup.chain[at[i]], value[i], done)
  /\ expired'[i] \subseteq expired[i]
  /\ OnItsWay(i)

Finishes(i) ==
  /\ way[i] = "outwards" /\ at[i] = 0
  /\ way'[i] = "done" /\ at'[i] = at[i] /\ value'[i] = value[i]
  /\ outer'[i] = IF IsError(value[i]) THEN "failed" ELSE "replied"
  /\ inner'[i] = inner[i]
  /\ expired'[i] = expired[i] /\ given'[i] = given[i] /\ reply'[i] = reply[i]
  /\ NotScript(i)

\* A timer fires, a limiter is made, or a goroutine panics.
Waits(i) ==
  /\ way[i] # "idle" \/ expired'[i] = expired[i]
  /\ expired'[i] \subseteq DOMAIN setup.chain
  /\ way'[i] = way[i] /\ at'[i] = at[i] /\ value'[i] = value[i]
  /\ OnItsWay(i)

Moves(i) == \/ Enters(i) \/ Passes(i) \/ TurnsBack(i) \/ Calls(i)
            \/ Returns(i) \/ ComesBack(i) \/ Finishes(i) \/ Waits(i)

\* The functions f and g differ at i, if they do.
Differs(f, g, i) == g = [f EXCEPT ![i] = g[i]]

\* Of no other Invoke than that of i anything changes.
Only(i) ==
  /\ Differs(outer, outer', i) /\ Differs(inner, inner', i) /\ Differs(value, value', i)
  /\ Differs(at, at', i) /\ Differs(way, way', i) /\ Differs(expired, expired', i)
  /\ Differs(given, given', i) /\ Differs(reply, reply', i)
  /\ Differs(pc, pc', i) /\ Differs(routine, routine', i) /\ Differs(proc, proc', i)

LEMMA NoDifference ==
  ASSUME IInv, NEW i \in Inputs
  PROVE  /\ Differs(outer, outer, i) /\ Differs(inner, inner, i) /\ Differs(value, value, i)
         /\ Differs(at, at, i) /\ Differs(way, way, i) /\ Differs(expired, expired, i)
         /\ Differs(given, given, i) /\ Differs(reply, reply, i)
         /\ Differs(pc, pc, i) /\ Differs(routine, routine, i) /\ Differs(proc, proc, i)
<1>1. \A S, T, f : f \in [S -> T] => f = [f EXCEPT ![i] = f[i]]
  OBVIOUS
<1>. QED
  BY <1>1 DEF IInv, Types, CallsOK, Middleware!TypeOK, Script!TypeOK, Differs

LEMMA PipelineMoves ==
  ASSUME IInv, NEW i \in Inputs, PassMiddleware(i) \/ Expire(i)
  PROVE  Only(i) /\ Moves(i)
<1>1. /\ outer \in [Inputs -> Statuses] /\ inner \in [Inputs -> Statuses]
      /\ value \in [Inputs -> Values]
      /\ given \in [Inputs -> Values] /\ reply \in [Inputs -> Values]
      /\ at \in [Inputs -> 0 .. Len(setup.chain) + 1]
      /\ way \in [Inputs -> Middleware!Ways]
      /\ expired \in [Inputs -> SUBSET DOMAIN setup.chain]
      /\ pc \in [Inputs -> Script!Locations] /\ routine \in [Inputs -> Script!Routines]
      /\ proc \in [Inputs -> {"none", "running", "succeeded", "failed"}]
  BY DEF IInv, Types, CallsOK, Middleware!TypeOK, Script!TypeOK
<1> HIDE DEF IInv
<1>2. /\ pc' = pc /\ routine' = routine /\ proc' = proc /\ NotScript(i)
      /\ Middleware!Step(i) \/ Middleware!Expire(i)
  BY DEF PassMiddleware, Expire, scriptVars, NotScript
<1>3. Middleware!Error(i) = Error(i) /\ \A v : Middleware!IsError(v) <=> IsError(v)
  BY SameTransforms
<1>4. /\ Differs(outer, outer, i) /\ Differs(inner, inner, i) /\ Differs(value, value, i)
      /\ Differs(at, at, i) /\ Differs(way, way, i) /\ Differs(expired, expired, i)
      /\ Differs(given, given, i) /\ Differs(reply, reply, i)
      /\ Differs(pc, pc, i) /\ Differs(routine, routine, i) /\ Differs(proc, proc, i)
  BY NoDifference
<1> USE DEF Middleware!stages, Middleware!objects, Middleware!history
<1>5. CASE Middleware!Enter(i)
  <2>1. /\ way' = [way EXCEPT ![i] = "inwards"]
        /\ at' = [at EXCEPT ![i] = 1]
        /\ outer[i] = "running" /\ way[i] = "idle"
        /\ UNCHANGED <<outer, inner, value, expired, given, reply>>
    BY <1>5 DEF Middleware!Enter
  <2>2. way'[i] = "inwards" /\ at'[i] = 1
    BY <1>1, <2>1
  <2>3. Differs(way, way', i) /\ Differs(at, at', i)
    BY <2>1, <2>2 DEF Differs
  <2>4. Only(i)
    BY <1>2, <1>4, <2>1, <2>3 DEF Only
  <2>5. Enters(i)
    BY <1>2, <2>1, <2>2 DEF Enters, OnItsWay
  <2>. QED
    BY <2>4, <2>5 DEF Moves
<1>6. ASSUME way[i] = "inwards", at[i] <= Len(setup.chain),
             Middleware!TurnBack(i), UNCHANGED <<outer, inner, expired, given, reply>>
      PROVE  Only(i) /\ Moves(i)
  <2>1. /\ way' = [way EXCEPT ![i] = "outwards"]
        /\ at' = [at EXCEPT ![i] = at[i] - 1]
        /\ value' = [value EXCEPT ![i] = Error(i)]
        /\ UNCHANGED <<outer, inner, expired, given, reply>>
    BY <1>3, <1>6 DEF Middleware!TurnBack
  <2>2. way'[i] = "outwards" /\ at'[i] = at[i] - 1 /\ value'[i] = Error(i)
    BY <1>1, <2>1
  <2>3. Differs(way, way', i) /\ Differs(at, at', i) /\ Differs(value, value', i)
    BY <2>1, <2>2 DEF Differs
  <2>4. Only(i)
    BY <1>2, <1>4, <2>1, <2>3 DEF Only
  <2>5. TurnsBack(i)
    BY <1>2, <2>1, <2>2, <1>6 DEF TurnsBack, OnItsWay
  <2>. QED
    BY <2>4, <2>5 DEF Moves
<1>7. ASSUME way[i] = "inwards", at[i] <= Len(setup.chain), NEW done \in BOOLEAN, NEW v,
             v = Inward(setup.chain[at[i]], value[i], done), IsError(v) => v = value[i],
             Middleware!Proceed(i, v), UNCHANGED <<outer, inner, expired, given, reply>>
      PROVE  Only(i) /\ Moves(i)
  <2>1. /\ at' = [at EXCEPT ![i] = at[i] + 1]
        /\ value' = [value EXCEPT ![i] = v]
        /\ UNCHANGED <<outer, inner, way, expired, given, reply>>
    BY <1>7 DEF Middleware!Proceed
  <2>2. at'[i] = at[i] + 1 /\ value'[i] = v
    BY <1>1, <2>1
  <2>3. Differs(at, at', i) /\ Differs(value, value', i)
    BY <2>1, <2>2 DEF Differs
  <2>4. Only(i)
    BY <1>2, <1>4, <2>1, <2>3 DEF Only
  <2>5. Passes(i)
    BY <1>2, <2>1, <2>2, <1>7 DEF Passes, OnItsWay
  <2>. QED
    BY <2>4, <2>5 DEF Moves
<1>8. CASE Middleware!Transform(i)
  <2> DEFINE v == Inward(setup.chain[at[i]], value[i], Middleware!Done(i, at[i]))
  <2>1. /\ way[i] = "inwards" /\ at[i] <= Len(setup.chain)
        /\ IF IsError(v) THEN Middleware!TurnBack(i) ELSE Middleware!Proceed(i, v)
        /\ UNCHANGED <<outer, inner, expired, given, reply>>
    BY <1>8, SameTransforms DEF Middleware!Transform, Middleware!Inside, Middleware!Stage
  <2>2. Middleware!Done(i, at[i]) \in BOOLEAN
    BY DEF Middleware!Done
  <2>3. CASE IsError(v)
    BY <1>6, <2>1, <2>3
  <2>4. CASE ~IsError(v)
    BY <1>7, <2>1, <2>2, <2>4
  <2>. QED
    BY <2>3, <2>4
<1>9. ASSUME way[i] = "inwards", at[i] <= Len(setup.chain),
              setup.chain[at[i]].key \in {"middleware/ratelimiter", "middleware/circuitbreaker"},
              Middleware!Proceed(i, value[i]), UNCHANGED <<outer, inner, expired, given, reply>>
       PROVE  Only(i) /\ Moves(i)
  <2>1. value[i] = Inward(setup.chain[at[i]], value[i], FALSE)
    BY <1>9 DEF Inward
  <2>. QED
    BY <1>7, <1>9, <2>1
<1>19. CASE Middleware!MakeLimiter(i)
  <2>1. way[i] = "inwards" /\ UNCHANGED <<outer, inner, value, at, way, expired, given, reply>>
    BY <1>19 DEF Middleware!MakeLimiter, Middleware!Inside
  <2>2. expired[i] \subseteq DOMAIN setup.chain
    BY <1>1
  <2>3. Only(i)
    BY <1>2, <1>4, <2>1 DEF Only
  <2>4. Waits(i)
    BY <1>2, <2>1, <2>2 DEF Waits, OnItsWay
  <2>. QED
    BY <2>3, <2>4 DEF Moves
<1>10. CASE Middleware!TakeToken(i)
  BY <1>9, <1>10 DEF Middleware!TakeToken, Middleware!Inside, Middleware!Stage
<1>11. CASE Middleware!GiveUpWaiting(i)
  BY <1>6, <1>11 DEF Middleware!GiveUpWaiting, Middleware!Inside
<1>12. CASE Middleware!PassBreaker(i)
  <2>1. /\ way[i] = "inwards" /\ at[i] <= Len(setup.chain)
        /\ setup.chain[at[i]].key = "middleware/circuitbreaker"
        /\ Middleware!Proceed(i, value[i]) \/ Middleware!TurnBack(i)
        /\ UNCHANGED <<outer, inner, expired, given, reply>>
    BY <1>12 DEF Middleware!PassBreaker, Middleware!Inside, Middleware!Stage
  <2>. QED
    BY <1>6, <1>9, <2>1
<1>13. CASE Middleware!MissBreaker(i)
  <2>1. UNCHANGED <<outer, inner, value, at, way, expired, given, reply>>
    BY <1>13 DEF Middleware!MissBreaker, Middleware!pipelineVars
  <2>2. expired[i] \subseteq DOMAIN setup.chain
    BY <1>1
  <2>3. Only(i)
    BY <1>2, <1>4, <2>1 DEF Only
  <2>4. Waits(i)
    BY <1>2, <2>1, <2>2 DEF Waits, OnItsWay
  <2>. QED
    BY <2>3, <2>4 DEF Moves
<1>14. CASE Middleware!CallFn(i)
  <2>1. /\ inner' = [inner EXCEPT ![i] = "running"]
        /\ way' = [way EXCEPT ![i] = "fn"]
        /\ given' = [given EXCEPT ![i] = value[i]]
        /\ way[i] = "inwards" /\ at[i] = Len(setup.chain) + 1
        /\ UNCHANGED <<outer, value, at, expired, reply>>
    BY <1>14 DEF Middleware!CallFn
  <2>2. inner'[i] = "running" /\ way'[i] = "fn" /\ given'[i] = value[i]
    BY <1>1, <2>1
  <2>3. Differs(inner, inner', i) /\ Differs(way, way', i) /\ Differs(given, given', i)
    BY <2>1, <2>2 DEF Differs
  <2>4. Only(i)
    BY <1>2, <1>4, <2>1, <2>3 DEF Only
  <2>5. Calls(i)
    BY <1>2, <2>1, <2>2 DEF Calls
  <2>. QED
    BY <2>4, <2>5 DEF Moves
<1>15. CASE Middleware!FnReturns(i)
  <2>1. /\ way' = [way EXCEPT ![i] = "outwards"]
        /\ at' = [at EXCEPT ![i] = at[i] - 1]
        /\ reply' = [reply EXCEPT ![i] = value[i]]
        /\ way[i] = "fn" /\ inner[i] \in {"replied", "failed"}
        /\ UNCHANGED <<outer, inner, value, expired, given>>
    BY <1>15 DEF Middleware!FnReturns
  <2>2. way'[i] = "outwards" /\ at'[i] = at[i] - 1 /\ reply'[i] = value[i]
    BY <1>1, <2>1
  <2>3. Differs(way, way', i) /\ Differs(at, at', i) /\ Differs(reply, reply', i)
    BY <2>1, <2>2 DEF Differs
  <2>4. Only(i)
    BY <1>2, <1>4, <2>1, <2>3 DEF Only
  <2>5. Returns(i)
    BY <1>2, <2>1, <2>2 DEF Returns
  <2>. QED
    BY <2>4, <2>5 DEF Moves
<1>16. CASE Middleware!ComeBack(i)
  <2> DEFINE v == Outward(setup.chain[at[i]], value[i], Middleware!Done(i, at[i]))
  <2>6. Middleware!Done(i, at[i]) \in BOOLEAN
    BY DEF Middleware!Done
  <2>1. /\ value' = [value EXCEPT ![i] = v]
        /\ at' = [at EXCEPT ![i] = at[i] - 1]
        /\ expired' = [expired EXCEPT ![i] = expired[i] \ {at[i]}]
        /\ way[i] = "outwards" /\ at[i] > 0
        /\ UNCHANGED <<outer, inner, way, given, reply>>
    BY <1>16, SameTransforms DEF Middleware!ComeBack, Middleware!Outside, Middleware!Stage
  <2>2. value'[i] = v /\ at'[i] = at[i] - 1 /\ expired'[i] = expired[i] \ {at[i]}
    BY <1>1, <2>1
  <2>3. Differs(value, value', i) /\ Differs(at, at', i) /\ Differs(expired, expired', i)
    BY <2>1, <2>2 DEF Differs
  <2>4. Only(i)
    BY <1>2, <1>4, <2>1, <2>3 DEF Only
  <2>5. ComesBack(i)
    BY <1>2, <2>1, <2>2, <2>6 DEF ComesBack, OnItsWay
  <2>. QED
    BY <2>4, <2>5 DEF Moves
<1>17. CASE Middleware!Return(i)
  <2>1. /\ way' = [way EXCEPT ![i] = "done"]
        /\ outer' = [outer EXCEPT ![i] = IF IsError(value[i]) THEN "failed" ELSE "replied"]
        /\ way[i] = "outwards" /\ at[i] = 0
        /\ UNCHANGED <<inner, value, at, expired, given, reply>>
    BY <1>3, <1>17 DEF Middleware!Return
  <2>2. way'[i] = "done" /\ outer'[i] = IF IsError(value[i]) THEN "failed" ELSE "replied"
    BY <1>1, <2>1
  <2>3. Differs(way, way', i) /\ Differs(outer, outer', i)
    BY <2>1, <2>2 DEF Differs
  <2>4. Only(i)
    BY <1>2, <1>4, <2>1, <2>3 DEF Only
  <2>5. Finishes(i)
    BY <1>2, <2>1, <2>2 DEF Finishes
  <2>. QED
    BY <2>4, <2>5 DEF Moves
<1>18. CASE Middleware!Expire(i)
  <2>6. PICK t \in DOMAIN setup.chain : expired' = [expired EXCEPT ![i] = expired[i] \cup {t}]
    BY <1>18 DEF Middleware!Expire, Middleware!Timeouts
  <2>7. expired[i] \cup {t} \subseteq DOMAIN setup.chain
    BY <1>1
  <2>1. /\ expired' = [expired EXCEPT ![i] = expired[i] \cup {t}]
        /\ way[i] # "idle"
        /\ UNCHANGED <<outer, inner, value, at, way, given, reply>>
    BY <1>18, <2>6 DEF Middleware!Expire
  <2>2. expired'[i] = expired[i] \cup {t}
    BY <1>1, <2>1
  <2>3. Differs(expired, expired', i)
    BY <2>1, <2>2 DEF Differs
  <2>4. Only(i)
    BY <1>2, <1>4, <2>1, <2>3 DEF Only
  <2>5. Waits(i)
    BY <1>2, <2>1, <2>2, <2>7 DEF Waits, OnItsWay
  <2>. QED
    BY <2>4, <2>5 DEF Moves
<1>. QED
  BY <1>2, <1>5, <1>8, <1>10, <1>11, <1>12, <1>13, <1>14, <1>15, <1>16, <1>17, <1>18,
     <1>19 DEF Middleware!Step

\* A step of the fn of i: the script goes on, or its Invoke returns.
Works(i) ==
  /\ outer'[i] = outer[i] /\ at'[i] = at[i] /\ way'[i] = way[i]
  /\ expired'[i] = expired[i] /\ given'[i] = given[i] /\ reply'[i] = reply[i]
  /\ \/ inner'[i] = inner[i] /\ value'[i] = value[i]
     \/ /\ inner[i] = "running"
        /\ \/ inner'[i] = "replied" /\ (value'[i] = Printed(i) \/ value'[i] = value[i])
           \/ inner'[i] = "failed" /\ value'[i] = Error(i)

LEMMA FnMoves ==
  ASSUME IInv, NEW i \in Inputs, InvokeFn(i) \/ ScriptEnds(i)
  PROVE  Only(i) /\ Works(i) /\ ScriptOK(i)'
<1>1. /\ inner \in [Inputs -> Statuses] /\ value \in [Inputs -> Values]
      /\ pc \in [Inputs -> Script!Locations] /\ routine \in [Inputs -> Script!Routines]
      /\ proc \in [Inputs -> {"none", "running", "succeeded", "failed"}]
      /\ ScriptOK(i)
  BY DEF IInv, Types, CallsOK, Script!TypeOK
<1> HIDE DEF IInv
<1>2. UNCHANGED <<setup, outer, at, way, expired, given, reply>>
  BY DEF InvokeFn, RunScript, ScriptEnds, Identity, PostInput, FnReturns, mainVars,
         sourceVars, stageVars
<1>3. Script!Error(i) = Error(i) /\ Script!Printed(i) = Printed(i)
  BY SameTransforms
<1>4. /\ Differs(outer, outer', i) /\ Differs(at, at', i) /\ Differs(way, way', i)
      /\ Differs(expired, expired', i) /\ Differs(given, given', i) /\ Differs(reply, reply', i)
      /\ Differs(inner, inner, i) /\ Differs(value, value, i)
      /\ Differs(pc, pc, i) /\ Differs(routine, routine, i) /\ Differs(proc, proc, i)
  BY <1>2, NoDifference
<1>5. Fn' = Fn
  BY <1>2 DEF Fn
<1>6. CASE InvokeFn(i) /\ Fn # "fn/cli"
  <2>1. ASSUME NEW o \in {"replied", "failed"}, NEW v,
               inner[i] = "running", inner' = [inner EXCEPT ![i] = o],
               value' = [value EXCEPT ![i] = v],
               o = "replied" => v \in {value[i], Printed(i)}, o = "failed" => v = Error(i),
               UNCHANGED <<pc, routine, proc>>
        PROVE  Only(i) /\ Works(i) /\ ScriptOK(i)'
    <3>1. inner'[i] = o /\ value'[i] = v
      BY <1>1, <2>1
    <3>2. Differs(inner, inner', i) /\ Differs(value, value', i)
      BY <2>1, <3>1 DEF Differs
    <3>3. Only(i)
      BY <1>4, <2>1, <3>2 DEF Only
    <3>4. Works(i)
      BY <1>2, <2>1, <3>1 DEF Works
    <3>5. ScriptOK(i)'
      BY <1>1, <1>5, <1>6, <2>1, <3>1 DEF ScriptOK
    <3>. QED
      BY <3>3, <3>4, <3>5
  <2>2. CASE Identity(i)
    BY <2>1, <2>2 DEF Identity, FnReturns, scriptVars
  <2>3. CASE PostInput(i)
    BY <2>1, <2>3 DEF PostInput, FnReturns, scriptVars
  <2>. QED
    BY <1>6, <2>2, <2>3 DEF InvokeFn, RunScript
<1>7. CASE InvokeFn(i) /\ Fn = "fn/cli"
  <2>1. Script!Step(i) /\ Fn' = "fn/cli"
    BY <1>5, <1>7 DEF InvokeFn, RunScript, Identity, PostInput
  <2> USE DEF Script!scriptVars
  <2>2. CASE Script!CreatePipes(i)
    <3>1. /\ inner[i] = "running" /\ pc[i] = "new"
          /\ pc' = [pc EXCEPT ![i] = "write"]
          /\ UNCHANGED <<inner, value, routine, proc>>
      BY <1>3, <2>2 DEF Script!CreatePipes
    <3>2. pc'[i] = "write"
      BY <1>1, <3>1
    <3>3. Differs(pc, pc', i)
      BY <3>1, <3>2 DEF Differs
    <3>4. Only(i)
      BY <1>4, <3>1, <3>3 DEF Only
    <3>5. Works(i)
      BY <1>1, <1>2, <3>1, <3>2 DEF Works, ScriptOK
    <3>6. ScriptOK(i)'
      BY <1>1, <2>1, <3>1, <3>2 DEF ScriptOK
    <3>. QED
      BY <3>4, <3>5, <3>6
  <2>3. CASE Script!CreatePipesFails(i)
    <3>1. /\ inner[i] = "running" /\ pc[i] = "new"
          /\ inner' = [inner EXCEPT ![i] = "failed"]
          /\ value' = [value EXCEPT ![i] = Error(i)]
          /\ pc' = [pc EXCEPT ![i] = "returned"]
          /\ UNCHANGED <<routine, proc>>
      BY <1>3, <2>3 DEF Script!CreatePipesFails, Script!Return
    <3>2. inner'[i] = "failed" /\ value'[i] = Error(i) /\ pc'[i] = "returned"
      BY <1>1, <3>1
    <3>3. Differs(inner, inner', i) /\ Differs(value, value', i) /\ Differs(pc, pc', i)
      BY <3>1, <3>2 DEF Differs
    <3>4. Only(i)
      BY <1>4, <3>1, <3>3 DEF Only
    <3>5. Works(i)
      BY <1>1, <1>2, <3>1, <3>2 DEF Works, ScriptOK
    <3>6. ScriptOK(i)'
      BY <1>1, <2>1, <3>1, <3>2 DEF ScriptOK
    <3>. QED
      BY <3>4, <3>5, <3>6
  <2>4. CASE Script!Write(i)
    <3>1. /\ pc[i] = "write"
          /\ pc' = [pc EXCEPT ![i] = "select"]
          /\ routine' = [routine EXCEPT ![i] = "starting"]
          /\ UNCHANGED <<inner, value, proc>>
      BY <1>3, <2>4 DEF Script!Write, Script!Move
    <3>2. pc'[i] = "select" /\ routine'[i] = "starting"
      BY <1>1, <3>1
    <3>3. Differs(pc, pc', i) /\ Differs(routine, routine', i)
      BY <3>1, <3>2 DEF Differs
    <3>4. Only(i)
      BY <1>4, <3>1, <3>3 DEF Only
    <3>5. Works(i)
      BY <1>1, <1>2, <3>1, <3>2 DEF Works, ScriptOK
    <3>6. ScriptOK(i)'
      BY <1>1, <2>1, <3>1, <3>2 DEF ScriptOK
    <3>. QED
      BY <3>4, <3>5, <3>6
  <2>5. CASE Script!Panic
    <3>1. /\ UNCHANGED <<inner, value, pc, routine, proc>>
      BY <1>3, <2>5 DEF Script!Panic
    <3>4. Only(i)
      BY <1>4, <3>1 DEF Only
    <3>5. Works(i)
      BY <1>1, <1>2, <3>1 DEF Works, ScriptOK
    <3>6. ScriptOK(i)'
      BY <1>1, <2>1, <3>1 DEF ScriptOK
    <3>. QED
      BY <3>4, <3>5, <3>6
  <2>6. CASE Script!ContextDone(i) /\ Script!HasProcess(i)
    <3>1. /\ pc[i] = "select" /\ proc[i] # "none" /\ routine[i] # "forked"
          /\ inner' = [inner EXCEPT ![i] = "failed"]
          /\ value' = [value EXCEPT ![i] = Error(i)]
          /\ pc' = [pc EXCEPT ![i] = "gaveUp"]
          /\ proc' = [proc EXCEPT ![i] = IF proc[i] = "running" THEN "failed" ELSE proc[i]]
          /\ UNCHANGED <<routine>>
      BY <1>3, <2>6 DEF Script!ContextDone, Script!Return, Script!HasProcess
    <3>2. inner'[i] = "failed" /\ value'[i] = Error(i) /\ pc'[i] = "gaveUp" /\ proc'[i] = IF proc[i] = "running" THEN "failed" ELSE proc[i]
      BY <1>1, <3>1
    <3>3. Differs(inner, inner', i) /\ Differs(value, value', i) /\ Differs(pc, pc', i) /\ Differs(proc, proc', i)
      BY <3>1, <3>2 DEF Differs
    <3>4. Only(i)
      BY <1>4, <3>1, <3>3 DEF Only
    <3>5. Works(i)
      BY <1>1, <1>2, <3>1, <3>2 DEF Works, ScriptOK
    <3>6. ScriptOK(i)'
      BY <1>1, <2>1, <3>1, <3>2 DEF ScriptOK
    <3>. QED
      BY <3>4, <3>5, <3>6
  <2>7. CASE Script!ReceiveError(i) /\ Script!HasProcess(i)
    <3>1. /\ pc[i] = "select" /\ routine[i] = "sendError"
          /\ inner' = [inner EXCEPT ![i] = "failed"]
          /\ value' = [value EXCEPT ![i] = Error(i)]
          /\ pc' = [pc EXCEPT ![i] = "returned"]
          /\ routine' = [routine EXCEPT ![i] = "ended"]
          /\ UNCHANGED <<proc>>
      BY <1>3, <2>7 DEF Script!ReceiveError, Script!Return, Script!Move
    <3>2. inner'[i] = "failed" /\ value'[i] = Error(i) /\ pc'[i] = "returned" /\ routine'[i] = "ended"
      BY <1>1, <3>1
    <3>3. Differs(inner, inner', i) /\ Differs(value, value', i) /\ Differs(pc, pc', i) /\ Differs(routine, routine', i)
      BY <3>1, <3>2 DEF Differs
    <3>4. Only(i)
      BY <1>4, <3>1, <3>3 DEF Only
    <3>5. Works(i)
      BY <1>1, <1>2, <3>1, <3>2 DEF Works, ScriptOK
    <3>6. ScriptOK(i)'
      BY <1>1, <2>1, <3>1, <3>2 DEF ScriptOK
    <3>. QED
      BY <3>4, <3>5, <3>6
  <2>8. CASE Script!ReceiveOutput(i)
    <3>1. /\ pc[i] = "select" /\ routine[i] = "sendOutput"
          /\ inner' = [inner EXCEPT ![i] = "replied"]
          /\ value' = [value EXCEPT ![i] = Printed(i)]
          /\ pc' = [pc EXCEPT ![i] = "returned"]
          /\ routine' = [routine EXCEPT ![i] = "ended"]
          /\ UNCHANGED <<proc>>
      BY <1>3, <2>8 DEF Script!ReceiveOutput, Script!Return, Script!Move
    <3>2. inner'[i] = "replied" /\ value'[i] = Printed(i) /\ pc'[i] = "returned" /\ routine'[i] = "ended"
      BY <1>1, <3>1
    <3>3. Differs(inner, inner', i) /\ Differs(value, value', i) /\ Differs(pc, pc', i) /\ Differs(routine, routine', i)
      BY <3>1, <3>2 DEF Differs
    <3>4. Only(i)
      BY <1>4, <3>1, <3>3 DEF Only
    <3>5. Works(i)
      BY <1>1, <1>2, <3>1, <3>2 DEF Works, ScriptOK
    <3>6. ScriptOK(i)'
      BY <1>1, <2>1, <3>1, <3>2 DEF ScriptOK
    <3>. QED
      BY <3>4, <3>5, <3>6
  <2>9. CASE Script!StartFails(i)
    <3>1. /\ routine[i] = "starting"
          /\ routine' = [routine EXCEPT ![i] = "sendError"]
          /\ UNCHANGED <<inner, value, pc, proc>>
      BY <1>3, <2>9 DEF Script!StartFails, Script!Move
    <3>2. routine'[i] = "sendError"
      BY <1>1, <3>1
    <3>3. Differs(routine, routine', i)
      BY <3>1, <3>2 DEF Differs
    <3>4. Only(i)
      BY <1>4, <3>1, <3>3 DEF Only
    <3>5. Works(i)
      BY <1>1, <1>2, <3>1, <3>2 DEF Works, ScriptOK
    <3>6. ScriptOK(i)'
      BY <1>1, <2>1, <3>1, <3>2 DEF ScriptOK
    <3>. QED
      BY <3>4, <3>5, <3>6
  <2>10. CASE Script!Fork(i)
    <3>1. /\ routine[i] = "starting"
          /\ routine' = [routine EXCEPT ![i] = "forked"]
          /\ proc' = [proc EXCEPT ![i] = "running"]
          /\ UNCHANGED <<inner, value, pc>>
      BY <1>3, <2>10 DEF Script!Fork, Script!Move
    <3>2. routine'[i] = "forked" /\ proc'[i] = "running"
      BY <1>1, <3>1
    <3>3. Differs(routine, routine', i) /\ Differs(proc, proc', i)
      BY <3>1, <3>2 DEF Differs
    <3>4. Only(i)
      BY <1>4, <3>1, <3>3 DEF Only
    <3>5. Works(i)
      BY <1>1, <1>2, <3>1, <3>2 DEF Works, ScriptOK
    <3>6. ScriptOK(i)'
      BY <1>1, <2>1, <3>1, <3>2 DEF ScriptOK
    <3>. QED
      BY <3>4, <3>5, <3>6
  <2>11. CASE Script!AssignProcess(i)
    <3>1. /\ routine[i] = "forked"
          /\ routine' = [routine EXCEPT ![i] = "waiting"]
          /\ UNCHANGED <<inner, value, pc, proc>>
      BY <1>3, <2>11 DEF Script!AssignProcess, Script!Move
    <3>2. routine'[i] = "waiting"
      BY <1>1, <3>1
    <3>3. Differs(routine, routine', i)
      BY <3>1, <3>2 DEF Differs
    <3>4. Only(i)
      BY <1>4, <3>1, <3>3 DEF Only
    <3>5. Works(i)
      BY <1>1, <1>2, <3>1, <3>2 DEF Works, ScriptOK
    <3>6. ScriptOK(i)'
      BY <1>1, <2>1, <3>1, <3>2 DEF ScriptOK
    <3>. QED
      BY <3>4, <3>5, <3>6
  <2>12. CASE Script!WaitForProcess(i)
    <3>1. PICK r \in {"sendOutput", "sendError"} :
            /\ routine[i] = "waiting" /\ proc[i] # "running"
            /\ routine' = [routine EXCEPT ![i] = r]
            /\ UNCHANGED <<inner, value, pc, proc>>
      BY <1>3, <2>12 DEF Script!WaitForProcess, Script!Move
    <3>2. routine'[i] = r
      BY <1>1, <3>1
    <3>3. Differs(routine, routine', i)
      BY <3>1, <3>2 DEF Differs
    <3>4. Only(i)
      BY <1>4, <3>1, <3>3 DEF Only
    <3>5. Works(i)
      BY <1>1, <1>2, <3>1, <3>2 DEF Works, ScriptOK
    <3>6. ScriptOK(i)'
      BY <1>1, <2>1, <3>1, <3>2 DEF ScriptOK
    <3>. QED
      BY <3>4, <3>5, <3>6
  <2>. QED
    BY <2>1, <2>2, <2>3, <2>4, <2>5, <2>6, <2>7,
       <2>8, <2>9, <2>10, <2>11, <2>12
       DEF Script!Step, Script!Invoke, Script!Goroutine, Script!ContextDone, Script!ReceiveError
<1>8. CASE ScriptEnds(i)
  <2>1. PICK c \in {"succeeded", "failed"} :
          /\ proc[i] = "running"
          /\ proc' = [proc EXCEPT ![i] = c]
          /\ UNCHANGED <<inner, value, pc, routine>>
    BY <1>8 DEF ScriptEnds, Script!ProcessEnds
  <2>2. proc'[i] = c
    BY <1>1, <2>1
  <2>3. Differs(proc, proc', i)
    BY <2>1, <2>2 DEF Differs
  <2>4. Only(i)
    BY <1>4, <2>1, <2>3 DEF Only
  <2>5. Works(i)
    BY <1>1, <1>2, <2>1, <2>2 DEF Works, ScriptOK
  <2>6. ScriptOK(i)'
    BY <1>1, <1>5, <2>1, <2>2 DEF ScriptOK
  <2>. QED
    BY <2>4, <2>5, <2>6
<1>. QED
  BY <1>6, <1>7, <1>8

\* A source calls the pipeline.
Starts(i) ==
  /\ outer[i] = "idle" /\ outer'[i] = "running" /\ value'[i] = InputOf(i)
  /\ inner'[i] = inner[i] /\ at'[i] = at[i] /\ way'[i] = way[i]
  /\ expired'[i] = expired[i] /\ given'[i] = given[i] /\ reply'[i] = reply[i]
  /\ NotScript(i)

LEMMA SameSetup ==
  ASSUME UNCHANGED setup
  PROVE  /\ Source' = Source /\ Fn' = Fn
         /\ \A i \in Inputs : InputOf(i)' = InputOf(i)
         /\ Bare' <=> Bare
  BY DEF Source, Fn, InputOf, Lambda!InputOf, Decodes, Bare

LEMMA LambdaSteps ==
  ASSUME IInv, ServeLambda
  PROVE  /\ UNCHANGED <<mainVars, panicked, calls, stageVars, scriptVars, event>>
         /\ answers' \in [Inputs -> {"none", "output", "error"}]
         /\ SourceOK'
<1>1. UNCHANGED <<mainVars, panicked, inner, stageVars, scriptVars>> /\ Lambda!Step
  BY DEF ServeLambda
<1>2. UNCHANGED <<event, outer, value>>
  BY <1>1 DEF Lambda!Step, Lambda!Begin, Lambda!CheckContext, Lambda!PostError,
              Lambda!PostOutput, Lambda!MarshalFails, Lambda!lambdaVars
<1>3. /\ event \in Inputs \cup {0} /\ answers \in [Inputs -> {"none", "output", "error"}]
      /\ SourceOK
  BY DEF IInv, Types, Lambda!TypeOK
<1>4. Source' = Source
  BY <1>1, SameSetup DEF mainVars
<1> HIDE DEF IInv
<1>5. /\ serve' # "invoke"
      /\ \/ answers' = answers
         \/ /\ serve = "invoke"
            /\ \E a \in {"none", "output", "error"} : answers' = [answers EXCEPT ![event] = a]
  <2>1. \A answer \in {"output", "error"} : serve = "invoke" /\ Lambda!Post(answer) =>
          \E a \in {"none", "output", "error"} : answers' = [answers EXCEPT ![event] = a]
    <3>1. serve = "invoke" => answers[event] \in {"none", "output", "error"}
      BY <1>3 DEF SourceOK
    <3>. QED
      BY <3>1 DEF Lambda!Post
  <2>. QED
    BY <1>1, <2>1 DEF Lambda!Step, Lambda!Begin, Lambda!CheckContext, Lambda!PostError,
              Lambda!PostOutput, Lambda!MarshalFails, Lambda!lambdaVars
<1>6. event \in Nat /\ \A e \in Inputs : e \in Nat
  BY <1>3, RunnerAssumption
<1>7. SourceOK'
  BY <1>2, <1>3, <1>4, <1>5, <1>6 DEF SourceOK
<1>8. answers' \in [Inputs -> {"none", "output", "error"}]
  BY <1>3, <1>5
<1>. QED
  BY <1>1, <1>2, <1>7, <1>8 DEF calls

LEMMA CronSteps ==
  ASSUME IInv, ServeCron
  PROVE  /\ UNCHANGED <<mainVars, panicked, calls, stageVars, scriptVars, event, answers>>
         /\ SourceOK'
<1>1. /\ UNCHANGED <<mainVars, panicked, inner, stageVars, scriptVars, event, answers>>
      /\ serve' \in {"started", "returned"} /\ UNCHANGED <<outer, value>>
  BY DEF ServeCron, Cron!Step, Cron!Begin, Cron!Stop
<1>2. SourceOK /\ Source' = Source
  BY <1>1, SameSetup DEF IInv, mainVars
<1> HIDE DEF IInv
<1>. QED
  BY <1>1, <1>2 DEF SourceOK, calls

LEMMA Arrivals ==
  ASSUME IInv, ReceiveEvent \/ FireJob
  PROVE  /\ UNCHANGED <<mainVars, panicked, inner, stageVars, scriptVars, answers>>
         /\ SourceOK'
         /\ UNCHANGED <<outer, value>> \/ \E i \in Inputs : Only(i) /\ Starts(i)
<1>1. /\ event \in Inputs \cup {0} /\ answers \in [Inputs -> {"none", "output", "error"}]
      /\ SourceOK
      /\ outer \in [Inputs -> Statuses] /\ inner \in [Inputs -> Statuses]
      /\ value \in [Inputs -> Values]
      /\ given \in [Inputs -> Values] /\ reply \in [Inputs -> Values]
      /\ at \in [Inputs -> 0 .. Len(setup.chain) + 1]
      /\ way \in [Inputs -> Middleware!Ways]
      /\ expired \in [Inputs -> SUBSET DOMAIN setup.chain]
      /\ pc \in [Inputs -> Script!Locations] /\ routine \in [Inputs -> Script!Routines]
      /\ proc \in [Inputs -> {"none", "running", "succeeded", "failed"}]
  BY DEF IInv, Types, CallsOK, Lambda!TypeOK, Middleware!TypeOK, Script!TypeOK
<1> HIDE DEF IInv
<1>2. event \in Nat /\ \A e \in Inputs : e \in Nat
  BY <1>1, RunnerAssumption
<1>3. UNCHANGED <<mainVars, panicked, inner, stageVars, scriptVars, answers>>
  BY DEF ReceiveEvent, FireJob, Lambda!GetFails, Lambda!ReceiveGarbled, Lambda!CallFn,
         Lambda!Receive, Lambda!lambdaVars
<1>4. Source' = Source
  BY <1>3, SameSetup DEF mainVars
<1>5. ASSUME NEW i \in Inputs, outer[i] = "idle",
             outer' = [outer EXCEPT ![i] = "running"],
             value' = [value EXCEPT ![i] = InputOf(i)]
      PROVE  Only(i) /\ Starts(i)
  <2>1. outer'[i] = "running" /\ value'[i] = InputOf(i)
    BY <1>1, <1>5
  <2>2. UNCHANGED <<inner, at, way, expired, given, reply, pc, routine, proc>>
    BY <1>3 DEF stageVars, scriptVars
  <2>3. Differs(outer, outer', i) /\ Differs(value, value', i)
    BY <1>5, <2>1 DEF Differs
  <2>4. Only(i)
    BY <2>2, <2>3, NoDifference DEF Only
  <2>5. Starts(i)
    BY <1>5, <2>1, <2>2 DEF Starts, NotScript
  <2>. QED
    BY <2>4, <2>5
<1>6. CASE FireJob
  <2>1. PICK i \in Inputs : Cron!Fire(i)
    BY <1>6 DEF FireJob
  <2>2. /\ serve = "started" /\ serve' = serve /\ Source = "source/cron"
        /\ UNCHANGED event
    BY <1>6, <2>1 DEF FireJob, Cron!Fire, Serving
  <2>3. /\ outer[i] = "idle"
        /\ outer' = [outer EXCEPT ![i] = "running"]
        /\ value' = [value EXCEPT ![i] = InputOf(i)]
    <3>1. i >= i
      BY <1>2
    <3>. QED
      BY <2>1, <2>2, <3>1, SameTransforms DEF Cron!Fire, InputOf
  <2>4. SourceOK'
    BY <1>1, <1>3, <1>4, <2>2 DEF SourceOK
  <2>. QED
    BY <1>3, <1>5, <2>3, <2>4
<1>7. CASE ReceiveEvent
  <2>2. CASE Lambda!GetFails
    <3>1. serve' = "returned" /\ UNCHANGED <<event, outer, value>>
      BY <2>2 DEF Lambda!GetFails, Lambda!lambdaVars
    <3>2. SourceOK'
      BY <1>1, <1>3, <1>4, <3>1 DEF SourceOK
    <3>. QED
      BY <1>3, <3>1, <3>2
  <2>3. ASSUME NEW e \in Inputs, Lambda!ReceiveGarbled(e)
        PROVE  SourceOK' /\ UNCHANGED <<outer, value>>
    <3>1. /\ serve' = "returned" /\ UNCHANGED <<outer, value>>
          /\ event' = e /\ e = event + 1
      BY <2>3 DEF Lambda!ReceiveGarbled, Lambda!Receive
    <3>2. SourceOK'
      BY <1>1, <1>2, <1>3, <1>4, <3>1 DEF SourceOK
    <3>. QED
      BY <3>1, <3>2
  <2>4. ASSUME NEW e \in Inputs, Lambda!CallFn(e)
        PROVE  SourceOK' /\ Only(e) /\ Starts(e)
    <3>1. /\ serve' = "invoke" /\ event' = e /\ e = event + 1
          /\ outer' = [outer EXCEPT ![e] = "running"]
          /\ value' = [value EXCEPT ![e] = Lambda!InputOf(e)]
          /\ Source = "source/lambda"
      BY <1>7, <2>4 DEF Lambda!CallFn, Lambda!Receive, ReceiveEvent, Serving
    <3>2. outer[e] = "idle"
      BY <1>1, <1>2, <3>1 DEF SourceOK
    <3>3. InputOf(e) = Lambda!InputOf(e)
      BY <3>1 DEF InputOf
    <3>4. SourceOK'
      <4>1. \A j \in Inputs : j > e => j > event /\ outer'[j] = outer[j]
        BY <1>1, <1>2, <3>1
      <4>. QED
        BY <1>1, <1>2, <1>3, <1>4, <3>1, <4>1 DEF SourceOK
    <3>. QED
      BY <1>5, <3>1, <3>2, <3>3, <3>4
  <2>. QED
    BY <1>3, <1>7, <2>2, <2>3, <2>4 DEF ReceiveEvent
<1>. QED
  BY <1>6, <1>7

LEMMA SourceTypes ==
  ASSUME IInv, ServeLambda \/ ServeCron \/ ReceiveEvent \/ FireJob
  PROVE  Types'
<1> USE DEF IInv, Types, CallsOK, ValuesOK, Lambda!TypeOK, Middleware!TypeOK, Script!TypeOK,
            mainVars, sourceVars, stageVars, scriptVars, Serves, Statuses, Lambda!lambdaVars
<1>1. CASE ServeLambda
  <2>1. UNCHANGED <<mainVars, panicked, inner, stageVars, scriptVars>>
    BY <1>1 DEF ServeLambda
  <2>2. UNCHANGED <<event, outer, value>>
    BY <1>1 DEF ServeLambda, Lambda!Step, Lambda!Begin, Lambda!CheckContext,
                Lambda!PostError, Lambda!PostOutput, Lambda!MarshalFails
  <2>3. serve' \in Serves
    BY <1>1 DEF ServeLambda, Lambda!Step, Lambda!Begin, Lambda!CheckContext,
                Lambda!PostError, Lambda!PostOutput, Lambda!MarshalFails
  <2>4. answers' \in [Inputs -> {"none", "output", "error"}]
    BY <1>1, LambdaSteps
  <2>. QED
    BY <2>1, <2>2, <2>3, <2>4
<1>2. CASE ServeCron
  BY <1>2 DEF ServeCron, Cron!Step, Cron!Begin, Cron!Stop
<1>3. CASE ReceiveEvent
  <2>1. CASE Lambda!GetFails
    BY <1>3, <2>1 DEF ReceiveEvent, Lambda!GetFails
  <2>2. ASSUME NEW e \in Inputs, Lambda!ReceiveGarbled(e)
        PROVE  Types'
    BY <1>3, <2>2 DEF ReceiveEvent, Lambda!ReceiveGarbled, Lambda!Receive
  <2>3. ASSUME NEW e \in Inputs, Lambda!CallFn(e)
        PROVE  Types'
    <3>1. /\ event' = e /\ serve' = "invoke"
          /\ outer' = [outer EXCEPT ![e] = "running"]
          /\ value' = [value EXCEPT ![e] = Lambda!InputOf(e)]
          /\ answers' = answers
      BY <2>3 DEF Lambda!CallFn, Lambda!Receive
    <3>2. Lambda!InputOf(e) \in Values /\ Lambda!InputOf(e).of = e
      BY InputType
    <3>3. UNCHANGED <<mainVars, panicked, inner, stageVars, scriptVars>>
      BY <1>3 DEF ReceiveEvent
    <3> HIDE DEF IInv
    <3>. QED
      BY <3>1, <3>2, <3>3 DEF IInv
  <2>. QED
    BY <1>3, <2>1, <2>2, <2>3 DEF ReceiveEvent
<1>4. CASE FireJob
  <2>1. PICK i \in Inputs : Cron!Fire(i)
    BY <1>4 DEF FireJob
  <2>2. /\ outer' = [outer EXCEPT ![i] = "running"]
        /\ value' = [value EXCEPT ![i] = Plain("map", i)]
        /\ serve' = serve
    BY <2>1, SameTransforms DEF Cron!Fire
  <2>3. Plain("map", i) \in Values /\ Plain("map", i).of = i
    BY InputType
  <2>4. UNCHANGED <<mainVars, panicked, event, answers, inner, stageVars, scriptVars>>
    BY <1>4 DEF FireJob
  <2>. QED
    BY <2>2, <2>3, <2>4
<1>. QED
  BY <1>1, <1>2, <1>3, <1>4

-----------------------------------------------------------------------------
(* The parts of the invariant that are about one Invoke.                   *)

LEMMA Frame ==
  ASSUME IInv, UNCHANGED setup, NEW j \in Inputs,
         outer'[j] = outer[j], inner'[j] = inner[j], value'[j] = value[j],
         at'[j] = at[j], way'[j] = way[j], expired'[j] = expired[j],
         given'[j] = given[j], reply'[j] = reply[j], NotScript(j)
  PROVE  FlowOK(j)' /\ ScriptOK(j)' /\ OrderOK(j)'
<1>1. FlowOK(j) /\ ScriptOK(j) /\ OrderOK(j)
  BY DEF IInv
<1> HIDE DEF IInv
<1>2. Fn' = Fn /\ InputOf(j)' = InputOf(j)
  BY SameSetup
<1>3. FlowOK(j)'
  BY <1>1 DEF FlowOK
<1>4. ScriptOK(j)'
  BY <1>1, <1>2 DEF ScriptOK, NotScript
<1>5. OrderOK(j)'
  BY <1>1, <1>2 DEF OrderOK
<1>. QED
  BY <1>3, <1>4, <1>5

LEMMA Others ==
  ASSUME IInv, NEW i \in Inputs, Only(i), NEW j \in Inputs \ {i}
  PROVE  /\ outer'[j] = outer[j] /\ inner'[j] = inner[j] /\ value'[j] = value[j]
         /\ at'[j] = at[j] /\ way'[j] = way[j] /\ expired'[j] = expired[j]
         /\ given'[j] = given[j] /\ reply'[j] = reply[j] /\ NotScript(j)
<1>1. /\ outer \in [Inputs -> Statuses] /\ inner \in [Inputs -> Statuses]
      /\ value \in [Inputs -> Values]
      /\ given \in [Inputs -> Values] /\ reply \in [Inputs -> Values]
      /\ at \in [Inputs -> 0 .. Len(setup.chain) + 1]
      /\ way \in [Inputs -> Middleware!Ways]
      /\ expired \in [Inputs -> SUBSET DOMAIN setup.chain]
      /\ pc \in [Inputs -> Script!Locations] /\ routine \in [Inputs -> Script!Routines]
      /\ proc \in [Inputs -> {"none", "running", "succeeded", "failed"}]
  BY DEF IInv, Types, CallsOK, Middleware!TypeOK, Script!TypeOK
<1> HIDE DEF IInv
<1>. QED
  BY <1>1 DEF Only, Differs, NotScript

\* What is known of one Invoke before a step.
LEMMA Known ==
  ASSUME IInv, NEW i \in Inputs
  PROVE  /\ Len(setup.chain) \in Nat /\ DOMAIN setup.chain = 1 .. Len(setup.chain)
         /\ outer[i] \in Statuses /\ inner[i] \in Statuses
         /\ value[i] \in Values /\ value[i].of = i
         /\ given[i] \in Values /\ reply[i] \in Values
         /\ at[i] \in 0 .. Len(setup.chain) + 1
         /\ way[i] \in {"idle", "inwards", "fn", "outwards", "done"}
         /\ expired[i] \subseteq DOMAIN setup.chain
         /\ FlowOK(i) /\ ScriptOK(i) /\ OrderOK(i)
<1>1. setup.chain \in Seq(Range(setup.chain))
  BY DEF IInv, Types, CallsOK
<1>. QED
  BY <1>1, LenProperties DEF IInv, Types, CallsOK, ValuesOK, Middleware!TypeOK, Middleware!Ways

LEMMA FlowMoves ==
  ASSUME IInv, UNCHANGED setup, NEW i \in Inputs, Moves(i) \/ Works(i) \/ Starts(i)
  PROVE  FlowOK(i)'
<1> DEFINE n == Len(setup.chain)
<1>1. /\ n \in Nat
      /\ outer[i] \in Statuses /\ inner[i] \in Statuses
      /\ at[i] \in 0 .. n + 1 /\ FlowOK(i)
      /\ IsError(Error(i))
  BY Known, ErrorType
<1>2. \A v, stage, done : IsError(v) => Outward(stage, v, done) = v
  BY ErrorStaysError
<1> HIDE DEF IInv
<1>3. Len(setup'.chain) = Len(setup.chain)
  OBVIOUS
<1> USE DEF FlowOK, OnItsWay, Statuses
<1>4. CASE Enters(i)
  BY <1>1, <1>3, <1>4 DEF Enters
<1>5. CASE Passes(i)
  BY <1>1, <1>3, <1>5 DEF Passes
<1>6. CASE TurnsBack(i)
  BY <1>1, <1>3, <1>6 DEF TurnsBack
<1>7. CASE Calls(i)
  BY <1>1, <1>3, <1>7 DEF Calls
<1>8. CASE Returns(i)
  BY <1>1, <1>3, <1>8 DEF Returns
<1>9. CASE ComesBack(i)
  BY <1>1, <1>2, <1>3, <1>9 DEF ComesBack
<1>10. CASE Finishes(i)
  BY <1>1, <1>3, <1>10 DEF Finishes
<1>11. CASE Waits(i)
  BY <1>1, <1>3, <1>11 DEF Waits
<1>12. CASE Works(i)
  <2>1. CASE inner'[i] = inner[i] /\ value'[i] = value[i]
    BY <1>1, <1>3, <1>12, <2>1 DEF Works
  <2>2. CASE inner[i] = "running" /\ inner'[i] = "replied"
    BY <1>1, <1>3, <1>12, <2>2 DEF Works
  <2>3. CASE inner[i] = "running" /\ inner'[i] = "failed" /\ value'[i] = Error(i)
    BY <1>1, <1>3, <1>12, <2>3 DEF Works
  <2>. QED
    BY <1>12, <2>1, <2>2, <2>3 DEF Works
<1>13. CASE Starts(i)
  BY <1>1, <1>3, <1>13 DEF Starts
<1>. QED
  BY <1>4, <1>5, <1>6, <1>7, <1>8, <1>9, <1>10, <1>11, <1>12, <1>13 DEF Moves

LEMMA ScriptMoves ==
  ASSUME IInv, UNCHANGED setup, NEW i \in Inputs, Moves(i) \/ Starts(i)
  PROVE  ScriptOK(i)'
<1>1. ScriptOK(i) /\ FlowOK(i) /\ Fn' = Fn
  BY Known, SameSetup
<1> HIDE DEF IInv
<1>2. NotScript(i)
  BY DEF Moves, Enters, Passes, TurnsBack, Calls, Returns, ComesBack, Finishes, Waits,
         Starts, OnItsWay
<1>3. inner'[i] = inner[i] \/ (inner[i] = "idle" /\ inner'[i] = "running")
  <2>1. CASE Calls(i)
    BY <1>1, <2>1 DEF Calls, FlowOK
  <2>2. CASE ~Calls(i)
    BY <2>2 DEF Moves, Enters, Passes, TurnsBack, Returns, ComesBack, Finishes, Waits, Starts,
                OnItsWay
  <2>. QED
    BY <2>1, <2>2
<1>. QED
  BY <1>1, <1>2, <1>3 DEF ScriptOK, NotScript

LEMMA OrderMoves ==
  ASSUME IInv, UNCHANGED setup, NEW i \in Inputs, Moves(i) \/ Works(i) \/ Starts(i)
  PROVE  OrderOK(i)'
<1> DEFINE n == Len(setup.chain)
           in == Inwards(setup.chain, InputOf(i))
           out == Outwards(setup.chain, reply[i])
<1>1. /\ n \in Nat
      /\ outer[i] \in Statuses /\ inner[i] \in Statuses
      /\ at[i] \in 0 .. n + 1 /\ FlowOK(i) /\ OrderOK(i)
      /\ value[i] \in Values /\ reply[i] \in Values
  BY Known
<1>2. IsError(Error(i)) /\ InputOf(i) \in Values /\ ~IsError(InputOf(i))
  BY ErrorType, InputType
<1>3. setup' = setup /\ InputOf(i)' = InputOf(i)
  BY SameSetup
<1>4. /\ outer[i] = "running" /\ way[i] = "idle" => value[i] = InputOf(i)
      /\ way[i] = "inwards" => value[i] = in[at[i] - 1] /\ ~IsError(value[i])
      /\ inner[i] # "idle" => given[i] = in[n] /\ ~IsError(given[i])
      /\ way[i] \in {"outwards", "done"} /\ ~IsError(value[i]) => value[i] = out[n - at[i]]
  BY <1>1 DEF OrderOK
<1>5. /\ in[0] = InputOf(i)
      /\ \A m \in 1 .. n : ~IsError(in[m - 1]) =>
           in[m] = Inward(setup.chain[m], in[m - 1], FALSE)
  <2>1. Len(setup.chain) \in Nat /\ InputOf(i) \in Values
    BY <1>1, <1>2
  <2>2. /\ in[0] = InputOf(i)
        /\ \A m \in 1 .. n :
             in[m] = IF IsError(in[m - 1]) THEN in[m - 1]
                     ELSE Inward(setup.chain[m], in[m - 1], FALSE)
    BY <2>1, InwardsUnfolds
  <2> HIDE DEF IInv, in, n
  <2>. QED
    BY <2>2
<1>6. /\ out[0] = reply[i]
      /\ \A m \in 1 .. n : out[m] = Outward(setup.chain[n + 1 - m], out[m - 1], FALSE)
  BY <1>1, OutwardsUnfolds
<1> HIDE DEF IInv, in, out, n
<1>7. SUFFICES
        /\ outer'[i] = "running" /\ way'[i] = "idle" => value'[i] = InputOf(i)
        /\ way'[i] = "inwards" => value'[i] = in[at'[i] - 1] /\ ~IsError(value'[i])
        /\ inner'[i] # "idle" => given'[i] = in[n] /\ ~IsError(given'[i])
        /\ way'[i] \in {"outwards", "done"} /\ ~IsError(value'[i]) =>
             value'[i] = Outwards(setup.chain, reply'[i])[n - at'[i]]
  BY <1>3 DEF OrderOK, in, n
<1>8. reply'[i] = reply[i] => Outwards(setup.chain, reply'[i]) = out
  BY DEF out
<1>9. CASE Enters(i)
  BY <1>1, <1>2, <1>4, <1>5, <1>9 DEF Enters, OnItsWay, FlowOK
<1>10. CASE Passes(i)
  <2>1. way[i] = "inwards" /\ at[i] \in 1 .. n /\ inner[i] = "idle"
    BY <1>1, <1>10 DEF Passes, FlowOK, n
  <2>2. value[i] = in[at[i] - 1] /\ ~IsError(value[i])
    BY <1>4, <2>1
  <2>3. ~IsError(value'[i]) /\ value'[i] = Inward(setup.chain[at[i]], value[i], FALSE)
    BY <1>1, <1>10, <2>2, DoneMakesErrors DEF Passes
  <2>4. value'[i] = in[at[i]]
    BY <1>5, <2>1, <2>2, <2>3
  <2>5. at'[i] - 1 = at[i] /\ way'[i] = "inwards" /\ inner'[i] = "idle"
    BY <1>1, <1>10, <2>1 DEF Passes, OnItsWay
  <2>. QED
    BY <2>3, <2>4, <2>5
<1>11. CASE TurnsBack(i)
  BY <1>1, <1>2, <1>4, <1>11 DEF TurnsBack, OnItsWay
<1>12. CASE Calls(i)
  <2>1. at[i] - 1 = n /\ way[i] = "inwards" /\ way'[i] = "fn" /\ given'[i] = value[i]
    BY <1>1, <1>12 DEF Calls, n
  <2>. QED
    BY <1>4, <2>1
<1>13. CASE Returns(i)
  <2>1. /\ at'[i] = n /\ way'[i] = "outwards" /\ reply'[i] = value[i] /\ value'[i] = value[i]
        /\ inner[i] # "idle" /\ given'[i] = given[i]
    BY <1>1, <1>13 DEF Returns, FlowOK, n
  <2>2. Outwards(setup.chain, value[i])[0] = value[i]
    BY <1>1, OutwardsUnfolds DEF n
  <2>3. n - n = 0
    BY <1>1
  <2>. QED
    BY <1>4, <2>1, <2>2, <2>3
<1>14. CASE ComesBack(i)
  <2>1. /\ way[i] = "outwards" /\ way'[i] = "outwards" /\ at[i] \in 1 .. n
        /\ at'[i] = at[i] - 1 /\ inner'[i] = inner[i] /\ given'[i] = given[i]
        /\ reply'[i] = reply[i]
    BY <1>1, <1>14 DEF ComesBack, OnItsWay, FlowOK, n
  <2>2. ASSUME ~IsError(value'[i])
        PROVE  value'[i] = out[n - at'[i]]
    <3>1. PICK done \in BOOLEAN : value'[i] = Outward(setup.chain[at[i]], value[i], done)
      BY <1>14 DEF ComesBack
    <3>2. ~IsError(value[i])
      BY <2>2, <3>1, ErrorStaysError
    <3>3. value'[i] = Outward(setup.chain[at[i]], value[i], FALSE)
      BY <1>1, <2>2, <3>1, DoneMakesErrors
    <3>4. value[i] = out[n - at[i]]
      BY <1>4, <2>1, <3>2
    <3> DEFINE m == n - at[i] + 1
    <3>5. m \in 1 .. n /\ n + 1 - m = at[i] /\ m - 1 = n - at[i] /\ n - at'[i] = m
      BY <1>1, <2>1
    <3> HIDE DEF m
    <3>6. out[m] = Outward(setup.chain[at[i]], out[n - at[i]], FALSE)
      BY <1>6, <3>5
    <3>. QED
      BY <3>3, <3>4, <3>5, <3>6
  <2>. QED
    BY <1>4, <1>8, <2>1, <2>2
<1>15. CASE Finishes(i)
  BY <1>4, <1>8, <1>15 DEF Finishes
<1>16. CASE Waits(i)
  BY <1>4, <1>8, <1>16 DEF Waits, OnItsWay
<1>17. CASE Works(i)
  <2>1. CASE inner'[i] = inner[i] /\ value'[i] = value[i]
    BY <1>4, <1>8, <1>17, <2>1 DEF Works
  <2>2. CASE inner[i] = "running"
    BY <1>1, <1>4, <1>17, <2>2 DEF Works, FlowOK
  <2>. QED
    BY <1>17, <2>1, <2>2 DEF Works
<1>18. CASE Starts(i)
  <2>1. way[i] = "idle" /\ inner[i] = "idle"
    BY <1>1, <1>18 DEF Starts, FlowOK
  <2>. QED
    BY <1>18, <2>1 DEF Starts
<1>. QED
  BY <1>9, <1>10, <1>11, <1>12, <1>13, <1>14, <1>15, <1>16, <1>17, <1>18 DEF Moves

-----------------------------------------------------------------------------
(* The parts of the invariant that are about all Invokes.                  *)

LEMMA FnTypes ==
  ASSUME IInv, NEW i \in Inputs, InvokeFn(i) \/ ScriptEnds(i)
  PROVE  /\ Script!TypeOK' /\ panicked' \in BOOLEAN
         /\ UNCHANGED <<mainVars, sourceVars, stageVars>>
<1>1. Script!TypeOK /\ panicked \in BOOLEAN
  BY DEF IInv, Types, CallsOK
<1> HIDE DEF IInv
<1>2. UNCHANGED <<mainVars, sourceVars, stageVars>>
  BY DEF InvokeFn, RunScript, ScriptEnds, Identity, PostInput, FnReturns
<1> USE DEF Script!TypeOK, Script!Locations, Script!Routines, Script!Return, Script!Move,
            Script!scriptVars
<1>3. CASE Identity(i) \/ PostInput(i)
  BY <1>1, <1>2, <1>3 DEF Identity, PostInput, FnReturns, scriptVars
<1>4. CASE Script!Step(i)
  <2>1. CASE Script!CreatePipes(i)
    BY <1>1, <1>2, <2>1 DEF Script!CreatePipes
  <2>2. CASE Script!CreatePipesFails(i)
    BY <1>1, <1>2, <2>2 DEF Script!CreatePipesFails
  <2>3. CASE Script!Write(i)
    BY <1>1, <1>2, <2>3 DEF Script!Write
  <2>4. CASE Script!Panic
    BY <1>1, <1>2, <2>4 DEF Script!Panic
  <2>5. CASE Script!ContextDone(i)
    BY <1>1, <1>2, <2>4, <2>5 DEF Script!ContextDone
  <2>6. CASE Script!ReceiveError(i)
    BY <1>1, <1>2, <2>4, <2>6 DEF Script!ReceiveError
  <2>7. CASE Script!ReceiveOutput(i)
    BY <1>1, <1>2, <2>7 DEF Script!ReceiveOutput
  <2>8. CASE Script!StartFails(i) \/ Script!AssignProcess(i)
    BY <1>1, <1>2, <2>8 DEF Script!StartFails, Script!AssignProcess
  <2>9. CASE Script!Fork(i)
    BY <1>1, <1>2, <2>9 DEF Script!Fork
  <2>10. CASE Script!WaitForProcess(i)
    BY <1>1, <1>2, <2>10 DEF Script!WaitForProcess
  <2> HIDE DEF Script!TypeOK
  <2>. QED
    BY <1>2, <1>4, <2>1, <2>2, <2>3, <2>5, <2>6, <2>7, <2>8, <2>9, <2>10
       DEF Script!Step, Script!Invoke, Script!Goroutine
<1>5. CASE Script!ProcessEnds(i)
  BY <1>1, <1>2, <1>5 DEF Script!ProcessEnds
<1>. QED
  BY <1>2, <1>3, <1>4, <1>5 DEF InvokeFn, RunScript, ScriptEnds

ObjectsOK ==
  /\ DOMAIN limiter \subseteq DOMAIN setup.chain
  /\ \A n \in DOMAIN limiter : limiter[n] \in [tokens : 0 .. Burst, made : Nat]
  /\ \A n \in DOMAIN breaker : breaker[n] \in Middleware!Breakers
  /\ admitted \subseteq Inputs \X (DOMAIN setup.chain) \X Nat
  /\ panicked \in BOOLEAN

\* What becomes of a breaker is a breaker.
LEMMA BreakerTypes ==
  ASSUME NEW b \in Middleware!Breakers
  PROVE  /\ Middleware!Current(b) \subseteq Middleware!Breakers
         /\ [b EXCEPT !.requests = b.requests + 1] \in Middleware!Breakers
         /\ Middleware!AfterSuccess(b) \in Middleware!Breakers
         /\ Middleware!AfterFailure(b) \in Middleware!Breakers
<1> USE DEF Middleware!Breakers
<1>1. \A state \in {"closed", "open", "half"}, g \in Nat :
        Middleware!NewBreaker(state, g) \in Middleware!Breakers
  BY DEF Middleware!NewBreaker
<1>2. /\ b.successes + 1 \in Nat /\ b.failures + 1 \in Nat /\ b.requests + 1 \in Nat
      /\ b.generation + 1 \in Nat
  OBVIOUS
<1>3. \A f, n \in Nat : [b EXCEPT !.failures = f, !.successes = n] \in Middleware!Breakers
  OBVIOUS
<1>4. /\ [b EXCEPT !.failures = 0, !.successes = b.successes + 1] \in Middleware!Breakers
      /\ [b EXCEPT !.failures = b.failures + 1, !.successes = 0] \in Middleware!Breakers
  BY <1>2, <1>3
<1>5. /\ Middleware!NewBreaker("closed", b.generation + 1) \in Middleware!Breakers
      /\ Middleware!NewBreaker("open", b.generation + 1) \in Middleware!Breakers
      /\ Middleware!NewBreaker("half", b.generation + 1) \in Middleware!Breakers
  BY <1>1, <1>2
<1>6. [b EXCEPT !.requests = b.requests + 1] \in Middleware!Breakers
  BY <1>2
<1> HIDE DEF Middleware!Breakers
<1>7. Middleware!Current(b) \subseteq Middleware!Breakers
  BY <1>5 DEF Middleware!Current
<1>8. Middleware!AfterSuccess(b) \in Middleware!Breakers
  BY <1>4, <1>5 DEF Middleware!AfterSuccess
<1>9. Middleware!AfterFailure(b) \in Middleware!Breakers
  BY <1>4, <1>5 DEF Middleware!AfterFailure
<1>. QED
  BY <1>6, <1>7, <1>8, <1>9

LEMMA ObjectTypes ==
  ASSUME IInv, (\E i \in Inputs : PassMiddleware(i) \/ Expire(i)) \/ Refill
  PROVE  ObjectsOK' /\ UNCHANGED <<mainVars, sourceVars, scriptVars>>
<1>1. ObjectsOK
  BY DEF IInv, Types, CallsOK, Middleware!TypeOK, ObjectsOK
<1>2. UNCHANGED <<mainVars, sourceVars, scriptVars>>
  BY DEF PassMiddleware, Expire, Refill
<1>3. Burst \in Nat
  BY RunnerAssumption
<1>4. \A n : Middleware!Breaker(n) \in Middleware!Breakers
  <2>1. Middleware!NewBreaker("closed", 0) \in Middleware!Breakers
    BY DEF Middleware!NewBreaker, Middleware!Breakers
  <2>. QED
    BY <1>1, <2>1 DEF ObjectsOK, Middleware!Breaker
<1>5. setup' = setup
  BY <1>2 DEF mainVars
<1> HIDE DEF IInv
<1> USE DEF Middleware!objects
<1>6. CASE Refill
  <2>1. PICK n \in DOMAIN limiter :
          /\ limiter[n].tokens < Burst
          /\ limiter' = [limiter EXCEPT ![n] = [tokens |-> limiter[n].tokens + 1,
                                               made |-> limiter[n].made + 1]]
    BY <1>6 DEF Refill, Middleware!Refill
  <2>2. [tokens |-> limiter[n].tokens + 1, made |-> limiter[n].made + 1]
          \in [tokens : 0 .. Burst, made : Nat]
    BY <1>1, <1>3, <2>1 DEF ObjectsOK
  <2>3. UNCHANGED <<breaker, admitted, panicked>>
    BY <1>6 DEF Refill, Middleware!Refill
  <2>4. \A m \in DOMAIN limiter' : limiter'[m] \in [tokens : 0 .. Burst, made : Nat]
    <3>1. \A m \in DOMAIN limiter : limiter[m] \in [tokens : 0 .. Burst, made : Nat]
      BY <1>1 DEF ObjectsOK
    <3>2. /\ DOMAIN limiter' = DOMAIN limiter
          /\ \A m \in DOMAIN limiter \ {n} : limiter'[m] = limiter[m]
          /\ limiter'[n] = [tokens |-> limiter[n].tokens + 1, made |-> limiter[n].made + 1]
      BY <2>1
    <3>. QED
      BY <2>2, <3>1, <3>2
  <2>5. DOMAIN limiter' = DOMAIN limiter
    BY <2>1
  <2>. QED
    BY <1>1, <1>2, <1>5, <2>3, <2>4, <2>5 DEF ObjectsOK
<1>7. ASSUME NEW i \in Inputs, PassMiddleware(i) \/ Expire(i)
      PROVE  ObjectsOK'
  <2>7. way[i] = "inwards" /\ at[i] <= Len(setup.chain) => at[i] \in DOMAIN setup.chain
    BY Known DEF FlowOK
  <2>1. CASE Middleware!TakeToken(i)
    <3>1. /\ at[i] \in DOMAIN limiter /\ limiter[at[i]].tokens > 0
          /\ limiter' = [limiter EXCEPT ![at[i]] =
                           [limiter[at[i]] EXCEPT !.tokens = limiter[at[i]].tokens - 1]]
          /\ UNCHANGED <<breaker, admitted, panicked>>
      BY <2>1 DEF Middleware!TakeToken
    <3>2. [limiter[at[i]] EXCEPT !.tokens = limiter[at[i]].tokens - 1]
            \in [tokens : 0 .. Burst, made : Nat]
      BY <1>1, <1>3, <3>1 DEF ObjectsOK
    <3>. QED
      BY <1>1, <1>5, <3>1, <3>2 DEF ObjectsOK
  <2>8. CASE Middleware!MakeLimiter(i)
    <3>1. /\ at[i] \in DOMAIN setup.chain
          /\ limiter' = Middleware!Update(limiter, at[i], Middleware!NewLimiter)
          /\ UNCHANGED <<breaker, admitted, panicked>>
      BY <2>7, <2>8 DEF Middleware!MakeLimiter, Middleware!Inside
    <3>2. Middleware!NewLimiter \in [tokens : 0 .. Burst, made : Nat]
      BY <1>3 DEF Middleware!NewLimiter
    <3>3. /\ DOMAIN limiter' = DOMAIN limiter \cup {at[i]}
          /\ limiter'[at[i]] = Middleware!NewLimiter
          /\ \A m \in DOMAIN limiter \ {at[i]} : limiter'[m] = limiter[m]
      BY <3>1 DEF Middleware!Update
    <3>. QED
      BY <1>1, <1>5, <3>1, <3>2, <3>3 DEF ObjectsOK
  <2>2. CASE Middleware!PassBreaker(i)
    <3>1. PICK b \in Middleware!Current(Middleware!Breaker(at[i])) :
            \/ /\ breaker' = Middleware!Update(breaker, at[i],
                              [b EXCEPT !.requests = b.requests + 1])
               /\ admitted' = admitted \cup {<<i, at[i], b.generation>>}
            \/ /\ breaker' = Middleware!Update(breaker, at[i], b)
               /\ admitted' = admitted
      BY <2>2 DEF Middleware!PassBreaker
    <3>2. b \in Middleware!Breakers
      BY <1>4, <3>1, BreakerTypes
    <3>3. at[i] \in DOMAIN setup.chain /\ UNCHANGED <<limiter, panicked>>
      BY <2>2, <2>7 DEF Middleware!PassBreaker, Middleware!Inside
    <3>4. \A n \in DOMAIN breaker' : breaker'[n] \in Middleware!Breakers
      <4>1. PICK c \in Middleware!Breakers : breaker' = Middleware!Update(breaker, at[i], c)
        BY <3>1, <3>2, BreakerTypes
      <4>. QED
        BY <1>1, <4>1 DEF ObjectsOK, Middleware!Update
    <3>5. admitted' \subseteq Inputs \X (DOMAIN setup.chain) \X Nat
      <4>1. b.generation \in Nat
        BY <3>2 DEF Middleware!Breakers
      <4>. QED
        BY <1>1, <3>1, <3>3, <4>1 DEF ObjectsOK
    <3>. QED
      BY <1>1, <1>5, <3>3, <3>4, <3>5 DEF ObjectsOK
  <2>3. CASE Middleware!ComeBack(i)
    <3>1. \A ok \in BOOLEAN : Middleware!BreakerAfter(i, ok) \in Middleware!Breakers
      <4> DEFINE b == Middleware!Breaker(at[i])
      <4>1. b \in Middleware!Breakers
        BY <1>4
      <4>2. /\ Middleware!AfterSuccess(b) \in Middleware!Breakers
            /\ Middleware!AfterFailure(b) \in Middleware!Breakers
        BY <4>1, BreakerTypes
      <4>3. \A ok \in BOOLEAN :
              Middleware!BreakerAfter(i, ok)
                \in {b, Middleware!AfterSuccess(b), Middleware!AfterFailure(b)}
        BY DEF Middleware!BreakerAfter
      <4> HIDE DEF b
      <4>. QED
        BY <4>1, <4>2, <4>3
    <3>2. /\ UNCHANGED <<limiter, panicked>>
          /\ \/ UNCHANGED <<breaker, admitted>>
             \/ /\ breaker' = Middleware!Update(breaker, at[i],
                               Middleware!BreakerAfter(i, ~Middleware!IsError(value[i])))
                /\ admitted' \subseteq admitted
      BY <2>3 DEF Middleware!ComeBack
    <3>3. (~Middleware!IsError(value[i])) \in BOOLEAN
      OBVIOUS
    <3>4. \A n \in DOMAIN breaker' : breaker'[n] \in Middleware!Breakers
      <4>1. \/ breaker' = breaker
            \/ \E c \in Middleware!Breakers : breaker' = Middleware!Update(breaker, at[i], c)
        BY <3>1, <3>2, <3>3
      <4>. QED
        BY <1>1, <4>1 DEF ObjectsOK, Middleware!Update
    <3>. QED
      BY <1>1, <1>5, <3>2, <3>4 DEF ObjectsOK
  <2>4. CASE Middleware!MissBreaker(i)
    BY <1>1, <1>5, <2>4 DEF Middleware!MissBreaker, Middleware!pipelineVars, ObjectsOK
  <2>5. CASE UNCHANGED <<limiter, breaker, admitted, panicked>>
    BY <1>1, <1>5, <2>5 DEF ObjectsOK
  <2>6. \/ Middleware!TakeToken(i) \/ Middleware!MakeLimiter(i)
        \/ Middleware!PassBreaker(i) \/ Middleware!ComeBack(i)
        \/ Middleware!MissBreaker(i) \/ UNCHANGED <<limiter, breaker, admitted, panicked>>
    BY <1>7 DEF PassMiddleware, Expire, Middleware!Step, Middleware!Enter, Middleware!Transform,
       Middleware!GiveUpWaiting, Middleware!CallFn, Middleware!FnReturns, Middleware!Return,
       Middleware!Expire
  <2>. QED
    BY <2>1, <2>2, <2>3, <2>4, <2>5, <2>6, <2>8
<1>. QED
  BY <1>2, <1>6, <1>7

LEMMA InvokeTypes ==
  ASSUME IInv, NEW i \in Inputs, Only(i), Moves(i) \/ Works(i), UNCHANGED <<mainVars, sourceVars>>,
         Script!TypeOK', ObjectsOK'
  PROVE  Types'
<1> DEFINE n == Len(setup.chain)
<1>1. /\ outer \in [Inputs -> Statuses] /\ inner \in [Inputs -> Statuses]
      /\ value \in [Inputs -> Values]
      /\ given \in [Inputs -> Values] /\ reply \in [Inputs -> Values]
      /\ at \in [Inputs -> 0 .. n + 1]
      /\ way \in [Inputs -> Middleware!Ways]
      /\ expired \in [Inputs -> SUBSET DOMAIN setup.chain]
      /\ ValuesOK /\ Lambda!TypeOK
      /\ document \in Documents /\ program \in Programs /\ serve \in Serves
      /\ cancelled \in BOOLEAN
      /\ setup.chain \in Seq(Range(setup.chain))
  BY DEF IInv, Types, CallsOK, Middleware!TypeOK
<1>2. /\ n \in Nat /\ DOMAIN setup.chain = 1 .. n
      /\ at[i] \in 0 .. n + 1 /\ FlowOK(i) /\ value[i] \in Values /\ value[i].of = i
      /\ expired[i] \subseteq DOMAIN setup.chain
  BY Known
<1> HIDE DEF IInv
<1>3. \A stage : \A done \in BOOLEAN :
        /\ Inward(stage, value[i], done) \in Values /\ Inward(stage, value[i], done).of = i
        /\ Outward(stage, value[i], done) \in Values /\ Outward(stage, value[i], done).of = i
  BY <1>2, InwardType, OutwardType
<1>4. /\ Error(i) \in Values /\ Error(i).of = i
      /\ Printed(i) \in Values /\ Printed(i).of = i
  BY ErrorType, PrintedType
<1> HIDE DEF n
<1> USE DEF OnItsWay
<1>5. value'[i] \in Values /\ value'[i].of = i
  <2>1. \/ value'[i] = value[i] \/ value'[i] = Error(i) \/ value'[i] = Printed(i)
        \/ \E stage : \E done \in BOOLEAN : \/ value'[i] = Inward(stage, value[i], done)
                                            \/ value'[i] = Outward(stage, value[i], done)
    <3>1. CASE Passes(i) \/ ComesBack(i)
      BY <3>1 DEF Passes, ComesBack
    <3>. QED
      BY <3>1 DEF Moves, Works, Enters, TurnsBack, Calls, Returns, Finishes, Waits
  <2>. QED
    BY <1>2, <1>3, <1>4, <2>1
<1>6. at'[i] \in 0 .. n + 1
  BY <1>2 DEF Moves, Works, Enters, Passes, TurnsBack, Calls, Returns, ComesBack, Finishes,
              Waits, FlowOK, n
<1>7. way'[i] \in Middleware!Ways
  BY <1>1 DEF Moves, Works, Enters, Passes, TurnsBack, Calls, Returns, ComesBack, Finishes,
              Waits, Middleware!Ways
<1>8. expired'[i] \in SUBSET DOMAIN setup.chain
  BY <1>1 DEF Moves, Works, Enters, Passes, TurnsBack, Calls, Returns, ComesBack, Finishes,
              Waits
<1>9. outer'[i] \in Statuses /\ inner'[i] \in Statuses
  BY <1>1 DEF Moves, Works, Enters, Passes, TurnsBack, Calls, Returns, ComesBack, Finishes,
              Waits, Statuses
<1>10. given'[i] \in Values /\ reply'[i] \in Values
  BY <1>1 DEF Moves, Works, Enters, Passes, TurnsBack, Calls, Returns, ComesBack, Finishes,
              Waits
<1>11. /\ outer' \in [Inputs -> Statuses] /\ inner' \in [Inputs -> Statuses]
       /\ value' \in [Inputs -> Values]
       /\ given' \in [Inputs -> Values] /\ reply' \in [Inputs -> Values]
       /\ at' \in [Inputs -> 0 .. n + 1]
       /\ way' \in [Inputs -> Middleware!Ways]
       /\ expired' \in [Inputs -> SUBSET DOMAIN setup.chain]
  BY <1>1, <1>5, <1>6, <1>7, <1>8, <1>9, <1>10 DEF Only, Differs
<1>12. \A j \in Inputs : value'[j].of = j
  <2>1. \A j \in Inputs \ {i} : value'[j] = value[j]
    BY Others
  <2>. QED
    BY <1>1, <1>5, <2>1 DEF ValuesOK
<1>13. CallsOK' /\ ValuesOK'
  BY <1>1, <1>11, <1>12 DEF CallsOK, ValuesOK, mainVars, sourceVars, ObjectsOK
<1>14. Lambda!TypeOK'
  BY <1>1 DEF Lambda!TypeOK, sourceVars
<1>15. Middleware!TypeOK'
  BY <1>11 DEF Middleware!TypeOK, mainVars, ObjectsOK, n
<1>. QED
  BY <1>13, <1>14, <1>15 DEF Types

\* What a step does to the limiter of stage n.
Spares(n) ==
  /\ n \in DOMAIN limiter' <=> n \in DOMAIN limiter
  /\ n \in DOMAIN limiter => limiter'[n] = limiter[n]

Makes(n) ==
  /\ n \notin DOMAIN limiter /\ n \in DOMAIN limiter'
  /\ limiter'[n].tokens = limiter'[n].made

Takes(n) ==
  /\ n \in DOMAIN limiter /\ n \in DOMAIN limiter'
  /\ limiter[n].tokens > 0 /\ limiter'[n].tokens = limiter[n].tokens - 1
  /\ limiter'[n].made = limiter[n].made

\* Nobody passes a limiter but for a token.
LEMMA TokenMoves ==
  ASSUME IInv, NEW i \in Inputs, PassMiddleware(i) \/ Expire(i), NEW n \in DOMAIN setup.chain,
         setup.chain[n].key = "middleware/ratelimiter"
  PROVE  \/ (Spares(n) \/ Makes(n)) /\ ~(Passes(i) /\ at[i] = n)
         \/ Takes(n)
<1>12. /\ way[i] \in {"idle", "inwards", "fn", "outwards", "done"}
       /\ at[i] \in Nat /\ Len(setup.chain) \in Nat
       /\ at \in [Inputs -> 0 .. Len(setup.chain) + 1] /\ way \in [Inputs -> Middleware!Ways]
       /\ \A m \in DOMAIN limiter : limiter[m] \in [tokens : 0 .. Burst, made : Nat]
  BY Known DEF IInv, Types, Middleware!TypeOK
<1> HIDE DEF IInv
<1> USE DEF Middleware!objects, Middleware!history, Middleware!stages
<1>1. CASE Middleware!TakeToken(i)
  <2>1. /\ at[i] \in DOMAIN limiter /\ limiter[at[i]].tokens > 0
        /\ limiter' = [limiter EXCEPT ![at[i]] =
                         [limiter[at[i]] EXCEPT !.tokens = limiter[at[i]].tokens - 1]]
    BY <1>1 DEF Middleware!TakeToken
  <2>2. CASE at[i] = n
    BY <1>12, <2>1, <2>2 DEF Takes
  <2>3. CASE at[i] # n
    BY <2>1, <2>3 DEF Spares
  <2>. QED
    BY <2>2, <2>3
<1>10. CASE Middleware!MakeLimiter(i)
  <2>1. /\ at[i] \notin DOMAIN limiter /\ at' = at
        /\ limiter' = Middleware!Update(limiter, at[i], Middleware!NewLimiter)
    BY <1>10 DEF Middleware!MakeLimiter
  <2>2. ~Passes(i)
    BY <1>12, <2>1 DEF Passes
  <2>3. /\ DOMAIN limiter' = DOMAIN limiter \cup {at[i]}
        /\ limiter'[at[i]] = Middleware!NewLimiter
        /\ \A m \in DOMAIN limiter \ {at[i]} : limiter'[m] = limiter[m]
    BY <2>1 DEF Middleware!Update
  <2>4. CASE at[i] = n
    BY <2>1, <2>2, <2>3, <2>4 DEF Makes, Middleware!NewLimiter
  <2>5. CASE at[i] # n
    BY <2>2, <2>3, <2>5 DEF Spares
  <2>. QED
    BY <2>4, <2>5
<1>11. ASSUME limiter' = limiter, ~(Passes(i) /\ at[i] = n)
       PROVE  Spares(n) /\ ~(Passes(i) /\ at[i] = n)
  BY <1>11 DEF Spares
<1>2. CASE Middleware!Enter(i)
  BY <1>2, <1>11 DEF Middleware!Enter, Passes
<1>3. CASE Middleware!Transform(i)
  BY <1>3, <1>11 DEF Middleware!Transform, Middleware!Inside, Middleware!Stage
<1>4. CASE Middleware!GiveUpWaiting(i)
  <2>1. way' = [way EXCEPT ![i] = "outwards"] /\ limiter' = limiter
    BY <1>4 DEF Middleware!GiveUpWaiting, Middleware!TurnBack
  <2>2. ~Passes(i)
    BY <1>12, <2>1 DEF Passes
  <2>. QED
    BY <1>11, <2>1, <2>2
<1>5. CASE Middleware!MissBreaker(i)
  BY <1>5, <1>11 DEF Middleware!MissBreaker, Middleware!pipelineVars, Middleware!Inside,
                     Middleware!Stage
<1>6. CASE Middleware!PassBreaker(i)
  BY <1>6, <1>11 DEF Middleware!PassBreaker, Middleware!Inside, Middleware!Stage
<1>7. CASE Middleware!CallFn(i)
  BY <1>7, <1>11, <1>12 DEF Middleware!CallFn, Passes
<1>8. CASE Middleware!FnReturns(i) \/ Middleware!ComeBack(i) \/ Middleware!Return(i)
  BY <1>8, <1>11 DEF Middleware!FnReturns, Middleware!ComeBack, Middleware!Return,
              Middleware!Outside, Passes
<1>9. CASE Middleware!Expire(i)
  BY <1>9, <1>11, <1>12 DEF Middleware!Expire, Passes
<1>. QED
  BY <1>1, <1>2, <1>3, <1>4, <1>5, <1>6, <1>7, <1>8, <1>9, <1>10
     DEF PassMiddleware, Expire, Middleware!Step

LEMMA PastMoves ==
  ASSUME IInv, UNCHANGED setup, NEW i \in Inputs, Moves(i) \/ Works(i) \/ Starts(i),
         NEW n \in DOMAIN setup.chain, ~(Passes(i) /\ at[i] = n)
  PROVE  Past(i, n)' => Past(i, n)
<1>1. /\ Len(setup.chain) \in Nat /\ n \in 1 .. Len(setup.chain)
      /\ at[i] \in 0 .. Len(setup.chain) + 1 /\ FlowOK(i)
  BY Known
<1> HIDE DEF IInv
<1> USE DEF Past, OnItsWay
<1>2. CASE Enters(i)
  BY <1>1, <1>2 DEF Enters
<1>3. CASE Passes(i)
  <2>1. at'[i] = at[i] + 1 /\ way[i] = "inwards" /\ inner'[i] = inner[i] /\ at[i] # n
    BY <1>3 DEF Passes
  <2>2. n < at[i] + 1 => n < at[i] \/ n = at[i]
    BY <1>1
  <2>. QED
    BY <2>1, <2>2
<1>4. CASE TurnsBack(i)
  BY <1>1, <1>4 DEF TurnsBack
<1>5. CASE Calls(i)
  BY <1>1, <1>5 DEF Calls
<1>6. CASE Returns(i)
  BY <1>1, <1>6 DEF Returns, FlowOK
<1>7. CASE ComesBack(i)
  BY <1>7 DEF ComesBack
<1>8. CASE Finishes(i)
  BY <1>8 DEF Finishes
<1>9. CASE Waits(i)
  BY <1>9 DEF Waits
<1>10. CASE Works(i)
  BY <1>10 DEF Works
<1>11. CASE Starts(i)
  BY <1>11 DEF Starts
<1>. QED
  BY <1>2, <1>3, <1>4, <1>5, <1>6, <1>7, <1>8, <1>9, <1>10, <1>11 DEF Moves

\* The rate is kept by a step that lets nobody past the limiter, and by one that
\* lets one Invoke past it for a token.
LEMMA RateStep ==
  ASSUME IInv, UNCHANGED setup, Types', NEW i \in Inputs, Only(i),
         NEW n \in DOMAIN setup.chain, setup.chain[n].key = "middleware/ratelimiter",
         \/ (Spares(n) \/ Makes(n)) /\ (Past(i, n)' => Past(i, n))
         \/ Takes(n)
  PROVE  Rated(n)'
<1>1. /\ Rated(n)
      /\ n \in DOMAIN limiter => limiter[n].tokens \in Nat /\ limiter[n].made \in Nat
      /\ n \in DOMAIN limiter' => limiter'[n].tokens \in Nat /\ limiter'[n].made \in Nat
  <2>1. \A l : l \in [tokens : 0 .. Burst, made : Nat] => l.tokens \in Nat /\ l.made \in Nat
    BY RunnerAssumption
  <2>2. n \in DOMAIN limiter => limiter[n] \in [tokens : 0 .. Burst, made : Nat]
    BY DEF IInv, Types, Middleware!TypeOK
  <2>3. n \in DOMAIN limiter' => limiter'[n] \in [tokens : 0 .. Burst, made : Nat]
    BY DEF Types, Middleware!TypeOK
  <2>. QED
    BY <2>1, <2>2, <2>3 DEF IInv, RateOK
<1>2. ASSUME NEW j \in Inputs \ {i}
      PROVE  Past(j, n)' => Past(j, n)
  BY <1>2, Others DEF Past
<1> HIDE DEF IInv
<1>3. IsFiniteSet(Pasts(n))
  BY <1>1 DEF Rated
<1>4. Cardinality(Pasts(n)) \in Nat
  BY <1>3, FS_CardinalityType
<1>5. CASE (Spares(n) \/ Makes(n)) /\ (Past(i, n)' => Past(i, n))
  <2>1. Pasts(n)' \subseteq Pasts(n)
    BY <1>2, <1>5 DEF Pasts
  <2>2. IsFiniteSet(Pasts(n)') /\ Cardinality(Pasts(n)') <= Cardinality(Pasts(n))
    BY <1>3, <2>1, FS_Subset
  <2>3. Cardinality(Pasts(n)') \in Nat
    BY <2>2, FS_CardinalityType
  <2>4. CASE Spares(n)
    BY <1>1, <1>4, <2>1, <2>2, <2>3, <2>4 DEF Spares, Rated
  <2>5. CASE Makes(n)
    <3>1. Pasts(n)' = {}
      BY <1>1, <2>1, <2>5 DEF Makes, Rated
    <3>2. Cardinality(Pasts(n)') = 0
      BY <3>1, FS_EmptySet
    <3>. QED
      BY <1>1, <2>2, <2>5, <3>2 DEF Makes, Rated
  <2>. QED
    BY <1>5, <2>4, <2>5
<1>6. CASE Takes(n)
  <2>1. Pasts(n)' \subseteq Pasts(n) \cup {i}
    BY <1>2 DEF Pasts
  <2>2. /\ IsFiniteSet(Pasts(n) \cup {i})
        /\ Cardinality(Pasts(n) \cup {i}) = Cardinality(Pasts(n))
           \/ Cardinality(Pasts(n) \cup {i}) = Cardinality(Pasts(n)) + 1
    BY <1>3, FS_AddElement
  <2>3. IsFiniteSet(Pasts(n)') /\ Cardinality(Pasts(n)') <= Cardinality(Pasts(n) \cup {i})
    BY <2>1, <2>2, FS_Subset
  <2>4. Cardinality(Pasts(n)') \in Nat
    BY <2>3, FS_CardinalityType
  <2>. QED
    BY <1>1, <1>4, <1>6, <2>2, <2>3, <2>4 DEF Takes, Rated
<1>. QED
  BY <1>5, <1>6

-----------------------------------------------------------------------------
(* Every step keeps the invariant.                                         *)

LEMMA PipelineStep ==
  ASSUME IInv, ~panicked, NEW i \in Inputs, PassMiddleware(i) \/ Expire(i)
  PROVE  PanicOK'
<1>1. /\ UNCHANGED <<mainVars, scriptVars>>
      /\ Middleware!MissBreaker(i) \/ panicked' = panicked
  BY DEF PassMiddleware, Expire, Middleware!Step, Middleware!Enter, Middleware!Transform,
     Middleware!MakeLimiter, Middleware!TakeToken, Middleware!GiveUpWaiting, Middleware!PassBreaker, Middleware!CallFn,
     Middleware!FnReturns, Middleware!ComeBack, Middleware!Return, Middleware!Expire
<1>2. CASE Middleware!MissBreaker(i)
  <2>1. /\ way[i] = "inwards" /\ at[i] <= Len(setup.chain)
        /\ setup.chain[at[i]].key = "middleware/circuitbreaker" /\ ~setup.chain[at[i]].set
    BY <1>2 DEF Middleware!MissBreaker, Middleware!Inside, Middleware!Stage
  <2>2. at[i] \in DOMAIN setup.chain
    BY <2>1, Known DEF FlowOK
  <2>3. Bare /\ setup' = setup
    BY <1>1, <2>1, <2>2 DEF Bare, mainVars
  <2>. QED
    BY <2>3, SameSetup DEF PanicOK
<1>. QED
  BY <1>1, <1>2 DEF PanicOK

LEMMA FnStep ==
  ASSUME IInv, ~panicked, NEW i \in Inputs, InvokeFn(i) \/ ScriptEnds(i)
  PROVE  PanicOK'
<1>1. \/ panicked' = panicked
      \/ pc[i] = "select" /\ ~Script!HasProcess(i) /\ UNCHANGED <<pc, routine, proc>>
  BY DEF InvokeFn, RunScript, Identity, PostInput, FnReturns, ScriptEnds, Script!ProcessEnds,
     Script!Step, Script!Invoke, Script!Goroutine, Script!CreatePipes, Script!CreatePipesFails,
     Script!Write, Script!ContextDone, Script!ReceiveError, Script!ReceiveOutput, Script!Panic,
     Script!StartFails, Script!Fork, Script!AssignProcess, Script!WaitForProcess,
     Script!scriptVars, scriptVars
<1>. QED
  BY <1>1 DEF PanicOK, Script!HasProcess

\* What the steps of an Invoke leave alone, and what it means to others.
LEMMA InvokeKeeps ==
  ASSUME IInv, NEW i \in Inputs, Only(i), Moves(i) \/ Works(i), UNCHANGED <<mainVars, sourceVars>>,
         Types'
  PROVE  MainOK' /\ SourceOK' /\ SetupOK' /\ Lambda!AnswersAreTrue'
<1>1. /\ MainOK /\ SourceOK /\ SetupOK /\ Lambda!AnswersAreTrue /\ FlowOK(i)
      /\ event \in Inputs \cup {0}
      /\ answers \in [Inputs -> {"none", "output", "error"}]
  BY DEF IInv, Types, Lambda!TypeOK
<1>2. ValuesOK'
  BY DEF Types
<1>3. outer'[i] # outer[i] => outer[i] = "running"
  <2>1. outer[i] \in Statuses /\ FlowOK(i)
    BY Known
  <2>. QED
    BY <2>1 DEF Moves, Works, Enters, Passes, TurnsBack, Calls, Returns, ComesBack, Finishes,
              Waits, OnItsWay, FlowOK, Statuses
<1>4. \A j \in Inputs : outer'[j] # outer[j] => outer[j] = "running"
  <2>1. \A j \in Inputs \ {i} : outer'[j] = outer[j]
    BY Others
  <2>. QED
    BY <1>3, <2>1
<1> HIDE DEF IInv
<1>5. /\ Source' = Source /\ Fn' = Fn
      /\ UNCHANGED <<program, setup, serve, event, answers>>
  BY SameSetup DEF mainVars, sourceVars
<1>6. MainOK'
  BY <1>1, <1>4, <1>5 DEF MainOK, Configured
<1>7. SourceOK'
  BY <1>1, <1>4, <1>5 DEF SourceOK
<1>8. SetupOK'
  BY <1>1, <1>5 DEF SetupOK, Configured
<1>9. Lambda!AnswersAreTrue'
  BY <1>1, <1>2, <1>4, <1>5 DEF Lambda!AnswersAreTrue, ValuesOK
<1>. QED
  BY <1>6, <1>7, <1>8, <1>9

LEMMA AllInvokes ==
  ASSUME IInv, UNCHANGED setup, NEW i \in Inputs, Only(i),
         Moves(i) \/ Starts(i) \/ (Works(i) /\ ScriptOK(i)')
  PROVE  \A j \in Inputs : FlowOK(j)' /\ ScriptOK(j)' /\ OrderOK(j)'
<1>1. FlowOK(i)' /\ ScriptOK(i)' /\ OrderOK(i)'
  BY FlowMoves, ScriptMoves, OrderMoves
<1>2. ASSUME NEW j \in Inputs \ {i}
      PROVE  FlowOK(j)' /\ ScriptOK(j)' /\ OrderOK(j)'
  <2>1. /\ outer'[j] = outer[j] /\ inner'[j] = inner[j] /\ value'[j] = value[j]
        /\ at'[j] = at[j] /\ way'[j] = way[j] /\ expired'[j] = expired[j]
        /\ given'[j] = given[j] /\ reply'[j] = reply[j] /\ NotScript(j)
    BY Others
  <2> HIDE DEF IInv
  <2>. QED
    BY <2>1, Frame
<1>. QED
  BY <1>1, <1>2

LEMMA InvokeStep ==
  ASSUME IInv, ~panicked, NEW i \in Inputs,
         PassMiddleware(i) \/ Expire(i) \/ InvokeFn(i) \/ ScriptEnds(i)
  PROVE  IInv'
<1>1. CASE PassMiddleware(i) \/ Expire(i)
  <2>1. Only(i) /\ Moves(i)
    BY <1>1, PipelineMoves
  <2>2. ObjectsOK' /\ UNCHANGED <<mainVars, sourceVars, scriptVars>>
    BY <1>1, ObjectTypes
  <2>3. Script!TypeOK'
    BY <2>2 DEF IInv, Types, Script!TypeOK, scriptVars
  <2> HIDE DEF IInv
  <2>4. Types'
    BY <2>1, <2>2, <2>3, InvokeTypes
  <2>5. MainOK' /\ SourceOK' /\ SetupOK' /\ Lambda!AnswersAreTrue'
    BY <2>1, <2>2, <2>4, InvokeKeeps
  <2>6. setup' = setup
    BY <2>2 DEF mainVars
  <2>7. PanicOK'
    BY <1>1, PipelineStep
  <2>8. RateOK'
    <3>1. ASSUME NEW n \in DOMAIN setup.chain,
                 setup.chain[n].key = "middleware/ratelimiter"
          PROVE  Rated(n)'
      <4>1. \/ (Spares(n) \/ Makes(n)) /\ ~(Passes(i) /\ at[i] = n)
            \/ Takes(n)
        BY <1>1, <3>1, TokenMoves
      <4>2. ~(Passes(i) /\ at[i] = n) => (Past(i, n)' => Past(i, n))
        BY <2>1, <2>6, PastMoves
      <4>. QED
        BY <2>1, <2>4, <2>6, <3>1, <4>1, <4>2, RateStep
    <3>. QED
      BY <2>6, <3>1 DEF RateOK
  <2>9. \A j \in Inputs : FlowOK(j)' /\ ScriptOK(j)' /\ OrderOK(j)'
    BY <2>1, <2>6, AllInvokes
  <2>. QED
    BY <2>4, <2>5, <2>7, <2>8, <2>9 DEF IInv
<1>2. CASE InvokeFn(i) \/ ScriptEnds(i)
  <2>1. Only(i) /\ Works(i) /\ ScriptOK(i)'
    BY <1>2, FnMoves
  <2>2. /\ Script!TypeOK' /\ panicked' \in BOOLEAN
        /\ UNCHANGED <<mainVars, sourceVars, stageVars>>
    BY <1>2, FnTypes
  <2>3. ObjectsOK'
    <3>1. /\ DOMAIN limiter \subseteq DOMAIN setup.chain
          /\ \A n \in DOMAIN limiter : limiter[n] \in [tokens : 0 .. Burst, made : Nat]
          /\ \A n \in DOMAIN breaker : breaker[n] \in Middleware!Breakers
          /\ admitted \subseteq Inputs \X (DOMAIN setup.chain) \X Nat
      BY DEF IInv, Types, Middleware!TypeOK
    <3>2. UNCHANGED <<setup, limiter, breaker, admitted>>
      BY <2>2 DEF mainVars, stageVars
    <3> HIDE DEF IInv
    <3>. QED
      BY <2>2, <3>1, <3>2 DEF ObjectsOK
  <2> HIDE DEF IInv
  <2>4. Types'
    BY <2>1, <2>2, <2>3, InvokeTypes
  <2>5. MainOK' /\ SourceOK' /\ SetupOK' /\ Lambda!AnswersAreTrue'
    BY <2>1, <2>2, <2>4, InvokeKeeps
  <2>6. setup' = setup /\ limiter' = limiter /\ at' = at
    BY <2>2 DEF mainVars, stageVars
  <2>7. PanicOK'
    BY <1>2, FnStep
  <2>8. RateOK'
    <3>1. ~Passes(i)
      BY <2>6, Known DEF Passes
    <3>2. ASSUME NEW n \in DOMAIN setup.chain,
                 setup.chain[n].key = "middleware/ratelimiter"
          PROVE  Rated(n)'
      <4>1. Past(i, n)' => Past(i, n)
        BY <2>1, <2>6, <3>1, PastMoves
      <4>2. Spares(n)
        BY <2>6 DEF Spares
      <4>. QED
        BY <2>1, <2>4, <2>6, <3>2, <4>1, <4>2, RateStep
    <3>. QED
      BY <2>6, <3>2 DEF RateOK
  <2>9. \A j \in Inputs : FlowOK(j)' /\ ScriptOK(j)' /\ OrderOK(j)'
    BY <2>1, <2>6, AllInvokes
  <2>. QED
    BY <2>4, <2>5, <2>7, <2>8, <2>9 DEF IInv
<1>. QED
  BY <1>1, <1>2

\* Where no Invoke makes a step, the parts about the Invokes stay true.
LEMMA Stutter ==
  ASSUME IInv, UNCHANGED <<setup, calls, at, way, expired, given, reply, scriptVars>>,
         panicked' = panicked \/ Bare
  PROVE  /\ \A j \in Inputs : FlowOK(j)' /\ ScriptOK(j)' /\ OrderOK(j)'
         /\ \A n : Pasts(n)' = Pasts(n)
         /\ limiter' = limiter => RateOK'
         /\ PanicOK'
<1> USE DEF calls, scriptVars
<1>1. ASSUME NEW j \in Inputs
      PROVE  FlowOK(j)' /\ ScriptOK(j)' /\ OrderOK(j)'
  <2>1. /\ outer'[j] = outer[j] /\ inner'[j] = inner[j] /\ value'[j] = value[j]
        /\ at'[j] = at[j] /\ way'[j] = way[j] /\ expired'[j] = expired[j]
        /\ given'[j] = given[j] /\ reply'[j] = reply[j] /\ NotScript(j)
    BY DEF NotScript
  <2> HIDE DEF IInv
  <2>. QED
    BY <2>1, Frame
<1>2. PanicOK'
  BY SameSetup DEF IInv, PanicOK, Script!HasProcess
<1>3. \A n : Pasts(n)' = Pasts(n)
  BY DEF Pasts, Past
<1>4. limiter' = limiter => RateOK'
  BY <1>3 DEF IInv, RateOK, Rated
<1>. QED
  BY <1>1, <1>2, <1>3, <1>4

LEMMA ConfigureStep ==
  ASSUME IInv, ~panicked, ConfigureRunner
  PROVE  IInv'
<1>1. Types'
  BY MainTypes DEF Main
<1>2. /\ MainOK /\ SourceOK /\ DOMAIN limiter \subseteq DOMAIN setup.chain
      /\ document \in Documents /\ Lambda!AnswersAreTrue
  BY DEF IInv, Types, CallsOK, Middleware!TypeOK
<1>3. \A i \in Inputs : FlowOK(i) /\ ScriptOK(i)
  BY DEF IInv
<1> HIDE DEF IInv
<1>4. UNCHANGED <<document, cancelled, panicked, sourceVars, calls, stageVars, scriptVars>>
  BY DEF ConfigureRunner
<1>5. UNCHANGED <<serve, event, answers, outer, inner, value, at, way, expired, limiter, pc,
                  routine, proc>>
  BY <1>4 DEF sourceVars, calls, stageVars, scriptVars
<1>6. /\ serve = "idle" /\ event = 0 /\ setup.chain = <<>>
      /\ \A i \in Inputs : /\ outer[i] = "idle" /\ way[i] = "idle" /\ at[i] = 0
                           /\ inner[i] = "idle" /\ expired[i] = {} /\ pc[i] = "new"
  BY <1>2, <1>3 DEF ConfigureRunner, MainOK, Configured, FlowOK, ScriptOK
<1>7. MainOK' /\ SourceOK'
  <2>1. Configured' \/ setup' = setup
    BY DEF ConfigureRunner, Configured
  <2>. QED
    <3>1. MainOK'
      BY <1>5, <1>6, <2>1 DEF MainOK
    <3>2. SourceOK'
      BY <1>2, <1>5, <1>6 DEF SourceOK
    <3>. QED
      BY <3>1, <3>2
<1>8. RateOK'
  <2>1. \A n : Pasts(n)' = {}
    BY <1>5, <1>6 DEF Pasts, Past
  <2>2. DOMAIN limiter' = {}
    <3>1. DOMAIN setup.chain = {}
      BY <1>6
    <3>. QED
      BY <1>2, <1>5, <3>1
  <2>. QED
    BY <2>1, <2>2, FS_EmptySet DEF RateOK, Rated
<1>9. SetupOK'
  <2>1. CASE program' = "refused"
    BY <2>1 DEF SetupOK, Configured
  <2>2. CASE setup' \in Runner(document)
    BY <1>2, <2>2, RunnerAccepted DEF SetupOK, Source, Fn, Required
  <2>. QED
    BY <2>1, <2>2 DEF ConfigureRunner
<1>10. PanicOK'
  BY <1>4 DEF PanicOK
<1>11. Lambda!AnswersAreTrue'
  BY <1>2, <1>5 DEF Lambda!AnswersAreTrue
<1>12. ASSUME NEW i \in Inputs
       PROVE  FlowOK(i)' /\ ScriptOK(i)' /\ OrderOK(i)'
  <2>1. FlowOK(i) /\ ScriptOK(i)
    BY <1>3
  <2>2. /\ outer'[i] = "idle" /\ way'[i] = "idle" /\ at'[i] = 0 /\ inner'[i] = "idle"
        /\ expired'[i] = {} /\ pc'[i] = "new" /\ routine'[i] = routine[i] /\ proc'[i] = proc[i]
        /\ inner[i] = "idle" /\ pc[i] = "new"
    BY <1>5, <1>6
  <2>3. FlowOK(i)'
    BY <2>1, <2>2 DEF FlowOK
  <2>4. ScriptOK(i)'
    BY <2>1, <2>2 DEF ScriptOK
  <2>5. OrderOK(i)'
    BY <2>2 DEF OrderOK
  <2>. QED
    BY <2>3, <2>4, <2>5
<1>. QED
  BY <1>1, <1>7, <1>8, <1>9, <1>10, <1>11, <1>12 DEF IInv

LEMMA MainStep ==
  ASSUME IInv, ~panicked, RunReturns \/ Restart \/ Cancel
  PROVE  IInv'
<1>1. Types'
  BY MainTypes DEF Main
<1>2. MainOK /\ SourceOK /\ RateOK /\ SetupOK /\ Lambda!AnswersAreTrue
  BY DEF IInv
<1>3. /\ UNCHANGED <<setup, panicked, event, answers, calls, stageVars, scriptVars>>
      /\ Configured /\ Configured'
      /\ serve' = serve \/ serve' = "idle"
  BY RunnerAssumption DEF RunReturns, Restart, Cancel, Configured, sourceVars, Hosts, IInv,
                          Types, CallsOK
<1>4. /\ \A j \in Inputs : FlowOK(j)' /\ ScriptOK(j)' /\ OrderOK(j)'
      /\ RateOK' /\ PanicOK'
  BY <1>3, Stutter DEF stageVars
<1> HIDE DEF IInv
<1>5. Source' = Source /\ Fn' = Fn /\ UNCHANGED <<outer, value>>
  BY <1>3, SameSetup DEF calls
<1>6. MainOK' /\ SourceOK' /\ SetupOK'
  BY <1>2, <1>3, <1>5 DEF MainOK, SourceOK, SetupOK
<1>8. Lambda!AnswersAreTrue'
  BY <1>2, <1>3, <1>5 DEF Lambda!AnswersAreTrue
<1>. QED
  BY <1>1, <1>4, <1>6, <1>8 DEF IInv

LEMMA RefillStep ==
  ASSUME IInv, ~panicked, Refill
  PROVE  IInv'
<1>1. ObjectsOK' /\ UNCHANGED <<mainVars, sourceVars, scriptVars>>
  BY ObjectTypes
<1>2. MainOK /\ SourceOK /\ RateOK /\ SetupOK /\ Lambda!AnswersAreTrue
  BY DEF IInv
<1>3. PICK n \in DOMAIN limiter :
        limiter' = [limiter EXCEPT ![n] = [tokens |-> limiter[n].tokens + 1,
                                           made |-> limiter[n].made + 1]]
  BY DEF Refill, Middleware!Refill
<1>9. UNCHANGED <<panicked, calls, at, way, expired, given, reply>>
  BY DEF Refill, Middleware!Refill, Middleware!stages, Middleware!history, calls
<1>4. /\ \A j \in Inputs : FlowOK(j)' /\ ScriptOK(j)' /\ OrderOK(j)'
      /\ \A m : Pasts(m)' = Pasts(m)
      /\ PanicOK'
  BY <1>1, <1>9, Stutter DEF mainVars
<1>5. Types'
  BY <1>1, <1>9 DEF IInv, Types, CallsOK, ValuesOK, Lambda!TypeOK, Middleware!TypeOK,
     Script!TypeOK, ObjectsOK, mainVars, sourceVars, scriptVars, calls
<1>10. \A m \in DOMAIN limiter : limiter[m].tokens \in Nat /\ limiter[m].made \in Nat
  BY RunnerAssumption DEF IInv, Types, Middleware!TypeOK
<1> HIDE DEF IInv
<1>6. /\ Source' = Source /\ Fn' = Fn
      /\ UNCHANGED <<program, setup, serve, event, answers, outer, value>>
  BY <1>1, <1>9, SameSetup DEF mainVars, sourceVars, calls
<1>7. MainOK' /\ SourceOK' /\ SetupOK' /\ Lambda!AnswersAreTrue'
  BY <1>2, <1>6 DEF MainOK, SourceOK, SetupOK, Configured, Lambda!AnswersAreTrue
<1>8. RateOK'
  <2>1. ASSUME NEW m \in DOMAIN setup.chain, Rated(m)
        PROVE  Rated(m)'
    <3>1. IsFiniteSet(Pasts(m)) /\ Cardinality(Pasts(m)) \in Nat
      BY <2>1, FS_CardinalityType DEF Rated
    <3>2. Pasts(m)' = Pasts(m) /\ DOMAIN limiter' = DOMAIN limiter
      BY <1>3, <1>4
    <3>3. CASE m = n
      BY <1>3, <1>10, <2>1, <3>1, <3>2, <3>3 DEF Rated
    <3>4. CASE m # n
      BY <1>3, <2>1, <3>2, <3>4 DEF Rated
    <3>. QED
      BY <3>3, <3>4
  <2>. QED
    BY <1>2, <1>6, <2>1 DEF RateOK
<1>. QED
  BY <1>4, <1>5, <1>7, <1>8 DEF IInv

LEMMA SourceStep ==
  ASSUME IInv, ~panicked, ServeLambda \/ ServeCron \/ ReceiveEvent \/ FireJob
  PROVE  IInv'
<1>1. Types'
  BY SourceTypes
<1>2. /\ MainOK /\ RateOK /\ SetupOK /\ Lambda!AnswersAreTrue
      /\ program = "serving"
      /\ event \in Inputs \cup {0} /\ answers \in [Inputs -> {"none", "output", "error"}]
  BY DEF IInv, Types, Lambda!TypeOK, ServeLambda, ServeCron, ReceiveEvent, FireJob, Serving
<1>3. /\ UNCHANGED <<mainVars, panicked, inner, stageVars, scriptVars>> /\ SourceOK'
      /\ UNCHANGED <<outer, value>> \/ \E i \in Inputs : Only(i) /\ Starts(i)
  BY LambdaSteps, CronSteps, Arrivals DEF calls
<1>4. /\ UNCHANGED <<program, setup, panicked, limiter, way, at, inner>>
      /\ Source' = Source /\ Fn' = Fn /\ (Bare' <=> Bare)
  BY <1>3, SameSetup DEF mainVars, stageVars
<1>5. \A j \in Inputs : FlowOK(j)' /\ ScriptOK(j)' /\ OrderOK(j)'
  <2>1. CASE UNCHANGED <<outer, value>>
    BY <1>3, <2>1, Stutter DEF mainVars, stageVars, calls
  <2>2. ASSUME NEW i \in Inputs, Only(i), Starts(i)
        PROVE  \A j \in Inputs : FlowOK(j)' /\ ScriptOK(j)' /\ OrderOK(j)'
    BY <1>4, <2>2, AllInvokes
  <2>. QED
    BY <1>3, <2>1, <2>2
<1>6. PanicOK'
  BY <1>4 DEF PanicOK
<1>7. Lambda!AnswersAreTrue'
  <2>1. ValuesOK'
    BY <1>1 DEF Types
  <2>2. \A j \in Inputs : outer'[j] # outer[j] => outer[j] = "idle"
    <3>1. ASSUME NEW i \in Inputs, Only(i), Starts(i)
          PROVE  \A j \in Inputs : outer'[j] # outer[j] => outer[j] = "idle"
      <4>1. \A j \in Inputs \ {i} : outer'[j] = outer[j]
        BY <3>1, Others
      <4>. QED
        BY <3>1, <4>1 DEF Starts
    <3>. QED
      BY <1>3, <3>1
  <2> HIDE DEF IInv
  <2>3. CASE answers' = answers
    BY <1>2, <2>1, <2>2, <2>3 DEF Lambda!AnswersAreTrue, ValuesOK
  <2>4. CASE answers' # answers
    <3>1. ServeLambda
      BY <2>4, Arrivals, CronSteps
    <3>2. UNCHANGED <<outer, value, event>>
      BY <3>1, LambdaSteps DEF calls
    <3>3. event \in Inputs
      BY <2>4, <3>1 DEF IInv, SourceOK, ServeLambda, Lambda!Step, Lambda!Begin,
         Lambda!CheckContext, Lambda!PostError, Lambda!PostOutput, Lambda!MarshalFails,
         Lambda!lambdaVars
    <3>4. \/ /\ outer[event] = "failed"
             /\ \E a \in {answers[event], "error"} : answers' = [answers EXCEPT ![event] = a]
          \/ /\ outer[event] = "replied"
             /\ \E a \in {answers[event], "output"} : answers' = [answers EXCEPT ![event] = a]
      BY <2>4, <3>1 DEF ServeLambda, Lambda!Step, Lambda!Begin,
         Lambda!CheckContext, Lambda!PostError, Lambda!PostOutput, Lambda!MarshalFails,
         Lambda!lambdaVars, Lambda!Post
    <3>. QED
      BY <1>2, <2>1, <3>2, <3>3, <3>4 DEF Lambda!AnswersAreTrue, ValuesOK
  <2>. QED
    BY <2>3, <2>4
<1> HIDE DEF IInv
<1>8. MainOK' /\ SetupOK'
  BY <1>2, <1>4 DEF MainOK, SetupOK, Configured
<1>9. RateOK'
  <2>1. \A n : Pasts(n)' = Pasts(n)
    BY <1>4 DEF Pasts, Past
  <2>. QED
    BY <1>2, <1>4, <2>1 DEF RateOK, Rated
<1>. QED
  BY <1>1, <1>3, <1>5, <1>6, <1>7, <1>8, <1>9 DEF IInv

LEMMA HttpStep ==
  ASSUME IInv, ~panicked, ServeHttp
  PROVE  IInv'
<1>1. /\ UNCHANGED <<mainVars, event, answers, calls, stageVars, scriptVars>>
      /\ serve' \in {serve, "started", "returned"}
      /\ program = "serving"
      /\ panicked' = panicked \/ (panicked' = TRUE /\ Bare)
  BY DEF ServeHttp, StartHttp, ServeWithoutListener, StopHttp, HasListener, Serving, Bare,
         sourceVars
<1>2. MainOK /\ SourceOK /\ SetupOK /\ Lambda!AnswersAreTrue
  BY DEF IInv
<1>3. Types'
  BY <1>1 DEF IInv, Types, CallsOK, ValuesOK, Lambda!TypeOK, Middleware!TypeOK, Script!TypeOK,
     Serves, mainVars, calls, stageVars, scriptVars
<1>4. /\ \A j \in Inputs : FlowOK(j)' /\ ScriptOK(j)' /\ OrderOK(j)'
      /\ RateOK' /\ PanicOK'
  BY <1>1, Stutter DEF mainVars, stageVars
<1> HIDE DEF IInv
<1>5. /\ Source' = Source /\ Fn' = Fn
      /\ UNCHANGED <<program, setup, event, answers, outer, value>>
  BY <1>1, SameSetup DEF mainVars, calls
<1>6. MainOK' /\ SourceOK' /\ SetupOK' /\ Lambda!AnswersAreTrue'
  BY <1>1, <1>2, <1>5 DEF MainOK, SourceOK, SetupOK, Configured, Lambda!AnswersAreTrue
<1>. QED
  BY <1>3, <1>4, <1>6 DEF IInv

LEMMA Initially == Init => IInv
<1> SUFFICES ASSUME Init PROVE IInv
  OBVIOUS
<1>1. /\ document \in Documents /\ program = "configuring" /\ setup.chain = <<>>
      /\ cancelled = FALSE /\ panicked = FALSE /\ serve = "idle"
      /\ outer = [i \in Inputs |-> "idle"] /\ inner = [i \in Inputs |-> "idle"]
      /\ value = [i \in Inputs |-> Error(i)]
      /\ event = 0 /\ answers = [e \in Inputs |-> "none"]
      /\ at = [i \in Inputs |-> 0] /\ way = [i \in Inputs |-> "idle"]
      /\ expired = [i \in Inputs |-> {}]
      /\ limiter = <<>> /\ breaker = <<>> /\ admitted = {}
      /\ given = [i \in Inputs |-> Error(i)] /\ reply = [i \in Inputs |-> Error(i)]
      /\ pc = [i \in Inputs |-> "new"] /\ routine = [i \in Inputs |-> "none"]
      /\ proc = [i \in Inputs |-> "none"]
  BY SameTransforms DEF Init, Lambda!Init, Middleware!Init, Script!Init
<1>2. DOMAIN limiter = {} /\ DOMAIN breaker = {}
  BY <1>1
<1>3. /\ \A i \in Inputs : Error(i) \in Values /\ Error(i).of = i
      /\ \A i \in Inputs : outer[i] = "idle" /\ inner[i] = "idle" /\ way[i] = "idle"
                           /\ at[i] = 0 /\ expired[i] = {} /\ answers[i] = "none"
                           /\ pc[i] = "new" /\ routine[i] = "none" /\ proc[i] = "none"
                           /\ value[i] = Error(i) /\ given[i] = Error(i) /\ reply[i] = Error(i)
  BY <1>1, ErrorType
<1>5. Types
  <2>1. setup.chain \in Seq(Range(setup.chain)) /\ Len(setup.chain) = 0
    BY <1>1
  <2>2. CallsOK /\ ValuesOK
    BY <1>1, <1>3, <2>1 DEF CallsOK, ValuesOK, Programs, Serves, Statuses
  <2>3. Middleware!TypeOK
    BY <1>1, <1>2, <2>1 DEF Middleware!TypeOK, Middleware!Ways
  <2>4. Lambda!TypeOK /\ Script!TypeOK
    BY <1>1 DEF Lambda!TypeOK, Script!TypeOK, Script!Locations, Script!Routines
  <2>. QED
    BY <2>2, <2>3, <2>4 DEF Types
<1>6. MainOK /\ SetupOK /\ PanicOK /\ SourceOK /\ Lambda!AnswersAreTrue
  BY <1>1, <1>3 DEF MainOK, SetupOK, PanicOK, SourceOK, Configured, Lambda!AnswersAreTrue
<1>7. RateOK
  <2>1. DOMAIN setup.chain = {}
    BY <1>1
  <2>. QED
    BY <2>1 DEF RateOK
<1>8. ASSUME NEW i \in Inputs
      PROVE  FlowOK(i) /\ ScriptOK(i) /\ OrderOK(i)
  BY <1>3 DEF FlowOK, ScriptOK, OrderOK
<1>. QED
  BY <1>5, <1>6, <1>7, <1>8 DEF IInv

LEMMA Unchanged == IInv /\ UNCHANGED vars => IInv'
<1> SUFFICES ASSUME IInv, UNCHANGED vars PROVE IInv'
  OBVIOUS
<1>1. /\ UNCHANGED <<document, program, setup, cancelled, panicked, serve, event, answers>>
      /\ UNCHANGED <<outer, inner, value, at, way, expired, limiter, breaker, admitted>>
      /\ UNCHANGED <<given, reply, pc, routine, proc>>
  BY DEF vars, mainVars, sourceVars, calls, stageVars, scriptVars
<1>2. /\ \A j \in Inputs : FlowOK(j)' /\ ScriptOK(j)' /\ OrderOK(j)'
      /\ RateOK' /\ PanicOK'
  BY <1>1, Stutter DEF calls, scriptVars
<1>3. Types'
  BY <1>1 DEF IInv, Types, CallsOK, ValuesOK, Lambda!TypeOK, Middleware!TypeOK, Script!TypeOK
<1>4. MainOK /\ SourceOK /\ SetupOK /\ Lambda!AnswersAreTrue
  BY DEF IInv
<1> HIDE DEF IInv
<1>5. Source' = Source /\ Fn' = Fn
  BY <1>1, SameSetup
<1>6. MainOK' /\ SourceOK' /\ SetupOK' /\ Lambda!AnswersAreTrue'
  BY <1>1, <1>4, <1>5 DEF MainOK, SourceOK, SetupOK, Configured, Lambda!AnswersAreTrue
<1>. QED
  BY <1>2, <1>3, <1>6 DEF IInv

LEMMA Preserved == IInv /\ [Next]_vars => IInv'
<1> SUFFICES ASSUME IInv, [Next]_vars PROVE IInv'
  OBVIOUS
<1>1. CASE UNCHANGED vars
  BY <1>1, Unchanged
<1>2. CASE Next
  <2>1. ~panicked
    BY <1>2 DEF Next, Alive
  <2>2. CASE Main
    BY <2>1, <2>2, ConfigureStep, MainStep DEF Main
  <2>3. CASE Environment
    BY <2>1, <2>3, MainStep, SourceStep DEF Environment
  <2>4. CASE ServeLambda \/ ServeCron
    BY <2>1, <2>4, SourceStep
  <2>7. CASE ServeHttp
    BY <2>1, <2>7, HttpStep
  <2>5. CASE Refill
    BY <2>1, <2>5, RefillStep
  <2>6. ASSUME NEW i \in Inputs,
               PassMiddleware(i) \/ Expire(i) \/ InvokeFn(i) \/ ScriptEnds(i)
        PROVE  IInv'
    BY <2>1, <2>6, InvokeStep
  <2>. QED
    BY <1>2, <2>2, <2>3, <2>4, <2>5, <2>6, <2>7 DEF Next
<1>. QED
  BY <1>1, <1>2

\* The invariant holds of every behaviour.
THEOREM Invariance == Spec => []IInv
<1>. QED
  BY Initially, Preserved, PTL DEF Spec

-----------------------------------------------------------------------------
(* What follows.                                                           *)

\* Every variable of the program and of its parts has its type.
THEOREM Typing == Spec => []TypeOK
<1>1. IInv => TypeOK
  <2> SUFFICES ASSUME IInv PROVE TypeOK
    OBVIOUS
  <2>. QED
    BY DEF IInv, Types, CallsOK, TypeOK, Programs, Serves, Statuses
<1>. QED
  BY <1>1, Invariance, PTL

\* What was accepted can be used, but for the http source and the circuitbreaker
\* without a configuration: of all others that need one to work, none gets through
\* ConfigureRunner without it.  The program panics for these two and for a script
\* process that is not there, and for nothing else.
THEOREM Usable == Spec => []AcceptedIsUsable
<1>1. IInv => AcceptedIsUsable
  BY DEF IInv, SetupOK, PanicOK, AcceptedIsUsable, Configured
<1>. QED
  BY <1>1, Invariance, PTL

\* Whatever Invokes overlap, each value goes through the whole chain inwards in
\* its order and outwards in the opposite one.
THEOREM InOrder == Spec => []PipelineInOrder
<1>1. IInv => PipelineInOrder
  <2> SUFFICES ASSUME IInv, NEW i \in Inputs
               PROVE  /\ inner[i] # "idle" =>
                           /\ ~IsError(given[i])
                           /\ given[i] = AllInward(setup.chain, InputOf(i))
                      /\ outer[i] = "replied" => value[i] = AllOutward(setup.chain, reply[i])
    BY DEF PipelineInOrder
  <2>1. Len(setup.chain) \in Nat /\ FlowOK(i) /\ OrderOK(i)
    BY Known
  <2> HIDE DEF IInv
  <2>2. outer[i] = "replied" => at[i] = 0 /\ way[i] = "done" /\ ~IsError(value[i])
    BY <2>1 DEF FlowOK
  <2>3. Len(setup.chain) - 0 = Len(setup.chain)
    BY <2>1
  <2>. QED
    BY <2>1, <2>2, <2>3 DEF OrderOK, AllInward, AllOutward
<1>. QED
  BY <1>1, Invariance, PTL

\* The pipeline's count is the one the theorems about finite sets speak of.
LEMMA SameSize ==
  ASSUME NEW S
  PROVE  Middleware!Cardinality(S) = Cardinality(S)
  BY DEF Middleware!Cardinality, Cardinality

\* The fn behind rate limiters is called no more often than each of them made tokens.
THEOREM Rate == Spec => []RateKept
<1>1. IInv => RateKept
  <2> DEFINE Called == {i \in Inputs : inner[i] # "idle"}
  <2> SUFFICES ASSUME IInv, NEW n \in DOMAIN setup.chain,
                      setup.chain[n].key = "middleware/ratelimiter"
               PROVE  Cardinality(Called) <= IF n \in DOMAIN limiter THEN limiter[n].made ELSE 0
    BY SameSize DEF RateKept, Middleware!RateKept
  <2>1. /\ Rated(n)
        /\ n \in DOMAIN limiter => limiter[n].tokens \in Nat /\ limiter[n].made \in Nat
    BY RunnerAssumption DEF IInv, RateOK, Types, Middleware!TypeOK
  <2> HIDE DEF IInv
  <2>2. Called \subseteq Pasts(n) /\ IsFiniteSet(Pasts(n))
    BY <2>1 DEF Pasts, Past, Rated
  <2>3. IsFiniteSet(Called) /\ Cardinality(Called) <= Cardinality(Pasts(n))
    BY <2>2, FS_Subset
  <2>4. Cardinality(Called) \in Nat /\ Cardinality(Pasts(n)) \in Nat
    BY <2>2, <2>3, FS_CardinalityType
  <2>5. Pasts(n) = {} => Cardinality(Pasts(n)) = 0
    BY FS_EmptySet
  <2>. QED
    BY <2>1, <2>3, <2>4, <2>5 DEF Rated
<1>. QED
  BY <1>1, Invariance, PTL

\* An Invoke of a script that has returned, however, left no process running.
THEOREM NoProcessLeftBehind == Spec => []NoOrphans
<1>1. IInv => NoOrphans
  BY DEF IInv, ScriptOK, NoOrphans, Script!NoOrphans
<1>. QED
  BY <1>1, Invariance, PTL

\* A goroutine of a script outlives its Invoke only if the context has ended.
THEOREM LeaksAfterDeadline == Spec => []LeaksOnlyAfterDeadline
<1>1. IInv => LeaksOnlyAfterDeadline
  BY DEF IInv, ScriptOK, LeaksOnlyAfterDeadline, Script!LeaksOnlyAfterDeadline
<1>. QED
  BY <1>1, Invariance, PTL

\* The lambda API is told what became of the event it gave, and nothing else.
THEOREM TrueAnswers == Spec => []AnswersAreTrue
<1>1. IInv => AnswersAreTrue
  BY DEF IInv, AnswersAreTrue
<1>. QED
  BY <1>1, Invariance, PTL

-----------------------------------------------------------------------------
(* The contract of Fn, on both sides of the pipeline.                      *)

\* No answer of the pipeline is garbled.
LEMMA NotGarbled == IInv => pipelineStatus = outer
<1> SUFFICES ASSUME IInv PROVE pipelineStatus = outer
  OBVIOUS
<1>1. ASSUME NEW i \in Inputs
      PROVE  PipelineStatus(i) = outer[i]
  <2>1. FlowOK(i) /\ value[i].of = i
    BY Known
  <2> HIDE DEF IInv
  <2>. QED
    BY <2>1 DEF FlowOK, PipelineStatus
<1>2. outer \in [Inputs -> Statuses]
  BY DEF IInv, Types, CallsOK
<1>. QED
  BY <1>1, <1>2 DEF pipelineStatus

\* How a step of one Invoke looks to the callers of the pipeline and of the fn.
LEMMA ContractSteps ==
  ASSUME IInv, NEW i \in Inputs, Only(i), Moves(i) \/ Works(i) \/ Starts(i)
  PROVE  /\ \/ outer' = outer
            \/ outer[i] = "idle" /\ outer' = [outer EXCEPT ![i] = "running"]
            \/ /\ outer[i] = "running"
               /\ \E o \in {"replied", "failed"} : outer' = [outer EXCEPT ![i] = o]
         /\ \/ inner' = inner
            \/ inner[i] = "idle" /\ inner' = [inner EXCEPT ![i] = "running"]
            \/ /\ inner[i] = "running"
               /\ \E o \in {"replied", "failed"} : inner' = [inner EXCEPT ![i] = o]
<1>1. /\ outer \in [Inputs -> Statuses] /\ inner \in [Inputs -> Statuses]
      /\ FlowOK(i) /\ outer[i] \in Statuses
  BY Known DEF IInv, Types, CallsOK
<1> HIDE DEF IInv
<1>2. /\ outer' = [outer EXCEPT ![i] = outer'[i]] /\ inner' = [inner EXCEPT ![i] = inner'[i]]
      /\ outer = [outer EXCEPT ![i] = outer[i]] /\ inner = [inner EXCEPT ![i] = inner[i]]
  BY <1>1 DEF Only, Differs
<1>3. /\ \/ outer'[i] = outer[i]
         \/ outer[i] = "idle" /\ outer'[i] = "running"
         \/ outer[i] = "running" /\ outer'[i] \in {"replied", "failed"}
      /\ \/ inner'[i] = inner[i]
         \/ inner[i] = "idle" /\ inner'[i] = "running"
         \/ inner[i] = "running" /\ inner'[i] \in {"replied", "failed"}
  BY <1>1 DEF Moves, Works, Starts, Enters, Passes, TurnsBack, Calls, Returns, ComesBack,
              Finishes, Waits, OnItsWay, FlowOK, Statuses
<1>. QED
  BY <1>2, <1>3

\* What a source calls keeps the promise of Fn, and so does what the pipeline
\* calls: each Invoke starts once and returns once, in success or in failure.
THEOREM KeepsContract == Spec => ImplementsContract
<1>1. Init => PipelineContract!Init /\ ScriptContract!Init
  <2> SUFFICES ASSUME Init PROVE PipelineContract!Init /\ ScriptContract!Init
    OBVIOUS
  <2>1. pipelineStatus = outer
    BY Initially, NotGarbled
  <2>. QED
    BY <2>1 DEF Init, PipelineContract!Init, ScriptContract!Init
<1>2. IInv /\ pipelineStatus = outer /\ (pipelineStatus = outer)' /\ [Next]_vars =>
        [PipelineContract!Next]_pipelineStatus /\ [ScriptContract!Next]_inner
  <2> SUFFICES ASSUME IInv, pipelineStatus = outer, (pipelineStatus = outer)', [Next]_vars
               PROVE  [PipelineContract!Next]_pipelineStatus /\ [ScriptContract!Next]_inner
    OBVIOUS
  <2>1. pipelineStatus = outer /\ pipelineStatus' = outer'
    OBVIOUS
  <2>2. ASSUME NEW i \in Inputs, Only(i), Moves(i) \/ Works(i) \/ Starts(i)
        PROVE  [PipelineContract!Next]_pipelineStatus /\ [ScriptContract!Next]_inner
    BY <2>1, <2>2, ContractSteps DEF PipelineContract!Next, PipelineContract!Call,
       PipelineContract!Reply, PipelineContract!Fail, ScriptContract!Next, ScriptContract!Call,
       ScriptContract!Reply, ScriptContract!Fail
  <2>3. CASE UNCHANGED <<outer, inner>>
    BY <2>1, <2>3
  <2>4. CASE UNCHANGED vars
    BY <2>3, <2>4 DEF vars, calls
  <2>5. CASE Main \/ Cancel \/ Refill
    BY <2>3, <2>5 DEF Main, ConfigureRunner, RunReturns, Restart, Cancel, Refill,
       Middleware!Refill, calls
  <2>6. CASE ServeLambda \/ ServeCron \/ ServeHttp
    BY <2>3, <2>6, LambdaSteps, CronSteps DEF calls, ServeHttp, StartHttp,
       ServeWithoutListener, StopHttp
  <2>7. CASE ReceiveEvent \/ FireJob
    BY <2>2, <2>3, <2>7, Arrivals
  <2>8. ASSUME NEW i \in Inputs,
               PassMiddleware(i) \/ Expire(i) \/ InvokeFn(i) \/ ScriptEnds(i)
        PROVE  [PipelineContract!Next]_pipelineStatus /\ [ScriptContract!Next]_inner
    BY <2>2, <2>8, PipelineMoves, FnMoves
  <2>. QED
    BY <2>4, <2>5, <2>6, <2>7, <2>8 DEF Next, Environment
<1>. QED
  BY <1>1, <1>2, NotGarbled, Invariance, PTL
     DEF Spec, ImplementsContract, PipelineContract!Spec, ScriptContract!Spec
=============================================================================
