----------------------------- MODULE Transforms -----------------------------
(***************************************************************************)
(* What the middleware json, jq and key do to the values that pass through *)
(* a pipeline.  A value has a kind, what it holds, and the event it is     *)
(* about:                                                                  *)
(*   "envelope"  the map the lambda source makes, holding an event         *)
(*   "map"       a map       "wild"  one that cannot be written as JSON    *)
(*   "json"      a string with the JSON text of what it holds              *)
(*   "text"      any other string       "list", "nil", "error"             *)
(***************************************************************************)
EXTENDS SequencesExt

CONSTANT JsonReplies  \* the events to which an fn outside replies with JSON

Value(kind, holds, e) == [kind |-> kind, holds |-> holds, of |-> e]
Plain(kind, e) == Value(kind, "none", e)
Error(e) == Plain("error", e)

\* What a process prints, or an endpoint answers.
Printed(e) == IF e \in JsonReplies THEN Value("json", "map", e) ELSE Plain("text", e)

IsMap(v) == v.kind \in {"envelope", "map", "wild"}
IsString(v) == v.kind \in {"json", "text"}
IsError(v) == v.kind = "error"

\* What a value of this kind is when it has been taken out of another one.
Held(kind, e) ==
  CASE kind = "json" -> Value("json", "map", e)
    [] kind = "envelope" -> Plain("map", e)
    [] OTHER -> Plain(kind, e)

\* transcode; the error of json.Unmarshal is dropped.
Transcode(strategy, v) ==
  CASE strategy = "" -> v
    [] strategy = "serialize" ->
         IF v.kind = "wild" THEN Error(v.of) ELSE Value("json", v.kind, v.of)
    [] strategy = "deserialize" ->
         CASE v.kind = "json" -> Held(v.holds, v.of)
           [] v.kind = "text" -> v
           [] OTHER -> Error(v.of)
    [] OTHER -> Error(v.of)

\* apply: no program, one result, several, one that json cannot write (infinity);
\* any other one fails, and every one when its context has ended.  "endless" always
\* has another result: it only returns, and fails, when its context has ended.
Apply(program, v, done) ==
  CASE program = "" -> v
    [] program # "" /\ done -> Error(v.of)
    [] program = "one" /\ ~done -> Plain("map", v.of)
    [] program = "many" /\ ~done -> Plain("list", v.of)
    [] program = "infinity" /\ ~done -> Plain("wild", v.of)
    [] OTHER -> Error(v.of)

\* The key middleware: a key that is missing gives nil.
Select(key, v) ==
  CASE v.kind = "envelope" /\ key = "event" -> Held(v.holds, v.of)
    [] IsMap(v) /\ ~(v.kind = "envelope" /\ key = "event") -> Plain("nil", v.of)
    [] ~IsMap(v) -> Error(v.of)

\* What a stage passes on to the next one, and what it returns.
Inward(stage, v, done) ==
  CASE stage.key = "middleware/json" -> Transcode(stage.in, v)
    [] stage.key = "middleware/jq" -> Apply(stage.in, v, done)
    [] stage.key = "middleware/key" -> Select(stage.in, v)
    [] OTHER -> v

Outward(stage, v, done) ==
  CASE IsError(v) -> v
    [] ~IsError(v) /\ stage.key = "middleware/json" -> Transcode(stage.out, v)
    [] ~IsError(v) /\ stage.key = "middleware/jq" -> Apply(stage.out, v, done)
    [] OTHER -> v

-----------------------------------------------------------------------------
(* The reference: what a whole chain of stages does to an input, and to an *)
(* output, when no context ends.                                           *)

\* What has become of an input behind the first n stages.
Inwards(chain, v) ==
  LET behind[n \in 0 .. Len(chain)] ==
        IF n = 0 THEN v
        ELSE IF IsError(behind[n - 1]) THEN behind[n - 1]
        ELSE Inward(chain[n], behind[n - 1], FALSE)
  IN behind

\* What has become of an output when the last n stages have returned.
Outwards(chain, v) ==
  LET after[n \in 0 .. Len(chain)] ==
        IF n = 0 THEN v
        ELSE Outward(chain[Len(chain) + 1 - n], after[n - 1], FALSE)
  IN after

AllInward(chain, v) == Inwards(chain, v)[Len(chain)]

AllOutward(chain, v) == Outwards(chain, v)[Len(chain)]
=============================================================================
