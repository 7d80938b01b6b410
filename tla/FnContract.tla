----------------------------- MODULE FnContract -----------------------------
(***************************************************************************)
(* What the Fn interface (fn/fn.go) promises to a source or a middleware:  *)
(* a call of Invoke on an input starts, runs, and returns once, either     *)
(* with the function's answer to that very input or with an error.         *)
(* Components that implement Fn are shown to refine this specification.    *)
(***************************************************************************)
CONSTANT Inputs          \* the inputs; each one is the subject of one Invoke

VARIABLE status          \* how far the Invoke of each input has come

Statuses == {"idle", "running", "replied", "failed"}

Init == status = [i \in Inputs |-> "idle"]

\* The caller enters Invoke(ctx, i).
Call(i) ==
  /\ status[i] = "idle"
  /\ status' = [status EXCEPT ![i] = "running"]

\* Invoke returns (answer to i, nil).
Reply(i) ==
  /\ status[i] = "running"
  /\ status' = [status EXCEPT ![i] = "replied"]

\* Invoke returns (nil, err).
Fail(i) ==
  /\ status[i] = "running"
  /\ status' = [status EXCEPT ![i] = "failed"]

Next == \E i \in Inputs : Call(i) \/ Reply(i) \/ Fail(i)

Spec == Init /\ [][Next]_status
=============================================================================
