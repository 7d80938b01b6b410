---------------------------- MODULE CronSource ----------------------------
(***************************************************************************)
(* The cron source, run/source/cron/cron.go.  The cron library runs each   *)
(* job in a goroutine of its own: jobs overlap when f takes longer than    *)
(* the period.  Their results are ignored.  The cronspec was parsed when   *)
(* the source was configured, by the parser that AddFunc uses.             *)
(***************************************************************************)
EXTENDS Naturals, Transforms

CONSTANT Inputs  \* the jobs, in the order of their times

VARIABLES
  serve,     \* where Serve is
  cancelled, \* its context has ended; others change it
  outer,     \* the Invoke of each job, as in FnContract
  value      \* its argument

Begin ==
  /\ serve = "idle"
  /\ serve' = "started"
  /\ UNCHANGED <<outer, value>>

\* f.Invoke(ctx, map[string]interface{}{})
Fire(i) ==
  /\ serve = "started"
  /\ \A j \in Inputs : outer[j] = "idle" <=> j >= i
  /\ outer' = [outer EXCEPT ![i] = "running"]
  /\ value' = [value EXCEPT ![i] = Plain("map", i)]
  /\ UNCHANGED serve

\* c.Stop() starts no more jobs, and does not wait for those that run.
Stop ==
  /\ serve = "started"
  /\ cancelled
  /\ serve' = "returned"
  /\ UNCHANGED <<outer, value>>

Step == Begin \/ Stop
=============================================================================
