---------------------------- MODULE MCCliService ----------------------------
(* Instances of CliService for TLC.  The inputs are interchangeable, so it  *)
(* is enough to look at behaviours in which they begin in the order of      *)
(* their numbers; a symmetry set would not be sound for InvokeReturns.      *)
EXTENDS CliService

InTurn ==
  \A i, j \in Inputs : i < j /\ pc[j] # "new" => pc[i] # "new"

MCNext == Next /\ InTurn'

MCSpec == Init /\ [][MCNext]_vars /\ Fairness
=============================================================================
