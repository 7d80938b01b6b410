--------------------------- MODULE MCPooledService ---------------------------
(* Instances of PooledService for TLC.  The inputs are interchangeable, so  *)
(* they are called in the order of their numbers; a symmetry set would not  *)
(* be sound for PooledInvokeReturns.                                        *)
EXTENDS PooledService

InTurn ==
  \A i, j \in Inputs : i < j /\ pc[j] # "new" => pc[i] # "new"

MCNext == PooledNext /\ InTurn'

MCSpec == PooledInit /\ [][MCNext]_pooledVars /\ PooledFairness
=============================================================================
