---------------------------- MODULE MCServiceBus ----------------------------
(* Instances of ServiceBusSource for TLC.                                  *)
EXTENDS ServiceBusSource, TLC

Symmetry ==
  Permutations(Nodes) \cup Permutations(Messages) \cup Permutations(Tokens)
=============================================================================
