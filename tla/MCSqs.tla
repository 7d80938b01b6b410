-------------------------------- MODULE MCSqs --------------------------------
(* Instances of SqsSource for TLC.                                         *)
EXTENDS SqsSource, TLC

Symmetry == Permutations(Nodes) \cup Permutations(Messages)
=============================================================================
