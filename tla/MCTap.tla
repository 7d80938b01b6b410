-------------------------------- MODULE MCTap --------------------------------
(* Instances of TapMiddleware for TLC; the inputs are interchangeable.     *)
EXTENDS TapMiddleware, TLC

Symmetry == Permutations(Inputs)
=============================================================================
