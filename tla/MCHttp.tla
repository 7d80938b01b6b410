------------------------------- MODULE MCHttp -------------------------------
(* Instances of HttpSource for TLC; the requests are interchangeable.      *)
EXTENDS HttpSource, TLC

Symmetry == Permutations(Requests)
=============================================================================
