------------------------- MODULE MCThreadPoolServer -------------------------
(* Model-checking instances of ThreadPoolServer. *)
EXTENDS ThreadPoolServer, TLC

Symmetry == Permutations(Conns)
=============================================================================
