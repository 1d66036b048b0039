-------------------------- MODULE MCProcPoolServer --------------------------
(* Model-checking instances of ProcPoolServer. *)
EXTENDS ProcPoolServer, TLC

Symmetry == Permutations(Conns)
=============================================================================
