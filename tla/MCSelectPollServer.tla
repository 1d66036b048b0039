------------------------ MODULE MCSelectPollServer ------------------------
(* Model-checking instances of SelectPollServer. *)
EXTENDS SelectPollServer, TLC

Symmetry == Permutations(Conns)
=============================================================================
