--------------------------- MODULE MCEpollServer ---------------------------
(* Model-checking instances of EpollServer. *)
EXTENDS EpollServer, TLC

Symmetry == Permutations(Threads)
=============================================================================
