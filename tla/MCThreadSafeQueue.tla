------------------------- MODULE MCThreadSafeQueue -------------------------
(* Model-checking instances of ThreadSafeQueue. *)
EXTENDS ThreadSafeQueue, TLC

Symmetry == Permutations(Threads) \cup Permutations(Values)
=============================================================================
