--------------------------- MODULE MCClientServer ---------------------------
(* Model-checking instances of ClientServer. *)
EXTENDS ClientServer, TLC
=============================================================================
