------------------------- MODULE ConnectionService -------------------------
(***************************************************************************)
(* What the half-sync/half-reactive servers of this repository promise a   *)
(* client: its connection, once the kernel has completed it, is taken over *)
(* by exactly one handler (a worker thread, a child process), stays with   *)
(* that handler until it is closed, and is dropped unserved only by a      *)
(* server that is stopping.                                                *)
(***************************************************************************)
CONSTANTS Conns,      \* client connections
          Handlers,   \* workers that may serve them
          Nobody      \* "no handler"

VARIABLES stage,      \* stage[c]: how far connection c has come
          handler,    \* handler[c]: who serves or served c, or Nobody
          stopping    \* whether the server has begun to shut down

vars == <<stage, handler, stopping>>

Init ==
    /\ stage = [c \in Conns |-> "outside"]
    /\ handler = [c \in Conns |-> Nobody]
    /\ stopping = FALSE

\* The kernel completes a connection for the listening socket.
Arrive(c) ==
    /\ ~stopping
    /\ stage[c] = "outside"
    /\ stage' = [stage EXCEPT ![c] = "pending"]
    /\ UNCHANGED <<handler, stopping>>

\* Handler h takes the connection over.
Adopt(c, h) ==
    /\ stage[c] = "pending"
    /\ stage' = [stage EXCEPT ![c] = "served"]
    /\ handler' = [handler EXCEPT ![c] = h]
    /\ UNCHANGED stopping

\* Handler h closes connections of its own: its client has left, or h ends.
Finish(h, S) ==
    /\ S # {}
    /\ \A c \in S : stage[c] = "served" /\ handler[c] = h
    /\ stage' = [c \in Conns |-> IF c \in S THEN "closed" ELSE stage[c]]
    /\ UNCHANGED <<handler, stopping>>

\* The server begins or goes on to stop; the connections in S are dropped.
Stop(S) ==
    /\ \A c \in S : stage[c] \in {"pending", "served"}
    /\ stage' = [c \in Conns |-> IF c \in S THEN "closed" ELSE stage[c]]
    /\ stopping' = TRUE
    /\ UNCHANGED handler

Next ==
    \/ \E c \in Conns : Arrive(c) \/ \E h \in Handlers : Adopt(c, h)
    \/ \E h \in Handlers : \E S \in SUBSET Conns : Finish(h, S)
    \/ \E S \in SUBSET Conns : Stop(S)

Spec == Init /\ [][Next]_vars
=============================================================================
