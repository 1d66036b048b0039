-------------------------- MODULE SelectPollServer --------------------------
(***************************************************************************)
(* serv_select and serv_poll in                                            *)
(* server/include/multi_connection_server.hpp: one thread, a table of      *)
(* descriptors (slot 0 is the listening socket), and rounds of wait,       *)
(* accept one connection, read the marked slots in order.  select marks    *)
(* descriptors (FD_ISSET), poll marks slots (revents).  A signal is a byte *)
(* on a socketpair nobody reads; one that interrupts the wait ends the     *)
(* server.  The wait's timeout leads to the next wait.                     *)
(***************************************************************************)
EXTENDS Sockets

CONSTANTS Muxes,      \* the multiplexers considered, of "select" and "poll"
          FDS_LEN     \* SELECT_FDS_LEN, POLL_FDS_LEN: size of the table

ASSUME TableAssumption ==
    /\ Muxes \subseteq {"select", "poll"}
    /\ FDS_LEN \in Nat \ {0}

VARIABLES mux,        \* the multiplexer this server uses
          pc,         \* where it is
          fds,        \* fds[i]: the descriptor in slot i >= 1, or -1
          ready,      \* what the last wait marked: descriptors or slots
          cursor      \* the next slot to look at

serverVars == <<mux, pc, fds, ready, cursor>>
vars == <<socketVars, serverVars>>

Slots == 1..(FDS_LEN - 1)

Init ==
    /\ SocketsInit
    /\ mux \in Muxes
    /\ pc = "wait"
    /\ fds = [i \in Slots |-> -1]
    /\ ready = {}
    /\ cursor = 1

-----------------------------------------------------------------------------
\* The slots whose descriptor is readable.
ReadySlots == {i \in Slots : fds[i] # -1 /\ Readable(fds[i])}

FreeSlots == {i \in Slots : fds[i] = -1}

ListenIfRoom == Backlog # {} /\ FreeSlots # {}   \* faulty: not while the table is full

\* The listening socket is readable.
ListenReady == Backlog # {}

\* select or poll returns: the listening socket or some slot is readable.
Wait ==
    /\ pc = "wait"
    /\ ListenReady \/ ReadySlots # {}
    /\ ready' = IF mux = "select" THEN {fds[i] : i \in ReadySlots} ELSE ReadySlots
    /\ pc' = IF ListenReady THEN "accept" ELSE "read"
    /\ cursor' = 1
    /\ UNCHANGED <<socketVars, mux, fds>>

\* A signal while nothing is readable: EINTR in spite of SA_RESTART; exit(1).
Interrupted ==
    /\ pc = "wait"
    /\ ~ListenReady /\ ReadySlots = {}
    /\ pc' = "failed"
    /\ CloseAll
    /\ UNCHANGED <<mux, fds, ready, cursor>>

FirstFree == CHOOSE i \in FreeSlots : \A j \in FreeSlots : i <= j

\* A connection is accepted into the first free slot.
AcceptIntoSlot(c) ==
    /\ pc = "accept"
    /\ FreeFds # {} /\ FreeSlots # {}
    /\ serv_accept(c, LowestFd)
    /\ fds' = [fds EXCEPT ![FirstFree] = LowestFd]
    /\ pc' = "read"
    /\ UNCHANGED <<mux, ready, cursor>>

NeverRefuse(c) == serv_accept(c, LowestFd)   \* faulty: serv_select keeps it, too

\* serv_select closes the connection, serv_poll only says so.
Refuse(c) ==
    IF mux = "select" THEN AcceptAndClose(c) ELSE serv_accept(c, LowestFd)

AcceptPastEnd(c) ==   \* faulty: the search for a slot goes one too far
    /\ pc = "accept"
    /\ FreeFds # {} /\ FreeSlots = {}
    /\ serv_accept(c, LowestFd)
    /\ fds' = [i \in 1..FDS_LEN |-> IF i = FDS_LEN THEN LowestFd ELSE fds[i]]
    /\ pc' = "read"
    /\ UNCHANGED <<mux, ready, cursor>>

\* The table is full.
AcceptFull(c) ==
    /\ pc = "accept"
    /\ FreeFds # {} /\ FreeSlots = {}
    /\ Refuse(c)
    /\ pc' = "read"
    /\ UNCHANGED <<mux, fds, ready, cursor>>

\* accept fails: EMFILE.
AcceptFails ==
    /\ pc = "accept"
    /\ FreeFds = {}
    /\ pc' = "read"
    /\ UNCHANGED <<socketVars, mux, fds, ready, cursor>>

\* FD_ISSET(fds[i], &rfds) or pfds[i].revents & POLLIN
Marked(i) == fds[i] # -1 /\ (IF mux = "select" THEN fds[i] ELSE i) \in ready

LastSlotMissed == FDS_LEN - 2   \* faulty: the loop ends one slot too early

LastSlot == FDS_LEN - 1

DropKeepsFd(i) == CloseFd(fds[i]) /\ UNCHANGED fds   \* faulty: the slot is not reset

\* The end of a connection: close(fds[i]), fds[i] = -1.
Drop(i) ==
    /\ CloseFd(fds[i])
    /\ fds' = [fds EXCEPT ![i] = -1]

\* One turn of the loop over the slots.
ReadSlot ==
    /\ pc = "read"
    /\ cursor <= LastSlot
    /\ CASE Marked(cursor) /\ serv_read(fds[cursor]) = "data" ->
              Consume(fds[cursor]) /\ UNCHANGED fds
         [] Marked(cursor) /\ serv_read(fds[cursor]) = "end" -> Drop(cursor)
         [] OTHER -> UNCHANGED <<socketVars, fds>>
    /\ cursor' = cursor + 1
    /\ UNCHANGED <<mux, pc, ready>>

RoundDone ==
    /\ pc = "read"
    /\ cursor > LastSlot
    /\ pc' = "wait"
    /\ ready' = {}
    /\ UNCHANGED <<socketVars, mux, fds, cursor>>

-----------------------------------------------------------------------------
Clients ==
    /\ pc # "failed"
    /\ \E c \in Conns : Connect(c) \/ Send(c) \/ Leave(c)
    /\ UNCHANGED serverVars

ServerStep ==
    \/ Wait \/ ReadSlot \/ RoundDone
    \/ AcceptFails \/ \E c \in Conns : AcceptIntoSlot(c) \/ AcceptFull(c)

Next == Clients \/ ServerStep \/ Interrupted

Spec == Init /\ [][Next]_vars

\* The thread keeps running; clients and signals owe nothing.
FairSpec == Spec /\ WF_vars(ServerStep)

-----------------------------------------------------------------------------
\* Types; in particular no slot past the end of the table is ever used.
TypeOK ==
    /\ SocketsTypeOK
    /\ mux \in Muxes
    /\ pc \in {"wait", "accept", "read", "failed"}
    /\ fds \in [Slots -> Fds \cup {-1}]
    /\ ready \subseteq Fds \cup Slots
    /\ cursor \in 1..FDS_LEN

\* A slot stands for one open connection, of no other slot, and what a wait
\* has marked is still readable when the loop comes to it, although the
\* connection accepted in between may have got a descriptor or a slot that
\* was in use before: serv_read never finds a stale descriptor.
TableIsCurrent ==
    pc # "failed" =>
        \A i \in Slots : fds[i] # -1 =>
            /\ sock[fds[i]] # None
            /\ \A j \in Slots \ {i} : fds[j] # fds[i]
            /\ pc \in {"accept", "read"} /\ i >= cursor /\ Marked(i) =>
                  Readable(fds[i])

\* The connections in the table.
Kept == {sock[fds[i]] : i \in {j \in Slots : fds[j] # -1}}

\* A connection that does not fit into the table is disconnected: the server
\* has no connection open that it does not watch.
FullMeansDisconnected ==
    pc # "failed" => \A c \in Conns : conn[c] = "open" => c \in Kept

\* serv_select keeps its word on a full table.
SelectDisconnects == mux = "select" => FullMeansDisconnected

\* A connection in the backlog is accepted, unless the process stays out of
\* descriptors for ever, as serv_poll does when its clients stay and the rest
\* went to connections it does not watch.  A full table is no excuse, and an
\* accept that failed (EMFILE) is made good when a descriptor is freed.
BacklogIsAccepted ==
    \A c \in Conns :
        conn[c] = "backlog" ~> conn[c] # "backlog" \/ [](FreeFds = {})

\* What a client in the table has sent is read, and its connection closed
\* when it has left, whatever its slot and whoever else connects.
ClientIsHandled ==
    \A c \in Conns :
        (c \in Kept /\ (inbuf[c] > 0 \/ c \in left)) ~>
            conn[c] = "closed" \/ (inbuf[c] = 0 /\ c \notin left)
=============================================================================
