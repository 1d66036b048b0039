------------------------------ MODULE Sockets ------------------------------
(***************************************************************************)
(* The kernel's side of the select, poll and epoll servers: client         *)
(* connections, the bytes they deliver in pieces of at most one recv       *)
(* buffer, and the server's table of descriptors, in which accept takes    *)
(* the lowest free number and close makes a number free for the next       *)
(* connection.                                                             *)
(***************************************************************************)
EXTENDS Integers, FiniteSets

CONSTANTS Conns,      \* client connections
          None,       \* "no connection", "no descriptor"
          MaxFds,     \* descriptors the process may have for its clients
          MaxMsgs,    \* bound: pieces of data one client sends
          Senders,    \* bound: the connections whose client sends
          Leavers     \* bound: the connections whose client may leave

ASSUME SocketsAssumption ==
    /\ IsFiniteSet(Conns)
    /\ MaxFds \in Nat \ {0}
    /\ MaxMsgs \in Nat
    /\ Senders \subseteq Conns
    /\ Leavers \subseteq Conns
    /\ None \notin Conns \cup 1..MaxFds

Fds == 1..MaxFds

VARIABLES conn,       \* conn[c]: how far connection c has come
          inbuf,      \* inbuf[c]: pieces received and not yet read
          sent,       \* sent[c]: pieces sent so far, for MaxMsgs
          left,       \* the connections whose client has closed or reset them
          sock        \* sock[f]: the connection behind descriptor f, or None

socketVars == <<conn, inbuf, sent, left, sock>>

SocketsInit ==
    /\ conn = [c \in Conns |-> "new"]
    /\ inbuf = [c \in Conns |-> 0]
    /\ sent = [c \in Conns |-> 0]
    /\ left = {}
    /\ sock = [f \in Fds |-> None]

SocketsTypeOK ==
    /\ conn \in [Conns -> {"new", "backlog", "open", "closed"}]
    /\ inbuf \in [Conns -> 0..MaxMsgs]
    /\ sent \in [Conns -> 0..MaxMsgs]
    /\ left \subseteq Conns
    /\ sock \in [Fds -> Conns \cup {None}]

Backlog == {c \in Conns : conn[c] = "backlog"}

-----------------------------------------------------------------------------
(* Clients. *)

Connect(c) ==
    /\ conn[c] = "new"
    /\ conn' = [conn EXCEPT ![c] = "backlog"]
    /\ UNCHANGED <<inbuf, sent, left, sock>>

\* The client can still act on connection c.
Up(c) == conn[c] \in {"backlog", "open"} /\ c \notin left

Send(c) ==
    /\ c \in Senders
    /\ Up(c)
    /\ sent[c] < MaxMsgs
    /\ sent' = [sent EXCEPT ![c] = @ + 1]
    /\ inbuf' = [inbuf EXCEPT ![c] = @ + 1]
    /\ UNCHANGED <<conn, left, sock>>

\* FIN, after which the data is still there, or RST, which discards it.
Leave(c) ==
    /\ c \in Leavers
    /\ Up(c)
    /\ left' = left \cup {c}
    /\ inbuf' \in {inbuf, [inbuf EXCEPT ![c] = 0]}
    /\ UNCHANGED <<conn, sent, sock>>

-----------------------------------------------------------------------------
(* System calls. *)

FreeFds == {f \in Fds : sock[f] = None}
LowestFd == CHOOSE f \in FreeFds : \A g \in FreeFds : f <= g

\* recv on f would not return EAGAIN.
Readable(f) == sock[f] # None => inbuf[sock[f]] > 0 \/ sock[f] \in left

\* What serv_read(f) returns: data, EAGAIN, or the end: the client has left,
\* or f is no longer a descriptor (EBADF).
serv_read(f) ==
    IF sock[f] = None THEN "end"
    ELSE IF inbuf[sock[f]] > 0 THEN "data"
    ELSE IF sock[f] \in left THEN "end" ELSE "again"

\* recv takes one buffer.
Consume(f) ==
    /\ inbuf' = [inbuf EXCEPT ![sock[f]] = @ - 1]
    /\ UNCHANGED <<conn, sent, left, sock>>

\* close(f): without effect if f is not a descriptor.
CloseFd(f) ==
    /\ sock' = [sock EXCEPT ![f] = None]
    /\ conn' = [c \in Conns |-> IF sock[f] = c THEN "closed" ELSE conn[c]]
    /\ UNCHANGED <<inbuf, sent, left>>

\* serv_accept: connection c becomes descriptor f.
serv_accept(c, f) ==
    /\ conn[c] = "backlog"
    /\ f = LowestFd
    /\ conn' = [conn EXCEPT ![c] = "open"]
    /\ sock' = [sock EXCEPT ![f] = c]
    /\ UNCHANGED <<inbuf, sent, left>>

\* accept and close at once.
AcceptAndClose(c) ==
    /\ conn[c] = "backlog"
    /\ conn' = [conn EXCEPT ![c] = "closed"]
    /\ UNCHANGED <<inbuf, sent, left, sock>>

\* The process ends: the kernel closes its descriptors and the backlog.
CloseAll ==
    /\ sock' = [f \in Fds |-> None]
    /\ conn' = [c \in Conns |-> IF conn[c] = "new" THEN "new" ELSE "closed"]
    /\ UNCHANGED <<inbuf, sent, left>>
=============================================================================
