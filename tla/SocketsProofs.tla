--------------------------- MODULE SocketsProofs ---------------------------
(***************************************************************************)
(* Lemmas about the system calls in Sockets, for the proofs about the      *)
(* servers that use them.                                                  *)
(***************************************************************************)
EXTENDS Sockets, TLAPS, WellFoundedInduction

\* A client never has more pieces unread than it has sent.
BufInv == \A c \in Conns : inbuf[c] <= sent[c]

\* A descriptor is an open connection, and the only one of that connection.
DescInv ==
    \A f \in Fds : sock[f] # None =>
        /\ conn[sock[f]] = "open"
        /\ \A g \in Fds : sock[g] = sock[f] => g = f

SockInv == SocketsTypeOK /\ BufInv /\ DescInv

\* A set of natural numbers that is not empty has a least element.
LEMMA LeastElement ==
    ASSUME NEW T, T \subseteq Nat, T # {}
    PROVE  \E x \in T : \A y \in T : x <= y
<1>1. PICK x \in T : \A y \in T : ~ (<<y, x>> \in OpToRel(<, Nat))
    BY NatLessThanWellFounded, WFMin
<1>2. ASSUME NEW y \in T
      PROVE  x <= y
    <2>1. ~ (<<y, x>> \in OpToRel(<, Nat))
        BY <1>1
    <2>2. ~ (y < x)
        BY <2>1 DEF OpToRel
    <2> QED
        BY <2>2
<1> QED
    BY <1>2

\* accept returns a descriptor that was free.
LEMMA LowestFdIsFree == FreeFds # {} => LowestFd \in Fds /\ sock[LowestFd] = None
<1> SUFFICES ASSUME FreeFds # {}
             PROVE  LowestFd \in FreeFds
    BY DEF FreeFds
<1>1. FreeFds \subseteq Nat
    BY SocketsAssumption DEF FreeFds, Fds
<1>2. \E f \in FreeFds : \A g \in FreeFds : f <= g
    BY <1>1, LeastElement
<1> QED
    BY <1>2 DEF LowestFd

\* At the start no descriptor is open.
LEMMA SockInit == SocketsInit => SockInv
    BY SocketsAssumption DEF SocketsInit, SockInv, SocketsTypeOK, BufInv, DescInv

\* Steps without a system call.
LEMMA SockUnchanged == SockInv /\ UNCHANGED socketVars => SockInv'
    BY DEF SockInv, socketVars, SocketsTypeOK, BufInv, DescInv

\* What clients do.
LEMMA SockClient ==
    ASSUME SockInv, NEW c \in Conns, Connect(c) \/ Send(c) \/ Leave(c)
    PROVE  SockInv'
<1> USE SocketsAssumption DEF SockInv, SocketsTypeOK, BufInv, DescInv
<1>1. CASE Connect(c)
    BY <1>1 DEF Connect
<1>2. CASE Send(c)
    BY <1>2 DEF Send
<1>3. CASE Leave(c)
    <2>1. \A d \in Conns : inbuf'[d] \in 0..MaxMsgs /\ inbuf'[d] <= sent[d]
        BY <1>3 DEF Leave
    <2>2. inbuf' \in [Conns -> 0..MaxMsgs]
        BY <1>3 DEF Leave
    <2> QED
        BY <1>3, <2>1, <2>2 DEF Leave
<1> QED
    BY <1>1, <1>2, <1>3

\* recv, of data that is there.
LEMMA SockConsume ==
    ASSUME SockInv, NEW f \in Fds, serv_read(f) = "data", Consume(f)
    PROVE  SockInv'
<1> USE SocketsAssumption DEF SockInv, SocketsTypeOK
<1>1. sock[f] \in Conns /\ inbuf[sock[f]] > 0
    BY DEF serv_read
<1>2. inbuf' \in [Conns -> 0..MaxMsgs] /\ BufInv'
    BY <1>1 DEF Consume, BufInv
<1> QED
    BY <1>2 DEF Consume, DescInv

\* close.
LEMMA SockClose ==
    ASSUME SockInv, NEW f \in Fds, CloseFd(f)
    PROVE  SockInv'
<1> USE SocketsAssumption DEF SockInv, SocketsTypeOK, BufInv
<1>1. DescInv'
    BY DEF CloseFd, DescInv
<1> QED
    BY <1>1 DEF CloseFd

\* accept, with a free descriptor: the connection gets no other.
LEMMA SockAccept ==
    ASSUME SockInv, FreeFds # {}, NEW c \in Conns, serv_accept(c, LowestFd)
    PROVE  SockInv'
<1> USE SocketsAssumption DEF SockInv, SocketsTypeOK, BufInv
<1>1. LowestFd \in Fds
    BY LowestFdIsFree
<1>2. DescInv'
    BY <1>1 DEF serv_accept, DescInv
<1> QED
    BY <1>1, <1>2 DEF serv_accept

\* accept and close at once.
LEMMA SockRefuse ==
    ASSUME SockInv, NEW c \in Conns, AcceptAndClose(c)
    PROVE  SockInv'
    BY DEF SockInv, SocketsTypeOK, BufInv, DescInv, AcceptAndClose

\* The end of the process.
LEMMA SockCloseAll == SockInv /\ CloseAll => SockInv'
    BY DEF SockInv, SocketsTypeOK, BufInv, DescInv, CloseAll
=============================================================================
