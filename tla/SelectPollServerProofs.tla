----------------------- MODULE SelectPollServerProofs -----------------------
(***************************************************************************)
(* Theorems about SelectPollServer: the table of descriptors is current,   *)
(* for any number of connections and descriptors, any size of the table    *)
(* and either multiplexer.                                                 *)
(***************************************************************************)
EXTENDS SelectPollServer, SocketsProofs

\* When the connection is accepted, what the wait marked is in the table.
ReadyInv ==
    pc = "accept" =>
        IF mux = "select"
        THEN \A f \in ready : \E i \in Slots : fds[i] = f
        ELSE \A i \in ready \cap Slots : fds[i] # -1

IInv ==
    /\ SockInv
    /\ TypeOK
    /\ ReadyInv
    /\ TableIsCurrent
    /\ SelectDisconnects

-----------------------------------------------------------------------------
\* A free slot is found if there is one.
LEMMA FirstFreeIsFree == FreeSlots # {} => FirstFree \in Slots /\ fds[FirstFree] = -1
<1> SUFFICES ASSUME FreeSlots # {}
             PROVE  FirstFree \in FreeSlots
    BY DEF FreeSlots
<1>1. FreeSlots \subseteq Nat
    BY TableAssumption DEF FreeSlots, Slots
<1>2. \E i \in FreeSlots : \A j \in FreeSlots : i <= j
    BY <1>1, LeastElement
<1> QED
    BY <1>2 DEF FirstFree

\* The inductive invariant holds at the start.
LEMMA InitIInv == Init => IInv
<1> SUFFICES ASSUME Init
             PROVE  IInv
    OBVIOUS
<1> USE SocketsAssumption, TableAssumption DEF Init
<1>1. SockInv
    BY SockInit
<1>2. TypeOK
    BY <1>1 DEF SockInv, TypeOK
<1>3. ReadyInv /\ TableIsCurrent
    BY DEF ReadyInv, TableIsCurrent
<1>4. SelectDisconnects
    BY DEF SelectDisconnects, FullMeansDisconnected, SocketsInit
<1> QED
    BY <1>1, <1>2, <1>3, <1>4 DEF IInv

\* What one turn of the loop over the slots does.
LEMMA ReadSlotCases ==
    ASSUME IInv, ReadSlot
    PROVE  /\ cursor \in Slots
           /\ \/ /\ fds[cursor] \in Fds /\ serv_read(fds[cursor]) = "data"
                 /\ Consume(fds[cursor]) /\ UNCHANGED fds
              \/ fds[cursor] \in Fds /\ Drop(cursor)
              \/ UNCHANGED <<socketVars, fds>>
           /\ cursor' = cursor + 1 /\ UNCHANGED <<mux, pc, ready>>
<1>1. cursor \in Slots /\ fds[cursor] \in Fds \cup {-1}
    BY TableAssumption DEF IInv, TypeOK, ReadSlot, LastSlot, Slots
<1>2. Marked(cursor) => fds[cursor] \in Fds
    BY <1>1 DEF Marked
<1> QED
    BY <1>1, <1>2 DEF ReadSlot

\* The servers use the system calls within their contracts.
LEMMA SockStep == IInv /\ [Next]_vars => SockInv'
<1> SUFFICES ASSUME IInv, [Next]_vars
             PROVE  SockInv'
    OBVIOUS
<1>1. CASE Clients
    BY <1>1, SockClient DEF IInv, Clients
<1>2. CASE Wait \/ RoundDone \/ AcceptFails
    BY <1>2, SockUnchanged DEF IInv, Wait, RoundDone, AcceptFails
<1>3. CASE Interrupted
    BY <1>3, SockCloseAll DEF IInv, Interrupted
<1>4. ASSUME NEW c \in Conns, AcceptIntoSlot(c) \/ AcceptFull(c)
      PROVE  SockInv'
    BY <1>4, SockAccept, SockRefuse DEF IInv, AcceptIntoSlot, AcceptFull, Refuse
<1>5. CASE ReadSlot
    BY <1>5, ReadSlotCases, SockUnchanged, SockConsume, SockClose DEF IInv, Drop
<1>6. CASE UNCHANGED vars
    BY <1>6, SockUnchanged DEF IInv, vars
<1> QED
    BY <1>1, <1>2, <1>3, <1>4, <1>5, <1>6 DEF Next, ServerStep

\* Every step preserves the types: cursor and slots stay within the table.
LEMMA TypeStep == IInv /\ [Next]_vars => TypeOK'
<1> SUFFICES ASSUME IInv, [Next]_vars
             PROVE  TypeOK'
    OBVIOUS
<1>a. SocketsTypeOK'
    BY SockStep DEF SockInv
<1>b. TypeOK
    BY DEF IInv
<1> USE TableAssumption DEF TypeOK, serverVars
<1>1. CASE Clients
    BY <1>a, <1>b, <1>1 DEF Clients
<1>2. CASE Wait
    <2>1. {fds[i] : i \in ReadySlots} \subseteq Fds /\ ReadySlots \subseteq Slots
        BY <1>b DEF ReadySlots
    <2> QED
        BY <1>a, <1>b, <1>2, <2>1 DEF Wait
<1>3. CASE RoundDone \/ AcceptFails \/ Interrupted
    BY <1>a, <1>b, <1>3 DEF RoundDone, AcceptFails, Interrupted
<1>4. ASSUME NEW c \in Conns, AcceptIntoSlot(c)
      PROVE  TypeOK'
    <2>1. LowestFd \in Fds
        BY <1>4, LowestFdIsFree DEF AcceptIntoSlot
    <2> QED
        BY <1>a, <1>b, <1>4, <2>1 DEF AcceptIntoSlot
<1>5. ASSUME NEW c \in Conns, AcceptFull(c)
      PROVE  TypeOK'
    BY <1>a, <1>b, <1>5 DEF AcceptFull
<1>6. CASE ReadSlot
    <2>1. cursor + 1 \in 1..FDS_LEN
        BY <1>6, ReadSlotCases DEF Slots
    <2>2. fds' \in [Slots -> Fds \cup {-1}]
        BY <1>b, <1>6, ReadSlotCases DEF Drop
    <2> QED
        BY <1>a, <1>b, <1>6, <2>1, <2>2 DEF ReadSlot
<1>7. CASE UNCHANGED vars
    BY <1>a, <1>b, <1>7 DEF vars
<1> QED
    BY <1>1, <1>2, <1>3, <1>4, <1>5, <1>6, <1>7 DEF Next, ServerStep

\* Only the wait itself comes before accept, and it marks what is in the table.
LEMMA ReadyStep == IInv /\ [Next]_vars => ReadyInv'
<1> SUFFICES ASSUME IInv, [Next]_vars
             PROVE  ReadyInv'
    OBVIOUS
<1>t. TypeOK /\ ReadyInv
    BY DEF IInv
<1> USE DEF ReadyInv, serverVars
<1>1. CASE Clients
    BY <1>t, <1>1 DEF Clients
<1>2. CASE Wait
    BY <1>2 DEF Wait, ReadySlots
<1>3. CASE RoundDone \/ AcceptFails \/ Interrupted \/ ReadSlot
    BY <1>3 DEF RoundDone, AcceptFails, Interrupted, ReadSlot
<1>4. ASSUME NEW c \in Conns, AcceptIntoSlot(c) \/ AcceptFull(c)
      PROVE  ReadyInv'
    BY <1>4 DEF AcceptIntoSlot, AcceptFull
<1>5. CASE UNCHANGED vars
    BY <1>t, <1>5 DEF vars
<1> QED
    BY <1>1, <1>2, <1>3, <1>4, <1>5 DEF Next, ServerStep

\* Slots and what they mark stay current: the connection accepted meanwhile
\* gets a descriptor and a slot that the wait cannot have marked, and reading
\* or closing one connection does not touch the other slots.
LEMMA TableStep == IInv /\ [Next]_vars => TableIsCurrent'
<1> SUFFICES ASSUME IInv, [Next]_vars, pc' # "failed", NEW i \in Slots, fds'[i] # -1
             PROVE  /\ sock'[fds'[i]] # None
                    /\ \A j \in Slots \ {i} : fds'[j] # fds'[i]
                    /\ pc' \in {"accept", "read"} /\ i >= cursor' /\ Marked(i)' =>
                          Readable(fds[i])'
    BY DEF TableIsCurrent
<1>t. TypeOK /\ SocketsTypeOK /\ DescInv /\ TableIsCurrent /\ ReadyInv
    BY DEF IInv, SockInv
<1>f. fds[i] \in Fds \cup {-1}
    BY <1>t DEF TypeOK
<1> USE SocketsAssumption, TableAssumption DEF TypeOK, SocketsTypeOK, serverVars, socketVars
<1>p. pc # "failed"
    BY DEF Next, Clients, ServerStep, Wait, ReadSlot, RoundDone, AcceptFails,
           AcceptIntoSlot, AcceptFull, Interrupted, vars
<1>c. fds[i] # -1 => /\ sock[fds[i]] \in Conns
                     /\ \A j \in Slots \ {i} : fds[j] # fds[i]
                     /\ pc \in {"accept", "read"} /\ i >= cursor /\ Marked(i) =>
                           Readable(fds[i])
    BY <1>t, <1>f, <1>p DEF TableIsCurrent
<1>1. CASE Clients
    <2>1. fds' = fds /\ ready' = ready /\ mux' = mux /\ pc' = pc /\ cursor' = cursor
        BY <1>1 DEF Clients
    <2>2. PICK c \in Conns : Connect(c) \/ Send(c) \/ Leave(c)
        BY <1>1 DEF Clients
    <2>3. sock' = sock
        BY <2>2 DEF Connect, Send, Leave
    <2>4. ASSUME NEW d \in Conns, inbuf[d] > 0 \/ d \in left
          PROVE  inbuf'[d] > 0 \/ d \in left'
        BY <1>t, <2>2, <2>4 DEF Connect, Send, Leave
    <2>5. Readable(fds[i]) => Readable(fds[i])'
        BY <1>c, <2>1, <2>3, <2>4 DEF Readable
    <2> QED
        BY <1>c, <2>1, <2>3, <2>5 DEF Marked
<1>2. CASE Wait
    <2>1. UNCHANGED <<sock, inbuf, left, fds, mux>>
        BY <1>2 DEF Wait
    <2>2. Marked(i)' => i \in ReadySlots
        <3>1. CASE mux = "select"
            <4>1. ready' = {fds[j] : j \in ReadySlots}
                BY <1>2, <3>1 DEF Wait
            <4> QED
                BY <1>c, <2>1, <3>1, <4>1 DEF Marked, ReadySlots
        <3>2. CASE mux # "select"
            BY <1>2, <2>1, <3>2 DEF Wait, Marked
        <3> QED
            BY <3>1, <3>2
    <2> QED
        BY <1>c, <2>1, <2>2 DEF ReadySlots, Readable
<1>3. CASE RoundDone
    BY <1>c, <1>3 DEF RoundDone
<1>4. CASE AcceptFails
    BY <1>c, <1>4 DEF AcceptFails, Marked, Readable
<1>5. CASE Interrupted
    BY <1>5 DEF Interrupted
<1>6. ASSUME NEW c \in Conns, AcceptIntoSlot(c)
      PROVE  /\ sock'[fds'[i]] # None
             /\ \A j \in Slots \ {i} : fds'[j] # fds'[i]
             /\ i >= cursor' /\ Marked(i)' => Readable(fds[i])'
    <2> DEFINE n == LowestFd
               k == FirstFree
    <2>1. n \in Fds /\ sock[n] = None /\ k \in Slots /\ fds[k] = -1
        BY <1>6, LowestFdIsFree, FirstFreeIsFree DEF AcceptIntoSlot
    <2>2. \A j \in Slots : fds[j] # n
        BY <1>t, <1>p, <2>1 DEF TableIsCurrent, Fds
    <2>3. /\ sock' = [sock EXCEPT ![n] = c] /\ fds' = [fds EXCEPT ![k] = n]
          /\ UNCHANGED <<inbuf, left, mux, ready, cursor>> /\ pc = "accept"
        BY <1>6 DEF AcceptIntoSlot, serv_accept
    <2> HIDE DEF n, k
    <2>4. CASE i = k
        <3>1. fds'[i] = n /\ sock'[n] = c
            BY <1>t, <2>1, <2>3, <2>4
        <3>2. \A j \in Slots \ {i} : fds'[j] # n
            BY <1>t, <2>2, <2>3, <2>4
        <3>3. ~Marked(i)'
            BY <1>t, <2>1, <2>2, <2>3, <2>4, <3>1 DEF Marked, ReadyInv
        <3> QED
            BY <3>1, <3>2, <3>3
    <2>5. CASE i # k
        <3>1. fds'[i] = fds[i] /\ fds[i] # n /\ sock'[fds[i]] = sock[fds[i]]
            BY <1>t, <1>c, <1>f, <2>1, <2>2, <2>3, <2>5
        <3>2. \A j \in Slots \ {i} : fds'[j] # fds[i]
            BY <1>t, <1>c, <2>1, <2>3, <3>1
        <3>3. Marked(i)' => Marked(i)
            BY <2>3, <3>1 DEF Marked
        <3> QED
            BY <1>c, <2>3, <3>1, <3>2, <3>3 DEF Readable
    <2> QED
        BY <2>4, <2>5
<1>7. ASSUME NEW c \in Conns, AcceptFull(c)
      PROVE  /\ sock'[fds'[i]] # None
             /\ \A j \in Slots \ {i} : fds'[j] # fds'[i]
             /\ i >= cursor' /\ Marked(i)' => Readable(fds[i])'
    <2>1. UNCHANGED <<inbuf, left, mux, ready, cursor, fds>> /\ pc = "accept"
        BY <1>7 DEF AcceptFull, Refuse, serv_accept, AcceptAndClose
    <2>2. LowestFd \in Fds /\ sock[LowestFd] = None
        BY <1>7, LowestFdIsFree DEF AcceptFull
    <2>3. sock' = sock \/ sock' = [sock EXCEPT ![LowestFd] = c]
        BY <1>7 DEF AcceptFull, Refuse, serv_accept, AcceptAndClose
    <2>4. sock'[fds[i]] = sock[fds[i]]
        BY <1>t, <1>c, <1>f, <2>1, <2>2, <2>3
    <2> QED
        BY <1>c, <2>1, <2>4 DEF Marked, Readable
<1>8. CASE ReadSlot
    <2>1. /\ cursor \in Slots /\ cursor' = cursor + 1
          /\ UNCHANGED <<mux, pc, ready>> /\ pc = "read"
        BY <1>8, ReadSlotCases DEF ReadSlot
    <2>2. CASE UNCHANGED <<socketVars, fds>>
        BY <1>c, <2>1, <2>2 DEF Slots, Marked, Readable
    <2>3. CASE /\ fds[cursor] \in Fds /\ serv_read(fds[cursor]) = "data"
               /\ Consume(fds[cursor]) /\ UNCHANGED fds
        <3>1. UNCHANGED <<sock, left, fds>>
            BY <2>3 DEF Consume
        <3>2. i >= cursor' => i # cursor /\ i >= cursor
            BY <2>1 DEF Slots
        <3>3. i # cursor => sock[fds[i]] # sock[fds[cursor]]
            BY <1>t, <1>c, <1>f, <2>1, <2>3, <3>1 DEF DescInv
        <3>4. i # cursor => inbuf'[sock[fds[i]]] = inbuf[sock[fds[i]]]
            BY <1>t, <1>c, <2>3, <3>1, <3>3 DEF Consume
        <3> QED
            BY <1>c, <2>1, <3>1, <3>2, <3>4 DEF Marked, Readable
    <2>4. CASE fds[cursor] \in Fds /\ Drop(cursor)
        <3>1. /\ sock' = [sock EXCEPT ![fds[cursor]] = None]
              /\ fds' = [fds EXCEPT ![cursor] = -1]
              /\ UNCHANGED <<inbuf, left>>
            BY <2>4 DEF Drop, CloseFd
        <3>2. i # cursor /\ fds'[i] = fds[i]
            BY <1>t, <2>1, <3>1
        <3>3. sock'[fds[i]] = sock[fds[i]]
            BY <1>t, <1>c, <1>f, <2>1, <3>1, <3>2
        <3>4. \A j \in Slots \ {i} : fds'[j] # fds[i]
            BY <1>t, <1>c, <1>f, <2>1, <3>1, <3>2
        <3>5. i >= cursor' => i >= cursor
            BY <2>1 DEF Slots
        <3> QED
            BY <1>c, <2>1, <3>1, <3>2, <3>3, <3>4, <3>5 DEF Marked, Readable
    <2> QED
        BY <1>8, <2>2, <2>3, <2>4, ReadSlotCases
<1>9. CASE UNCHANGED vars
    BY <1>c, <1>9 DEF vars, Marked, Readable
<1> QED
    BY <1>1, <1>2, <1>3, <1>4, <1>5, <1>6, <1>7, <1>8, <1>9 DEF Next, ServerStep

\* select: a connection is opened into a slot or closed at once, and the slot
\* that is reset is the one whose connection is closed.
LEMMA SelectStep == IInv /\ [Next]_vars => SelectDisconnects'
<1> SUFFICES ASSUME IInv, [Next]_vars, mux' = "select", pc' # "failed",
                    NEW d \in Conns, conn'[d] = "open"
             PROVE  \E i \in Slots : fds'[i] # -1 /\ sock'[fds'[i]] = d
    BY DEF SelectDisconnects, FullMeansDisconnected, Kept
<1>t. TypeOK /\ SocketsTypeOK /\ DescInv /\ TableIsCurrent
    BY DEF IInv, SockInv
<1> USE SocketsAssumption, TableAssumption DEF TypeOK, SocketsTypeOK, serverVars, socketVars
<1>p. pc # "failed" /\ mux = "select"
    BY DEF Next, Clients, ServerStep, Wait, ReadSlot, RoundDone, AcceptFails,
           AcceptIntoSlot, AcceptFull, Interrupted, vars
<1>c. conn[d] = "open" => \E i \in Slots : fds[i] # -1 /\ sock[fds[i]] = d
    BY <1>p DEF IInv, SelectDisconnects, FullMeansDisconnected, Kept
<1>1. CASE Clients
    <2>1. UNCHANGED <<fds, sock>> /\ conn[d] = "open"
        BY <1>t, <1>1 DEF Clients, Connect, Send, Leave
    <2> QED
        BY <1>c, <2>1
<1>2. CASE Wait \/ RoundDone \/ AcceptFails \/ UNCHANGED vars
    <2>1. UNCHANGED <<fds, sock, conn>>
        BY <1>2 DEF Wait, RoundDone, AcceptFails, vars
    <2> QED
        BY <1>c, <2>1
<1>3. CASE Interrupted
    BY <1>3 DEF Interrupted
<1>4. ASSUME NEW c \in Conns, AcceptIntoSlot(c)
      PROVE  \E i \in Slots : fds'[i] # -1 /\ sock'[fds'[i]] = d
    <2> DEFINE n == LowestFd
               k == FirstFree
    <2>1. n \in Fds /\ sock[n] = None /\ k \in Slots /\ fds[k] = -1
        BY <1>4, LowestFdIsFree, FirstFreeIsFree DEF AcceptIntoSlot
    <2>2. /\ sock' = [sock EXCEPT ![n] = c] /\ fds' = [fds EXCEPT ![k] = n]
          /\ conn' = [conn EXCEPT ![c] = "open"]
        BY <1>4 DEF AcceptIntoSlot, serv_accept
    <2> HIDE DEF n, k
    <2>3. CASE d = c
        <3>1. fds'[k] = n /\ n # -1 /\ sock'[n] = c
            BY <1>t, <2>1, <2>2 DEF Fds
        <3> QED
            BY <2>1, <2>3, <3>1
    <2>4. CASE d # c
        <3>1. PICK i \in Slots : fds[i] # -1 /\ sock[fds[i]] = d
            BY <1>t, <1>c, <2>2, <2>4
        <3>2. fds[i] \in Fds /\ fds[i] # n /\ i # k
            BY <1>t, <2>1, <3>1
        <3>3. fds'[i] = fds[i] /\ sock'[fds[i]] = d
            BY <1>t, <2>1, <2>2, <3>1, <3>2
        <3> QED
            BY <3>1, <3>3
    <2> QED
        BY <2>3, <2>4
<1>5. ASSUME NEW c \in Conns, AcceptFull(c)
      PROVE  \E i \in Slots : fds'[i] # -1 /\ sock'[fds'[i]] = d
    <2>1. UNCHANGED <<fds, sock>> /\ conn[d] = "open"
        BY <1>t, <1>p, <1>5 DEF AcceptFull, Refuse, AcceptAndClose
    <2> QED
        BY <1>c, <2>1
<1>6. CASE ReadSlot
    <2>1. CASE UNCHANGED <<socketVars, fds>>
        BY <1>c, <2>1
    <2>2. CASE Consume(fds[cursor]) /\ UNCHANGED fds
        BY <1>c, <2>2 DEF Consume
    <2>3. CASE cursor \in Slots /\ fds[cursor] \in Fds /\ Drop(cursor)
        <3>1. /\ sock' = [sock EXCEPT ![fds[cursor]] = None]
              /\ fds' = [fds EXCEPT ![cursor] = -1]
              /\ conn[d] = "open" /\ sock[fds[cursor]] # d
            BY <1>t, <2>3 DEF Drop, CloseFd
        <3>2. PICK i \in Slots : fds[i] # -1 /\ sock[fds[i]] = d
            BY <1>c, <3>1
        <3>3. fds[i] \in Fds /\ fds[i] # fds[cursor] /\ i # cursor
            BY <1>t, <3>1, <3>2
        <3>4. fds'[i] = fds[i] /\ sock'[fds[i]] = d
            BY <1>t, <2>3, <3>1, <3>2, <3>3
        <3> QED
            BY <3>2, <3>4
    <2> QED
        BY <1>6, <2>1, <2>2, <2>3, ReadSlotCases
<1> QED
    BY <1>1, <1>2, <1>3, <1>4, <1>5, <1>6 DEF Next, ServerStep

\* The inductive invariant holds in every state.
LEMMA IInvAlways == Spec => []IInv
<1>1. IInv /\ [Next]_vars => IInv'
    BY SockStep, TypeStep, ReadyStep, TableStep, SelectStep DEF IInv
<1> QED
    BY <1>1, InitIInv, PTL DEF Spec

-----------------------------------------------------------------------------
\* The variables have their types; serv_select and serv_poll use no slot past
\* the end of the table (SELECT_FDS_LEN, POLL_FDS_LEN) for any size of it.
THEOREM TypeCorrect == Spec => []TypeOK
<1>1. IInv => TypeOK
    BY DEF IInv
<1> QED
    BY <1>1, IInvAlways, PTL

\* Every slot of serv_select's and serv_poll's table is one open connection of
\* its own, and a slot that the wait marked is readable when the loop reaches
\* it, in spite of the accept in between.
THEOREM TableStaysCurrent == Spec => []TableIsCurrent
<1>1. IInv => TableIsCurrent
    BY DEF IInv
<1> QED
    BY <1>1, IInvAlways, PTL

\* serv_select watches every connection it has open: one that finds the table
\* full is closed.
THEOREM SelectKeepsItsWord == Spec => []SelectDisconnects
<1>1. IInv => SelectDisconnects
    BY DEF IInv
<1> QED
    BY <1>1, IInvAlways, PTL
=============================================================================
