------------------------- MODULE EpollServerProofs -------------------------
(***************************************************************************)
(* Theorems about EpollServer: what the pool's threads may do to a         *)
(* connection, to epoll and to ep_fds, for any number of connections,      *)
(* descriptors, threads, tasks and signals and either trigger type.        *)
(***************************************************************************)
EXTENDS EpollServer, SocketsProofs

\* A thread that is not idle has a descriptor.
TfdInv == \A t \in Threads : tpc[t] # "idle" => tfd[t] \in Fds

\* What epoll watches is open.
RegInv == ~Ended => \A f \in reg : sock[f] # None

\* Between accept and the lock a descriptor is in nobody else's hands, unless
\* it was when it was accepted.
AddInv ==
    mainPc = "add" /\ reused = {} =>
        ~Named(newFd) /\ newFd \notin ep_fds /\ sock[newFd] # None

\* A thread that is going to close its descriptor read the end of the very
\* connection it will close, or its number has been given to another one.
CloseInv ==
    \A t \in Threads :
        tpc[t] = "close" => sock[tfd[t]] \in {None} \cup left \cup reused

IInv ==
    /\ SockInv
    /\ TypeOK
    /\ TfdInv
    /\ RegInv
    /\ AddInv
    /\ CloseInv
    /\ RegisteredIsKnown
    /\ NoGhostDescriptor

-----------------------------------------------------------------------------
\* The inductive invariant holds at the start.
LEMMA InitIInv == Init => IInv
<1> SUFFICES ASSUME Init
             PROVE  IInv
    OBVIOUS
<1> USE SocketsAssumption, EpollAssumption DEF Init
<1>1. SockInv
    BY SockInit
<1>2. TypeOK
    BY <1>1 DEF SockInv, TypeOK
<1>3. TfdInv /\ RegInv /\ AddInv /\ CloseInv /\ RegisteredIsKnown /\ NoGhostDescriptor
    BY DEF TfdInv, RegInv, AddInv, CloseInv, RegisteredIsKnown, NoGhostDescriptor
<1> QED
    BY <1>1, <1>2, <1>3 DEF IInv

\* The system calls are made as Sockets expects.
LEMMA SockStep == IInv /\ [Next]_vars => SockInv'
<1> SUFFICES ASSUME IInv, [Next]_vars
             PROVE  SockInv'
    OBVIOUS
<1>1. CASE Client
    BY <1>1, SockClient DEF IInv, Client
<1>2. CASE Interrupted \/ Exit
    BY <1>2, SockCloseAll DEF IInv, Interrupted, Exit
<1>3. ASSUME NEW s \in Signals, Signal(s)
      PROVE  SockInv'
    BY <1>3, SockUnchanged DEF IInv, Signal
<1>4. CASE TestRunning \/ Timeout \/ EpollWait \/ AcceptFails \/ AddFd
    BY <1>4, SockUnchanged DEF IInv, TestRunning, Timeout, EpollWait, AcceptFails, AddFd
<1>5. CASE AddFull
    BY <1>5, SockClose DEF IInv, TypeOK, AddFull, Close
<1>6. ASSUME NEW c \in Conns, Accept(c)
      PROVE  SockInv'
    BY <1>6, SockAccept DEF IInv, Accept
<1>7. ASSUME NEW e \in Fds \cup {Sig}, Dispatch(e)
      PROVE  SockInv'
    BY <1>7, SockUnchanged DEF IInv, Dispatch
<1>8. ASSUME NEW t \in Threads, SigTask(t) \/ MsgTask(t)
      PROVE  SockInv'
    BY <1>8, SockUnchanged DEF IInv, SigTask, MsgTask
<1>9. ASSUME NEW t \in Threads, Read(t)
      PROVE  SockInv'
    <2>1. tfd[t] \in Fds
        BY <1>9 DEF IInv, TfdInv, Read
    <2>2. CASE serv_read(tfd[t]) = "data"
        BY <1>9, <2>1, <2>2, SockConsume DEF IInv, Read
    <2>3. CASE serv_read(tfd[t]) # "data"
        BY <1>9, <2>3, SockUnchanged DEF IInv, Read
    <2> QED
        BY <2>2, <2>3
<1>10. ASSUME NEW t \in Threads, CloseTask(t)
       PROVE  SockInv'
    BY <1>10, SockClose DEF IInv, TfdInv, CloseTask, Close
<1>11. ASSUME NEW t \in Threads, Dereg(t)
       PROVE  SockInv'
    BY <1>11, SockUnchanged, SockCloseAll DEF IInv, Dereg
<1>12. CASE UNCHANGED vars
    BY <1>12, SockUnchanged DEF IInv, vars
<1> QED
    BY <1>1, <1>2, <1>3, <1>4, <1>5, <1>6, <1>7, <1>8, <1>9, <1>10, <1>11, <1>12
       DEF Next, MainStep, ThreadStep

\* Every step keeps the types.
LEMMA TypeStep == IInv /\ [Next]_vars => TypeOK'
<1> SUFFICES ASSUME IInv, [Next]_vars
             PROVE  TypeOK'
    OBVIOUS
<1>a. SocketsTypeOK'
    BY SockStep DEF SockInv
<1>b. None \notin Fds
    BY SocketsAssumption DEF Fds
<1>c. TypeOK /\ TfdInv
    BY DEF IInv
<1> USE EpollAssumption DEF TypeOK, sigVars, mainVars, poolVars, epollVars
<1>1. CASE Client
    BY <1>a, <1>c, <1>1 DEF Client, Edges
<1>2. CASE Interrupted \/ Exit
    <2>1. CASE Interrupted
        BY <1>a, <1>c, <2>1 DEF Interrupted
    <2>2. CASE Exit
        BY <1>a, <1>c, <2>2 DEF Exit
    <2> QED
        BY <1>2, <2>1, <2>2
<1>3. ASSUME NEW s \in Signals, Signal(s)
      PROVE  TypeOK'
    BY <1>a, <1>c, <1>3 DEF Signal
<1>4. CASE TestRunning \/ Timeout
    BY <1>a, <1>c, <1>4 DEF TestRunning, Timeout
<1>5. CASE EpollWait
    <2>1. Ready \subseteq Fds \cup {Listen, Sig}
        BY <1>c DEF Ready
    <2> QED
        BY <1>a, <1>c, <1>5, <2>1 DEF EpollWait
<1>6. ASSUME NEW c \in Conns, Accept(c)
      PROVE  TypeOK'
    <2>1. LowestFd \in Fds
        BY <1>6, LowestFdIsFree DEF Accept
    <2> QED
        BY <1>a, <1>b, <1>c, <1>6, <2>1 DEF Accept
<1>7. CASE AcceptFails
    BY <1>a, <1>c, <1>7 DEF AcceptFails
<1>8. CASE AddFd
    BY <1>a, <1>c, <1>8 DEF AddFd
<1>9. CASE AddFull
    BY <1>a, <1>c, <1>9 DEF AddFull, Close
<1>10. ASSUME NEW e \in Fds \cup {Sig}, Dispatch(e)
       PROVE  TypeOK'
    BY <1>a, <1>c, <1>10 DEF Dispatch
<1>11. ASSUME NEW t \in Threads, SigTask(t)
       PROVE  TypeOK'
    BY <1>a, <1>c, <1>11 DEF SigTask
<1>12. ASSUME NEW t \in Threads, MsgTask(t)
       PROVE  TypeOK'
    <2>1. Head(tasks) \in Fds /\ Tail(tasks) \in Seq(Fds \cup {Sig})
        BY <1>c, <1>12 DEF MsgTask
    <2> QED
        BY <1>a, <1>c, <1>12, <2>1 DEF MsgTask
<1>13. ASSUME NEW t \in Threads, Read(t)
       PROVE  TypeOK'
    <2> DEFINE r == serv_read(tfd[t])
    <2>1. r \in {"data", "again", "end"}
        BY DEF serv_read
    <2>2. AfterRead(t, r) \in {"idle", "read", "close"}
        BY <2>1 DEF AfterRead
    <2> QED
        BY <1>a, <1>c, <1>13, <2>2 DEF Read
<1>14. ASSUME NEW t \in Threads, CloseTask(t)
       PROVE  TypeOK'
    BY <1>a, <1>c, <1>14 DEF CloseTask, Close
<1>15. ASSUME NEW t \in Threads, Dereg(t)
       PROVE  TypeOK'
    BY <1>a, <1>c, <1>15 DEF Dereg, Deregister
<1>16. CASE UNCHANGED vars
    BY <1>a, <1>c, <1>16 DEF vars
<1> QED
    BY <1>1, <1>2, <1>3, <1>4, <1>5, <1>6, <1>7, <1>8, <1>9, <1>10, <1>11, <1>12,
       <1>13, <1>14, <1>15, <1>16 DEF Next, MainStep, ThreadStep

-----------------------------------------------------------------------------
\* What is behind a descriptor changes only by accept, for a descriptor that
\* was free, by close, and by the end of the process.
LEMMA SockFrame ==
    ASSUME IInv, [Next]_vars
    PROVE  \/ UNCHANGED sock
           \/ \E c \in Conns : Accept(c)
           \/ AddFull \/ (\E t \in Threads : CloseTask(t))
           \/ mainPc' \in {"exited", "failed", "crashed"}
<1> USE DEF socketVars, sigVars, mainVars, poolVars, epollVars
<1>1. CASE Client
    BY <1>1 DEF Client, Connect, Send, Leave
<1>2. CASE Interrupted \/ Exit
    BY <1>2 DEF Interrupted, Exit
<1>3. ASSUME NEW s \in Signals, Signal(s)
      PROVE  UNCHANGED sock
    BY <1>3 DEF Signal
<1>4. CASE TestRunning \/ Timeout \/ EpollWait \/ AcceptFails \/ AddFd
    BY <1>4 DEF TestRunning, Timeout, EpollWait, AcceptFails, AddFd
<1>5. ASSUME NEW e \in Fds \cup {Sig}, Dispatch(e)
      PROVE  UNCHANGED sock
    BY <1>5 DEF Dispatch
<1>6. ASSUME NEW t \in Threads, SigTask(t) \/ MsgTask(t) \/ Read(t)
      PROVE  UNCHANGED sock
    BY <1>6 DEF SigTask, MsgTask, Read, Consume
<1>7. ASSUME NEW t \in Threads, Dereg(t)
      PROVE  UNCHANGED sock \/ mainPc' = "crashed"
    BY <1>7 DEF Dereg
<1>8. CASE UNCHANGED vars
    BY <1>8 DEF vars
<1> QED
    BY <1>1, <1>2, <1>3, <1>4, <1>5, <1>6, <1>7, <1>8 DEF Next, MainStep, ThreadStep

\* A thread gets its descriptor from a task and keeps it until it is idle.
LEMMA ThreadFrame ==
    ASSUME IInv, [Next]_vars, NEW t \in Threads
    PROVE  \/ tpc'[t] = tpc[t] /\ tfd'[t] = tfd[t]
           \/ tpc'[t] = "idle"
           \/ MsgTask(t) /\ tpc'[t] = "read" /\ tfd'[t] \in Fds /\ tfd'[t] = Head(tasks)
           \/ Read(t) /\ tpc'[t] \in {"read", "close"} /\ tfd'[t] = tfd[t]
           \/ CloseTask(t) /\ tpc'[t] = "dereg" /\ tfd'[t] = tfd[t]
<1>t. TypeOK
    BY DEF IInv
<1> USE DEF TypeOK, socketVars, sigVars, mainVars, poolVars, epollVars
<1>1. CASE Client \/ Interrupted \/ \E s \in Signals : Signal(s)
    BY <1>1 DEF Client, Interrupted, Signal
<1>2. CASE MainStep
    BY <1>2 DEF MainStep, TestRunning, Timeout, EpollWait, Exit, AcceptFails, AddFd,
                AddFull, Accept, Dispatch
<1>3. ASSUME NEW u \in Threads, SigTask(u)
      PROVE  tpc'[t] = tpc[t] /\ tfd'[t] = tfd[t]
    BY <1>3 DEF SigTask
<1>4. ASSUME NEW u \in Threads, MsgTask(u)
      PROVE  \/ tpc'[t] = tpc[t] /\ tfd'[t] = tfd[t]
             \/ u = t /\ tpc'[t] = "read" /\ tfd'[t] \in Fds /\ tfd'[t] = Head(tasks)
    <2>1. Head(tasks) \in Fds
        BY <1>t, <1>4 DEF MsgTask
    <2> QED
        BY <1>t, <1>4, <2>1 DEF MsgTask
<1>5. ASSUME NEW u \in Threads, Read(u)
      PROVE  \/ tpc'[t] = tpc[t] /\ tfd'[t] = tfd[t]
             \/ tpc'[t] = "idle"
             \/ u = t /\ tpc'[t] \in {"read", "close"} /\ tfd'[t] = tfd[t]
    <2> DEFINE r == serv_read(tfd[u])
    <2>1. AfterRead(u, r) \in {"idle", "read", "close"}
        BY DEF AfterRead, serv_read
    <2> QED
        BY <1>t, <1>5, <2>1 DEF Read
<1>6. ASSUME NEW u \in Threads, CloseTask(u)
      PROVE  \/ tpc'[t] = tpc[t] /\ tfd'[t] = tfd[t]
             \/ u = t /\ tpc'[t] = "dereg" /\ tfd'[t] = tfd[t]
    BY <1>t, <1>6 DEF CloseTask
<1>7. ASSUME NEW u \in Threads, Dereg(u)
      PROVE  (tpc'[t] = tpc[t] /\ tfd'[t] = tfd[t]) \/ tpc'[t] = "idle"
    BY <1>t, <1>7 DEF Dereg
<1>8. CASE UNCHANGED vars
    BY <1>8 DEF vars
<1> QED
    BY <1>1, <1>2, <1>3, <1>4, <1>5, <1>6, <1>7, <1>8 DEF Next, ThreadStep

\* A thread gets its descriptor from the task that it takes.
LEMMA TfdStep == IInv /\ [Next]_vars => TfdInv'
<1> SUFFICES ASSUME IInv, [Next]_vars, NEW t \in Threads, tpc'[t] # "idle"
             PROVE  tfd'[t] \in Fds
    BY DEF TfdInv
<1>1. TfdInv
    BY DEF IInv
<1>2. MsgTask(t) \/ Read(t) \/ CloseTask(t) \/ tpc'[t] = tpc[t]
    BY ThreadFrame
<1> QED
    BY <1>1, ThreadFrame DEF TfdInv, Read, CloseTask

\* left and reused only grow.
LEMMA HistoryGrows ==
    ASSUME [Next]_vars
    PROVE  left \subseteq left' /\ reused \subseteq reused'
<1> USE DEF socketVars, sigVars, mainVars, poolVars, epollVars
<1>1. CASE Client \/ Interrupted \/ \E s \in Signals : Signal(s)
    BY <1>1 DEF Client, Interrupted, Signal, Connect, Send, Leave, CloseAll
<1>2. CASE MainStep
    BY <1>2 DEF MainStep, TestRunning, Timeout, EpollWait, Exit, AcceptFails, AddFd,
                AddFull, Accept, Dispatch, Close, CloseFd, CloseAll, serv_accept
<1>3. ASSUME NEW t \in Threads, ThreadStep(t) \/ Dereg(t)
      PROVE  left \subseteq left' /\ reused \subseteq reused'
    BY <1>3 DEF ThreadStep, SigTask, MsgTask, Read, CloseTask, Dereg, Consume, Close,
                CloseFd, CloseAll
<1>4. CASE UNCHANGED vars
    BY <1>4 DEF vars
<1> QED
    BY <1>1, <1>2, <1>3, <1>4 DEF Next

\* A descriptor that is closed and accepted again while a thread is about to
\* close it was named by that thread.
LEMMA CloseInvStep == IInv /\ [Next]_vars => CloseInv'
<1> SUFFICES ASSUME IInv, [Next]_vars, NEW t \in Threads, tpc'[t] = "close"
             PROVE  sock'[tfd'[t]] \in {None} \cup left' \cup reused'
    BY DEF CloseInv
<1>t. TypeOK /\ SocketsTypeOK /\ TfdInv /\ CloseInv
    BY DEF IInv, SockInv
<1> DEFINE f == tfd[t]
<1>1. f \in Fds /\ tfd'[t] = f /\ tpc[t] # "idle"
    BY <1>t, ThreadFrame DEF TfdInv, Read
<1>2. sock[f] \in {None} \cup left \cup reused
    <2>1. CASE tpc[t] = "close"
        BY <1>t, <2>1 DEF CloseInv
    <2>2. CASE Read(t)
        <3>1. AfterRead(t, serv_read(f)) = "close"
            BY <1>t, <2>2 DEF Read, TypeOK
        <3>2. serv_read(f) = "end"
            BY <3>1 DEF AfterRead, serv_read
        <3> QED
            BY <3>2 DEF serv_read
    <2> QED
        BY <2>1, <2>2, ThreadFrame
<1>3. CASE UNCHANGED sock
    BY <1>1, <1>2, <1>3, HistoryGrows
<1>4. ASSUME NEW c \in Conns, Accept(c)
      PROVE  sock'[f] \in {None} \cup left' \cup reused'
    <2>1. CASE f = LowestFd
        <3>1. Named(f)
            BY <1>1 DEF Named
        <3>2. c \in reused' /\ sock' = [sock EXCEPT ![f] = c]
            BY <1>4, <2>1, <3>1 DEF Accept, serv_accept
        <3> QED
            BY <1>t, <1>1, <3>2 DEF SocketsTypeOK
    <2>2. CASE f # LowestFd
        BY <1>t, <1>1, <1>2, <1>4, <2>2, HistoryGrows DEF Accept, serv_accept, SocketsTypeOK
    <2> QED
        BY <2>1, <2>2
<1>5. ASSUME NEW g, CloseFd(g)
      PROVE  sock'[f] \in {None} \cup left' \cup reused'
    BY <1>t, <1>1, <1>2, <1>5, HistoryGrows DEF CloseFd, SocketsTypeOK
<1>6. ASSUME CloseAll
      PROVE  sock'[f] \in {None} \cup left' \cup reused'
    BY <1>1, <1>6 DEF CloseAll
<1>7. CASE AddFull \/ \E u \in Threads : CloseTask(u)
    BY <1>1, <1>5, <1>7 DEF AddFull, CloseTask, Close
<1>8. CASE mainPc' \in {"exited", "failed", "crashed"}
    <2>1. UNCHANGED sock \/ CloseAll
        <3> USE DEF socketVars, sigVars, mainVars, poolVars, epollVars
        <3>1. CASE MainStep
            BY <1>8, <3>1 DEF MainStep, TestRunning, Timeout, EpollWait, Exit, AcceptFails,
                              AddFd, AddFull, Accept, Dispatch
        <3>2. ASSUME NEW u \in Threads, ThreadStep(u), ~Ended
              PROVE  FALSE
            BY <1>8, <3>2 DEF ThreadStep, SigTask, MsgTask, Read, CloseTask, Ended
        <3>3. ASSUME NEW u \in Threads, Dereg(u)
              PROVE  UNCHANGED sock \/ CloseAll
            BY <3>3 DEF Dereg
        <3>4. CASE ~Ended /\ (Client \/ Interrupted \/ \E s \in Signals : Signal(s))
            BY <1>8, <3>4 DEF Client, Interrupted, Signal, Ended
        <3>5. CASE UNCHANGED vars
            BY <3>5 DEF vars
        <3> QED
            BY <3>1, <3>2, <3>3, <3>4, <3>5 DEF Next
    <2> QED
        BY <1>1, <1>3, <1>6, <2>1
<1> QED
    BY <1>1, <1>3, <1>4, <1>7, <1>8, SockFrame

-----------------------------------------------------------------------------
\* What epoll watches and what is in ep_fds changes only by these steps.
LEMMA EpollFrame ==
    ASSUME [Next]_vars
    PROVE  \/ UNCHANGED <<reg, ep_fds>>
           \/ AddFd \/ AddFull
           \/ \E t \in Threads : CloseTask(t) \/ Dereg(t)
<1> USE DEF socketVars, sigVars, mainVars, poolVars, epollVars
<1>1. CASE Client \/ Interrupted \/ \E s \in Signals : Signal(s)
    BY <1>1 DEF Client, Interrupted, Signal
<1>2. CASE MainStep
    BY <1>2 DEF MainStep, TestRunning, Timeout, EpollWait, Exit, AcceptFails, Accept,
                Dispatch
<1>3. ASSUME NEW t \in Threads, ThreadStep(t)
      PROVE  UNCHANGED <<reg, ep_fds>> \/ CloseTask(t)
    BY <1>3 DEF ThreadStep, SigTask, MsgTask, Read
<1>4. CASE UNCHANGED vars
    BY <1>4 DEF vars
<1> QED
    BY <1>1, <1>2, <1>3, <1>4 DEF Next

\* Registration and entry in ep_fds come and go together, or epoll goes first.
LEMMA KnownStep == IInv /\ [Next]_vars => RegisteredIsKnown'
<1> SUFFICES ASSUME IInv, [Next]_vars
             PROVE  RegisteredIsKnown'
    OBVIOUS
<1> USE DEF IInv, RegisteredIsKnown
<1>1. CASE UNCHANGED <<reg, ep_fds>>
    BY <1>1
<1>2. CASE AddFd \/ AddFull
    BY <1>2 DEF AddFd, AddFull, Close
<1>3. ASSUME NEW t \in Threads, CloseTask(t) \/ Dereg(t)
      PROVE  RegisteredIsKnown'
    BY <1>3 DEF CloseTask, Close, Dereg, Deregister
<1> QED
    BY <1>1, <1>2, <1>3, EpollFrame

\* close withdraws a descriptor from epoll, so what stays registered is open.
LEMMA RegStep == IInv /\ [Next]_vars => RegInv'
<1> SUFFICES ASSUME IInv, [Next]_vars, ~Ended', NEW f \in reg'
             PROVE  sock'[f] # None
    BY DEF RegInv
<1>t. TypeOK /\ SocketsTypeOK /\ RegInv /\ TfdInv /\ ~Ended
    BY DEF IInv, SockInv, Next, Ended, vars, mainVars
<1>1. CASE UNCHANGED <<reg, ep_fds>>
    <2>1. f \in reg /\ f \in Fds /\ sock[f] # None
        BY <1>t, <1>1 DEF RegInv, TypeOK
    <2>2. CASE UNCHANGED sock
        BY <2>1, <2>2
    <2>3. ASSUME NEW c \in Conns, Accept(c)
          PROVE  sock'[f] # None
        BY <1>t, <2>1, <2>3, SocketsAssumption DEF Accept, serv_accept, SocketsTypeOK
    <2>4. CASE AddFull \/ \E t \in Threads : CloseTask(t)
        BY <1>t, <1>1, <2>4
           DEF AddFull, CloseTask, Close, CloseFd, TypeOK, SocketsTypeOK, RegInv
    <2> QED
        BY <2>2, <2>3, <2>4, SockFrame DEF Ended
<1>2. CASE AddFd
    BY <1>t, <1>2 DEF AddFd, socketVars, RegInv
<1>3. ASSUME NEW g, CloseFd(g), reg' = reg \ {g}
      PROVE  sock'[f] # None
    <2>1. f \in Fds /\ sock[f] # None /\ f # g
        BY <1>t, <1>3 DEF RegInv, TypeOK
    <2> QED
        BY <1>t, <1>3, <2>1 DEF CloseFd, SocketsTypeOK
<1>4. CASE AddFull \/ \E t \in Threads : CloseTask(t)
    BY <1>3, <1>4 DEF AddFull, CloseTask, Close
<1>5. ASSUME NEW t \in Threads, Dereg(t)
      PROVE  sock'[f] # None
    BY <1>t, <1>5 DEF Dereg, Deregister, RegInv, socketVars, Ended
<1> QED
    BY <1>1, <1>2, <1>4, <1>5, EpollFrame

\* While a descriptor waits for the lock nobody begins to name it.
LEMMA NamedFrame ==
    ASSUME IInv, [Next]_vars, mainPc = "add", mainPc' = "add"
    PROVE  /\ newFd' = newFd /\ reused' = reused
           /\ \A f \in Fds : Named(f)' => Named(f)
<1>t. TypeOK /\ TfdInv
    BY DEF IInv
<1>1. newFd' = newFd /\ reused' = reused /\ events' = events
    <2> USE DEF socketVars, sigVars, mainVars, poolVars, epollVars
    <2>1. CASE Client \/ Interrupted \/ \E s \in Signals : Signal(s)
        BY <2>1 DEF Client, Interrupted, Signal
    <2>2. ~MainStep
        BY DEF MainStep, TestRunning, Timeout, EpollWait, Exit, AcceptFails, AddFd,
               AddFull, Accept, Dispatch
    <2>3. ASSUME NEW t \in Threads, ThreadStep(t) \/ Dereg(t)
          PROVE  newFd' = newFd /\ reused' = reused /\ events' = events
        BY <2>3 DEF ThreadStep, SigTask, MsgTask, Read, CloseTask, Dereg
    <2>4. CASE UNCHANGED vars
        BY <2>4 DEF vars
    <2> QED
        BY <2>1, <2>2, <2>3, <2>4 DEF Next
<1>2. tasks' = tasks \/ (tasks # <<>> /\ tasks' = Tail(tasks))
    <2> USE DEF socketVars, sigVars, mainVars, poolVars, epollVars
    <2>1. CASE Client \/ Interrupted \/ \E s \in Signals : Signal(s)
        BY <2>1 DEF Client, Interrupted, Signal
    <2>2. ~MainStep
        BY DEF MainStep, TestRunning, Timeout, EpollWait, Exit, AcceptFails, AddFd,
               AddFull, Accept, Dispatch
    <2>3. ASSUME NEW t \in Threads, ThreadStep(t) \/ Dereg(t)
          PROVE  tasks' = tasks \/ (tasks # <<>> /\ tasks' = Tail(tasks))
        BY <2>3 DEF ThreadStep, SigTask, MsgTask, Read, CloseTask, Dereg
    <2>4. CASE UNCHANGED vars
        BY <2>4 DEF vars
    <2> QED
        BY <2>1, <2>2, <2>3, <2>4 DEF Next
<1>3. ASSUME NEW f \in Fds, NEW i \in 1..Len(tasks'), tasks'[i] = f
      PROVE  \E j \in 1..Len(tasks) : tasks[j] = f
    <2>1. CASE tasks' = tasks
        BY <1>3, <2>1
    <2>2. CASE tasks # <<>> /\ tasks' = Tail(tasks)
        <3>1. i + 1 \in 1..Len(tasks) /\ tasks[i + 1] = f
            BY <1>t, <1>3, <2>2 DEF TypeOK
        <3> QED
            BY <3>1
    <2> QED
        BY <1>2, <2>1, <2>2
<1>4. ASSUME NEW f \in Fds, NEW t \in Threads, tpc'[t] # "idle", tfd'[t] = f
      PROVE  Named(f)
    <2>1. CASE MsgTask(t) /\ tfd'[t] = Head(tasks)
        <3>1. 1 \in 1..Len(tasks) /\ tasks[1] = Head(tasks)
            BY <1>t, <2>1 DEF TypeOK, MsgTask
        <3> QED
            BY <1>4, <2>1, <3>1 DEF Named
    <2>2. CASE tpc[t] # "idle" /\ tfd'[t] = tfd[t]
        BY <1>4, <2>2 DEF Named
    <2> QED
        BY <1>4, <2>1, <2>2, ThreadFrame DEF Read, CloseTask
<1>5. ASSUME NEW f \in Fds, Named(f)'
      PROVE  Named(f)
    BY <1>1, <1>3, <1>4, <1>5 DEF Named
<1> QED
    BY <1>1, <1>5

\* Nobody gets hold of the descriptor between accept and the lock.
LEMMA AddStep == IInv /\ [Next]_vars => AddInv'
<1> SUFFICES ASSUME IInv, [Next]_vars, mainPc' = "add", reused' = {}
             PROVE  ~Named(newFd)' /\ newFd' \notin ep_fds' /\ sock'[newFd'] # None
    BY DEF AddInv
<1>t. TypeOK /\ SocketsTypeOK /\ RegInv /\ AddInv /\ NoGhostDescriptor /\ TfdInv
    BY DEF IInv, SockInv
<1>1. CASE mainPc = "add"
    <2>1. newFd' = newFd /\ reused = {} /\ newFd \in Fds /\ ~Named(newFd)' /\ ~Named(newFd)
        BY <1>t, <1>1, NamedFrame DEF AddInv, TypeOK
    <2>2. newFd \notin ep_fds /\ sock[newFd] # None
        BY <1>t, <1>1, <2>1 DEF AddInv
    <2>3. ASSUME NEW t \in Threads, CloseTask(t) \/ Dereg(t)
          PROVE  tfd[t] # newFd
        BY <2>1, <2>3 DEF Named, CloseTask, Dereg
    <2>4. ~AddFd /\ ~AddFull /\ \A c \in Conns : ~Accept(c)
        BY <1>1 DEF AddFd, AddFull, Accept
    <2>5. newFd \notin ep_fds'
        BY <2>2, <2>4, EpollFrame DEF CloseTask, Dereg, Deregister
    <2>6. ASSUME NEW t \in Threads, CloseTask(t)
          PROVE  sock'[newFd] # None
        BY <1>t, <2>1, <2>2, <2>3, <2>6 DEF CloseTask, Close, CloseFd, SocketsTypeOK
    <2>7. sock'[newFd] # None
        BY <2>2, <2>4, <2>6, SockFrame
    <2> QED
        BY <2>1, <2>5, <2>7 DEF Named
<1>2. CASE mainPc # "add"
    <2>1. PICK c \in Conns : Accept(c)
        <3> USE DEF socketVars, sigVars, mainVars, poolVars, epollVars
        <3>1. CASE Client \/ Interrupted \/ \E s \in Signals : Signal(s)
            BY <1>2, <3>1 DEF Client, Interrupted, Signal
        <3>2. CASE MainStep
            BY <1>2, <3>2 DEF MainStep, TestRunning, Timeout, EpollWait, Exit, AcceptFails,
                              AddFd, AddFull, Dispatch
        <3>3. ASSUME NEW t \in Threads, ThreadStep(t) \/ Dereg(t)
              PROVE  mainPc' = mainPc \/ mainPc' = "crashed"
            BY <3>3 DEF ThreadStep, SigTask, MsgTask, Read, CloseTask, Dereg
        <3>4. CASE UNCHANGED vars
            BY <1>2, <3>4 DEF vars
        <3> QED
            BY <1>2, <3>1, <3>2, <3>3, <3>4 DEF Next
    <2> DEFINE f == LowestFd
    <2>2. f \in Fds /\ sock[f] = None
        BY <2>1, LowestFdIsFree DEF Accept
    <2>3. ~Named(f) /\ reused = {} /\ newFd' = f /\ ep_fds' = ep_fds
        BY <2>1 DEF Accept, epollVars
    <2>4. f \notin reg
        BY <1>t, <2>1, <2>2 DEF RegInv, Ended, Accept
    <2>5. f \notin ep_fds
        BY <1>t, <2>3, <2>4 DEF NoGhostDescriptor, Named
    <2>6. sock'[f] # None
        BY <1>t, <2>1, <2>2, SocketsAssumption DEF Accept, serv_accept, SocketsTypeOK
    <2>7. UNCHANGED poolVars /\ events' = events \ {Listen}
        BY <2>1 DEF Accept
    <2> HIDE DEF f
    <2>8. ~Named(newFd)'
        BY <2>3, <2>7 DEF Named, poolVars
    <2> QED
        BY <2>3, <2>5, <2>6, <2>8
<1> QED
    BY <1>1, <1>2

\* An entry of ep_fds that is not watched has a thread that will erase it.
LEMMA GhostStep == IInv /\ [Next]_vars => NoGhostDescriptor'
<1> SUFFICES ASSUME IInv, [Next]_vars, reused' = {}, NEW f \in ep_fds' \ reg'
             PROVE  \E t \in Threads : tpc'[t] = "dereg" /\ tfd'[t] = f
    BY DEF NoGhostDescriptor
<1>t. TypeOK /\ TfdInv /\ AddInv /\ NoGhostDescriptor /\ reused = {}
    BY HistoryGrows DEF IInv
\* A ghost stays in the hands of the thread that will remove it.
<1>1. ASSUME f \in ep_fds \ reg
      PROVE  \E t \in Threads : tpc'[t] = "dereg" /\ tfd'[t] = f
    <2>1. PICK t \in Threads : tpc[t] = "dereg" /\ tfd[t] = f
        BY <1>t, <1>1 DEF NoGhostDescriptor
    <2>2. CASE tpc'[t] = tpc[t] /\ tfd'[t] = tfd[t]
        BY <2>1, <2>2
    <2>3. CASE ~ (tpc'[t] = tpc[t] /\ tfd'[t] = tfd[t])
        <3>1. Dereg(t)
            <4> USE DEF TypeOK, socketVars, sigVars, mainVars, poolVars, epollVars
            <4>1. CASE Client \/ Interrupted \/ \E s \in Signals : Signal(s)
                BY <2>3, <4>1 DEF Client, Interrupted, Signal
            <4>2. CASE MainStep
                BY <2>3, <4>2 DEF MainStep, TestRunning, Timeout, EpollWait, Exit,
                                  AcceptFails, AddFd, AddFull, Accept, Dispatch
            <4>3. ASSUME NEW u \in Threads, u # t, ThreadStep(u) \/ Dereg(u)
                  PROVE  FALSE
                BY <1>t, <2>3, <4>3 DEF ThreadStep, SigTask, MsgTask, Read, CloseTask, Dereg
            <4>4. ~ (MsgTask(t) \/ Read(t) \/ CloseTask(t))
                BY <2>1 DEF MsgTask, Read, CloseTask
            <4>5. ~SigTask(t)
                BY <2>1 DEF SigTask
            <4>6. CASE UNCHANGED vars
                BY <2>3, <4>6 DEF vars
            <4> QED
                BY <4>1, <4>2, <4>3, <4>4, <4>5, <4>6 DEF Next, ThreadStep
        <3>2. f \notin ep_fds'
            BY <2>1, <3>1 DEF Dereg, Deregister
        <3> QED
            BY <3>2
    <2> QED
        BY <2>2, <2>3
<1>2. CASE UNCHANGED <<reg, ep_fds>>
    BY <1>1, <1>2
<1>3. CASE AddFd
    <2>1. sock[newFd] # None
        BY <1>t, <1>3 DEF AddFd, AddInv
    <2>2. f \in ep_fds \ reg
        BY <1>3, <2>1 DEF AddFd
    <2> QED
        BY <1>1, <2>2
<1>4. CASE AddFull
    <2>1. newFd \notin ep_fds
        BY <1>t, <1>4 DEF AddFull, AddInv
    <2>2. f \in ep_fds \ reg
        BY <1>4, <2>1 DEF AddFull, Close
    <2> QED
        BY <1>1, <2>2
<1>5. ASSUME NEW t \in Threads, CloseTask(t)
      PROVE  \E u \in Threads : tpc'[u] = "dereg" /\ tfd'[u] = f
    <2>1. CASE f = tfd[t]
        BY <1>t, <1>5, <2>1 DEF CloseTask, TypeOK
    <2>2. CASE f # tfd[t]
        BY <1>1, <1>5, <2>2 DEF CloseTask, Close
    <2> QED
        BY <2>1, <2>2
<1>6. ASSUME NEW t \in Threads, Dereg(t)
      PROVE  \E u \in Threads : tpc'[u] = "dereg" /\ tfd'[u] = f
    BY <1>1, <1>6 DEF Dereg, Deregister
<1> QED
    BY <1>2, <1>3, <1>4, <1>5, <1>6, EpollFrame

\* The inductive invariant holds in every state.
LEMMA IInvAlways == Spec => []IInv
<1>1. IInv /\ [Next]_vars => IInv'
    BY SockStep, TypeStep, TfdStep, RegStep, AddStep, CloseInvStep, KnownStep, GhostStep
       DEF IInv
<1> QED
    BY <1>1, InitIInv, PTL DEF Spec

\* The server's state stays within its types; in particular a thread never
\* closes or removes what is not a descriptor, and epoll has no event pending
\* for a descriptor it does not watch.
THEOREM TypeCorrect == Spec => []TypeOK
<1>1. IInv => TypeOK
    BY DEF IInv
<1> QED
    BY <1>1, IInvAlways, PTL

\* Every descriptor that epoll watches is in ep_fds, whatever the tasks do to
\* descriptors that have been given to other connections.
THEOREM WatchedIsCounted == Spec => []RegisteredIsKnown
<1>1. IInv => RegisteredIsKnown
    BY DEF IInv
<1> QED
    BY <1>1, IInvAlways, PTL

\* Without reuse of a descriptor under a task no place in ep_fds is lost.
THEOREM NoPlaceIsLost == Spec => []NoGhostDescriptor
<1>1. IInv => NoGhostDescriptor
    BY DEF IInv
<1> QED
    BY <1>1, IInvAlways, PTL

\* No step closes a connection whose client is still there, unless ep_fds is
\* full, the server ends, or the descriptor was reused under a task.
THEOREM NoneIsClosedByMistake == Spec => ClosedForACause
<1> DEFINE Cause ==
      \A c \in Conns : conn[c] = "open" /\ conn'[c] = "closed" =>
          \/ c \in left \/ c \in reused
          \/ mainPc = "add" /\ ~HasRoom /\ sock[newFd] = c
          \/ Ended'
<1>1. IInv /\ [Next]_vars => [Cause]_vars
    <2> SUFFICES ASSUME IInv, [Next]_vars, NEW c \in Conns,
                        conn[c] = "open", conn'[c] = "closed", ~Ended'
                 PROVE  \/ c \in left \/ c \in reused
                        \/ mainPc = "add" /\ ~HasRoom /\ sock[newFd] = c
        OBVIOUS
    <2>t. TypeOK /\ SocketsTypeOK /\ CloseInv
        BY DEF IInv, SockInv
    <2> USE DEF socketVars, sigVars, mainVars, poolVars, epollVars
    <2>1. CASE Client
        BY <2>t, <2>1 DEF Client, Connect, Send, Leave, SocketsTypeOK
    <2>2. CASE Interrupted \/ Exit
        BY <2>2 DEF Interrupted, Exit, Ended
    <2>3. CASE \E s \in Signals : Signal(s)
        BY <2>3 DEF Signal
    <2>4. CASE TestRunning \/ Timeout \/ EpollWait \/ AcceptFails \/ AddFd
        BY <2>4 DEF TestRunning, Timeout, EpollWait, AcceptFails, AddFd
    <2>5. CASE \E e \in Fds \cup {Sig} : Dispatch(e)
        BY <2>5 DEF Dispatch
    <2>6. CASE \E d \in Conns : Accept(d)
        BY <2>t, <2>6 DEF Accept, serv_accept, SocketsTypeOK
    <2>7. CASE AddFull
        BY <2>7 DEF AddFull, Close, CloseFd
    <2>8. ASSUME NEW t \in Threads, SigTask(t) \/ MsgTask(t) \/ Read(t)
          PROVE  conn' = conn
        BY <2>8 DEF SigTask, MsgTask, Read, Consume
    <2>9. ASSUME NEW t \in Threads, CloseTask(t)
          PROVE  c \in left \/ c \in reused
        <3>1. sock[tfd[t]] = c
            BY <2>9 DEF CloseTask, Close, CloseFd
        <3> QED
            BY <2>t, <2>9, <3>1, SocketsAssumption DEF CloseInv, CloseTask
    <2>10. ASSUME NEW t \in Threads, Dereg(t)
           PROVE  conn' = conn
        BY <2>10 DEF Dereg, Ended
    <2>11. CASE UNCHANGED vars
        BY <2>11 DEF vars
    <2> QED
        BY <2>1, <2>2, <2>3, <2>4, <2>5, <2>6, <2>7, <2>8, <2>9, <2>10, <2>11
           DEF Next, MainStep, ThreadStep
<1> QED
    BY <1>1, IInvAlways, PTL DEF Spec, ClosedForACause
=============================================================================
