---------------------- MODULE ThreadPoolServerProofs ----------------------
(***************************************************************************)
(* Theorems about ThreadPoolServer: what holds of the hand-over and of the *)
(* shutdown for any number of connections, workers, messages and signals   *)
(* and for any capacity of the socketpairs.                                *)
(***************************************************************************)
EXTENDS ThreadPoolServer, TLAPS

\* The main thread has begun to send COMM_TERMINATE, or is no more.
TermPhase == {"term", "leave", "join", "done", "killed", "interrupted"}

\* Before all workers are dispatched nothing has happened.
StartInv ==
    spawned < concur =>
        /\ mainPc \in {"spawn", "interrupted"}
        /\ \A w \in Workers : comm_pipes[w] = <<>> /\ wpc[w] \in {"off", "poll"}
        /\ \A c \in Conns : cstate[c] = "new"

\* Worker w has been, or is going to be, told to terminate.
Told(w) == HasByte(w, COMM_TERMINATE) \/ w \in loopexit

\* Only the shutdown tells a worker to terminate, and only such a worker exits.
TermInv ==
    \A w \in Workers :
        /\ Told(w) => mainPc \in TermPhase
        /\ wpc[w] = "exited" => w \in loopexit

\* In a socketpair no COMM_NEW_CONNECTED comes after a COMM_TERMINATE.
OrderInv ==
    \A w \in Workers : \A i, j \in 1..Len(comm_pipes[w]) :
        i < j /\ comm_pipes[w][i] = COMM_TERMINATE
            => comm_pipes[w][j] = COMM_TERMINATE

\* signal_event_cb is called once for each SIGINT; the workers it has not
\* reached yet in this call have been told only by an earlier call.
SigInv ==
    /\ nsig >= sigs + sigBatch
    /\ mainPc = "term" =>
          /\ sigBatch >= 1
          /\ \A w \in Workers : w >= termInd /\ Told(w) => nsig > sigBatch

IInv ==
    /\ TypeOK
    /\ StartInv
    /\ TermInv
    /\ OrderInv
    /\ SigInv
    /\ NoConnectionStranded
    /\ NothingLeftAtExit
    /\ KilledOnlyForACause

-----------------------------------------------------------------------------
\* The inductive invariant holds at the start.
LEMMA InitIInv == Init => IInv
<1> SUFFICES ASSUME Init
             PROVE  IInv
    OBVIOUS
<1> USE ServerAssumption, NobodyAssumption DEF Init
<1>1. 0 \in Workers /\ concur \in Nat
    BY DEF Workers
<1>2. TypeOK
    BY <1>1 DEF TypeOK, MainLabels, MainLoop, WorkerLabels, ConnStates
<1>3. StartInv /\ OrderInv /\ NothingLeftAtExit /\ NoConnectionStranded
    BY DEF StartInv, OrderInv, NothingLeftAtExit, NoConnectionStranded
<1>4. TermInv /\ SigInv /\ KilledOnlyForACause
    BY DEF TermInv, Told, HasByte, SigInv, KilledOnlyForACause
<1> QED
    BY <1>2, <1>3, <1>4 DEF IInv

\* send() of one byte: the sender goes on and the byte is buffered or lost,
\* or the process is killed.
LEMMA SendByteTypes ==
    ASSUME TypeOK, NEW w \in Workers, NEW b \in Bytes, NEW l \in MainLabels,
           SendByte(w, b, l)
    PROVE  /\ mainPc' \in {l, "killed"}
           /\ comm_pipes' \in [Workers -> Seq(Bytes)]
<1>1. CASE wpc[w] = "exited"
    BY <1>1 DEF TypeOK, SendByte
<1>2. CASE wpc[w] # "exited"
    <2>1. comm_pipes[w] \in Seq(Bytes) /\ Append(comm_pipes[w], b) \in Seq(Bytes)
        BY DEF TypeOK
    <2> QED
        BY <1>2, <2>1 DEF TypeOK, SendByte
<1> QED
    BY <1>1, <1>2

\* Every step keeps the types.
LEMMA TypeStep == IInv /\ [Next]_vars => TypeOK'
<1> SUFFICES ASSUME IInv, [Next]_vars
             PROVE  TypeOK'
    OBVIOUS
<1> USE ServerAssumption DEF IInv, TypeOK, mainVars, commVars, workerVars, clientVars
<1>a. COMM_NEW_CONNECTED \in Bytes /\ COMM_TERMINATE \in Bytes
    BY DEF Bytes
<1>b. concur \in Nat /\ Workers = 0..(concur - 1) /\ 0 \in Workers
    BY DEF Workers
<1>1. ASSUME NEW c \in Conns,
             Connect(c) \/ ClientSend(c) \/ ClientClose(c) \/ ClientReset(c)
      PROVE  TypeOK'
    <2>1. CASE Connect(c)
        BY <2>1 DEF Connect, ConnStates
    <2>2. CASE ClientSend(c)
        BY <2>2 DEF ClientSend
    <2>3. CASE ClientClose(c) \/ ClientReset(c)
        BY <2>3 DEF ClientClose, ClientReset
    <2> QED
        BY <1>1, <2>1, <2>2, <2>3
<1>2. CASE SigInt \/ SigIntDefault
    <2>1. CASE SigInt
        BY <2>1 DEF SigInt
    <2>2. CASE SigIntDefault
        BY <2>2 DEF SigIntDefault, MainLabels
    <2> QED
        BY <1>2, <2>1, <2>2
<1>3. CASE SpawnWorker \/ StartLoop
    <2>1. CASE SpawnWorker
        <3>1. spawned + 1 \in 0..concur
            BY <1>b, <2>1 DEF SpawnWorker
        <3> QED
            BY <2>1, <3>1 DEF SpawnWorker
    <2>2. CASE StartLoop
        BY <2>2 DEF StartLoop, MainLabels, MainLoop
    <2> QED
        BY <1>3, <2>1, <2>2
<1>4. CASE MainPoll \/ AcceptDone
    <2>1. CASE MainPoll
        BY <2>1 DEF MainPoll, MainLabels, MainLoop
    <2>2. CASE AcceptDone
        BY <2>2 DEF AcceptDone, MainLabels, MainLoop
    <2> QED
        BY <1>4, <2>1, <2>2
<1>5. ASSUME NEW c \in Conns, Accept(c)
      PROVE  TypeOK'
    BY <1>5 DEF Accept, MainLabels, MainLoop, ConnStates
<1>6. CASE Push
    <2>1. newFd \in Conns
        BY <1>6 DEF Push
    <2> QED
        BY <1>6, <2>1 DEF Push, MainLabels, MainLoop, ConnStates
<1>7. CASE SendNew
    <2>1. /\ mainPc' \in {"accept", "killed"}
          /\ comm_pipes' \in [Workers -> Seq(Bytes)]
        BY <1>7, <1>a, SendByteTypes DEF SendNew, MainLabels, MainLoop
    <2>2. cur_worker_ind' \in Workers
        BY <1>7, <1>b DEF SendNew
    <2> QED
        BY <1>7, <2>1, <2>2 DEF SendNew, MainLabels, MainLoop
<1>8. CASE SendTerm
    <2>1. /\ mainPc' \in {"term", "leave", "killed"}
          /\ comm_pipes' \in [Workers -> Seq(Bytes)]
        BY <1>8, <1>a, SendByteTypes DEF SendTerm, MainLabels, MainLoop
    <2>2. termInd' \in Workers
        BY <1>8, <1>b DEF SendTerm
    <2>3. sigBatch' \in Nat
        BY <1>8, <1>b DEF SendTerm, SigInv
    <2> QED
        BY <1>8, <2>1, <2>2, <2>3 DEF SendTerm, MainLabels, MainLoop
<1>9. CASE LeaveLoop \/ Join
    <2>1. CASE LeaveLoop
        BY <2>1 DEF LeaveLoop, MainLabels, ConnStates
    <2>2. CASE Join
        BY <2>2 DEF Join, MainLabels, ConnStates
    <2> QED
        BY <1>9, <2>1, <2>2
<1>10. ASSUME NEW w \in Workers, WorkerStart(w) \/ WorkerPoll(w) \/ BatchDone(w)
       PROVE  TypeOK'
    <2>1. CASE WorkerStart(w)
        BY <2>1 DEF WorkerStart, WorkerLabels
    <2>2. CASE WorkerPoll(w)
        <3>1. /\ ReadyEvents(w) \in SUBSET (Conns \cup {CommFd})
              /\ ReadyWrites(w) \in SUBSET Conns
            BY DEF ReadyEvents, ReadyWrites
        <3> QED
            BY <2>2, <3>1 DEF WorkerPoll, WorkerLabels
    <2>3. CASE BatchDone(w)
        BY <2>3 DEF BatchDone, WorkerLabels
    <2> QED
        BY <1>10, <2>1, <2>2, <2>3
<1>11. ASSUME NEW w \in Workers, NEW c \in Conns, NEW n \in 1..MaxMsgs,
              NEW k \in 1..n, ClientMsgCb(w, c, n, k)
       PROVE  TypeOK'
    <2>1. /\ inbuf' \in [Conns -> Nat]
          /\ succ_cli_count' \in Nat
        BY <1>11 DEF ClientMsgCb
    <2> QED
        BY <1>11, <2>1 DEF ClientMsgCb
<1>12. ASSUME NEW w \in Workers, NEW c \in Conns,
              ClientEventCb(w, c) \/ FlushError(w, c)
       PROVE  TypeOK'
    <2>a. FreeBufferevent(w, c)
        BY <1>12 DEF ClientEventCb, FlushError
    <2>1. /\ cstate' \in [Conns -> ConnStates]
          /\ active' \in [Workers -> SUBSET (Conns \cup {CommFd})]
          /\ writable' \in [Workers -> SUBSET Conns]
          /\ unsent' \subseteq Conns
        BY <2>a DEF FreeBufferevent, ConnStates
    <2>2. CASE ClientEventCb(w, c)
        BY <2>1, <2>2 DEF ClientEventCb
    <2>3. CASE FlushError(w, c)
        BY <2>1, <2>3 DEF FlushError
    <2> QED
        BY <1>12, <2>2, <2>3
<1>13. ASSUME NEW w \in Workers, NEW c \in Conns, Flush(w, c) \/ FlushBroken(w, c)
       PROVE  TypeOK'
    <2>1. CASE Flush(w, c)
        BY <2>1 DEF Flush
    <2>2. CASE FlushBroken(w, c)
        BY <2>2 DEF FlushBroken, MainLabels
    <2> QED
        BY <1>13, <2>1, <2>2
<1>14. ASSUME NEW w \in Workers,
              MainMsgCb(w) \/ RecvNew(w) \/ RecvTerm(w) \/ RecvAgain(w) \/ TryPopEmpty(w)
       PROVE  TypeOK'
    <2>1. CASE MainMsgCb(w)
        BY <2>1 DEF MainMsgCb, WorkerLabels
    <2>2. CASE RecvNew(w)
        BY <2>2 DEF RecvNew, WorkerLabels
    <2>3. CASE RecvTerm(w)
        BY <2>3 DEF RecvTerm, WorkerLabels
    <2>4. CASE RecvAgain(w) \/ TryPopEmpty(w)
        BY <2>4 DEF RecvAgain, TryPopEmpty, WorkerLabels
    <2> QED
        BY <1>14, <2>1, <2>2, <2>3, <2>4
<1>15. ASSUME NEW w \in Workers, TryPop(w)
       PROVE  TypeOK'
    <2>1. Head(comm_queues[w]) \in Conns /\ Tail(comm_queues[w]) \in Seq(Conns)
        BY <1>15 DEF TryPop
    <2> QED
        BY <1>15, <2>1 DEF TryPop, ConnStates
<1>16. CASE UNCHANGED vars
    BY <1>16 DEF vars
<1> QED
    BY <1>1, <1>2, <1>3, <1>4, <1>5, <1>6, <1>7, <1>8, <1>9, <1>10, <1>11, <1>12,
       <1>13, <1>14, <1>15, <1>16 DEF Next, Environment, MainStep, WorkerStep

-----------------------------------------------------------------------------
(* Which actions change what. *)

\* The socketpairs change only when a byte is sent or received.
LEMMA PipesFrame ==
    ASSUME [Next]_vars
    PROVE  \/ UNCHANGED comm_pipes
           \/ SendNew \/ SendTerm
           \/ \E w \in Workers : RecvNew(w) \/ RecvTerm(w)
<1> USE DEF mainVars, commVars, workerVars, clientVars
<1>1. CASE Environment
    BY <1>1 DEF Environment, Connect, ClientSend, ClientClose, ClientReset,
                SigInt, SigIntDefault
<1>2. CASE MainStep
    BY <1>2 DEF MainStep, SpawnWorker, StartLoop, MainPoll, Accept, AcceptDone,
                Push, LeaveLoop, Join
<1>3. ASSUME NEW w \in Workers, WorkerStep(w)
      PROVE  UNCHANGED comm_pipes \/ RecvNew(w) \/ RecvTerm(w)
    BY <1>3 DEF WorkerStep, WorkerStart, WorkerPoll, ClientMsgCb, ClientEventCb,
                Flush, FlushError, FlushBroken, MainMsgCb, RecvAgain, TryPop,
                TryPopEmpty, BatchDone
<1>4. CASE UNCHANGED vars
    BY <1>4 DEF vars
<1> QED
    BY <1>1, <1>2, <1>3, <1>4 DEF Next

\* The queues change only by Push and TryPop.
LEMMA QueuesFrame ==
    ASSUME [Next]_vars
    PROVE  UNCHANGED comm_queues \/ Push \/ \E w \in Workers : TryPop(w)
<1> USE DEF mainVars, commVars, workerVars, clientVars
<1>1. CASE Environment
    BY <1>1 DEF Environment, Connect, ClientSend, ClientClose, ClientReset,
                SigInt, SigIntDefault
<1>2. CASE MainStep
    BY <1>2 DEF MainStep, SpawnWorker, StartLoop, MainPoll, Accept, AcceptDone,
                SendNew, SendTerm, LeaveLoop, Join
<1>3. ASSUME NEW w \in Workers, WorkerStep(w)
      PROVE  UNCHANGED comm_queues \/ TryPop(w)
    BY <1>3 DEF WorkerStep, WorkerStart, WorkerPoll, ClientMsgCb, ClientEventCb,
                Flush, FlushError, FlushBroken, MainMsgCb, RecvNew, RecvTerm,
                RecvAgain, TryPopEmpty, BatchDone
<1>4. CASE UNCHANGED vars
    BY <1>4 DEF vars
<1> QED
    BY <1>1, <1>2, <1>3, <1>4 DEF Next

\* A worker's loop is told to exit only by RecvTerm.
LEMMA LoopexitFrame ==
    ASSUME [Next]_vars
    PROVE  UNCHANGED loopexit \/ \E w \in Workers : RecvTerm(w)
<1> USE DEF mainVars, commVars, workerVars, clientVars
<1>1. CASE Environment
    BY <1>1 DEF Environment, Connect, ClientSend, ClientClose, ClientReset,
                SigInt, SigIntDefault
<1>2. CASE MainStep
    BY <1>2 DEF MainStep, SpawnWorker, StartLoop, MainPoll, Accept, AcceptDone,
                Push, SendNew, SendTerm, LeaveLoop, Join
<1>3. ASSUME NEW w \in Workers, WorkerStep(w)
      PROVE  UNCHANGED loopexit \/ RecvTerm(w)
    BY <1>3 DEF WorkerStep, WorkerStart, WorkerPoll, ClientMsgCb, ClientEventCb,
                Flush, FlushError, FlushBroken, MainMsgCb, RecvNew,
                RecvAgain, TryPop, TryPopEmpty, BatchDone
<1>4. CASE UNCHANGED vars
    BY <1>4 DEF vars
<1> QED
    BY <1>1, <1>2, <1>3, <1>4 DEF Next

\* A worker leaves the main thread's variables alone, except that a SIGPIPE
\* it causes kills the process; it moves only itself, and exits only when its
\* loop was told to.
LEMMA WorkerFrame ==
    ASSUME TypeOK, NEW w \in Workers, WorkerStep(w)
    PROVE  /\ UNCHANGED <<spawned, cur_worker_ind, sigs, sigBatch, termInd, nsig, peer>>
           /\ \/ mainPc' = mainPc
              \/ mainPc' = "killed" /\ \E c \in Conns : peer[c] = "broken"
           /\ \A v \in Workers \ {w} : wpc'[v] = wpc[v]
           /\ wpc'[w] = "exited" => wpc[w] = "exited" \/ w \in loopexit
           /\ wpc[w] = "drain" => wpc'[w] = "drain" \/ comm_queues'[w] = <<>>
<1> USE DEF TypeOK, mainVars, commVars, workerVars, clientVars
<1>1. CASE WorkerStart(w) \/ WorkerPoll(w) \/ BatchDone(w)
    BY <1>1 DEF WorkerStart, WorkerPoll, BatchDone
<1>2. ASSUME NEW c \in Conns, NEW n \in 1..MaxMsgs, NEW k \in 1..n, ClientMsgCb(w, c, n, k)
      PROVE  /\ UNCHANGED <<spawned, cur_worker_ind, sigs, sigBatch, termInd, nsig, peer>>
             /\ mainPc' = mainPc
             /\ wpc' = wpc
    BY <1>2 DEF ClientMsgCb
<1>3. ASSUME NEW c \in Conns, ClientEventCb(w, c) \/ Flush(w, c) \/ FlushError(w, c)
      PROVE  /\ UNCHANGED <<spawned, cur_worker_ind, sigs, sigBatch, termInd, nsig, peer>>
             /\ mainPc' = mainPc
             /\ wpc' = wpc
             /\ wpc[w] = "batch"
    BY <1>3 DEF ClientEventCb, Flush, FlushError
<1>4. ASSUME NEW c \in Conns, FlushBroken(w, c)
      PROVE  /\ UNCHANGED <<spawned, cur_worker_ind, sigs, sigBatch, termInd, nsig, peer>>
             /\ mainPc' = "killed" /\ peer[c] = "broken"
             /\ wpc' = wpc
    BY <1>4 DEF FlushBroken
<1>5. CASE MainMsgCb(w) \/ RecvNew(w)
    BY <1>5 DEF MainMsgCb, RecvNew
<1>6. CASE RecvTerm(w) \/ RecvAgain(w)
    BY <1>6 DEF RecvTerm, RecvAgain
<1>7. CASE TryPop(w) \/ TryPopEmpty(w)
    BY <1>7 DEF TryPop, TryPopEmpty
<1> QED
    BY <1>1, <1>2, <1>3, <1>4, <1>5, <1>6, <1>7 DEF WorkerStep

\* Everybody else leaves the workers where they are.
LEMMA MainFrame ==
    ASSUME Environment \/ MainStep
    PROVE  UNCHANGED <<wpc, loopexit>>
BY DEF Environment, Connect, ClientSend, ClientClose, ClientReset,
       SigInt, SigIntDefault, MainStep, SpawnWorker, StartLoop, MainPoll, Accept,
       AcceptDone, Push, SendNew, SendTerm, LeaveLoop, Join,
       mainVars, commVars, workerVars, clientVars

-----------------------------------------------------------------------------
(* What is in a socketpair after a step. *)

\* A send adds the byte at the end, or nothing to a full socketpair.
LEMMA ByteSent ==
    ASSUME TypeOK, NEW w \in Workers, NEW b \in Bytes, NEW l, SendByte(w, b, l),
           NEW v \in Workers
    PROVE  /\ \A i \in 1..Len(comm_pipes[v]) :
                 i \in 1..Len(comm_pipes'[v]) /\ comm_pipes'[v][i] = comm_pipes[v][i]
           /\ \A i \in 1..Len(comm_pipes'[v]) :
                 \/ i \in 1..Len(comm_pipes[v])
                 \/ v = w /\ i = Len(comm_pipes[v]) + 1 /\ comm_pipes'[v][i] = b
           /\ v = w /\ wpc[w] # "exited" => comm_pipes'[v] # <<>>
<1>1. comm_pipes[v] \in Seq(Bytes) /\ PipeCap \in Nat \ {0}
    BY ServerAssumption DEF TypeOK
<1>2. CASE comm_pipes'[v] = comm_pipes[v] /\ (v = w /\ wpc[w] # "exited" => Len(comm_pipes[v]) >= PipeCap)
    BY <1>1, <1>2
<1>3. CASE v = w /\ comm_pipes'[v] = Append(comm_pipes[v], b)
    BY <1>1, <1>3
<1>4. \/ comm_pipes'[v] = comm_pipes[v] /\ (v = w /\ wpc[w] # "exited" => Len(comm_pipes[v]) >= PipeCap)
      \/ v = w /\ comm_pipes'[v] = Append(comm_pipes[v], b)
    BY <1>1 DEF SendByte, TypeOK
<1> QED
    BY <1>2, <1>3, <1>4

\* A receive takes the first byte and moves the others up.
LEMMA ByteReceived ==
    ASSUME TypeOK, NEW w \in Workers, RecvNew(w) \/ RecvTerm(w), NEW v \in Workers
    PROVE  /\ v # w => comm_pipes'[v] = comm_pipes[v]
           /\ v = w =>
                /\ \A i \in 1..Len(comm_pipes'[v]) :
                      /\ i + 1 \in 1..Len(comm_pipes[v])
                      /\ comm_pipes'[v][i] = comm_pipes[v][i + 1]
                /\ \A i \in 2..Len(comm_pipes[v]) :
                      /\ i - 1 \in 1..Len(comm_pipes'[v])
                      /\ comm_pipes'[v][i - 1] = comm_pipes[v][i]
<1>1. comm_pipes[w] \in Seq(Bytes) /\ comm_pipes[w] # <<>>
    BY DEF TypeOK, RecvNew, RecvTerm
<1>2. comm_pipes' = [comm_pipes EXCEPT ![w] = Tail(@)]
    BY DEF RecvNew, RecvTerm
<1>3. CASE v # w
    BY <1>2, <1>3 DEF TypeOK
<1>4. CASE v = w
    <2>1. comm_pipes'[v] = Tail(comm_pipes[v])
        BY <1>2, <1>4 DEF TypeOK
    <2> QED
        BY <1>1, <1>4, <2>1
<1> QED
    BY <1>3, <1>4

-----------------------------------------------------------------------------
(* The parts of the invariant, one after the other. *)

\* No step but Next's, and Next needs a live process.
LEMMA NextCases ==
    ASSUME [Next]_vars
    PROVE  \/ UNCHANGED vars
           \/ Alive /\ (Environment \/ MainStep)
           \/ Alive /\ \E w \in Workers : WorkerStep(w)
BY DEF Next

\* Only the start-up loop starts workers.
LEMMA SpawnedFrame ==
    ASSUME TypeOK, [Next]_vars
    PROVE  UNCHANGED spawned \/ SpawnWorker
<1>1. CASE Environment \/ MainStep
    BY <1>1 DEF Environment, Connect, ClientSend, ClientClose, ClientReset,
       SigInt, SigIntDefault, MainStep, StartLoop, MainPoll, Accept,
       AcceptDone, Push, SendNew, SendTerm, LeaveLoop, Join,
       mainVars, commVars, workerVars, clientVars
<1>2. CASE UNCHANGED vars
    BY <1>2 DEF vars, mainVars
<1> QED
    BY <1>1, <1>2, WorkerFrame, NextCases

\* While workers are still being dispatched, nothing else can happen.
LEMMA StartStep == IInv /\ [Next]_vars => StartInv'
<1> SUFFICES ASSUME IInv, [Next]_vars, spawned' < concur
             PROVE  StartInv'
    BY DEF StartInv
<1> USE DEF mainVars, commVars, workerVars, clientVars
<1>1. spawned < concur
    <2>1. spawned \in 0..concur /\ concur \in Nat
        BY ServerAssumption DEF IInv, TypeOK
    <2>2. CASE SpawnWorker
        BY <2>2 DEF SpawnWorker
    <2> QED
        BY <2>1, <2>2, SpawnedFrame DEF IInv
<1>2. /\ mainPc \in {"spawn", "interrupted"}
      /\ \A w \in Workers : comm_pipes[w] = <<>> /\ wpc[w] \in {"off", "poll"}
      /\ \A c \in Conns : cstate[c] = "new"
    BY <1>1 DEF IInv, StartInv
<1>3. ASSUME Alive, Environment
      PROVE  SigIntDefault
    BY <1>2, <1>3 DEF Environment, Connect, ClientSend, ClientClose, ClientReset,
                      Connected, SigInt, MainLoop
<1>4. ASSUME Alive, MainStep
      PROVE  SpawnWorker
    BY <1>1, <1>2, <1>4, ServerAssumption DEF MainStep, StartLoop, MainPoll, Accept,
       AcceptDone, Push, SendNew, SendTerm, LeaveLoop, Join, IInv, TypeOK
<1>5. ASSUME Alive, NEW w \in Workers, WorkerStep(w)
      PROVE  WorkerStart(w)
    <2>1. ReadyEvents(w) = {} /\ ReadyWrites(w) = {}
        BY <1>2 DEF ReadyEvents, ReadyWrites, ServedBy, IInv, TypeOK
    <2> QED
        BY <1>2, <1>5, <2>1 DEF WorkerStep, WorkerPoll, ClientMsgCb, ClientEventCb,
           Flush, FlushError, FlushBroken, MainMsgCb, RecvNew, RecvTerm, RecvAgain,
           TryPop, TryPopEmpty, BatchDone
<1>6. CASE SigIntDefault
    BY <1>2, <1>6 DEF SigIntDefault, StartInv
<1>7. CASE SpawnWorker
    BY <1>2, <1>7 DEF SpawnWorker, StartInv
<1>8. ASSUME NEW w \in Workers, WorkerStart(w)
      PROVE  StartInv'
    BY <1>2, <1>8 DEF WorkerStart, StartInv, IInv, TypeOK
<1>9. CASE UNCHANGED vars
    BY <1>2, <1>9 DEF vars, StartInv
<1> QED
    BY <1>3, <1>4, <1>5, <1>6, <1>7, <1>8, <1>9, NextCases

\* The shutdown is never taken back.
LEMMA TermPhaseStable ==
    ASSUME TypeOK, [Next]_vars, mainPc \in TermPhase
    PROVE  mainPc' \in TermPhase
<1> USE DEF TermPhase
<1>1. CASE Environment
    BY <1>1 DEF Environment, Connect, ClientSend, ClientClose, ClientReset,
       SigInt, SigIntDefault, mainVars
<1>2. CASE MainStep
    BY <1>2 DEF MainStep, SpawnWorker, StartLoop, MainPoll, Accept,
       AcceptDone, Push, SendNew, SendTerm, SendByte, LeaveLoop, Join
<1>3. CASE UNCHANGED vars
    BY <1>3 DEF vars, mainVars
<1> QED
    BY <1>1, <1>2, <1>3, WorkerFrame, NextCases

\* Only SendTerm tells a worker to terminate.
LEMMA ToldStep ==
    ASSUME IInv, [Next]_vars, NEW w \in Workers, Told(w)'
    PROVE  Told(w) \/ (SendTerm /\ w = termInd)
<1>t. TypeOK
    BY DEF IInv
<1>b. COMM_NEW_CONNECTED \in Bytes /\ COMM_TERMINATE \in Bytes
      /\ COMM_NEW_CONNECTED # COMM_TERMINATE
    BY DEF Bytes, COMM_NEW_CONNECTED, COMM_TERMINATE
<1>1. ASSUME NEW v \in Workers, RecvTerm(v)
      PROVE  Told(w)
    <2>1. comm_pipes[v] \in Seq(Bytes) /\ comm_pipes[v] # <<>>
          /\ comm_pipes[v][1] = COMM_TERMINATE
        BY <1>t, <1>1 DEF TypeOK, RecvTerm
    <2>2. HasByte(v, COMM_TERMINATE)
        BY <2>1 DEF HasByte
    <2>3. CASE w # v
        BY <1>t, <1>1, <2>3, ByteReceived DEF Told, HasByte, RecvTerm
    <2> QED
        BY <2>2, <2>3 DEF Told
<1>2. CASE UNCHANGED loopexit /\ HasByte(w, COMM_TERMINATE)'
    <2>1. PICK i \in 1..Len(comm_pipes'[w]) : comm_pipes'[w][i] = COMM_TERMINATE
        BY <1>2 DEF HasByte
    <2>2. CASE UNCHANGED comm_pipes
        BY <2>1, <2>2 DEF Told, HasByte
    <2>3. CASE SendNew
        <3>1. SendByte(cur_worker_ind, COMM_NEW_CONNECTED, "accept") /\ cur_worker_ind \in Workers
            BY <1>t, <2>3 DEF SendNew, TypeOK
        <3>2. i \in 1..Len(comm_pipes[w]) /\ comm_pipes[w][i] = COMM_TERMINATE
            BY <1>t, <1>b, <2>1, <3>1, ByteSent
        <3> QED
            BY <3>2 DEF Told, HasByte
    <2>4. CASE SendTerm
        <3>1. PICK l : SendByte(termInd, COMM_TERMINATE, l)
            BY <2>4 DEF SendTerm
        <3>2. termInd \in Workers
            BY <1>t DEF TypeOK
        <3>3. \/ w = termInd
              \/ i \in 1..Len(comm_pipes[w]) /\ comm_pipes[w][i] = COMM_TERMINATE
            BY <1>t, <1>b, <2>1, <3>1, <3>2, ByteSent
        <3> QED
            BY <2>4, <3>3 DEF Told, HasByte
    <2>5. ASSUME NEW v \in Workers, RecvNew(v)
          PROVE  Told(w)
        <3>1. CASE w = v
            BY <1>t, <2>1, <2>5, <3>1, ByteReceived DEF Told, HasByte
        <3>2. CASE w # v
            BY <1>t, <2>1, <2>5, <3>2, ByteReceived DEF Told, HasByte
        <3> QED
            BY <3>1, <3>2
    <2> QED
        BY <1>1, <2>2, <2>3, <2>4, <2>5, PipesFrame
<1> QED
    BY <1>1, <1>2, LoopexitFrame DEF Told

\* TermInv: the shutdown is announced by the main thread only, for good.
LEMMA TermStep == IInv /\ [Next]_vars => TermInv'
<1> SUFFICES ASSUME IInv, [Next]_vars, NEW w \in Workers
             PROVE  /\ Told(w)' => mainPc' \in TermPhase
                    /\ wpc'[w] = "exited" => w \in loopexit'
    BY DEF TermInv
<1>t. TypeOK /\ TermInv
    BY DEF IInv
<1>1. ASSUME Told(w)'
      PROVE  mainPc' \in TermPhase
    <2>1. CASE Told(w)
        BY <1>t, <2>1, TermPhaseStable DEF TermInv
    <2>2. CASE SendTerm
        BY <1>t, <2>2, TermPhaseStable DEF SendTerm, TermPhase
    <2> QED
        BY <1>1, <2>1, <2>2, ToldStep
<1>2. ASSUME wpc'[w] = "exited"
      PROVE  w \in loopexit'
    <2>1. loopexit \subseteq loopexit'
        BY LoopexitFrame DEF RecvTerm
    <2>2. wpc[w] = "exited" \/ w \in loopexit
        <3>1. ASSUME NEW v \in Workers, WorkerStep(v)
              PROVE  wpc[w] = "exited" \/ w \in loopexit
            BY <1>t, <1>2, <3>1, WorkerFrame
        <3>2. CASE UNCHANGED vars
            BY <1>2, <3>2 DEF vars, workerVars
        <3> QED
            BY <1>2, <3>1, <3>2, MainFrame, NextCases
    <2> QED
        BY <1>t, <2>1, <2>2 DEF TermInv
<1> QED
    BY <1>1, <1>2

\* OrderInv: nothing is sent after COMM_TERMINATE but COMM_TERMINATE.
LEMMA OrderStep == IInv /\ [Next]_vars => OrderInv'
<1> SUFFICES ASSUME IInv, [Next]_vars, NEW w \in Workers,
                    NEW i \in 1..Len(comm_pipes'[w]), NEW j \in 1..Len(comm_pipes'[w]),
                    i < j, comm_pipes'[w][i] = COMM_TERMINATE
             PROVE  comm_pipes'[w][j] = COMM_TERMINATE
    BY DEF OrderInv
<1>t. TypeOK /\ TermInv /\ OrderInv /\ comm_pipes[w] \in Seq(Bytes)
    BY DEF IInv, TypeOK
<1>b. COMM_NEW_CONNECTED \in Bytes /\ COMM_TERMINATE \in Bytes
      /\ COMM_NEW_CONNECTED # COMM_TERMINATE
    BY DEF Bytes, COMM_NEW_CONNECTED, COMM_TERMINATE
<1>1. CASE UNCHANGED comm_pipes
    BY <1>t, <1>1 DEF OrderInv
<1>2. CASE SendNew
    <2>1. SendByte(cur_worker_ind, COMM_NEW_CONNECTED, "accept") /\ cur_worker_ind \in Workers
        BY <1>t, <1>2 DEF SendNew, TypeOK
    <2>2. ~Told(w)
        BY <1>t, <1>2 DEF TermInv, SendNew, TermPhase
    <2>3. i \in 1..Len(comm_pipes[w]) /\ comm_pipes[w][i] = COMM_TERMINATE
        BY <1>t, <1>b, <2>1, ByteSent
    <2> QED
        BY <2>2, <2>3 DEF Told, HasByte
<1>3. CASE SendTerm
    <2>1. PICK l : SendByte(termInd, COMM_TERMINATE, l)
        BY <1>3 DEF SendTerm
    <2>2. termInd \in Workers
        BY <1>t DEF TypeOK
    <2>3. CASE j \notin 1..Len(comm_pipes[w])
        BY <1>t, <1>b, <2>1, <2>2, <2>3, ByteSent
    <2>4. CASE j \in 1..Len(comm_pipes[w])
        <3>1. i \in 1..Len(comm_pipes[w])
            BY <1>t, <2>4
        <3>2. comm_pipes'[w][i] = comm_pipes[w][i] /\ comm_pipes'[w][j] = comm_pipes[w][j]
            BY <1>t, <1>b, <2>1, <2>2, <2>4, <3>1, ByteSent
        <3> QED
            BY <1>t, <2>4, <3>1, <3>2 DEF OrderInv
    <2> QED
        BY <2>3, <2>4
<1>4. ASSUME NEW v \in Workers, RecvNew(v) \/ RecvTerm(v)
      PROVE  comm_pipes'[w][j] = COMM_TERMINATE
    <2>1. CASE w # v
        BY <1>t, <1>4, <2>1, ByteReceived DEF OrderInv
    <2>2. CASE w = v
        <3>1. /\ i + 1 \in 1..Len(comm_pipes[w]) /\ comm_pipes'[w][i] = comm_pipes[w][i + 1]
              /\ j + 1 \in 1..Len(comm_pipes[w]) /\ comm_pipes'[w][j] = comm_pipes[w][j + 1]
            BY <1>t, <1>4, <2>2, ByteReceived
        <3>2. i + 1 < j + 1
            BY <1>t
        <3> QED
            BY <1>t, <3>1, <3>2 DEF OrderInv
    <2> QED
        BY <2>1, <2>2
<1> QED
    BY <1>1, <1>2, <1>3, <1>4, PipesFrame

\* The counters of signals and calls change only by these actions, which are
\* also the only ones to enter signal_event_cb.
LEMMA SigFrame ==
    ASSUME TypeOK, [Next]_vars
    PROVE  \/ /\ UNCHANGED <<nsig, sigs, sigBatch, termInd>>
              /\ mainPc' = "term" => mainPc = "term"
           \/ SigInt \/ SigIntDefault \/ MainPoll \/ AcceptDone \/ SendTerm
<1>1. CASE Environment
    BY <1>1 DEF Environment, Connect, ClientSend, ClientClose, ClientReset, mainVars
<1>2. CASE MainStep
    BY <1>2 DEF MainStep, SpawnWorker, StartLoop, Accept, Push, SendNew, SendByte,
                LeaveLoop, Join
<1>3. CASE UNCHANGED vars
    BY <1>3 DEF vars, mainVars
<1>4. ASSUME NEW w \in Workers, WorkerStep(w)
      PROVE  /\ UNCHANGED <<nsig, sigs, sigBatch, termInd>>
             /\ mainPc' = "term" => mainPc = "term"
    BY <1>4, WorkerFrame
<1> QED
    BY <1>1, <1>2, <1>3, <1>4, NextCases

\* SigInv: a worker is told twice only if SIGINT came twice.
LEMMA SigStep == IInv /\ [Next]_vars => SigInv'
<1> SUFFICES ASSUME IInv, [Next]_vars
             PROVE  SigInv'
    OBVIOUS
<1>t. TypeOK /\ TermInv /\ SigInv /\ sigs \in Nat /\ sigBatch \in Nat /\ nsig \in Nat
      /\ termInd \in Workers /\ concur \in Nat /\ Workers = 0..(concur - 1)
    BY ServerAssumption DEF IInv, TypeOK, Workers
<1>q. ASSUME mainPc \notin TermPhase, ~SendTerm, NEW w \in Workers
      PROVE  ~Told(w)'
    BY <1>t, <1>q, ToldStep DEF TermInv
<1>1. CASE /\ UNCHANGED <<nsig, sigs, sigBatch, termInd>>
           /\ mainPc' = "term" => mainPc = "term"
    <2>1. ASSUME SendTerm
          PROVE  FALSE
        BY <1>t, <1>1, <2>1 DEF SendTerm, SigInv
    <2>2. \A w \in Workers : Told(w)' => Told(w)
        BY <2>1, ToldStep
    <2> QED
        BY <1>t, <1>1, <2>2 DEF SigInv
<1>2. CASE SigInt
    <2>1. \A w \in Workers : Told(w)' => Told(w)
        BY <1>2, <1>t, ToldStep DEF SigInt, SendTerm, SigInv
    <2> QED
        BY <1>t, <1>2, <2>1 DEF SigInt, SigInv
<1>3. CASE SigIntDefault
    BY <1>t, <1>3 DEF SigIntDefault, SigInv
<1>4. CASE MainPoll
    <2>1. \A w \in Workers : ~Told(w)'
        BY <1>4, <1>q DEF MainPoll, SendTerm, TermPhase
    <2> QED
        BY <1>t, <1>4, <2>1 DEF MainPoll, SigInv
<1>5. CASE AcceptDone
    <2>1. \A w \in Workers : ~Told(w)'
        BY <1>5, <1>q DEF AcceptDone, SendTerm, TermPhase
    <2> QED
        BY <1>t, <1>5, <2>1 DEF AcceptDone, SigInv
<1>6. CASE SendTerm
    <2>1. /\ UNCHANGED <<nsig, sigs>>
          /\ mainPc = "term"
          /\ sigBatch >= 1
        BY <1>t, <1>6 DEF SendTerm, SigInv
    <2>2. CASE termInd + 1 = concur
        <3>1. /\ sigBatch' = sigBatch - 1
              /\ mainPc' = "term" => sigBatch > 1
            BY <1>6, <2>2 DEF SendTerm, SendByte
        <3> QED
            BY <1>t, <2>1, <3>1 DEF SigInv
    <2>3. CASE termInd + 1 # concur
        <3>1. sigBatch' = sigBatch /\ termInd' = termInd + 1
            BY <1>6, <2>3 DEF SendTerm
        <3>2. ASSUME NEW w \in Workers, w >= termInd', Told(w)'
              PROVE  nsig > sigBatch
            <4>1. Told(w) /\ w >= termInd
                BY <1>t, <3>1, <3>2, ToldStep
            <4> QED
                BY <1>t, <2>1, <4>1 DEF SigInv
        <3> QED
            BY <1>t, <2>1, <3>1, <3>2 DEF SigInv
    <2> QED
        BY <2>2, <2>3
<1> QED
    BY <1>t, <1>1, <1>2, <1>3, <1>4, <1>5, <1>6, SigFrame

\* Between push and send the main thread does nothing else.
LEMMA SendFrame ==
    ASSUME TypeOK, [Next]_vars, mainPc = "send"
    PROVE  \/ mainPc' = "send" /\ UNCHANGED cur_worker_ind
           \/ SendNew
           \/ mainPc' = "killed"
<1>1. CASE Environment
    BY <1>1 DEF Environment, Connect, ClientSend, ClientClose, ClientReset,
                SigInt, SigIntDefault, mainVars
<1>2. CASE MainStep
    BY <1>2 DEF MainStep, SpawnWorker, StartLoop, MainPoll, Accept, AcceptDone, Push,
                SendTerm, LeaveLoop, Join
<1>3. CASE UNCHANGED vars
    BY <1>3 DEF vars, mainVars
<1> QED
    BY <1>1, <1>2, <1>3, WorkerFrame, NextCases

\* A worker that empties its queue goes on until the queue is empty.
LEMMA DrainFrame ==
    ASSUME TypeOK, [Next]_vars, NEW w \in Workers, wpc[w] = "drain"
    PROVE  wpc'[w] = "drain" \/ comm_queues'[w] = <<>>
<1>1. ASSUME NEW v \in Workers, WorkerStep(v)
      PROVE  wpc'[w] = "drain" \/ comm_queues'[w] = <<>>
    BY <1>1, WorkerFrame
<1>2. CASE UNCHANGED vars
    BY <1>2 DEF vars, workerVars
<1> QED
    BY <1>1, <1>2, MainFrame, NextCases

\* A COMM_NEW_CONNECTED stays in the socketpair until RecvNew takes it.
LEMMA NewByteFrame ==
    ASSUME IInv, [Next]_vars, NEW w \in Workers, HasByte(w, COMM_NEW_CONNECTED)
    PROVE  HasByte(w, COMM_NEW_CONNECTED)' \/ RecvNew(w)
<1>t. TypeOK /\ comm_pipes[w] \in Seq(Bytes)
    BY DEF IInv, TypeOK
<1>b. COMM_NEW_CONNECTED \in Bytes /\ COMM_TERMINATE \in Bytes
      /\ COMM_NEW_CONNECTED # COMM_TERMINATE
    BY DEF Bytes, COMM_NEW_CONNECTED, COMM_TERMINATE
<1>1. PICK i \in 1..Len(comm_pipes[w]) : comm_pipes[w][i] = COMM_NEW_CONNECTED
    BY DEF HasByte
<1>2. CASE UNCHANGED comm_pipes
    BY <1>1, <1>2 DEF HasByte
<1>3. ASSUME NEW u \in Workers, NEW b \in Bytes, NEW l, SendByte(u, b, l)
      PROVE  HasByte(w, COMM_NEW_CONNECTED)'
    BY <1>t, <1>1, <1>3, ByteSent DEF HasByte
<1>4. CASE SendNew \/ SendTerm
    <2>1. cur_worker_ind \in Workers /\ termInd \in Workers
        BY <1>t DEF TypeOK
    <2> QED
        BY <1>3, <1>4, <1>b, <2>1 DEF SendNew, SendTerm
<1>5. ASSUME NEW v \in Workers, v # w, RecvNew(v) \/ RecvTerm(v)
      PROVE  HasByte(w, COMM_NEW_CONNECTED)'
    BY <1>t, <1>1, <1>5, ByteReceived DEF HasByte
<1>6. CASE RecvTerm(w)
    <2>1. i # 1
        BY <1>t, <1>b, <1>1, <1>6 DEF RecvTerm
    <2>2. i \in 2..Len(comm_pipes[w])
        BY <1>t, <1>1, <2>1
    <2> QED
        BY <1>t, <1>1, <1>6, <2>2, ByteReceived DEF HasByte
<1> QED
    BY <1>2, <1>4, <1>5, <1>6, PipesFrame

\* NoConnectionStranded: the byte that announces a queued connection is lost
\* only when another one is already in the socketpair.
LEMMA StrandedStep == IInv /\ [Next]_vars => NoConnectionStranded'
<1> SUFFICES ASSUME IInv, [Next]_vars, NEW w \in Workers,
                    comm_queues'[w] # <<>>, mainPc' \notin {"killed", "interrupted"}
             PROVE  \/ HasByte(w, COMM_NEW_CONNECTED)'
                    \/ wpc'[w] = "drain"
                    \/ mainPc' = "send" /\ cur_worker_ind' = w
    BY DEF NoConnectionStranded, Ended
<1>t. TypeOK /\ TermInv /\ comm_pipes[w] \in Seq(Bytes) /\ comm_queues[w] \in Seq(Conns)
    BY DEF IInv, TypeOK
<1>b. COMM_NEW_CONNECTED \in Bytes /\ Bytes = {COMM_NEW_CONNECTED, COMM_TERMINATE}
    BY DEF Bytes
<1>1. CASE Push /\ w = cur_worker_ind
    BY <1>1 DEF Push
<1>2. CASE comm_queues[w] # <<>>
    <2>1. \/ HasByte(w, COMM_NEW_CONNECTED)
          \/ wpc[w] = "drain"
          \/ mainPc = "send" /\ cur_worker_ind = w
        <3>1. ASSUME Ended
              PROVE  mainPc' \in {"killed", "interrupted"}
            BY <3>1, NextCases DEF Ended, Alive, vars, mainVars
        <3> QED
            BY <1>2, <3>1 DEF IInv, NoConnectionStranded
    <2>2. CASE HasByte(w, COMM_NEW_CONNECTED)
        <3>1. CASE RecvNew(w)
            BY <1>t, <3>1 DEF RecvNew, TypeOK
        <3> QED
            BY <2>2, <3>1, NewByteFrame
    <2>3. CASE wpc[w] = "drain"
        BY <1>t, <2>3, DrainFrame
    <2>4. CASE mainPc = "send" /\ cur_worker_ind = w
        <3>1. CASE SendNew
            <4>1. ~Told(w)
                BY <1>t, <2>4 DEF TermInv, TermPhase
            <4>2. wpc[w] # "exited"
                BY <1>t, <4>1 DEF TermInv, Told
            <4>3. SendByte(w, COMM_NEW_CONNECTED, "accept")
                BY <2>4, <3>1 DEF SendNew
            <4>4. comm_pipes'[w] # <<>> /\ comm_pipes'[w] \in Seq(Bytes)
                BY <1>t, <1>b, <4>2, <4>3, ByteSent, SendByteTypes DEF MainLabels, MainLoop
            <4>5. comm_pipes'[w][1] = COMM_NEW_CONNECTED
                <5>1. 1 \in 1..Len(comm_pipes'[w]) /\ comm_pipes'[w][1] \in Bytes
                    BY <4>4
                <5>2. ASSUME comm_pipes'[w][1] = COMM_TERMINATE
                      PROVE  FALSE
                    <6>1. Told(w)'
                        BY <5>1, <5>2 DEF Told, HasByte
                    <6>2. Told(w)
                        BY <3>1, <6>1, ToldStep DEF SendNew, SendTerm
                    <6> QED
                        BY <4>1, <6>2
                <5> QED
                    BY <1>b, <5>1, <5>2
            <4> QED
                BY <4>4, <4>5 DEF HasByte
        <3> QED
            BY <1>t, <2>4, <3>1, SendFrame
    <2> QED
        BY <2>1, <2>2, <2>3, <2>4
<1>3. CASE comm_queues[w] = <<>>
    <2>1. ASSUME NEW v \in Workers, TryPop(v)
          PROVE  FALSE
        BY <1>t, <1>3, <2>1 DEF TryPop, TypeOK
    <2>2. CASE Push
        BY <1>t, <1>1, <1>3, <2>2 DEF Push, TypeOK
    <2> QED
        BY <1>3, <2>1, <2>2, QueuesFrame
<1> QED
    BY <1>2, <1>3

\* NothingLeftAtExit: COMM_TERMINATE does not overtake a hand-over.
LEMMA ExitStep == IInv /\ [Next]_vars => NothingLeftAtExit'
<1> SUFFICES ASSUME IInv, [Next]_vars, NEW w \in loopexit'
             PROVE  comm_queues'[w] = <<>>
    BY DEF NothingLeftAtExit
<1>t. TypeOK /\ TypeOK' /\ TermInv /\ OrderInv /\ NothingLeftAtExit /\ w \in Workers
    BY TypeStep DEF IInv, TypeOK
<1>1. CASE RecvTerm(w)
    <2>1. /\ comm_pipes[w] \in Seq(Bytes) /\ comm_pipes[w] # <<>>
          /\ comm_pipes[w][1] = COMM_TERMINATE
          /\ wpc[w] = "recv"
          /\ comm_queues' = comm_queues
        BY <1>t, <1>1 DEF RecvTerm, TypeOK
    <2>2. ~HasByte(w, COMM_NEW_CONNECTED)
        <3>1. ASSUME NEW i \in 1..Len(comm_pipes[w]), comm_pipes[w][i] = COMM_NEW_CONNECTED
              PROVE  FALSE
            <4>1. i # 1 /\ 1 < i /\ 1 \in 1..Len(comm_pipes[w])
                BY <2>1, <3>1 DEF COMM_NEW_CONNECTED, COMM_TERMINATE
            <4> QED
                BY <1>t, <2>1, <3>1, <4>1 DEF OrderInv, COMM_NEW_CONNECTED, COMM_TERMINATE
        <3> QED
            BY <3>1 DEF HasByte
    <2>3. Told(w)
        BY <2>1 DEF Told, HasByte
    <2>4. mainPc # "send" /\ ~Ended
        <3>1. mainPc # "send"
            BY <1>t, <2>3 DEF TermInv, TermPhase
        <3>2. Alive
            <4>1. ~UNCHANGED vars
                BY <1>t, <2>1, <1>1 DEF RecvTerm, TypeOK, vars, workerVars
            <4> QED
                BY <4>1 DEF Next
        <3> QED
            BY <3>1, <3>2 DEF Alive, Ended
    <2> QED
        BY <1>t, <2>1, <2>2, <2>4 DEF IInv, NoConnectionStranded
<1>2. CASE w \in loopexit
    <2>1. comm_queues[w] = <<>> /\ Told(w)
        BY <1>t, <1>2 DEF NothingLeftAtExit, Told
    <2>2. ~Push
        BY <1>t, <2>1 DEF TermInv, TermPhase, Push
    <2>3. ASSUME NEW v \in Workers, TryPop(v)
          PROVE  comm_queues'[w] = comm_queues[w]
        BY <1>t, <2>1, <2>3 DEF TryPop, TypeOK
    <2> QED
        BY <2>1, <2>2, <2>3, QueuesFrame
<1>3. \A v \in Workers : RecvTerm(v) => v = w \/ w \in loopexit
    BY DEF RecvTerm
<1> QED
    BY <1>1, <1>2, <1>3, LoopexitFrame

\* KilledOnlyForACause: the main thread finds a worker gone only when it
\* tells it for the second time.
LEMMA KilledStep == IInv /\ [Next]_vars => KilledOnlyForACause'
<1> SUFFICES ASSUME IInv, [Next]_vars, mainPc' = "killed"
             PROVE  nsig' >= 2 \/ \E c \in Conns : peer'[c] = "broken"
    BY DEF KilledOnlyForACause
<1>t. TypeOK /\ TermInv /\ SigInv /\ KilledOnlyForACause /\ nsig \in Nat /\ sigBatch \in Nat
      /\ cur_worker_ind \in Workers /\ termInd \in Workers
      /\ concur \in Nat /\ Workers = 0..(concur - 1)
    BY ServerAssumption DEF IInv, TypeOK, Workers
<1>1. CASE UNCHANGED vars
    BY <1>t, <1>1 DEF vars, mainVars, clientVars, KilledOnlyForACause
<1>2. ASSUME Alive, NEW w \in Workers, WorkerStep(w)
      PROVE  \E c \in Conns : peer'[c] = "broken"
    BY <1>t, <1>2, WorkerFrame DEF Alive
<1>3. ASSUME Alive, Environment
      PROVE  FALSE
    BY <1>3 DEF Environment, Connect, ClientSend, ClientClose, ClientReset,
                SigInt, SigIntDefault, mainVars, Alive
<1>4. ASSUME Alive, MainStep
      PROVE  nsig' >= 2
    <2>1. SendNew \/ SendTerm
        BY <1>4 DEF MainStep, SpawnWorker, StartLoop, MainPoll, Accept, AcceptDone,
                    Push, LeaveLoop, Join, Alive
    <2>2. ASSUME SendNew
          PROVE  FALSE
        <3>1. wpc[cur_worker_ind] = "exited" /\ mainPc = "send"
            BY <2>2 DEF SendNew, SendByte
        <3> QED
            BY <1>t, <3>1 DEF TermInv, Told, TermPhase
    <2>3. CASE SendTerm
        <3>1. wpc[termInd] = "exited" /\ mainPc = "term" /\ nsig' = nsig
            BY <2>3 DEF SendTerm, SendByte
        <3>2. Told(termInd)
            BY <1>t, <3>1 DEF TermInv, Told
        <3> QED
            BY <1>t, <3>1, <3>2 DEF SigInv
    <2> QED
        BY <2>1, <2>2, <2>3
<1> QED
    BY <1>1, <1>2, <1>3, <1>4, NextCases

-----------------------------------------------------------------------------
\* The inductive invariant holds in every state.
LEMMA IInvAlways == Spec => []IInv
<1>1. IInv /\ [Next]_vars => IInv'
    BY TypeStep, StartStep, TermStep, OrderStep, SigStep, StrandedStep, ExitStep,
       KilledStep DEF IInv
<1> QED
    BY InitIInv, <1>1, PTL DEF Spec

\* conn_listener_cb and signal_event_cb only use indices of existing queues
\* and socketpairs, whatever the number of workers.
THEOREM TypeCorrect == Spec => []TypeOK
<1>1. IInv => TypeOK
    BY DEF IInv
<1> QED
    BY IInvAlways, <1>1, PTL

\* The hand-over of connections loses none, however many bytes the socketpair
\* has room for and however many of them are lost.
THEOREM HandOverIsSafe == Spec => []NoConnectionStranded
<1>1. IInv => NoConnectionStranded
    BY DEF IInv
<1> QED
    BY IInvAlways, <1>1, PTL

\* When main_msg_cb tells the loop to exit, the worker's queue is empty, and
\* it stays so.
THEOREM ExitLeavesNothing == Spec => []NothingLeftAtExit
<1>1. IInv => NothingLeftAtExit
    BY DEF IInv
<1> QED
    BY IInvAlways, <1>1, PTL

\* SIGPIPE needs a second SIGINT or a client's reset after its close.
THEOREM OneInterruptIsSafe == Spec => []KilledOnlyForACause
<1>1. IInv => KilledOnlyForACause
    BY DEF IInv
<1> QED
    BY IInvAlways, <1>1, PTL

\* No worker touches comm_queues while start_libev_adv_server still adds to it.
THEOREM NoReallocationUnderWorkers == Spec => []QueuesDoNotMove
<1>1. IInv => QueuesDoNotMove
    <2>1. IInv => spawned \in 0..concur /\ concur \in Nat
        BY ServerAssumption DEF IInv, TypeOK
    <2>2. IInv => StartInv
        BY DEF IInv
    <2> QED
        BY <2>1, <2>2 DEF StartInv, QueuesDoNotMove
<1> QED
    BY IInvAlways, <1>1, PTL
=============================================================================
