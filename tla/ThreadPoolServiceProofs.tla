---------------------- MODULE ThreadPoolServiceProofs ----------------------
(***************************************************************************)
(* More theorems about ThreadPoolServer: who holds a connection, how the   *)
(* connections are spread over the workers, and that the server implements *)
(* ConnectionService.                                                      *)
(***************************************************************************)
EXTENDS ThreadPoolServerProofs, FiniteSetTheorems

\* A connection gets an owner when it is pushed, and not before.
DealInv ==
    /\ mainPc = "push" => newFd \in Conns /\ cstate[newFd] = "accepted"
    /\ \A c \in Conns :
          cstate[c] \in {"new", "backlog", "accepted"} => owner[c] = Nobody

\* What is in a worker's queue is queued for that worker, and is there once.
QueueInv ==
    \A w \in Workers : \A i \in 1..Len(comm_queues[w]) :
        /\ cstate[comm_queues[w][i]] = "queued" /\ owner[comm_queues[w][i]] = w
        /\ \A j \in 1..Len(comm_queues[w]) : comm_queues[w][i] = comm_queues[w][j] => i = j

\* A connection that is queued is in the queue of its owner.
QueuedInv ==
    \A c \in Conns : cstate[c] = "queued" =>
        \E w \in Workers :
            owner[c] = w /\ \E i \in 1..Len(comm_queues[w]) : comm_queues[w][i] = c

\* The events of a batch are for connections the worker has open; outside a
\* batch there are none.
BatchInv ==
    \A w \in Workers :
        /\ \A c \in (active[w] \ {CommFd}) \cup writable[w] : ServedBy(c, w)
        /\ wpc[w] \in {"off", "poll", "exited"} => active[w] = {} /\ writable[w] = {}

\* The workers before position p have one connection more than the others; p
\* is the turn, or one further between the push and the move of the turn.
DealtUpTo(p, n) == \A w \in Workers : Dealt(w) = IF w < p THEN n + 1 ELSE n

TurnInv ==
    \E n \in Nat : \E p \in {cur_worker_ind, cur_worker_ind + 1} :
        /\ mainPc = "send" => p = cur_worker_ind + 1
        /\ mainPc \notin {"send", "killed", "interrupted"} => p = cur_worker_ind
        /\ DealtUpTo(p, n)

\* The inductive invariant: what HInv adds to IInv.
HInv ==
    /\ DealInv
    /\ QueueInv
    /\ QueuedInv
    /\ BatchInv
    /\ TurnInv

-----------------------------------------------------------------------------
\* The invariant holds at the start.
LEMMA InitHInv == Init => HInv
<1> SUFFICES ASSUME Init
             PROVE  HInv
    OBVIOUS
<1> USE ServerAssumption, NobodyAssumption DEF Init
<1>1. DealInv /\ QueuedInv /\ BatchInv
    BY DEF DealInv, QueuedInv, BatchInv
<1>2. QueueInv
    BY DEF QueueInv
<1>3. TurnInv
    <2>1. ASSUME NEW w \in Workers
          PROVE  Dealt(w) = 0
        <3>1. {c \in Conns : owner[c] = w} = {}
            OBVIOUS
        <3> QED
            BY <3>1, FS_EmptySet DEF Dealt
    <2>2. DealtUpTo(0, 0)
        BY <2>1 DEF DealtUpTo, Workers
    <2> QED
        BY <2>2 DEF TurnInv
<1> QED
    BY <1>1, <1>2, <1>3 DEF HInv

\* A connection moves on only by the steps listed here; every other step
\* leaves it, its owner and the one being dealt out alone.
LEMMA ConnFrame ==
    ASSUME [Next]_vars
    PROVE  \/ /\ UNCHANGED <<cstate, owner>>
              /\ mainPc' = "push" => mainPc = "push" /\ newFd' = newFd
           \/ \E c \in Conns : Connect(c) \/ Accept(c)
           \/ Push \/ LeaveLoop \/ Join
           \/ \E w \in Workers : TryPop(w)
           \/ \E w \in Workers : \E c \in Conns : ClientEventCb(w, c) \/ FlushError(w, c)
<1> USE DEF mainVars, commVars, workerVars, clientVars
<1>1. CASE Environment
    BY <1>1 DEF Environment, ClientSend, ClientClose, ClientReset, SigInt, SigIntDefault
<1>2. CASE MainStep
    <2>1. CASE SendNew \/ SendTerm
        BY <2>1 DEF SendNew, SendTerm, SendByte
    <2> QED
        BY <1>2, <2>1 DEF MainStep, SpawnWorker, StartLoop, MainPoll, AcceptDone
<1>3. ASSUME NEW w \in Workers, WorkerStep(w)
      PROVE  \/ /\ UNCHANGED <<cstate, owner>>
                /\ mainPc' = "push" => mainPc = "push" /\ newFd' = newFd
             \/ TryPop(w) \/ \E c \in Conns : ClientEventCb(w, c) \/ FlushError(w, c)
    BY <1>3 DEF WorkerStep, WorkerStart, WorkerPoll, ClientMsgCb, Flush, FlushBroken,
                MainMsgCb, RecvNew, RecvTerm, RecvAgain, TryPopEmpty, BatchDone
<1>4. CASE UNCHANGED vars
    BY <1>4 DEF vars
<1> QED
    BY <1>1, <1>2, <1>3, <1>4 DEF Next

\* A connection whose bufferevent is freed was open, with its owner.
LEMMA FreedWasServed ==
    ASSUME TypeOK, BatchInv, NEW w \in Workers, NEW c \in Conns,
           ClientEventCb(w, c) \/ FlushError(w, c)
    PROVE  /\ ServedBy(c, w)
           /\ cstate' = [cstate EXCEPT ![c] = "closed"]
           /\ active' = [active EXCEPT ![w] = @ \ {c}]
           /\ writable' = [writable EXCEPT ![w] = @ \ {c}]
           /\ UNCHANGED <<mainVars, owner, wpc, comm_queues>>
    BY ServerAssumption
       DEF BatchInv, ClientEventCb, FlushError, FreeBufferevent, commVars

\* The head of a worker's queue is queued for it.
LEMMA HeadIsQueued ==
    ASSUME TypeOK, QueueInv, NEW w \in Workers, TryPop(w)
    PROVE  /\ Head(comm_queues[w]) \in Conns
           /\ cstate[Head(comm_queues[w])] = "queued"
           /\ owner[Head(comm_queues[w])] = w
<1>1. comm_queues[w] \in Seq(Conns) /\ comm_queues[w] # <<>>
    BY DEF TypeOK, TryPop
<1>2. 1 \in 1..Len(comm_queues[w]) /\ Head(comm_queues[w]) = comm_queues[w][1]
    BY <1>1
<1> QED
    BY <1>1, <1>2 DEF QueueInv

\* At the end of the process nothing is queued and no event is left.
LEMMA NothingAtJoin ==
    ASSUME IInv, HInv, Join
    PROVE  /\ \A w \in Workers :
                 comm_queues[w] = <<>> /\ active[w] = {} /\ writable[w] = {}
           /\ \A c \in Conns : cstate[c] # "queued"
<1>1. \A w \in Workers : comm_queues[w] = <<>> /\ active[w] = {} /\ writable[w] = {}
    BY DEF IInv, HInv, TermInv, NothingLeftAtExit, BatchInv, Join
<1>2. \A w \in Workers : Len(comm_queues[w]) = 0
    BY <1>1
<1>3. \A c \in Conns : cstate[c] # "queued"
    BY <1>2 DEF HInv, QueuedInv
<1> QED
    BY <1>1, <1>3

\* Only a push deals a connection to a worker.
LEMMA DealStep == IInv /\ HInv /\ [Next]_vars => DealInv'
<1> SUFFICES ASSUME IInv, HInv, [Next]_vars
             PROVE  DealInv'
    OBVIOUS
<1>t. TypeOK /\ DealInv /\ QueueInv /\ BatchInv
    BY DEF IInv, HInv
<1> USE ServerAssumption DEF TypeOK, DealInv, mainVars, commVars, workerVars, clientVars
<1>1. CASE /\ UNCHANGED <<cstate, owner>>
           /\ mainPc' = "push" => mainPc = "push" /\ newFd' = newFd
    BY <1>t, <1>1
<1>2. ASSUME NEW c \in Conns, Connect(c) \/ Accept(c)
      PROVE  DealInv'
    <2>1. CASE Connect(c)
        BY <1>t, <2>1 DEF Connect
    <2>2. CASE Accept(c)
        BY <1>t, <2>2 DEF Accept
    <2> QED
        BY <1>2, <2>1, <2>2
<1>3. CASE Push
    BY <1>t, <1>3 DEF Push
<1>4. CASE LeaveLoop \/ Join
    BY <1>t, <1>4 DEF LeaveLoop, Join
<1>5. ASSUME NEW w \in Workers, TryPop(w)
      PROVE  DealInv'
    <2>1. /\ cstate[Head(comm_queues[w])] = "queued"
          /\ cstate' = [cstate EXCEPT ![Head(comm_queues[w])] = "open"]
          /\ UNCHANGED <<mainPc, newFd, owner>>
        BY <1>t, <1>5, HeadIsQueued DEF TryPop
    <2>2. \A c \in Conns : cstate'[c] = cstate[c] \/ (cstate[c] = "queued" /\ cstate'[c] = "open")
        BY <1>t, <2>1
    <2> QED
        BY <1>t, <2>1, <2>2
<1>6. ASSUME NEW w \in Workers, NEW c \in Conns, ClientEventCb(w, c) \/ FlushError(w, c)
      PROVE  DealInv'
    <2>1. /\ cstate[c] = "open" /\ cstate' = [cstate EXCEPT ![c] = "closed"]
          /\ owner' = owner /\ mainPc' = mainPc /\ newFd' = newFd
        BY <1>t, <1>6, FreedWasServed DEF ServedBy
    <2> QED
        BY <1>t, <2>1
<1> QED
    BY <1>1, <1>2, <1>3, <1>4, <1>5, <1>6, ConnFrame

\* A push and a try_pop keep queue and connections in agreement.
LEMMA QueueStep == IInv /\ HInv /\ [Next]_vars => QueueInv' /\ QueuedInv'
<1> SUFFICES ASSUME IInv, HInv, [Next]_vars
             PROVE  QueueInv' /\ QueuedInv'
    OBVIOUS
<1>t. TypeOK /\ DealInv /\ QueueInv /\ QueuedInv /\ BatchInv
    BY DEF IInv, HInv
<1>q. \A w \in Workers : comm_queues[w] \in Seq(Conns)
    BY <1>t DEF TypeOK
<1>s. \A w \in Workers : \A i \in 1..Len(comm_queues[w]) : comm_queues[w][i] \in Conns
    BY <1>q
<1> USE DEF mainVars, commVars, workerVars, clientVars
\* A step that leaves the queues alone, and what is in them.
<1>k. ASSUME comm_queues' = comm_queues, owner' = owner,
             \A c \in Conns : cstate'[c] = "queued" <=> cstate[c] = "queued"
      PROVE  QueueInv' /\ QueuedInv'
    <2>1. QueueInv'
        BY <1>t, <1>s, <1>k DEF QueueInv
    <2>2. QueuedInv'
        BY <1>t, <1>k DEF QueuedInv
    <2> QED
        BY <2>1, <2>2
<1>1. CASE UNCHANGED <<cstate, owner>> /\ UNCHANGED comm_queues
    BY <1>1, <1>k
<1>2. ASSUME NEW c \in Conns, Connect(c) \/ Accept(c)
      PROVE  QueueInv' /\ QueuedInv'
    BY <1>t, <1>2, <1>k DEF Connect, Accept, TypeOK
<1>3. CASE LeaveLoop
    BY <1>t, <1>3, <1>k DEF LeaveLoop, TypeOK
<1>4. CASE Join
    <2>1. comm_queues' = comm_queues /\ owner' = owner
        BY <1>4 DEF Join
    <2>2. \A c \in Conns : cstate[c] # "queued" /\ cstate'[c] # "queued"
        BY <1>4, NothingAtJoin DEF Join
    <2> QED
        BY <2>1, <2>2, <1>k
<1>5. ASSUME NEW w \in Workers, NEW c \in Conns, ClientEventCb(w, c) \/ FlushError(w, c)
      PROVE  QueueInv' /\ QueuedInv'
    <2>1. /\ cstate[c] = "open" /\ cstate' = [cstate EXCEPT ![c] = "closed"]
          /\ owner' = owner /\ comm_queues' = comm_queues
        BY <1>t, <1>5, FreedWasServed DEF ServedBy
    <2> QED
        BY <1>t, <2>1, <1>k DEF TypeOK
<1>6. CASE Push
    <2> DEFINE u == cur_worker_ind
               q == comm_queues[u]
    <2>1. /\ u \in Workers /\ newFd \in Conns /\ cstate[newFd] = "accepted"
          /\ cstate' = [cstate EXCEPT ![newFd] = "queued"]
          /\ owner' = [owner EXCEPT ![newFd] = u]
          /\ comm_queues' = [comm_queues EXCEPT ![u] = Append(q, newFd)]
        BY <1>t, <1>6 DEF Push, DealInv, TypeOK
    <2>2. q \in Seq(Conns)
        BY <1>q, <2>1
    <2>3. comm_queues'[u] = Append(q, newFd) /\ \A w \in Workers \ {u} : comm_queues'[w] = comm_queues[w]
        BY <1>t, <2>1 DEF TypeOK
    <2>4. /\ Len(comm_queues'[u]) = Len(q) + 1 /\ comm_queues'[u][Len(q) + 1] = newFd
          /\ \A i \in 1..Len(q) : comm_queues'[u][i] = q[i]
        BY <2>1, <2>2, <2>3
    <2>5. \A w \in Workers : \A i \in 1..Len(comm_queues[w]) : comm_queues[w][i] # newFd
        BY <1>t, <2>1 DEF QueueInv
    <2>6. /\ cstate'[newFd] = "queued" /\ owner'[newFd] = u
          /\ \A c \in Conns \ {newFd} : cstate'[c] = cstate[c] /\ owner'[c] = owner[c]
        BY <1>t, <2>1 DEF TypeOK
    <2>n. Len(q) \in Nat
        BY <2>2
    <2> HIDE DEF u, q
    <2>7. QueueInv'
        <3> SUFFICES ASSUME NEW w \in Workers, NEW i \in 1..Len(comm_queues'[w])
                     PROVE  /\ cstate'[comm_queues'[w][i]] = "queued"
                            /\ owner'[comm_queues'[w][i]] = w
                            /\ \A j \in 1..Len(comm_queues'[w]) :
                                  comm_queues'[w][i] = comm_queues'[w][j] => i = j
            BY DEF QueueInv
        <3>1. CASE w # u
            BY <1>t, <1>s, <2>3, <2>5, <2>6, <3>1 DEF QueueInv
        <3>2. CASE w = u /\ i \in 1..Len(q)
            BY <1>t, <1>s, <2>1, <2>4, <2>5, <2>6, <2>n, <3>2 DEF QueueInv, q
        <3>3. CASE w = u /\ i = Len(q) + 1
            BY <2>1, <2>4, <2>5, <2>6, <2>n, <3>3 DEF q
        <3> QED
            BY <2>4, <2>n, <3>1, <3>2, <3>3
    <2>8. QueuedInv'
        <3> SUFFICES ASSUME NEW c \in Conns, cstate'[c] = "queued"
                     PROVE  \E w \in Workers : owner'[c] = w /\
                              \E i \in 1..Len(comm_queues'[w]) : comm_queues'[w][i] = c
            BY DEF QueuedInv
        <3>1. CASE c = newFd
            <4>1. Len(q) + 1 \in 1..Len(comm_queues'[u])
                BY <2>4, <2>n
            <4> QED
                BY <2>1, <2>4, <2>6, <3>1, <4>1
        <3>2. CASE c # newFd
            <4>1. PICK w \in Workers : owner[c] = w /\
                          \E i \in 1..Len(comm_queues[w]) : comm_queues[w][i] = c
                BY <1>t, <2>6, <3>2 DEF QueuedInv
            <4>2. \E i \in 1..Len(comm_queues'[w]) : comm_queues'[w][i] = c
                BY <2>3, <2>4, <2>n, <4>1 DEF q
            <4> QED
                BY <2>6, <3>2, <4>1, <4>2
        <3> QED
            BY <3>1, <3>2
    <2> QED
        BY <2>7, <2>8
<1>7. ASSUME NEW v \in Workers, TryPop(v)
      PROVE  QueueInv' /\ QueuedInv'
    <2> DEFINE q == comm_queues[v]
               h == Head(q)
    <2>1. h \in Conns /\ cstate[h] = "queued" /\ owner[h] = v
        BY <1>t, <1>7, HeadIsQueued
    <2>2. q \in Seq(Conns) /\ q # <<>>
        BY <1>q, <1>7 DEF TryPop
    <2>3. comm_queues'[v] = Tail(q) /\ \A w \in Workers \ {v} : comm_queues'[w] = comm_queues[w]
        BY <1>t, <1>7 DEF TypeOK, TryPop
    <2>4. /\ Len(q) \in Nat \ {0} /\ h = q[1]
          /\ Len(comm_queues'[v]) = Len(q) - 1
          /\ \A i \in 1..(Len(q) - 1) : comm_queues'[v][i] = q[i + 1]
        BY <2>2, <2>3
    <2>5. /\ cstate'[h] = "open" /\ owner' = owner
          /\ \A c \in Conns \ {h} : cstate'[c] = cstate[c]
        BY <1>t, <1>7, <2>1 DEF TypeOK, TryPop
    <2> HIDE DEF q, h
    <2>6. \A i \in 1..Len(q) : q[i] = h => i = 1
        BY <1>t, <2>4 DEF QueueInv, q
    <2>7. QueueInv'
        <3> SUFFICES ASSUME NEW w \in Workers, NEW i \in 1..Len(comm_queues'[w])
                     PROVE  /\ cstate'[comm_queues'[w][i]] = "queued"
                            /\ owner'[comm_queues'[w][i]] = w
                            /\ \A j \in 1..Len(comm_queues'[w]) :
                                  comm_queues'[w][i] = comm_queues'[w][j] => i = j
            BY DEF QueueInv
        <3>1. CASE w # v
            <4>1. comm_queues'[w] = comm_queues[w] /\ comm_queues[w][i] \in Conns \ {h}
                BY <1>t, <1>s, <2>1, <2>3, <3>1 DEF QueueInv
            <4> QED
                BY <1>t, <2>5, <4>1 DEF QueueInv
        <3>2. CASE w = v
            <4>1. i + 1 \in 1..Len(q) /\ comm_queues'[w][i] = q[i + 1] /\ i + 1 # 1
                BY <2>4, <3>2
            <4>2. q[i + 1] \in Conns \ {h}
                BY <1>s, <2>6, <4>1 DEF q
            <4>3. cstate'[q[i + 1]] = "queued" /\ owner'[q[i + 1]] = v
                BY <1>t, <2>5, <4>1, <4>2 DEF QueueInv, q
            <4>4. ASSUME NEW j \in 1..Len(comm_queues'[w]), comm_queues'[w][i] = comm_queues'[w][j]
                  PROVE  i = j
                <5>1. j + 1 \in 1..Len(q) /\ q[i + 1] = q[j + 1]
                    BY <2>4, <3>2, <4>1, <4>4
                <5>2. i + 1 = j + 1
                    BY <1>t, <4>1, <5>1 DEF QueueInv, q
                <5> QED
                    BY <5>2, <2>4, <3>2
            <4> QED
                BY <3>2, <4>1, <4>3, <4>4
        <3> QED
            BY <3>1, <3>2
    <2>8. QueuedInv'
        <3> SUFFICES ASSUME NEW c \in Conns, cstate'[c] = "queued"
                     PROVE  \E w \in Workers : owner'[c] = w /\
                              \E i \in 1..Len(comm_queues'[w]) : comm_queues'[w][i] = c
            BY DEF QueuedInv
        <3>1. c # h /\ cstate[c] = "queued"
            BY <2>5
        <3>2. PICK w \in Workers : owner[c] = w /\
                      \E i \in 1..Len(comm_queues[w]) : comm_queues[w][i] = c
            BY <1>t, <3>1 DEF QueuedInv
        <3>3. PICK i \in 1..Len(comm_queues[w]) : comm_queues[w][i] = c
            BY <3>2
        <3>4. CASE w # v
            BY <2>3, <2>5, <3>2, <3>4
        <3>5. CASE w = v
            <4>1. i # 1
                BY <2>4, <3>1, <3>3, <3>5 DEF q
            <4>2. i - 1 \in 1..(Len(q) - 1) /\ comm_queues'[v][i - 1] = q[i]
                BY <2>4, <3>3, <3>5, <4>1 DEF q
            <4> QED
                BY <2>4, <2>5, <3>2, <3>3, <3>5, <4>2 DEF q
        <3> QED
            BY <3>4, <3>5
    <2> QED
        BY <2>7, <2>8
<1> QED
    BY <1>1, <1>2, <1>3, <1>4, <1>5, <1>6, <1>7, ConnFrame, QueuesFrame

\* The callback that frees a connection withdraws its other events.
LEMMA BatchStep == IInv /\ HInv /\ [Next]_vars => BatchInv'
<1> SUFFICES ASSUME IInv, HInv, [Next]_vars
             PROVE  BatchInv'
    OBVIOUS
<1>t. TypeOK /\ DealInv /\ QueueInv /\ BatchInv
    BY DEF IInv, HInv
<1> USE ServerAssumption DEF TypeOK, BatchInv, ServedBy, mainVars, commVars, workerVars, clientVars
<1>k. ASSUME UNCHANGED <<wpc, active, writable>>,
             \A c \in Conns : cstate[c] = "open" => cstate'[c] = "open" /\ owner'[c] = owner[c]
      PROVE  BatchInv'
    <2>1. \A w \in Workers : \A c \in (active[w] \ {CommFd}) \cup writable[w] : c \in Conns
        BY <1>t
    <2> QED
        BY <1>t, <1>k, <2>1
<1>1. CASE Environment
    <2>1. UNCHANGED <<wpc, active, writable, owner>>
        BY <1>1 DEF Environment, Connect, ClientSend, ClientClose, ClientReset, SigInt,
                    SigIntDefault
    <2>2. \A c \in Conns : cstate[c] = "open" => cstate'[c] = "open"
        BY <1>t, <1>1 DEF Environment, Connect, ClientSend, ClientClose, ClientReset,
                          SigInt, SigIntDefault
    <2> QED
        BY <1>k, <2>1, <2>2
<1>2. CASE SpawnWorker \/ StartLoop \/ MainPoll \/ AcceptDone \/ SendNew \/ SendTerm
    BY <1>2, <1>k DEF SpawnWorker, StartLoop, MainPoll, AcceptDone, SendNew, SendTerm
<1>3. ASSUME NEW c \in Conns, Accept(c)
      PROVE  BatchInv'
    BY <1>t, <1>3, <1>k DEF Accept
<1>4. CASE Push
    BY <1>t, <1>4, <1>k DEF Push, DealInv
<1>5. CASE LeaveLoop
    BY <1>t, <1>5, <1>k DEF LeaveLoop
<1>6. CASE Join
    BY <1>6, NothingAtJoin DEF Join
<1>7. ASSUME NEW w \in Workers, WorkerStart(w) \/ BatchDone(w)
      PROVE  BatchInv'
    <2>1. /\ UNCHANGED <<active, writable, cstate, owner>>
          /\ active[w] = {} /\ writable[w] = {}
          /\ \A v \in Workers \ {w} : wpc'[v] = wpc[v]
        BY <1>t, <1>7 DEF WorkerStart, BatchDone
    <2> QED
        BY <1>t, <2>1
<1>8. ASSUME NEW w \in Workers, WorkerPoll(w)
      PROVE  BatchInv'
    <2>1. \A c \in (ReadyEvents(w) \ {CommFd}) \cup ReadyWrites(w) : ServedBy(c, w)
        BY DEF ReadyEvents, ReadyWrites
    <2> QED
        BY <1>t, <1>8, <2>1 DEF WorkerPoll
<1>9. ASSUME NEW w \in Workers, NEW c \in Conns, NEW n, NEW k, ClientMsgCb(w, c, n, k)
      PROVE  BatchInv'
    BY <1>t, <1>9 DEF ClientMsgCb
<1>10. ASSUME NEW w \in Workers, NEW c \in Conns, Flush(w, c)
       PROVE  BatchInv'
    BY <1>t, <1>10 DEF Flush
<1>11. ASSUME NEW w \in Workers, NEW c \in Conns, FlushBroken(w, c)
       PROVE  BatchInv'
    BY <1>t, <1>11, <1>k DEF FlushBroken
<1>12. ASSUME NEW w \in Workers, NEW c \in Conns, ClientEventCb(w, c) \/ FlushError(w, c)
       PROVE  BatchInv'
    <2>1. /\ cstate[c] = "open" /\ owner[c] = w
          /\ cstate' = [cstate EXCEPT ![c] = "closed"]
          /\ active' = [active EXCEPT ![w] = @ \ {c}]
          /\ writable' = [writable EXCEPT ![w] = @ \ {c}]
          /\ owner' = owner /\ wpc' = wpc
        BY <1>t, <1>12, FreedWasServed
    <2>2. \A v \in Workers : \A d \in (active'[v] \ {CommFd}) \cup writable'[v] :
             d # c /\ d \in (active[v] \ {CommFd}) \cup writable[v]
        BY <1>t, <2>1
    <2> QED
        BY <1>t, <2>1, <2>2
<1>13. ASSUME NEW w \in Workers,
              MainMsgCb(w) \/ RecvNew(w) \/ RecvTerm(w) \/ RecvAgain(w) \/ TryPopEmpty(w)
       PROVE  BatchInv'
    <2>a. /\ UNCHANGED <<writable, cstate, owner>>
          /\ active' = active \/ active' = [active EXCEPT ![w] = @ \ {CommFd}]
          /\ \E l \in {"batch", "recv", "drain"} : wpc' = [wpc EXCEPT ![w] = l]
        BY <1>13 DEF MainMsgCb, RecvNew, RecvTerm, RecvAgain, TryPopEmpty
    <2>1. /\ UNCHANGED <<writable, cstate, owner>>
          /\ active' = active \/ active' = [active EXCEPT ![w] = @ \ {CommFd}]
          /\ wpc'[w] \in {"batch", "recv", "drain"}
          /\ \A v \in Workers \ {w} : wpc'[v] = wpc[v]
        BY <1>t, <2>a
    <2>2. CASE active' = active
        BY <1>t, <2>1, <2>2
    <2>3. CASE active' = [active EXCEPT ![w] = @ \ {CommFd}]
        <3>1. active'[w] = active[w] \ {CommFd} /\ \A v \in Workers \ {w} : active'[v] = active[v]
            BY <1>t, <2>3
        <3>2. ASSUME NEW v \in Workers
              PROVE  /\ \A c \in (active'[v] \ {CommFd}) \cup writable'[v] : ServedBy(c, v)'
                     /\ wpc'[v] \in {"off", "poll", "exited"} => active'[v] = {} /\ writable'[v] = {}
            <4>1. CASE v = w
                BY <1>t, <2>1, <3>1, <4>1
            <4>2. CASE v # w
                BY <1>t, <2>1, <3>1, <4>2
            <4> QED
                BY <4>1, <4>2
        <3> QED
            BY <3>2
    <2> QED
        BY <2>1, <2>2, <2>3
<1>14. ASSUME NEW w \in Workers, TryPop(w)
       PROVE  BatchInv'
    <2>1. /\ UNCHANGED <<wpc, active, writable, owner>>
          /\ cstate' = [cstate EXCEPT ![Head(comm_queues[w])] = "open"]
        BY <1>14 DEF TryPop
    <2>2. \A c \in Conns : cstate[c] = "open" => cstate'[c] = "open"
        BY <1>t, <2>1
    <2> QED
        BY <1>k, <2>1, <2>2
<1>15. CASE UNCHANGED vars
    BY <1>15, <1>k DEF vars
<1> QED
    BY <1>1, <1>2, <1>3, <1>4, <1>5, <1>6, <1>7, <1>8, <1>9, <1>10, <1>11, <1>12,
       <1>13, <1>14, <1>15 DEF Next, MainStep, WorkerStep

\* Only Push gives a connection an owner.
LEMMA OwnerFrame == [Next]_vars => UNCHANGED owner \/ Push
<1> SUFFICES ASSUME [Next]_vars
             PROVE  UNCHANGED owner \/ Push
    OBVIOUS
<1> USE DEF mainVars, commVars, workerVars, clientVars
<1>1. CASE Environment
    BY <1>1 DEF Environment, Connect, ClientSend, ClientClose, ClientReset, SigInt,
                SigIntDefault
<1>2. CASE MainStep
    BY <1>2 DEF MainStep, SpawnWorker, StartLoop, MainPoll, Accept, AcceptDone, SendNew,
                SendTerm, LeaveLoop, Join
<1>3. ASSUME NEW w \in Workers, WorkerStep(w)
      PROVE  UNCHANGED owner
    BY <1>3 DEF WorkerStep, WorkerStart, WorkerPoll, ClientMsgCb, ClientEventCb, Flush,
                FlushError, FlushBroken, MainMsgCb, RecvNew, RecvTerm, RecvAgain, TryPop,
                TryPopEmpty, BatchDone
<1>4. CASE UNCHANGED vars
    BY <1>4 DEF vars
<1> QED
    BY <1>1, <1>2, <1>3, <1>4 DEF Next

\* The turn moves only with SendNew; the main thread comes to "send" only by
\* Push and leaves it only by SendNew, or for good.
LEMMA TurnFrame ==
    ASSUME TypeOK, [Next]_vars
    PROVE  \/ Push \/ SendNew
           \/ /\ UNCHANGED cur_worker_ind
              /\ \/ mainPc' \in {"killed", "interrupted"}
                 \/ mainPc' = "send" /\ mainPc = "send"
                 \/ mainPc' # "send" /\ mainPc \notin {"send", "killed", "interrupted"}
<1> USE DEF TypeOK, mainVars, commVars, workerVars, clientVars
<1>1. CASE Environment /\ Alive
    BY <1>1 DEF Environment, Connect, ClientSend, ClientClose, ClientReset, SigInt,
                SigIntDefault, Alive
<1>2. CASE MainStep /\ Alive
    <2>1. CASE SendTerm
        BY <2>1 DEF SendTerm, SendByte
    <2> QED
        BY <1>2, <2>1 DEF MainStep, SpawnWorker, StartLoop, MainPoll, Accept, AcceptDone,
                          LeaveLoop, Join, Alive
<1>3. ASSUME NEW w \in Workers, WorkerStep(w), Alive
      PROVE  /\ UNCHANGED cur_worker_ind
             /\ mainPc' = mainPc \/ mainPc' = "killed"
    BY <1>3, WorkerFrame
<1>4. CASE UNCHANGED vars
    BY <1>4 DEF vars
<1> QED
    BY <1>1, <1>2, <1>3, <1>4 DEF Next, Alive

\* A push goes to the worker whose turn it is, and the turn moves on.
LEMMA TurnStep == IInv /\ HInv /\ [Next]_vars => TurnInv'
<1> SUFFICES ASSUME IInv, HInv, [Next]_vars
             PROVE  TurnInv'
    OBVIOUS
<1>t. TypeOK /\ DealInv /\ cur_worker_ind \in Workers /\ concur \in Nat \ {0}
    BY ServerAssumption DEF IInv, HInv, TypeOK
<1>1. PICK n \in Nat : \E p \in {cur_worker_ind, cur_worker_ind + 1} :
          /\ mainPc = "send" => p = cur_worker_ind + 1
          /\ mainPc \notin {"send", "killed", "interrupted"} => p = cur_worker_ind
          /\ DealtUpTo(p, n)
    BY DEF HInv, TurnInv
<1>2. PICK p \in {cur_worker_ind, cur_worker_ind + 1} :
          /\ mainPc = "send" => p = cur_worker_ind + 1
          /\ mainPc \notin {"send", "killed", "interrupted"} => p = cur_worker_ind
          /\ DealtUpTo(p, n)
    BY <1>1
<1>3. CASE Push
    <2>1. p = cur_worker_ind
        BY <1>2, <1>3 DEF Push
    <2>2. ASSUME NEW w \in Workers
          PROVE  Dealt(w)' = IF w = cur_worker_ind THEN Dealt(w) + 1 ELSE Dealt(w)
        <3> DEFINE D == {c \in Conns : owner[c] = w}
        <3>1. newFd \in Conns /\ owner[newFd] = Nobody
            BY <1>t, <1>3 DEF Push, DealInv
        <3>2. newFd \notin D
            BY <3>1, NobodyAssumption
        <3>3. IsFiniteSet(D)
            BY ServerAssumption, FS_Subset
        <3>4. {c \in Conns : owner'[c] = w} =
                  IF w = cur_worker_ind THEN D \cup {newFd} ELSE D
            BY <1>t, <1>3, <3>1, <3>2 DEF Push, TypeOK
        <3>5. Cardinality(D \cup {newFd}) = Cardinality(D) + 1
            BY <3>2, <3>3, FS_AddElement
        <3> QED
            BY <3>4, <3>5 DEF Dealt
    <2>3. \A w \in Workers : Dealt(w)' = IF w < cur_worker_ind + 1 THEN n + 1 ELSE n
        BY <1>t, <1>2, <2>1, <2>2 DEF DealtUpTo, Workers
    <2>4. mainPc' = "send" /\ cur_worker_ind' = cur_worker_ind
        BY <1>3 DEF Push
    <2> QED
        BY <2>3, <2>4 DEF TurnInv, DealtUpTo
<1>4. CASE owner' = owner
    <2>1. \A w \in Workers : Dealt(w)' = Dealt(w)
        BY <1>4 DEF Dealt
    <2>2. DealtUpTo(p, n)'
        BY <1>2, <2>1 DEF DealtUpTo
    <2>3. CASE SendNew
        <3>1. p = cur_worker_ind + 1 /\ mainPc' \in {"accept", "killed"}
            BY <1>2, <2>3 DEF SendNew, SendByte
        <3>2. CASE cur_worker_ind + 1 >= concur
            <4>1. cur_worker_ind' = 0
                BY <2>3, <3>2 DEF SendNew
            <4>2. DealtUpTo(0, n + 1)'
                BY <1>t, <2>2, <3>1, <3>2 DEF DealtUpTo, Workers
            <4> QED
                BY <3>1, <4>1, <4>2 DEF TurnInv, DealtUpTo
        <3>3. CASE ~ (cur_worker_ind + 1 >= concur)
            <4>1. cur_worker_ind' = p
                BY <2>3, <3>1, <3>3 DEF SendNew
            <4> QED
                BY <2>2, <3>1, <4>1 DEF TurnInv, DealtUpTo
        <3> QED
            BY <3>2, <3>3
    <2>4. CASE /\ UNCHANGED cur_worker_ind
               /\ \/ mainPc' \in {"killed", "interrupted"}
                  \/ mainPc' = "send" /\ mainPc = "send"
                  \/ mainPc' # "send" /\ mainPc \notin {"send", "killed", "interrupted"}
        BY <1>2, <2>2, <2>4 DEF TurnInv, DealtUpTo
    <2> QED
        BY <1>t, <1>3, <2>3, <2>4, TurnFrame
<1> QED
    BY <1>3, <1>4, OwnerFrame

\* Both invariants hold in every state.
LEMMA Always == Spec => [](IInv /\ HInv)
<1>1. IInv /\ HInv /\ [Next]_vars => HInv'
    BY DealStep, QueueStep, BatchStep, TurnStep DEF HInv
<1> QED
    BY <1>1, InitHInv, IInvAlways, PTL DEF Spec

\* At every moment a connection that has been dealt out is in exactly one
\* place, and no callback runs for a bufferevent that has been freed, for any
\* number of connections and workers.
THEOREM HeldOnce == Spec => []OneHolder
<1>1. IInv /\ HInv => OneHolder
    <2> SUFFICES ASSUME IInv, HInv
                 PROVE  OneHolder
        OBVIOUS
    <2>t. TypeOK /\ QueueInv /\ QueuedInv /\ BatchInv
        BY DEF IInv, HInv
    <2>1. ASSUME NEW w \in Workers, NEW c \in Conns
          PROVE  Cardinality({i \in 1..Len(comm_queues[w]) : comm_queues[w][i] = c})
                    = IF cstate[c] = "queued" /\ owner[c] = w THEN 1 ELSE 0
        <3> DEFINE At == {i \in 1..Len(comm_queues[w]) : comm_queues[w][i] = c}
        <3>1. CASE cstate[c] = "queued" /\ owner[c] = w
            <4>1. PICK i \in 1..Len(comm_queues[w]) : comm_queues[w][i] = c
                BY <2>t, <3>1 DEF QueuedInv
            <4>2. At = {i}
                BY <2>t, <4>1 DEF QueueInv
            <4> QED
                BY <3>1, <4>2, FS_Singleton
        <3>2. CASE ~ (cstate[c] = "queued" /\ owner[c] = w)
            <4>1. At = {}
                BY <2>t, <3>2 DEF QueueInv
            <4> QED
                BY <3>2, <4>1, FS_EmptySet
        <3> QED
            BY <3>1, <3>2
    <2> QED
        BY <2>t, <2>1 DEF OneHolder, BatchInv
<1> QED
    BY <1>1, Always, PTL

\* No worker is ever two connections ahead of another, whatever the number of
\* workers and wherever in the two steps of a hand-over the server is looked at.
THEOREM DealtRoundRobin == Spec => []RoundRobin
<1>1. IInv /\ HInv => RoundRobin
    <2> SUFFICES ASSUME IInv, HInv, NEW v \in Workers, NEW w \in Workers
                 PROVE  Dealt(v) <= Dealt(w) + 1
        BY DEF RoundRobin
    <2>1. PICK n \in Nat : \E p \in {cur_worker_ind, cur_worker_ind + 1} : DealtUpTo(p, n)
        BY DEF HInv, TurnInv
    <2> QED
        BY <2>1 DEF DealtUpTo
<1> QED
    BY <1>1, Always, PTL

-----------------------------------------------------------------------------
(* ThreadPoolServer implements ConnectionService. *)

\* A server that stops, or has been killed, does not start again.
LEMMA StoppingStays == [Next]_vars /\ Stopping => Stopping'
<1> SUFFICES ASSUME [Next]_vars, Stopping
             PROVE  Stopping'
    OBVIOUS
<1> USE DEF Stopping, Alive, mainVars, commVars, workerVars, clientVars
<1>1. CASE Alive /\ Environment
    BY <1>1 DEF Environment, Connect, ClientSend, ClientClose, ClientReset, SigInt,
                SigIntDefault
<1>2. CASE Alive /\ MainStep
    BY <1>2 DEF MainStep, SpawnWorker, StartLoop, MainPoll, Accept, AcceptDone, Push,
                SendNew, SendTerm, LeaveLoop, Join
<1>3. ASSUME Alive, NEW w \in Workers, WorkerStep(w)
      PROVE  Stopping'
    BY <1>3 DEF WorkerStep, WorkerStart, WorkerPoll, ClientMsgCb, ClientEventCb, Flush,
                FlushError, FlushBroken, MainMsgCb, RecvNew, RecvTerm, RecvAgain, TryPop,
                TryPopEmpty, BatchDone
<1>4. CASE UNCHANGED vars
    BY <1>4 DEF vars
<1> QED
    BY <1>1, <1>2, <1>3, <1>4 DEF Next

\* A step after which every connection is at the same stage and with the same
\* handler is a stutter of the service, or the moment it begins to stop.
LEMMA QuietMaps ==
    ASSUME Stage' = Stage, Handler' = Handler, Stopping => Stopping'
    PROVE  [Service!Next]_(Service!vars)
<1>1. CASE Stopping' = Stopping
    BY <1>1 DEF Service!vars
<1>2. CASE Stopping' /\ ~Stopping
    <2>1. Stage' = [c \in Conns |-> IF c \in {} THEN "closed" ELSE Stage[c]]
        BY DEF Stage
    <2>2. Service!Stop({})
        BY <1>2, <2>1 DEF Service!Stop, Stopping
    <2> QED
        BY <2>2 DEF Service!Next
<1> QED
    BY <1>1, <1>2 DEF Stopping

\* When the server stops, the connections it closes in that step are dropped.
LEMMA StopMaps ==
    ASSUME NEW S \in SUBSET Conns, Stopping', Handler' = Handler,
           cstate' = [c \in Conns |-> IF c \in S THEN "closed" ELSE cstate[c]],
           \A c \in S : cstate[c] \in {"backlog", "accepted", "queued", "open"}
    PROVE  [Service!Next]_(Service!vars)
<1>1. Stage' = [c \in Conns |-> IF c \in S THEN "closed" ELSE Stage[c]]
    BY DEF Stage
<1>2. \A c \in S : Stage[c] \in {"pending", "served"}
    BY DEF Stage
<1>3. Service!Stop(S)
    BY <1>1, <1>2 DEF Service!Stop, Stopping
<1> QED
    BY <1>3 DEF Service!Next

\* Every step is a step of ConnectionService or none.
LEMMA ServiceStep == IInv /\ HInv /\ [Next]_vars => [Service!Next]_(Service!vars)
<1> SUFFICES ASSUME IInv, HInv, [Next]_vars
             PROVE  [Service!Next]_(Service!vars)
    OBVIOUS
<1>t. TypeOK /\ DealInv /\ QueueInv /\ BatchInv
    BY DEF IInv, HInv
<1>s. Stopping => Stopping'
    BY StoppingStays
<1> USE DEF mainVars, commVars, workerVars, clientVars
<1>1. CASE UNCHANGED <<cstate, owner>>
    <2>1. Stage' = Stage /\ Handler' = Handler
        BY <1>1 DEF Stage, Handler
    <2> QED
        BY <1>s, <2>1, QuietMaps
<1>2. ASSUME NEW c \in Conns, Connect(c)
      PROVE  [Service!Next]_(Service!vars)
    <2>1. Stage' = [Stage EXCEPT ![c] = "pending"] /\ Stage[c] = "outside"
        BY <1>t, <1>2 DEF Connect, Stage, TypeOK
    <2>2. Handler' = Handler
        BY <1>t, <1>2 DEF Connect, Handler, TypeOK
    <2>3. ~Stopping /\ Stopping' = Stopping
        BY <1>2 DEF Connect, Stopping, MainLoop
    <2>4. Service!Arrive(c)
        BY <2>1, <2>2, <2>3 DEF Service!Arrive
    <2> QED
        BY <2>4 DEF Service!Next
<1>3. ASSUME NEW c \in Conns, Accept(c)
      PROVE  [Service!Next]_(Service!vars)
    <2>1. Stage' = Stage
        BY <1>t, <1>3 DEF Accept, Stage, TypeOK
    <2>2. Handler' = Handler
        BY <1>t, <1>3 DEF Accept, Handler, TypeOK
    <2> QED
        BY <1>s, <2>1, <2>2, QuietMaps
<1>4. CASE Push
    <2>1. newFd \in Conns /\ cstate[newFd] = "accepted"
        BY <1>t, <1>4 DEF Push, DealInv
    <2>2. Stage' = Stage
        BY <1>t, <1>4, <2>1 DEF Push, Stage, TypeOK
    <2>3. Handler' = Handler
        BY <1>t, <1>4, <2>1 DEF Push, Handler, TypeOK
    <2> QED
        BY <1>s, <2>2, <2>3, QuietMaps
<1>5. CASE LeaveLoop
    <2> DEFINE S == {c \in Conns : cstate[c] = "backlog"}
    <2>1. cstate' = [c \in Conns |-> IF c \in S THEN "closed" ELSE cstate[c]]
        BY <1>5 DEF LeaveLoop
    <2>2. Handler' = Handler
        BY <1>t, <1>5 DEF LeaveLoop, Handler, DealInv
    <2>3. Stopping'
        BY <1>5 DEF LeaveLoop, Stopping
    <2> QED
        BY <2>1, <2>2, <2>3, StopMaps
<1>6. CASE Join
    <2> DEFINE S == {c \in Conns : cstate[c] = "open"}
    <2>1. cstate' = [c \in Conns |-> IF c \in S THEN "closed" ELSE cstate[c]]
        BY <1>6, NothingAtJoin DEF Join
    <2>2. Handler' = Handler
        BY <1>6, <2>1 DEF Join, Handler
    <2>3. Stopping'
        BY <1>6 DEF Join, Stopping
    <2> QED
        BY <2>1, <2>2, <2>3, StopMaps
<1>7. ASSUME NEW w \in Workers, TryPop(w)
      PROVE  [Service!Next]_(Service!vars)
    <2> DEFINE h == Head(comm_queues[w])
    <2>1. h \in Conns /\ cstate[h] = "queued" /\ owner[h] = w
        BY <1>t, <1>7, HeadIsQueued
    <2>2. cstate' = [cstate EXCEPT ![h] = "open"] /\ owner' = owner /\ mainPc' = mainPc
        BY <1>7 DEF TryPop
    <2> HIDE DEF h
    <2>3. Stage' = [Stage EXCEPT ![h] = "served"] /\ Stage[h] = "pending"
        BY <1>t, <2>1, <2>2 DEF Stage, TypeOK
    <2>4. Handler' = [Handler EXCEPT ![h] = w]
        BY <1>t, <2>1, <2>2 DEF Handler, TypeOK
    <2>5. Stopping' = Stopping
        BY <2>2 DEF Stopping
    <2>6. Service!Adopt(h, w)
        BY <2>3, <2>4, <2>5 DEF Service!Adopt
    <2> QED
        BY <2>1, <2>6 DEF Service!Next
<1>8. ASSUME NEW w \in Workers, NEW c \in Conns, ClientEventCb(w, c) \/ FlushError(w, c)
      PROVE  [Service!Next]_(Service!vars)
    <2>1. /\ cstate[c] = "open" /\ owner[c] = w
          /\ cstate' = [cstate EXCEPT ![c] = "closed"]
          /\ owner' = owner /\ mainPc' = mainPc
        BY <1>t, <1>8, FreedWasServed DEF ServedBy
    <2>2. Stage' = [d \in Conns |-> IF d \in {c} THEN "closed" ELSE Stage[d]]
        BY <1>t, <2>1 DEF Stage, TypeOK
    <2>3. Stage[c] = "served" /\ Handler[c] = w
        BY <2>1 DEF Stage, Handler
    <2>4. Handler' = Handler
        BY <1>t, <2>1 DEF Handler, TypeOK
    <2>5. Stopping' = Stopping
        BY <2>1 DEF Stopping
    <2>6. Service!Finish(w, {c})
        BY <2>2, <2>3, <2>4, <2>5 DEF Service!Finish
    <2> QED
        BY <2>6 DEF Service!Next
<1> QED
    BY <1>1, <1>2, <1>3, <1>4, <1>5, <1>6, <1>7, <1>8, ConnFrame

\* The thread pool server keeps the promise of ConnectionService: whatever the
\* threads, clients and signals do, a connection has one handler, the worker
\* it was dealt to, and is dropped unserved only by a server that is stopping.
THEOREM ServerImplementsService == Spec => ImplementsService
<1>1. Init => Service!Init
    BY DEF Init, Service!Init, Stage, Handler, Stopping
<1> QED
    BY <1>1, ServiceStep, Always, PTL DEF Spec, ImplementsService, Service!Spec
=============================================================================
