-------------------------- MODULE ThreadPoolServer --------------------------
(***************************************************************************)
(* The server that main.cpp builds, start_libev_adv_server in              *)
(* server/include/libev_half_sync_reactive_thread_pool_server.hpp: a main  *)
(* thread accepts connections and deals them out round robin; each worker  *)
(* thread runs its own libevent loop and serves the connections it got.    *)
(*                                                                         *)
(* The main thread hands a connection over in two steps, a push on the     *)
(* worker's ThreadSafeQueue and a one-byte COMM_NEW_CONNECTED on the       *)
(* worker's socketpair; it announces shutdown with COMM_TERMINATE on the   *)
(* same socketpair.  Both ends are non-blocking and the result of send is  *)
(* ignored, so a byte that does not fit is lost.                           *)
(*                                                                         *)
(* A push or a try_pop is one step, as ThreadSafeQueue implements          *)
(* FifoQueue.  libevent runs the callbacks of one batch of ready events    *)
(* after the other, and leaves the loop at the end of the batch in which   *)
(* event_base_loopexit was called; in the main loop a signal's callback    *)
(* comes last in its batch, once for each delivery.                        *)
(***************************************************************************)
EXTENDS Naturals, Sequences, FiniteSets

CONSTANTS Conns,      \* client connections
          concur,     \* number of worker threads
          CommFd,     \* a worker's end of its socketpair, as a ready event
          Nobody,     \* "no worker"
          PipeCap,    \* how many bytes one socketpair buffers
          MaxMsgs,    \* bound: messages one client sends
          Senders,    \* bound: the connections whose client sends
          Leavers,    \* bound: the connections whose client may leave
          MaxSigs     \* bound: deliveries of SIGINT

ASSUME ServerAssumption ==
    /\ IsFiniteSet(Conns)
    /\ concur \in Nat \ {0}
    /\ PipeCap \in Nat \ {0}
    /\ MaxMsgs \in Nat
    /\ MaxSigs \in Nat
    /\ Senders \subseteq Conns
    /\ Leavers \subseteq Conns
    /\ CommFd \notin Conns

Workers == 0..(concur - 1)

ASSUME NobodyAssumption == Nobody \notin Workers

COMM_NEW_CONNECTED == "new"
COMM_TERMINATE == "terminate"

VARIABLES
    (* the main thread *)
    mainPc,           \* where it is
    spawned,          \* workers dispatched so far = size of comm_queues
    cur_worker_ind,   \* the worker that gets the next connection
    newFd,            \* the connection conn_listener_cb is dealing out
    sigs,             \* SIGINTs delivered and not yet seen by the main loop
    sigBatch,         \* calls of signal_event_cb left in this batch
    termInd,          \* its position in comm_pipes
    nsig,             \* SIGINTs delivered so far, for MaxSigs
    (* main thread to workers *)
    comm_queues,      \* comm_queues[w]: connections for w, oldest first
    comm_pipes,       \* comm_pipes[w]: bytes in the socketpair to w
    (* the worker threads *)
    wpc,              \* wpc[w]: where worker w is
    active,           \* active[w]: readable events of its current batch
    writable,         \* writable[w]: connections it flushes in this batch
    loopexit,         \* the workers whose loop has been told to exit
    succ_cli_count,   \* the counter client_msg_cb increments
    (* the connections *)
    cstate,           \* cstate[c]: who has connection c
    owner,            \* owner[c]: the worker it was dealt to
    inbuf,            \* inbuf[c]: messages received and not yet read
    unsent,           \* connections whose "OK" is in the bufferevent's output
    sent,             \* sent[c]: messages sent so far, for MaxMsgs
    peer              \* peer[c]: the client's end of c

mainVars == <<mainPc, spawned, cur_worker_ind, newFd, sigs, sigBatch, termInd, nsig>>
commVars == <<comm_queues, comm_pipes>>
workerVars == <<wpc, active, writable, loopexit, succ_cli_count>>
clientVars == <<inbuf, unsent, sent, peer>>
vars == <<mainVars, commVars, workerVars, cstate, owner, clientVars>>

\* The listening socket's queue of completed connections.
Backlog == {c \in Conns : cstate[c] = "backlog"}

\* The main loop runs: the listener and the signal handler are installed.
MainLoop == {"poll", "accept", "push", "send", "term", "leave"}

Init ==
    /\ mainPc = "spawn"
    /\ spawned = 0
    /\ cur_worker_ind = 0
    /\ newFd = CommFd
    /\ sigs = 0
    /\ sigBatch = 0
    /\ termInd = 0
    /\ nsig = 0
    /\ comm_queues = [w \in Workers |-> <<>>]
    /\ comm_pipes = [w \in Workers |-> <<>>]
    /\ wpc = [w \in Workers |-> "off"]
    /\ active = [w \in Workers |-> {}]
    /\ writable = [w \in Workers |-> {}]
    /\ loopexit = {}
    /\ succ_cli_count = 0
    /\ cstate = [c \in Conns |-> "new"]
    /\ owner = [c \in Conns |-> Nobody]
    /\ inbuf = [c \in Conns |-> 0]
    /\ unsent = {}
    /\ sent = [c \in Conns |-> 0]
    /\ peer = [c \in Conns |-> "up"]

-----------------------------------------------------------------------------
(* Clients and the terminal. *)

Connect(c) ==
    /\ mainPc \in MainLoop
    /\ cstate[c] = "new"
    /\ cstate' = [cstate EXCEPT ![c] = "backlog"]
    /\ UNCHANGED <<mainVars, commVars, workerVars, owner, clientVars>>

\* The connection exists and the server has not closed it.
Connected(c) == cstate[c] \in {"backlog", "accepted", "queued", "open"}

ClientSend(c) ==
    /\ c \in Senders
    /\ Connected(c)
    /\ peer[c] = "up"
    /\ sent[c] < MaxMsgs
    /\ sent' = [sent EXCEPT ![c] = @ + 1]
    /\ inbuf' = [inbuf EXCEPT ![c] = @ + 1]
    /\ UNCHANGED <<mainVars, commVars, workerVars, cstate, owner, unsent, peer>>

\* The client closes its end: FIN.
ClientClose(c) ==
    /\ c \in Leavers
    /\ Connected(c)
    /\ peer[c] = "up"
    /\ peer' = [peer EXCEPT ![c] = "closed"]
    /\ UNCHANGED <<mainVars, commVars, workerVars, cstate, owner, inbuf, unsent, sent>>

\* RST from the client.  After a FIN a write to the connection then means
\* SIGPIPE; without one, the error ECONNRESET.
ClientReset(c) ==
    /\ c \in Leavers
    /\ Connected(c)
    /\ peer[c] \in {"up", "closed"}
    /\ peer' = [peer EXCEPT ![c] = IF @ = "up" THEN "reset" ELSE "broken"]
    /\ UNCHANGED <<mainVars, commVars, workerVars, cstate, owner, inbuf, unsent, sent>>

SigInt ==
    /\ mainPc \in MainLoop
    /\ nsig < MaxSigs
    /\ nsig' = nsig + 1
    /\ sigs' = sigs + 1
    /\ UNCHANGED <<mainPc, spawned, cur_worker_ind, newFd, sigBatch, termInd,
                   commVars, workerVars, cstate, owner, clientVars>>

\* Before the signal event is added and after it is freed SIGINT has its
\* default action.
SigIntDefault ==
    /\ mainPc \in {"spawn", "join"}
    /\ nsig < MaxSigs
    /\ nsig' = nsig + 1
    /\ mainPc' = "interrupted"
    /\ UNCHANGED <<spawned, cur_worker_ind, newFd, sigs, sigBatch, termInd,
                   commVars, workerVars, cstate, owner, clientVars>>

-----------------------------------------------------------------------------
(* The main thread: start_libev_adv_server. *)

\* One turn of the start-up loop: socketpair, comm_pipes.push_back,
\* comm_queues.emplace_back and the dispatch of worker_func to the pool.
SpawnWorker ==
    /\ mainPc = "spawn"
    /\ spawned < concur
    /\ spawned' = spawned + 1
    /\ UNCHANGED <<mainPc, cur_worker_ind, newFd, sigs, sigBatch, termInd, nsig,
                   commVars, workerVars, cstate, owner, clientVars>>

StartLoopEarly ==   \* faulty: listens as soon as there is one worker
    /\ mainPc = "spawn"
    /\ spawned >= 1
    /\ mainPc' = "poll"
    /\ UNCHANGED <<spawned, cur_worker_ind, newFd, sigs, sigBatch, termInd, nsig,
                   commVars, workerVars, cstate, owner, clientVars>>

\* The signal event and the listener are registered; event_base_dispatch.
StartLoop ==
    /\ mainPc = "spawn"
    /\ spawned = concur
    /\ mainPc' = "poll"
    /\ UNCHANGED <<spawned, cur_worker_ind, newFd, sigs, sigBatch, termInd, nsig,
                   commVars, workerVars, cstate, owner, clientVars>>

\* The loop wakes up with a batch: the listener, the signal, or both, the
\* signal last.
MainPoll ==
    /\ mainPc = "poll"
    /\ Backlog # {} \/ sigs > 0
    /\ mainPc' = IF Backlog # {} THEN "accept" ELSE "term"
    /\ sigBatch' = sigs
    /\ sigs' = 0
    /\ UNCHANGED <<spawned, cur_worker_ind, newFd, termInd, nsig,
                   commVars, workerVars, cstate, owner, clientVars>>

\* libevent's listener accepts until nothing is left; for each connection
\* it calls conn_listener_cb.
Accept(c) ==
    /\ mainPc = "accept"
    /\ cstate[c] = "backlog"
    /\ cstate' = [cstate EXCEPT ![c] = "accepted"]
    /\ newFd' = c
    /\ mainPc' = "push"
    /\ UNCHANGED <<spawned, cur_worker_ind, sigs, sigBatch, termInd, nsig,
                   commVars, workerVars, owner, clientVars>>

AcceptDone ==
    /\ mainPc = "accept"
    /\ Backlog = {}
    /\ mainPc' = IF sigBatch > 0 THEN "term" ELSE "poll"
    /\ UNCHANGED <<spawned, cur_worker_ind, newFd, sigs, sigBatch, termInd, nsig,
                   commVars, workerVars, cstate, owner, clientVars>>

\* conn_listener_cb: comm_queues[cur_worker_ind].push(CommQueueItem(fd))
Push ==
    /\ mainPc = "push"
    /\ comm_queues' = [comm_queues EXCEPT ![cur_worker_ind] = Append(@, newFd)]
    /\ cstate' = [cstate EXCEPT ![newFd] = "queued"]
    /\ owner' = [owner EXCEPT ![newFd] = cur_worker_ind]
    /\ mainPc' = "send"
    /\ UNCHANGED <<spawned, cur_worker_ind, newFd, sigs, sigBatch, termInd, nsig,
                   comm_pipes, workerVars, clientVars>>

\* send() of one byte to worker w.  A full buffer loses it (EAGAIN, which
\* nobody looks at); a worker that has closed its end means SIGPIPE, which
\* nobody handles: the process dies.
SendByte(w, byte, then) ==
    IF wpc[w] = "exited"
    THEN mainPc' = "killed" /\ UNCHANGED comm_pipes
    ELSE /\ mainPc' = then
         /\ comm_pipes' = [comm_pipes EXCEPT ![w] =
                              IF Len(@) < PipeCap THEN Append(@, byte) ELSE @]

SendNewEarlyWrap ==   \* faulty: the wrap-around comes one worker too early
    /\ mainPc = "send"
    /\ SendByte(cur_worker_ind, COMM_NEW_CONNECTED, "accept")
    /\ cur_worker_ind' = IF cur_worker_ind + 1 >= concur - 1
                         THEN 0 ELSE cur_worker_ind + 1
    /\ UNCHANGED <<spawned, newFd, sigs, sigBatch, termInd, nsig,
                   comm_queues, workerVars, cstate, owner, clientVars>>

SendNewLateWrap ==   \* faulty: > for >= in the wrap-around
    /\ mainPc = "send"
    /\ SendByte(cur_worker_ind, COMM_NEW_CONNECTED, "accept")
    /\ cur_worker_ind' = IF cur_worker_ind + 1 > concur
                         THEN 0 ELSE cur_worker_ind + 1
    /\ UNCHANGED <<spawned, newFd, sigs, sigBatch, termInd, nsig,
                   comm_queues, workerVars, cstate, owner, clientVars>>

SendNewToNext ==   \* faulty: the index moves on between push and send
    /\ mainPc = "send"
    /\ cur_worker_ind' = (cur_worker_ind + 1) % concur
    /\ SendByte(cur_worker_ind', COMM_NEW_CONNECTED, "accept")
    /\ UNCHANGED <<spawned, newFd, sigs, sigBatch, termInd, nsig,
                   comm_queues, workerVars, cstate, owner, clientVars>>

\* conn_listener_cb: the byte, then the next worker's turn
SendNew ==
    /\ mainPc = "send"
    /\ SendByte(cur_worker_ind, COMM_NEW_CONNECTED, "accept")
    /\ cur_worker_ind' = IF cur_worker_ind + 1 >= concur
                         THEN 0 ELSE cur_worker_ind + 1
    /\ UNCHANGED <<spawned, newFd, sigs, sigBatch, termInd, nsig,
                   comm_queues, workerVars, cstate, owner, clientVars>>

SendTermAndGoOn ==   \* faulty: the main loop is not told to exit
    /\ mainPc = "term"
    /\ LET last == termInd + 1 = concur
       IN  /\ SendByte(termInd, COMM_TERMINATE,
                       IF ~last \/ sigBatch > 1 THEN "term" ELSE "poll")
           /\ termInd' = IF last THEN 0 ELSE termInd + 1
           /\ sigBatch' = IF last THEN sigBatch - 1 ELSE sigBatch
    /\ UNCHANGED <<spawned, cur_worker_ind, newFd, sigs, nsig,
                   comm_queues, workerVars, cstate, owner, clientVars>>

\* signal_event_cb: COMM_TERMINATE to each of comm_pipes, once per call; then
\* event_base_loopexit ends the main loop.
SendTerm ==
    /\ mainPc = "term"
    /\ LET last == termInd + 1 = concur
       IN  /\ SendByte(termInd, COMM_TERMINATE,
                       IF ~last \/ sigBatch > 1 THEN "term" ELSE "leave")
           /\ termInd' = IF last THEN 0 ELSE termInd + 1
           /\ sigBatch' = IF last THEN sigBatch - 1 ELSE sigBatch
    /\ UNCHANGED <<spawned, cur_worker_ind, newFd, sigs, nsig,
                   comm_queues, workerVars, cstate, owner, clientVars>>

\* After the loop the listener is freed: the kernel drops its backlog.
LeaveLoop ==
    /\ mainPc = "leave"
    /\ mainPc' = "join"
    /\ cstate' = [c \in Conns |->
                     IF cstate[c] = "backlog" THEN "closed" ELSE cstate[c]]
    /\ UNCHANGED <<spawned, cur_worker_ind, newFd, sigs, sigBatch, termInd, nsig,
                   commVars, workerVars, owner, clientVars>>

\* pool.join() returns and the process ends, closing what is still open.
Join ==
    /\ mainPc = "join"
    /\ \A w \in Workers : wpc[w] = "exited"
    /\ mainPc' = "done"
    /\ cstate' = [c \in Conns |->
                     IF cstate[c] \in {"queued", "open"} THEN "closed" ELSE cstate[c]]
    /\ UNCHANGED <<spawned, cur_worker_ind, newFd, sigs, sigBatch, termInd, nsig,
                   commVars, workerVars, owner, clientVars>>

-----------------------------------------------------------------------------
(* A worker thread: worker_func and the callbacks of its loop. *)

\* The pool runs worker_func, which registers its socketpair end.
WorkerStart(w) ==
    /\ w < spawned
    /\ wpc[w] = "off"
    /\ wpc' = [wpc EXCEPT ![w] = "poll"]
    /\ UNCHANGED <<mainVars, commVars, active, writable, loopexit, succ_cli_count,
                   cstate, owner, clientVars>>

\* Connection c is served by worker w's loop.
ServedBy(c, w) == cstate[c] = "open" /\ owner[c] = w

\* What worker w's loop finds ready to read and to write.
ReadyEvents(w) ==
    {e \in {CommFd} : comm_pipes[w] # <<>>}
      \cup {c \in Conns : ServedBy(c, w) /\ (inbuf[c] > 0 \/ peer[c] # "up")}

ReadyWrites(w) == {c \in unsent : ServedBy(c, w)}

WorkerPoll(w) ==
    /\ wpc[w] = "poll"
    /\ ReadyEvents(w) # {} \/ ReadyWrites(w) # {}
    /\ wpc' = [wpc EXCEPT ![w] = "batch"]
    /\ active' = [active EXCEPT ![w] = ReadyEvents(w)]
    /\ writable' = [writable EXCEPT ![w] = ReadyWrites(w)]
    /\ UNCHANGED <<mainVars, commVars, loopexit, succ_cli_count,
                   cstate, owner, clientVars>>

\* client_msg_cb takes all that libevent has buffered, n messages in k reads
\* of BUF_SIZE - 1 bytes, each of which counts, and answers "OK".
ClientMsgCb(w, c, n, k) ==
    /\ wpc[w] = "batch"
    /\ c \in active[w]
    /\ n \in 1..inbuf[c]
    /\ k \in 1..n
    /\ inbuf' = [inbuf EXCEPT ![c] = @ - n]
    /\ succ_cli_count' = succ_cli_count + k
    /\ unsent' = unsent \cup {c}
    /\ active' = [active EXCEPT ![w] = @ \ {c}]
    /\ UNCHANGED <<mainVars, commVars, wpc, writable, loopexit, cstate, owner, sent, peer>>

FreeReadOnly(w, c) ==   \* faulty: the pending write event stays
    /\ cstate' = [cstate EXCEPT ![c] = "closed"]
    /\ active' = [active EXCEPT ![w] = @ \ {c}]
    /\ unsent' = unsent \ {c}
    /\ UNCHANGED writable

\* bufferevent_free: the connection is closed, its events are withdrawn.
FreeBufferevent(w, c) ==
    /\ cstate' = [cstate EXCEPT ![c] = "closed"]
    /\ active' = [active EXCEPT ![w] = @ \ {c}]
    /\ writable' = [writable EXCEPT ![w] = @ \ {c}]
    /\ unsent' = unsent \ {c}

ClientEventCbEofOnly(w, c) ==   \* faulty: no branch for BEV_EVENT_ERROR
    /\ wpc[w] = "batch"
    /\ c \in active[w]
    /\ peer[c] # "up"
    /\ inbuf[c] = 0
    /\ IF peer[c] = "closed"
       THEN FreeBufferevent(w, c)
       ELSE /\ active' = [active EXCEPT ![w] = @ \ {c}]
            /\ UNCHANGED <<cstate, writable, unsent>>
    /\ UNCHANGED <<mainVars, commVars, wpc, loopexit, succ_cli_count,
                   owner, inbuf, sent, peer>>

\* client_event_cb: the read after the last data gives end of file or an error.
ClientEventCb(w, c) ==
    /\ wpc[w] = "batch"
    /\ c \in active[w]
    /\ peer[c] # "up"
    /\ inbuf[c] = 0
    /\ FreeBufferevent(w, c)
    /\ UNCHANGED <<mainVars, commVars, wpc, loopexit, succ_cli_count,
                   owner, inbuf, sent, peer>>

\* libevent writes the answer to the socket.
Flush(w, c) ==
    /\ wpc[w] = "batch"
    /\ c \in writable[w]
    /\ peer[c] \in {"up", "closed"}
    /\ unsent' = unsent \ {c}
    /\ writable' = [writable EXCEPT ![w] = @ \ {c}]
    /\ UNCHANGED <<mainVars, commVars, wpc, active, loopexit, succ_cli_count,
                   cstate, owner, inbuf, sent, peer>>

\* client_event_cb: the write fails.
FlushError(w, c) ==
    /\ wpc[w] = "batch"
    /\ c \in writable[w]
    /\ peer[c] = "reset"
    /\ FreeBufferevent(w, c)
    /\ UNCHANGED <<mainVars, commVars, wpc, loopexit, succ_cli_count,
                   owner, inbuf, sent, peer>>

\* The write raises SIGPIPE, which nobody handles: the process dies.
FlushBroken(w, c) ==
    /\ wpc[w] = "batch"
    /\ c \in writable[w]
    /\ peer[c] = "broken"
    /\ mainPc' = "killed"
    /\ UNCHANGED <<spawned, cur_worker_ind, newFd, sigs, sigBatch, termInd, nsig,
                   commVars, workerVars, cstate, owner, clientVars>>

\* main_msg_cb is called.
MainMsgCb(w) ==
    /\ wpc[w] = "batch"
    /\ CommFd \in active[w]
    /\ active' = [active EXCEPT ![w] = @ \ {CommFd}]
    /\ wpc' = [wpc EXCEPT ![w] = "recv"]
    /\ UNCHANGED <<mainVars, commVars, writable, loopexit, succ_cli_count,
                   cstate, owner, clientVars>>

RecvNewAll(w) ==   \* faulty: takes all bytes and looks only at the first
    /\ wpc[w] = "recv"
    /\ comm_pipes[w] # <<>>
    /\ Head(comm_pipes[w]) = COMM_NEW_CONNECTED
    /\ comm_pipes' = [comm_pipes EXCEPT ![w] = <<>>]
    /\ wpc' = [wpc EXCEPT ![w] = "drain"]
    /\ UNCHANGED <<mainVars, comm_queues, active, writable, loopexit, succ_cli_count,
                   cstate, owner, clientVars>>

\* main_msg_cb: recv returns COMM_NEW_CONNECTED
RecvNew(w) ==
    /\ wpc[w] = "recv"
    /\ comm_pipes[w] # <<>>
    /\ Head(comm_pipes[w]) = COMM_NEW_CONNECTED
    /\ comm_pipes' = [comm_pipes EXCEPT ![w] = Tail(@)]
    /\ wpc' = [wpc EXCEPT ![w] = "drain"]
    /\ UNCHANGED <<mainVars, comm_queues, active, writable, loopexit, succ_cli_count,
                   cstate, owner, clientVars>>

\* main_msg_cb: recv returns COMM_TERMINATE; loopexit and return
RecvTerm(w) ==
    /\ wpc[w] = "recv"
    /\ comm_pipes[w] # <<>>
    /\ Head(comm_pipes[w]) = COMM_TERMINATE
    /\ comm_pipes' = [comm_pipes EXCEPT ![w] = Tail(@)]
    /\ loopexit' = loopexit \cup {w}
    /\ wpc' = [wpc EXCEPT ![w] = "batch"]
    /\ UNCHANGED <<mainVars, comm_queues, active, writable, succ_cli_count,
                   cstate, owner, clientVars>>

\* main_msg_cb: recv fails with EAGAIN, return
RecvAgain(w) ==
    /\ wpc[w] = "recv"
    /\ comm_pipes[w] = <<>>
    /\ wpc' = [wpc EXCEPT ![w] = "batch"]
    /\ UNCHANGED <<mainVars, commVars, active, writable, loopexit, succ_cli_count,
                   cstate, owner, clientVars>>

TryPopOne(w) ==   \* faulty: one try_pop per byte instead of a loop
    /\ wpc[w] = "drain"
    /\ comm_queues[w] # <<>>
    /\ comm_queues' = [comm_queues EXCEPT ![w] = Tail(@)]
    /\ cstate' = [cstate EXCEPT ![Head(comm_queues[w])] = "open"]
    /\ wpc' = [wpc EXCEPT ![w] = "recv"]
    /\ UNCHANGED <<mainVars, comm_pipes, active, writable, loopexit, succ_cli_count,
                   owner, clientVars>>

TryPopUnlessGone(w) ==   \* faulty: does not serve a client that has left
    /\ wpc[w] = "drain"
    /\ comm_queues[w] # <<>>
    /\ comm_queues' = [comm_queues EXCEPT ![w] = Tail(@)]
    /\ LET c == Head(comm_queues[w])
       IN  cstate' = [cstate EXCEPT ![c] = IF peer[c] = "up" THEN "open" ELSE "closed"]
    /\ UNCHANGED <<mainVars, comm_pipes, workerVars, owner, clientVars>>

\* main_msg_cb: try_pop finds a connection; a bufferevent is created for it
\* on the worker's loop and enabled for reading
TryPop(w) ==
    /\ wpc[w] = "drain"
    /\ comm_queues[w] # <<>>
    /\ comm_queues' = [comm_queues EXCEPT ![w] = Tail(@)]
    /\ cstate' = [cstate EXCEPT ![Head(comm_queues[w])] = "open"]
    /\ UNCHANGED <<mainVars, comm_pipes, workerVars, owner, clientVars>>

\* main_msg_cb: try_pop finds the queue empty; back to recv
TryPopEmpty(w) ==
    /\ wpc[w] = "drain"
    /\ comm_queues[w] = <<>>
    /\ wpc' = [wpc EXCEPT ![w] = "recv"]
    /\ UNCHANGED <<mainVars, commVars, active, writable, loopexit, succ_cli_count,
                   cstate, owner, clientVars>>

\* The batch is finished: wait for the next one, or leave the loop, close
\* the socketpair end and return from worker_func.
BatchDone(w) ==
    /\ wpc[w] = "batch"
    /\ active[w] = {}
    /\ writable[w] = {}
    /\ wpc' = [wpc EXCEPT ![w] = IF w \in loopexit THEN "exited" ELSE "poll"]
    /\ UNCHANGED <<mainVars, commVars, active, writable, loopexit, succ_cli_count,
                   cstate, owner, clientVars>>

-----------------------------------------------------------------------------
Environment ==
    \/ \E c \in Conns : Connect(c) \/ ClientSend(c) \/ ClientClose(c) \/ ClientReset(c)
    \/ SigInt \/ SigIntDefault

MainStep ==
    \/ SpawnWorker \/ StartLoop
    \/ MainPoll \/ AcceptDone \/ \E c \in Conns : Accept(c)
    \/ Push \/ SendNew \/ SendTerm
    \/ LeaveLoop \/ Join

WorkerStep(w) ==
    \/ WorkerStart(w) \/ WorkerPoll(w) \/ BatchDone(w)
    \/ \E c \in Conns :
          \/ \E n \in 1..MaxMsgs : \E k \in 1..n : ClientMsgCb(w, c, n, k)
          \/ ClientEventCb(w, c)
          \/ Flush(w, c) \/ FlushError(w, c) \/ FlushBroken(w, c)
    \/ MainMsgCb(w) \/ RecvNew(w) \/ RecvTerm(w) \/ RecvAgain(w)
    \/ TryPop(w) \/ TryPopEmpty(w)

\* The process is there.
Alive == mainPc \notin {"done", "killed", "interrupted"}

Next == Alive /\ (Environment \/ MainStep \/ \E w \in Workers : WorkerStep(w))

Spec == Init /\ [][Next]_vars

\* The threads keep running; clients and the terminal owe nothing.
FairSpec ==
    /\ Spec
    /\ WF_vars(Alive /\ MainStep)
    /\ \A w \in Workers : WF_vars(Alive /\ WorkerStep(w))
-----------------------------------------------------------------------------
MainLabels == MainLoop \cup {"spawn", "join", "done", "killed", "interrupted"}
WorkerLabels == {"off", "poll", "batch", "recv", "drain", "exited"}
Bytes == {COMM_NEW_CONNECTED, COMM_TERMINATE}
ConnStates == {"new", "backlog", "accepted", "queued", "open", "closed"}

\* Types; in particular cur_worker_ind and termInd are always indices of an
\* existing queue and an existing socketpair.
TypeOK ==
    /\ mainPc \in MainLabels
    /\ spawned \in 0..concur
    /\ cur_worker_ind \in Workers
    /\ newFd \in Conns \cup {CommFd}
    /\ sigs \in Nat /\ sigBatch \in Nat /\ nsig \in Nat
    /\ termInd \in Workers
    /\ comm_queues \in [Workers -> Seq(Conns)]
    /\ comm_pipes \in [Workers -> Seq(Bytes)]
    /\ wpc \in [Workers -> WorkerLabels]
    /\ active \in [Workers -> SUBSET (Conns \cup {CommFd})]
    /\ writable \in [Workers -> SUBSET Conns]
    /\ loopexit \subseteq Workers
    /\ succ_cli_count \in Nat
    /\ cstate \in [Conns -> ConnStates]
    /\ owner \in [Conns -> Workers \cup {Nobody}]
    /\ inbuf \in [Conns -> Nat]
    /\ unsent \subseteq Conns
    /\ sent \in [Conns -> Nat]
    /\ peer \in [Conns -> {"up", "closed", "reset", "broken"}]
    /\ mainPc = "push" => newFd \in Conns

\* The process is ended from outside, or by SIGPIPE.
Ended == mainPc \in {"killed", "interrupted"}

\* A byte b waits in the socketpair of worker w.
HasByte(w, b) == \E i \in 1..Len(comm_pipes[w]) : comm_pipes[w][i] = b

\* A connection in a worker's queue is never forgotten there, although bytes
\* are lost when the socketpair is full and one byte makes the worker take
\* several connections: a COMM_NEW_CONNECTED is on its way, or about to be
\* sent, or the worker is emptying the queue.
NoConnectionStranded ==
    \A w \in Workers : comm_queues[w] # <<>> =>
        \/ HasByte(w, COMM_NEW_CONNECTED)
        \/ wpc[w] = "drain"
        \/ mainPc = "send" /\ cur_worker_ind = w
        \/ Ended

\* A worker that leaves its loop leaves no connection behind in its queue:
\* COMM_TERMINATE never overtakes a hand-over.
NothingLeftAtExit ==
    \A w \in loopexit : comm_queues[w] = <<>>

\* The number of connections dealt to worker w.
Dealt(w) == Cardinality({c \in Conns : owner[c] = w})

\* Round robin: no worker is ever two connections ahead of another.
RoundRobin == \A v, w \in Workers : Dealt(v) <= Dealt(w) + 1

\* comm_queues does not grow, and so does not move its elements, while a
\* worker may be using one of them.
QueuesDoNotMove ==
    \A w \in Workers : wpc[w] \in {"recv", "drain"} => spawned = concur

\* SIGPIPE ends the server only if the user interrupts it a second time, or
\* if a client resets a connection it had already closed; in particular no
\* connection is ever announced to a worker that has left.
KilledOnlyForACause ==
    mainPc = "killed" => nsig >= 2 \/ \E c \in Conns : peer[c] = "broken"

\* A connection is in the queue of the worker it was dealt to and in no other
\* place, once; and the events a worker still has to handle in its batch are
\* for connections it has open (no callback on a freed bufferevent).
OneHolder ==
    /\ \A w \in Workers : \A c \in Conns :
          Cardinality({i \in 1..Len(comm_queues[w]) : comm_queues[w][i] = c})
             = IF cstate[c] = "queued" /\ owner[c] = w THEN 1 ELSE 0
    /\ \A w \in Workers : \A c \in (active[w] \ {CommFd}) \cup writable[w] :
          ServedBy(c, w)

\* How far a connection has come, and with whom it is, in the terms of
\* ConnectionService.
Stage ==
    [c \in Conns |->
        CASE cstate[c] = "new" -> "outside"
          [] cstate[c] \in {"backlog", "accepted", "queued"} -> "pending"
          [] cstate[c] = "open" -> "served"
          [] OTHER -> "closed"]

Handler ==
    [c \in Conns |-> IF cstate[c] \in {"open", "closed"} THEN owner[c] ELSE Nobody]

Stopping == mainPc \in {"join", "done", "killed", "interrupted"}

\* The server implements ConnectionService: one handler per connection, and
\* no connection dropped unserved unless the server is stopping.
Service == INSTANCE ConnectionService WITH
    Handlers <- Workers,
    stage <- Stage,
    handler <- Handler,
    stopping <- Stopping
ImplementsService == Service!Spec

-----------------------------------------------------------------------------
\* A connection that has been queued is taken over by its worker, even if the
\* server is interrupted meanwhile and even if bytes are lost.
QueuedIsServed ==
    \A c \in Conns : cstate[c] = "queued" ~> cstate[c] = "open" \/ Ended

\* A worker reads and answers what a client has sent, and closes the
\* connection of a client that has left, unless it is leaving its loop.
ClientIsHandled ==
    \A c \in Conns :
        (cstate[c] = "open" /\ (inbuf[c] > 0 \/ c \in unsent \/ peer[c] # "up")) ~>
            \/ cstate[c] = "open" /\ inbuf[c] = 0 /\ c \notin unsent /\ peer[c] = "up"
            \/ cstate[c] = "closed"
            \/ owner[c] \in loopexit
            \/ Ended

\* An interrupt stops every worker and ends the process.
InterruptStopsServer == nsig > 0 ~> mainPc = "done" \/ Ended

\* The socketpair to worker w is full, and COMM_TERMINATE is not in it.
FullOfNew(w) ==
    /\ Len(comm_pipes[w]) = PipeCap
    /\ \A i \in 1..PipeCap : comm_pipes[w][i] = COMM_NEW_CONNECTED

\* signal_event_cb has sent to worker w, and no further call of it will.
ToldToStop(w) ==
    \/ mainPc = "term" /\ sigBatch = 1 /\ w < termInd
    \/ mainPc \in {"leave", "join"}

\* The COMM_TERMINATE for w was lost: nothing is sent after it, so that a pair
\* which is full of COMM_NEW_CONNECTED behind it was full at that very send.
TermLost(w) == ToldToStop(w) /\ FullOfNew(w)

\* An interrupt stops every worker and ends the process unless the socketpair
\* of a worker is full at the moment signal_event_cb sends COMM_TERMINATE to
\* it.  A pair that fills up after the interrupt and has room again by then,
\* and a COMM_TERMINATE behind COMM_NEW_CONNECTED bytes, excuse nothing.
InterruptStopsUnlessFull ==
    <>(nsig > 0) => <>(mainPc = "done" \/ Ended \/ \E w \in Workers : TermLost(w))
=============================================================================
