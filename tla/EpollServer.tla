---------------------------- MODULE EpollServer ----------------------------
(***************************************************************************)
(* serv_epoll in server/include/multi_connection_server.hpp: the main      *)
(* thread waits in epoll_wait, holding epfd_mutex, accepts connections     *)
(* itself and dispatches everything else to a pool of threads: a task for  *)
(* each event of a descriptor, and one for the signal pipe.  A task names  *)
(* the descriptor by its number, which may have been closed and given to   *)
(* another connection before the task runs.                                *)
(*                                                                         *)
(* epfd_mutex is held by the main thread exactly while mainPc = "wait";    *)
(* the other critical sections are one step each.  The listening socket    *)
(* and the signal pipe are level triggered; they are always in ep_fds,     *)
(* which here has the client descriptors only.  The signals that are       *)
(* handled alike are one: "TERM" and "OTHER".                              *)
(***************************************************************************)
EXTENDS Sockets, Sequences

CONSTANTS Triggers,       \* the trigger types considered, of "EP_ET" and "EP_LT"
          EPOLL_FDS_LEN,  \* limit on the size of ep_fds
          Threads,        \* the threads of the pool
          Listen, Sig,    \* the listening socket and the signal pipe as events
          MaxTasks,       \* bound: tasks waiting in the pool
          Signals,        \* the signals delivered, of "TERM" and "OTHER"
          MaxSigs         \* bound: how many

ASSUME EpollAssumption ==
    /\ Triggers \subseteq {"EP_ET", "EP_LT"}
    /\ EPOLL_FDS_LEN \in Nat
    /\ MaxTasks \in Nat \ {0}
    /\ Signals \subseteq {"TERM", "OTHER"}
    /\ MaxSigs \in Nat
    /\ Listen # Sig /\ {Listen, Sig} \cap Fds = {}

VARIABLES
    trigger,      \* trigger_type
    running,      \* the flag of that name
    nsig,         \* signals delivered so far, for MaxSigs
    (* the main thread *)
    mainPc,       \* where it is
    events,       \* events of the last epoll_wait still to handle
    newFd,        \* the descriptor ep_accept_worker_func has accepted
    (* the pool *)
    tasks,        \* tasks not yet started: descriptors, or Sig
    tpc, tfd,     \* tpc[t], tfd[t]: where thread t is, with which descriptor
    (* epoll and the signal pipe *)
    reg,          \* client descriptors registered with epfd
    edge,         \* those with an event not yet reported, if EP_ET
    ep_fds,       \* the set of that name
    sig_pipe,     \* signals in the signal pipe
    (* history *)
    reused        \* connections whose descriptor a task, an event or a
                  \* thread still named when they were accepted

mainVars == <<mainPc, events, newFd>>
poolVars == <<tasks, tpc, tfd>>
epollVars == <<reg, edge, ep_fds>>
sigVars == <<running, nsig, sig_pipe>>
vars == <<socketVars, trigger, sigVars, mainVars, poolVars, epollVars, reused>>

Init ==
    /\ SocketsInit
    /\ trigger \in Triggers
    /\ running = TRUE
    /\ nsig = 0
    /\ mainPc = "batch"
    /\ events = {}
    /\ newFd = None
    /\ tasks = <<>>
    /\ tpc = [t \in Threads |-> "idle"]
    /\ tfd = [t \in Threads |-> None]
    /\ reg = {} /\ edge = {} /\ ep_fds = {}
    /\ sig_pipe = {}
    /\ reused = {}

Ended == mainPc \in {"exited", "failed", "crashed"}

-----------------------------------------------------------------------------
(* Clients and signals. *)

\* New data or the end of the data is an event for an edge-triggered epoll.
Edges(c) ==
    IF trigger = "EP_ET" THEN edge \cup {f \in reg : sock[f] = c} ELSE edge

Client ==
    /\ \E c \in Conns :
          \/ Connect(c) /\ UNCHANGED edge
          \/ (Send(c) \/ Leave(c)) /\ edge' = Edges(c)
    /\ UNCHANGED <<trigger, sigVars, mainVars, poolVars, reg, ep_fds, reused>>

Ready ==
    {e \in {Listen} : Backlog # {}} \cup {e \in {Sig} : sig_pipe # {}}
      \cup {f \in (IF trigger = "EP_ET" THEN edge ELSE reg) : Readable(f)}

\* sig_handler, in whatever thread, writes the signal to the pipe.
Signal(s) ==
    /\ nsig < MaxSigs
    /\ nsig' = nsig + 1
    /\ sig_pipe' = sig_pipe \cup {s}
    /\ UNCHANGED <<socketVars, trigger, running, mainVars, poolVars, epollVars, reused>>

\* A signal delivered to the main thread in epoll_wait, with nothing to
\* report: EINTR, SA_RESTART does not apply, and exit(1); the byte that
\* sig_handler has written is lost with the process.
Interrupted ==
    /\ nsig < MaxSigs
    /\ nsig' = nsig + 1
    /\ mainPc = "wait"
    /\ Ready = {}
    /\ mainPc' = "failed"
    /\ CloseAll
    /\ UNCHANGED <<trigger, running, sig_pipe, events, newFd, poolVars, epollVars, reused>>

-----------------------------------------------------------------------------
(* The main thread. *)

\* The top of the loop: while (running), then the lock and epoll_wait.
TestRunning ==
    /\ mainPc = "batch"
    /\ events = {}
    /\ mainPc' = IF running THEN "wait" ELSE "closing"
    /\ UNCHANGED <<socketVars, trigger, sigVars, events, newFd, poolVars, epollVars, reused>>

NoTimeout ==   \* faulty: epoll_wait without a timeout
    /\ mainPc = "wait"
    /\ FALSE
    /\ UNCHANGED vars

\* Five seconds without an event.
Timeout ==
    /\ mainPc = "wait"
    /\ Ready = {}
    /\ mainPc' = "batch"
    /\ UNCHANGED <<socketVars, trigger, sigVars, events, newFd, poolVars, epollVars, reused>>

EpollWait ==
    /\ mainPc = "wait"
    /\ Ready # {}
    /\ events' = Ready
    /\ edge' = {}
    /\ mainPc' = "batch"
    /\ UNCHANGED <<socketVars, trigger, sigVars, newFd, poolVars, reg, ep_fds, reused>>

\* Somebody still means an earlier connection by descriptor f.
Named(f) ==
    \/ f \in events
    \/ \E i \in 1..Len(tasks) : tasks[i] = f
    \/ \E t \in Threads : tpc[t] # "idle" /\ tfd[t] = f

\* ep_accept_worker_func: serv_accept, before it takes the lock.
Accept(c) ==
    /\ mainPc = "batch"
    /\ Listen \in events
    /\ FreeFds # {}
    /\ serv_accept(c, LowestFd)
    /\ newFd' = LowestFd
    /\ reused' = IF Named(LowestFd) THEN reused \cup {c} ELSE reused
    /\ events' = events \ {Listen}
    /\ mainPc' = "add"
    /\ UNCHANGED <<trigger, sigVars, poolVars, epollVars>>

AcceptFailsGoesOn ==   \* faulty: the result of accept is not tested
    /\ mainPc = "batch"
    /\ Listen \in events
    /\ events' = events \ {Listen}
    /\ mainPc' = "add"
    /\ UNCHANGED <<socketVars, trigger, sigVars, newFd, poolVars, epollVars, reused>>

\* accept fails: EMFILE, ENFILE, ECONNABORTED.
AcceptFails ==
    /\ mainPc = "batch"
    /\ Listen \in events
    /\ events' = events \ {Listen}
    /\ UNCHANGED <<socketVars, trigger, sigVars, mainPc, newFd, poolVars, epollVars, reused>>

HasRoom == Cardinality(ep_fds) + 2 < EPOLL_FDS_LEN

\* Under the lock: EPOLL_CTL_ADD, which fails if a task has closed the
\* descriptor meanwhile, and the insertion into ep_fds.
AddFd ==
    /\ mainPc = "add"
    /\ HasRoom
    /\ reg' = IF sock[newFd] = None THEN reg ELSE reg \cup {newFd}
    /\ edge' = IF trigger = "EP_ET" /\ sock[newFd] # None /\ Readable(newFd)
               THEN edge \cup {newFd} ELSE edge
    /\ ep_fds' = ep_fds \cup {newFd}
    /\ newFd' = None
    /\ mainPc' = "batch"
    /\ UNCHANGED <<socketVars, trigger, sigVars, events, poolVars, reused>>

\* close(f) also withdraws f from epoll.
Close(f) ==
    /\ CloseFd(f)
    /\ reg' = reg \ {f}
    /\ edge' = edge \ {f}

\* Under the lock: ep_fds is full.
AddFull ==
    /\ mainPc = "add"
    /\ ~HasRoom
    /\ Close(newFd)
    /\ newFd' = None
    /\ mainPc' = "batch"
    /\ UNCHANGED <<trigger, sigVars, events, poolVars, ep_fds, reused>>

\* boost::asio::dispatch of ep_msg_worker_func or ep_sig_worker_func.
Dispatch(e) ==
    /\ mainPc = "batch"
    /\ e \in events \ {Listen}
    /\ Len(tasks) < MaxTasks
    /\ tasks' = Append(tasks, e)
    /\ events' = events \ {e}
    /\ UNCHANGED <<socketVars, trigger, sigVars, mainPc, newFd, tpc, tfd, epollVars, reused>>

\* The descriptors of ep_fds are closed; exit(0).
Exit ==
    /\ mainPc = "closing"
    /\ mainPc' = "exited"
    /\ CloseAll
    /\ UNCHANGED <<trigger, sigVars, events, newFd, poolVars, epollVars, reused>>

-----------------------------------------------------------------------------
(* A thread of the pool. *)

\* ep_sig_worker_func reads signals until there are none.
SigTask(t) ==
    /\ tpc[t] = "idle"
    /\ tasks # <<>> /\ Head(tasks) = Sig
    /\ tasks' = Tail(tasks)
    /\ running' = (running /\ "TERM" \notin sig_pipe)
    /\ sig_pipe' = {}
    /\ UNCHANGED <<socketVars, trigger, nsig, mainVars, tpc, tfd, epollVars, reused>>

\* ep_msg_worker_func is called.
MsgTask(t) ==
    /\ tpc[t] = "idle"
    /\ tasks # <<>> /\ Head(tasks) # Sig
    /\ tasks' = Tail(tasks)
    /\ tfd' = [tfd EXCEPT ![t] = Head(tasks)]
    /\ tpc' = [tpc EXCEPT ![t] = "read"]
    /\ UNCHANGED <<socketVars, trigger, sigVars, mainVars, epollVars, reused>>

AfterReadOnce(t, r) ==   \* faulty: one read per event with EP_ET, too
    IF r = "end" THEN "close" ELSE "idle"

AfterReadCloses(t, r) ==   \* faulty: EAGAIN is taken for an error
    CASE r = "data" -> IF trigger = "EP_ET" THEN "read" ELSE "idle"
      [] OTHER -> "close"

\* Where thread t goes after serv_read returned r.
AfterRead(t, r) ==
    CASE r = "data" -> IF trigger = "EP_ET" THEN "read" ELSE "idle"
      [] r = "again" -> "idle"
      [] r = "end" -> "close"

Read(t) ==
    /\ tpc[t] = "read"
    /\ LET r == serv_read(tfd[t])
       IN  /\ IF r = "data" THEN Consume(tfd[t]) ELSE UNCHANGED socketVars
           /\ tpc' = [tpc EXCEPT ![t] = AfterRead(t, r)]
           /\ tfd' = [tfd EXCEPT ![t] = IF AfterRead(t, r) = "idle" THEN None ELSE @]
    /\ UNCHANGED <<trigger, sigVars, mainVars, tasks, epollVars, reused>>

\* close(cli_fd), without the lock.
CloseTask(t) ==
    /\ tpc[t] = "close"
    /\ Close(tfd[t])
    /\ tpc' = [tpc EXCEPT ![t] = "dereg"]
    /\ UNCHANGED <<trigger, sigVars, mainVars, tasks, tfd, ep_fds, reused>>

EraseOnly(f) == ep_fds' = ep_fds \ {f} /\ UNCHANGED <<reg, edge>>   \* faulty: no EPOLL_CTL_DEL

DelOnly(f) ==   \* faulty: no erase
    /\ reg' = reg \ {f}
    /\ edge' = edge \ {f}
    /\ UNCHANGED ep_fds

\* EPOLL_CTL_DEL and erase.
Deregister(f) ==
    /\ reg' = reg \ {f}
    /\ edge' = edge \ {f}
    /\ ep_fds' = ep_fds \ {f}

\* CLOSE_FD: needs the lock.  When the main thread is already going through
\* ep_fds, without the lock, that is a data race: the process may crash.
Dereg(t) ==
    /\ tpc[t] = "dereg"
    /\ mainPc # "wait"
    /\ Deregister(tfd[t])
    /\ tpc' = [tpc EXCEPT ![t] = "idle"]
    /\ tfd' = [tfd EXCEPT ![t] = None]
    /\ \/ UNCHANGED <<mainPc, socketVars>>
       \/ mainPc = "closing" /\ mainPc' = "crashed" /\ CloseAll
    /\ UNCHANGED <<trigger, sigVars, events, newFd, tasks, reused>>

-----------------------------------------------------------------------------
MainStep ==
    \/ TestRunning \/ Timeout \/ EpollWait \/ Exit
    \/ AcceptFails \/ AddFd \/ AddFull
    \/ \E c \in Conns : Accept(c)
    \/ \E e \in Fds \cup {Sig} : Dispatch(e)

ThreadStep(t) == SigTask(t) \/ MsgTask(t) \/ Read(t) \/ CloseTask(t)

Next ==
    /\ ~Ended
    /\ \/ Client \/ Interrupted \/ \E s \in Signals : Signal(s)
       \/ MainStep
       \/ \E t \in Threads : ThreadStep(t) \/ Dereg(t)

Spec == Init /\ [][Next]_vars

\* Every thread keeps running, and one that waits for epfd_mutex gets it if
\* the main thread releases it again and again.
FairSpec ==
    /\ Spec
    /\ WF_vars(~Ended /\ MainStep)
    /\ \A t \in Threads :
          /\ WF_vars(~Ended /\ ThreadStep(t))
          /\ SF_vars(~Ended /\ Dereg(t))

-----------------------------------------------------------------------------
\* Types; in particular there is a descriptor whenever one is to be added.
TypeOK ==
    /\ SocketsTypeOK
    /\ trigger \in Triggers
    /\ running \in BOOLEAN
    /\ nsig \in 0..MaxSigs
    /\ mainPc \in {"wait", "batch", "add", "closing", "exited", "failed", "crashed"}
    /\ events \subseteq Fds \cup {Listen, Sig}
    /\ newFd \in Fds \cup {None} /\ (mainPc = "add" <=> newFd # None)
    /\ tasks \in Seq(Fds \cup {Sig})
    /\ tpc \in [Threads -> {"idle", "read", "close", "dereg"}]
    /\ tfd \in [Threads -> Fds \cup {None}]
    /\ reg \subseteq Fds /\ edge \subseteq reg /\ ep_fds \subseteq Fds
    /\ sig_pipe \subseteq Signals
    /\ reused \subseteq Conns

\* Every descriptor epoll watches is in ep_fds, so it counts against the
\* limit and is closed at the end, although tasks deregister descriptors
\* that have been given to another connection meanwhile.
RegisteredIsKnown == reg \subseteq ep_fds

\* ep_fds has no descriptor that epoll does not watch, except those a task is
\* about to remove, as long as no descriptor has been reused under a task.
NoGhostDescriptor ==
    reused = {} => \A f \in ep_fds \ reg : \E t \in Threads : tpc[t] = "dereg" /\ tfd[t] = f

\* The server closes a connection only if the client has left, ep_fds is
\* full or the server ends; a descriptor reused under a task apart.
ClosedForACause ==
    [][\A c \in Conns : conn[c] = "open" /\ conn'[c] = "closed" =>
          \/ c \in left \/ c \in reused
          \/ mainPc = "add" /\ ~HasRoom /\ sock[newFd] = c
          \/ Ended']_vars

\* Connection c is registered.
Watched(c) == \E f \in reg : sock[f] = c

\* What a client has sent is read, to the last byte even if edge triggered,
\* and its connection closed when it has left, unless its descriptor was
\* reused under a task or the server ends.
FreshIsServed ==
    \A c \in Conns :
        (conn[c] = "open" /\ (inbuf[c] > 0 \/ c \in left)) ~>
            \/ conn[c] = "closed" \/ (inbuf[c] = 0 /\ c \notin left)
            \/ c \in reused

\* The same of every client, as the code means it.
EveryClientIsServed ==
    \A c \in Conns :
        (conn[c] = "open" /\ (inbuf[c] > 0 \/ c \in left)) ~>
            conn[c] = "closed" \/ (inbuf[c] = 0 /\ c \notin left)

\* A SIGTERM or SIGINT in the pipe ends the server, although the thread that
\* reads it only clears a flag that the main thread looks at once a round.
TermEndsServer == "TERM" \in sig_pipe ~> Ended

\* An interrupted system call goes on: no signal makes the server fail.
InterruptedCallContinues == mainPc # "failed"
=============================================================================
