--------------------------- MODULE ProcPoolServer ---------------------------
(***************************************************************************)
(* SrvProcessPool<TestConn> in                                             *)
(* server/include/epoll_half_sync_reactive_proc_pool_server.hpp: a parent  *)
(* process watches the listening socket, level triggered, and does not     *)
(* accept; each time the socket is readable it notifies the next live      *)
(* child over a socketpair, and the child accepts.  A notification may be  *)
(* lost or find nothing to accept; the socket stays readable.              *)
(*                                                                         *)
(* Signals go through a pipe to the epoll loop of their process.  Several  *)
(* bytes of one signal are handled like one, so the pipe is a set; SIGINT  *)
(* is handled like SIGTERM.  A child's pid is its slot number.  The events *)
(* of one epoll_wait are handled in any order; SIGPIPE is ignored.         *)
(***************************************************************************)
EXTENDS Integers, FiniteSets

CONSTANTS Conns,            \* client connections
          process_number,   \* number of child processes
          Nobody,           \* "no child"
          PipeCap,          \* how many notifications one socketpair buffers
          Listen, Pipe, Sig,\* _listenfd, the socketpair, sig_pipefd as events
          Leavers,          \* bound: the connections whose client may leave
          MaxCrashes,       \* bound: children that die by themselves
          MaxSigs,          \* bound: SIGTERM and SIGINT from outside
          StartupFaults     \* bound: whether a child dies or a signal comes
                            \* before the parent has installed its handlers

ASSUME PoolAssumption ==
    /\ IsFiniteSet(Conns)
    /\ process_number \in 1..16
    /\ PipeCap \in Nat \ {0}
    /\ Leavers \subseteq Conns
    /\ MaxCrashes \in Nat
    /\ MaxSigs \in Nat
    /\ StartupFaults \in BOOLEAN
    /\ Pipe # Sig /\ Listen # Sig
    /\ {Pipe, Sig} \cap Conns = {}

Children == 0..(process_number - 1)

ASSUME NobodyAssumption == Nobody \notin Children

VARIABLES
    (* the parent *)
    ppc,                  \* where it is
    m_pid,                \* m_pid[k]: the pid of child k, or -1
    sub_process_counter,  \* the child whose turn it is
    pstop,                \* its _stop
    pevents,              \* events of the current epoll_wait still to handle
    psigs,                \* signals in its signal pipe
    pbuf,                 \* signals read from it and not yet handled
    (* the children *)
    cpc,                  \* cpc[k]: where child k is
    notes,                \* notes[k]: notifications in the socketpair to k
    csig,                 \* the children with SIGTERM in their signal pipe
    cstop,                \* the children with _stop set
    cevents,              \* cevents[k]: events still to handle
    (* the connections *)
    cstate,               \* cstate[c]: how far connection c has come
    owner,                \* owner[c]: the child that accepted it
    unread,               \* the connections with data to read
    hungup,               \* the connections whose client has left
    (* bounds *)
    crashes, nsig

parentVars == <<ppc, m_pid, sub_process_counter, pstop, pevents, psigs, pbuf>>
childVars == <<cpc, notes, csig, cstop, cevents>>
connVars == <<cstate, owner, unread, hungup>>
bounds == <<crashes, nsig>>
vars == <<parentVars, childVars, connVars, bounds>>

Backlog == {c \in Conns : cstate[c] = "backlog"}

\* Child k exists and runs.
Running(k) == cpc[k] \in {"setup", "wait", "batch"}

\* The parent's signal handlers are installed and it runs.
Handling == ppc \in {"wait", "batch"}

\* No process holds the listening socket any more.
ListenerGone ==
    /\ ppc \in {"done", "killed"}
    /\ \A k \in Children : ~Running(k)

Init ==
    /\ ppc = "fork"
    /\ m_pid = [k \in Children |-> -1]
    /\ sub_process_counter = 0
    /\ pstop = FALSE
    /\ pevents = {}
    /\ psigs = {}
    /\ pbuf = {}
    /\ cpc = [k \in Children |-> "unborn"]
    /\ notes = [k \in Children |-> 0]
    /\ csig = {}
    /\ cstop = {}
    /\ cevents = [k \in Children |-> {}]
    /\ cstate = [c \in Conns |-> "new"]
    /\ owner = [c \in Conns |-> Nobody]
    /\ unread = {}
    /\ hungup = {}
    /\ crashes = 0
    /\ nsig = 0

-----------------------------------------------------------------------------
(* What the end of a process does. *)

\* The kernel closes the connections of the children in K, and the backlog
\* when the last holder of the listening socket is gone.
CloseFor(K, last) ==
    cstate' = [c \in Conns |->
                 IF (cstate[c] = "open" /\ owner[c] \in K) \/ (last /\ cstate[c] = "backlog")
                 THEN "closed" ELSE cstate[c]]

\* The children in K end: zombies until the parent waits for them.  SIGCHLD
\* reaches the parent's pipe if its handler is there.
Die(K) ==
    /\ cpc' = [k \in Children |-> IF k \in K THEN "zombie" ELSE cpc[k]]
    /\ CloseFor(K, /\ ppc \in {"done", "killed"}
                   /\ \A k \in Children \ K : ~Running(k))
    /\ psigs' = IF Handling /\ K # {} THEN psigs \cup {"CHLD"} ELSE psigs

-----------------------------------------------------------------------------
(* Clients, faults and signals from outside. *)

Connect(c) ==
    /\ ~ListenerGone
    /\ cstate[c] = "new"
    /\ cstate' = [cstate EXCEPT ![c] = "backlog"]
    /\ UNCHANGED <<parentVars, childVars, owner, unread, hungup, bounds>>

ClientSend(c) ==
    /\ cstate[c] \in {"backlog", "open"}
    /\ c \notin hungup \cup unread
    /\ unread' = unread \cup {c}
    /\ UNCHANGED <<parentVars, childVars, cstate, owner, hungup, bounds>>

ClientHangup(c) ==
    /\ c \in Leavers
    /\ cstate[c] \in {"backlog", "open"}
    /\ c \notin hungup
    /\ hungup' = hungup \cup {c}
    /\ UNCHANGED <<parentVars, childVars, cstate, owner, unread, bounds>>

\* A child dies: a failed assert, SIGKILL, out of memory.
Crash(k) ==
    /\ Running(k)
    /\ crashes < MaxCrashes
    /\ ppc = "fork" => StartupFaults
    /\ Die({k})
    /\ crashes' = crashes + 1
    /\ UNCHANGED <<ppc, m_pid, sub_process_counter, pstop, pevents, pbuf,
                   notes, csig, cstop, cevents, owner, unread, hungup, nsig>>

\* SIGTERM to the parent: sig_handler, or death before it is installed.
SigTerm ==
    /\ nsig < MaxSigs
    /\ Handling \/ (ppc = "fork" /\ StartupFaults)
    /\ nsig' = nsig + 1
    /\ IF Handling
       THEN psigs' = psigs \cup {"TERM"} /\ UNCHANGED <<ppc, cstate>>
       ELSE /\ ppc' = "killed"
            /\ CloseFor({}, \A k \in Children : ~Running(k))
            /\ UNCHANGED psigs
    /\ UNCHANGED <<m_pid, sub_process_counter, pstop, pevents, pbuf,
                   childVars, owner, unread, hungup, crashes>>

\* SIGINT from the terminal goes to the parent and to every child; those
\* that have no handler yet die of it.
SigInt ==
    /\ nsig < MaxSigs
    /\ Handling \/ (ppc \in {"fork", "killed"} /\ StartupFaults)
    /\ nsig' = nsig + 1
    /\ ppc' = IF Handling THEN ppc ELSE "killed"
    /\ LET K == {k \in Children : cpc[k] = "setup"}
       IN  /\ cpc' = [k \in Children |-> IF k \in K THEN "zombie" ELSE cpc[k]]
           /\ csig' = csig \cup {k \in Children : cpc[k] \in {"wait", "batch"}}
           /\ psigs' = IF ~Handling THEN psigs
                       ELSE psigs \cup {"TERM"} \cup (IF K = {} THEN {} ELSE {"CHLD"})
           /\ CloseFor(K, ~Handling /\ \A k \in Children \ K : ~Running(k))
    /\ UNCHANGED <<m_pid, sub_process_counter, pstop, pevents, pbuf,
                   notes, cstop, cevents, owner, unread, hungup, crashes>>

-----------------------------------------------------------------------------
(* The parent: run and run_parent. *)

\* socketpair and fork of the next child.
Fork(k) ==
    /\ ppc = "fork"
    /\ cpc[k] = "unborn"
    /\ \A j \in 0..(k - 1) : cpc[j] # "unborn"
    /\ m_pid' = [m_pid EXCEPT ![k] = k]
    /\ cpc' = [cpc EXCEPT ![k] = "setup"]
    /\ UNCHANGED <<ppc, sub_process_counter, pstop, pevents, psigs, pbuf,
                   notes, csig, cstop, cevents, connVars, bounds>>

\* setup_sig_pipe and the listening socket added to epoll.
ParentSetup ==
    /\ ppc = "fork"
    /\ \A k \in Children : cpc[k] # "unborn"
    /\ ppc' = "wait"
    /\ UNCHANGED <<m_pid, sub_process_counter, pstop, pevents, psigs, pbuf,
                   childVars, connVars, bounds>>

ParentReady == {e \in {Listen} : Backlog # {}} \cup {e \in {Sig} : psigs # {}}

ParentWait ==
    /\ ppc = "wait"
    /\ ParentReady # {}
    /\ pevents' = ParentReady
    /\ ppc' = "batch"
    /\ UNCHANGED <<m_pid, sub_process_counter, pstop, psigs, pbuf,
                   childVars, connVars, bounds>>

Live == {k \in Children : m_pid[k] # -1}

\* The first live child from sub_process_counter on, going round.
NextLive ==
    LET dist(k) == (k + process_number - sub_process_counter) % process_number
    IN  CHOOSE k \in Live : \A l \in Live : dist(k) <= dist(l)

NotifyPastEnd ==   \* faulty: no modulus when the turn moves on
    /\ ppc = "batch" /\ pbuf = {}
    /\ Listen \in pevents
    /\ Live # {}
    /\ LET j == NextLive
       IN  /\ sub_process_counter' = j + 1
           /\ notes' = IF Running(j) /\ notes[j] < PipeCap
                       THEN [notes EXCEPT ![j] = @ + 1] ELSE notes
    /\ pevents' = pevents \ {Listen}
    /\ UNCHANGED <<ppc, m_pid, pstop, psigs, pbuf, cpc, csig, cstop, cevents,
                   connVars, bounds>>

NotifySameSlot ==   \* faulty: always the same child, dead or alive
    /\ ppc = "batch" /\ pbuf = {}
    /\ Listen \in pevents
    /\ Live # {}
    /\ LET j == sub_process_counter
       IN  notes' = IF Running(j) /\ notes[j] < PipeCap
                    THEN [notes EXCEPT ![j] = @ + 1] ELSE notes
    /\ pevents' = pevents \ {Listen}
    /\ UNCHANGED <<ppc, m_pid, sub_process_counter, pstop, psigs, pbuf, cpc, csig,
                   cstop, cevents, connVars, bounds>>

\* The listening socket is readable: notify the next live child.  The
\* notification is lost if its socketpair is full or its end closed.
Notify ==
    /\ ppc = "batch" /\ pbuf = {}
    /\ Listen \in pevents
    /\ Live # {}
    /\ LET j == NextLive
       IN  /\ sub_process_counter' = (j + 1) % process_number
           /\ notes' = IF Running(j) /\ notes[j] < PipeCap
                       THEN [notes EXCEPT ![j] = @ + 1] ELSE notes
    /\ pevents' = pevents \ {Listen}
    /\ UNCHANGED <<ppc, m_pid, pstop, psigs, pbuf, cpc, csig, cstop, cevents,
                   connVars, bounds>>

\* No child is left: stop, and leave the loop over the events.
NotifyNobody ==
    /\ ppc = "batch" /\ pbuf = {}
    /\ Listen \in pevents
    /\ Live = {}
    /\ pstop' = TRUE
    /\ pevents' = {}
    /\ UNCHANGED <<ppc, m_pid, sub_process_counter, psigs, pbuf,
                   childVars, connVars, bounds>>

\* The signal pipe is readable: recv takes all signals in it.
ReadSignals ==
    /\ ppc = "batch" /\ pbuf = {}
    /\ Sig \in pevents
    /\ pbuf' = psigs
    /\ psigs' = {}
    /\ pevents' = pevents \ {Sig}
    /\ UNCHANGED <<ppc, m_pid, sub_process_counter, pstop,
                   childVars, connVars, bounds>>

HandleChldOne ==   \* faulty: one waitpid per SIGCHLD
    /\ ppc = "batch"
    /\ "CHLD" \in pbuf
    /\ \E k \in Children :
          /\ cpc[k] = "zombie"
          /\ \A j \in Children : cpc[j] = "zombie" => k <= j
          /\ cpc' = [cpc EXCEPT ![k] = "reaped"]
          /\ m_pid' = [m_pid EXCEPT ![k] = -1]
    /\ pstop' = (\A j \in Children : m_pid'[j] = -1)
    /\ pbuf' = pbuf \ {"CHLD"}
    /\ UNCHANGED <<ppc, sub_process_counter, pevents, psigs, notes, csig, cstop, cevents,
                   connVars, bounds>>

HandleChldStops ==   \* faulty: _stop stays true when a child is left
    /\ ppc = "batch"
    /\ "CHLD" \in pbuf
    /\ cpc' = [k \in Children |-> IF cpc[k] = "zombie" THEN "reaped" ELSE cpc[k]]
    /\ m_pid' = [k \in Children |-> IF cpc[k] = "zombie" THEN -1 ELSE m_pid[k]]
    /\ pstop' = TRUE
    /\ pbuf' = pbuf \ {"CHLD"}
    /\ UNCHANGED <<ppc, sub_process_counter, pevents, psigs, notes, csig, cstop, cevents,
                   connVars, bounds>>

\* SIGCHLD: wait for every child that has ended; stop if none is left.
HandleChld ==
    /\ ppc = "batch"
    /\ "CHLD" \in pbuf
    /\ cpc' = [k \in Children |-> IF cpc[k] = "zombie" THEN "reaped" ELSE cpc[k]]
    /\ m_pid' = [k \in Children |-> IF cpc[k] = "zombie" THEN -1 ELSE m_pid[k]]
    /\ pstop' = (\A k \in Children : m_pid'[k] = -1)
    /\ pbuf' = pbuf \ {"CHLD"}
    /\ UNCHANGED <<ppc, sub_process_counter, pevents, psigs, notes, csig, cstop, cevents,
                   connVars, bounds>>

\* SIGTERM or SIGINT: kill(m_pid, SIGTERM) for every live child, which dies
\* of it if it has not installed its handler yet.
HandleTerm ==
    /\ ppc = "batch"
    /\ "TERM" \in pbuf
    /\ LET K == {k \in Live : cpc[k] = "setup"}
       IN  /\ Die(K)
           /\ csig' = csig \cup {k \in Live : cpc[k] \in {"wait", "batch"}}
    /\ pbuf' = pbuf \ {"TERM"}
    /\ UNCHANGED <<ppc, m_pid, sub_process_counter, pstop, pevents,
                   notes, cstop, cevents, owner, unread, hungup, bounds>>

\* All events handled: the next epoll_wait, or the end of the process.
ParentBatchDone ==
    /\ ppc = "batch" /\ pbuf = {}
    /\ pevents = {}
    /\ ppc' = IF pstop THEN "done" ELSE "wait"
    /\ CloseFor({}, pstop /\ \A k \in Children : ~Running(k))
    /\ UNCHANGED <<m_pid, sub_process_counter, pstop, pevents, psigs, pbuf,
                   childVars, owner, unread, hungup, bounds>>

-----------------------------------------------------------------------------
(* A child: run_child and TestConn. *)

\* setup_sig_pipe and the socketpair added to epoll.
ChildSetup(k) ==
    /\ cpc[k] = "setup"
    /\ cpc' = [cpc EXCEPT ![k] = "wait"]
    /\ UNCHANGED <<parentVars, notes, csig, cstop, cevents, connVars, bounds>>

ChildReady(k) ==
    {e \in {Pipe} : notes[k] > 0} \cup {e \in {Sig} : k \in csig}
      \cup {c \in unread \cup hungup : cstate[c] = "open" /\ owner[c] = k}

ChildWait(k) ==
    /\ cpc[k] = "wait"
    /\ ChildReady(k) # {}
    /\ cevents' = [cevents EXCEPT ![k] = ChildReady(k)]
    /\ cpc' = [cpc EXCEPT ![k] = "batch"]
    /\ UNCHANGED <<parentVars, notes, csig, cstop, connVars, bounds>>

AcceptUnlessGone(k, c) ==   \* faulty: does not serve a client that has left
    /\ cpc[k] = "batch"
    /\ Pipe \in cevents[k]
    /\ notes' = [notes EXCEPT ![k] = @ - 1]
    /\ cstate[c] = "backlog"
    /\ cstate' = [cstate EXCEPT ![c] = IF c \in hungup THEN "closed" ELSE "open"]
    /\ owner' = [owner EXCEPT ![c] = k]
    /\ cevents' = [cevents EXCEPT ![k] = @ \ {Pipe}]
    /\ UNCHANGED <<parentVars, cpc, csig, cstop, unread, hungup, bounds>>

\* A notification, and a connection to accept: addfd and TestConn::init.
Accept(k, c) ==
    /\ cpc[k] = "batch"
    /\ Pipe \in cevents[k]
    /\ notes' = [notes EXCEPT ![k] = @ - 1]
    /\ cstate[c] = "backlog"
    /\ cstate' = [cstate EXCEPT ![c] = "open"]
    /\ owner' = [owner EXCEPT ![c] = k]
    /\ cevents' = [cevents EXCEPT ![k] = @ \ {Pipe}]
    /\ UNCHANGED <<parentVars, cpc, csig, cstop, unread, hungup, bounds>>

AcceptNoneDropsSignal(k) ==   \* faulty: the events given up do not come back
    /\ cpc[k] = "batch"
    /\ Pipe \in cevents[k]
    /\ Backlog = {}
    /\ notes' = [notes EXCEPT ![k] = @ - 1]
    /\ csig' = IF Sig \in cevents[k] THEN csig \ {k} ELSE csig
    /\ cevents' = [cevents EXCEPT ![k] = {}]
    /\ UNCHANGED <<parentVars, cpc, cstop, connVars, bounds>>

\* A notification, and nothing to accept (EAGAIN): the child gives up the
\* rest of its events, which epoll, level triggered, reports again.
AcceptNone(k) ==
    /\ cpc[k] = "batch"
    /\ Pipe \in cevents[k]
    /\ Backlog = {}
    /\ notes' = [notes EXCEPT ![k] = @ - 1]
    /\ cevents' = [cevents EXCEPT ![k] = {}]
    /\ UNCHANGED <<parentVars, cpc, csig, cstop, connVars, bounds>>

\* The signal pipe: SIGTERM and SIGINT set _stop.
ChildSignal(k) ==
    /\ cpc[k] = "batch"
    /\ Sig \in cevents[k]
    /\ csig' = csig \ {k}
    /\ cstop' = cstop \cup {k}
    /\ cevents' = [cevents EXCEPT ![k] = @ \ {Sig}]
    /\ UNCHANGED <<parentVars, cpc, notes, connVars, bounds>>

ProcessNoClose(k, c) ==   \* faulty: end of file is taken for "nothing to read"
    /\ cpc[k] = "batch"
    /\ c \in cevents[k]
    /\ unread' = unread \ {c}
    /\ cevents' = [cevents EXCEPT ![k] = @ \ {c}]
    /\ UNCHANGED <<parentVars, cpc, notes, csig, cstop, cstate, owner, hungup, bounds>>

\* TestConn::process reads until there is nothing left; then it answers, or
\* closes the connection if the client has left.
Process(k, c) ==
    /\ cpc[k] = "batch"
    /\ c \in cevents[k]
    /\ unread' = unread \ {c}
    /\ cstate' = IF c \in hungup THEN [cstate EXCEPT ![c] = "closed"] ELSE cstate
    /\ cevents' = [cevents EXCEPT ![k] = @ \ {c}]
    /\ UNCHANGED <<parentVars, cpc, notes, csig, cstop, owner, hungup, bounds>>

\* All events handled: the next epoll_wait, or the end of the process.
ChildBatchDone(k) ==
    /\ cpc[k] = "batch"
    /\ cevents[k] = {}
    /\ IF k \in cstop
       THEN Die({k})
       ELSE /\ cpc' = [cpc EXCEPT ![k] = "wait"]
            /\ UNCHANGED <<psigs, cstate>>
    /\ UNCHANGED <<ppc, m_pid, sub_process_counter, pstop, pevents, pbuf,
                   notes, csig, cstop, cevents, owner, unread, hungup, bounds>>

-----------------------------------------------------------------------------
Environment ==
    \/ \E c \in Conns : Connect(c) \/ ClientSend(c) \/ ClientHangup(c)
    \/ \E k \in Children : Crash(k)
    \/ SigTerm \/ SigInt

ParentStep ==
    \/ ParentSetup \/ \E k \in Children : Fork(k)
    \/ ParentWait \/ ParentBatchDone
    \/ Notify \/ NotifyNobody
    \/ ReadSignals \/ HandleChld \/ HandleTerm

ChildStep(k) ==
    \/ ChildSetup(k) \/ ChildWait(k) \/ ChildBatchDone(k)
    \/ AcceptNone(k) \/ ChildSignal(k)
    \/ \E c \in Conns : Accept(k, c) \/ Process(k, c)

Next == Environment \/ ParentStep \/ \E k \in Children : ChildStep(k)

Spec == Init /\ [][Next]_vars

\* The processes keep running; clients, faults and signals owe nothing.
FairSpec ==
    /\ Spec
    /\ WF_vars(ParentStep)
    /\ \A k \in Children : WF_vars(ChildStep(k))
-----------------------------------------------------------------------------
\* Types; in particular sub_process_counter is always a slot.
TypeOK ==
    /\ ppc \in {"fork", "wait", "batch", "done", "killed"}
    /\ m_pid \in [Children -> Children \cup {-1}]
    /\ sub_process_counter \in Children
    /\ pstop \in BOOLEAN
    /\ pevents \subseteq {Listen, Sig}
    /\ psigs \subseteq {"CHLD", "TERM"}
    /\ pbuf \subseteq {"CHLD", "TERM"}
    /\ cpc \in [Children -> {"unborn", "setup", "wait", "batch", "zombie", "reaped"}]
    /\ notes \in [Children -> 0..PipeCap]
    /\ csig \subseteq Children
    /\ cstop \subseteq Children
    /\ cevents \in [Children -> SUBSET (Conns \cup {Pipe, Sig})]
    /\ cstate \in [Conns -> {"new", "backlog", "open", "closed"}]
    /\ owner \in [Conns -> Children \cup {Nobody}]
    /\ unread \subseteq Conns
    /\ hungup \subseteq Conns
    /\ crashes \in 0..MaxCrashes
    /\ nsig \in 0..MaxSigs

\* The parent ends only after it has waited for every child, however their
\* deaths, signals and connections interleave.
ParentLast == ppc = "done" => \A k \in Children : cpc[k] = "reaped"

\* No zombie is forgotten although SIGCHLD is not counted: while one exists,
\* the parent still has a SIGCHLD to handle.
NoZombieForgotten ==
    Handling /\ ~StartupFaults /\ (\E k \in Children : cpc[k] = "zombie")
        => "CHLD" \in psigs \cup pbuf

\* How far a connection has come, in the terms of ConnectionService.
Stage ==
    [c \in Conns |->
        CASE cstate[c] = "new" -> "outside"
          [] cstate[c] = "backlog" -> "pending"
          [] cstate[c] = "open" -> "served"
          [] OTHER -> "closed"]

\* The server implements ConnectionService, crashes of children included.
Service == INSTANCE ConnectionService WITH
    Handlers <- Children,
    stage <- Stage,
    handler <- owner,
    stopping <- ListenerGone
ImplementsService == Service!Spec

\* A connection waiting to be accepted is accepted although notifications
\* are lost and children die with one in hand, or the server ends.
BacklogIsServed ==
    \A c \in Conns : cstate[c] = "backlog" ~> cstate[c] # "backlog"

\* A child reads what a client has sent and closes when the client has left,
\* unless it ends first.
ClientIsHandled ==
    \A c \in Conns :
        (cstate[c] = "open" /\ c \in unread \cup hungup) ~>
            (cstate[c] = "closed" \/ c \notin unread \cup hungup)

\* A signal to the parent ends the whole pool.
SignalStopsPool == nsig > 0 ~> ppc = "done"

\* When all children have ended the parent ends too.
ParentFollowsChildren ==
    (\A k \in Children : cpc[k] \in {"zombie", "reaped"}) ~> ppc \in {"done", "killed"}
=============================================================================
