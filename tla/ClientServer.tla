---------------------------- MODULE ClientServer ----------------------------
(***************************************************************************)
(* start_multi_client in client/include/libevent_no_block_client.hpp       *)
(* against the single-threaded libevent server.  client_count clients are  *)
(* split over thread_count threads; each thread runs a libevent loop for   *)
(* its clients, which connect, say "Hello!" and wait for the answer.  An   *)
(* atomic counter finds out when all have been answered.  A client keeps   *)
(* its connection until the server closes it.                              *)
(***************************************************************************)
EXTENDS LibevMultiConServer

CONSTANTS client_count, thread_count

ASSUME ClientAssumption ==
    /\ client_count \in Nat
    /\ thread_count \in Nat \ {0}
    /\ Conns = 1..client_count

Threads == 0..(thread_count - 1)

VARIABLES cli,              \* the client process
          tpc,              \* tpc[t]: where thread t is
          cst,              \* cst[c]: how far client c has come
          answered,         \* the clients whose server_msg_cb has run
          comp_req_count,   \* the counter of that name
          announced         \* how often "All client request complete" was printed

clientVars == <<cli, tpc, cst, answered, comp_req_count, announced>>
vars == <<loopVars, linkVars, clientVars>>

Init ==
    /\ ServerInit
    /\ cli = "running"
    /\ tpc = [t \in Threads |-> "start"]
    /\ cst = [c \in Conns |-> "idle"]
    /\ answered = {}
    /\ comp_req_count = 0
    /\ announced = 0

-----------------------------------------------------------------------------
(* start_multi_client: the split over the threads. *)

sub_cli_count == client_count \div thread_count
res_cli_count == client_count % thread_count

CountNoResidue(t) == sub_cli_count   \* faulty: the residue is forgotten

\* What thread t gets: one of the residue while it lasts.
Count(t) == sub_cli_count + (IF t < res_cli_count THEN 1 ELSE 0)

\* Clients are numbered by thread.
ClientsOf(t) ==
    LET before == t * sub_cli_count + (IF t < res_cli_count THEN t ELSE res_cli_count)
    IN  (before + 1)..(before + Count(t))

-----------------------------------------------------------------------------
(* start_clients_func, in thread t. *)

\* The next client calls connect, which starts a handshake or fails at once.
StartClient(t, c) ==
    /\ tpc[t] = "start"
    /\ c \in ClientsOf(t)
    /\ cst[c] = "idle"
    /\ \A d \in ClientsOf(t) : cst[d] = "idle" => c <= d
    /\ \/ /\ cst' = [cst EXCEPT ![c] = "connecting"]
          /\ link' = [link EXCEPT ![c] = "syn"]
       \/ /\ cst' = [cst EXCEPT ![c] = "freed"]
          /\ UNCHANGED link
    /\ UNCHANGED <<loopVars, inq, ok, gone, cli, tpc, answered, comp_req_count, announced>>

\* All clients are started: event_base_dispatch.
EnterLoop(t) ==
    /\ tpc[t] = "start"
    /\ \A c \in ClientsOf(t) : cst[c] # "idle"
    /\ tpc' = [tpc EXCEPT ![t] = "loop"]
    /\ UNCHANGED <<loopVars, linkVars, cli, cst, answered, comp_req_count, announced>>

\* The kernels complete the handshake of client c, or refuse it.
Handshake(c) ==
    /\ link[c] = "syn"
    /\ link' = [link EXCEPT ![c] = IF Listening THEN "backlog" ELSE "closed"]
    /\ UNCHANGED <<loopVars, inq, ok, gone, clientVars>>

ConnectedCounts(t, c) ==   \* faulty: a connection counts as an answer
    /\ tpc[t] = "loop"
    /\ cst[c] = "connecting"
    /\ link[c] \in {"backlog", "open"}
    /\ cst' = [cst EXCEPT ![c] = "hello"]
    /\ comp_req_count' = comp_req_count + 1
    /\ tpc' = [tpc EXCEPT ![t] = "test"]
    /\ UNCHANGED <<loopVars, linkVars, cli, answered, announced>>

\* event_cb, BEV_EVENT_CONNECTED: "Hello!" into the bufferevent's output.
Connected(t, c) ==
    /\ tpc[t] = "loop"
    /\ cst[c] = "connecting"
    /\ link[c] \in {"backlog", "open"}
    /\ cst' = [cst EXCEPT ![c] = "hello"]
    /\ UNCHANGED <<loopVars, linkVars, cli, tpc, answered, comp_req_count, announced>>

\* libevent writes it to the socket.
WriteHello(t, c) ==
    /\ tpc[t] = "loop"
    /\ cst[c] = "hello"
    /\ link[c] \in {"backlog", "open"}
    /\ cst' = [cst EXCEPT ![c] = "sent"]
    /\ inq' = inq \cup {c}
    /\ UNCHANGED <<loopVars, link, ok, gone, cli, tpc, answered, comp_req_count, announced>>

ServerMsgCbNoRead(t, c) ==   \* faulty: the answer stays in the buffer
    /\ tpc[t] = "loop"
    /\ c \in ok
    /\ answered' = answered \cup {c}
    /\ comp_req_count' = comp_req_count + 1
    /\ tpc' = [tpc EXCEPT ![t] = "test"]
    /\ UNCHANGED <<loopVars, linkVars, cli, cst, announced>>

\* server_msg_cb: reads the answer and increments the counter ...
ServerMsgCb(t, c) ==
    /\ tpc[t] = "loop"
    /\ c \in ok
    /\ ok' = ok \ {c}
    /\ answered' = answered \cup {c}
    /\ comp_req_count' = comp_req_count + 1
    /\ tpc' = [tpc EXCEPT ![t] = "test"]
    /\ UNCHANGED <<loopVars, link, inq, gone, cli, cst, announced>>

\* ... and then compares it with total_req_count.
Test(t) ==
    /\ tpc[t] = "test"
    /\ announced' = IF comp_req_count = client_count THEN announced + 1 ELSE announced
    /\ tpc' = [tpc EXCEPT ![t] = "loop"]
    /\ UNCHANGED <<loopVars, linkVars, cli, cst, answered, comp_req_count>>

EventCbNoEof(t, c) ==   \* faulty: nothing is done at end of file
    /\ tpc[t] = "loop"
    /\ cst[c] = "connecting"
    /\ link[c] = "closed" /\ c \notin ok
    /\ cst' = [cst EXCEPT ![c] = "freed"]
    /\ UNCHANGED <<loopVars, linkVars, cli, tpc, answered, comp_req_count, announced>>

\* event_cb, BEV_EVENT_EOF or BEV_EVENT_ERROR: bufferevent_free.
EventCb(t, c) ==
    /\ tpc[t] = "loop"
    /\ cst[c] \in {"connecting", "hello", "sent"}
    /\ link[c] = "closed" /\ c \notin ok
    /\ cst' = [cst EXCEPT ![c] = "freed"]
    /\ UNCHANGED <<loopVars, linkVars, cli, tpc, answered, comp_req_count, announced>>

\* The loop has no event left: event_base_dispatch returns.
LeaveLoop(t) ==
    /\ tpc[t] = "loop"
    /\ \A c \in ClientsOf(t) : cst[c] = "freed"
    /\ tpc' = [tpc EXCEPT ![t] = "done"]
    /\ UNCHANGED <<loopVars, linkVars, cli, cst, answered, comp_req_count, announced>>

\* pool.join()
Join ==
    /\ cli = "running"
    /\ \A t \in Threads : tpc[t] = "done"
    /\ cli' = "done"
    /\ UNCHANGED <<loopVars, linkVars, tpc, cst, answered, comp_req_count, announced>>

\* The client process is killed; its kernel closes its connections.
KillClient ==
    /\ cli = "running"
    /\ cli' = "killed"
    /\ gone' = Backlog \cup Open
    /\ CloseLinks({c \in Conns : link[c] = "syn"})
    /\ UNCHANGED <<loopVars, inq, ok, tpc, cst, answered, comp_req_count, announced>>

-----------------------------------------------------------------------------
ThreadStep(t) ==
    /\ cli = "running"
    /\ \/ EnterLoop(t) \/ Test(t) \/ LeaveLoop(t)
       \/ \E c \in ClientsOf(t) :
             \/ StartClient(t, c) \/ Connected(t, c) \/ WriteHello(t, c)
             \/ ServerMsgCb(t, c) \/ EventCb(t, c)

ServerStep == LoopStep /\ UNCHANGED clientVars

Next ==
    \/ (TcpServerInit \/ SigInt) /\ UNCHANGED clientVars
    \/ ServerStep
    \/ \E c \in Conns : Handshake(c)
    \/ \E t \in Threads : ThreadStep(t)
    \/ Join \/ KillClient

Spec == Init /\ [][Next]_vars

\* Threads, server loop and kernels keep running; nobody has to start the
\* server, to interrupt it or to kill the client.
FairSpec ==
    /\ Spec
    /\ WF_vars(ServerStep) /\ WF_vars(Join)
    /\ \A c \in Conns : WF_vars(Handshake(c))
    /\ \A t \in Threads : WF_vars(ThreadStep(t))

-----------------------------------------------------------------------------
\* Types; in particular no client is counted twice.
TypeOK ==
    /\ srv \in {"off", "setup", "poll", "batch", "exited", "killed", "failed"}
    /\ readable \subseteq Conns \cup {Listen, Sig} /\ writable \subseteq Conns
    /\ sigint \in BOOLEAN /\ loopexit \in BOOLEAN
    /\ unsent \subseteq Conns
    /\ link \in [Conns -> {"none", "syn", "backlog", "open", "closed"}]
    /\ inq \subseteq Conns /\ ok \subseteq Conns /\ gone \subseteq Conns
    /\ cli \in {"running", "done", "killed"}
    /\ tpc \in [Threads -> {"start", "loop", "test", "done"}]
    /\ cst \in [Conns -> {"idle", "connecting", "hello", "sent", "freed"}]
    /\ answered \subseteq Conns
    /\ comp_req_count \in 0..client_count
    /\ announced \in Nat

\* "All client request complete" is printed only when every client has its
\* answer, and at most once by each thread, although the counter is
\* incremented and compared in two steps.
CompletionIsTrue ==
    /\ announced > 0 => answered = Conns
    /\ announced <= thread_count

\* It is printed in the end, however the threads interleave and however the
\* clients are split over them, unless the client process is killed or a
\* connection fails.
CompletionIsAnnounced ==
    <>(\/ announced > 0 \/ cli = "killed"
       \/ \E c \in Conns : cst[c] = "freed" /\ c \notin answered)

\* The end of the server ends the client process: every loop runs out of
\* connections and pool.join returns.
ServerEndEndsClients == ServerEnded ~> cli \in {"done", "killed"}

\* The server closes the connections of a client process that has died.
DeadClientIsClosed == cli = "killed" ~> Open \cup Backlog = {}
=============================================================================
