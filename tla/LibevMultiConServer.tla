------------------------ MODULE LibevMultiConServer ------------------------
(***************************************************************************)
(* start_libev_multi_server in server/include/libev_multi_con_server.hpp:  *)
(* one thread, one libevent loop for the listening socket, SIGINT and a    *)
(* bufferevent per client.  The loop takes a batch of ready events and     *)
(* calls their callbacks; it leaves at the end of the batch in which       *)
(* signal_cb has called event_base_loopexit.  An answer written in a       *)
(* callback goes to the socket in a later batch.                           *)
(*                                                                         *)
(* The client's side of a connection is left to the module that uses this  *)
(* one: a client sends one message, so inq and ok are sets.                *)
(***************************************************************************)
EXTENDS Naturals, FiniteSets

CONSTANTS Conns,          \* client connections
          Listen, Sig     \* the listening socket and SIGINT as events

VARIABLES srv,            \* where the server is
          readable,       \* callbacks of this batch: Listen, Sig, clients to read
          writable,       \* clients to write to in this batch
          sigint,         \* SIGINT delivered and not yet seen by the loop
          loopexit,       \* event_base_loopexit has been called
          unsent,         \* the connections with "OK" in the bufferevent's output
          link,           \* link[c]: how far connection c has come
          inq,            \* the connections with a message for the server to read
          ok,             \* the connections with an answer for the client to read
          gone            \* the connections whose client's end is closed

loopVars == <<srv, readable, writable, sigint, loopexit, unsent>>
linkVars == <<link, inq, ok, gone>>

ServerInit ==
    /\ srv = "off"
    /\ readable = {} /\ writable = {}
    /\ sigint = FALSE /\ loopexit = FALSE
    /\ unsent = {}
    /\ link = [c \in Conns |-> "none"]
    /\ inq = {} /\ ok = {} /\ gone = {}

\* The server's end of the connections in S is closed.
CloseLinks(S) == link' = [c \in Conns |-> IF c \in S THEN "closed" ELSE link[c]]

Backlog == {c \in Conns : link[c] = "backlog"}
Open == {c \in Conns : link[c] = "open"}

Listening == srv \in {"setup", "poll", "batch"}
ServerEnded == srv \in {"exited", "killed", "failed"}

-----------------------------------------------------------------------------
\* tcp_server_init: the socket listens, or bind or listen fails.
TcpServerInit ==
    /\ srv = "off"
    /\ srv' \in {"setup", "failed"}
    /\ UNCHANGED <<readable, writable, sigint, loopexit, unsent, linkVars>>

\* The events are added; event_base_dispatch.
Dispatch ==
    /\ srv = "setup"
    /\ srv' = "poll"
    /\ UNCHANGED <<readable, writable, sigint, loopexit, unsent, linkVars>>

\* SIGINT, once: before evsignal_new it has its default action.
SigInt ==
    /\ Listening /\ ~sigint /\ ~loopexit
    /\ IF srv = "setup"
       THEN srv' = "killed" /\ CloseLinks(Backlog) /\ UNCHANGED sigint
       ELSE sigint' = TRUE /\ UNCHANGED <<srv, link>>
    /\ UNCHANGED <<readable, writable, loopexit, unsent, inq, ok, gone>>

ReadReady ==
    {e \in {Listen} : Backlog # {}} \cup {e \in {Sig} : sigint}
      \cup (Open \cap (inq \cup gone))

Poll ==
    /\ srv = "poll"
    /\ ReadReady # {} \/ Open \cap unsent # {}
    /\ readable' = ReadReady
    /\ writable' = Open \cap unsent
    /\ srv' = "batch"
    /\ UNCHANGED <<sigint, loopexit, unsent, linkVars>>

\* accept_cb: one accept, a bufferevent enabled for reading.
AcceptCb(c) ==
    /\ srv = "batch"
    /\ Listen \in readable
    /\ link[c] = "backlog"
    /\ link' = [link EXCEPT ![c] = "open"]
    /\ readable' = readable \ {Listen}
    /\ UNCHANGED <<srv, writable, sigint, loopexit, unsent, inq, ok, gone>>

\* signal_cb: event_base_loopexit.
SignalCb ==
    /\ srv = "batch"
    /\ Sig \in readable
    /\ sigint' = FALSE
    /\ loopexit' = TRUE
    /\ readable' = readable \ {Sig}
    /\ UNCHANGED <<srv, writable, unsent, linkVars>>

\* be_msg_cb: reads until nothing is left and writes "OK".
BeMsgCb(c) ==
    /\ srv = "batch"
    /\ c \in readable \cap inq
    /\ inq' = inq \ {c}
    /\ unsent' = unsent \cup {c}
    /\ readable' = readable \ {c}
    /\ UNCHANGED <<srv, writable, sigint, loopexit, link, ok, gone>>

KeepOpen(c) == UNCHANGED <<link, unsent, writable>>   \* faulty: end of file is ignored

\* bufferevent_free, which also withdraws the pending write event.
FreeBufferevent(c) ==
    /\ CloseLinks({c})
    /\ unsent' = unsent \ {c}
    /\ writable' = writable \ {c}

\* be_event_cb: end of file or an error.
BeEventCb(c) ==
    /\ srv = "batch"
    /\ c \in (readable \cap gone) \ inq
    /\ FreeBufferevent(c)
    /\ readable' = readable \ {c}
    /\ UNCHANGED <<srv, sigint, loopexit, inq, ok, gone>>

\* libevent writes the answer; a client that has gone does not get it.
Flush(c) ==
    /\ srv = "batch"
    /\ c \in writable
    /\ unsent' = unsent \ {c}
    /\ ok' = IF c \in gone THEN ok ELSE ok \cup {c}
    /\ writable' = writable \ {c}
    /\ UNCHANGED <<srv, readable, sigint, loopexit, link, inq, gone>>

\* The next batch, or the end of the process, with the answers not yet
\* written; the kernel closes the connections and the backlog.
BatchDone ==
    /\ srv = "batch"
    /\ readable = {} /\ writable = {}
    /\ srv' = IF loopexit THEN "exited" ELSE "poll"
    /\ CloseLinks(IF loopexit THEN Open \cup Backlog ELSE {})
    /\ UNCHANGED <<readable, writable, sigint, loopexit, unsent, inq, ok, gone>>

LoopStep ==
    \/ Dispatch \/ Poll \/ SignalCb \/ BatchDone
    \/ \E c \in Conns : AcceptCb(c) \/ BeMsgCb(c) \/ BeEventCb(c) \/ Flush(c)
=============================================================================
