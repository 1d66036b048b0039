------------------------- MODULE ClientServerProofs -------------------------
(***************************************************************************)
(* Theorems about ClientServer: "All client request complete" is true when *)
(* it is printed, for any number of clients and threads.                   *)
(***************************************************************************)
EXTENDS ClientServer, TLAPS, FiniteSetTheorems, WellFoundedInduction

\* The one message of a client moves from the server's socket to the output
\* of its bufferevent, to the client's socket, to server_msg_cb, or is lost.
FlowInv ==
    /\ writable \subseteq unsent
    /\ \A c \in Conns :
          /\ cst[c] \in {"idle", "connecting", "hello"} =>
                c \notin inq \cup unsent \cup ok \cup answered
          /\ c \in inq => c \notin unsent \cup ok \cup answered
          /\ c \in unsent => c \notin ok \cup answered
          /\ c \in ok => c \notin answered

\* The counter counts the clients that have been answered.
CountInv == comp_req_count = Cardinality(answered)

Testing == {t \in Threads : tpc[t] = "test"}

\* Every announcement is of the full count, and each thread that still has to
\* compare it can make only one more.
AnnounceInv ==
    /\ announced > 0 => comp_req_count = client_count
    /\ announced + Cardinality(Testing) <= thread_count

IInv == TypeOK /\ FlowInv /\ CountInv /\ AnnounceInv

-----------------------------------------------------------------------------
(* The split of the clients over the threads. *)

\* Division with rest.
LEMMA Division ==
    /\ sub_cli_count \in Nat
    /\ res_cli_count \in 0..(thread_count - 1)
    /\ client_count = thread_count * sub_cli_count + res_cli_count
<1> DEFINE n == client_count
           m == thread_count
<1>1. n \in Nat /\ m \in Nat \ {0}
    BY ClientAssumption
<1> HIDE DEF n, m
<1>2. n \div m \in Nat /\ n % m \in 0..(m - 1) /\ n = m * (n \div m) + (n % m)
    BY <1>1
<1> QED
    BY <1>2 DEF n, m, sub_cli_count, res_cli_count

\* The number of clients of the threads before thread t.
Before(t) == t * sub_cli_count + (IF t < res_cli_count THEN t ELSE res_cli_count)

\* Thread t has the clients between two values of Before.
LEMMA Blocks ==
    ASSUME NEW t \in Threads
    PROVE  /\ Before(t) \in Nat /\ Before(t + 1) \in Nat
           /\ ClientsOf(t) = (Before(t) + 1)..Before(t + 1)
<1>1. sub_cli_count \in Nat /\ res_cli_count \in Nat /\ t \in Nat
    BY Division, ClientAssumption DEF Threads
<1>2. t * sub_cli_count \in Nat /\ (t + 1) * sub_cli_count = t * sub_cli_count + sub_cli_count
    BY <1>1
<1> QED
    BY <1>1, <1>2 DEF Before, ClientsOf, Count

\* The blocks follow each other.
LEMMA BeforeMonotonic ==
    ASSUME NEW s \in 0..thread_count, NEW t \in 0..thread_count, s <= t
    PROVE  Before(s) <= Before(t)
<1>1. sub_cli_count \in Nat /\ res_cli_count \in Nat /\ s \in Nat /\ t \in Nat
    BY Division, ClientAssumption
<1>2. s * sub_cli_count \in Nat /\ t * sub_cli_count \in Nat
    BY <1>1
<1>3. s * sub_cli_count <= t * sub_cli_count
    <2>1. (t - s) * sub_cli_count >= 0
        BY <1>1
    <2>2. t * sub_cli_count = s * sub_cli_count + (t - s) * sub_cli_count
        BY <1>1
    <2> QED
        BY <1>1, <1>2, <2>1, <2>2
<1> QED
    BY <1>1, <1>2, <1>3 DEF Before

\* The first thread begins with the first client, the last ends with the last.
LEMMA BeforeEnds == Before(0) = 0 /\ Before(thread_count) = client_count
    BY Division, ClientAssumption DEF Before

\* A thread's clients are clients.
LEMMA ClientsInRange == \A t \in Threads : ClientsOf(t) \subseteq Conns
<1> TAKE t \in Threads
<1>1. Before(t + 1) <= client_count
    BY BeforeMonotonic, BeforeEnds, ClientAssumption DEF Threads
<1> QED
    BY <1>1, Blocks, ClientAssumption

\* start_multi_client gives every client to one thread and to no other,
\* whatever the residue of the division.
THEOREM EveryClientHasAThread ==
    /\ \A t \in Threads : ClientsOf(t) \subseteq Conns
    /\ \A c \in Conns : \E t \in Threads :
          c \in ClientsOf(t) /\ \A s \in Threads : c \in ClientsOf(s) => s = t
<1> SUFFICES ASSUME NEW c \in Conns
             PROVE  \E t \in Threads :
                       c \in ClientsOf(t) /\ \A s \in Threads : c \in ClientsOf(s) => s = t
    BY ClientsInRange
<1> DEFINE T == {t \in 0..thread_count : c <= Before(t)}
<1>1. thread_count \in T
    BY BeforeEnds, ClientAssumption
<1>2. PICK x \in T : \A y \in T : ~ (<<y, x>> \in OpToRel(<, Nat))
    <2>1. T \subseteq Nat /\ T # {}
        BY <1>1, ClientAssumption
    <2> HIDE DEF T
    <2> QED
        BY <2>1, NatLessThanWellFounded, WFMin
<1>3. x # 0
    BY BeforeEnds, ClientAssumption
<1> DEFINE t == x - 1
<1>4. t \in Threads /\ t < x /\ t \in Nat /\ x \in Nat /\ x = t + 1
    BY <1>3, ClientAssumption DEF Threads
<1>5. t \notin T
    <2>1. <<t, x>> \in OpToRel(<, Nat)
        BY <1>4 DEF OpToRel
    <2> QED
        BY <1>2, <2>1
<1>6. c \in ClientsOf(t)
    <2>1. c <= Before(x) /\ t \in 0..thread_count
        BY <1>4, ClientAssumption DEF Threads
    <2>2. ~ (c <= Before(t))
        BY <1>5, <2>1
    <2> HIDE DEF t, T
    <2>3. c <= Before(t + 1)
        BY <1>4, <2>1
    <2> QED
        BY <1>4, <2>2, <2>3, Blocks, ClientAssumption
<1>7. ASSUME NEW s \in Threads, c \in ClientsOf(s)
      PROVE  s = t
    <2> HIDE DEF t, T
    <2>1. /\ Before(s) \in Nat /\ Before(s + 1) \in Nat
          /\ Before(t) \in Nat /\ Before(t + 1) \in Nat
          /\ Before(s) < c /\ c <= Before(s + 1)
          /\ Before(t) < c /\ c <= Before(t + 1)
        BY <1>4, <1>6, <1>7, Blocks, ClientAssumption
    <2>2. s + 1 <= t => Before(s + 1) <= Before(t)
        BY <1>4, BeforeMonotonic, ClientAssumption DEF Threads
    <2>3. t + 1 <= s => Before(t + 1) <= Before(s)
        BY <1>4, BeforeMonotonic, ClientAssumption DEF Threads
    <2> QED
        BY <1>4, <2>1, <2>2, <2>3, ClientAssumption DEF Threads
<1> QED
    BY <1>4, <1>6, <1>7

-----------------------------------------------------------------------------
(* The inductive invariant. *)

LoopTypes ==
    /\ srv \in {"off", "setup", "poll", "batch", "exited", "killed", "failed"}
    /\ readable \subseteq Conns \cup {Listen, Sig} /\ writable \subseteq Conns
    /\ unsent \subseteq Conns
FlagTypes == sigint \in BOOLEAN /\ loopexit \in BOOLEAN
LinkTypes ==
    /\ link \in [Conns -> {"none", "syn", "backlog", "open", "closed"}]
    /\ inq \subseteq Conns /\ ok \subseteq Conns /\ gone \subseteq Conns
ClientTypes ==
    /\ cli \in {"running", "done", "killed"}
    /\ tpc \in [Threads -> {"start", "loop", "test", "done"}]
    /\ cst \in [Conns -> {"idle", "connecting", "hello", "sent", "freed"}]
    /\ answered \subseteq Conns
    /\ announced \in Nat

\* The type invariant in parts.
LEMMA TypeParts ==
    TypeOK <=> /\ LoopTypes /\ FlagTypes /\ LinkTypes /\ ClientTypes
               /\ comp_req_count \in 0..client_count
    BY Zenon DEF TypeOK, LoopTypes, FlagTypes, LinkTypes, ClientTypes

\* The inductive invariant holds at the start.
LEMMA InitIInv == Init => IInv
<1> SUFFICES ASSUME Init
             PROVE  IInv
    OBVIOUS
<1> USE ClientAssumption DEF Init, ServerInit
<1>1. TypeOK
    <2>1. LoopTypes /\ LinkTypes /\ ClientTypes /\ comp_req_count \in 0..client_count
        BY DEF LoopTypes, LinkTypes, ClientTypes
    <2>2. FlagTypes
        BY Zenon DEF FlagTypes
    <2> QED
        BY <2>1, <2>2, TypeParts
<1>2. FlowInv
    BY DEF FlowInv
<1>3. CountInv
    BY FS_EmptySet DEF CountInv
<1>4. Testing = {}
    BY DEF Testing
<1>5. AnnounceInv
    BY <1>4, FS_EmptySet DEF AnnounceInv
<1> QED
    BY <1>1, <1>2, <1>3, <1>5 DEF IInv

\* The steps that change neither the counter nor what goes with it.
QuietStep ==
    \/ (TcpServerInit \/ SigInt \/ ServerStep) /\ UNCHANGED clientVars
    \/ \E c \in Conns : Handshake(c)
    \/ Join \/ KillClient

\* The clients of a thread are given as clients.
ThreadMove(t) ==
    \/ EnterLoop(t) \/ LeaveLoop(t) \/ Test(t)
    \/ \E c \in Conns : \/ StartClient(t, c) \/ Connected(t, c) \/ WriteHello(t, c)
                        \/ ServerMsgCb(t, c) \/ EventCb(t, c)

\* The steps of the specification; a thread's clients are clients.
LEMMA NextCases ==
    [Next]_vars => \/ QuietStep
                   \/ \E t \in Threads : ThreadMove(t)
                   \/ UNCHANGED vars
<1> SUFFICES ASSUME Next
             PROVE  QuietStep \/ \E t \in Threads : ThreadMove(t)
    OBVIOUS
<1>1. ASSUME NEW t \in Threads, ThreadStep(t)
      PROVE  ThreadMove(t)
    BY <1>1, ClientsInRange DEF ThreadStep, ThreadMove
<1> QED
    BY <1>1 DEF Next, QuietStep, ServerStep

\* What has been answered is counted by a number up to client_count, which it
\* reaches when all clients have been answered and not before.
LEMMA CountBound ==
    ASSUME NEW S \in SUBSET Conns
    PROVE  /\ IsFiniteSet(S) /\ Cardinality(S) \in 0..client_count
           /\ Cardinality(S) = client_count => S = Conns
<1>1. IsFiniteSet(Conns) /\ Cardinality(Conns) = client_count
    BY FS_Interval, ClientAssumption
<1>2. IsFiniteSet(S) /\ Cardinality(S) <= client_count
      /\ (client_count = Cardinality(S) => Conns = S)
    BY <1>1, FS_Subset
<1>3. Cardinality(S) \in Nat
    BY <1>2, FS_CardinalityType
<1> QED
    BY <1>2, <1>3, ClientAssumption

\* At most thread_count threads are between increment and comparison.
LEMMA TestingBound ==
    ASSUME NEW S \in SUBSET Threads
    PROVE  IsFiniteSet(S) /\ Cardinality(S) \in 0..thread_count
<1>1. IsFiniteSet(Threads) /\ Cardinality(Threads) = thread_count
    BY FS_Interval, ClientAssumption DEF Threads
<1>2. IsFiniteSet(S) /\ Cardinality(S) <= thread_count
    BY <1>1, FS_Subset
<1>3. Cardinality(S) \in Nat
    BY <1>2, FS_CardinalityType
<1> QED
    BY <1>2, <1>3, ClientAssumption

\* The server's loop moves a message on or loses it.
LEMMA ServerKeeps ==
    ASSUME TypeOK, FlowInv, LoopStep, UNCHANGED clientVars
    PROVE  LoopTypes' /\ FlagTypes' /\ LinkTypes' /\ ClientTypes' /\ FlowInv'
<1>t. LoopTypes /\ FlagTypes /\ LinkTypes /\ ClientTypes
    BY TypeParts
<1>c. ClientTypes' /\ UNCHANGED <<cst, answered>>
    BY <1>t DEF ClientTypes, clientVars
<1> USE DEF linkVars
<1>1. CASE Dispatch
    <2>1. LoopTypes' /\ LinkTypes' /\ FlowInv'
        BY <1>t, <1>c, <1>1 DEF Dispatch, LoopTypes, LinkTypes, FlowInv
    <2>2. FlagTypes'
        BY <1>t, <1>1, Zenon DEF Dispatch, FlagTypes
    <2> QED
        BY <1>c, <2>1, <2>2
<1>2. CASE Poll
    <2>1. LoopTypes' /\ LinkTypes' /\ FlowInv'
        BY <1>t, <1>c, <1>2 DEF Poll, ReadReady, Open, LoopTypes, LinkTypes, FlowInv
    <2>2. FlagTypes'
        BY <1>t, <1>2, Zenon DEF Poll, FlagTypes
    <2> QED
        BY <1>c, <2>1, <2>2
<1>3. CASE SignalCb
    <2>1. LoopTypes' /\ LinkTypes' /\ FlowInv'
        BY <1>t, <1>c, <1>3 DEF SignalCb, LoopTypes, LinkTypes, FlowInv
    <2>2. FlagTypes'
        BY <1>t, <1>3, Zenon DEF SignalCb, FlagTypes
    <2> QED
        BY <1>c, <2>1, <2>2
<1>4. CASE BatchDone
    <2>1. LoopTypes' /\ LinkTypes' /\ FlowInv'
        BY <1>t, <1>c, <1>4 DEF BatchDone, CloseLinks, LoopTypes, LinkTypes, FlowInv
    <2>2. FlagTypes'
        BY <1>t, <1>4, Zenon DEF BatchDone, FlagTypes
    <2> QED
        BY <1>c, <2>1, <2>2
<1>5. ASSUME NEW c \in Conns, AcceptCb(c) \/ BeMsgCb(c) \/ BeEventCb(c) \/ Flush(c)
      PROVE  LoopTypes' /\ FlagTypes' /\ LinkTypes' /\ FlowInv'
    <2>1. FlagTypes'
        BY <1>t, <1>5, Zenon DEF AcceptCb, BeMsgCb, BeEventCb, Flush, FlagTypes
    <2>2. LoopTypes' /\ LinkTypes'
        BY <1>t, <1>5 DEF AcceptCb, BeMsgCb, BeEventCb, Flush, FreeBufferevent,
                          CloseLinks, LoopTypes, LinkTypes
    <2>3. CASE AcceptCb(c)
        BY <1>c, <2>1, <2>2, <2>3 DEF AcceptCb, FlowInv
    <2>4. CASE BeMsgCb(c)
        BY <1>c, <2>1, <2>2, <2>4 DEF BeMsgCb, FlowInv
    <2>5. CASE BeEventCb(c)
        BY <1>c, <2>1, <2>2, <2>5 DEF BeEventCb, FreeBufferevent, FlowInv
    <2>6. CASE Flush(c)
        BY <1>c, <2>1, <2>2, <2>6 DEF Flush, FlowInv
    <2> QED
        BY <1>5, <2>1, <2>2, <2>3, <2>4, <2>5, <2>6
<1> QED
    BY <1>c, <1>1, <1>2, <1>3, <1>4, <1>5 DEF LoopStep

\* The other steps outside the client's threads.
LEMMA QuietKeeps ==
    ASSUME TypeOK, FlowInv, QuietStep
    PROVE  LoopTypes' /\ FlagTypes' /\ LinkTypes' /\ ClientTypes' /\ FlowInv'
<1>t. LoopTypes /\ FlagTypes /\ LinkTypes /\ ClientTypes
    BY TypeParts
<1> USE DEF linkVars, loopVars, clientVars
<1>1. CASE (TcpServerInit \/ SigInt) /\ UNCHANGED clientVars
    <2>1. LoopTypes' /\ LinkTypes' /\ ClientTypes' /\ FlowInv'
        BY <1>t, <1>1 DEF TcpServerInit, SigInt, CloseLinks, LoopTypes, LinkTypes,
                          ClientTypes, FlowInv
    <2>2. FlagTypes'
        BY <1>t, <1>1, Zenon DEF TcpServerInit, SigInt, FlagTypes
    <2> QED
        BY <2>1, <2>2
<1>2. CASE ServerStep
    BY <1>2, ServerKeeps DEF ServerStep
<1>3. ASSUME NEW c \in Conns, Handshake(c)
      PROVE  LoopTypes' /\ FlagTypes' /\ LinkTypes' /\ ClientTypes' /\ FlowInv'
    <2>1. LoopTypes' /\ LinkTypes' /\ ClientTypes' /\ FlowInv'
        BY <1>t, <1>3 DEF Handshake, LoopTypes, LinkTypes, ClientTypes, FlowInv
    <2>2. FlagTypes'
        BY <1>t, <1>3, Zenon DEF Handshake, FlagTypes
    <2> QED
        BY <2>1, <2>2
<1>4. CASE Join \/ KillClient
    <2>1. LoopTypes' /\ LinkTypes' /\ ClientTypes' /\ FlowInv'
        BY <1>t, <1>4 DEF Join, KillClient, CloseLinks, Backlog, Open, LoopTypes,
                          LinkTypes, ClientTypes, FlowInv
    <2>2. FlagTypes'
        BY <1>t, <1>4, Zenon DEF Join, KillClient, FlagTypes
    <2> QED
        BY <2>1, <2>2
<1> QED
    BY <1>1, <1>2, <1>3, <1>4 DEF QuietStep

\* The steps of a thread: a client says hello once.
LEMMA ThreadKeeps ==
    ASSUME TypeOK, FlowInv, NEW t \in Threads, ThreadMove(t)
    PROVE  LoopTypes' /\ FlagTypes' /\ LinkTypes' /\ ClientTypes' /\ FlowInv'
<1>t. LoopTypes /\ FlagTypes /\ LinkTypes /\ ClientTypes
    BY TypeParts
<1>l. LoopTypes' /\ UNCHANGED loopVars
    BY <1>t DEF ThreadMove, EnterLoop, LeaveLoop, Test, StartClient, Connected, WriteHello,
                ServerMsgCb, EventCb, loopVars, LoopTypes
<1>f. FlagTypes'
    BY <1>t, <1>l, Zenon DEF loopVars, FlagTypes
<1> USE DEF linkVars, loopVars
<1>1. CASE EnterLoop(t) \/ LeaveLoop(t) \/ Test(t)
    BY <1>t, <1>l, <1>f, <1>1 DEF EnterLoop, LeaveLoop, Test, LinkTypes, ClientTypes, FlowInv
<1>2. ASSUME NEW c \in Conns, StartClient(t, c)
      PROVE  LinkTypes' /\ ClientTypes' /\ FlowInv'
    <2>1. LinkTypes' /\ ClientTypes'
        BY <1>t, <1>2 DEF StartClient, LinkTypes, ClientTypes
    <2>2. FlowInv'
        BY <1>t, <1>2 DEF StartClient, ClientTypes, FlowInv
    <2> QED
        BY <2>1, <2>2
<1>3. ASSUME NEW c \in Conns, Connected(t, c) \/ EventCb(t, c)
      PROVE  LinkTypes' /\ ClientTypes' /\ FlowInv'
    <2>1. LinkTypes' /\ ClientTypes'
        BY <1>t, <1>3 DEF Connected, EventCb, LinkTypes, ClientTypes
    <2>2. FlowInv'
        BY <1>t, <1>3 DEF Connected, EventCb, ClientTypes, FlowInv
    <2> QED
        BY <2>1, <2>2
<1>4. ASSUME NEW c \in Conns, WriteHello(t, c)
      PROVE  LinkTypes' /\ ClientTypes' /\ FlowInv'
    <2>1. LinkTypes' /\ ClientTypes'
        BY <1>t, <1>4 DEF WriteHello, LinkTypes, ClientTypes
    <2>2. FlowInv'
        BY <1>t, <1>4 DEF WriteHello, ClientTypes, FlowInv
    <2> QED
        BY <2>1, <2>2
<1>5. ASSUME NEW c \in Conns, ServerMsgCb(t, c)
      PROVE  LinkTypes' /\ ClientTypes' /\ FlowInv'
    <2>1. LinkTypes' /\ ClientTypes'
        BY <1>t, <1>5 DEF ServerMsgCb, LinkTypes, ClientTypes
    <2>2. FlowInv'
        BY <1>t, <1>5 DEF ServerMsgCb, ClientTypes, FlowInv
    <2> QED
        BY <2>1, <2>2
<1> QED
    BY <1>l, <1>f, <1>1, <1>2, <1>3, <1>4, <1>5 DEF ThreadMove

\* The counter: server_msg_cb counts a client that it has not counted before,
\* so that no thread has announced anything yet; and a thread announces when
\* it stops testing.
LEMMA CountStep == IInv /\ [Next]_vars => CountInv' /\ AnnounceInv'
<1> SUFFICES ASSUME IInv, [Next]_vars
             PROVE  CountInv' /\ AnnounceInv'
    OBVIOUS
<1>t. ClientTypes /\ LinkTypes /\ FlowInv /\ CountInv /\ AnnounceInv
    BY TypeParts DEF IInv
<1>b. IsFiniteSet(Testing) /\ Cardinality(Testing) \in Nat
    BY TestingBound DEF Testing
<1>1. CASE UNCHANGED <<tpc, answered, comp_req_count, announced>>
    <2>1. Testing' = Testing
        BY <1>1 DEF Testing
    <2> QED
        BY <1>t, <1>1, <2>1 DEF CountInv, AnnounceInv
<1>2. ASSUME NEW t \in Threads, tpc[t] # "test", tpc'[t] # "test",
             \A s \in Threads \ {t} : tpc'[s] = tpc[s],
             UNCHANGED <<answered, comp_req_count, announced>>
      PROVE  CountInv' /\ AnnounceInv'
    <2>1. Testing' = Testing
        BY <1>2 DEF Testing
    <2> QED
        BY <1>t, <1>2, <2>1 DEF CountInv, AnnounceInv
<1>3. ASSUME NEW t \in Threads, Test(t)
      PROVE  CountInv' /\ AnnounceInv'
    <2>1. /\ tpc[t] = "test" /\ tpc' = [tpc EXCEPT ![t] = "loop"]
          /\ UNCHANGED <<answered, comp_req_count>>
          /\ announced' # announced =>
                announced' = announced + 1 /\ comp_req_count = client_count
        BY <1>3 DEF Test
    <2>2. Testing' = Testing \ {t} /\ t \in Testing
        BY <1>t, <2>1 DEF Testing, ClientTypes
    <2>3. Cardinality(Testing') = Cardinality(Testing) - 1
        BY <1>b, <2>2, FS_RemoveElement
    <2> QED
        BY <1>t, <1>b, <2>1, <2>3, ClientAssumption DEF CountInv, AnnounceInv, ClientTypes
<1>4. ASSUME NEW t \in Threads, NEW c \in Conns, ServerMsgCb(t, c)
      PROVE  CountInv' /\ AnnounceInv'
    <2>1. /\ c \in ok /\ answered' = answered \cup {c}
          /\ comp_req_count' = comp_req_count + 1 /\ UNCHANGED announced
        BY <1>4 DEF ServerMsgCb
    <2>2. c \notin answered
        BY <1>t, <2>1 DEF FlowInv
    <2>3. CountInv'
        BY <1>t, <2>1, <2>2, CountBound, FS_AddElement DEF CountInv, ClientTypes
    <2>4. comp_req_count # client_count
        BY <1>t, <2>2, CountBound DEF CountInv, ClientTypes
    <2>5. announced = 0
        BY <1>t, <2>4 DEF AnnounceInv, ClientTypes
    <2>6. Cardinality(Testing') \in 0..thread_count
        BY TestingBound DEF Testing
    <2> QED
        BY <2>1, <2>3, <2>5, <2>6, ClientAssumption DEF AnnounceInv
<1>5. CASE QuietStep
    BY <1>1, <1>5 DEF QuietStep, ServerStep, Handshake, Join, KillClient, clientVars
<1>6. ASSUME NEW t \in Threads, EnterLoop(t) \/ LeaveLoop(t)
      PROVE  CountInv' /\ AnnounceInv'
    <2>1. /\ tpc[t] # "test" /\ tpc'[t] # "test"
          /\ \A s \in Threads \ {t} : tpc'[s] = tpc[s]
          /\ UNCHANGED <<answered, comp_req_count, announced>>
        BY <1>t, <1>6 DEF EnterLoop, LeaveLoop, ClientTypes
    <2> QED
        BY <1>2, <2>1
<1>7. ASSUME NEW t \in Threads, NEW c \in Conns,
             StartClient(t, c) \/ Connected(t, c) \/ WriteHello(t, c) \/ EventCb(t, c)
      PROVE  CountInv' /\ AnnounceInv'
    BY <1>1, <1>7 DEF StartClient, Connected, WriteHello, EventCb
<1>8. CASE UNCHANGED vars
    BY <1>1, <1>8 DEF vars, clientVars
<1> QED
    BY <1>3, <1>4, <1>5, <1>6, <1>7, <1>8, NextCases DEF ThreadMove

\* The inductive invariant holds in every state.
LEMMA IInvAlways == Spec => []IInv
<1>1. IInv /\ [Next]_vars => IInv'
    <2> SUFFICES ASSUME IInv, [Next]_vars
                 PROVE  IInv'
        OBVIOUS
    <2>1. LoopTypes' /\ FlagTypes' /\ LinkTypes' /\ ClientTypes' /\ FlowInv'
        <3>1. CASE UNCHANGED vars
            <4>1. LoopTypes /\ FlagTypes /\ LinkTypes /\ ClientTypes /\ FlowInv
                BY TypeParts DEF IInv
            <4>2. LoopTypes' /\ LinkTypes' /\ ClientTypes' /\ FlowInv'
                BY <3>1, <4>1 DEF vars, loopVars, linkVars, clientVars, LoopTypes, LinkTypes,
                                  ClientTypes, FlowInv
            <4>3. FlagTypes'
                BY <3>1, <4>1, Zenon DEF vars, loopVars, FlagTypes
            <4> QED
                BY <4>2, <4>3
        <3> QED
            BY <3>1, NextCases, QuietKeeps, ThreadKeeps DEF IInv
    <2>2. CountInv' /\ AnnounceInv'
        BY CountStep
    <2>3. comp_req_count' \in 0..client_count
        BY <2>1, <2>2, CountBound DEF CountInv, ClientTypes
    <2>4. TypeOK'
        BY <2>1, <2>3, Zenon DEF TypeOK, LoopTypes, FlagTypes, LinkTypes, ClientTypes
    <2> QED
        BY <2>1, <2>2, <2>4 DEF IInv
<1> QED
    BY <1>1, InitIInv, PTL DEF Spec

-----------------------------------------------------------------------------
\* The variables have their types; server_msg_cb counts no client twice, so
\* that comp_req_count never passes total_req_count.
THEOREM TypeCorrect == Spec => []TypeOK
<1>1. IInv => TypeOK
    BY DEF IInv
<1> QED
    BY <1>1, IInvAlways, PTL

\* "All client request complete" is printed only after every client has been
\* answered, and at most once by each thread.
THEOREM AnnouncementIsTrue == Spec => []CompletionIsTrue
<1>1. IInv => CompletionIsTrue
    <2> SUFFICES ASSUME IInv
                 PROVE  CompletionIsTrue
        OBVIOUS
    <2>1. ClientTypes /\ CountInv /\ AnnounceInv
        BY TypeParts DEF IInv
    <2>2. announced > 0 => answered = Conns
        BY <2>1, CountBound DEF ClientTypes, CountInv, AnnounceInv
    <2>3. Cardinality(Testing) \in Nat
        BY TestingBound DEF Testing
    <2>4. announced <= thread_count
        BY <2>1, <2>3, ClientAssumption DEF AnnounceInv, ClientTypes
    <2> QED
        BY <2>2, <2>4 DEF CompletionIsTrue
<1> QED
    BY <1>1, IInvAlways, PTL
=============================================================================
