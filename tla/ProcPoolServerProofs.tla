----------------------- MODULE ProcPoolServerProofs -----------------------
(***************************************************************************)
(* Theorems about ProcPoolServer: what holds of the pool for any number of *)
(* connections, of children, of crashes and signals, and for any capacity  *)
(* of the socketpairs.                                                     *)
(***************************************************************************)
EXTENDS ProcPoolServer, TLAPS, WellFoundedInduction

\* A child goes to its socketpair only for a notification that is in it.
NoteInv == \A k \in Children : Pipe \in cevents[k] => notes[k] >= 1

\* The parent knows the pid of exactly the children it has forked and not
\* yet waited for.
PidInv == \A k \in Children : m_pid[k] = -1 <=> cpc[k] \in {"unborn", "reaped"}

\* Once the parent is in its loop every child has been forked.
BornInv ==
    ppc \in {"wait", "batch", "done"} => \A k \in Children : cpc[k] # "unborn"

\* The parent stops, and a fortiori ends, only when all children are waited for.
StopInv ==
    /\ pstop => \A k \in Children : cpc[k] = "reaped"
    /\ ppc = "done" => pstop

\* While the parent forks, and nothing fails then, no child stops or ends.
ForkInv ==
    ppc = "fork" /\ ~StartupFaults =>
        /\ csig = {} /\ cstop = {}
        /\ \A k \in Children : Sig \notin cevents[k] /\ cpc[k] \notin {"zombie", "reaped"}

\* An open connection belongs to a child that is in its loop.
OwnerInv ==
    \A c \in Conns : cstate[c] = "open" =>
        owner[c] \in {k \in Children : cpc[k] \in {"wait", "batch"}}

\* The connections a child is about to process are open and its own.
EventInv ==
    \A k \in Children : cpc[k] = "batch" =>
        \A c \in cevents[k] \cap Conns : cstate[c] = "open" /\ owner[c] = k

IInv ==
    /\ TypeOK
    /\ NoteInv
    /\ PidInv
    /\ BornInv
    /\ StopInv
    /\ ForkInv
    /\ OwnerInv
    /\ EventInv
    /\ NoZombieForgotten

-----------------------------------------------------------------------------
\* A set of natural numbers that is not empty has a least element.
LEMMA LeastElement ==
    ASSUME NEW T, T \subseteq Nat, T # {}
    PROVE  \E x \in T : \A y \in T : x <= y
<1>1. PICK x \in T : \A y \in T : ~ (<<y, x>> \in OpToRel(<, Nat))
    BY NatLessThanWellFounded, WFMin
<1>2. ASSUME NEW y \in T
      PROVE  x <= y
    <2>1. ~ (<<y, x>> \in OpToRel(<, Nat))
        BY <1>1
    <2>2. ~ (y < x)
        BY <2>1 DEF OpToRel
    <2> QED
        BY <2>2
<1> QED
    BY <1>2

\* As long as a child is live the parent's search finds a live one: the turn
\* goes round all slots, whatever child it starts from.
LEMMA NextLiveIsLive == TypeOK /\ Live # {} => NextLive \in Live
<1> SUFFICES ASSUME TypeOK, Live # {}
             PROVE  NextLive \in Live
    OBVIOUS
<1> DEFINE dist(k) == (k + process_number - sub_process_counter) % process_number
<1>1. \A k \in Live : dist(k) \in Nat
    BY PoolAssumption DEF TypeOK, Children, Live
<1> DEFINE D == {dist(k) : k \in Live}
<1>2. D \subseteq Nat /\ D # {}
    BY <1>1
<1> HIDE DEF dist
<1>3. PICK x \in D : \A y \in D : x <= y
    BY <1>2, LeastElement
<1>4. PICK k \in Live : x = dist(k)
    OBVIOUS
<1>5. \A l \in Live : dist(k) <= dist(l)
    BY <1>3, <1>4
<1> QED
    BY <1>4, <1>5 DEF NextLive, dist

\* The inductive invariant holds at the start.
LEMMA InitIInv == Init => IInv
<1> SUFFICES ASSUME Init
             PROVE  IInv
    OBVIOUS
<1> USE PoolAssumption, NobodyAssumption DEF Init
<1>1. 0 \in Children
    BY DEF Children
<1>2. TypeOK
    <2>1. m_pid \in [Children -> Children \cup {-1}] /\ notes \in [Children -> 0..PipeCap]
        OBVIOUS
    <2>2. crashes \in 0..MaxCrashes /\ nsig \in 0..MaxSigs
        OBVIOUS
    <2> QED
        BY <1>1, <2>1, <2>2 DEF TypeOK
<1>3. NoteInv /\ PidInv /\ BornInv /\ StopInv /\ ForkInv
    BY DEF NoteInv, PidInv, BornInv, StopInv, ForkInv
<1>4. OwnerInv /\ EventInv /\ NoZombieForgotten
    BY DEF OwnerInv, EventInv, NoZombieForgotten
<1> QED
    BY <1>2, <1>3, <1>4 DEF IInv

\* Every step keeps the types.
LEMMA TypeStep == IInv /\ [Next]_vars => TypeOK'
<1> SUFFICES ASSUME IInv, [Next]_vars
             PROVE  TypeOK'
    OBVIOUS
<1> USE PoolAssumption DEF IInv, TypeOK, parentVars, childVars, connVars, bounds
<1>1. ASSUME NEW c \in Conns, Connect(c) \/ ClientSend(c) \/ ClientHangup(c)
      PROVE  TypeOK'
    <2>1. CASE Connect(c)
        BY <2>1 DEF Connect
    <2>2. CASE ClientSend(c)
        BY <2>2 DEF ClientSend
    <2>3. CASE ClientHangup(c)
        BY <2>3 DEF ClientHangup
    <2> QED
        BY <1>1, <2>1, <2>2, <2>3
<1>2. ASSUME NEW k \in Children, Crash(k)
      PROVE  TypeOK'
    BY <1>2 DEF Crash, Die, CloseFor
<1>3. CASE SigTerm
    <2>1. nsig' \in 0..MaxSigs
        BY <1>3 DEF SigTerm
    <2>2. CASE Handling
        <3>1. psigs' = psigs \cup {"TERM"} /\ ppc' = ppc /\ cstate' = cstate
            BY <1>3, <2>2 DEF SigTerm
        <3> QED
            BY <1>3, <2>1, <3>1 DEF SigTerm
    <2>3. CASE ~Handling
        <3>1. /\ psigs' = psigs /\ ppc' = "killed"
              /\ CloseFor({}, \A k \in Children : ~Running(k))
            BY <1>3, <2>3 DEF SigTerm
        <3>2. cstate' \in [Conns -> {"new", "backlog", "open", "closed"}]
            BY <3>1 DEF CloseFor
        <3> QED
            BY <1>3, <2>1, <3>1, <3>2 DEF SigTerm
    <2> QED
        BY <2>2, <2>3
<1>4. CASE SigInt
    BY <1>4 DEF SigInt, CloseFor
<1>5. ASSUME NEW k \in Children, Fork(k)
      PROVE  TypeOK'
    BY <1>5 DEF Fork
<1>6. CASE ParentSetup
    BY <1>6 DEF ParentSetup
<1>7. CASE ParentWait
    BY <1>7 DEF ParentWait, ParentReady
<1>8. CASE Notify
    <2>1. NextLive \in Children
        BY <1>8, NextLiveIsLive DEF Notify, Live
    <2>2. (NextLive + 1) % process_number \in Children
        BY <2>1 DEF Children
    <2> QED
        BY <1>8, <2>1, <2>2 DEF Notify
<1>9. CASE NotifyNobody
    BY <1>9 DEF NotifyNobody
<1>10. CASE ReadSignals
    BY <1>10 DEF ReadSignals
<1>11. CASE HandleChld
    BY <1>11 DEF HandleChld
<1>12. CASE HandleTerm
    BY <1>12 DEF HandleTerm, Die, CloseFor, Live
<1>13. CASE ParentBatchDone
    BY <1>13 DEF ParentBatchDone, CloseFor
<1>14. ASSUME NEW k \in Children, ChildSetup(k)
       PROVE  TypeOK'
    BY <1>14 DEF ChildSetup
<1>15. ASSUME NEW k \in Children, ChildWait(k)
       PROVE  TypeOK'
    <2>1. ChildReady(k) \in SUBSET (Conns \cup {Pipe, Sig})
        BY DEF ChildReady
    <2> QED
        BY <1>15, <2>1 DEF ChildWait
<1>16. ASSUME NEW k \in Children, ChildBatchDone(k)
       PROVE  TypeOK'
    <2>1. CASE k \in cstop
        <3>1. Die({k})
            BY <1>16, <2>1 DEF ChildBatchDone
        <3>2. /\ psigs' \subseteq {"CHLD", "TERM"}
              /\ cstate' \in [Conns -> {"new", "backlog", "open", "closed"}]
              /\ cpc' \in [Children -> {"unborn", "setup", "wait", "batch", "zombie", "reaped"}]
            BY <3>1 DEF Die, CloseFor
        <3> QED
            BY <1>16, <3>2 DEF ChildBatchDone
    <2>2. CASE k \notin cstop
        BY <1>16, <2>2 DEF ChildBatchDone
    <2> QED
        BY <2>1, <2>2
<1>17. ASSUME NEW k \in Children, AcceptNone(k)
       PROVE  TypeOK'
    <2>1. notes[k] - 1 \in 0..PipeCap
        BY <1>17 DEF AcceptNone, NoteInv
    <2> QED
        BY <1>17, <2>1 DEF AcceptNone
<1>18. ASSUME NEW k \in Children, ChildSignal(k)
       PROVE  TypeOK'
    BY <1>18 DEF ChildSignal
<1>19. ASSUME NEW k \in Children, NEW c \in Conns, Accept(k, c)
       PROVE  TypeOK'
    <2>1. notes[k] - 1 \in 0..PipeCap
        BY <1>19 DEF Accept, NoteInv
    <2> QED
        BY <1>19, <2>1 DEF Accept
<1>20. ASSUME NEW k \in Children, NEW c \in Conns, Process(k, c)
       PROVE  TypeOK'
    BY <1>20 DEF Process
<1>21. CASE UNCHANGED vars
    BY <1>21 DEF vars
<1> QED
    BY <1>1, <1>2, <1>3, <1>4, <1>5, <1>6, <1>7, <1>8, <1>9, <1>10, <1>11, <1>12,
       <1>13, <1>14, <1>15, <1>16, <1>17, <1>18, <1>19, <1>20, <1>21
       DEF Next, Environment, ParentStep, ChildStep

-----------------------------------------------------------------------------
\* A notification is in the socketpair until the child takes it.
LEMMA NoteStep == IInv /\ [Next]_vars => NoteInv'
<1> SUFFICES ASSUME IInv, [Next]_vars
             PROVE  NoteInv'
    OBVIOUS
<1> USE PoolAssumption DEF IInv, TypeOK, NoteInv, parentVars, childVars, connVars, bounds
<1>1. ASSUME NEW c \in Conns, Connect(c) \/ ClientSend(c) \/ ClientHangup(c)
      PROVE  NoteInv'
    BY <1>1 DEF Connect, ClientSend, ClientHangup
<1>2. ASSUME NEW k \in Children, Crash(k) \/ Fork(k) \/ ChildSetup(k) \/ ChildBatchDone(k)
      PROVE  NoteInv'
    BY <1>2 DEF Crash, Fork, ChildSetup, ChildBatchDone
<1>3. CASE SigTerm \/ SigInt
    BY <1>3 DEF SigTerm, SigInt
<1>4. CASE \/ ParentSetup \/ ParentWait \/ NotifyNobody \/ ReadSignals \/ HandleChld
           \/ HandleTerm \/ ParentBatchDone
    BY <1>4 DEF ParentSetup, ParentWait, NotifyNobody, ReadSignals, HandleChld,
                HandleTerm, ParentBatchDone
<1>5. CASE Notify
    <2>1. \A k \in Children : notes'[k] >= notes[k] /\ notes'[k] \in Int
        BY <1>5 DEF Notify
    <2>2. cevents' = cevents
        BY <1>5 DEF Notify
    <2> QED
        BY <2>1, <2>2
<1>6. ASSUME NEW k \in Children, ChildWait(k)
      PROVE  NoteInv'
    BY <1>6 DEF ChildWait, ChildReady
<1>7. ASSUME NEW k \in Children, AcceptNone(k) \/ ChildSignal(k)
      PROVE  NoteInv'
    BY <1>7 DEF AcceptNone, ChildSignal
<1>8. ASSUME NEW k \in Children, NEW c \in Conns, Accept(k, c) \/ Process(k, c)
      PROVE  NoteInv'
    BY <1>8 DEF Accept, Process
<1>9. CASE UNCHANGED vars
    BY <1>9 DEF vars
<1> QED
    BY <1>1, <1>2, <1>3, <1>4, <1>5, <1>6, <1>7, <1>8, <1>9
       DEF Next, Environment, ParentStep, ChildStep

\* What the parent knows of its children, and when it stops.
LEMMA ParentInvStep == IInv /\ [Next]_vars => PidInv' /\ BornInv' /\ StopInv'
<1> SUFFICES ASSUME IInv, [Next]_vars
             PROVE  PidInv' /\ BornInv' /\ StopInv'
    OBVIOUS
<1> USE PoolAssumption DEF IInv, TypeOK, PidInv, BornInv, StopInv,
        parentVars, childVars, connVars, bounds
<1>a. -1 \notin Children
    BY DEF Children
<1>1. ASSUME NEW c \in Conns, Connect(c) \/ ClientSend(c) \/ ClientHangup(c)
      PROVE  PidInv' /\ BornInv' /\ StopInv'
    BY <1>1 DEF Connect, ClientSend, ClientHangup
<1>2. ASSUME NEW k \in Children, Crash(k)
      PROVE  PidInv' /\ BornInv' /\ StopInv'
    BY <1>2 DEF Crash, Die, Running
<1>3. CASE SigTerm
    <2>1. CASE Handling
        BY <1>3, <2>1 DEF SigTerm
    <2>2. CASE ~Handling
        BY <1>3, <2>2 DEF SigTerm
    <2> QED
        BY <2>1, <2>2
<1>4. CASE SigInt
    BY <1>4 DEF SigInt, Handling
<1>5. ASSUME NEW k \in Children, Fork(k)
      PROVE  PidInv' /\ BornInv' /\ StopInv'
    BY <1>a, <1>5 DEF Fork
<1>6. CASE ParentSetup \/ ParentWait \/ Notify \/ ReadSignals
    BY <1>6 DEF ParentSetup, ParentWait, Notify, ReadSignals
<1>7. CASE NotifyNobody
    BY <1>7 DEF NotifyNobody, Live
<1>8. CASE HandleChld
    <2>1. PidInv'
        BY <1>8 DEF HandleChld
    <2>2. BornInv'
        BY <1>8 DEF HandleChld
    <2>3. StopInv'
        <3>1. ASSUME pstop'
              PROVE  \A k \in Children : cpc'[k] = "reaped"
            BY <1>8, <2>1, <2>2, <3>1 DEF HandleChld
        <3> QED
            BY <1>8, <3>1 DEF HandleChld
    <2> QED
        BY <2>1, <2>2, <2>3
<1>9. CASE HandleTerm
    BY <1>9 DEF HandleTerm, Die, Live
<1>10. CASE ParentBatchDone
    BY <1>10 DEF ParentBatchDone
<1>11. ASSUME NEW k \in Children, ChildSetup(k) \/ ChildWait(k) \/ AcceptNone(k) \/ ChildSignal(k)
       PROVE  PidInv' /\ BornInv' /\ StopInv'
    BY <1>11 DEF ChildSetup, ChildWait, AcceptNone, ChildSignal
<1>12. ASSUME NEW k \in Children, ChildBatchDone(k)
       PROVE  PidInv' /\ BornInv' /\ StopInv'
    <2>1. CASE k \in cstop
        BY <1>12, <2>1 DEF ChildBatchDone, Die
    <2>2. CASE k \notin cstop
        BY <1>12, <2>2 DEF ChildBatchDone
    <2> QED
        BY <2>1, <2>2
<1>13. ASSUME NEW k \in Children, NEW c \in Conns, Accept(k, c) \/ Process(k, c)
       PROVE  PidInv' /\ BornInv' /\ StopInv'
    BY <1>13 DEF Accept, Process
<1>14. CASE UNCHANGED vars
    BY <1>14 DEF vars
<1> QED
    BY <1>1, <1>2, <1>3, <1>4, <1>5, <1>6, <1>7, <1>8, <1>9, <1>10, <1>11, <1>12,
       <1>13, <1>14 DEF Next, Environment, ParentStep, ChildStep

\* Before the parent's handlers are installed no child is told to stop.
LEMMA ForkStep == IInv /\ [Next]_vars => ForkInv'
<1> SUFFICES ASSUME IInv, [Next]_vars
             PROVE  ForkInv'
    OBVIOUS
<1> USE PoolAssumption DEF IInv, TypeOK, ForkInv, parentVars, childVars, connVars, bounds
<1>1. ASSUME NEW c \in Conns, Connect(c) \/ ClientSend(c) \/ ClientHangup(c)
      PROVE  ForkInv'
    BY <1>1 DEF Connect, ClientSend, ClientHangup
<1>2. ASSUME NEW k \in Children, Crash(k)
      PROVE  ForkInv'
    BY <1>2 DEF Crash, Die
<1>3. CASE SigTerm
    BY <1>3 DEF SigTerm, Handling
<1>4. CASE SigInt
    BY <1>4 DEF SigInt, Handling
<1>5. ASSUME NEW k \in Children, Fork(k)
      PROVE  ForkInv'
    BY <1>5 DEF Fork
<1>6. CASE \/ ParentSetup \/ ParentWait \/ Notify \/ NotifyNobody \/ ReadSignals
           \/ HandleChld \/ HandleTerm \/ ParentBatchDone
    <2>1. ppc' # "fork"
        BY <1>6 DEF ParentSetup, ParentWait, Notify, NotifyNobody, ReadSignals,
                    HandleChld, HandleTerm, ParentBatchDone
    <2> QED
        BY <2>1
<1>7. ASSUME NEW k \in Children, ChildSetup(k) \/ AcceptNone(k) \/ ChildSignal(k)
      PROVE  ForkInv'
    BY <1>7 DEF ChildSetup, AcceptNone, ChildSignal
<1>8. ASSUME NEW k \in Children, ChildWait(k)
      PROVE  ForkInv'
    <2>1. k \notin csig => Sig \notin ChildReady(k)
        BY DEF ChildReady
    <2> QED
        BY <1>8, <2>1 DEF ChildWait
<1>9. ASSUME NEW k \in Children, ChildBatchDone(k)
      PROVE  ForkInv'
    <2>1. ppc' = ppc /\ csig' = csig /\ cstop' = cstop /\ cevents' = cevents
        BY <1>9 DEF ChildBatchDone
    <2>2. k \notin cstop => cpc' = [cpc EXCEPT ![k] = "wait"]
        BY <1>9 DEF ChildBatchDone
    <2> QED
        BY <2>1, <2>2
<1>10. ASSUME NEW k \in Children, NEW c \in Conns, Accept(k, c) \/ Process(k, c)
       PROVE  ForkInv'
    BY <1>10 DEF Accept, Process
<1>11. CASE UNCHANGED vars
    BY <1>11 DEF vars
<1> QED
    BY <1>1, <1>2, <1>3, <1>4, <1>5, <1>6, <1>7, <1>8, <1>9, <1>10, <1>11
       DEF Next, Environment, ParentStep, ChildStep

\* A zombie appears together with a SIGCHLD, and the SIGCHLD is given up only
\* by the step that waits for all zombies.
LEMMA ZombieStep == IInv /\ [Next]_vars => NoZombieForgotten'
<1> SUFFICES ASSUME IInv, [Next]_vars
             PROVE  NoZombieForgotten'
    OBVIOUS
<1> USE PoolAssumption DEF IInv, TypeOK, NoZombieForgotten, Handling,
        parentVars, childVars, connVars, bounds
<1>1. ASSUME NEW c \in Conns, Connect(c) \/ ClientSend(c) \/ ClientHangup(c)
      PROVE  NoZombieForgotten'
    BY <1>1 DEF Connect, ClientSend, ClientHangup
<1>2. ASSUME NEW K \in SUBSET Children, Die(K), ppc' = ppc, pbuf' \in {pbuf, pbuf \ {"TERM"}}
      PROVE  NoZombieForgotten'
    <2>1. CASE K = {}
        BY <1>2, <2>1 DEF Die
    <2>2. CASE K # {}
        BY <1>2, <2>2 DEF Die
    <2> QED
        BY <2>1, <2>2
<1>3. ASSUME NEW k \in Children, Crash(k)
      PROVE  NoZombieForgotten'
    BY <1>2, <1>3 DEF Crash
<1>4. CASE HandleTerm
    BY <1>2, <1>4 DEF HandleTerm, Live
<1>5. ASSUME NEW k \in Children, ChildBatchDone(k)
      PROVE  NoZombieForgotten'
    <2>1. CASE k \in cstop
        BY <1>2, <1>5, <2>1 DEF ChildBatchDone
    <2>2. CASE k \notin cstop
        BY <1>5, <2>2 DEF ChildBatchDone
    <2> QED
        BY <2>1, <2>2
<1>6. CASE SigTerm
    BY <1>6 DEF SigTerm
<1>7. CASE SigInt
    <2> DEFINE K == {k \in Children : cpc[k] = "setup"}
    <2>1. CASE K = {}
        BY <1>7, <2>1 DEF SigInt
    <2>2. CASE K # {}
        BY <1>7, <2>2 DEF SigInt
    <2> QED
        BY <2>1, <2>2
<1>8. ASSUME NEW k \in Children, Fork(k)
      PROVE  NoZombieForgotten'
    BY <1>8 DEF Fork
<1>9. CASE ParentSetup
    BY <1>9 DEF ParentSetup, ForkInv
<1>10. CASE \/ ParentWait \/ Notify \/ NotifyNobody \/ ReadSignals \/ ParentBatchDone
    BY <1>10 DEF ParentWait, Notify, NotifyNobody, ReadSignals, ParentBatchDone
<1>11. CASE HandleChld
    BY <1>11 DEF HandleChld
<1>12. ASSUME NEW k \in Children, ChildSetup(k) \/ ChildWait(k) \/ AcceptNone(k) \/ ChildSignal(k)
       PROVE  NoZombieForgotten'
    BY <1>12 DEF ChildSetup, ChildWait, AcceptNone, ChildSignal
<1>13. ASSUME NEW k \in Children, NEW c \in Conns, Accept(k, c) \/ Process(k, c)
       PROVE  NoZombieForgotten'
    BY <1>13 DEF Accept, Process
<1>14. CASE UNCHANGED vars
    BY <1>14 DEF vars
<1> QED
    BY <1>1, <1>3, <1>4, <1>5, <1>6, <1>7, <1>8, <1>9, <1>10, <1>11, <1>12, <1>13,
       <1>14 DEF Next, Environment, ParentStep, ChildStep

\* A connection is open only as long as the child that accepted it runs, and
\* a child only ever processes connections of its own that are still open.
LEMMA ConnStep == IInv /\ [Next]_vars => OwnerInv' /\ EventInv'
<1> SUFFICES ASSUME IInv, [Next]_vars
             PROVE  OwnerInv' /\ EventInv'
    OBVIOUS
<1> USE PoolAssumption DEF IInv, TypeOK, OwnerInv, EventInv,
        parentVars, childVars, connVars, bounds
<1>1. ASSUME NEW c \in Conns, Connect(c) \/ ClientSend(c) \/ ClientHangup(c)
      PROVE  OwnerInv' /\ EventInv'
    BY <1>1 DEF Connect, ClientSend, ClientHangup
<1>a. ASSUME NEW K \in SUBSET Children, NEW last \in BOOLEAN, CloseFor(K, last),
             cpc' = [k \in Children |-> IF k \in K THEN "zombie" ELSE cpc[k]],
             owner' = owner, cevents' = cevents
      PROVE  OwnerInv' /\ EventInv'
    BY <1>a DEF CloseFor
<1>b. ASSUME NEW K \in SUBSET Children, Die(K), owner' = owner, cevents' = cevents
      PROVE  OwnerInv' /\ EventInv'
    <2> DEFINE last == ppc \in {"done", "killed"} /\ \A k \in Children \ K : ~Running(k)
    <2>1. /\ CloseFor(K, last)
          /\ cpc' = [k \in Children |-> IF k \in K THEN "zombie" ELSE cpc[k]]
        BY <1>b DEF Die
    <2> QED
        BY <1>a, <1>b, <2>1
<1>2. ASSUME NEW k \in Children, Crash(k)
      PROVE  OwnerInv' /\ EventInv'
    BY <1>b, <1>2 DEF Crash
<1>3. CASE HandleTerm
    BY <1>b, <1>3 DEF HandleTerm, Live
<1>4. ASSUME NEW k \in Children, ChildBatchDone(k)
      PROVE  OwnerInv' /\ EventInv'
    <2>1. CASE k \in cstop
        BY <1>b, <1>4, <2>1 DEF ChildBatchDone
    <2>2. CASE k \notin cstop
        BY <1>4, <2>2 DEF ChildBatchDone
    <2> QED
        BY <2>1, <2>2
<1>5. CASE SigTerm
    <2>1. CASE Handling
        BY <1>5, <2>1 DEF SigTerm
    <2>2. CASE ~Handling
        BY <1>5, <2>2 DEF SigTerm, CloseFor
    <2> QED
        BY <2>1, <2>2
<1>6. CASE SigInt
    <2> DEFINE K == {k \in Children : cpc[k] = "setup"}
               last == ~Handling /\ \A k \in Children \ K : ~Running(k)
    <2>1. /\ CloseFor(K, last)
          /\ cpc' = [k \in Children |-> IF k \in K THEN "zombie" ELSE cpc[k]]
          /\ owner' = owner /\ cevents' = cevents
        BY <1>6 DEF SigInt
    <2>2. K \in SUBSET Children /\ last \in BOOLEAN
        OBVIOUS
    <2> HIDE DEF K, last
    <2> QED
        BY <1>a, <2>1, <2>2
<1>7. ASSUME NEW k \in Children, Fork(k) \/ ChildSetup(k)
      PROVE  OwnerInv' /\ EventInv'
    BY <1>7 DEF Fork, ChildSetup
<1>8. CASE \/ ParentSetup \/ ParentWait \/ Notify \/ NotifyNobody \/ ReadSignals
    BY <1>8 DEF ParentSetup, ParentWait, Notify, NotifyNobody, ReadSignals
<1>9. CASE HandleChld
    BY <1>9 DEF HandleChld
<1>10. CASE ParentBatchDone
    BY <1>10 DEF ParentBatchDone, CloseFor
<1>11. ASSUME NEW k \in Children, ChildWait(k)
       PROVE  OwnerInv' /\ EventInv'
    <2>1. \A c \in ChildReady(k) \cap Conns : cstate[c] = "open" /\ owner[c] = k
        BY DEF ChildReady
    <2> QED
        BY <1>11, <2>1 DEF ChildWait
<1>12. ASSUME NEW k \in Children, AcceptNone(k) \/ ChildSignal(k)
       PROVE  OwnerInv' /\ EventInv'
    BY <1>12 DEF AcceptNone, ChildSignal
<1>13. ASSUME NEW k \in Children, NEW c \in Conns, Accept(k, c)
       PROVE  OwnerInv' /\ EventInv'
    BY <1>13 DEF Accept
<1>14. ASSUME NEW k \in Children, NEW c \in Conns, Process(k, c)
       PROVE  OwnerInv' /\ EventInv'
    BY <1>14 DEF Process
<1>15. CASE UNCHANGED vars
    BY <1>15 DEF vars
<1> QED
    BY <1>1, <1>2, <1>3, <1>4, <1>5, <1>6, <1>7, <1>8, <1>9, <1>10, <1>11, <1>12,
       <1>13, <1>14, <1>15 DEF Next, Environment, ParentStep, ChildStep

\* Every step preserves the inductive invariant.
LEMMA IInvStep == IInv /\ [Next]_vars => IInv'
    BY TypeStep, NoteStep, ParentInvStep, ForkStep, ZombieStep, ConnStep DEF IInv

\* The inductive invariant holds in every state.
LEMMA IInvAlways == Spec => []IInv
    BY InitIInv, IInvStep, PTL DEF Spec

\* The parent's and the children's state stays within its types, in
\* particular the round-robin turn names a slot and no socketpair holds a
\* negative number of notifications, for any size of the pool.
THEOREM TypeCorrect == Spec => []TypeOK
<1>1. IInv => TypeOK
    BY DEF IInv
<1> QED
    BY <1>1, IInvAlways, PTL

\* The parent never ends before it has waited for every child.
THEOREM ParentEndsLast == Spec => []ParentLast
<1>1. IInv => ParentLast
    BY DEF IInv, StopInv, ParentLast
<1> QED
    BY <1>1, IInvAlways, PTL

\* No number of deaths, however they fall together with one SIGCHLD, leaves a
\* zombie the parent is not going to wait for.
THEOREM ZombiesAreAnnounced == Spec => []NoZombieForgotten
<1>1. IInv => NoZombieForgotten
    BY DEF IInv
<1> QED
    BY <1>1, IInvAlways, PTL

-----------------------------------------------------------------------------
(* ProcPoolServer implements ConnectionService. *)

\* Once no process holds the listening socket none ever does again: the only
\* steps that make a child run are the parent's, and the parent ends last.
LEMMA GoneStays == IInv /\ [Next]_vars /\ ListenerGone => ListenerGone'
<1> SUFFICES ASSUME IInv, [Next]_vars, ListenerGone
             PROVE  ListenerGone'
    OBVIOUS
<1> USE DEF IInv, TypeOK, ListenerGone, Running, parentVars, childVars, connVars, bounds
<1>1. ASSUME NEW c \in Conns, Connect(c) \/ ClientSend(c) \/ ClientHangup(c)
      PROVE  ListenerGone'
    BY <1>1 DEF Connect, ClientSend, ClientHangup
<1>2. ASSUME NEW k \in Children, ~Running(k)
      PROVE  ~ (Crash(k) \/ ChildStep(k))
    BY <1>2 DEF Crash, ChildStep, ChildSetup, ChildWait, ChildBatchDone, AcceptNone,
                ChildSignal, Accept, Process
<1>3. ~ (SigTerm \/ ParentStep)
    BY DEF SigTerm, Handling, ParentStep, ParentSetup, Fork, ParentWait, Notify,
           NotifyNobody, ReadSignals, HandleChld, HandleTerm, ParentBatchDone
<1>4. CASE SigInt
    BY <1>4 DEF SigInt, Handling
<1>5. CASE UNCHANGED vars
    BY <1>5 DEF vars
<1> QED
    BY <1>1, <1>2, <1>3, <1>4, <1>5 DEF Next, Environment

\* Closing the connections in S closes them for the service too, and leaves
\* the others where they are.
LEMMA CloseStage ==
    ASSUME NEW S \in SUBSET Conns,
           cstate' = [c \in Conns |-> IF c \in S THEN "closed" ELSE cstate[c]]
    PROVE  Stage' = [c \in Conns |-> IF c \in S THEN "closed" ELSE Stage[c]]
    BY DEF Stage

\* A step that leaves the connections alone is a stutter of the service, or
\* the moment it begins to stop.
LEMMA QuietMaps ==
    ASSUME cstate' = cstate, owner' = owner, ListenerGone => ListenerGone'
    PROVE  [Service!Next]_(Service!vars)
<1>1. Stage' = Stage
    BY DEF Stage
<1>2. CASE ListenerGone' = ListenerGone
    BY <1>1, <1>2 DEF Service!vars
<1>3. CASE ListenerGone' /\ ~ListenerGone
    <2>1. Stage' = [c \in Conns |-> IF c \in {} THEN "closed" ELSE Stage[c]]
        BY <1>1 DEF Stage
    <2>2. Service!Stop({})
        BY <1>3, <2>1 DEF Service!Stop
    <2> QED
        BY <2>2 DEF Service!Next
<1> QED
    BY <1>2, <1>3 DEF ListenerGone

\* When processes end and the kernel closes what they held, the service
\* stops, or the one child concerned finishes its connections.
LEMMA CloseMaps ==
    ASSUME TypeOK,
           NEW K \in SUBSET Children, NEW last \in BOOLEAN, CloseFor(K, last),
           NEW h \in Children,
           \A c \in Conns : cstate[c] = "open" /\ owner[c] \in K => owner[c] = h,
           owner' = owner, last => ListenerGone', ListenerGone => ListenerGone'
    PROVE  [Service!Next]_(Service!vars)
<1> DEFINE S == {c \in Conns : (cstate[c] = "open" /\ owner[c] \in K)
                                 \/ (last /\ cstate[c] = "backlog")}
<1>1. cstate' = [c \in Conns |-> IF c \in S THEN "closed" ELSE cstate[c]]
    BY DEF CloseFor
<1>2. Stage' = [c \in Conns |-> IF c \in S THEN "closed" ELSE Stage[c]]
    BY <1>1, CloseStage
<1>3. CASE ListenerGone'
    <2>1. \A c \in S : Stage[c] \in {"pending", "served"}
        BY DEF Stage
    <2>2. Service!Stop(S)
        BY <1>2, <1>3, <2>1 DEF Service!Stop, ListenerGone
    <2> QED
        BY <2>2 DEF Service!Next
<1>4. CASE ~ListenerGone' /\ S = {}
    <2>1. cstate' = cstate
        BY <1>1, <1>4 DEF TypeOK
    <2> QED
        BY <2>1, QuietMaps
<1>5. CASE ~ListenerGone' /\ S # {}
    <2>1. \A c \in S : Stage[c] = "served" /\ owner[c] = h
        BY <1>5 DEF Stage
    <2>2. ListenerGone' = ListenerGone
        BY <1>5 DEF ListenerGone
    <2>3. Service!Finish(h, S)
        BY <1>2, <1>5, <2>1, <2>2 DEF Service!Finish
    <2> QED
        BY <2>3 DEF Service!Next
<1> QED
    BY <1>3, <1>4, <1>5

\* Every step is a step of ConnectionService or none.
LEMMA ServiceStep == IInv /\ [Next]_vars => [Service!Next]_(Service!vars)
<1> SUFFICES ASSUME IInv, [Next]_vars
             PROVE  [Service!Next]_(Service!vars)
    OBVIOUS
<1> USE PoolAssumption DEF IInv, TypeOK, parentVars, childVars, connVars, bounds
<1>a. ListenerGone => ListenerGone'
    BY GoneStays
<1>1. ASSUME NEW c \in Conns, Connect(c)
      PROVE  [Service!Next]_(Service!vars)
    <2>1. ListenerGone' = ListenerGone
        BY <1>1 DEF Connect, ListenerGone, Running
    <2>2. Stage' = [Stage EXCEPT ![c] = "pending"] /\ Stage[c] = "outside"
        BY <1>1 DEF Connect, Stage
    <2>3. Service!Arrive(c)
        BY <1>1, <2>1, <2>2 DEF Connect, Service!Arrive
    <2> QED
        BY <2>3 DEF Service!Next
<1>2. ASSUME NEW c \in Conns, ClientSend(c) \/ ClientHangup(c)
      PROVE  [Service!Next]_(Service!vars)
    BY <1>a, <1>2, QuietMaps DEF ClientSend, ClientHangup
<1>3. ASSUME NEW K \in SUBSET Children, NEW h \in Children, Die(K),
             \A c \in Conns : cstate[c] = "open" /\ owner[c] \in K => owner[c] = h,
             owner' = owner, ppc' = ppc
      PROVE  [Service!Next]_(Service!vars)
    <2> DEFINE last == ppc \in {"done", "killed"} /\ \A k \in Children \ K : ~Running(k)
    <2>1. CloseFor(K, last)
        BY <1>3 DEF Die
    <2>2. last => ListenerGone'
        BY <1>3 DEF Die, ListenerGone, Running
    <2>3. last \in BOOLEAN
        OBVIOUS
    <2> HIDE DEF last
    <2> QED
        BY <1>a, <1>3, <2>1, <2>2, <2>3, CloseMaps
<1>4. ASSUME NEW k \in Children, Crash(k)
      PROVE  [Service!Next]_(Service!vars)
    BY <1>3, <1>4 DEF Crash
<1>5. CASE SigTerm
    <2>1. CASE Handling
        BY <1>a, <1>5, <2>1, QuietMaps DEF SigTerm
    <2>2. CASE ~Handling
        <3> DEFINE last == \A k \in Children : ~Running(k)
        <3>1. CloseFor({}, last) /\ owner' = owner
            BY <1>5, <2>2 DEF SigTerm
        <3>2. last => ListenerGone'
            BY <1>5, <2>2 DEF SigTerm, ListenerGone, Running
        <3>3. last \in BOOLEAN /\ 0 \in Children
            BY DEF Children
        <3> HIDE DEF last
        <3> QED
            BY <1>a, <3>1, <3>2, <3>3, CloseMaps
    <2> QED
        BY <2>1, <2>2
<1>6. CASE SigInt
    <2> DEFINE K == {k \in Children : cpc[k] = "setup"}
               last == ~Handling /\ \A k \in Children \ K : ~Running(k)
    <2>1. CloseFor(K, last) /\ owner' = owner
        BY <1>6 DEF SigInt
    <2>2. last => ListenerGone'
        BY <1>6 DEF SigInt, ListenerGone, Running
    <2>3. last \in BOOLEAN /\ 0 \in Children
        BY DEF Children
    <2>4. \A c \in Conns : ~ (cstate[c] = "open" /\ owner[c] \in K)
        BY DEF OwnerInv
    <2> HIDE DEF last
    <2> QED
        BY <1>a, <2>1, <2>2, <2>3, <2>4, CloseMaps
<1>7. CASE HandleTerm
    <2> DEFINE K == {k \in Live : cpc[k] = "setup"}
    <2>1. Die(K) /\ owner' = owner /\ ppc' = ppc /\ K \in SUBSET Children
        BY <1>7 DEF HandleTerm, Live
    <2>2. \A c \in Conns : ~ (cstate[c] = "open" /\ owner[c] \in K)
        BY DEF OwnerInv
    <2>3. 0 \in Children
        BY DEF Children
    <2> QED
        BY <1>3, <2>1, <2>2, <2>3
<1>8. CASE ParentBatchDone
    <2> DEFINE last == pstop /\ \A k \in Children : ~Running(k)
    <2>1. CloseFor({}, last) /\ owner' = owner
        BY <1>8 DEF ParentBatchDone
    <2>2. last => ListenerGone'
        BY <1>8 DEF ParentBatchDone, ListenerGone, Running
    <2>3. last \in BOOLEAN /\ 0 \in Children
        BY DEF Children
    <2> HIDE DEF last
    <2> QED
        BY <1>a, <2>1, <2>2, <2>3, CloseMaps
<1>9. CASE \/ ParentSetup \/ ParentWait \/ Notify \/ NotifyNobody \/ ReadSignals
           \/ HandleChld
    BY <1>a, <1>9, QuietMaps
       DEF ParentSetup, ParentWait, Notify, NotifyNobody, ReadSignals, HandleChld
<1>10. ASSUME NEW k \in Children,
              \/ Fork(k) \/ ChildSetup(k) \/ ChildWait(k) \/ AcceptNone(k) \/ ChildSignal(k)
       PROVE  [Service!Next]_(Service!vars)
    BY <1>a, <1>10, QuietMaps DEF Fork, ChildSetup, ChildWait, AcceptNone, ChildSignal
<1>11. ASSUME NEW k \in Children, ChildBatchDone(k)
       PROVE  [Service!Next]_(Service!vars)
    <2>1. CASE k \in cstop
        BY <1>3, <1>11, <2>1 DEF ChildBatchDone
    <2>2. CASE k \notin cstop
        BY <1>a, <1>11, <2>2, QuietMaps DEF ChildBatchDone
    <2> QED
        BY <2>1, <2>2
<1>12. ASSUME NEW k \in Children, NEW c \in Conns, Accept(k, c)
       PROVE  [Service!Next]_(Service!vars)
    <2>1. ListenerGone' = ListenerGone
        BY <1>12 DEF Accept, ListenerGone, Running
    <2>2. Stage' = [Stage EXCEPT ![c] = "served"] /\ Stage[c] = "pending"
        BY <1>12 DEF Accept, Stage
    <2>3. Service!Adopt(c, k)
        BY <1>12, <2>1, <2>2 DEF Accept, Service!Adopt
    <2> QED
        BY <2>3 DEF Service!Next
<1>13. ASSUME NEW k \in Children, NEW c \in Conns, Process(k, c)
       PROVE  [Service!Next]_(Service!vars)
    <2>1. CASE c \notin hungup
        BY <1>a, <1>13, <2>1, QuietMaps DEF Process
    <2>2. CASE c \in hungup
        <3>1. cstate[c] = "open" /\ owner[c] = k
            BY <1>13 DEF Process, EventInv
        <3>2. ListenerGone' = ListenerGone
            BY <1>13 DEF Process, ListenerGone, Running
        <3>3. cstate' = [d \in Conns |-> IF d \in {c} THEN "closed" ELSE cstate[d]]
            BY <1>13, <2>2 DEF Process
        <3>4. Stage' = [d \in Conns |-> IF d \in {c} THEN "closed" ELSE Stage[d]]
            BY <3>3 DEF Stage
        <3>5. Stage[c] = "served" /\ owner' = owner
            BY <1>13, <3>1 DEF Process, Stage
        <3>6. Service!Finish(k, {c})
            BY <3>1, <3>2, <3>4, <3>5 DEF Service!Finish
        <3> QED
            BY <3>6 DEF Service!Next
    <2> QED
        BY <2>1, <2>2
<1>14. CASE UNCHANGED vars
    BY <1>a, <1>14, QuietMaps DEF vars
<1> QED
    BY <1>1, <1>2, <1>4, <1>5, <1>6, <1>7, <1>8, <1>9, <1>10, <1>11, <1>12, <1>13,
       <1>14 DEF Next, Environment, ParentStep, ChildStep

\* The process pool keeps the promise of ConnectionService, crashes of
\* children and signals at any moment included: a connection is taken over by
\* exactly one child, stays with it, and is dropped unserved only when no
\* process is left to accept it.
THEOREM PoolImplementsService == Spec => ImplementsService
<1>1. Init => Service!Init
    BY PoolAssumption DEF Init, Service!Init, Stage, ListenerGone
<1> QED
    BY <1>1, ServiceStep, IInvAlways, PTL DEF Spec, ImplementsService, Service!Spec
=============================================================================
