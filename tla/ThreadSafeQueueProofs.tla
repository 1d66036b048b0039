----------------------- MODULE ThreadSafeQueueProofs -----------------------
(***************************************************************************)
(* ThreadSafeQueue, for every set of threads, every set of elements and    *)
(* every number of calls: no stale read under the mutex, no lost wakeup,   *)
(* and the implementation of FifoQueue.                                    *)
(***************************************************************************)
EXTENDS ThreadSafeQueue, FiniteSetTheorems, TLAPS

\* The inductive invariant: the types, who holds the mutex, and the two
\* safety properties.  NoStaleRead is preserved because only the holder of
\* the mutex (LockInv) writes data.
IInv == TypeOK /\ LockInv /\ NoStaleRead

\* The inductive invariant holds at the start.
LEMMA InitIInv == Init => IInv
BY QueueAssumption DEF Init, IInv, TypeOK, LockInv, NoStaleRead, Ops, Labels, Inside

\* Entry of a known method is one of the labels inside the mutex.
LEMMA EntryInside ==
    ASSUME NEW o \in Ops
    PROVE  /\ Entry(o) \in {"enqueue", "test", "look", "copying", "moving"}
           /\ Entry(o) = "enqueue" => o = "push"
           /\ Entry(o) = "test" => o \in {"pop", "try_pop"}
           /\ o \in {"pop", "try_pop"} => Entry(o) = "test"
BY DEF Ops, Entry

\* Every step keeps the types and the methods their labels belong to.
LEMMA TypeStep == IInv /\ [Next]_vars => TypeOK'
<1> SUFFICES ASSUME IInv, [Next]_vars
             PROVE  TypeOK'
    OBVIOUS
<1> USE QueueAssumption DEF IInv, TypeOK, Labels, Goto
<1>1. ASSUME NEW t \in Threads, NEW o \in Ops, NEW v \in Values, Call(t, o, v)
      PROVE  TypeOK'
    BY <1>1 DEF Call
<1>2. ASSUME NEW t \in Threads, Lock(t)
      PROVE  TypeOK'
    <2>1. op[t] \in Ops
        OBVIOUS
    <2> QED
        BY <1>2, <2>1, EntryInside DEF Lock
<1>3. ASSUME NEW t \in Threads, Unlock(t)
      PROVE  TypeOK'
    BY <1>3 DEF Unlock
<1>4. ASSUME NEW t \in Threads, Enqueue(t)
      PROVE  TypeOK'
    <2>1. loc[t][1] \in Values
        BY <1>4 DEF Enqueue
    <2> QED
        BY <1>4, <2>1 DEF Enqueue
<1>5. ASSUME NEW t \in Threads, Notify(t)
      PROVE  TypeOK'
    BY <1>5 DEF Notify, Waiting
<1>6. ASSUME NEW t \in Threads, Ready(t) \/ Wait(t) \/ GiveUp(t) \/ Spurious(t)
      PROVE  TypeOK'
    BY <1>6 DEF Ready, Wait, GiveUp, Spurious
<1>7. ASSUME NEW t \in Threads, Front(t)
      PROVE  TypeOK'
    <2>1. Head(data) \in Values
        BY <1>7 DEF Front, NoStaleRead
    <2> QED
        BY <1>7, <2>1 DEF Front
<1>8. ASSUME NEW t \in Threads, Take(t)
      PROVE  TypeOK'
    <2>1. data # <<>> /\ loc[t][1] \in Values
        BY <1>8 DEF Take, NoStaleRead
    <2> QED
        BY <1>8, <2>1 DEF Take
<1>9. ASSUME NEW t \in Threads, Look(t) \/ CopyDone(t)
      PROVE  TypeOK'
    BY <1>9 DEF Look, CopyDone
<1>10. ASSUME NEW t \in Threads, CopyElement(t)
       PROVE  TypeOK'
    <2>1. data[Len(loc[t]) + 1] \in Values
        BY <1>10 DEF CopyElement
    <2> QED
        BY <1>10, <2>1 DEF CopyElement
<1>11. ASSUME NEW t \in Threads, Move(t)
       PROVE  TypeOK'
    BY <1>11 DEF Move
<1>12. CASE UNCHANGED vars
    BY <1>12 DEF vars
<1> QED
    BY <1>1, <1>2, <1>3, <1>4, <1>5, <1>6, <1>7, <1>8, <1>9, <1>10, <1>11, <1>12
       DEF Next, Step

\* Every step keeps the mutex with the thread that is inside.
LEMMA LockStep == IInv /\ [Next]_vars => LockInv'
<1> SUFFICES ASSUME IInv, [Next]_vars
             PROVE  LockInv'
    OBVIOUS
<1> USE QueueAssumption DEF IInv, TypeOK, LockInv, Inside, Goto
<1>1. ASSUME NEW t \in Threads, NEW o \in Ops, NEW v \in Values, Call(t, o, v)
      PROVE  LockInv'
    BY <1>1 DEF Call
<1>2. ASSUME NEW t \in Threads, Lock(t) \/ Unlock(t)
      PROVE  LockInv'
    BY <1>2 DEF Lock, Unlock
<1>3. ASSUME NEW t \in Threads, Enqueue(t) \/ Notify(t)
      PROVE  LockInv'
    BY <1>3 DEF Enqueue, Notify, Waiting
<1>4. ASSUME NEW t \in Threads,
             Ready(t) \/ Wait(t) \/ GiveUp(t) \/ Spurious(t) \/ Front(t) \/ Take(t)
      PROVE  LockInv'
    BY <1>4 DEF Ready, Wait, GiveUp, Spurious, Front, Take
<1>5. ASSUME NEW t \in Threads,
             Look(t) \/ CopyElement(t) \/ CopyDone(t) \/ Move(t)
      PROVE  LockInv'
    BY <1>5 DEF Look, CopyElement, CopyDone, Move
<1>6. CASE UNCHANGED vars
    BY <1>6 DEF vars
<1> QED
    BY <1>1, <1>2, <1>3, <1>4, <1>5, <1>6 DEF Next, Step

\* Every step keeps what the thread inside the mutex has read.
LEMMA StaleStep == IInv /\ [Next]_vars => NoStaleRead'
<1> SUFFICES ASSUME IInv, [Next]_vars
             PROVE  NoStaleRead'
    OBVIOUS
<1> USE QueueAssumption DEF IInv, TypeOK, LockInv, NoStaleRead, Inside, Labels, Goto
<1>1. ASSUME NEW t \in Threads, NEW o \in Ops, NEW v \in Values, Call(t, o, v)
      PROVE  NoStaleRead'
    BY <1>1 DEF Call
<1>2. ASSUME NEW t \in Threads, Lock(t)
      PROVE  NoStaleRead'
    <2>1. op[t] \in Ops
        OBVIOUS
    <2>2. /\ Entry(op[t]) \in {"enqueue", "test", "look", "copying", "moving"}
          /\ Entry(op[t]) = "copying" => pc[t] = "lock" /\ op[t] # "push"
        BY <1>2, <2>1, EntryInside DEF Lock, Entry
    <2> QED
        BY <1>2, <2>2 DEF Lock
<1>3. ASSUME NEW t \in Threads, Unlock(t)
      PROVE  NoStaleRead'
    BY <1>3 DEF Unlock
<1>4. ASSUME NEW t \in Threads, Enqueue(t)
      PROVE  NoStaleRead'
    BY <1>4 DEF Enqueue
<1>5. ASSUME NEW t \in Threads, Notify(t)
      PROVE  NoStaleRead'
    BY <1>5 DEF Notify, Waiting
<1>6. ASSUME NEW t \in Threads, Ready(t) \/ Wait(t) \/ GiveUp(t) \/ Spurious(t)
      PROVE  NoStaleRead'
    <2>1. CASE Ready(t)
        BY <2>1 DEF Ready
    <2>2. CASE Wait(t)
        BY <2>2 DEF Wait
    <2>3. CASE GiveUp(t)
        BY <2>3 DEF GiveUp
    <2>4. CASE Spurious(t)
        BY <2>4 DEF Spurious
    <2> QED
        BY <1>6, <2>1, <2>2, <2>3, <2>4
<1>7. ASSUME NEW t \in Threads, Front(t)
      PROVE  NoStaleRead'
    BY <1>7 DEF Front
<1>8. ASSUME NEW t \in Threads, Take(t) \/ Move(t)
      PROVE  NoStaleRead'
    <2>1. pc[t] \in Inside /\ pc' = [pc EXCEPT ![t] = "unlock"]
        BY <1>8 DEF Take, Move
    <2>2. \A u \in Threads : pc'[u] \notin {"front", "take", "copying"}
        BY <2>1
    <2> QED
        BY <2>2
<1>9. ASSUME NEW t \in Threads, Look(t) \/ CopyDone(t)
      PROVE  NoStaleRead'
    <2>1. pc' = [pc EXCEPT ![t] = "unlock"] /\ UNCHANGED <<data, loc>>
        BY <1>9 DEF Look, CopyDone
    <2>2. \A u \in Threads : pc'[u] = pc[u] \/ pc'[u] = "unlock"
        BY <2>1
    <2> QED
        BY <2>1, <2>2
<1>10. ASSUME NEW t \in Threads, CopyElement(t)
       PROVE  NoStaleRead'
    BY <1>10 DEF CopyElement
<1>11. CASE UNCHANGED vars
    BY <1>11 DEF vars
<1> QED
    BY <1>1, <1>2, <1>3, <1>4, <1>5, <1>6, <1>7, <1>8, <1>9, <1>10, <1>11
       DEF Next, Step

\* Every step keeps the inductive invariant.
LEMMA IInvStep == IInv /\ [Next]_vars => IInv'
BY TypeStep, LockStep, StaleStep DEF IInv

\* The inductive invariant holds in every state.
LEMMA IInvAlways == Spec => []IInv
BY InitIInv, IInvStep, PTL DEF Spec

\* The types, and that only pop ever sleeps on the condition variable.
THEOREM TypeCorrect == Spec => []TypeOK
<1>1. IInv => TypeOK
    BY DEF IInv
<1> QED
    BY <1>1, IInvAlways, PTL

\* Nothing read under _queue_mutex is stale when it is used.
THEOREM ReadsAreCurrent == Spec => []NoStaleRead
<1>1. IInv => NoStaleRead
    BY DEF IInv
<1> QED
    BY <1>1, IInvAlways, PTL
-----------------------------------------------------------------------------
(* The implementation of FifoQueue. *)

\* Two sequences of the same length and with the same elements are equal.
LEMMA SameElements ==
    ASSUME NEW S, NEW a \in Seq(S), NEW b \in Seq(S),
           Len(a) = Len(b), \A i \in 1..Len(a) : a[i] = b[i]
    PROVE  a = b
OBVIOUS

\* Each step is a step of the abstract queue or leaves it alone: the methods
\* take effect at Enqueue, Take, GiveUp, Look, CopyDone and Move.
LEMMA FifoStep == IInv /\ [Next]_vars => [Fifo!Next]_(Fifo!vars)
<1> SUFFICES ASSUME IInv, [Next]_vars
             PROVE  [Fifo!Next]_(Fifo!vars)
    OBVIOUS
<1> USE DEF IInv, TypeOK, Fifo!Next, Fifo!vars
<1>1. ASSUME NEW t \in Threads, NEW o \in Ops, NEW v \in Values, Call(t, o, v)
      PROVE  UNCHANGED Fifo!vars
    BY <1>1 DEF Call
<1>2. ASSUME NEW t \in Threads,
             Lock(t) \/ Unlock(t) \/ Notify(t) \/ Ready(t) \/ Wait(t)
             \/ Spurious(t) \/ Front(t) \/ CopyElement(t)
      PROVE  UNCHANGED Fifo!vars
    BY <1>2 DEF Lock, Unlock, Notify, Ready, Wait, Spurious, Front, CopyElement
<1>3. ASSUME NEW t \in Threads, Enqueue(t)
      PROVE  Fifo!Next
    <2>1. loc[t][1] \in Values
        BY <1>3 DEF Enqueue
    <2>2. Fifo!Enq(loc[t][1])
        BY <1>3 DEF Enqueue, Fifo!Enq
    <2> QED
        BY <2>1, <2>2
<1>4. ASSUME NEW t \in Threads, Take(t)
      PROVE  Fifo!Next
    <2>1. data # <<>> /\ loc[t] = <<Head(data)>> /\ loc[t][1] = Head(data)
        BY <1>4 DEF Take, NoStaleRead
    <2>2. Fifo!Deq(t)
        BY <1>4, <2>1 DEF Take, Fifo!Deq
    <2> QED
        BY <2>2
<1>5. ASSUME NEW t \in Threads, GiveUp(t)
      PROVE  Fifo!Next
    BY <1>5 DEF GiveUp, Fifo!Miss
<1>6. ASSUME NEW t \in Threads, Look(t)
      PROVE  Fifo!Next
    BY <1>6 DEF Look, Fifo!IsEmpty
<1>7. ASSUME NEW t \in Threads, CopyDone(t)
      PROVE  Fifo!Next
    <2>1. loc[t] = data
        BY <1>7, SameElements DEF CopyDone, NoStaleRead
    <2>2. Fifo!Snapshot(t)
        BY <1>7, <2>1 DEF CopyDone, Fifo!Snapshot
    <2> QED
        BY <2>2
<1>8. ASSUME NEW t \in Threads, Move(t)
      PROVE  Fifo!Next
    BY <1>8 DEF Move, Fifo!Drain
<1>9. CASE UNCHANGED vars
    BY <1>9 DEF vars
<1> QED
    BY <1>1, <1>2, <1>3, <1>4, <1>5, <1>6, <1>7, <1>8, <1>9 DEF Next, Step

\* ThreadSafeQueue implements FifoQueue: push, pop, try_pop, empty and the
\* copying and moving constructors are linearizable and first-in first-out.
THEOREM QueueImplementsFifo == Spec => LinearizesToFifo
<1>1. Init => Fifo!Init
    BY DEF Init, Fifo!Init
<1> QED
    BY <1>1, FifoStep, IInvAlways, PTL DEF Spec, LinearizesToFifo, Fifo!Spec
-----------------------------------------------------------------------------
(* No lost wakeup. *)

\* A larger set of committed threads covers the same queue.
LEMMA MoreCommitted ==
    ASSUME Committed \subseteq Committed', data' = data,
           Waiting' # {} => Waiting # {}, NoLostWakeup, TypeOK
    PROVE  NoLostWakeup'
<1>1. IsFiniteSet(Committed')
    BY FS_Subset, QueueAssumption DEF Committed
<1>2. /\ Cardinality(Committed) <= Cardinality(Committed')
      /\ Cardinality(Committed) \in Nat /\ Cardinality(Committed') \in Nat
    BY <1>1, FS_Subset, FS_CardinalityType
<1> QED
    BY <1>2 DEF NoLostWakeup, TypeOK

\* Every step keeps one committed thread per element while a consumer sleeps.
LEMMA WakeupStep == IInv /\ NoLostWakeup /\ [Next]_vars => NoLostWakeup'
<1> SUFFICES ASSUME IInv, NoLostWakeup, [Next]_vars
             PROVE  NoLostWakeup'
    OBVIOUS
<1> USE DEF IInv, TypeOK, Labels, Goto
<1>a. IsFiniteSet(Committed) /\ Cardinality(Committed) \in Nat
    BY FS_Subset, FS_CardinalityType, QueueAssumption DEF Committed
<1>1. ASSUME NEW t \in Threads, NEW o \in Ops, NEW v \in Values, Call(t, o, v)
      PROVE  NoLostWakeup'
    BY <1>1, MoreCommitted DEF Call, Committed, Waiting
<1>2. ASSUME NEW t \in Threads, Lock(t)
      PROVE  NoLostWakeup'
    <2>1. op[t] \in Ops
        OBVIOUS
    <2>2. pc[t] = "relock" => Entry(op[t]) = "test"
        BY <2>1, EntryInside
    <2>3. Entry(op[t]) # "waiting"
        BY <2>1, EntryInside
    <2> QED
        BY <1>2, <2>2, <2>3, MoreCommitted DEF Lock, Committed, Waiting
<1>3. ASSUME NEW t \in Threads,
             Unlock(t) \/ Ready(t) \/ Spurious(t) \/ Front(t) \/ Look(t)
             \/ CopyElement(t) \/ CopyDone(t)
      PROVE  NoLostWakeup'
    BY <1>3, MoreCommitted
       DEF Unlock, Ready, Spurious, Front, Look, CopyElement, CopyDone,
           Committed, Waiting
<1>4. ASSUME NEW t \in Threads, Wait(t) \/ GiveUp(t) \/ Move(t)
      PROVE  NoLostWakeup'
    <2>1. Len(data') = 0
        BY <1>4 DEF Wait, GiveUp, Move
    <2>2. Cardinality(Committed') \in Nat
        BY FS_Subset, FS_CardinalityType, QueueAssumption DEF Committed
    <2> QED
        BY <2>1, <2>2 DEF NoLostWakeup
<1>5. ASSUME NEW t \in Threads, Enqueue(t)
      PROVE  NoLostWakeup'
    <2>1. t \notin Committed /\ Committed' = Committed \cup {t}
        BY <1>5 DEF Enqueue, Committed
    <2>2. Cardinality(Committed') = Cardinality(Committed) + 1
        BY <1>a, <2>1, FS_AddElement
    <2>3. Len(data') = Len(data) + 1 /\ Waiting' = Waiting
        BY <1>5 DEF Enqueue, Waiting
    <2> QED
        BY <1>a, <2>2, <2>3 DEF NoLostWakeup
<1>6. ASSUME NEW t \in Threads, Notify(t)
      PROVE  NoLostWakeup'
    <2>1. CASE Waiting = {}
        <3>1. Waiting' = {}
            BY <1>6, <2>1 DEF Notify, Waiting
        <3> QED
            BY <3>1 DEF NoLostWakeup
    <2>2. ASSUME NEW w \in Waiting,
                 pc' = [pc EXCEPT ![t] = "unlock", ![w] = "relock"]
          PROVE  NoLostWakeup'
        <3>1. /\ t \in Committed /\ w \notin Committed
              /\ Committed' = (Committed \ {t}) \cup {w}
            BY <1>6, <2>2 DEF Notify, Committed, Waiting
        <3>2. /\ IsFiniteSet(Committed \ {t})
              /\ Cardinality(Committed \ {t}) = Cardinality(Committed) - 1
            BY <1>a, <3>1, FS_RemoveElement
        <3>3. Cardinality(Committed') = Cardinality(Committed \ {t}) + 1
            BY <3>1, <3>2, FS_AddElement
        <3>4. data' = data /\ Waiting # {}
            BY <1>6, <2>2 DEF Notify
        <3> QED
            BY <1>a, <3>2, <3>3, <3>4 DEF NoLostWakeup
    <2> QED
        BY <1>6, <2>1, <2>2 DEF Notify
<1>7. ASSUME NEW t \in Threads, Take(t)
      PROVE  NoLostWakeup'
    <2>1. t \in Committed /\ Committed' = Committed \ {t}
        BY <1>7 DEF Take, Committed
    <2>2. Cardinality(Committed') = Cardinality(Committed) - 1
        BY <1>a, <2>1, FS_RemoveElement
    <2>3. data # <<>> /\ Len(data') = Len(data) - 1 /\ Waiting' = Waiting
        BY <1>7 DEF Take, Waiting, NoStaleRead
    <2> QED
        BY <1>a, <2>2, <2>3 DEF NoLostWakeup
<1>8. CASE UNCHANGED vars
    BY <1>8, MoreCommitted DEF vars, Committed, Waiting
<1> QED
    BY <1>1, <1>2, <1>3, <1>4, <1>5, <1>6, <1>7, <1>8 DEF Next, Step

\* No notification is lost, for any number of producers and consumers.
THEOREM NoWakeupIsLost == Spec => []NoLostWakeup
<1>1. Init => NoLostWakeup
    BY DEF Init, NoLostWakeup, Waiting
<1> QED
    BY <1>1, WakeupStep, IInvAlways, PTL DEF Spec
=============================================================================
