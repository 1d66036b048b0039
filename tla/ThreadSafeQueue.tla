-------------------------- MODULE ThreadSafeQueue --------------------------
(***************************************************************************)
(* zhaocc::ThreadSafeQueue<T> (server/include/thread_safe_queue.hpp): a    *)
(* std::queue guarded by a mutex, with a condition variable for blocking   *)
(* consumers.                                                              *)
(*                                                                         *)
(* Each method is broken at the points where another thread may run: the   *)
(* call, taking the mutex, each access to the std::queue, the wait on the  *)
(* condition variable and the release of the mutex.  The mutex is state,   *)
(* so what it protects is a result of the model and not an assumption.     *)
(***************************************************************************)
EXTENDS Naturals, Sequences, FiniteSets

CONSTANTS Threads,    \* the threads that call the queue
          Values,     \* the elements they push
          Nil,        \* "no thread": the mutex is free
          MaxCalls    \* bound: how many calls are made altogether

ASSUME QueueAssumption ==
    /\ IsFiniteSet(Threads)
    /\ Nil \notin Threads
    /\ MaxCalls \in Nat

VARIABLES
    data,     \* _data_queue, front first
    mutex,    \* the thread that holds _queue_mutex, or Nil
    pc,       \* pc[t]: where t is in the method it executes
    op,       \* op[t]: the method t executes
    loc,      \* loc[t]: its local data: the argument of push, the front
              \*         element read by pop, the copy under construction
    ret,      \* ret[t]: what t's last call returned
    out,      \* history: every element handed to a caller, in order
    calls     \* number of calls made, for MaxCalls

vars == <<data, mutex, pc, op, loc, ret, out, calls>>

Ops == {"push", "pop", "try_pop", "empty", "copy", "move"}

\* The first step of each method once it holds the mutex.
Entry(o) ==
    CASE o = "push"                -> "enqueue"
      [] o \in {"pop", "try_pop"}  -> "test"
      [] o = "empty"               -> "look"
      [] o = "copy"                -> "copying"
      [] OTHER                     -> "moving"

\* The threads blocked in _queue_cond.wait.
Waiting == {t \in Threads : pc[t] = "waiting"}

Goto(t, label) == pc' = [pc EXCEPT ![t] = label]

Init ==
    /\ data = <<>>
    /\ mutex = Nil
    /\ pc = [t \in Threads |-> "idle"]
    /\ op = [t \in Threads |-> "empty"]
    /\ loc = [t \in Threads |-> <<>>]
    /\ ret = [t \in Threads |-> <<>>]
    /\ out = <<>>
    /\ calls = 0

-----------------------------------------------------------------------------
\* A thread calls a method; v is the argument of push.
Call(t, o, v) ==
    /\ pc[t] = "idle"
    /\ calls < MaxCalls
    /\ calls' = calls + 1
    /\ op' = [op EXCEPT ![t] = o]
    /\ loc' = [loc EXCEPT ![t] = IF o = "push" THEN <<v>> ELSE <<>>]
    /\ Goto(t, "lock")
    /\ UNCHANGED <<data, mutex, ret, out>>

LockWithoutWaiting(t) ==   \* faulty: the lock_guard is missing
    /\ pc[t] \in {"lock", "relock"}
    /\ mutex' = t
    /\ Goto(t, Entry(op[t]))
    /\ UNCHANGED <<data, op, loc, ret, out, calls>>

\* The lock_guard or unique_lock at the head of every method, and the
\* re-acquisition at the end of a wait.
Lock(t) ==
    /\ pc[t] \in {"lock", "relock"}
    /\ mutex = Nil
    /\ mutex' = t
    /\ Goto(t, Entry(op[t]))
    /\ UNCHANGED <<data, op, loc, ret, out, calls>>

\* The guard's destructor.
Unlock(t) ==
    /\ pc[t] = "unlock"
    /\ mutex' = Nil
    /\ loc' = [loc EXCEPT ![t] = <<>>]
    /\ Goto(t, "idle")
    /\ UNCHANGED <<data, op, ret, out, calls>>

-----------------------------------------------------------------------------
\* push: _data_queue.push(new_val)
Enqueue(t) ==
    /\ pc[t] = "enqueue"
    /\ data' = Append(data, loc[t][1])
    /\ Goto(t, "notify")
    /\ UNCHANGED <<mutex, op, loc, ret, out, calls>>

NotifyOnFirst(t) ==   \* faulty: wakes a consumer only if the queue was empty
    /\ pc[t] = "notify"
    /\ \/ /\ Waiting = {} \/ Len(data) > 1
          /\ Goto(t, "unlock")
       \/ \E w \in Waiting :
             /\ Len(data) = 1
             /\ pc' = [pc EXCEPT ![t] = "unlock", ![w] = "relock"]
    /\ UNCHANGED <<data, mutex, op, loc, ret, out, calls>>

\* push: _queue_cond.notify_one() wakes some blocked consumer, if any.
Notify(t) ==
    /\ pc[t] = "notify"
    /\ \/ /\ Waiting = {}
          /\ Goto(t, "unlock")
       \/ \E w \in Waiting :
             pc' = [pc EXCEPT ![t] = "unlock", ![w] = "relock"]
    /\ UNCHANGED <<data, mutex, op, loc, ret, out, calls>>

-----------------------------------------------------------------------------
\* pop and try_pop: the queue is not empty
Ready(t) ==
    /\ pc[t] = "test"
    /\ data # <<>>
    /\ Goto(t, "front")
    /\ UNCHANGED <<data, mutex, op, loc, ret, out, calls>>

WaitAlways(t) ==   \* faulty: try_pop blocks as pop does
    /\ pc[t] = "test"
    /\ data = <<>>
    /\ mutex' = Nil
    /\ Goto(t, "waiting")
    /\ UNCHANGED <<data, op, loc, ret, out, calls>>

\* pop: the predicate is false; wait releases the mutex and blocks, at once
Wait(t) ==
    /\ pc[t] = "test"
    /\ op[t] = "pop"
    /\ data = <<>>
    /\ mutex' = Nil
    /\ Goto(t, "waiting")
    /\ UNCHANGED <<data, op, loc, ret, out, calls>>

\* pop: a wait may also return although nobody notified it
Spurious(t) ==
    /\ pc[t] = "waiting"
    /\ Goto(t, "relock")
    /\ UNCHANGED <<data, mutex, op, loc, ret, out, calls>>

\* try_pop: the queue is empty, return false
GiveUp(t) ==
    /\ pc[t] = "test"
    /\ op[t] = "try_pop"
    /\ data = <<>>
    /\ ret' = [ret EXCEPT ![t] = <<>>]
    /\ Goto(t, "unlock")
    /\ UNCHANGED <<data, mutex, op, loc, out, calls>>

\* pop and try_pop: new_val = _data_queue.front()
Front(t) ==
    /\ pc[t] = "front"
    /\ loc' = [loc EXCEPT ![t] = <<Head(data)>>]
    /\ Goto(t, "take")
    /\ UNCHANGED <<data, mutex, op, ret, out, calls>>

TakeLast(t) ==   \* faulty: removes the youngest element
    /\ pc[t] = "take"
    /\ data' = SubSeq(data, 1, Len(data) - 1)
    /\ ret' = [ret EXCEPT ![t] = loc[t]]
    /\ out' = Append(out, loc[t][1])
    /\ Goto(t, "unlock")
    /\ UNCHANGED <<mutex, op, loc, calls>>

\* pop and try_pop: _data_queue.pop(); the caller gets what front returned
Take(t) ==
    /\ pc[t] = "take"
    /\ data' = Tail(data)
    /\ ret' = [ret EXCEPT ![t] = loc[t]]
    /\ out' = Append(out, loc[t][1])
    /\ Goto(t, "unlock")
    /\ UNCHANGED <<mutex, op, loc, calls>>

-----------------------------------------------------------------------------
\* empty
Look(t) ==
    /\ pc[t] = "look"
    /\ ret' = [ret EXCEPT ![t] = IF data = <<>> THEN <<TRUE>> ELSE <<FALSE>>]
    /\ Goto(t, "unlock")
    /\ UNCHANGED <<data, mutex, op, loc, out, calls>>

\* The copy constructor copies the other queue's elements one by one, ...
CopyElement(t) ==
    /\ pc[t] = "copying"
    /\ Len(loc[t]) < Len(data)
    /\ loc' = [loc EXCEPT ![t] = Append(@, data[Len(@) + 1])]
    /\ UNCHANGED <<data, mutex, pc, op, ret, out, calls>>

\* ... up to the last one.
CopyDone(t) ==
    /\ pc[t] = "copying"
    /\ Len(loc[t]) = Len(data)
    /\ ret' = [ret EXCEPT ![t] = loc[t]]
    /\ Goto(t, "unlock")
    /\ UNCHANGED <<data, mutex, op, loc, out, calls>>

\* The move constructor takes the other queue's storage and leaves it empty.
Move(t) ==
    /\ pc[t] = "moving"
    /\ data' = <<>>
    /\ ret' = [ret EXCEPT ![t] = data]
    /\ out' = out \o data
    /\ Goto(t, "unlock")
    /\ UNCHANGED <<mutex, op, loc, calls>>

-----------------------------------------------------------------------------
Step(t) ==
    \/ Lock(t) \/ Unlock(t)
    \/ Enqueue(t) \/ Notify(t)
    \/ Ready(t) \/ Wait(t) \/ GiveUp(t) \/ Front(t) \/ Take(t)
    \/ Look(t) \/ CopyElement(t) \/ CopyDone(t) \/ Move(t)

Next ==
    \E t \in Threads :
        \/ \E o \in Ops, v \in Values : Call(t, o, v)
        \/ Spurious(t)
        \/ Step(t)

Spec == Init /\ [][Next]_vars

\* A thread inside a method keeps running; nobody has to call, and a wait
\* need not wake up without a notification.
FairSpec == Spec /\ \A t \in Threads : WF_vars(Step(t))

-----------------------------------------------------------------------------
Labels == {"idle", "lock", "enqueue", "notify", "test", "waiting", "relock",
           "front", "take", "look", "copying", "moving", "unlock"}

\* The labels at which a thread holds the mutex.
Inside == {"enqueue", "notify", "test", "front", "take", "look", "copying",
           "moving", "unlock"}

\* Types, and which method each label belongs to: only pop ever blocks on the
\* condition variable, so try_pop, empty and push return without waiting for
\* an element.
TypeOK ==
    /\ data \in Seq(Values)
    /\ mutex \in Threads \cup {Nil}
    /\ pc \in [Threads -> Labels]
    /\ op \in [Threads -> Ops]
    /\ loc \in [Threads -> Seq(Values)]
    /\ out \in Seq(Values)
    /\ calls \in 0..MaxCalls
    /\ \A t \in Threads :
          /\ pc[t] \in {"waiting", "relock"} => op[t] = "pop"
          /\ pc[t] \in {"test", "front", "take"} => op[t] \in {"pop", "try_pop"}
          /\ pc[t] = "enqueue" => loc[t] # <<>>
          /\ pc[t] = "lock" => (loc[t] = <<>> <=> op[t] # "push")

\* A thread between lock and unlock is the one that holds the mutex.
LockInv == \A t \in Threads : pc[t] \in Inside => mutex = t

\* What a thread read under the mutex is still true when it acts on it: the
\* queue it found non-empty still is, the front it read is the front it
\* removes, the elements it copied are still the first ones.
NoStaleRead ==
    \A t \in Threads :
        /\ pc[t] \in {"front", "take"} => data # <<>>
        /\ pc[t] = "take" => loc[t] = <<Head(data)>>
        /\ pc[t] = "copying" =>
              /\ Len(loc[t]) <= Len(data)
              /\ \A i \in 1..Len(loc[t]) : loc[t][i] = data[i]

\* The threads that will take an element or wake a consumer for one.
Committed == {t \in Threads : pc[t] \in {"notify", "relock", "test", "front", "take"}}

\* No wakeup is lost: while a consumer sleeps in pop, each element in the
\* queue has a thread of its own on the way to take it or to announce it.
\* (notify_one per push is enough, with several consumers, with consumers
\* that overtake a woken one and with wakeups nobody asked for.)
NoLostWakeup ==
    Waiting # {} => Len(data) <= Cardinality(Committed)

\* Every method takes effect atomically, in first-in first-out order.
Fifo == INSTANCE FifoQueue WITH q <- data
LinearizesToFifo == Fifo!Spec

\* Elements and sleeping consumers do not stay together: once the calls are
\* made, the queue gets empty or the last sleeper leaves pop.
ConsumersGetElements ==
    (data # <<>> /\ Waiting # {}) ~> (data = <<>> \/ Waiting = {})
=============================================================================
