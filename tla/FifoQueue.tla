----------------------------- MODULE FifoQueue -----------------------------
(***************************************************************************)
(* What zhaocc::ThreadSafeQueue promises its callers: every method takes   *)
(* effect at one instant on a first-in first-out queue.  ThreadSafeQueue   *)
(* implements this specification, and ThreadPoolServer relies on it when   *)
(* it treats a push or a try_pop as one step.                              *)
(***************************************************************************)
EXTENDS Sequences

CONSTANTS Threads,   \* the threads that call the queue
          Values     \* the elements it may hold

VARIABLES q,         \* the elements, oldest first
          ret,       \* ret[t]: what t's last completed call returned
          out        \* every element that ever left the queue, in order

vars == <<q, ret, out>>

Init ==
    /\ q = <<>>
    /\ ret = [t \in Threads |-> <<>>]
    /\ out = <<>>

\* push
Enq(v) ==
    /\ q' = Append(q, v)
    /\ UNCHANGED <<ret, out>>

\* pop, and a try_pop that finds an element
Deq(t) ==
    /\ q # <<>>
    /\ q' = Tail(q)
    /\ ret' = [ret EXCEPT ![t] = <<Head(q)>>]
    /\ out' = Append(out, Head(q))

\* a try_pop that finds none
Miss(t) ==
    /\ q = <<>>
    /\ ret' = [ret EXCEPT ![t] = <<>>]
    /\ UNCHANGED <<q, out>>

\* empty
IsEmpty(t) ==
    /\ ret' = [ret EXCEPT ![t] = IF q = <<>> THEN <<TRUE>> ELSE <<FALSE>>]
    /\ UNCHANGED <<q, out>>

\* the copy constructor: a snapshot of the whole queue
Snapshot(t) ==
    /\ ret' = [ret EXCEPT ![t] = q]
    /\ UNCHANGED <<q, out>>

\* the move constructor: the new queue takes everything
Drain(t) ==
    /\ q' = <<>>
    /\ ret' = [ret EXCEPT ![t] = q]
    /\ out' = out \o q

Next ==
    \/ \E v \in Values : Enq(v)
    \/ \E t \in Threads :
          Deq(t) \/ Miss(t) \/ IsEmpty(t) \/ Snapshot(t) \/ Drain(t)

Spec == Init /\ [][Next]_vars
=============================================================================
