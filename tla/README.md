# linux_server_programming: TLA+ models and proofs

The repository is a collection of small Linux TCP servers and clients, each a
different answer to "how does one process serve many connections": blocking,
`select`/`poll`/`epoll`, libevent, a pool of threads, a pool of processes. This
directory models the parts in which several threads or processes cooperate,
checks the models with TLC on small instances, and proves their safety properties and
refinements with TLAPS for every instance.

Paths below are relative to the repository (`src/` in `PROJECT.json`). `pool.hpp`
abbreviates `server/include/libev_half_sync_reactive_thread_pool_server.hpp`,
`proc.hpp` abbreviates `server/include/epoll_half_sync_reactive_proc_pool_server.hpp`,
`multi.hpp` abbreviates `server/include/multi_connection_server.hpp`, `libev.hpp`
`server/include/libev_multi_con_server.hpp` and `client.hpp`
`client/include/libevent_no_block_client.hpp`.

## 1. Inventory

| Component | State | Operations | Interacts with |
|---|---|---|---|
| `ThreadSafeQueue` (`thread_safe_queue.hpp`) | `_data_queue`, `_queue_mutex`, `_queue_cond` | `push`, `pop`, `try_pop`, `empty`, copy and move construction | main thread (push) and a worker (`try_pop`) of the thread pool server |
| Thread pool server (`pool.hpp`), the one `server/main.cpp` starts | `comm_pipes`, `comm_queues`, `cur_worker_ind`, `succ_cli_count`, one libevent loop per thread | start-up loop, `conn_listener_cb`, `signal_event_cb`, `worker_func`, `main_msg_cb`, `client_msg_cb`, `client_event_cb` | queue and a non-blocking socketpair per worker; SIGINT; clients |
| Process pool server (`proc.hpp`) | per process: `_sub_process` (`m_pid`, `m_pipefd`), `_stop`, `_epollfd`, `sig_pipefd`; per child `users` | `run`, `run_parent`, `run_child`, `sig_handler`, `TestConn::init/process` | socketpair per child, `fork`, SIGCHLD/SIGTERM/SIGINT, shared listening socket |
| `select` and `poll` servers (`multi.hpp`) | `fds` or `pfds`, a table of descriptors with slot 0 for the listening socket | `serv_select`, `serv_poll`: wait, accept one, read the marked slots | clients; signals, which they only write to a socketpair |
| `epoll` server (`multi.hpp`) | `running`, `epfd`, `ep_fds`, `epfd_mutex`, the signal pipe, a pool of threads | `serv_epoll`, `ep_accept_worker_func` in the main thread; `ep_msg_worker_func`, `ep_sig_worker_func` in the pool | main thread and tasks share `ep_fds`, the epoll descriptor and the descriptor numbers; signals |
| Single-threaded libevent server (`libev.hpp`) | one loop, a bufferevent per client | `tcp_server_init`, `accept_cb`, `be_msg_cb`, `be_event_cb`, `signal_cb` | the concurrent client, SIGINT |
| Concurrent libevent client (`client.hpp`) | `total_req_count`, `comp_req_count`, one loop per thread | `start_multi_client`, `start_clients_func`, `server_msg_cb`, `event_cb` | the libevent servers |
| Simple TCP server, file server, simple client | one blocking connection | sequential I/O | - |
| Tools, entry points | - | logging, daemonizing, argument parsing | - |

What is hard in this code, and what makes each part correct:

* **Queue.** Tests, reads and removals are separate accesses under one mutex, and a
  `push` wakes one waiter. Correct: every method is atomic and first-in first-out;
  no consumer sleeps on an element that nobody will announce.
* **Thread pool server.** A hand-over is two steps (push, then a byte), the byte may
  be lost, one byte makes the worker take several connections, shutdown uses the same
  socketpair, callbacks of one libevent batch may free what a later one uses, and
  SIGPIPE has its default action. Correct: no connection is forgotten in a queue or
  left there by a worker that leaves; every client is read, answered and closed; an
  interrupt ends the server; nothing else does.
* **Process pool server.** Notifications may be lost or find nothing to accept,
  children die at any time, SIGCHLD is not counted, signals arrive before handlers are
  installed, a failed `accept` drops the rest of a batch. Correct: a waiting connection
  is accepted by somebody, no zombie is forgotten, the parent ends after its children
  and because of them.
* **select and poll servers.** Slots and descriptor numbers are reused while the marks of
  the last wait are still being worked off; the table and the descriptors run out.
  Correct: a marked slot still means the connection that was readable; what does not fit
  is disconnected; what fits is read and closed.
* **epoll server.** Tasks name a connection by its descriptor number; a task closes a
  descriptor before it takes the lock under which it removes it from the table, two tasks
  may run for one descriptor, edges are reported once, signals end up in a flag. Correct:
  the table holds what epoll watches, connections are closed for a cause, everything sent
  is read, SIGTERM ends the server and other signals do not.
* **libevent server and concurrent client.** Two programs, several loops, one counter that
  is incremented and then compared; loops that end only when their last connection does.
  Correct: the completion message is true and comes; the end of one side reaches the other.

The full list of hazards, with source lines and the property that covers each, is in
`PROJECT.json`.

## 2. Modules and the code they model

| Module | Models | Role |
|---|---|---|
| `FifoQueue` | the promise of `ThreadSafeQueue` | abstract specification |
| `ThreadSafeQueue` | `thread_safe_queue.hpp` | mutex, condition variable and each access to the `std::queue` as a step |
| `ThreadSafeQueueProofs` | | theorems |
| `ConnectionService` | the promise of both pool servers | abstract specification |
| `ThreadPoolServer` | `pool.hpp` | composes the main thread, the workers, their queues and socketpairs, clients and signals |
| `ThreadPoolServerProofs` | | theorems: hand-over, shutdown |
| `ThreadPoolServiceProofs` | | theorems: holders, round robin, refinement of `ConnectionService` |
| `ProcPoolServer` | `proc.hpp` | parent, children, socketpairs, signal pipes, crashes |
| `ProcPoolServerProofs` | | theorems |
| `Sockets` | kernel and clients of `multi.hpp`, `serv_accept`, `serv_read` | connections, data, the table of descriptor numbers; extended by the next two |
| `SocketsProofs` | | lemmas about the system calls, for the next two |
| `SelectPollServer` | `serv_select`, `serv_poll` | one model with the multiplexer as a parameter |
| `SelectPollServerProofs` | | theorems |
| `EpollServer` | `serv_epoll` and its tasks | main thread, pool of threads, epoll, signals |
| `EpollServerProofs` | | theorems |
| `LibevMultiConServer` | `libev.hpp` | the loop's callbacks; no specification of its own |
| `ClientServer` | `client.hpp` | composes the client's threads with `LibevMultiConServer` |
| `ClientServerProofs` | | theorems |
| `MC...` | | constants and symmetry sets for TLC |

The composition is by contract. `ThreadSafeQueue` is shown to implement `FifoQueue`
(theorem `QueueImplementsFifo`), and `ThreadPoolServer` takes a `push` or a `try_pop` as
one step of such a queue. Both servers are shown to implement `ConnectionService`
(theorems `ServerImplementsService` and `PoolImplementsService`).

Definitions whose names end in a comment `\* faulty: ...` are variations of the
definition that follows them (a dropped guard, an off-by-one, a missing reset). They
are not part of any specification; they show that the properties can fail.

### ThreadSafeQueue

`pc[t]` is the place of thread `t` in the method it executes; one label per point at
which another thread may run. `mutex` is ordinary state: that it protects the queue is
a result. `Wait` releases the mutex and blocks in one step, which is what
`condition_variable::wait` guarantees; `Spurious` is a wakeup without a notification.
`ret` and `out` record what callers got. The overloads of `pop` and `try_pop` that
return a `shared_ptr` take the same steps. `MaxCalls` bounds the number of calls.

### ThreadPoolServer

*Main thread.* `mainPc` is its place in `start_libev_adv_server` and its callbacks:
`spawn` (the start-up loop), `poll` (blocked in `event_base_dispatch`), `accept`,
`push`, `send` (`conn_listener_cb`), `term` (`signal_event_cb`), `leave`, `join`, and the
three ways to end: `done`, `killed` (SIGPIPE), `interrupted` (SIGINT with its default
action, before the signal event exists or after it is freed). `Push` and `SendNew` are
two steps; `SendTerm` is one step per worker. `SendByte` loses a byte that does not fit,
as `send` on a non-blocking socket whose result nobody looks at.

*Workers.* `wpc[w]` is `poll`, `batch` (running the callbacks of one batch), `recv` or
`drain` (inside `main_msg_cb`), `exited`. `active[w]` and `writable[w]` are the events
of the batch still to handle. `event_base_loopexit` takes effect at the end of the
batch. `client_msg_cb` may see any prefix of what a client has sent and needs any
number of `bufferevent_read`s for it. The socketpair's end is closed on exit, and a
later send to it means SIGPIPE.

*Clients* connect, send up to `MaxMsgs` messages, close (FIN) and reset (RST), in any
order that TCP allows. A write after a reset gives an error; after a FIN and a reset it
raises SIGPIPE, which the program neither ignores nor handles.

*External, modelled from how the code uses it:* libevent's loop (batches; a signal's
callback comes after the listener's; the listener accepts until nothing is left), the
kernel's backlog, TCP.

### ProcPoolServer

*Parent.* `ppc` is `fork`, `wait` (in `epoll_wait`), `batch`, `done`, `killed`. `Notify`
is the search for the next live child from `sub_process_counter` on, the new counter and
the byte. `ReadSignals` takes everything in the signal pipe, then `HandleChld` and
`HandleTerm` run for the signals read, in either order. `HandleChld` is the whole
`waitpid` loop and the decision about `_stop`.

*Child.* `cpc[k]`: `unborn`, `setup` (forked, no handlers), `wait`, `batch`, `zombie`,
`reaped`. `Accept`/`AcceptNone` are a notification that finds a connection or does not;
the latter breaks out of the loop over the events, as the code does, and level-triggered
epoll reports the others again. `Process` is `TestConn::process`.

*Faults.* A child may `Crash` at any time. SIGTERM goes to the parent, SIGINT to the
whole foreground group; either finds handlers installed or not. `StartupFaults` chooses
whether faults strike before the parent has installed its handlers. A signal pipe is a
set: the handlers do the same for one byte of a signal as for several.
The build sets no build type, so `assert` is active and the system calls inside it
(`sigaction`, `socketpair`) are made; with `NDEBUG` the program would be another one.

### Sockets

`sock[f]` is the connection behind descriptor `f`. `accept` takes the lowest free number,
so a number that was just closed is the next one used, which is what POSIX prescribes
and what the stale names of `EpollServer` need to do harm. `inbuf[c]` counts pieces of at
most one `recv` buffer. A client that leaves sends FIN, and its data stays readable, or
RST, and it does not. `serv_read` on a number that is no descriptor ends like an error
(EBADF). `MaxFds` is the descriptor limit less the descriptors not used for clients.

### SelectPollServer

`pc` is `wait`, `accept`, `read` (at slot `cursor`), or `failed` (exit(1) after EINTR).
`mux` is fixed at start: `select` marks descriptors, so a mark could be found through a
different slot; `poll` marks slots, so a mark could be found for a different descriptor.
Slot 0 never changes and is left out. A timeout leads back to the wait and is no step.
Signals write to a socketpair that these two servers never read; all they do is to
interrupt a wait, and `Interrupted` stands for them.

### EpollServer

`mainPc`: `wait` (in `epoll_wait`, holding `epfd_mutex`), `batch` (at the top of the loop
or in the loop over the events), `add` (in `ep_accept_worker_func`, between `accept` and
the lock), `closing`, `exited`, `failed` (exit(1)), `crashed`. The other critical sections
contain one access each to shared state that matters and are one step, taken only while
the main thread does not hold the lock. `events` are the events left of a batch; their
order is not fixed. `tasks` is the queue of the thread pool. A thread `t` is `read`ing,
about to `close`, or about to `dereg`ister descriptor `tfd[t]`; close and deregistration
are two steps because the lock is taken between them (multi.hpp:334-373). `close` also
removes the descriptor from the kernel's epoll set, before `EPOLL_CTL_DEL` does.

`edge` holds the edge-triggered descriptors with an event not yet reported: one more
event for every arrival of data or end of data, and one when a readable descriptor is
added. `accept` may fail at any time. When the main thread goes through `ep_fds` at the
end without the lock, an `erase` at that moment is a data race, and the outcome may be a
crash.

`reused` is a history variable: the connections that were given a descriptor which an
event, a task or a thread still named. Nothing depends on it; it lets the properties say
what holds for all other connections, while `EveryClientIsServed` says it of all.

### LibevMultiConServer and ClientServer

The server's loop takes a batch of callbacks (`readable`, `writable`); a bufferevent that
is freed takes its pending write event with it. SIGINT has its default action until
`evsignal_new`; later `event_base_loopexit` ends the loop after the batch, with answers
that are not yet written lost. `be_msg_cb` reads everything; a client of `client.hpp`
sends one message, so sets are enough for messages and answers, and a second write to a
closed connection, which would raise SIGPIPE, does not occur.

On the client's side `tpc[t]` is `start` (the loop over `sub_cli_count`), `loop`, `test`
(in `server_msg_cb`, between the increment and the comparison of `comp_req_count`) or
`done`. `cst[c]` follows one client from `connect` to `bufferevent_free`. `Handshake` is
the kernels' part of the connection. The client never closes a connection by itself, so
its process ends when the server does or when it is killed. The server may start at any
time, late or never, and `bind` may fail.

## 3. What TLC checks

| Run | Instance | Shows |
|---|---|---|
| `Queue` | 3 threads, 2 values, 4 calls | what a method read under the mutex stays true until it acts on it (`NoStaleRead`); no lost wakeup (`NoLostWakeup`); `LinearizesToFifo` (refinement of `FifoQueue`) and `ConsumersGetElements` (liveness) |
| `PoolSafety` | 5 connections, 2 workers, 2-byte socketpairs, 2 SIGINTs | no connection stranded or left behind, round robin within one, `comm_queues` does not move under a running worker, the only causes of SIGPIPE |
| `PoolServe` | 3 connections, the client of one sends, closes and resets, 1 worker, 2-byte socketpair, 1 SIGINT | every queued connection is taken over, every client handled; no callback for a freed connection (`OneHolder`); an interrupt ends the server unless a socketpair is full when COMM_TERMINATE is sent to it (`InterruptStopsUnlessFull`); refinement of `ConnectionService` |
| `PoolStopLost` | 2 connections, 1 worker, 1-byte socketpair | **violation**: the interrupt does not end the server when the socketpair is full |
| `ProcPool` | 1 connection, 2 children, 1-byte socketpairs, 2 crashes, 1 signal | the parent never ends before it has waited for its children, a zombie always has a SIGCHLD pending, a waiting connection is accepted and handled, a signal ends the pool, the death of all children ends the parent; refinement of `ConnectionService` |
| `ProcStartup` | 1 child, 1 crash, start-up faults | **violation**: not if the child dies before the SIGCHLD handler is installed |
| `SelectPoll` | 4 connections, 2 slots, 3 descriptors, both multiplexers | slots and marks are never stale (`TableIsCurrent`), `serv_select` disconnects what does not fit, waiting connections are accepted unless the process stays out of descriptors for ever, clients in the table handled |
| `PollFull` | 2 connections, 1 slot, `poll` | **violation**: `serv_poll` does not disconnect what does not fit |
| `Epoll` | 2 connections, 2 descriptors, room for one in `ep_fds`, 2 threads, 2 tasks waiting, 1 signal, both triggers | `reg` and `ep_fds` agree, connections are closed for a cause, everything sent is read, SIGTERM ends the server |
| `EpollReuse` | 2 connections, 2 descriptors, room for both, 2 threads | **violation**: a connection whose descriptor a task still names is forgotten |
| `EpollInterrupt` | 1 connection, 1 thread, 1 signal | **violation**: EINTR ends the server |
| `ClientServer` | 3 clients in 2 threads | the completion message is true and is printed; the end of the server ends the client, a dead client is closed |

The five violations are findings: the program does something else than its own comments
and messages say (`PROJECT.json`, `findings`).

* `PoolStopLost`: `signal_event_cb` ignores the result of `send` (pool.hpp:273). If a
  worker's socketpair is full of announcements, COMM_TERMINATE is lost, the worker goes
  on and `pool.join()` never returns. The shortest case has the buffer full at the moment
  of the interrupt. A real socketpair takes some hundreds of one-byte messages, so that
  many connections must arrive at one worker while it is busy; a worker is busy for
  100 ms per message it serves. `InterruptStopsUnlessFull` shows on the instance of `PoolServe`
  that this is the only way: the excuse it allows (`TermLost`) is a socketpair that is full
  of announcements right after COMM_TERMINATE was sent to it. Nothing is sent after that, so
  it was full at the send. A socketpair that is full earlier, or a COMM_TERMINATE that waits
  behind an announcement, does not excuse a server that goes on.
* `ProcStartup`: the SIGCHLD handler is installed after the forks (proc.hpp:229); deaths
  before it are not noticed, in contrast to the comment at :404.
* `PollFull`: `serv_poll` says "Fd set is full, disconnect client connection."
  (multi.hpp:249) and leaves the connection open, in no table; each costs a descriptor.
* `EpollReuse`: a task closes descriptor 1; before it gets `epfd_mutex` the main thread
  accepts another connection, which gets number 1, and registers it; the task then
  deregisters 1 and erases it from `ep_fds` (multi.hpp:371-373). The new connection is
  open and nobody watches it. `FreshIsServed` and `NoGhostDescriptor` show that without
  such a reuse nothing is forgotten.
* `EpollInterrupt`: SA_RESTART (multi.hpp:73) does not apply to `epoll_wait`, `select` and
  `poll`; a handled signal that interrupts one ends in `exit(1)`.

A remark without a run: `succ_cli_count` counts reads, not clients (pool.hpp:96 against the
comment at :69).

### Bounds

* `PipeCap` is the capacity of a socketpair. Behaviour differs only between "there is
  room" and "full". Two bytes, in the passing runs, reach both, and let COMM_TERMINATE wait
  behind a COMM_NEW_CONNECTED; three connections to the one worker of `PoolServe` lose the
  third announcement. One byte is enough for the violation of `PoolStopLost`. The proofs
  hold for every capacity.
* `PoolSafety` uses five connections for two workers so that the round robin wraps twice
  and a queue can hold more connections than its socketpair holds bytes. It has no
  messages and no departing clients, which `PoolServe` has.
* `MaxMsgs` is 1: a message may arrive before, during or after each step of the server;
  a read that finds less than is sent later is reached through the client's leaving and,
  with `EP_ET`, through the second `recv`.
* `Senders` and `Leavers` limit which clients send and which may leave. Where one is
  smaller than `Conns` the clients are not interchangeable and symmetry is not used for
  them.
* `MaxSigs`: two SIGINTs reach a second `signal_event_cb`, in the same batch and in the
  same shutdown. One is used where the property speaks of one.
* `process_number` is 2 with 2 crashes: all children can be dead, and one SIGCHLD can
  stand for both deaths. One connection is enough for a lost notification, an accept by
  the wrong child and a child that dies with a connection. Faults before the parent's
  handlers are installed are in `ProcStartup` only.
* `SelectPoll`: two slots and three descriptors, so the table fills up before the
  descriptors do, and both do; the fourth client meets each case.
* `Epoll`: `EPOLL_FDS_LEN` is 3 (the listening socket, the signal pipe and one client), so
  that the second client may find `ep_fds` full; two descriptors and two threads are
  enough for one task to close a number and for the next connection to get it. `MaxTasks`
  2 lets two tasks wait for one descriptor.
* `ClientServer`: three clients in two threads have a residue of one, and the threads race
  for the last increment.
* `CHECK_DEADLOCK FALSE` in all configurations: the environment has bounded actions and
  the servers really stop, so a state without successor is normal.

### Fairness

`FairSpec` asserts weak fairness of each thread's or process' own steps: a thread inside
a method, a callback or a batch goes on, and a loop with ready events wakes up. The
kernel's scheduler gives that. Nothing is assumed about clients, crashes, signals or
spurious wakeups. In the queue, acquiring the mutex is part of a thread's steps; weak
fairness does not exclude that a thread is overtaken at the mutex, and with a bounded
number of calls that is enough for `ConsumersGetElements`. In `EpollServer` a thread that
waits for `epfd_mutex` has strong fairness for getting it: the main thread holds the lock in
every `epoll_wait` and releases it after each, so the lock is free again and again and never
for good; a mutex that for ever passes over a waiting thread is excluded. The 5 second
timeout of `epoll_wait` is a step of the main thread. In `ClientServer` the
kernels' handshake has weak fairness; nobody has to start the server, to interrupt it or to
kill the client.

## 4. What is proved

Every invariant, action property and refinement that a passing run checks is a theorem
of the specification `Spec`, for every value of the constants that the assumptions of the
module allow. For each component TLC checked the inductive invariant on small instances
before it was proved. Each proof has the same shape: `InitIInv`, one `...Step` lemma for each
conjunct that goes through the actions, `IInvAlways`, and the theorems.

`ThreadSafeQueueProofs`, from `QueueAssumption` (finitely many threads, `Nil` is none of
them):

* `TypeCorrect`, `ReadsAreCurrent`: the inductive invariant is
  `TypeOK /\ LockInv /\ NoStaleRead`. `LockInv` (a thread inside a method holds the
  mutex) is what makes `NoStaleRead` inductive: another thread's write needs the mutex.
* `QueueImplementsFifo`: each step of the queue is a step of `FifoQueue` or a stutter
  (`FifoStep`): `Enqueue` is `Enq`, `Take` is `Deq` because what `Front` read is still the
  head, `CopyDone` is `Snapshot` because what was copied is still the queue.
* `NoWakeupIsLost`: by counting. While somebody waits, the number of elements is at most
  the number of committed threads. A push adds an element and commits its own thread, a
  notification passes the commitment on to the thread it wakes, and a thread that takes an
  element gives up one of each. A consumer goes to sleep only when the queue is empty.

`ThreadPoolServerProofs`, from `ServerAssumption` and `NobodyAssumption` (at least one
worker, a socketpair holds at least one byte):

* The inductive invariant `IInv` adds to the properties what they rest on: `StartInv`
  (before all workers are dispatched nothing has happened), `TermInv` (only the shutdown
  tells a worker to stop, and only a worker that was told exits), `OrderInv` (in a
  socketpair nothing but COMM_TERMINATE comes after COMM_TERMINATE) and `SigInv` (a worker
  that has been told before this call of `signal_event_cb` reaches it owes that to an
  earlier interrupt).
* `HandOverIsSafe`: a byte is lost only when the socketpair is full. By `OrderInv` and
  `TermInv` a full socketpair holds a COMM_NEW_CONNECTED while the main thread still
  accepts, and that byte makes the worker empty its queue.
* `ExitLeavesNothing`: when the worker receives COMM_TERMINATE, `OrderInv` says that no
  announcement is behind it, `TermInv` that the main thread accepts no more, and
  `NoConnectionStranded` then that the queue is empty.
* `OneInterruptIsSafe`: the main thread writes to a closed socketpair only in a second
  call of `signal_event_cb` (`SigInv`); the other cause is a client that resets a
  connection after closing it.
* `NoReallocationUnderWorkers`: from `StartInv`.

The proof of each conjunct goes action by action; lemmas named `...Frame` say which actions
leave a variable alone, so that each proof looks only at the others.

`ThreadPoolServiceProofs`, from the same assumptions, adds an invariant `HInv` to `IInv`:

* `HeldOnce` (`OneHolder`): `QueueInv` and `QueuedInv` say that being queued for a worker and
  being in its queue, once, are the same; a connection is pushed only when it was just
  accepted (`DealInv`). `BatchInv`: a callback that frees a connection withdraws its other
  event of the batch. The cardinality in `OneHolder` follows, a set with exactly one position.
* `DealtRoundRobin` (`RoundRobin`): `TurnInv` says that the workers before a position `p` have
  `n + 1` connections and the others `n`. The position is the turn, or one further between
  the push and the move of the turn, which are two steps.
* `ServerImplementsService`: `ConnectionService` with `Stage`, `Handler` and `Stopping`
  computed from the server's state. `OneHolder`'s invariant makes the hand-over, the service
  and the close of a connection steps of the abstract one, by the same handler.

`ProcPoolServerProofs`, from `PoolAssumption` and `NobodyAssumption` (at least one child, a
socketpair holds at least one byte):

* `ParentEndsLast` (`ParentLast`): `PidInv` (the parent has the pid of exactly the children
  forked and not waited for), `BornInv` (in its loop all are forked) and `StopInv` (`_stop`
  is set when no pid is left).
* `ZombiesAreAnnounced` (`NoZombieForgotten`): a death adds SIGCHLD to the pipe, reading the
  pipe keeps it in the buffer, and handling one SIGCHLD waits for all zombies. `ForkInv` is
  needed for the moment at which the handlers are installed: without start-up faults no child
  can have ended by then.
* `PoolImplementsService`: `OwnerInv` (an open connection has a child that is in its loop) and
  `EventInv` (a child processes its own open connections) make `Process` and the death of a
  child steps of the abstract service. The search for the next live child is justified by
  the least element of a set of numbers (`LeastElement`, from well-foundedness of `<`).

`SocketsProofs`, from `SocketsAssumption`: each system call keeps `SockInv`, that is types,
`BufInv` (no more unread than sent) and `DescInv` (a descriptor is an open connection, and the
only one of it). `LowestFdIsFree`: what `accept` returns was free. `None` is assumed to be
neither a connection nor a number of a descriptor.

`SelectPollServerProofs`, from `SocketsAssumption` and `TableAssumption`:

* `TableStaysCurrent` (`TableIsCurrent`): the property is inductive together with `ReadyInv`
  (when a connection is accepted, what the wait marked is in the table). So the new
  connection's descriptor, for `select`, and its slot, for `poll`, are not marked. Reading and
  closing one slot leave the others readable by `DescInv`: no other slot has its connection.
* `SelectKeepsItsWord` (`SelectDisconnects`): an open connection enters with a slot, or is
  closed at once, and a slot is reset when its connection is closed. The same is false of
  `serv_poll` (run `PollFull`).

`EpollServerProofs`, from `SocketsAssumption` and `EpollAssumption`:

* `WatchedIsCounted` (`RegisteredIsKnown`): unconditional, in spite of reuse: registration and
  insertion are one critical section, and so are deregistration and erasure.
* `NoPlaceIsLost` (`NoGhostDescriptor`): `AddInv` says that the descriptor between `accept` and
  the lock is named by nobody and not in `ep_fds` yet; `RegInv` that what is watched is open.
* `NoneIsClosedByMistake` (`ClosedForACause`, an action property): `CloseInv`, a thread that is
  going to close a descriptor has read the end of that very connection, or the number is
  closed already or was reused under it.

`ClientServerProofs`, from `ClientAssumption` (at least one thread, clients numbered from 1):

* `EveryClientHasAThread`: the blocks of `start_multi_client` are disjoint and cover all
  clients. With the division `client_count = thread_count * sub + res`, `Before(t)` is
  monotonic, 0 at the first thread and `client_count` at the end; the thread of a client is
  the one before the least `t` with `c <= Before(t)`.
* `TypeCorrect`: the bound of `comp_req_count` is not inductive. `FlowInv` follows the one
  message of a client, which is in one place at a time and is sent once, so `server_msg_cb`
  never sees a client twice and the counter is the number of clients answered (`CountInv`).
* `AnnouncementIsTrue` (`CompletionIsTrue`): `AnnounceInv` counts the announcements made and
  the threads between increment and comparison, together at most `thread_count`. A thread
  enters that place only with a client not yet answered, when nothing has been announced.

Only model-checked: all liveness properties (fairness and ENABLED are beyond the prover). What
a violation run shows is a counterexample and needs no proof.

## 5. Not modelled

* Start-up failures other than as a crash: a failing `bind` or `socketpair`, descriptor
  exhaustion, `concur = 0`.
* In the pool server a client that does not read its answers (full send buffers), and the
  100 ms of `sleep_for`, which is only a delay.
* In the process pool: the index bound of `users[]`; the sharing of earlier socketpair ends
  by later children; what a child does after the death of its parent beyond serving what
  it has (it then spins on the end-of-file of its socketpair, without a change of state).
* In the servers of `multi.hpp`: a failing `bind` or `listen` (an `assert`), a pool without
  threads, the growth of the pool's queue of tasks. `serv_select` and `serv_poll` take one
  connection per round, so the length of the backlog is not bounded in the model.
* In `libev.hpp`: `accept` failing for want of descriptors (`accept_cb` returns and the
  listening socket stays readable, no state changes); `msg_cb`, which only lines that are
  commented out use. In `client.hpp`: `thread_count = 0`, failing allocations.
* Simple TCP server, file server, simple client, tools and entry points: one thread, one
  connection, blocking input and output, no shared state and no order of events that could
  vary; a model would repeat the sequence of calls.

## 6. Plan

Done: all servers with concurrency, the concurrent client, the refinements of
`ConnectionService`; theorems for all invariants, action properties and refinements of the
passing runs. Left:

1. The safety part of what liveness rests on, as theorems: for `InterruptStopsUnlessFull`,
   that a worker which was not told to stop met a full socketpair; for `FreshIsServed`, that
   a readable descriptor with `EP_ET` has an edge, a task or a thread.
2. That a step of the queue taken as one in `ThreadPoolServer` is the abstract `FifoQueue`
   step: so far by contract, not by an `INSTANCE` over the composed state.
