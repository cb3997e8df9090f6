# A TLA+ model of libco

libco is a library of stackful coroutines in C: one thread runs a cooperative
scheduler with timers, mutexes, condition variables, channels and socket calls
that suspend the coroutine instead of the thread. This directory models the
library and the tasks of its C++ wrapper from their source, checks them with TLC
on small instances, and proves every safety property of the scheduler, the
synchronisation objects, channels, both multiplexers and the wrapper with TLAPS for
instances of every size.

## The system

| Part | Source (under `src/libco/src`) | State | Operations |
|---|---|---|---|
| scheduler | `co_scheduler.c` | ready queue, current coroutine, counters | create, run, schedule, enqueue, dequeue, destroy |
| coroutines | `co_routine.c` | state, wakeup time, queue node, flags of the wait in progress | spawn, yield, sleep, finish |
| stack pool | `co_stack_pool.c` | LIFO array of cached stacks | alloc, free, create, destroy |
| intrusive queue | `co_queue.h` | doubly linked circular list with a sentinel | push, pop, remove |
| timer heap | `co_timer.c` | array heap ordered by the coroutines' wakeup time | push, pop, remove, growth |
| mutex | `sync/co_mutex.c` | locked, owner, wait queue | lock, trylock, unlock |
| condition variable | `sync/co_cond.c` | wait queue | wait, timedwait, signal, broadcast |
| channel | `sync/co_channel.c` | ring buffer, closed flag, queues of senders and receivers | send, recv, trysend, tryrecv, close |
| multiplexer | `platform/linux/iomux_epoll.c` | epoll registrations, wait contexts | add, mod, del, poll, co_wait_io and the socket calls |
| IOCP multiplexer | `platform/windows/iomux_iocp.c` | overlapped operations, completion packets, table of associated sockets | add, poll, co_read, co_write, co_accept, co_connect, cancellation |
| contexts | `platform/*/context.c` | registers and stacks | init, swap, destroy |
| allocator | `co_allocator.c` | function pointers | not modelled |
| C++ wrapper | `src/libcoxx` | shared states of tasks, counter of WaitGroup | spawn, Task::join, detach, the trampoline, WaitGroup::add, done, wait |

How they interact. Control is in the main program, in the loop of
`co_scheduler_run`, or in one coroutine, and moves by `co_context_swap`. A
coroutine has ONE `queue_node`, so it can be in one list at a time: the ready
queue or the wait queue of one synchronisation object. The timer heap points to
coroutines besides those lists, and the loop decides by three fields of the
coroutine (`state`, `cond_wait_queue`, `io_waiting`) what an expired timer means.
Wakeups come from other coroutines, from timers and from the multiplexer, and may
meet in one turn of the loop. The C++ wrapper uses the C functions from inside
coroutines; each of its functions locks, may wait on a condition variable, and
unlocks. What is nondeterministic is the clock, the kernel, failures
of allocation and of context switches, and what client code calls next.

What is hard: a timeout and a signal (or an I/O event) for the same wait; a timer
entry that outlives its wait or its coroutine; the hand-over of a mutex while
others try to take it; closing a channel while woken waiters have not run;
edge-triggered events, registrations and overlapped operations that hold stack
addresses; a completion that races its cancellation; a task that ends while it is
joined or detached; fairness among
timers, ready coroutines and sockets; failures in the middle of a call. Each is a
hazard in `PROJECT.json` with its line and the properties that cover it.

## Modules

* `CoScheduler` - the scheduler and the coroutines. One action per step of the
  run loop (`SampleNow`, the four ways an expired timer is handled, `TimersDone`,
  the poll, `Recheck`, `Schedule`, `SwitchBack`) and per library call (`Spawn`,
  `Yield`, `Sleep`, `Finish`, ...). All intrusive lists are in one variable
  `queue`, a function from list to sequence of coroutines, so that "linked twice"
  can be said. The heap is the number of entries that point to each coroutine.
  A member of `Routine` is a memory block, FREE or allocated, and is reused.
* `CoStackPool` - `CoScheduler` with the stacks: each spawn, each end of a
  coroutine and the destruction of the scheduler composed with what it does to the pool.
* `CoSync` - `CoScheduler` with mutexes and condition variables. `call[r]` is the
  library call in which coroutine r is suspended (its continuation); `held` and
  `signalled` are history variables for the properties.
* `CoChannel` - `CoScheduler` with one channel. `ChannelFifo` is what a channel
  promises: messages are taken in the order in which they are sent, each once,
  and nothing is sent after it is closed.
* `CoIo` - `CoScheduler` with epoll and the socket calls. The kernel (readiness,
  edge-triggered event generation, registrations) is external and modelled as the code uses it.
* `CoIocp` - `CoScheduler` with the completion port. `ctx[r]` is the wait_ctx of the
  call coroutine r is in, with its embedded OVERLAPPED; `pending` and `packets` are
  what the kernel still holds of it. `Submit`, `FailsAtOnce`, `Drain` (the
  cancellation and the second wait), `CancelTimer` and `Return` are the parts that
  co_read/co_write, co_accept and co_connect share; each call is its own action and
  has its own resumption. `Deliver` handles a batch of packets in order.
* `Coxx` - `CoSync` with the C++ wrapper. A member of `Token` is the shared state of a
  task, with a mutex and a condition variable of its own, `Live` while its handle or
  its trampoline refers to it, and reused when freed. `at[r]` is the function of the
  wrapper that r is in. Every action is a step of `CoSync` together with what the
  function does under the mutex; `LayerKeepsRules` is `CoSync`'s specification.
* `CoQueue`, `CoTimer` - the two data structures at the level of pointers and
  array slots, each with a refinement to what the modules above use (sequences; a
  set of timers). `CoTimer` sifts with recursive operators and is for TLC only.
* `MC*` with their `.cfg` files - the instances.
* `CoSchedulerProofs`, `CoStackPoolProofs`, `CoSyncProofs`, `CoChannelProofs`,
  `CoIoProofs`, `CoIocpSteps`, `CoIocpProofs`, `CoxxProofs` - the proofs.

Definitions called "Mutant" in their comment are deliberate faults next to the
definition they alter; `PROJECT.json` pairs each with the property it breaks.
They are used nowhere else.

Abstractions: data are model values; of messages only identity and order
matter; counters used for statistics are left out; `should_stop` is never set
by the code. Clients keep the rules of the library: they unlock what they have
locked, do not lock a mutex they have, do not return from a coroutine with one,
and call blocking operations from coroutines. In `Coxx` they use a Task handle from
one place at a time and call done() once for each add().

## Runs

| Run | Instance | Shows |
|---|---|---|
| `scheduler` | 3 coroutines, sleeps of 1 and 2, pool of 1 cached stack | stacks are neither shared, leaked nor used after free (`StacksAccounted`); no sleep is short (`SleepNotShort`); ready and sleeping coroutines run again (`ReadyRuns`, `SleeperRuns`) |
| `sync` | 3 coroutines, 1 mutex, 1 condition, failing context switches | the lists (`NodeLinkedOnce`, `NoDanglingPointer`), the hand-over (`HandoffAssertion`, `MutualExclusion`), timeout against signal (`TimeoutXorSignal`, `TimerKeyStable`), what a run and what `co_scheduler_destroy` leave behind (`RunLeavesOnlyBlocked`, `DestroyLeavesBlocked`) |
| `sync_liveness` | 2 coroutines, 1 mutex, 1 condition, failing allocations | the inductive invariant of the proofs (`SyncInv`); who waits for a mutex gets it (`LockAcquires`); a timed wait returns with the mutex (`TimedWaitReturns`) |
| `channel` | 3 coroutines, capacities 0, 1, 2, 4 messages | refinement of `ChannelFifo` (`ImplementsFifo`), `NobodyWaitsInVain`, `OkMeansDone`, `CloseReleases` |
| `io` | 2 coroutines, 2 descriptors | no event is lost (`NoLostEvent`), timeout against event (`TimeoutXorEvent`), no registration outlives its call (`ContextAlive`), `WaitingIoIsCount`, `TimedCallReturns`, `ServedIfPolled` |
| `iocp` | 2 coroutines, 2 socket handles, batches of 1 and 2 packets | the kernel writes to no OVERLAPPED of a call that has returned (`OverlappedAlive`); each packet finds its coroutine waiting, and each waiter has a packet to come (`EveryPacketWakes`); a call resumes for its packet or for its timeout, never for both or neither (`ResumedForAReason`); `WaitingIoIsCount`; co_accept leaks no socket (`SocketsAccounted`); the run does not end with an operation in flight (`RunKeepsIoWaiters`); `TimedCallReturns` |
| `coxx` | 3 coroutines, 3 tasks, a WaitGroup that counts to 2, failing context switches | shared states are freed with nobody in them (`FreedIdle`); lock() never blocks (`LocksNeverBlock`); no notification is lost (`NobodySleepsInVain`); join does not return early (`JoinAfterBody`) and waits for a coroutine that exists (`TaskNotAbandoned`); the wrapper follows the rules of `CoSync` (`LayerKeepsRules`) |
| `containers` | 4 nodes, 2 lists; 6 coroutines, growth from 2 slots to 8 | pointer operations act as sequence operations (`ImplementsSequences`); the array heap acts as a set of timers (`ImplementsSet`) |

Bounds. Three coroutines are a holder, a waiter and a newcomer; a clock of 2 ticks
with sleeps of 1 and 2 has timers that tie, expire in order and expire late, because
the loop works with an old sample of the clock. Capacity 0 is a rendezvous, 1 is
full and empty at each call, 2 wraps with messages in between; with 4 messages the
ring goes round twice. Six timers give a heap of three levels, with a removal that has to
sift up, and two growths. Two socket handles are a listener or connection in use and
one that co_accept creates, that is opened, closed or fails; two packets at once are
one for each coroutine. Three coroutines and three tasks are a task, its joiner and a
third that runs between them, with shared states freed and allocated again. The `sync`,
`containers` and `coxx` runs use the symmetry of the coroutines (and of the tasks); runs with
liveness properties do not.

The `io` and `iocp` runs keep to cases in which the code is right: one waiter per
descriptor, sockets that can fail are not those used with a timeout, the table of
associated sockets has room, and a handle value in the table is not given to a new
socket. What happens outside them is said under Findings.

Fairness. The scheduler loop and the clock go on (weak fairness). The scheduler is
not preemptive, so it is assumed that a coroutine does not run for ever without a
call that suspends it (weak fairness of suspending; strong fairness in `CoIo`,
where a coroutine could otherwise make non-blocking calls for ever).
`LockAcquires` assumes that a client which is given a mutex again and again unlocks
it (strong fairness of `Unlock`). In `CoIocp` the kernel completes an operation that was
cancelled, which is what the code waits for. Nothing else is assumed about sockets,
nor about signals or the main program. `ServedIfPolled` therefore says only that an event is served if the
loop polls: coroutines that keep yielding keep the ready queue from being empty, and
sockets are polled only when it is. `TimedCallReturns` has the same condition for
completion ports, where a call that timed out needs a poll to return; with epoll it has
none. `Coxx` is checked and proved for safety only: whether a join returns depends on
what the joined function does, and that nobody sleeps on without a reason is
`NobodySleepsInVain`.

## Findings

* `channel_closed`: a receiver to which a message was handed reports
  `CO_ERROR_CLOSED` if the channel is closed before it runs (`co_channel.c:213`),
  against "CO_ERROR_CLOSED if the channel is closed and no data remains" (`co_sync.h:189`).
* `io_dangling`: `co_wait_io` returns on an error without removing its timer
  (`iomux_epoll.c:349`), which leaves the heap with a pointer to a finished coroutine.
* `sync_destroy`: `co_scheduler_destroy` frees what is in the ready queue and then what is
  in the timer heap (`co_scheduler.c:114-126`). A signalled timed waiter is in both until
  it runs. A failed context switch ends the run before it does, and the block is freed
  twice. `FreedOnce` states that nobody is in both when the main program has control; it
  is violated with two coroutines.
* `iocp_reuse`: a socket that gets the handle value of a closed one is taken for
  associated with the port (`iomux_iocp.c:246`), since nothing removes the entry of the
  closed one; a call on the new socket waits for a packet that does not come.

Met while modelling and not made runs:

* a signal during `epoll_wait` ends `co_scheduler_run` while coroutines wait for
  sockets: the test at `co_scheduler.c:216` does not look at `waiting_io_count`;
* a second waiter on a descriptor replaces the registration of the first
  (`iomux_epoll.c:112`), and its event wakes only one of them;
* timed IOCP calls that fail leave their timer in the heap, as in `io_dangling`, and
  after a refused WSARecv or WSASend `io_waiting` stays set (`iomux_iocp.c:488`);
* the 1025th socket is associated but not recorded, and the next call on it fails
  (`iomux_iocp.c:274`);
* an operation that completes just before its cancellation is reported as a timeout;
* two coroutines in `join` of one Task: the first to return resets the state the other
  reads; `WaitGroup::wait` outside a coroutine, which its comment rules out, spins;
* coroutines blocked in a wait queue are leaked by `co_scheduler_destroy`
  (`DestroyLeavesBlocked` says that no others are); a timed waiter that is still in the
  queue of its condition is freed through the heap, and the queue keeps its address; a
  deadlock ends the run with `CO_OK`;
* the wait for a timer more than 2^31 - 1 ms away is cut to a negative int
  (`co_scheduler.c:202`);
* the pool's `current_used` stays too high when malloc fails; a `stack_size` larger
  than the pool's is passed on to the context of a smaller stack (`co_routine.c:82`).

## Proofs

Every invariant and every action property of the runs `scheduler`, `sync`, `channel`,
`io`, `iocp` and `coxx` is a theorem, refinements included, for any set of coroutines,
objects and sockets, any durations and any clock bound. Allocations and context switches
may fail unless a theorem says otherwise. What is assumed of the constants is named next
to their declaration (`QueueAssumption`, `TimeAssumption`, `FaultAssumption`,
`PoolAssumption`, `SyncAssumption`, ...: the lists are different, NULL is not a coroutine,
durations are positive) and evaluated by TLC in the runs. For the multiplexers the set of
coroutines is finite (`RoutineAssumption`), since `waiting_io_count` is the size of a part
of it.

| Proofs | Inductive invariant | Theorems |
|---|---|---|
| `CoStackPoolProofs` | `PoolInv` | `StacksNeverLost`, `SleepsAreFull` |
| `CoSyncProofs` | `SyncInv`, `NoFaultInv` | `TypeCorrect`, `LinkedAtMostOnce`, `ListsMatchState`, `NothingDangles`, `HandoffHolds`, `MutexesExclude`, `WaitersHaveAnOwner`, `TimedWaitOutcome`, `KeysAreStable`, `RunLeaves`, `DestroyLeaves` |
| `CoChannelProofs` | `ChanInv` | `NobodyWaitsForNothing`, `OkIsDone`, `ChannelIsFifo` |
| `CoIoProofs` | `RegInv`, `IoInv` | `ContextStaysAlive`, `NoEventIsLost`, `TimeoutOrEvent`, `IoCountIsExact` |
| `CoIocpSteps` | `SocketInv` | `NoSocketIsLost` |
| `CoIocpProofs` | `IocpInv` | `OverlappedStaysAlive`, `OneReasonToResume`, `IocpCountIsExact`, `NoPacketIsDropped`, `RunWaitsForOperations` |
| `CoxxProofs` | `LayerInv` with `SyncInv`, `AliveInv` | `LayerImplementsSync`, `TokensFreedIdle`, `LayerNeverBlocks`, `NoLostNotification`, `JoinWaitsForBody`, `TasksHaveACoroutine` |

The scheduler. `CoSchedulerProofs` has the lemmas on duplicate-free sequences (append,
take the head, remove) and shows for each action of `CoScheduler` that it preserves
`SchedInv` (lists against state, one timer each, control). The lemmas say nothing of
what else is in the wait queues or in other variables, so each module above uses them for
its own specification. `PoolInv` adds that each stack in use belongs to one coroutine that is
not FREE, and, for sleeps, that the sampled time is never ahead of the clock and that a
timer belongs to a coroutine that waits. Which free block malloc returns is left open
(`Malloc` is an arbitrary CHOOSE).

Mutexes and conditions. The properties are not inductive as they stand. That a coroutine
is in one list needs to know that a coroutine which joins a list is in none, hence what
`state`, the current position and the kind of call say about the lists. That a timeout
and a signal exclude each other needs to know, for each phase of a wait, which list the
coroutine is in, whether it has a timer, what `cond_wait_queue` and `timed_out` are.
`SyncInv` collects this: `SchedInv`, `ListInv` and `WaitInv` (each call and its phase),
`MutexInv` (a free mutex has no owner, no holder and no waiter). It is checked by the run
`sync_liveness`. `TimeoutXorSignal` has two parts: `WokenByOneOf` follows from `SyncInv`;
that the outcome is kept while the call waits for the mutex (`OutcomeKept`) is shown step by
step, because `SyncInv` puts a coroutine in `co_mutex_lock` in no condition's queue and
gives it no timer. `RunLeaves` and `DestroyLeaves` rest on the lemma `LeftBehind`, which says
where a coroutine is that is neither ready nor in the heap; `NoFaultInv` adds that without
failed context switches none of them is marked RUNNING.

Channels. `RingInv` says that `count` messages lie from `head` on and that `tail` is
behind them, modulo the capacity; `CallInv` that who is in a queue of the channel is in
the call that put it there, and that who has left it was served or the channel is closed;
and `NobodyWaitsInVain` is part of the invariant, because it decides which branch of the
other call runs. For the refinement the abstract buffer is the ring read from `head`,
followed by the messages of the blocked senders in their order. The lemmas on
the ring say what one more message, one less, and one of each (a receive that takes in a
blocked sender's message) do to that sequence, for any capacity.

epoll. `RegInv` holds whatever fails: a registration or an event that is not delivered yet
belongs to a coroutine inside `co_wait_io` for that descriptor. `ContextStaysAlive` follows
with no assumption; `NoEventIsLost` has one waiter for each descriptor
(`OneWaiterPerFd`). `IoInv` says of each wait in progress what its timer, `io_waiting`,
`timed_out` and `revents` are, and counts; it assumes that descriptors whose waits can fail are used
without a timeout (`TimedFd \cap FailingFd = {}`), since `io_dangling` shows that the code
leaves the timer behind otherwise. A poll wakes several coroutines in any order: the
proof adds a duplicate-free sequence of them to the ready queue.

Completion port. `SocketInv` holds whatever fails: an open socket is the client's or that
of one `co_accept`. `IocpInv` adds the state of each operation in flight (`FlightInv`: the
kernel has it or the port has its one packet, never both), of its timer and the
second wait (`TimerWaitInv`), the table (`TableInv`) and the counter, under
`OrderlyUse`: sockets used with a timeout do not fail, handle values are not given again,
and the table has room. The first is the omission of `io_dangling`, the second
is what `iocp_reuse` is about, the third is the limit at `iomux_iocp.c:274`. `NoPacketIsDropped` and
`RunWaitsForOperations` also assume that no context switch fails: a
coroutine that is lost to a failed switch keeps the state RUNNING, and its packet then
finds nobody waiting.

The C++ wrapper. `LayerInv` says
that a locked mutex is that of the function that client code is executing (`LockInv`),
so that nobody suspends with one; that who is suspended waits on the condition
variable of the object whose function it is in (`CallInv`, `WaiterInv`); and what
tokens, handles and `done` say of each other (`UseInv`, `TaskInv`, `HandleInv`,
`DoneInv`), from `CoxxAssumption` (each object has its own mutex and condition variable).
The two levels need each other: that a coroutine does not return with a mutex
comes from `LayerInv`, and that the queues and owners mean what `LayerInv` takes them to
mean comes from `SyncInv`. One step therefore shows from both that a step of the
wrapper is a step of `CoSync` (`LayerRules`), which preserves `SyncInv` by the core's
lemma, and that it preserves `LayerInv` (`LayerNext`). `LayerImplementsSync` is the
refinement, which carries every theorem about the core over to the wrapper.
`TasksHaveACoroutine` needs more: `AliveInv` says that the trampoline sets `done` before it
lets go of its token, and that a finished coroutine has none, so that a handle that is not
done still has its coroutine.

Most leaves are for Zenon, which each proof module makes the default; a leaf that needs
arithmetic, records or functions by value names SMT.

Only model-checked:

* all liveness (`ReadyRuns`, `SleeperRuns`, `LockAcquires`, `TimedWaitReturns`,
  `CloseReleases`, `TimedCallReturns`, `ServedIfPolled`): fairness and ENABLED are out of
  the prover's reach;
* the two data structures at the level of pointers and slots (`ImplementsSequences`,
  `ImplementsSet`): a list is read by following pointers and the heap is repaired by
  sifting, both of them recursion over data, which the prover cannot do;
* the findings, which are counterexamples.

`PoolInv`, `ChanInv`, `LayerInv`, `AliveInv`, `RegInv`, `IoInv`, `SocketInv` and `IocpInv` were checked with TLC on
the instances of the runs before they were proved; being theorems, they are not listed as
properties of the runs.

## Not modelled

* The allocator table (`co_allocator.c`): function pointers around malloc that no other
  part calls.
* Contexts below the transfer of control: registers, stack layout and trampolines of
  `platform/*/context.c` and the assembly behind them; a switch is a step that may fail.
* The destroy functions of mutexes, conditions, channels, the heap and the multiplexers:
  they free an object that by their assertions nobody uses. That the wrapper respects
  these assertions is `FreedIdle`.
* `co_iomux_del` of the completion port, which no code calls, and `co_iomux_mod`, which
  does nothing.
* `co::Mutex`, `co::CondVar`, `co::Channel` and `co::UniqueChannel`, which forward each
  call to one C call; the exception that `join` throws again; the bytes that sockets and
  channels move; statistics.
* Examples and benchmarks.
