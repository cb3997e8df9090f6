----------------------------- MODULE CoScheduler -----------------------------
(***************************************************************************)
(* The cooperative scheduler of libco: co_scheduler.c and co_routine.c.    *)
(*                                                                         *)
(* One thread runs everything.  Control is either in the main program      *)
(* (pc = "idle"), in the loop of co_scheduler_run, or in the coroutine     *)
(* `current` (pc = "coroutine"), and moves between the last two only by    *)
(* co_context_swap.  What is nondeterministic is the clock, the outcome of *)
(* memory allocation and of a context switch, and what the code of a       *)
(* coroutine calls next.                                                   *)
(*                                                                         *)
(* A member of Routine is the address of a co_routine_t block: it is FREE, *)
(* or allocated by co_spawn, and may be allocated again after it is freed. *)
(* All the intrusive lists that a coroutine's single queue_node can be     *)
(* linked in are kept in one variable, `queue`: the ready queue and the    *)
(* wait queues of the synchronisation objects.  The timer heap is the bag  *)
(* of the routine pointers it holds; its order is that of wakeup_time,     *)
(* which lives in the routine and not in the heap.                         *)
(*                                                                         *)
(* The modules that model mutexes, condition variables, channels and I/O   *)
(* extend this one; the fields they share with the scheduler loop          *)
(* (cond_wait_queue, timed_out, io_waiting, waiting_io_count) are declared *)
(* here.                                                                   *)
(***************************************************************************)
EXTENDS Integers, Sequences, FiniteSets, Functions

CONSTANTS Routine,       \* addresses of co_routine_t blocks
          NoRoutine,     \* NULL
          Ready,         \* &sched->ready_queue
          WaitQueue,     \* the wait queues of the synchronisation objects
          NoQueue,       \* NULL
          SleepTimes,    \* the non-zero durations clients pass, in ms
          MaxTime,       \* bound on the clock
          SwapMayFail,   \* may co_context_swap into a coroutine fail?
          PushMayFail    \* may co_timer_heap_push fail to grow the heap?

ASSUME QueueAssumption ==
  /\ Ready \notin WaitQueue
  /\ NoQueue \notin WaitQueue
  /\ NoRoutine \notin Routine
ASSUME TimeAssumption ==
  /\ MaxTime \in Nat
  /\ SleepTimes \subseteq Nat \ {0}
ASSUME FaultAssumption ==
  /\ SwapMayFail \in BOOLEAN
  /\ PushMayFail \in BOOLEAN

VARIABLES
  state,       \* routine->state, or "FREE" for a block that is not allocated
  queue,       \* the intrusive lists, as sequences of routines
  heap,        \* sched->timer_heap: how many entries point to each routine
  wakeup,      \* routine->wakeup_time
  condQ,       \* routine->cond_wait_queue
  timedOut,    \* routine->timed_out
  ioWaiting,   \* routine->io_waiting
  waitingIo,   \* sched->waiting_io_count
  active,      \* sched->active_routines
  current,     \* sched->current
  pc,          \* where the thread is
  now,         \* the local variable of co_scheduler_run
  clock        \* the monotonic clock

fieldVars == <<wakeup, condQ, timedOut, ioWaiting, waitingIo>>
schedVars == <<state, queue, heap, fieldVars, active, current, pc, now, clock>>

Queue == {Ready} \cup WaitQueue

(* "FREE" stands for memory that co_spawn has not allocated or that was    *)
(* freed; the others are the values of co_state_t.                         *)
State == {"FREE", "READY", "RUNNING", "WAITING", "DEAD"}

(* idle: no co_scheduler_run is active; loop: top of its while loop;       *)
(* timers: in the loop over expired timers; poll: in co_iomux_poll;        *)
(* recheck: behind the poll; schedule: about to call co_scheduler_schedule;*)
(* coroutine: inside the coroutine `current`; back: co_context_swap just   *)
(* returned to the scheduler.                                              *)
Location == {"idle", "loop", "timers", "poll", "recheck", "schedule",
             "coroutine", "back", "destroyed"}

HeapEmpty == \A r \in Routine : heap[r] = 0

------------------------------------------------------------------------------
(* co_queue_remove on the list s.                                          *)
Unlink(s, r) ==
  LET i == CHOOSE j \in DOMAIN s : s[j] = r
  IN  IF r \in Range(s) THEN SubSeq(s, 1, i - 1) \o SubSeq(s, i + 1, Len(s)) ELSE s

(* Mutant: the routine is put at the front of the ready queue.             *)
EnqueueInFront(q, r) == [q EXCEPT ![Ready] = <<r>> \o @]

(* The whole effect of co_scheduler_enqueue on the lists q.                *)
Enqueue(q, r) == [q EXCEPT ![Ready] = Append(@, r)]

(* co_context_swap from the coroutine to main_ctx: control is behind the   *)
(* swap in co_scheduler_schedule, which still holds `current`.             *)
SwapToMain == pc' = "back" /\ UNCHANGED current

------------------------------------------------------------------------------
(* The main program and co_scheduler_run.                                  *)

SchedInit ==
  /\ state = [r \in Routine |-> "FREE"]
  /\ queue = [q \in Queue |-> <<>>]
  /\ heap = [r \in Routine |-> 0]
  /\ wakeup = [r \in Routine |-> 0]
  /\ condQ = [r \in Routine |-> NoQueue]
  /\ timedOut = [r \in Routine |-> FALSE]
  /\ ioWaiting = [r \in Routine |-> FALSE]
  /\ waitingIo = 0
  /\ active = 0
  /\ current = NoRoutine
  /\ pc = "idle"
  /\ now = 0
  /\ clock = 0

RunStart ==
  /\ pc = "idle"
  /\ pc' = "loop"
  /\ UNCHANGED <<state, queue, heap, fieldVars, active, current, now, clock>>

SampleNow ==
  /\ pc = "loop"
  /\ now' = clock
  /\ pc' = "timers"
  /\ UNCHANGED <<state, queue, heap, fieldVars, active, current, clock>>

(* Mutant: a deadline counts as passed one millisecond early.              *)
ExpiredEarly(r) ==
  /\ pc = "timers"
  /\ heap[r] > 0
  /\ wakeup[r] <= now + 1
  /\ \A s \in Routine : heap[s] > 0 => wakeup[r] <= wakeup[s]

(* r is at the top of the heap and its time has come.                      *)
Expired(r) ==
  /\ pc = "timers"
  /\ heap[r] > 0
  /\ wakeup[r] <= now
  /\ \A s \in Routine : heap[s] > 0 => wakeup[r] <= wakeup[s]

HeapPop(r) == heap' = [heap EXCEPT ![r] = @ - 1]

(* A routine that a signal or an I/O event has already woken: dropped.     *)
TimerStale(r) ==
  /\ Expired(r)
  /\ state[r] # "WAITING"
  /\ HeapPop(r)
  /\ UNCHANGED <<state, queue, fieldVars, active, current, pc, now, clock>>

(* Mutant: the coroutine is not taken out of the condition's queue.        *)
TimerCondStaysQueued(r) ==
  /\ Expired(r)
  /\ state[r] = "WAITING"
  /\ condQ[r] # NoQueue
  /\ HeapPop(r)
  /\ queue' = Enqueue(queue, r)
  /\ state' = [state EXCEPT ![r] = "READY"]
  /\ timedOut' = [timedOut EXCEPT ![r] = TRUE]
  /\ condQ' = [condQ EXCEPT ![r] = NoQueue]
  /\ UNCHANGED <<wakeup, ioWaiting, waitingIo, active, current, pc, now, clock>>

(* The timeout of co_cond_timedwait.                                       *)
TimerCond(r) ==
  /\ Expired(r)
  /\ state[r] = "WAITING"
  /\ condQ[r] # NoQueue
  /\ HeapPop(r)
  /\ queue' = Enqueue([queue EXCEPT ![condQ[r]] = Unlink(@, r)], r)
  /\ state' = [state EXCEPT ![r] = "READY"]
  /\ timedOut' = [timedOut EXCEPT ![r] = TRUE]
  /\ condQ' = [condQ EXCEPT ![r] = NoQueue]
  /\ UNCHANGED <<wakeup, ioWaiting, waitingIo, active, current, pc, now, clock>>

(* Mutant: a waiter that timed out is still counted.                       *)
TimerIoKeepsCount(r) ==
  /\ Expired(r)
  /\ state[r] = "WAITING"
  /\ condQ[r] = NoQueue
  /\ ioWaiting[r]
  /\ HeapPop(r)
  /\ queue' = Enqueue(queue, r)
  /\ state' = [state EXCEPT ![r] = "READY"]
  /\ timedOut' = [timedOut EXCEPT ![r] = TRUE]
  /\ ioWaiting' = [ioWaiting EXCEPT ![r] = FALSE]
  /\ UNCHANGED <<wakeup, condQ, waitingIo, active, current, pc, now, clock>>

(* The timeout of a socket operation; waiting_io_count is unsigned, a      *)
(* negative value stands for one that has wrapped.                         *)
TimerIo(r) ==
  /\ Expired(r)
  /\ state[r] = "WAITING"
  /\ condQ[r] = NoQueue
  /\ ioWaiting[r]
  /\ HeapPop(r)
  /\ queue' = Enqueue(queue, r)
  /\ state' = [state EXCEPT ![r] = "READY"]
  /\ timedOut' = [timedOut EXCEPT ![r] = TRUE]
  /\ ioWaiting' = [ioWaiting EXCEPT ![r] = FALSE]
  /\ waitingIo' = waitingIo - 1
  /\ UNCHANGED <<wakeup, condQ, active, current, pc, now, clock>>

(* The end of a co_sleep.                                                  *)
TimerSleep(r) ==
  /\ Expired(r)
  /\ state[r] = "WAITING"
  /\ condQ[r] = NoQueue
  /\ ~ioWaiting[r]
  /\ HeapPop(r)
  /\ queue' = Enqueue(queue, r)
  /\ state' = [state EXCEPT ![r] = "READY"]
  /\ UNCHANGED <<fieldVars, active, current, pc, now, clock>>

(* No timer is due: schedule, wait in the poller, or go on to the check    *)
(* that ends the run.                                                      *)
TimersDone ==
  /\ pc = "timers"
  /\ \A r \in Routine : heap[r] > 0 => wakeup[r] > now
  /\ pc' = IF queue[Ready] # <<>> THEN "schedule"
           ELSE IF waitingIo # 0 \/ ~HeapEmpty THEN "poll"
           ELSE "recheck"
  /\ UNCHANGED <<state, queue, heap, fieldVars, active, current, now, clock>>

(* co_iomux_poll returns without an event because the time computed from   *)
(* the top of the heap has passed, or because a signal interrupted it.     *)
PollTimeout ==
  /\ pc = "poll"
  /\ \E r \in Routine : heap[r] > 0 /\ wakeup[r] <= clock
  /\ pc' = "recheck"
  /\ UNCHANGED <<state, queue, heap, fieldVars, active, current, now, clock>>

PollInterrupted ==
  /\ pc = "poll"
  /\ pc' = "recheck"
  /\ UNCHANGED <<state, queue, heap, fieldVars, active, current, now, clock>>

(* Mutant: the run ends although timers are left.                          *)
RecheckIgnoresTimers ==
  /\ pc = "recheck"
  /\ pc' = IF queue[Ready] = <<>> THEN "idle" ELSE "loop"
  /\ UNCHANGED <<state, queue, heap, fieldVars, active, current, now, clock>>

(* Behind the poll: the run ends when nothing is ready and no timer is     *)
(* left.                                                                   *)
Recheck ==
  /\ pc = "recheck"
  /\ pc' = IF queue[Ready] = <<>> /\ HeapEmpty THEN "idle" ELSE "loop"
  /\ UNCHANGED <<state, queue, heap, fieldVars, active, current, now, clock>>

(* co_scheduler_schedule up to the switch, and a switch that succeeds.     *)
Schedule ==
  /\ pc = "schedule"
  /\ queue' = [queue EXCEPT ![Ready] = Tail(@)]
  /\ current' = Head(queue[Ready])
  /\ state' = [state EXCEPT ![Head(queue[Ready])] = "RUNNING"]
  /\ pc' = "coroutine"
  /\ UNCHANGED <<heap, fieldVars, active, now, clock>>

(* The switch fails (CreateFiberEx on the first switch on Windows,         *)
(* swapcontext on Linux): co_scheduler_run returns the error.              *)
ScheduleError ==
  /\ SwapMayFail
  /\ pc = "schedule"
  /\ queue' = [queue EXCEPT ![Ready] = Tail(@)]
  /\ state' = [state EXCEPT ![Head(queue[Ready])] = "RUNNING"]
  /\ current' = NoRoutine
  /\ pc' = "idle"
  /\ UNCHANGED <<heap, fieldVars, active, now, clock>>

(* co_scheduler_schedule behind the switch: a dead coroutine is destroyed  *)
(* and freed.                                                              *)
SwitchBack ==
  /\ pc = "back"
  /\ current' = NoRoutine
  /\ state' = IF state[current] = "DEAD"
              THEN [state EXCEPT ![current] = "FREE"]
              ELSE state
  /\ pc' = "loop"
  /\ UNCHANGED <<queue, heap, fieldVars, active, now, clock>>

(* Mutant: only the ready queue is emptied.                                *)
DestroyReadyOnly ==
  /\ pc = "idle"
  /\ state' = [r \in Routine |->
                 IF r \in Range(queue[Ready]) THEN "FREE" ELSE state[r]]
  /\ queue' = [queue EXCEPT ![Ready] = <<>>]
  /\ heap' = [r \in Routine |-> 0]
  /\ pc' = "destroyed"
  /\ UNCHANGED <<fieldVars, active, current, now, clock>>

(* co_scheduler_destroy frees the routines of the ready queue, then those  *)
(* of the timer heap.                                                      *)
Destroy ==
  /\ pc = "idle"
  /\ state' = [r \in Routine |->
                 IF r \in Range(queue[Ready]) \/ heap[r] > 0
                 THEN "FREE" ELSE state[r]]
  /\ queue' = [queue EXCEPT ![Ready] = <<>>]
  /\ heap' = [r \in Routine |-> 0]
  /\ pc' = "destroyed"
  /\ UNCHANGED <<fieldVars, active, current, now, clock>>

Tick ==
  /\ clock < MaxTime
  /\ pc # "destroyed"
  /\ clock' = clock + 1
  /\ UNCHANGED <<state, queue, heap, fieldVars, active, current, pc, now>>

------------------------------------------------------------------------------
(* What a coroutine (and, for co_spawn, the main program) can call.        *)

(* co_spawn: calloc clears every field, then the routine is enqueued.  A   *)
(* failed allocation changes nothing here.                                 *)
Spawn(r) ==
  /\ pc \in {"idle", "coroutine"}
  /\ state[r] = "FREE"
  /\ state' = [state EXCEPT ![r] = "READY"]
  /\ queue' = Enqueue(queue, r)
  /\ wakeup' = [wakeup EXCEPT ![r] = 0]
  /\ condQ' = [condQ EXCEPT ![r] = NoQueue]
  /\ timedOut' = [timedOut EXCEPT ![r] = FALSE]
  /\ ioWaiting' = [ioWaiting EXCEPT ![r] = FALSE]
  /\ active' = active + 1
  /\ UNCHANGED <<heap, waitingIo, current, pc, now, clock>>

(* co_yield_now, and co_sleep(0).                                          *)
Yield ==
  /\ pc = "coroutine"
  /\ queue' = Enqueue(queue, current)
  /\ state' = [state EXCEPT ![current] = "READY"]
  /\ SwapToMain
  /\ UNCHANGED <<heap, fieldVars, active, now, clock>>

Sleep(d) ==
  /\ pc = "coroutine"
  /\ clock + d <= MaxTime
  /\ wakeup' = [wakeup EXCEPT ![current] = clock + d]
  /\ state' = [state EXCEPT ![current] = "WAITING"]
  /\ heap' = [heap EXCEPT ![current] = @ + 1]
  /\ SwapToMain
  /\ UNCHANGED <<queue, condQ, timedOut, ioWaiting, waitingIo, active, now, clock>>

(* co_sleep when the heap cannot grow: it returns CO_ERROR_NOMEM to the    *)
(* coroutine, whose state it has set to READY although it keeps running.   *)
SleepNoMem(d) ==
  /\ PushMayFail
  /\ pc = "coroutine"
  /\ clock + d <= MaxTime
  /\ wakeup' = [wakeup EXCEPT ![current] = clock + d]
  /\ state' = [state EXCEPT ![current] = "READY"]
  /\ UNCHANGED <<queue, heap, condQ, timedOut, ioWaiting, waitingIo, active,
                 current, pc, now, clock>>

(* The entry function returns: co_routine_entry_wrapper calls              *)
(* co_routine_finish.                                                      *)
Finish ==
  /\ pc = "coroutine"
  /\ state' = [state EXCEPT ![current] = "DEAD"]
  /\ active' = active - 1
  /\ SwapToMain
  /\ UNCHANGED <<queue, heap, fieldVars, now, clock>>

------------------------------------------------------------------------------
(* One turn of the scheduler loop.                                         *)
SchedulerStep ==
  \/ SampleNow
  \/ \E r \in Routine : \/ TimerStale(r)
                        \/ TimerCond(r)
                        \/ TimerIo(r)
                        \/ TimerSleep(r)
  \/ TimersDone
  \/ PollTimeout
  \/ Recheck
  \/ Schedule
  \/ SwitchBack

(* What may happen to the scheduler and need not.                          *)
Fault == PollInterrupted \/ ScheduleError

Suspend == Yield \/ (\E d \in SleepTimes : Sleep(d)) \/ Finish

(* The scheduler is gone; only leaked routines are left.                   *)
Gone == pc = "destroyed" /\ UNCHANGED schedVars

SchedNext ==
  \/ SchedulerStep
  \/ Fault
  \/ RunStart
  \/ Destroy
  \/ Tick
  \/ \E r \in Routine : Spawn(r)
  \/ Suspend
  \/ \E d \in SleepTimes : SleepNoMem(d)
  \/ Gone

SchedSpec == SchedInit /\ [][SchedNext]_schedVars

(* The loop of co_scheduler_run keeps going, time passes, and the code of  *)
(* a coroutine does not run for ever without a call that suspends it (the  *)
(* scheduler is not preemptive).  Nothing is assumed about interrupts,     *)
(* about the main program or about which call a coroutine makes.           *)
SchedFairness ==
  /\ WF_schedVars(SchedulerStep)
  /\ WF_schedVars(Tick)
  /\ WF_schedVars(Suspend)

SchedFairSpec == SchedSpec /\ SchedFairness

------------------------------------------------------------------------------
(* Properties.                                                             *)

SchedTypeOK ==
  /\ state \in [Routine -> State]
  /\ queue \in [Queue -> Seq(Routine)]
  /\ heap \in [Routine -> Nat]
  /\ wakeup \in [Routine -> Nat]
  /\ condQ \in [Routine -> WaitQueue \cup {NoQueue}]
  /\ timedOut \in [Routine -> BOOLEAN]
  /\ ioWaiting \in [Routine -> BOOLEAN]
  /\ waitingIo \in Int
  /\ active \in Int
  /\ current \in Routine \cup {NoRoutine}
  /\ pc \in Location
  /\ now \in Nat
  /\ clock \in Nat

(* A routine's one queue_node is linked in at most one list, at one place: *)
(* what the comment at the head of co_mutex.c relies on when every wait    *)
(* queue and the ready queue reuse it.                                     *)
NodeLinkedOnce ==
  /\ \A q \in Queue : IsInjective(queue[q])
  /\ \A p, q \in Queue, r \in Routine :
       r \in Range(queue[p]) /\ r \in Range(queue[q]) => p = q

(* The state field agrees with the lists: the ready queue holds READY      *)
(* routines, a wait queue WAITING ones, and the routine whose code is      *)
(* executing is linked nowhere.                                            *)
StateMatchesLists ==
  pc # "destroyed" =>
    \A r \in Routine :
      /\ r \in Range(queue[Ready]) => state[r] = "READY"
      /\ \A q \in WaitQueue : r \in Range(queue[q]) => state[r] = "WAITING"
      /\ state[r] = "READY" => \/ r \in Range(queue[Ready])
                               \/ pc = "coroutine" /\ r = current
      /\ pc = "coroutine" /\ r = current => \A q \in Queue : r \notin Range(queue[q])

(* No list, no heap entry and not sched->current points to a block that    *)
(* has been freed, and a finished coroutine is in none of them when        *)
(* co_scheduler_schedule frees it.  What co_scheduler_destroy frees and    *)
(* leaves is the subject of FreedOnce and DestroyLeavesBlocked.            *)
NoDanglingPointer ==
  pc # "destroyed" =>
    \A r \in Routine : state[r] \in {"FREE", "DEAD"} =>
      /\ heap[r] = 0
      /\ \A q \in Queue : r \notin Range(queue[q])
      /\ r = current => state[r] = "DEAD" /\ pc = "back"

(* A routine has at most one entry in the timer heap, so that the one      *)
(* co_timer_heap_remove of a woken waiter leaves none behind.              *)
OneTimerEach == \A r \in Routine : heap[r] <= 1

(* The key of an entry never changes while the entry is in the heap: the   *)
(* heap of co_timer.c keeps pointers and compares routine->wakeup_time, so *)
(* a change behind its back would break its order.                         *)
TimerKeyStable ==
  [][\A r \in Routine : heap[r] > 0 /\ heap'[r] > 0 => wakeup'[r] = wakeup[r]]_schedVars

(* A coroutine in co_sleep does not wake before its time.                  *)
Sleeping(r) ==
  /\ state[r] = "WAITING"
  /\ heap[r] > 0
  /\ condQ[r] = NoQueue
  /\ ~ioWaiting[r]

SleepNotShort ==
  [][\A r \in Routine : Sleeping(r) /\ state'[r] = "READY" => wakeup[r] <= clock]_schedVars

(* When co_scheduler_destroy can be called, nobody is both in the ready    *)
(* queue and in the timer heap, whose coroutines it frees one after the    *)
(* other ("Destroy all unfinished coroutines", "Destroy all sleeping       *)
(* coroutines").  Without a failed switch the heap is empty then; with one *)
(* this does not hold (run sync_destroy).                                  *)
FreedOnce ==
  pc = "idle" => \A r \in Routine : heap[r] > 0 => r \notin Range(queue[Ready])

(* The rest of the inductive invariant: where control is, ...              *)
ControlInv ==
  /\ pc \in {"coroutine", "back"} <=> current # NoRoutine
  /\ pc = "coroutine" => state[current] \in {"RUNNING", "READY"}
  /\ pc = "schedule" => queue[Ready] # <<>>
  /\ \A r \in Routine : state[r] = "DEAD" => pc = "back" /\ r = current

(* ... and what the timer handler finds: a routine with a condition's      *)
(* queue is in it, and any other waiting routine with a timer is in no     *)
(* list, so that it can be linked in the ready queue.                      *)
TimerInv ==
  pc # "destroyed" =>
    \A r \in Routine :
      /\ condQ[r] # NoQueue => r \in Range(queue[condQ[r]])
      /\ heap[r] > 0 /\ state[r] = "WAITING" /\ condQ[r] = NoQueue
           => \A q \in Queue : r \notin Range(queue[q])

SchedInv ==
  /\ SchedTypeOK
  /\ NodeLinkedOnce
  /\ StateMatchesLists
  /\ NoDanglingPointer
  /\ OneTimerEach
  /\ ControlInv
  /\ TimerInv

(* What is left of it when timers may outlive the calls that set them, as  *)
(* those of socket calls that fail do.                                     *)
ControlOK ==
  /\ SchedTypeOK
  /\ pc = "coroutine" => current \in Routine
  /\ pc = "schedule" => queue[Ready] # <<>>
  /\ \A r \in Routine : condQ[r] = NoQueue

(* While co_scheduler_run is active, a ready coroutine gets to run.        *)
ReadyRuns ==
  \A r \in Routine :
    (pc # "idle" /\ r \in Range(queue[Ready])) ~> (pc = "coroutine" /\ current = r)

(* While co_scheduler_run is active, a sleeping coroutine is resumed: the  *)
(* run does not end before it, and no other coroutine can starve it.       *)
SleeperRuns ==
  \A r \in Routine :
    (pc # "idle" /\ Sleeping(r)) ~> (pc = "coroutine" /\ current = r)
==============================================================================
