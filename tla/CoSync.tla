------------------------------- MODULE CoSync -------------------------------
(***************************************************************************)
(* Mutexes and condition variables (sync/co_mutex.c, sync/co_cond.c) on    *)
(* top of the scheduler.                                                   *)
(*                                                                         *)
(* A mutex or condition variable is named by its wait queue.  co_current() *)
(* is NULL outside a coroutine, so NoRoutine stands for the main program   *)
(* where the code records the caller.  A call that suspends is two steps:  *)
(* up to co_context_swap, and from the point where the coroutine is        *)
(* resumed; `call` remembers which call a suspended coroutine is in.       *)
(*                                                                         *)
(* Client code is arbitrary but follows the rules of the API: it unlocks   *)
(* or waits with a mutex that a lock call of its own has given it, does    *)
(* not lock again a mutex it has, and does not return from its entry       *)
(* function with one.                                                      *)
(***************************************************************************)
EXTENDS CoScheduler

CONSTANTS Mutex, Cond

ASSUME SyncAssumption ==
  /\ Mutex \subseteq WaitQueue
  /\ Cond \subseteq WaitQueue
  /\ Mutex \cap Cond = {}

VARIABLES
  locked,      \* mutex->locked
  owner,       \* mutex->owner
  call,        \* the call each coroutine is suspended in
  held,        \* client's view: who has been given each mutex
  signalled    \* history: was the last wait ended by signal or broadcast?

syncVars == <<locked, owner, call, held, signalled>>
vars == <<schedVars, syncVars>>

NoCall == [op |-> "none", mutex |-> NoQueue]
InLock(m) == [op |-> "lock", mutex |-> m]
InWait(m) == [op |-> "wait", mutex |-> m]
InTimedWait(m) == [op |-> "timedwait", mutex |-> m]

Call == [op : {"none", "lock", "wait", "timedwait"}, mutex : Mutex \cup {NoQueue}]

(* The code of the main program or of a coroutine is executing, outside    *)
(* any call of the library.                                                *)
InClientCode ==
  \/ pc = "idle"
  \/ pc = "coroutine" /\ call[current] = NoCall

InCoroutineCode == pc = "coroutine" /\ call[current] = NoCall

(* The coroutine goes to sleep in the list q.                              *)
Block(lists, q) == [lists EXCEPT ![q] = Append(@, current)]

SyncInit ==
  /\ SchedInit
  /\ locked = [m \in Mutex |-> FALSE]
  /\ owner = [m \in Mutex |-> NoRoutine]
  /\ call = [r \in Routine |-> NoCall]
  /\ held = [m \in Mutex |-> {}]
  /\ signalled = [r \in Routine |-> FALSE]

------------------------------------------------------------------------------
(* Mutexes.                                                                *)

(* Mutant: the mutex is not tested.                                        *)
TakeMutexUntested(m) ==
  /\ locked' = [locked EXCEPT ![m] = TRUE]
  /\ owner' = [owner EXCEPT ![m] = current]
  /\ held' = [held EXCEPT ![m] = @ \cup {current}]

(* The mutex is free: co_mutex_lock, in or outside a coroutine, and        *)
(* co_mutex_trylock take it.  A failed attempt (CO_ERROR_BUSY) changes     *)
(* nothing.                                                                *)
TakeMutex(m) ==
  /\ ~locked[m]
  /\ locked' = [locked EXCEPT ![m] = TRUE]
  /\ owner' = [owner EXCEPT ![m] = current]
  /\ held' = [held EXCEPT ![m] = @ \cup {current}]

TryLock(m) ==
  /\ InClientCode
  /\ TakeMutex(m)
  /\ UNCHANGED <<schedVars, call, signalled>>

(* The mutex is taken: the coroutine waits for it.                         *)
WaitForMutex(m) ==
  /\ locked[m]
  /\ state' = [state EXCEPT ![current] = "WAITING"]
  /\ queue' = Block(queue, m)
  /\ call' = [call EXCEPT ![current] = InLock(m)]
  /\ SwapToMain
  /\ UNCHANGED <<locked, owner, held>>

Lock(m) ==
  /\ InCoroutineCode
  /\ current \notin held[m]
  /\ WaitForMutex(m)
  /\ UNCHANGED <<heap, fieldVars, active, now, clock, signalled>>

(* co_mutex_lock resumes: by the assertion at its end it owns the mutex.   *)
LockReturn(m) ==
  /\ pc = "coroutine"
  /\ call[current] = InLock(m)
  /\ call' = [call EXCEPT ![current] = NoCall]
  /\ held' = [held EXCEPT ![m] = @ \cup {current}]
  /\ UNCHANGED <<schedVars, locked, owner, signalled>>

(* Mutants: the mutex is freed and its first waiter only woken; it is      *)
(* freed and nobody woken.                                                 *)
ReleaseWithoutHandoff(m, q, st) ==
  /\ locked' = [locked EXCEPT ![m] = FALSE]
  /\ owner' = [owner EXCEPT ![m] = NoRoutine]
  /\ \/ q[m] = <<>> /\ queue' = q /\ state' = st
     \/ /\ q[m] # <<>>
        /\ state' = [st EXCEPT ![Head(q[m])] = "READY"]
        /\ queue' = Enqueue([q EXCEPT ![m] = Tail(@)], Head(q[m]))
ReleaseWakesNobody(m, q, st) ==
  /\ locked' = [locked EXCEPT ![m] = FALSE]
  /\ owner' = [owner EXCEPT ![m] = NoRoutine]
  /\ queue' = q
  /\ state' = st

(* co_mutex_unlock, from the lists q and the states st: the mutex becomes  *)
(* free, or goes straight to the first waiter.                             *)
Release(m, q, st) ==
  \/ /\ q[m] = <<>>
     /\ locked' = [locked EXCEPT ![m] = FALSE]
     /\ owner' = [owner EXCEPT ![m] = NoRoutine]
     /\ queue' = q
     /\ state' = st
  \/ /\ q[m] # <<>>
     /\ owner' = [owner EXCEPT ![m] = Head(q[m])]
     /\ state' = [st EXCEPT ![Head(q[m])] = "READY"]
     /\ queue' = Enqueue([q EXCEPT ![m] = Tail(@)], Head(q[m]))
     /\ UNCHANGED locked

Unlock(m) ==
  /\ InClientCode
  /\ current \in held[m]
  /\ Release(m, queue, state)
  /\ held' = [held EXCEPT ![m] = @ \ {current}]
  /\ UNCHANGED <<heap, fieldVars, active, current, pc, now, clock, call, signalled>>

------------------------------------------------------------------------------
(* Condition variables.                                                    *)

CondWait(c, m) ==
  /\ InCoroutineCode
  /\ current \in held[m]
  /\ Release(m, Block(queue, c), [state EXCEPT ![current] = "WAITING"])
  /\ held' = [held EXCEPT ![m] = @ \ {current}]
  /\ call' = [call EXCEPT ![current] = InWait(m)]
  /\ signalled' = [signalled EXCEPT ![current] = FALSE]
  /\ SwapToMain
  /\ UNCHANGED <<heap, fieldVars, active, now, clock>>

(* Mutants: timed_out of an earlier wait is not reset; no timer is set.    *)
TimedWaitKeepsFlag(c, m, d) ==
  /\ InCoroutineCode
  /\ current \in held[m]
  /\ clock + d <= MaxTime
  /\ condQ' = [condQ EXCEPT ![current] = c]
  /\ wakeup' = [wakeup EXCEPT ![current] = clock + d]
  /\ heap' = [heap EXCEPT ![current] = @ + 1]
  /\ Release(m, Block(queue, c), [state EXCEPT ![current] = "WAITING"])
  /\ held' = [held EXCEPT ![m] = @ \ {current}]
  /\ call' = [call EXCEPT ![current] = InTimedWait(m)]
  /\ signalled' = [signalled EXCEPT ![current] = FALSE]
  /\ SwapToMain
  /\ UNCHANGED <<timedOut, ioWaiting, waitingIo, active, now, clock>>
TimedWaitWithoutTimer(c, m, d) ==
  /\ InCoroutineCode
  /\ current \in held[m]
  /\ clock + d <= MaxTime
  /\ condQ' = [condQ EXCEPT ![current] = c]
  /\ timedOut' = [timedOut EXCEPT ![current] = FALSE]
  /\ wakeup' = [wakeup EXCEPT ![current] = clock + d]
  /\ Release(m, Block(queue, c), [state EXCEPT ![current] = "WAITING"])
  /\ held' = [held EXCEPT ![m] = @ \ {current}]
  /\ call' = [call EXCEPT ![current] = InTimedWait(m)]
  /\ signalled' = [signalled EXCEPT ![current] = FALSE]
  /\ SwapToMain
  /\ UNCHANGED <<heap, ioWaiting, waitingIo, active, now, clock>>

TimedWait(c, m, d) ==
  /\ InCoroutineCode
  /\ current \in held[m]
  /\ clock + d <= MaxTime
  /\ condQ' = [condQ EXCEPT ![current] = c]
  /\ timedOut' = [timedOut EXCEPT ![current] = FALSE]
  /\ wakeup' = [wakeup EXCEPT ![current] = clock + d]
  /\ heap' = [heap EXCEPT ![current] = @ + 1]
  /\ Release(m, Block(queue, c), [state EXCEPT ![current] = "WAITING"])
  /\ held' = [held EXCEPT ![m] = @ \ {current}]
  /\ call' = [call EXCEPT ![current] = InTimedWait(m)]
  /\ signalled' = [signalled EXCEPT ![current] = FALSE]
  /\ SwapToMain
  /\ UNCHANGED <<ioWaiting, waitingIo, active, now, clock>>

(* Mutant: cond_wait_queue is left set.                                    *)
TimedWaitNoMemKeepsQueue(m, d) ==
  /\ PushMayFail
  /\ InCoroutineCode
  /\ current \in held[m]
  /\ clock + d <= MaxTime
  /\ state' = [state EXCEPT ![current] = "READY"]
  /\ condQ' = [condQ EXCEPT ![current] = CHOOSE c \in Cond : TRUE]
  /\ timedOut' = [timedOut EXCEPT ![current] = FALSE]
  /\ wakeup' = [wakeup EXCEPT ![current] = clock + d]
  /\ UNCHANGED <<queue, heap, ioWaiting, waitingIo, active, current, pc, now,
                 clock, syncVars>>

(* The heap cannot grow: the registration is undone and the call returns   *)
(* CO_ERROR_NOMEM with the mutex still held.                               *)
TimedWaitNoMem(m, d) ==
  /\ PushMayFail
  /\ InCoroutineCode
  /\ current \in held[m]
  /\ clock + d <= MaxTime
  /\ state' = [state EXCEPT ![current] = "READY"]
  /\ condQ' = [condQ EXCEPT ![current] = NoQueue]
  /\ timedOut' = [timedOut EXCEPT ![current] = FALSE]
  /\ wakeup' = [wakeup EXCEPT ![current] = clock + d]
  /\ UNCHANGED <<queue, heap, ioWaiting, waitingIo, active, current, pc, now,
                 clock, syncVars>>

(* The co_mutex_lock at the end of both waits; the call returns when the   *)
(* mutex is free and waits for it otherwise.                               *)
Reacquire(m) ==
  \/ /\ TakeMutex(m)
     /\ call' = [call EXCEPT ![current] = NoCall]
     /\ UNCHANGED <<state, queue, current, pc>>
  \/ WaitForMutex(m)

WaitResume(m) ==
  /\ pc = "coroutine"
  /\ call[current] = InWait(m)
  /\ Reacquire(m)
  /\ UNCHANGED <<heap, fieldVars, active, now, clock, signalled>>

(* Mutant: the timer of a signalled wait is left in the heap.              *)
TimedWaitResumeKeepsTimer(m) ==
  /\ pc = "coroutine"
  /\ call[current] = InTimedWait(m)
  /\ Reacquire(m)
  /\ UNCHANGED <<heap, fieldVars, active, now, clock, signalled>>

(* A wait that did not time out removes its timer first.                   *)
TimedWaitResume(m) ==
  /\ pc = "coroutine"
  /\ call[current] = InTimedWait(m)
  /\ heap' = IF timedOut[current] \/ heap[current] = 0 THEN heap
             ELSE [heap EXCEPT ![current] = @ - 1]
  /\ Reacquire(m)
  /\ UNCHANGED <<fieldVars, active, now, clock, signalled>>

Signal(c) ==
  /\ InClientCode
  /\ queue[c] # <<>>
  /\ LET waiter == Head(queue[c]) IN
       /\ queue' = Enqueue([queue EXCEPT ![c] = Tail(@)], waiter)
       /\ condQ' = [condQ EXCEPT ![waiter] = NoQueue]
       /\ state' = [state EXCEPT ![waiter] = "READY"]
       /\ signalled' = [signalled EXCEPT ![waiter] = TRUE]
  /\ UNCHANGED <<heap, wakeup, timedOut, ioWaiting, waitingIo, active, current,
                 pc, now, clock, locked, owner, call, held>>

Broadcast(c) ==
  /\ InClientCode
  /\ queue[c] # <<>>
  /\ LET waiters == Range(queue[c])
         drained == [queue EXCEPT ![c] = <<>>]
         Wake(f, v) == [r \in Routine |-> IF r \in waiters THEN v ELSE f[r]] IN
       /\ queue' = [drained EXCEPT ![Ready] = @ \o queue[c]]
       /\ condQ' = Wake(condQ, NoQueue)
       /\ state' = Wake(state, "READY")
       /\ signalled' = Wake(signalled, TRUE)
  /\ UNCHANGED <<heap, wakeup, timedOut, ioWaiting, waitingIo, active, current,
                 pc, now, clock, locked, owner, call, held>>

------------------------------------------------------------------------------
(* Scheduler calls of client code.                                         *)
ClientSuspend == InCoroutineCode /\ (Yield \/ \E d \in SleepTimes : Sleep(d))
ClientFinish == InCoroutineCode /\ (\A m \in Mutex : current \notin held[m]) /\ Finish
ClientSpawn(r) == InClientCode /\ Spawn(r)
ClientSleepNoMem(d) == InCoroutineCode /\ SleepNoMem(d)

(* The resumed half of a suspended call.                                   *)
Resume == \E m \in Mutex : LockReturn(m) \/ WaitResume(m) \/ TimedWaitResume(m)

SyncStep ==
  \/ Resume
  \/ \E m \in Mutex : TryLock(m) \/ Lock(m) \/ Unlock(m)
  \/ \E c \in Cond : Signal(c) \/ Broadcast(c)
  \/ \E c \in Cond, m \in Mutex : CondWait(c, m)
  \/ \E c \in Cond, m \in Mutex, d \in SleepTimes : TimedWait(c, m, d)
  \/ \E m \in Mutex, d \in SleepTimes : TimedWaitNoMem(m, d)

SchedStep ==
  /\ \/ SchedulerStep
     \/ Fault
     \/ RunStart
     \/ Destroy
     \/ Tick
     \/ \E r \in Routine : ClientSpawn(r)
     \/ ClientSuspend
     \/ ClientFinish
     \/ \E d \in SleepTimes : ClientSleepNoMem(d)
     \/ Gone
  /\ UNCHANGED syncVars

Next == SyncStep \/ SchedStep
Spec == SyncInit /\ [][Next]_vars

(* The scheduler's fairness, and for the clients: a coroutine that runs    *)
(* again and again with a mutex releases it at some point.                 *)
Fairness ==
  /\ WF_vars(SchedulerStep /\ UNCHANGED syncVars)
  /\ WF_vars(Tick /\ UNCHANGED syncVars)
  /\ WF_vars(Resume)
  /\ WF_vars((ClientSuspend \/ ClientFinish) /\ UNCHANGED syncVars)
  /\ \A r \in Routine, m \in Mutex : SF_vars(current = r /\ Unlock(m))

FairSpec == Spec /\ Fairness

------------------------------------------------------------------------------
(* Properties.                                                             *)

SyncTypeOK ==
  /\ SchedTypeOK
  /\ locked \in [Mutex -> BOOLEAN]
  /\ owner \in [Mutex -> Routine \cup {NoRoutine}]
  /\ call \in [Routine -> Call]
  /\ held \in [Mutex -> SUBSET (Routine \cup {NoRoutine})]
  /\ signalled \in [Routine -> BOOLEAN]

(* The assertion at co_mutex.c:85: when a coroutine that waited in         *)
(* co_mutex_lock runs again, the mutex is locked and is its own.           *)
HandoffAssertion ==
  \A m \in Mutex :
    pc = "coroutine" /\ call[current] = InLock(m) => locked[m] /\ owner[m] = current

(* No two clients have been given the same mutex, and the owner the code   *)
(* records is the client that has it.                                      *)
MutualExclusion ==
  \A m \in Mutex : \A x \in held[m] : locked[m] /\ owner[m] = x

(* Nobody waits for a mutex that is free: unlock hands over instead of     *)
(* releasing, and no late waiter slips in between.                         *)
NoWaiterOnFreeMutex ==
  \A m \in Mutex : queue[m] # <<>> => locked[m]

(* The two halves of TimeoutXorSignal.                                     *)
WokenByOneOf ==
  \A r \in Routine :
    call[r].op = "timedwait" /\ (\A c \in Cond : r \notin Range(queue[c])) =>
      timedOut[r] = ~signalled[r]

OutcomeKept ==
  \A r \in Routine :
    call[r].op = "lock" => timedOut'[r] = timedOut[r] /\ signalled'[r] = signalled[r]

(* The outcome of co_cond_timedwait: once the coroutine has left the       *)
(* condition's queue, timed_out says that the timer, and not a signal, has *)
(* woken it; and while it then waits in co_mutex_lock for a contended      *)
(* mutex, neither changes.  So when the call returns, a signal that picked *)
(* the coroutine is not reported as a timeout nor a timeout as a signal.   *)
(* In the initial state there is no call yet, so that this is all states.  *)
TimeoutXorSignal == [][WokenByOneOf' /\ OutcomeKept]_vars

(* When co_scheduler_run returns normally, every coroutine it leaves       *)
(* behind is blocked in a queue that only another client can wake: none    *)
(* is ready, none has a timer.                                             *)
RunLeavesOnlyBlocked ==
  [][pc = "recheck" /\ pc' = "idle" =>
       \A r \in Routine :
         /\ heap[r] = 0
         /\ state[r] \in {"FREE", "WAITING", "RUNNING"}
         /\ state[r] = "RUNNING" => SwapMayFail
         /\ state[r] = "WAITING" => \E q \in WaitQueue : r \in Range(queue[q])]_vars

(* What co_scheduler_destroy leaks, if co_scheduler_run has ended, has     *)
(* returned an error or was not called: coroutines that are blocked in the *)
(* queue of a synchronisation object and have no timer, and those that a   *)
(* failed context switch has lost.  All others are freed.                  *)
DestroyLeavesBlocked ==
  [][pc = "idle" /\ pc' = "destroyed" =>
       \A r \in Routine : state'[r] # "FREE" =>
         /\ heap[r] = 0
         /\ \/ \E q \in WaitQueue : r \in Range(queue'[q])
            \/ SwapMayFail /\ state[r] = "RUNNING"]_vars

(* The inductive invariant.  Of a coroutine: which list its call has it    *)
(* in, and what its timer, its condition's queue pointer and timed_out are *)
(* in each phase of the call.                                              *)
OnCond(r) == \E c \in Cond : r \in Range(queue[c])

ListInv(r) ==
  /\ call[r].op = "none" <=> call[r].mutex = NoQueue
  /\ \A m \in Mutex : r \in Range(queue[m]) => call[r].op = "lock" /\ call[r].mutex = m
  /\ OnCond(r) => call[r].op \in {"wait", "timedwait"}
  /\ call[r].op = "lock" =>
       \/ r \in Range(queue[call[r].mutex])
       \/ locked[call[r].mutex] /\ owner[call[r].mutex] = r
  /\ call[r].op = "timedwait" =>
       IF OnCond(r) THEN ~timedOut[r] /\ ~signalled[r] ELSE timedOut[r] = ~signalled[r]

WaitInv(r) ==
  /\ state[r] \in {"FREE", "DEAD"} => call[r].op = "none"
  /\ state[r] = "WAITING" =>
       CASE call[r].op = "none" -> heap[r] = 1
         [] call[r].op = "lock" -> r \in Range(queue[call[r].mutex])
         [] OTHER -> OnCond(r)
  /\ heap[r] > 0 => \/ call[r].op = "none" /\ state[r] = "WAITING"
                    \/ call[r].op = "timedwait" /\ ~timedOut[r]
  /\ condQ[r] # NoQueue => condQ[r] \in Cond /\ call[r].op = "timedwait"
  /\ call[r].op = "timedwait" /\ OnCond(r) => condQ[r] # NoQueue /\ heap[r] = 1

(* Of a mutex: a free one has no owner and no waiter, and only the owner   *)
(* can have been given it.                                                 *)
MutexInv(m) ==
  /\ ~locked[m] => owner[m] = NoRoutine /\ held[m] = {} /\ queue[m] = <<>>
  /\ \A x \in held[m] : x = owner[m]

SyncInv ==
  /\ SchedInv
  /\ SyncTypeOK
  /\ \A r \in Routine : ListInv(r)
  /\ pc # "destroyed" => \A r \in Routine : WaitInv(r)
  /\ \A m \in Mutex : MutexInv(m)

(* When no context switch fails, co_scheduler_run returns only at the end  *)
(* of its loop: with no timer left and no coroutine marked RUNNING.        *)
NoFaultInv ==
  ~SwapMayFail =>
    /\ pc = "idle" => HeapEmpty
    /\ \A r \in Routine : state[r] = "RUNNING" => pc = "coroutine" /\ r = current

(* While the scheduler runs, a coroutine that waits in co_mutex_lock for a *)
(* mutex another coroutine holds gets it.                                  *)
LockAcquires ==
  \A r \in Routine, m \in Mutex :
    (pc \notin {"idle", "destroyed"} /\ r \in Range(queue[m]) /\ owner[m] \in Routine) ~> (r \in held[m])

(* co_cond_timedwait returns, with the mutex, whether or not anybody       *)
(* signals.                                                                *)
TimedWaitReturns ==
  \A r \in Routine, m \in Mutex : (call[r] = InTimedWait(m)) ~> (r \in held[m])
==============================================================================
