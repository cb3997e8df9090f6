---------------------------- MODULE CoSyncProofs -----------------------------
(***************************************************************************)
(* SyncInv is an invariant of the scheduler with mutexes and condition     *)
(* variables, for any number of coroutines, mutexes and conditions, any    *)
(* durations and with every fault; the safety properties of CoSync follow  *)
(* from it.                                                                *)
(*                                                                         *)
(* First what the steps have in common: SyncInv in pieces, and when a step *)
(* that touches only some routines or mutexes preserves it.  Then that the *)
(* steps of the scheduler loop, the scheduler calls of client code, and    *)
(* the steps of co_mutex.c and of co_cond.c preserve it.                   *)
(***************************************************************************)
EXTENDS CoSync, CoSchedulerProofs

(* The leaves that name no other prover are for Zenon.                     *)
USE ZenonT(30)

(* SyncInv before co_scheduler_destroy, in pieces.                         *)
LEMMA SyncFacts ==
  ASSUME SyncInv, pc # "destroyed"
  PROVE  /\ SchedInv /\ SyncTypeOK /\ SchedTypeOK /\ ControlInv /\ queue \in Lists
         /\ \A r \in Routine : RoutineOK(r) /\ ListInv(r) /\ WaitInv(r)
         /\ \A m \in Mutex : MutexInv(m)
  BY SplitInv DEF SyncInv

LEMMA QueueFacts ==
  /\ Ready \in Queue
  /\ \A q \in WaitQueue : q \in Queue /\ q # Ready /\ q # NoQueue
  /\ \A q \in Queue : q = Ready \/ q \in WaitQueue
  /\ \A m \in Mutex : m \in WaitQueue /\ m \notin Cond
  /\ \A c \in Cond : c \in WaitQueue /\ c \notin Mutex
  BY QueueAssumption, SyncAssumption DEF Queue

LEMMA CallFacts ==
  ASSUME SyncTypeOK, NEW r \in Routine
  PROVE  /\ call[r].op \in {"none", "lock", "wait", "timedwait"}
         /\ call[r].mutex \in Mutex \cup {NoQueue}
         /\ call[r] = NoCall <=> call[r].op = "none" /\ call[r].mutex = NoQueue
         /\ \A m : call[r] = InLock(m) <=> call[r].op = "lock" /\ call[r].mutex = m
         /\ \A m : call[r] = InWait(m) <=> call[r].op = "wait" /\ call[r].mutex = m
         /\ \A m : call[r] = InTimedWait(m) <=> call[r].op = "timedwait" /\ call[r].mutex = m
<1>1. call[r] \in Call
  BY DEF SyncTypeOK
<1> QED BY SMT, <1>1 DEF Call, NoCall, InLock, InWait, InTimedWait

(* A coroutine that runs client code has no timer.                         *)
LEMMA ClientHasNoTimer ==
  ASSUME SyncInv, InCoroutineCode
  PROVE  heap[current] = 0 /\ current \in Routine /\ call[current].op = "none"
<1>1. /\ SchedTypeOK /\ ControlInv /\ pc = "coroutine" /\ SyncTypeOK
      /\ \A r \in Routine : WaitInv(r)
  BY SyncFacts DEF InCoroutineCode
<1>2. current \in Routine /\ state[current] \in {"RUNNING", "READY"}
  BY <1>1 DEF ControlInv, SchedTypeOK
<1>3. call[current].op = "none"
  BY SMT, <1>1, <1>2 DEF InCoroutineCode, NoCall
<1>4. heap[current] \in Nat /\ ~(heap[current] > 0)
  BY <1>1, <1>2, <1>3 DEF WaitInv, SchedTypeOK
<1> QED BY SMT, <1>2, <1>3, <1>4

------------------------------------------------------------------------------
(* What a step that leaves a routine, or a mutex, alone preserves.         *)

LEMMA SameListInv ==
  ASSUME NEW s \in Routine, ListInv(s), SyncTypeOK,
         call'[s] = call[s], signalled'[s] = signalled[s],
         timedOut'[s] = timedOut[s] \/ call[s].op # "timedwait",
         \A q \in WaitQueue : s \in Range(queue'[q]) <=> s \in Range(queue[q]),
         \A m \in Mutex : locked[m] /\ owner[m] = s => locked'[m] /\ owner'[m] = s
  PROVE  ListInv(s)'
<1>1. OnCond(s)' <=> OnCond(s)
  BY QueueFacts DEF OnCond
<1>2. call[s].mutex \in Mutex \cup {NoQueue}
  BY CallFacts
<1>3. call[s].op = "lock" => call[s].mutex \in Mutex /\ call[s].mutex \in WaitQueue
  BY <1>2, QueueFacts DEF ListInv
<1>4. call'[s].op = call[s].op /\ call'[s].mutex = call[s].mutex
  BY SMT
<1>5. \A m \in Mutex : s \in Range(queue'[m]) <=> s \in Range(queue[m])
  BY QueueFacts
<1> QED BY <1>1, <1>3, <1>4, <1>5 DEF ListInv

LEMMA SameWaitInv ==
  ASSUME NEW s \in Routine, WaitInv(s), ListInv(s), SyncTypeOK,
         call'[s] = call[s], state'[s] = state[s], heap'[s] = heap[s],
         condQ'[s] = condQ[s],
         timedOut'[s] = timedOut[s] \/ call[s].op # "timedwait",
         \A q \in WaitQueue : s \in Range(queue'[q]) <=> s \in Range(queue[q])
  PROVE  WaitInv(s)'
<1>1. OnCond(s)' <=> OnCond(s)
  BY QueueFacts DEF OnCond
<1>2. call[s].mutex \in Mutex \cup {NoQueue}
  BY CallFacts
<1>3. call[s].op = "lock" => call[s].mutex \in Mutex /\ call[s].mutex \in WaitQueue
  BY <1>2, QueueFacts DEF ListInv
<1>4. call'[s].op = call[s].op /\ call'[s].mutex = call[s].mutex
  BY SMT
<1> QED BY <1>1, <1>3, <1>4 DEF WaitInv

LEMMA SameMutexInv ==
  ASSUME NEW m \in Mutex, MutexInv(m),
         locked'[m] = locked[m], owner'[m] = owner[m], held'[m] = held[m],
         queue'[m] = queue[m]
  PROVE  MutexInv(m)'
  BY DEF MutexInv

------------------------------------------------------------------------------
(* The steps of the scheduler.                                             *)

LEMMA SchedKeeps ==
  ASSUME SyncInv, SchedInv', UNCHANGED syncVars,
         \A q \in WaitQueue : queue'[q] = queue[q],
         \A s \in Routine : timedOut'[s] = timedOut[s] \/ call[s].op # "timedwait",
         pc' # "destroyed" => \A s \in Routine : WaitInv(s)'
  PROVE  SyncInv'
<1>1. SyncTypeOK'
  BY DEF SyncInv, SyncTypeOK, SchedInv, syncVars
<1>2. ASSUME NEW s \in Routine PROVE ListInv(s)'
  <2>1. ListInv(s) /\ SyncTypeOK
    BY DEF SyncInv
  <2>2. call' = call /\ signalled' = signalled /\ locked' = locked /\ owner' = owner
    BY DEF syncVars
  <2> QED BY <2>1, <2>2, SameListInv
<1>3. ASSUME NEW m \in Mutex PROVE MutexInv(m)'
  BY SameMutexInv, QueueFacts DEF SyncInv, syncVars
<1> QED BY <1>1, <1>2, <1>3 DEF SyncInv

(* A step of the scheduler that touches at most the routine r.             *)
LEMMA SchedTouches ==
  ASSUME SyncInv, SchedInv', UNCHANGED syncVars, pc # "destroyed",
         NEW r,
         \A q \in WaitQueue : queue'[q] = queue[q],
         \A s \in Routine : s # r => /\ state'[s] = state[s]
                                     /\ heap'[s] = heap[s]
                                     /\ condQ'[s] = condQ[s]
                                     /\ timedOut'[s] = timedOut[s],
         r \in Routine => WaitInv(r)' /\ (timedOut'[r] = timedOut[r] \/ call[r].op # "timedwait")
  PROVE  SyncInv'
<1>1. \A s \in Routine : timedOut'[s] = timedOut[s] \/ call[s].op # "timedwait"
  BY SMT
<1>2. ASSUME NEW s \in Routine PROVE WaitInv(s)'
  <2>1. CASE s = r
    BY <2>1
  <2>2. CASE s # r
    <3>1. WaitInv(s) /\ ListInv(s) /\ SyncTypeOK /\ call'[s] = call[s]
      BY SyncFacts DEF syncVars
    <3> QED BY <2>2, <3>1, SameWaitInv
  <2> QED BY <2>1, <2>2
<1> QED BY <1>1, <1>2, SchedKeeps

(* A step that touches the routines of T and any mutexes.                  *)
LEMMA SyncTouches ==
  ASSUME SyncInv, SchedInv', SyncTypeOK', pc # "destroyed",
         NEW T \in SUBSET Routine,
         \A s \in Routine : s \notin T =>
           /\ call'[s] = call[s] /\ signalled'[s] = signalled[s]
           /\ timedOut'[s] = timedOut[s] /\ state'[s] = state[s]
           /\ heap'[s] = heap[s] /\ condQ'[s] = condQ[s]
           /\ \A q \in WaitQueue : s \in Range(queue'[q]) <=> s \in Range(queue[q])
           /\ \A m \in Mutex : locked[m] /\ owner[m] = s => locked'[m] /\ owner'[m] = s,
         \A s \in T : ListInv(s)' /\ WaitInv(s)',
         \A m \in Mutex : MutexInv(m)'
  PROVE  SyncInv'
<1>1. ASSUME NEW s \in Routine PROVE ListInv(s)' /\ WaitInv(s)'
  <2>1. CASE s \in T
    BY <2>1
  <2>2. CASE s \notin T
    <3>1. SyncTypeOK /\ ListInv(s) /\ WaitInv(s)
      BY SyncFacts
    <3>2. ListInv(s)'
      BY <2>2, <3>1, SameListInv
    <3>3. WaitInv(s)'
      BY <2>2, <3>1, SameWaitInv
    <3> QED BY <3>2, <3>3
  <2> QED BY <2>1, <2>2
<1> QED BY <1>1 DEF SyncInv

(* What the running coroutine's lists and pointers are.                    *)
LEMMA RunningFacts ==
  ASSUME SyncInv, pc = "coroutine"
  PROVE  /\ current \in Routine /\ state[current] \in {"RUNNING", "READY"}
         /\ Unlinked(queue, current) /\ condQ[current] = NoQueue
         /\ \A q \in WaitQueue : current \notin Range(queue[q])
<1>1. /\ SchedTypeOK /\ ControlInv /\ \A r \in Routine : RoutineOK(r)
  BY SyncFacts
<1>2. current \in Routine /\ state[current] \in {"RUNNING", "READY"} /\ Unlinked(queue, current)
  BY <1>1 DEF ControlInv, SchedTypeOK, RoutineOK
<1>3. \A q \in WaitQueue : current \notin Range(queue[q])
  BY <1>2, QueueFacts DEF Unlinked
<1>4. condQ[current] \in WaitQueue \cup {NoQueue}
  BY <1>1, <1>2 DEF SchedTypeOK
<1> QED BY <1>1, <1>2, <1>3, <1>4 DEF RoutineOK

------------------------------------------------------------------------------
(* The steps of the scheduler loop and of client code.                     *)


LEMMA SyncQuiet ==
  ASSUME SyncInv, UNCHANGED syncVars,
         RunStart \/ SampleNow \/ TimersDone \/ PollTimeout \/ PollInterrupted \/ Recheck \/ Tick
  PROVE  SyncInv'
<1>1. SchedInv'
  BY LoopSteps, TickStep DEF SyncInv
<1>2. UNCHANGED <<state, queue, heap, condQ, timedOut>> /\ pc # "destroyed"
  BY
     DEF RunStart, SampleNow, TimersDone, PollTimeout, PollInterrupted, Recheck, Tick, fieldVars
<1>3. ASSUME NEW s \in Routine PROVE WaitInv(s)'
  BY <1>2, SyncFacts DEF WaitInv, OnCond, syncVars
<1> QED BY <1>1, <1>2, <1>3, SchedKeeps

LEMMA SyncTimerStale ==
  ASSUME SyncInv, UNCHANGED syncVars, NEW r \in Routine, TimerStale(r)
  PROVE  SyncInv'
<1>1. SchedInv' /\ pc # "destroyed"
  BY TimerStaleStep DEF SyncInv, TimerStale, Expired
<1>2. /\ UNCHANGED <<state, queue, condQ, timedOut, call>>
      /\ heap' = [heap EXCEPT ![r] = heap[r] - 1] /\ heap[r] > 0 /\ state[r] # "WAITING"
  BY DEF TimerStale, Expired, HeapPop, fieldVars, syncVars
<1>3. /\ heap \in [Routine -> Nat] /\ RoutineOK(r) /\ WaitInv(r)
  BY <1>1, SyncFacts DEF SchedTypeOK
<1>4. heap'[r] = heap[r] - 1 /\ heap[r] \in Nat /\ \A s \in Routine : s # r => heap'[s] = heap[s]
  BY <1>2, <1>3
<1>5. ~OnCond(r)
  BY <1>2, <1>3, QueueFacts DEF RoutineOK, OnCond
<1>6. OnCond(r)' <=> OnCond(r)
  BY <1>2 DEF OnCond
<1>7. WaitInv(r)'
  BY <1>2, <1>3, <1>4, <1>5, <1>6 DEF WaitInv
<1> QED BY <1>1, <1>2, <1>4, <1>7, SchedTouches

LEMMA SyncTimerReady ==
  ASSUME SyncInv, UNCHANGED syncVars, NEW r \in Routine, TimerIo(r) \/ TimerSleep(r)
  PROVE  SyncInv'
<1>1. SchedInv' /\ pc # "destroyed"
  BY TimerIoStep, TimerSleepStep DEF SyncInv, TimerIo, TimerSleep, Expired
<1>2. /\ UNCHANGED <<condQ, call>> /\ heap[r] > 0 /\ HeapPop(r)
      /\ state[r] = "WAITING" /\ condQ[r] = NoQueue
      /\ state' = With(state, r, "READY") /\ queue' = Pushed(queue, Ready, r)
      /\ timedOut' \in {timedOut, With(timedOut, r, TRUE)}
  BY DEF TimerIo, TimerSleep, Expired, fieldVars, syncVars, With, Pushed, Enqueue
<1>3. SchedTypeOK /\ SyncTypeOK /\ WaitInv(r) /\ ListInv(r) /\ RoutineOK(r)
  BY <1>1, SyncFacts
<1>4. call[r].op = "none" /\ heap[r] = 1
  BY <1>2, <1>3, CallFacts DEF WaitInv
<1>5. \A q \in WaitQueue : queue'[q] = queue[q]
  BY <1>2, <1>3, QueueFacts DEF Pushed, SchedTypeOK
<1>6. \A s \in Routine : /\ state'[s] = IF s = r THEN "READY" ELSE state[s]
                         /\ s # r => heap'[s] = heap[s] /\ timedOut'[s] = timedOut[s]
  BY <1>2, <1>3 DEF With, HeapPop, SchedTypeOK
<1>7. heap'[r] = 0
  BY SMT, <1>2, <1>3, <1>4 DEF HeapPop, SchedTypeOK
<1>8. WaitInv(r)'
  BY SMT, <1>2, <1>4, <1>6, <1>7 DEF WaitInv
<1> QED BY <1>1, <1>2, <1>4, <1>5, <1>6, <1>8, SchedTouches

LEMMA SyncSchedule ==
  ASSUME SyncInv, UNCHANGED syncVars, Schedule \/ ScheduleError
  PROVE  SyncInv'
<1>1. SchedInv' /\ pc = "schedule"
  BY ScheduleStep DEF SyncInv, Schedule, ScheduleError
<1>2. SchedTypeOK /\ ControlInv /\ queue \in Lists /\ \A r \in Routine : RoutineOK(r) /\ WaitInv(r)
  BY <1>1, SyncFacts
<1>3. PICK h \in Routine : h = Head(queue[Ready]) /\ h \in Range(queue[Ready])
  BY <1>1, <1>2, PopFront, QueueFacts DEF ControlInv
<1>4. /\ UNCHANGED <<heap, condQ, timedOut, call>>
      /\ queue' = Popped(queue, Ready) /\ state' = With(state, h, "RUNNING")
  BY <1>3 DEF Schedule, ScheduleError, fieldVars, syncVars, Popped, With
<1>5. \A q \in WaitQueue : queue'[q] = queue[q]
  BY <1>2, <1>4, QueueFacts DEF Popped, SchedTypeOK
<1>6. \A s \in Routine : state'[s] = IF s = h THEN "RUNNING" ELSE state[s]
  BY <1>2, <1>4 DEF With, SchedTypeOK
<1>7. state[h] = "READY"
  BY <1>2, <1>3 DEF RoutineOK
<1>8. OnCond(h)' <=> OnCond(h)
  BY <1>5, QueueFacts DEF OnCond
<1>9. WaitInv(h)'
  BY <1>2, <1>4, <1>6, <1>7, <1>8 DEF WaitInv
<1> QED BY <1>1, <1>4, <1>5, <1>6, <1>9, SchedTouches

LEMMA SyncSwitchBack ==
  ASSUME SyncInv, UNCHANGED syncVars, SwitchBack
  PROVE  SyncInv'
<1>1. SchedInv' /\ pc = "back"
  BY SwitchBackStep DEF SyncInv, SwitchBack
<1>2. UNCHANGED <<queue, heap, condQ, timedOut, call>>
  BY DEF SwitchBack, fieldVars, syncVars
<1>3. SchedTypeOK /\ \A r \in Routine : WaitInv(r)
  BY <1>1, SyncFacts
<1>4. \A s \in Routine :
        state'[s] = IF s = current /\ state[s] = "DEAD" THEN "FREE" ELSE state[s]
  BY <1>3 DEF SwitchBack, SchedTypeOK
<1>5. ASSUME NEW s \in Routine PROVE WaitInv(s)'
  <2>1. OnCond(s)' <=> OnCond(s)
    BY <1>2 DEF OnCond
  <2> QED BY <1>2, <1>3, <1>4, <2>1 DEF WaitInv
<1> QED BY <1>1, <1>2, <1>5, SchedKeeps

LEMMA SyncDestroy ==
  ASSUME SyncInv, UNCHANGED syncVars, Destroy
  PROVE  SyncInv'
<1>1. SchedInv' /\ pc' = "destroyed" /\ timedOut' = timedOut
  BY DestroyStep DEF SyncInv, Destroy, fieldVars
<1>2. \A q \in WaitQueue : queue'[q] = queue[q]
  BY QueueFacts DEF Destroy, SyncInv, SyncTypeOK, SchedTypeOK
<1> QED BY <1>1, <1>2, SchedKeeps

LEMMA SyncTimerCond ==
  ASSUME SyncInv, UNCHANGED syncVars, NEW r \in Routine, TimerCond(r)
  PROVE  SyncInv'
<1>1. SchedInv' /\ pc = "timers" /\ pc' = pc
  BY TimerCondStep DEF SyncInv, TimerCond, Expired
<1>2. /\ SchedTypeOK /\ SyncTypeOK /\ queue \in Lists
      /\ \A s \in Routine : RoutineOK(s) /\ ListInv(s) /\ WaitInv(s)
      /\ \A m \in Mutex : MutexInv(m)
  BY <1>1, SyncFacts
<1>3. PICK c \in Cond : c = condQ[r]
  BY <1>2 DEF TimerCond, WaitInv
<1>4. /\ heap[r] > 0 /\ HeapPop(r) /\ queue' = Pushed(Removed(queue, c, r), Ready, r)
      /\ state' = With(state, r, "READY") /\ timedOut' = With(timedOut, r, TRUE)
      /\ condQ' = With(condQ, r, NoQueue) /\ UNCHANGED <<call, signalled, locked, owner, held>>
  BY <1>3 DEF TimerCond, Expired, With, Pushed, Enqueue, Removed, syncVars
<1>5. call[r].op = "timedwait" /\ OnCond(r) /\ r \in Range(queue[c])
  BY <1>2, <1>3, QueueFacts DEF WaitInv, OnCond, RoutineOK
<1>6. /\ \A q \in WaitQueue : q # c => queue'[q] = queue[q]
      /\ queue'[c] = Removed(queue, c, r)[c]
  BY <1>2, <1>4, QueueFacts DEF Pushed, Removed, SchedTypeOK
<1>7. Range(queue'[c]) = Range(queue[c]) \ {r}
  BY SMTT(30), <1>2, <1>5, <1>6, RemoveFrom, QueueFacts
<1>8. \A q \in WaitQueue : r \notin Range(queue'[q])
  BY <1>2, <1>5, <1>6, <1>7, QueueFacts DEF Lists, LinkedOnce
<1>9. \A s \in Routine : /\ state'[s] = IF s = r THEN "READY" ELSE state[s]
                         /\ timedOut'[s] = IF s = r THEN TRUE ELSE timedOut[s]
                         /\ condQ'[s] = IF s = r THEN NoQueue ELSE condQ[s]
                         /\ s # r => heap'[s] = heap[s]
  BY <1>2, <1>4 DEF With, HeapPop, SchedTypeOK
<1>10. heap'[r] = 0
  <2>1. heap[r] = 1
    BY <1>2, <1>5 DEF WaitInv
  <2> QED BY SMT, <1>2, <1>4, <2>1 DEF HeapPop, SchedTypeOK
<1>11. ~OnCond(r)'
  BY <1>8, QueueFacts DEF OnCond
<1>12. SyncTypeOK'
  BY <1>1, <1>2, <1>4 DEF SyncTypeOK, SchedInv
<1>13. ASSUME NEW s \in Routine PROVE ListInv(s)' /\ WaitInv(s)'
  <2>1. CASE s = r
    <3>0. timedOut'[r] = TRUE /\ signalled'[r] = FALSE /\ call'[r] = call[r]
      <4>1. ~signalled[r] /\ signalled[r] \in BOOLEAN
        BY <1>2, <1>5 DEF ListInv, SyncTypeOK
      <4> QED BY <1>4, <1>9, <4>1
    <3>1. ListInv(r)'
      <4>1. ListInv(r)
        BY <1>2
      <4>2. \A m \in Mutex : r \notin Range(queue'[m])
        BY <1>8, QueueFacts
      <4> QED BY <1>5, <1>11, <3>0, <4>1, <4>2 DEF ListInv
    <3>2. WaitInv(r)'
      <4>1. state'[r] = "READY" /\ condQ'[r] = NoQueue
        BY <1>9
      <4>2. ~(heap'[r] > 0)
        BY ONLY <1>10
      <4> QED BY <1>11, <4>1, <4>2 DEF WaitInv
    <3> QED BY <2>1, <3>1, <3>2
  <2>2. CASE s # r
    <3>1. /\ call'[s] = call[s] /\ signalled'[s] = signalled[s] /\ timedOut'[s] = timedOut[s]
          /\ state'[s] = state[s] /\ heap'[s] = heap[s] /\ condQ'[s] = condQ[s]
          /\ \A m \in Mutex : locked[m] /\ owner[m] = s => locked'[m] /\ owner'[m] = s
      BY <1>4, <1>9, <2>2
    <3>2. \A q \in WaitQueue : s \in Range(queue'[q]) <=> s \in Range(queue[q])
      BY <1>6, <1>7, <2>2
    <3>3. ListInv(s)'
      BY <1>2, <3>1, <3>2, SameListInv
    <3>4. WaitInv(s)'
      BY <1>2, <3>1, <3>2, SameWaitInv
    <3> QED BY <3>3, <3>4
  <2> QED BY <2>1, <2>2
<1>14. ASSUME NEW m \in Mutex PROVE MutexInv(m)'
  BY <1>2, <1>3, <1>4, <1>6, SameMutexInv, QueueFacts
<1> QED BY <1>1, <1>12, <1>13, <1>14 DEF SyncInv

LEMMA SyncSpawn ==
  ASSUME SyncInv, UNCHANGED syncVars, NEW r \in Routine, Spawn(r)
  PROVE  SyncInv'
<1>1. SchedInv' /\ pc # "destroyed"
  BY SpawnStep DEF SyncInv, Spawn
<1>2. SchedTypeOK /\ SyncTypeOK /\ queue \in Lists /\ WaitInv(r) /\ RoutineOK(r)
  BY <1>1, SyncFacts
<1>3. /\ state[r] = "FREE" /\ queue' = Pushed(queue, Ready, r)
      /\ state' = With(state, r, "READY") /\ condQ' = With(condQ, r, NoQueue)
      /\ timedOut' = With(timedOut, r, FALSE) /\ UNCHANGED <<heap, call>>
  BY DEF Spawn, Enqueue, Pushed, With, syncVars
<1>4. call[r].op = "none" /\ heap[r] = 0
  BY <1>2, <1>3 DEF WaitInv, RoutineOK
<1>5. \A q \in WaitQueue : queue'[q] = queue[q]
  BY <1>2, <1>3, QueueFacts DEF Pushed, SchedTypeOK
<1>6. \A s \in Routine : /\ state'[s] = IF s = r THEN "READY" ELSE state[s]
                         /\ condQ'[s] = IF s = r THEN NoQueue ELSE condQ[s]
                         /\ s # r => timedOut'[s] = timedOut[s]
  BY <1>2, <1>3 DEF With, SchedTypeOK
<1>7. WaitInv(r)'
  BY <1>2, <1>3, <1>4, <1>6 DEF WaitInv
<1> QED BY <1>1, <1>3, <1>4, <1>5, <1>6, <1>7, SchedTouches

LEMMA SyncClient ==
  ASSUME SyncInv, UNCHANGED syncVars, InCoroutineCode,
         \/ Yield \/ Finish
         \/ \E d \in SleepTimes : Sleep(d) \/ SleepNoMem(d)
  PROVE  SyncInv'
<1>1. heap[current] = 0 /\ current \in Routine /\ call[current].op = "none" /\ pc = "coroutine"
  BY ClientHasNoTimer DEF InCoroutineCode
<1>2. /\ SchedInv /\ SchedTypeOK /\ SyncTypeOK /\ queue \in Lists
      /\ WaitInv(current) /\ RoutineOK(current)
  BY <1>1, SyncFacts
<1>3. PICK r \in Routine : r = current
  BY <1>1
<1>4. /\ SchedInv'
      /\ UNCHANGED <<condQ, timedOut, call>>
      /\ \A q \in WaitQueue : queue'[q] = queue[q]
      /\ \A s \in Routine : s # r => state'[s] = state[s] /\ heap'[s] = heap[s]
      /\ \/ state'[r] \in {"READY", "DEAD"} /\ heap'[r] = 0
         \/ state'[r] = "WAITING" /\ heap'[r] = 1
  <2>1. CASE Yield
    <3>1. SchedInv'
      BY <1>2, <2>1, YieldStep
    <3>2. \A q \in WaitQueue : queue'[q] = queue[q]
      BY <1>2, <2>1, QueueFacts DEF Yield, Enqueue, SchedTypeOK
    <3> QED BY <1>1, <1>2, <1>3, <2>1, <3>1, <3>2
               DEF Yield, fieldVars, syncVars, SchedTypeOK
  <2>2. CASE Finish
    <3>1. SchedInv'
      BY <1>1, <1>2, <2>2, FinishStep
    <3> QED BY <1>1, <1>2, <1>3, <2>2, <3>1 DEF Finish, fieldVars, syncVars, SchedTypeOK
  <2>3. ASSUME NEW d \in SleepTimes, Sleep(d) PROVE <1>4!1 /\ <1>4!2 /\ <1>4!3 /\ <1>4!4 /\ <1>4!5
    <3>1. SchedInv'
      BY <1>1, <1>2, <2>3, SleepStep
    <3> QED BY SMTT(30), <1>1, <1>2, <1>3, <2>3, <3>1 DEF Sleep, syncVars, SchedTypeOK
  <2>4. ASSUME NEW d \in SleepTimes, SleepNoMem(d) PROVE <1>4!1 /\ <1>4!2 /\ <1>4!3 /\ <1>4!4 /\ <1>4!5
    <3>1. SchedInv'
      BY <1>1, <1>2, <2>4, SleepNoMemStep
    <3> QED BY <1>1, <1>2, <1>3, <2>4, <3>1 DEF SleepNoMem, syncVars, SchedTypeOK
  <2> QED BY <2>1, <2>2, <2>3, <2>4
<1>5. call[r].op = "none" /\ ~OnCond(r) /\ WaitInv(r)
  BY <1>1, <1>2, <1>3, QueueFacts DEF OnCond, RoutineOK, Unlinked
<1>6. WaitInv(r)'
  BY SMT, <1>4, <1>5 DEF WaitInv
<1> QED BY <1>1, <1>4, <1>5, <1>6, SchedTouches

------------------------------------------------------------------------------
(***************************************************************************)
(* The steps of co_mutex.c preserve SyncInv.                               *)
(***************************************************************************)

(* A mutex that is free is nobody's and has no waiters.                    *)
LEMMA FreeMutex ==
  ASSUME SyncInv, NEW m \in Mutex, ~locked[m], TakeMutex(m)
  PROVE  /\ MutexInv(m)' \/ queue'[m] # queue[m]
         /\ locked' \in [Mutex -> BOOLEAN]
         /\ owner' \in [Mutex -> Routine \cup {NoRoutine}]
         /\ held' \in [Mutex -> SUBSET (Routine \cup {NoRoutine})]
         /\ \A n \in Mutex : n # m =>
              locked'[n] = locked[n] /\ owner'[n] = owner[n] /\ held'[n] = held[n]
         /\ \A s : \A n \in Mutex : locked[n] /\ owner[n] = s => locked'[n] /\ owner'[n] = s
<1>1. /\ SyncTypeOK /\ current \in Routine \cup {NoRoutine} /\ MutexInv(m)
      /\ locked \in [Mutex -> BOOLEAN]
      /\ owner \in [Mutex -> Routine \cup {NoRoutine}]
      /\ held \in [Mutex -> SUBSET (Routine \cup {NoRoutine})]
  BY DEF SyncInv, SyncTypeOK, SchedTypeOK
<1>2. /\ locked' \in [Mutex -> BOOLEAN]
      /\ owner' \in [Mutex -> Routine \cup {NoRoutine}]
      /\ held' \in [Mutex -> SUBSET (Routine \cup {NoRoutine})]
  BY <1>1 DEF TakeMutex
<1>3. locked'[m] = TRUE /\ owner'[m] = current /\ held'[m] = {current}
  BY <1>1 DEF TakeMutex, MutexInv
<1>4. \A n \in Mutex : n # m =>
        locked'[n] = locked[n] /\ owner'[n] = owner[n] /\ held'[n] = held[n]
  BY <1>1 DEF TakeMutex
<1>5. MutexInv(m)'
  BY <1>3 DEF MutexInv
<1> QED BY <1>2, <1>3, <1>4, <1>5

LEMMA SyncTryLock ==
  ASSUME SyncInv, NEW m \in Mutex, TryLock(m)
  PROVE  SyncInv'
<1>1. /\ UNCHANGED <<state, queue, heap, wakeup, condQ, timedOut, ioWaiting, waitingIo,
                     active, current, pc, now, clock, call, signalled>>
      /\ TakeMutex(m) /\ ~locked[m] /\ pc # "destroyed"
  BY DEF TryLock, InClientCode, schedVars, fieldVars, TakeMutex
<1>2. SchedInv'
  BY <1>1 DEF SyncInv, SchedInv, SchedTypeOK, NodeLinkedOnce, StateMatchesLists,
              NoDanglingPointer, OneTimerEach, ControlInv, TimerInv
<1>3. SyncTypeOK'
  BY <1>1, <1>2, FreeMutex DEF SyncTypeOK, SyncInv, SchedInv
<1>4. ASSUME NEW n \in Mutex PROVE MutexInv(n)'
  <2>1. MutexInv(n)
    BY DEF SyncInv
  <2> QED BY <1>1, <2>1, FreeMutex, SameMutexInv
<1>5. ASSUME NEW s \in Routine PROVE ListInv(s)'
  BY <1>1, FreeMutex, SameListInv DEF SyncInv
<1>6. ASSUME NEW s \in Routine PROVE WaitInv(s)'
  BY <1>1, SyncFacts, SameWaitInv
<1> QED BY <1>2, <1>3, <1>4, <1>5, <1>6 DEF SyncInv

LEMMA SyncLockReturn ==
  ASSUME SyncInv, NEW m \in Mutex, LockReturn(m)
  PROVE  SyncInv'
<1>1. /\ UNCHANGED <<state, queue, heap, wakeup, condQ, timedOut, ioWaiting, waitingIo,
                     active, current, pc, now, clock, locked, owner, signalled>>
      /\ pc = "coroutine" /\ call[current] = InLock(m)
      /\ call' = [call EXCEPT ![current] = NoCall]
      /\ held' = [held EXCEPT ![m] = held[m] \cup {current}]
  BY DEF LockReturn, schedVars, fieldVars
<1>2. SchedInv'
  BY <1>1 DEF SyncInv, SchedInv, SchedTypeOK, NodeLinkedOnce, StateMatchesLists,
              NoDanglingPointer, OneTimerEach, ControlInv, TimerInv
<1>3. /\ SyncTypeOK /\ current \in Routine /\ state[current] \in {"RUNNING", "READY"}
      /\ \A q \in WaitQueue : current \notin Range(queue[q])
      /\ condQ[current] = NoQueue /\ ListInv(current) /\ WaitInv(current)
  BY <1>1, SyncFacts, RunningFacts
<1>4. call[current].op = "lock" /\ call[current].mutex = m
  BY SMT, <1>1 DEF InLock
<1>5. locked[m] /\ owner[m] = current
  BY <1>3, <1>4, QueueFacts DEF ListInv
<1>6. SyncTypeOK'
  <2>1. NoCall \in Call
    BY DEF NoCall, Call
  <2>2. call' \in [Routine -> Call]
    BY <1>1, <1>3, <2>1 DEF SyncTypeOK
  <2>3. held' \in [Mutex -> SUBSET (Routine \cup {NoRoutine})]
    BY <1>1, <1>3 DEF SyncTypeOK
  <2> QED BY <1>1, <1>2, <1>3, <2>2, <2>3 DEF SyncTypeOK, SchedInv
<1>7. \A s \in Routine : call'[s] = IF s = current THEN NoCall ELSE call[s]
  BY <1>1, <1>3 DEF SyncTypeOK
<1>8. PICK r \in Routine : r = current
  BY <1>3
<1>9. call'[r].op = "none" /\ call'[r].mutex = NoQueue
  BY SMT, <1>7, <1>8 DEF NoCall
<1>10. \A q \in WaitQueue : r \notin Range(queue'[q])
  BY <1>1, <1>3, <1>8
<1>11. ~OnCond(r)' /\ \A n \in Mutex : r \notin Range(queue'[n])
  BY <1>10, QueueFacts DEF OnCond
<1>12. ListInv(r)'
  BY <1>9, <1>11 DEF ListInv
<1>13. WaitInv(r)'
  BY <1>1, <1>3, <1>4, <1>8, <1>9, <1>11 DEF WaitInv
<1>14. ASSUME NEW n \in Mutex PROVE MutexInv(n)'
  <2>1. MutexInv(n)
    BY DEF SyncInv
  <2>2. held'[n] = IF n = m THEN held[m] \cup {current} ELSE held[n]
    BY <1>1, <1>3 DEF SyncTypeOK
  <2> QED BY SMT, <1>1, <1>5, <2>1, <2>2 DEF MutexInv
<1>15. \A s \in Routine : s \notin {r} =>
         /\ call'[s] = call[s] /\ signalled'[s] = signalled[s]
         /\ timedOut'[s] = timedOut[s] /\ state'[s] = state[s]
         /\ heap'[s] = heap[s] /\ condQ'[s] = condQ[s]
         /\ \A q \in WaitQueue : s \in Range(queue'[q]) <=> s \in Range(queue[q])
         /\ \A n \in Mutex : locked[n] /\ owner[n] = s => locked'[n] /\ owner'[n] = s
  BY <1>1, <1>7, <1>8
<1>16. {r} \in SUBSET Routine /\ pc # "destroyed" /\ \A s \in {r} : ListInv(s)' /\ WaitInv(s)'
  BY <1>1, <1>12, <1>13
<1> QED BY <1>2, <1>6, <1>14, <1>15, <1>16, SyncTouches

(* The running coroutine clears its timer (or has none) and either waits   *)
(* for a mutex or takes it; this is co_mutex_lock as a call of its own and *)
(* at the end of a wait.                                                   *)
LEMMA SyncWaitForMutex ==
  ASSUME SyncInv, NEW m \in Mutex, pc = "coroutine", WaitForMutex(m),
         heap' \in [Routine -> Nat], heap'[current] = 0,
         \A s \in Routine : s # current => heap'[s] = heap[s],
         UNCHANGED <<fieldVars, active, now, clock, signalled>>
  PROVE  SyncInv'
<1>1. /\ SchedInv /\ SyncTypeOK /\ SchedTypeOK /\ queue \in Lists
      /\ \A r \in Routine : RoutineOK(r) /\ ListInv(r) /\ WaitInv(r)
      /\ \A n \in Mutex : MutexInv(n)
  BY SyncFacts
<1>2. PICK r \in Routine : r = current
  BY RunningFacts
<1>3. /\ Unlinked(queue, r) /\ condQ[r] = NoQueue /\ m \in WaitQueue /\ m \in Queue
      /\ \A q \in WaitQueue : r \notin Range(queue[q])
  BY <1>2, RunningFacts, QueueFacts
<1>4. /\ locked[m] /\ pc' = "back" /\ queue' = Pushed(queue, m, r)
      /\ state' = With(state, r, "WAITING") /\ call' = With(call, r, InLock(m))
      /\ UNCHANGED <<current, locked, owner, held, condQ, timedOut, wakeup, ioWaiting, waitingIo,
                     signalled, active, now, clock>>
  BY <1>2 DEF WaitForMutex, Block, SwapToMain, Pushed, With, fieldVars
<1>5. /\ queue' \in Lists
      /\ Range(queue'[m]) = Range(queue[m]) \cup {r}
      /\ \A p \in Queue : p # m => queue'[p] = queue[p]
  <2>1. queue \in Lists /\ Unlinked(queue, r) /\ m \in Queue /\ queue' = Pushed(queue, m, r)
    BY <1>1, <1>3, <1>4
  <2> QED BY ONLY <2>1, r \in Routine, PushBack
<1>6. \A s \in Routine : /\ state'[s] = IF s = r THEN "WAITING" ELSE state[s]
                         /\ call'[s] = IF s = r THEN InLock(m) ELSE call[s]
  BY <1>1, <1>4 DEF With, SchedTypeOK, SyncTypeOK
<1>7. SchedTypeOK'
  <2>1. queue' \in [Queue -> Seq(Routine)]
    BY <1>5 DEF Lists
  <2>2. state' \in [Routine -> State]
    BY <1>1, <1>4 DEF SchedTypeOK, With, State
  <2> QED BY <1>1, <1>4, <2>1, <2>2 DEF SchedTypeOK, Location
<1>8. /\ \A s \in Routine : s \in Range(queue'[Ready]) <=> s \in Range(queue[Ready]) \/ s \in {}
      /\ \A s \in Routine, q \in WaitQueue :
           s \in Range(queue'[q]) <=> \/ s \in Range(queue[q]) /\ s \notin {}
                                      \/ s = current /\ q = m
  BY <1>2, <1>3, <1>5, QueueFacts
<1>9. SchedInv'
  <2>1. /\ {} \in SUBSET Routine /\ \A s \in {} : state[s] = "WAITING"
        /\ \A s \in Routine : s # current =>
             /\ state'[s] = IF s \in {} THEN "READY" ELSE state[s]
             /\ condQ'[s] = IF s \in {} THEN NoQueue ELSE condQ[s]
             /\ heap'[s] = heap[s]
    BY <1>2, <1>4, <1>6
  <2>2. state'[current] = "WAITING" /\ condQ'[current] = NoQueue /\ heap'[current] = 0
    BY <1>2, <1>3, <1>4, <1>6
  <2>3. pc' = "back" /\ current' = current
    BY <1>4
  <2> QED BY <1>1, <1>3, <1>5, <1>7, <1>8, <2>1, <2>2, <2>3, WaitStep
<1>10. SyncTypeOK'
  <2>1. InLock(m) \in Call
    BY DEF InLock, Call
  <2>2. call' \in [Routine -> Call]
    BY <1>1, <1>4, <2>1 DEF SyncTypeOK, With
  <2> QED BY <1>1, <1>4, <1>7, <2>2 DEF SyncTypeOK
<1>11. call'[r].op = "lock" /\ call'[r].mutex = m /\ m # NoQueue
  BY SMT, <1>6, QueueFacts DEF InLock
<1>12. \A q \in WaitQueue : r \in Range(queue'[q]) <=> q = m
  BY <1>2, <1>3, <1>8
<1>13. ~OnCond(r)'
  BY <1>12, QueueFacts DEF OnCond
<1>14. ListInv(r)'
  BY <1>11, <1>12, <1>13, QueueFacts DEF ListInv
<1>15. WaitInv(r)'
  <2>1. state'[r] = "WAITING" /\ heap'[r] = 0 /\ condQ'[r] = NoQueue
    BY <1>2, <1>3, <1>4, <1>6
  <2>2. ~(heap'[r] > 0) /\ m \in WaitQueue
    BY SMT, <2>1, QueueFacts
  <2> QED BY <1>11, <1>12, <1>13, <2>1, <2>2 DEF WaitInv
<1>16. ASSUME NEW n \in Mutex PROVE MutexInv(n)'
  <2>1. MutexInv(n)
    BY <1>1
  <2>2. CASE n = m
    BY <1>4, <2>1, <2>2 DEF MutexInv
  <2>3. CASE n # m
    BY <1>4, <1>5, <2>1, <2>3, QueueFacts, SameMutexInv
  <2> QED BY <2>2, <2>3
<1>17. \A s \in Routine : s \notin {r} =>
         /\ call'[s] = call[s] /\ signalled'[s] = signalled[s]
         /\ timedOut'[s] = timedOut[s] /\ state'[s] = state[s]
         /\ heap'[s] = heap[s] /\ condQ'[s] = condQ[s]
         /\ \A q \in WaitQueue : s \in Range(queue'[q]) <=> s \in Range(queue[q])
         /\ \A n \in Mutex : locked[n] /\ owner[n] = s => locked'[n] /\ owner'[n] = s
  BY <1>2, <1>4, <1>6, <1>8
<1>18. {r} \in SUBSET Routine /\ pc # "destroyed" /\ \A s \in {r} : ListInv(s)' /\ WaitInv(s)'
  BY <1>14, <1>15
<1> QED BY <1>9, <1>10, <1>16, <1>17, <1>18, SyncTouches

LEMMA SyncReacquireFree ==
  ASSUME SyncInv, NEW m \in Mutex, pc = "coroutine", TakeMutex(m),
         call[current].op # "none",
         call' = [call EXCEPT ![current] = NoCall],
         heap' \in [Routine -> Nat], heap'[current] = 0,
         \A s \in Routine : s # current => heap'[s] = heap[s],
         UNCHANGED <<state, queue, current, pc, fieldVars, active, now, clock, signalled>>
  PROVE  SyncInv'
<1>1. /\ SchedInv /\ SyncTypeOK /\ SchedTypeOK /\ ControlInv /\ queue \in Lists
      /\ \A r \in Routine : RoutineOK(r) /\ ListInv(r) /\ WaitInv(r)
      /\ \A n \in Mutex : MutexInv(n)
  BY SyncFacts
<1>2. PICK r \in Routine : r = current
  BY RunningFacts
<1>3. /\ state[r] \in {"RUNNING", "READY"} /\ condQ[r] = NoQueue
      /\ \A q \in WaitQueue : r \notin Range(queue[q])
  BY <1>2, RunningFacts
<1>4. /\ ~locked[m] /\ call' = With(call, r, NoCall)
      /\ UNCHANGED <<condQ, timedOut, wakeup, ioWaiting, waitingIo>>
  BY <1>2 DEF TakeMutex, With, fieldVars
<1>5. SchedInv'
  <2>1. SchedTypeOK' /\ ControlInv'
    BY <1>1, <1>4 DEF SchedTypeOK, ControlInv
  <2>2. ASSUME NEW s \in Routine PROVE RoutineOK(s)'
    <3>1. RoutineOK(s)
      BY <1>1
    <3>2. CASE s = r
      BY SMTT(30), <1>2, <1>3, <1>4, <3>1, <3>2 DEF RoutineOK
    <3>3. CASE s # r
      BY <1>2, <1>4, <3>1, <3>3 DEF RoutineOK
    <3> QED BY <3>2, <3>3
  <2> QED BY <1>1, <2>1, <2>2, JoinInv
<1>6. \A s \in Routine : call'[s] = IF s = r THEN NoCall ELSE call[s]
  BY <1>1, <1>4 DEF With, SyncTypeOK
<1>7. SyncTypeOK'
  <2>1. NoCall \in Call
    BY DEF NoCall, Call
  <2>2. call' \in [Routine -> Call]
    BY <1>1, <1>4, <2>1 DEF SyncTypeOK, With
  <2> QED BY <1>1, <1>4, <1>5, <2>2, FreeMutex DEF SyncTypeOK, SchedInv
<1>8. call'[r].op = "none" /\ call'[r].mutex = NoQueue
  BY SMT, <1>6 DEF NoCall
<1>9. ~OnCond(r)' /\ \A n \in Mutex : r \notin Range(queue'[n])
  BY <1>3, QueueFacts DEF OnCond
<1>10. ListInv(r)'
  BY <1>8, <1>9 DEF ListInv
<1>11. WaitInv(r)'
  BY SMTT(30), <1>2, <1>3, <1>4, <1>8, <1>9 DEF WaitInv
<1>12. ASSUME NEW n \in Mutex PROVE MutexInv(n)'
  BY <1>1, <1>4, FreeMutex, SameMutexInv
<1>13. \A s \in Routine : s \notin {r} =>
         /\ call'[s] = call[s] /\ signalled'[s] = signalled[s]
         /\ timedOut'[s] = timedOut[s] /\ state'[s] = state[s]
         /\ heap'[s] = heap[s] /\ condQ'[s] = condQ[s]
         /\ \A q \in WaitQueue : s \in Range(queue'[q]) <=> s \in Range(queue[q])
         /\ \A n \in Mutex : locked[n] /\ owner[n] = s => locked'[n] /\ owner'[n] = s
  BY <1>2, <1>4, <1>6, FreeMutex
<1>14. {r} \in SUBSET Routine /\ pc # "destroyed" /\ \A s \in {r} : ListInv(s)' /\ WaitInv(s)'
  BY <1>10, <1>11
<1> QED BY <1>5, <1>7, <1>12, <1>13, <1>14, SyncTouches

LEMMA SyncLock ==
  ASSUME SyncInv, NEW m \in Mutex, Lock(m)
  PROVE  SyncInv'
<1>1. heap[current] = 0 /\ pc = "coroutine" /\ heap' = heap /\ WaitForMutex(m)
      /\ UNCHANGED <<fieldVars, active, now, clock, signalled>>
  BY ClientHasNoTimer DEF Lock, InCoroutineCode
<1>2. heap \in [Routine -> Nat]
  BY DEF SyncInv, SyncTypeOK, SchedTypeOK
<1> QED BY <1>1, <1>2, SyncWaitForMutex

LEMMA SyncResume ==
  ASSUME SyncInv, NEW m \in Mutex, WaitResume(m) \/ TimedWaitResume(m)
  PROVE  SyncInv'
<1>1. /\ pc = "coroutine" /\ Reacquire(m) /\ UNCHANGED <<fieldVars, active, now, clock, signalled>>
      /\ call[current] \in {InWait(m), InTimedWait(m)}
  BY DEF WaitResume, TimedWaitResume
<1>2. /\ SchedTypeOK /\ current \in Routine /\ WaitInv(current) /\ RoutineOK(current)
      /\ state[current] \in {"RUNNING", "READY"}
  <2>1. current \in Routine /\ state[current] \in {"RUNNING", "READY"}
    BY <1>1, RunningFacts
  <2>2. SchedTypeOK /\ \A r \in Routine : WaitInv(r) /\ RoutineOK(r)
    BY <1>1, SyncFacts
  <2> QED BY <2>1, <2>2
<1>3. call[current].op \in {"wait", "timedwait"} /\ heap[current] \in Nat /\ heap[current] <= 1
  BY SMTT(30), <1>1, <1>2 DEF InWait, InTimedWait, SchedTypeOK, RoutineOK
<1>4. /\ heap' \in [Routine -> Nat] /\ heap'[current] = 0
      /\ \A s \in Routine : s # current => heap'[s] = heap[s]
  <2>1. CASE WaitResume(m)
    <3>1. call[current].op = "wait"
      BY SMT, <2>1 DEF WaitResume, InWait
    <3>2. heap[current] = 0
      BY SMTT(30), <1>2, <1>3, <3>1 DEF WaitInv
    <3> QED BY <1>2, <2>1, <3>2 DEF WaitResume, SchedTypeOK
  <2>2. CASE TimedWaitResume(m)
    <3>1. CASE timedOut[current] \/ heap[current] = 0
      <4>1. heap[current] = 0
        BY SMTT(30), <1>2, <1>3, <3>1 DEF WaitInv
      <4> QED BY <1>2, <2>2, <3>1, <4>1 DEF TimedWaitResume, SchedTypeOK
    <3>2. CASE ~(timedOut[current] \/ heap[current] = 0)
      <4>1. heap[current] = 1
        BY SMT, <1>3, <3>2
      <4>2. heap' = [heap EXCEPT ![current] = heap[current] - 1]
        BY <2>2, <3>2 DEF TimedWaitResume
      <4> QED BY SMTT(30), <1>2, <4>1, <4>2 DEF SchedTypeOK
    <3> QED BY <3>1, <3>2
  <2> QED BY <2>1, <2>2
<1>5. CASE WaitForMutex(m)
  BY <1>1, <1>4, <1>5, SyncWaitForMutex
<1>6. CASE TakeMutex(m) /\ call' = [call EXCEPT ![current] = NoCall] /\ UNCHANGED <<state, queue, current, pc>>
  <2>1. call[current].op # "none"
    BY <1>3
  <2> QED BY <1>1, <1>4, <1>6, <2>1, SyncReacquireFree
<1> QED BY <1>1, <1>5, <1>6 DEF Reacquire

(* co_mutex_unlock without a waiter and with one, seen from the mutexes.   *)
LEMMA ReleaseFacts ==
  ASSUME SyncInv, NEW m \in Mutex, current \in held[m],
         held' = [held EXCEPT ![m] = held[m] \ {current}],
         \/ locked' = [locked EXCEPT ![m] = FALSE] /\ owner' = [owner EXCEPT ![m] = NoRoutine]
         \/ \E h \in Routine : locked' = locked /\ owner' = [owner EXCEPT ![m] = h]
  PROVE  /\ locked[m] /\ owner[m] = current
         /\ locked' \in [Mutex -> BOOLEAN]
         /\ owner' \in [Mutex -> Routine \cup {NoRoutine}]
         /\ held' \in [Mutex -> SUBSET (Routine \cup {NoRoutine})]
         /\ held'[m] = {}
         /\ \A n \in Mutex : n # m =>
              locked'[n] = locked[n] /\ owner'[n] = owner[n] /\ held'[n] = held[n]
         /\ \A s \in Routine : s # current =>
              \A n \in Mutex : locked[n] /\ owner[n] = s => locked'[n] /\ owner'[n] = s
<1>1. /\ MutexInv(m)
      /\ locked \in [Mutex -> BOOLEAN]
      /\ owner \in [Mutex -> Routine \cup {NoRoutine}]
      /\ held \in [Mutex -> SUBSET (Routine \cup {NoRoutine})]
  BY DEF SyncInv, SyncTypeOK
<1>2. locked[m] /\ owner[m] = current /\ held[m] = {current}
  BY <1>1 DEF MutexInv
<1>3. /\ locked' \in [Mutex -> BOOLEAN]
      /\ owner' \in [Mutex -> Routine \cup {NoRoutine}]
  BY <1>1
<1>4. held' \in [Mutex -> SUBSET (Routine \cup {NoRoutine})] /\ held'[m] = {}
  BY <1>1, <1>2
<1>5. \A n \in Mutex : n # m =>
        locked'[n] = locked[n] /\ owner'[n] = owner[n] /\ held'[n] = held[n]
  BY <1>1
<1> QED BY <1>2, <1>3, <1>4, <1>5

LEMMA SyncUnlock ==
  ASSUME SyncInv, NEW m \in Mutex, Unlock(m)
  PROVE  SyncInv'
<1>1. /\ current \in held[m] /\ held' = [held EXCEPT ![m] = held[m] \ {current}]
      /\ Release(m, queue, state) /\ pc \in {"idle", "coroutine"}
      /\ pc = "coroutine" => call[current] = NoCall
      /\ UNCHANGED <<heap, wakeup, condQ, timedOut, ioWaiting, waitingIo, active,
                     current, pc, now, clock, call, signalled>>
  BY DEF Unlock, InClientCode, fieldVars
<1>2. /\ SchedInv /\ SyncTypeOK /\ SchedTypeOK /\ ControlInv /\ queue \in Lists
      /\ \A r \in Routine : RoutineOK(r) /\ ListInv(r) /\ WaitInv(r)
      /\ \A n \in Mutex : MutexInv(n)
  BY <1>1, SyncFacts
<1>3. m \in WaitQueue /\ m \in Queue /\ m # Ready
  BY QueueFacts
<1>4. current \in Routine => /\ pc = "coroutine" /\ call[current].op = "none"
                             /\ \A q \in WaitQueue : current \notin Range(queue[q])
  <2> SUFFICES ASSUME current \in Routine
               PROVE  /\ pc = "coroutine" /\ call[current].op = "none"
                      /\ \A q \in WaitQueue : current \notin Range(queue[q])
    OBVIOUS
  <2>1. pc = "coroutine"
    BY ONLY ZenonT(30), current \in Routine, <1>1, <1>2, QueueAssumption DEF ControlInv
  <2>2. call[current].op = "none"
    BY ONLY <1>1, <2>1 DEF NoCall
  <2>3. \A q \in WaitQueue : current \notin Range(queue[q])
    BY <2>1, RunningFacts
  <2> QED BY <2>1, <2>2, <2>3
<1>5. CASE queue[m] = <<>>
  <2>1. /\ locked' = [locked EXCEPT ![m] = FALSE] /\ owner' = [owner EXCEPT ![m] = NoRoutine]
        /\ UNCHANGED <<queue, state>>
    BY <1>1, <1>5 DEF Release
  <2>2. SchedInv'
    BY <1>1, <1>2, <2>1
    DEF SchedInv, SchedTypeOK, NodeLinkedOnce, StateMatchesLists, NoDanglingPointer,
        OneTimerEach, ControlInv, TimerInv
  <2>3. SyncTypeOK'
    BY <1>1, <1>2, <2>1, <2>2, ReleaseFacts DEF SyncTypeOK, SchedInv
  <2>4. ASSUME NEW n \in Mutex PROVE MutexInv(n)'
    <3>1. CASE n = m
      BY <1>1, <1>2, <1>5, <2>1, <3>1, ReleaseFacts DEF MutexInv, SyncTypeOK
    <3>2. CASE n # m
      BY <1>1, <1>2, <2>1, <3>2, ReleaseFacts, SameMutexInv
    <3> QED BY <3>1, <3>2
  <2>5. ASSUME NEW s \in Routine PROVE WaitInv(s)'
    BY <1>1, <1>2, <2>1, SameWaitInv
  <2>6. ASSUME NEW s \in Routine PROVE ListInv(s)'
    <3>1. CASE s = current
      <4>1. call[s].op = "none" /\ ListInv(s)
        BY <1>2, <1>4, <3>1
      <4>2. OnCond(s)' <=> OnCond(s)
        BY <2>1 DEF OnCond
      <4> QED BY <1>1, <2>1, <4>1, <4>2 DEF ListInv
    <3>2. CASE s # current
      BY <1>1, <1>2, <2>1, <3>2, ReleaseFacts, SameListInv
    <3> QED BY <3>1, <3>2
  <2> QED BY <2>2, <2>3, <2>4, <2>5, <2>6 DEF SyncInv
<1>6. CASE queue[m] # <<>>
  <2>1. queue' = FirstToReady(queue, m)
    BY <1>1, <1>6 DEF Release, FirstToReady, Popped
  <2>2. PICK h \in Routine : /\ h = Head(queue[m]) /\ h \in Range(queue[m])
                             /\ queue' \in Lists
                             /\ Range(queue'[m]) = Range(queue[m]) \ {h}
                             /\ Range(queue'[Ready]) = Range(queue[Ready]) \cup {h}
                             /\ \A p \in WaitQueue : p # m => queue'[p] = queue[p]
    <3>1. queue \in Lists /\ m \in WaitQueue /\ queue[m] # <<>> /\ queue' = FirstToReady(queue, m)
      BY <1>2, <1>3, <1>6, <2>1
    <3>2. FirstMoved(queue, queue', m)
      BY ONLY Zenon, <3>1, PopToReady
    <3> QED BY ONLY Zenon, <3>2 DEF FirstMoved
  <2>3. /\ owner' = [owner EXCEPT ![m] = h] /\ locked' = locked
        /\ state' = With(state, h, "READY")
    BY <1>1, <1>6, <2>2 DEF Release, With
  <2>4. /\ state[h] = "WAITING" /\ call[h].op = "lock" /\ call[h].mutex = m
        /\ condQ[h] = NoQueue /\ h # current
    BY SMTT(30), <1>2, <1>3, <1>4, <2>2 DEF RoutineOK, ListInv, WaitInv
  <2>5. \A s \in Routine : state'[s] = IF s = h THEN "READY" ELSE state[s]
    BY <1>2, <2>3 DEF With, SchedTypeOK
  <2>6. \A q \in WaitQueue : h \notin Range(queue'[q])
    BY <1>2, <1>3, <2>2, QueueFacts DEF Lists, LinkedOnce
  <2>7. SchedTypeOK'
    <3>1. queue' \in [Queue -> Seq(Routine)]
      BY <2>2 DEF Lists
    <3>2. state' \in [Routine -> State]
      BY <1>2, <2>3 DEF SchedTypeOK, With, State
    <3> QED BY <1>1, <1>2, <3>1, <3>2 DEF SchedTypeOK
  <2>8. /\ \A s \in Routine : s \in Range(queue'[Ready]) <=> s \in Range(queue[Ready]) \/ s \in {h}
        /\ \A s \in Routine, q \in WaitQueue :
             s \in Range(queue'[q]) <=> s \in Range(queue[q]) /\ s \notin {h}
        /\ \A s \in Routine : /\ state'[s] = IF s \in {h} THEN "READY" ELSE state[s]
                              /\ condQ'[s] = IF s \in {h} THEN NoQueue ELSE condQ[s]
                              /\ heap'[s] = heap[s]
    BY <1>1, <2>2, <2>4, <2>5, <2>6
  <2>9. SchedInv'
    <3>1. {h} \in SUBSET Routine /\ \A s \in {h} : state[s] = "WAITING"
      BY <2>4
    <3>2. current' = current /\ pc' = pc
      BY <1>1
    <3> QED BY <1>1, <1>2, <2>2, <2>7, <2>8, <3>1, <3>2, WakeAllStep
  <2>10. SyncTypeOK'
    BY <1>1, <1>2, <2>3, <2>7, ReleaseFacts DEF SyncTypeOK
  <2>11. ASSUME NEW n \in Mutex PROVE MutexInv(n)'
    <3>1. CASE n = m
      BY <1>1, <1>2, <2>3, <3>1, ReleaseFacts DEF MutexInv
    <3>2. CASE n # m
      <4>1. locked'[n] = locked[n] /\ owner'[n] = owner[n] /\ held'[n] = held[n]
        BY <1>1, <1>2, <2>3, <3>2 DEF SyncTypeOK
      <4>2. queue'[n] = queue[n] /\ MutexInv(n)
        BY <1>2, <2>2, <3>2, QueueFacts
      <4> QED BY <4>1, <4>2, SameMutexInv
    <3> QED BY <3>1, <3>2
  <2>12. ASSUME NEW s \in Routine PROVE ListInv(s)' /\ WaitInv(s)'
    <3>1. CASE s = h
      <4>1. call'[s].op = "lock" /\ call'[s].mutex = m /\ m # NoQueue
        BY <1>1, <2>4, <3>1, QueueFacts
      <4>2. ~OnCond(s)' /\ \A n \in Mutex : s \notin Range(queue'[n])
        BY <2>6, <3>1, QueueFacts DEF OnCond
      <4>3. locked'[m] /\ owner'[m] = s
        BY <1>1, <1>2, <2>3, <3>1, ReleaseFacts DEF SyncTypeOK
      <4>4. ListInv(s)'
        BY <4>1, <4>2, <4>3 DEF ListInv
      <4>5. WaitInv(s)
        BY <1>2
      <4>6. WaitInv(s)'
        BY <1>1, <2>4, <2>5, <3>1, <4>1, <4>2, <4>5 DEF WaitInv
      <4> QED BY <4>4, <4>6
    <3>2. CASE s # h
      <4>1. /\ call'[s] = call[s] /\ signalled'[s] = signalled[s]
            /\ timedOut'[s] = timedOut[s] /\ state'[s] = state[s]
            /\ heap'[s] = heap[s] /\ condQ'[s] = condQ[s]
            /\ \A q \in WaitQueue : s \in Range(queue'[q]) <=> s \in Range(queue[q])
        BY <1>1, <2>5, <2>8, <3>2
      <4>2. WaitInv(s)'
        BY <1>2, <4>1, SameWaitInv
      <4>3. CASE s = current
        <5>1. call'[s].op = "none" /\ ListInv(s) /\ call'[s] = call[s]
          BY <1>2, <1>4, <4>1, <4>3
        <5>2. ~OnCond(s)' /\ \A n \in Mutex : s \notin Range(queue'[n])
          BY <1>4, <4>1, <4>3, QueueFacts DEF OnCond
        <5>3. ListInv(s)'
          BY <5>1, <5>2 DEF ListInv
        <5> QED BY <4>2, <5>3
      <4>4. CASE s # current
        <5>1. \A n \in Mutex : locked[n] /\ owner[n] = s => locked'[n] /\ owner'[n] = s
          BY <1>1, <2>3, <4>4, ReleaseFacts
        <5>2. ListInv(s)'
          BY <1>2, <4>1, <5>1, SameListInv
        <5> QED BY <4>2, <5>2
      <4> QED BY <4>3, <4>4
    <3> QED BY <3>1, <3>2
  <2> QED BY <2>9, <2>10, <2>11, <2>12 DEF SyncInv
<1> QED BY <1>5, <1>6


------------------------------------------------------------------------------
(***************************************************************************)
(* The steps of co_cond.c preserve SyncInv.                                *)
(***************************************************************************)

(* The lists, states and mutex after a wait has queued the coroutine r on  *)
(* c and released m; W holds the waiter that was given m, if any.          *)
WaitOutcome(c, m, r, W) ==
  /\ queue' \in Lists
  /\ \A s \in Routine : s \in Range(queue'[Ready]) <=> s \in Range(queue[Ready]) \/ s \in W
  /\ \A s \in Routine, q \in WaitQueue :
       s \in Range(queue'[q]) <=> \/ s \in Range(queue[q]) /\ s \notin W
                                  \/ s = r /\ q = c
  /\ state' \in [Routine -> State]
  /\ state'[r] = "WAITING"
  /\ \A s \in Routine : s # r => state'[s] = IF s \in W THEN "READY" ELSE state[s]
  /\ \A s \in W : s # r /\ s \in Range(queue[m]) /\ locked'[m] /\ owner'[m] = s
  /\ ~locked'[m] => owner'[m] = NoRoutine /\ queue'[m] = <<>>
  /\ \A n \in Mutex : n # m => queue'[n] = queue[n]
  /\ \/ locked' = [locked EXCEPT ![m] = FALSE] /\ owner' = [owner EXCEPT ![m] = NoRoutine]
     \/ \E h \in Routine : locked' = locked /\ owner' = [owner EXCEPT ![m] = h]

LEMMA WaitReleases ==
  ASSUME SyncInv, NEW c \in Cond, NEW m \in Mutex, NEW r \in Routine, r = current,
         pc = "coroutine", r \in held[m],
         Release(m, Block(queue, c), [state EXCEPT ![current] = "WAITING"])
  PROVE  \E W \in SUBSET Routine : WaitOutcome(c, m, r, W)
<1> DEFINE L == Pushed(queue, c, r)
           st == With(state, r, "WAITING")
<1>1. /\ SyncTypeOK /\ SchedTypeOK /\ queue \in Lists
      /\ \A s \in Routine : RoutineOK(s) /\ ListInv(s)
      /\ MutexInv(m)
  BY SyncFacts
<1>2. /\ Unlinked(queue, r) /\ \A q \in WaitQueue : r \notin Range(queue[q])
  BY RunningFacts
<1>3. /\ c \in WaitQueue /\ c \in Queue /\ m \in WaitQueue /\ m \in Queue /\ m # c /\ c # Ready
      /\ m # Ready /\ Ready \in Queue
  BY QueueFacts
<1>4. /\ L \in Lists
      /\ Range(L[c]) = Range(queue[c]) \cup {r}
      /\ \A p \in Queue : p # c => L[p] = queue[p]
  <2>1. queue \in Lists /\ Unlinked(queue, r) /\ c \in Queue
    BY <1>1, <1>2, <1>3
  <2> QED BY ONLY <2>1, r \in Routine, PushBack
<1>5. Release(m, L, st)
  BY DEF Block, Pushed, With
<1>6. st \in [Routine -> State] /\ \A s \in Routine : st[s] = IF s = r THEN "WAITING" ELSE state[s]
  BY <1>1 DEF With, SchedTypeOK, State
<1>7. locked \in [Mutex -> BOOLEAN] /\ owner \in [Mutex -> Routine \cup {NoRoutine}] /\ locked[m]
  BY <1>1 DEF SyncTypeOK, MutexInv
<1> HIDE DEF L, st
<1>8. CASE L[m] = <<>>
  <2>1. /\ locked' = [locked EXCEPT ![m] = FALSE] /\ owner' = [owner EXCEPT ![m] = NoRoutine]
        /\ queue' = L /\ state' = st
    BY <1>5, <1>8 DEF Release
  <2>2. \A s \in Routine, q \in WaitQueue :
          s \in Range(queue'[q]) <=> \/ s \in Range(queue[q]) /\ s \notin {}
                                     \/ s = r /\ q = c
    BY <1>3, <1>4, <2>1, QueueFacts
  <2>3. \A s \in Routine : s \in Range(queue'[Ready]) <=> s \in Range(queue[Ready]) \/ s \in {}
    BY <1>3, <1>4, <2>1
  <2>4. \A n \in Mutex : n # m => queue'[n] = queue[n]
    BY <1>4, <2>1, QueueFacts
  <2>5. owner'[m] = NoRoutine /\ queue'[m] = <<>>
    BY <1>7, <1>8, <2>1
  <2>6. WaitOutcome(c, m, r, {})
    BY <1>4, <1>6, <2>1, <2>2, <2>3, <2>4, <2>5 DEF WaitOutcome
  <2> QED BY <2>6
<1>9. CASE L[m] # <<>>
  <2>1. queue' = FirstToReady(L, m)
    BY <1>5, <1>9 DEF Release, FirstToReady, Popped
  <2>2. PICK h \in Routine : /\ h = Head(L[m]) /\ h \in Range(L[m])
                             /\ queue' \in Lists
                             /\ Range(queue'[m]) = Range(L[m]) \ {h}
                             /\ Range(queue'[Ready]) = Range(L[Ready]) \cup {h}
                             /\ \A p \in WaitQueue : p # m => queue'[p] = L[p]
    <3>1. L \in Lists /\ m \in WaitQueue /\ L[m] # <<>> /\ queue' = FirstToReady(L, m)
      BY <1>3, <1>4, <1>9, <2>1
    <3>2. FirstMoved(L, queue', m)
      BY ONLY Zenon, <3>1, PopToReady
    <3> QED BY ONLY Zenon, <3>2 DEF FirstMoved
  <2>3. /\ owner' = [owner EXCEPT ![m] = h] /\ locked' = locked
        /\ state' = With(st, h, "READY")
    BY <1>5, <1>9, <2>2 DEF Release, With
  <2>4. h \in Range(queue[m]) /\ h # r
    BY <1>2, <1>3, <1>4, <2>2
  <2>5. \A q \in WaitQueue : q # m => h \notin Range(queue[q])
    BY <1>1, <1>3, <2>4, QueueFacts DEF Lists, LinkedOnce
  <2>6. \A s \in Routine, q \in WaitQueue :
          s \in Range(queue'[q]) <=> \/ s \in Range(queue[q]) /\ s \notin {h}
                                     \/ s = r /\ q = c
    <3> SUFFICES ASSUME NEW s \in Routine, NEW q \in WaitQueue
                 PROVE  s \in Range(queue'[q]) <=> \/ s \in Range(queue[q]) /\ s \notin {h}
                                                   \/ s = r /\ q = c
      BY SMT
    <3>1. CASE q = m
      BY <1>3, <1>4, <2>2, <3>1
    <3>2. CASE q = c
      <4>1. Range(queue'[q]) = Range(queue[q]) \cup {r} /\ h \notin Range(queue[q])
        BY <1>3, <1>4, <2>2, <2>5, <3>2
      <4> QED BY <3>2, <4>1
    <3>3. CASE q # m /\ q # c
      <4>1. queue'[q] = queue[q] /\ h \notin Range(queue[q])
        BY <1>4, <2>2, <2>5, <3>3, QueueFacts
      <4> QED BY <3>3, <4>1
    <3> QED BY <3>1, <3>2, <3>3
  <2>7. \A s \in Routine : s \in Range(queue'[Ready]) <=> s \in Range(queue[Ready]) \/ s \in {h}
    BY <1>3, <1>4, <2>2
  <2>8. \A n \in Mutex : n # m => queue'[n] = queue[n]
    BY <1>4, <2>2, QueueFacts
  <2>9. owner'[m] = h /\ locked'[m]
    BY <1>7, <2>3
  <2>10. /\ state' \in [Routine -> State]
         /\ \A s \in Routine : state'[s] = IF s = h THEN "READY" ELSE st[s]
    BY <1>6, <2>3 DEF With, State
  <2>11. WaitOutcome(c, m, r, {h})
    BY <1>6, <2>2, <2>3, <2>4, <2>6, <2>7, <2>8, <2>9, <2>10 DEF WaitOutcome
  <2> QED BY <2>11
<1> QED BY <1>8, <1>9

(* What co_cond_wait and co_cond_timedwait share.                          *)
LEMMA SyncWait ==
  ASSUME SyncInv, NEW c \in Cond, NEW m \in Mutex, InCoroutineCode, current \in held[m],
         Release(m, Block(queue, c), [state EXCEPT ![current] = "WAITING"]),
         held' = [held EXCEPT ![m] = held[m] \ {current}],
         NEW cl \in Call, cl.mutex = m, call' = With(call, current, cl),
         signalled' = With(signalled, current, FALSE),
         pc' = "back", UNCHANGED <<ioWaiting, waitingIo, active, current, now, clock>>,
         wakeup' \in [Routine -> Nat], heap' \in [Routine -> Nat],
         condQ' \in [Routine -> WaitQueue \cup {NoQueue}], timedOut' \in [Routine -> BOOLEAN],
         \A s \in Routine : s # current =>
           heap'[s] = heap[s] /\ condQ'[s] = condQ[s] /\ timedOut'[s] = timedOut[s],
         \/ cl.op = "wait" /\ condQ'[current] = NoQueue /\ heap'[current] = 0
         \/ cl.op = "timedwait" /\ condQ'[current] = c /\ heap'[current] = 1 /\ ~timedOut'[current]
  PROVE  SyncInv'
<1>1. pc = "coroutine" /\ current \in Routine /\ call[current].op = "none"
  BY ClientHasNoTimer DEF InCoroutineCode
<1>2. /\ SchedInv /\ SyncTypeOK /\ SchedTypeOK /\ queue \in Lists
      /\ \A s \in Routine : RoutineOK(s) /\ ListInv(s) /\ WaitInv(s)
      /\ \A n \in Mutex : MutexInv(n)
  BY <1>1, SyncFacts
<1>3. PICK r \in Routine : r = current
  BY <1>1
<1>4. \A q \in WaitQueue : r \notin Range(queue[q])
  BY <1>1, <1>3, RunningFacts
<1>5. PICK W \in SUBSET Routine : WaitOutcome(c, m, r, W)
  BY <1>1, <1>3, WaitReleases
<1>6. c \in WaitQueue /\ m \in WaitQueue /\ m # NoQueue /\ c # NoQueue /\ m # c
  BY QueueFacts
<1>7. \A s \in W : /\ s # r /\ s \in Range(queue[m]) /\ locked'[m] /\ owner'[m] = s
                   /\ state[s] = "WAITING" /\ condQ[s] = NoQueue
                   /\ call[s].op = "lock" /\ call[s].mutex = m
  <2> SUFFICES ASSUME NEW s \in W
               PROVE  /\ s # r /\ s \in Range(queue[m]) /\ locked'[m] /\ owner'[m] = s
                      /\ state[s] = "WAITING" /\ condQ[s] = NoQueue
                      /\ call[s].op = "lock" /\ call[s].mutex = m
    BY SMT
  <2>1. s \in Routine /\ s # r /\ s \in Range(queue[m]) /\ locked'[m] /\ owner'[m] = s
    BY <1>5 DEF WaitOutcome
  <2>2. RoutineOK(s) /\ ListInv(s) /\ WaitInv(s)
    BY <1>2, <2>1
  <2>3. state[s] = "WAITING" /\ call[s].op = "lock" /\ call[s].mutex = m
    BY <1>6, <2>1, <2>2 DEF RoutineOK, ListInv
  <2> QED BY <2>1, <2>2, <2>3 DEF WaitInv
<1>8. \A s \in Routine : /\ call'[s] = IF s = r THEN cl ELSE call[s]
                         /\ signalled'[s] = IF s = r THEN FALSE ELSE signalled[s]
  BY <1>2, <1>3 DEF With, SyncTypeOK
<1>9. SchedTypeOK'
  <2>1. queue' \in [Queue -> Seq(Routine)] /\ state' \in [Routine -> State]
    BY <1>5 DEF WaitOutcome, Lists
  <2> QED BY <1>2, <2>1 DEF SchedTypeOK, Location
<1>10. SchedInv'
  <2>1. /\ queue' \in Lists
        /\ \A s \in Routine : s \in Range(queue'[Ready]) <=> s \in Range(queue[Ready]) \/ s \in W
        /\ \A s \in Routine, q \in WaitQueue :
             s \in Range(queue'[q]) <=> \/ s \in Range(queue[q]) /\ s \notin W
                                        \/ s = current /\ q = c
        /\ state'[current] = "WAITING"
    BY <1>3, <1>5 DEF WaitOutcome
  <2>2. \A s \in W : state[s] = "WAITING"
    BY <1>7
  <2>3. \A s \in Routine : s # current =>
          /\ state'[s] = IF s \in W THEN "READY" ELSE state[s]
          /\ condQ'[s] = IF s \in W THEN NoQueue ELSE condQ[s]
          /\ heap'[s] = heap[s]
    <3> SUFFICES ASSUME NEW s \in Routine, s # current
                 PROVE  /\ state'[s] = IF s \in W THEN "READY" ELSE state[s]
                        /\ condQ'[s] = IF s \in W THEN NoQueue ELSE condQ[s]
                        /\ heap'[s] = heap[s]
      OBVIOUS
    <3>1. state'[s] = IF s \in W THEN "READY" ELSE state[s]
      BY <1>3, <1>5 DEF WaitOutcome
    <3>2. condQ'[s] = condQ[s] /\ heap'[s] = heap[s] /\ (s \in W => condQ[s] = NoQueue)
      BY <1>7
    <3> QED BY <3>1, <3>2
  <2>4. \/ condQ'[current] = NoQueue /\ heap'[current] = 0
        \/ condQ'[current] = c /\ heap'[current] = 1
    BY SMT
  <2>5. /\ SchedInv /\ SchedTypeOK' /\ pc = "coroutine" /\ pc' = "back" /\ current' = current
        /\ c \in WaitQueue /\ W \in SUBSET Routine
    BY <1>1, <1>2, <1>6, <1>9
  <2> QED BY ONLY ZenonT(30), <2>1, <2>2, <2>3, <2>4, <2>5, WaitStep
<1>11. /\ \/ locked' = [locked EXCEPT ![m] = FALSE] /\ owner' = [owner EXCEPT ![m] = NoRoutine]
          \/ \E h \in Routine : locked' = locked /\ owner' = [owner EXCEPT ![m] = h]
       /\ ~locked'[m] => owner'[m] = NoRoutine /\ queue'[m] = <<>>
       /\ \A n \in Mutex : n # m => queue'[n] = queue[n]
  BY <1>5 DEF WaitOutcome
<1>11a. /\ locked' \in [Mutex -> BOOLEAN]
        /\ owner' \in [Mutex -> Routine \cup {NoRoutine}]
        /\ held' \in [Mutex -> SUBSET (Routine \cup {NoRoutine})]
        /\ held'[m] = {}
        /\ \A n \in Mutex : n # m =>
             locked'[n] = locked[n] /\ owner'[n] = owner[n] /\ held'[n] = held[n]
        /\ \A s \in Routine : s # current =>
             \A n \in Mutex : locked[n] /\ owner[n] = s => locked'[n] /\ owner'[n] = s
  BY <1>11, ReleaseFacts
<1>12. SyncTypeOK'
  <2>1. /\ locked' \in [Mutex -> BOOLEAN]
        /\ owner' \in [Mutex -> Routine \cup {NoRoutine}]
        /\ held' \in [Mutex -> SUBSET (Routine \cup {NoRoutine})]
    BY <1>11a
  <2>2. call' \in [Routine -> Call] /\ signalled' \in [Routine -> BOOLEAN]
    BY <1>2 DEF With, SyncTypeOK
  <2> QED BY <1>9, <2>1, <2>2 DEF SyncTypeOK
<1>13. ASSUME NEW n \in Mutex PROVE MutexInv(n)'
  <2>1. CASE n = m
    BY ONLY Zenon, <1>11a, <1>11, <2>1 DEF MutexInv
  <2>2. CASE n # m
    BY ONLY ZenonT(30), <1>11a, <1>2, <1>11, <2>2, n \in Mutex, SameMutexInv
  <2> QED BY <2>1, <2>2
<1>14. ListInv(r)' /\ WaitInv(r)'
  <2>1. \A q \in WaitQueue : r \in Range(queue'[q]) <=> q = c
    BY <1>4, <1>5 DEF WaitOutcome
  <2>2. OnCond(r)' /\ \A n \in Mutex : r \notin Range(queue'[n])
    BY <1>6, <2>1, QueueFacts DEF OnCond
  <2>3. call'[r] = cl /\ signalled'[r] = FALSE /\ state'[r] = "WAITING"
    BY <1>5, <1>8 DEF WaitOutcome
  <2>4. \/ cl.op = "wait" /\ condQ'[r] = NoQueue /\ heap'[r] = 0
        \/ cl.op = "timedwait" /\ condQ'[r] = c /\ heap'[r] = 1 /\ ~timedOut'[r]
    BY <1>3
  <2>5. ListInv(r)'
    BY <1>6, <2>2, <2>3, <2>4 DEF ListInv
  <2>6. WaitInv(r)'
    <3>1. /\ heap'[r] > 0 => heap'[r] # 0
          /\ cl.op # "none" /\ cl.op # "lock"
      BY ONLY <2>4
    <3> QED BY <1>6, <2>2, <2>3, <2>4, <3>1 DEF WaitInv
  <2> QED BY <2>5, <2>6
<1>15. ASSUME NEW s \in W PROVE ListInv(s)' /\ WaitInv(s)'
  <2>1. s \in Routine /\ s # r /\ s # current
    BY <1>3, <1>7
  <2>2. call'[s].op = "lock" /\ call'[s].mutex = m
    BY ONLY ZenonT(30), <1>7, <1>8, <2>1, s \in W
  <2>3. \A q \in WaitQueue : s \notin Range(queue'[q])
    BY <1>5, <2>1 DEF WaitOutcome
  <2>4. ~OnCond(s)' /\ \A n \in Mutex : s \notin Range(queue'[n])
    BY <2>3, QueueFacts DEF OnCond
  <2>5. locked'[m] /\ owner'[m] = s
    BY <1>7
  <2>6. ListInv(s)'
    BY <1>6, <2>2, <2>4, <2>5 DEF ListInv
  <2>7. state'[s] = "READY" /\ condQ'[s] = NoQueue /\ heap'[s] = heap[s]
    <3>1. state'[s] = "READY"
      BY <1>5, <2>1 DEF WaitOutcome
    <3>2. condQ'[s] = condQ[s] /\ heap'[s] = heap[s] /\ condQ[s] = NoQueue
      BY <1>7, <2>1
    <3> QED BY <3>1, <3>2
  <2>8. ~(heap[s] > 0)
    BY <1>2, <1>7, <2>1 DEF WaitInv
  <2>9. WaitInv(s)'
    BY <2>2, <2>4, <2>7, <2>8 DEF WaitInv
  <2> QED BY <2>6, <2>9
<1>16. \A s \in Routine : s \notin W \cup {r} =>
         /\ call'[s] = call[s] /\ signalled'[s] = signalled[s]
         /\ timedOut'[s] = timedOut[s] /\ state'[s] = state[s]
         /\ heap'[s] = heap[s] /\ condQ'[s] = condQ[s]
         /\ \A q \in WaitQueue : s \in Range(queue'[q]) <=> s \in Range(queue[q])
         /\ \A n \in Mutex : locked[n] /\ owner[n] = s => locked'[n] /\ owner'[n] = s
  <2> SUFFICES ASSUME NEW s \in Routine, s \notin W, s # r
               PROVE  /\ call'[s] = call[s] /\ signalled'[s] = signalled[s]
                      /\ timedOut'[s] = timedOut[s] /\ state'[s] = state[s]
                      /\ heap'[s] = heap[s] /\ condQ'[s] = condQ[s]
                      /\ \A q \in WaitQueue : s \in Range(queue'[q]) <=> s \in Range(queue[q])
                      /\ \A n \in Mutex : locked[n] /\ owner[n] = s => locked'[n] /\ owner'[n] = s
    OBVIOUS
  <2>1. call'[s] = call[s] /\ signalled'[s] = signalled[s]
    BY <1>8
  <2>2. timedOut'[s] = timedOut[s] /\ heap'[s] = heap[s] /\ condQ'[s] = condQ[s]
    BY <1>3
  <2>3. /\ state'[s] = state[s]
        /\ \A q \in WaitQueue : s \in Range(queue'[q]) <=> s \in Range(queue[q])
    BY <1>5 DEF WaitOutcome
  <2>4. \A n \in Mutex : locked[n] /\ owner[n] = s => locked'[n] /\ owner'[n] = s
    BY ONLY Zenon, <1>3, <1>11a, s \in Routine, s # r
  <2> QED BY <2>1, <2>2, <2>3, <2>4
<1>17. /\ W \cup {r} \in SUBSET Routine /\ pc # "destroyed"
       /\ \A s \in W \cup {r} : ListInv(s)' /\ WaitInv(s)'
  BY <1>1, <1>14, <1>15
<1> QED BY <1>10, <1>12, <1>13, <1>16, <1>17, SyncTouches

LEMMA SyncCondWait ==
  ASSUME SyncInv, NEW c \in Cond, NEW m \in Mutex, CondWait(c, m)
  PROVE  SyncInv'
<1>1. /\ InCoroutineCode /\ current \in held[m]
      /\ Release(m, Block(queue, c), [state EXCEPT ![current] = "WAITING"])
      /\ held' = [held EXCEPT ![m] = held[m] \ {current}]
      /\ call' = With(call, current, InWait(m))
      /\ signalled' = With(signalled, current, FALSE)
      /\ pc' = "back"
      /\ UNCHANGED <<ioWaiting, waitingIo, active, current, now, clock>>
      /\ UNCHANGED <<heap, wakeup, condQ, timedOut>>
  BY DEF CondWait, With, SwapToMain, fieldVars
<1>2. /\ heap[current] = 0 /\ current \in Routine /\ condQ[current] = NoQueue /\ SchedTypeOK
  BY <1>1, ClientHasNoTimer, RunningFacts
     DEF InCoroutineCode, SyncInv, SyncTypeOK
<1>3. InWait(m) \in Call /\ InWait(m).mutex = m /\ InWait(m).op = "wait"
  BY DEF InWait, Call
<1>4. /\ wakeup' \in [Routine -> Nat] /\ heap' \in [Routine -> Nat]
      /\ condQ' \in [Routine -> WaitQueue \cup {NoQueue}] /\ timedOut' \in [Routine -> BOOLEAN]
      /\ \A s \in Routine : s # current =>
           heap'[s] = heap[s] /\ condQ'[s] = condQ[s] /\ timedOut'[s] = timedOut[s]
      /\ condQ'[current] = NoQueue /\ heap'[current] = 0
  BY <1>1, <1>2 DEF SchedTypeOK
<1> QED BY ONLY ZenonT(30), SyncInv, c \in Cond, m \in Mutex, <1>1, <1>3, <1>4, SyncWait

LEMMA SyncTimedWait ==
  ASSUME SyncInv, NEW c \in Cond, NEW m \in Mutex, NEW d \in SleepTimes, TimedWait(c, m, d)
  PROVE  SyncInv'
<1>1. /\ InCoroutineCode /\ current \in held[m]
      /\ Release(m, Block(queue, c), [state EXCEPT ![current] = "WAITING"])
      /\ held' = [held EXCEPT ![m] = held[m] \ {current}]
      /\ call' = With(call, current, InTimedWait(m))
      /\ signalled' = With(signalled, current, FALSE)
      /\ pc' = "back"
      /\ UNCHANGED <<ioWaiting, waitingIo, active, current, now, clock>>
  BY DEF TimedWait, With, SwapToMain
<1>2. /\ heap[current] = 0 /\ current \in Routine /\ SchedTypeOK /\ d \in Nat
      /\ c \in WaitQueue \cup {NoQueue}
  BY <1>1, ClientHasNoTimer, TimeAssumption, QueueFacts DEF SyncInv, SyncTypeOK
<1>3. InTimedWait(m) \in Call /\ InTimedWait(m).mutex = m /\ InTimedWait(m).op = "timedwait"
  BY DEF InTimedWait, Call
<1>4. wakeup' \in [Routine -> Nat]
  BY SMT, <1>2 DEF TimedWait, SchedTypeOK
<1>5. /\ heap' \in [Routine -> Nat] /\ heap'[current] = 1
      /\ \A s \in Routine : s # current => heap'[s] = heap[s]
  BY SMT, <1>2 DEF TimedWait, SchedTypeOK
<1>6. /\ condQ' \in [Routine -> WaitQueue \cup {NoQueue}] /\ condQ'[current] = c
      /\ timedOut' \in [Routine -> BOOLEAN] /\ timedOut'[current] = FALSE
      /\ \A s \in Routine : s # current => condQ'[s] = condQ[s] /\ timedOut'[s] = timedOut[s]
  BY <1>2 DEF TimedWait, SchedTypeOK
<1> QED BY ONLY ZenonT(30), SyncInv, c \in Cond, m \in Mutex, <1>1, <1>3, <1>4, <1>5, <1>6, SyncWait

LEMMA SyncTimedWaitNoMem ==
  ASSUME SyncInv, NEW m \in Mutex, NEW d \in SleepTimes, TimedWaitNoMem(m, d)
  PROVE  SyncInv'
<1>1. /\ InCoroutineCode /\ pc = "coroutine"
      /\ heap[current] = 0 /\ call[current].op = "none"
  BY ClientHasNoTimer DEF TimedWaitNoMem, InCoroutineCode
<1>2. PICK r \in Routine : r = current
  BY <1>1, RunningFacts
<1>3. /\ condQ[r] = NoQueue /\ SchedInv /\ SchedTypeOK /\ SyncTypeOK /\ WaitInv(r)
      /\ \A q \in WaitQueue : r \notin Range(queue[q])
  BY <1>1, <1>2, RunningFacts, SyncFacts
<1>4. /\ state' = With(state, r, "READY") /\ condQ' = condQ /\ timedOut' = With(timedOut, r, FALSE)
      /\ UNCHANGED <<queue, heap, condQ, ioWaiting, waitingIo, active, current, pc, now, clock>>
      /\ UNCHANGED syncVars
  BY <1>2, <1>3 DEF TimedWaitNoMem, With, SchedTypeOK
<1>5. wakeup' \in [Routine -> Nat] /\ timedOut' \in [Routine -> BOOLEAN]
  <2>1. d \in Nat
    BY TimeAssumption
  <2>2. wakeup' \in [Routine -> Nat]
    BY SMT, <1>2, <1>3, <2>1 DEF TimedWaitNoMem, SchedTypeOK
  <2> QED BY <1>3, <1>4, <2>2 DEF SchedTypeOK, With
<1>6. SchedInv'
  BY <1>1, <1>2, <1>3, <1>4, <1>5, NoMemStep
<1>7. \A s \in Routine : /\ state'[s] = IF s = r THEN "READY" ELSE state[s]
                         /\ s # r => timedOut'[s] = timedOut[s]
  BY <1>3, <1>4 DEF With, SchedTypeOK
<1>8. WaitInv(r)'
  <2>1. ~OnCond(r)' /\ call'[r] = call[r] /\ heap'[r] = 0 /\ condQ'[r] = NoQueue
    BY <1>1, <1>2, <1>3, <1>4, QueueFacts DEF OnCond, syncVars
  <2>2. ~(heap'[r] > 0)
    BY ONLY <2>1
  <2>3. state'[r] = "READY"
    BY <1>7
  <2> QED BY <2>1, <2>2, <2>3 DEF WaitInv
<1> QED BY <1>1, <1>2, <1>4, <1>6, <1>7, <1>8, SchedTouches

(* Client code makes the waiters W of the condition c ready.               *)
LEMMA SyncWake ==
  ASSUME SyncInv, pc \in {"idle", "coroutine"}, NEW c \in Cond, NEW W \in SUBSET Routine,
         \A s \in W : s \in Range(queue[c]),
         queue' \in Lists,
         \A s \in Routine : s \in Range(queue'[Ready]) <=> s \in Range(queue[Ready]) \/ s \in W,
         \A s \in Routine : s \in Range(queue'[c]) <=> s \in Range(queue[c]) /\ s \notin W,
         \A q \in WaitQueue : q # c => queue'[q] = queue[q],
         condQ' \in [Routine -> WaitQueue \cup {NoQueue}],
         state' \in [Routine -> State], signalled' \in [Routine -> BOOLEAN],
         \A s \in Routine : /\ state'[s] = IF s \in W THEN "READY" ELSE state[s]
                            /\ condQ'[s] = IF s \in W THEN NoQueue ELSE condQ[s]
                            /\ signalled'[s] = IF s \in W THEN TRUE ELSE signalled[s],
         UNCHANGED <<heap, wakeup, timedOut, ioWaiting, waitingIo, active, current,
                     pc, now, clock, locked, owner, call, held>>
  PROVE  SyncInv'
<1>1. /\ SchedInv /\ SyncTypeOK /\ SchedTypeOK /\ queue \in Lists
      /\ \A s \in Routine : RoutineOK(s) /\ ListInv(s) /\ WaitInv(s)
      /\ \A n \in Mutex : MutexInv(n)
  BY SyncFacts
<1>2. c \in WaitQueue /\ c \notin Mutex
  BY QueueFacts
<1>3. \A s \in W : state[s] = "WAITING" /\ \A q \in WaitQueue : q # c => s \notin Range(queue[q])
  <2> SUFFICES ASSUME NEW s \in W
               PROVE  state[s] = "WAITING" /\ \A q \in WaitQueue : q # c => s \notin Range(queue[q])
    BY SMT
  <2>1. s \in Routine /\ s \in Range(queue[c])
    BY SMT
  <2>2. state[s] = "WAITING"
    BY <1>1, <1>2, <2>1 DEF RoutineOK
  <2>3. \A q \in WaitQueue : q # c => s \notin Range(queue[q])
    BY <1>1, <1>2, <2>1, QueueFacts DEF Lists, LinkedOnce
  <2> QED BY <2>2, <2>3
<1>4. \A s \in Routine, q \in WaitQueue :
        s \in Range(queue'[q]) <=> s \in Range(queue[q]) /\ s \notin W
  BY <1>3
<1>5. SchedTypeOK'
  BY <1>1 DEF SchedTypeOK, Lists
<1>6. SchedInv'
  <2>1. \A s \in W : state[s] = "WAITING"
    BY <1>3
  <2>2. \A s \in Routine : /\ state'[s] = IF s \in W THEN "READY" ELSE state[s]
                           /\ condQ'[s] = IF s \in W THEN NoQueue ELSE condQ[s]
                           /\ heap'[s] = heap[s]
    OBVIOUS
  <2>3. current' = current /\ pc' = pc
    BY SMT
  <2> QED BY <1>1, <1>4, <1>5, <2>1, <2>2, <2>3, WakeAllStep
<1>7. SyncTypeOK'
  BY <1>1, <1>5 DEF SyncTypeOK
<1>8. ASSUME NEW n \in Mutex PROVE MutexInv(n)'
  BY <1>1, <1>2, QueueFacts, SameMutexInv
<1>9. ASSUME NEW s \in W PROVE ListInv(s)' /\ WaitInv(s)'
  <2>1. /\ s \in Routine /\ OnCond(s) /\ call'[s] = call[s] /\ timedOut'[s] = timedOut[s]
        /\ signalled'[s] = TRUE /\ heap'[s] = heap[s] /\ state'[s] = "READY" /\ condQ'[s] = NoQueue
    BY DEF OnCond
  <2>2. ListInv(s) /\ WaitInv(s) /\ timedOut[s] \in BOOLEAN
    BY <1>1, <2>1 DEF SchedTypeOK
  <2>3. ~OnCond(s)' /\ \A n \in Mutex : s \notin Range(queue'[n])
    BY <1>4, <2>1, QueueFacts DEF OnCond
  <2>4. call[s].op \in {"wait", "timedwait"}
    BY <2>1, <2>2 DEF ListInv
  <2>5. ListInv(s)'
    BY <2>1, <2>2, <2>3, <2>4 DEF ListInv
  <2>6. call[s].op = "timedwait" => ~timedOut[s]
    BY <2>1, <2>2 DEF ListInv
  <2>7. WaitInv(s)'
    BY <2>1, <2>2, <2>3, <2>4, <2>6 DEF WaitInv
  <2> QED BY <2>5, <2>7
<1>10. \A s \in Routine : s \notin W =>
         /\ call'[s] = call[s] /\ signalled'[s] = signalled[s]
         /\ timedOut'[s] = timedOut[s] /\ state'[s] = state[s]
         /\ heap'[s] = heap[s] /\ condQ'[s] = condQ[s]
         /\ \A q \in WaitQueue : s \in Range(queue'[q]) <=> s \in Range(queue[q])
         /\ \A n \in Mutex : locked[n] /\ owner[n] = s => locked'[n] /\ owner'[n] = s
  BY <1>4
<1>11. pc # "destroyed" /\ \A s \in W : ListInv(s)' /\ WaitInv(s)'
  BY <1>9
<1> QED BY <1>6, <1>7, <1>8, <1>10, <1>11, SyncTouches

LEMMA SyncSignal ==
  ASSUME SyncInv, NEW c \in Cond, Signal(c)
  PROVE  SyncInv'
<1>1. /\ queue[c] # <<>> /\ pc \in {"idle", "coroutine"}
      /\ queue' = FirstToReady(queue, c)
  BY DEF Signal, InClientCode, FirstToReady, Popped
<1>2. SchedTypeOK /\ SyncTypeOK /\ queue \in Lists /\ c \in WaitQueue /\ Ready \in Queue
  BY <1>1, SyncFacts, QueueFacts
<1>3. PICK h \in Routine : /\ h = Head(queue[c]) /\ h \in Range(queue[c])
                           /\ queue' \in Lists
                           /\ Range(queue'[c]) = Range(queue[c]) \ {h}
                           /\ Range(queue'[Ready]) = Range(queue[Ready]) \cup {h}
                           /\ \A p \in WaitQueue : p # c => queue'[p] = queue[p]
  <2>1. queue[c] # <<>> /\ queue \in Lists /\ queue' = FirstToReady(queue, c)
    BY <1>1, <1>2
  <2>2. FirstMoved(queue, queue', c)
    BY ONLY Zenon, <1>2, <2>1, PopToReady
  <2> QED BY ONLY Zenon, <2>2 DEF FirstMoved
<1>4. /\ condQ' = With(condQ, h, NoQueue) /\ state' = With(state, h, "READY")
      /\ signalled' = With(signalled, h, TRUE)
      /\ UNCHANGED <<heap, wakeup, timedOut, ioWaiting, waitingIo, active, current,
                     pc, now, clock, locked, owner, call, held>>
  BY <1>3 DEF Signal, With
<1>5. /\ condQ' \in [Routine -> WaitQueue \cup {NoQueue}]
      /\ state' \in [Routine -> State] /\ signalled' \in [Routine -> BOOLEAN]
      /\ \A s \in Routine : /\ state'[s] = IF s \in {h} THEN "READY" ELSE state[s]
                            /\ condQ'[s] = IF s \in {h} THEN NoQueue ELSE condQ[s]
                            /\ signalled'[s] = IF s \in {h} THEN TRUE ELSE signalled[s]
  BY <1>2, <1>4 DEF With, SchedTypeOK, SyncTypeOK, State
<1>6. /\ \A s \in Routine : s \in Range(queue'[Ready]) <=> s \in Range(queue[Ready]) \/ s \in {h}
      /\ \A s \in Routine : s \in Range(queue'[c]) <=> s \in Range(queue[c]) /\ s \notin {h}
      /\ {h} \in SUBSET Routine /\ \A s \in {h} : s \in Range(queue[c])
  BY <1>3
<1> QED BY ONLY ZenonT(30), SyncInv, c \in Cond, <1>1, <1>3, <1>4, <1>5, <1>6, SyncWake

(* The loop of co_cond_broadcast moves the whole list behind the ready     *)
(* queue.                                                                  *)
LEMMA SyncBroadcast ==
  ASSUME SyncInv, NEW c \in Cond, Broadcast(c)
  PROVE  SyncInv'
<1>1. /\ pc \in {"idle", "coroutine"}
      /\ UNCHANGED <<heap, wakeup, timedOut, ioWaiting, waitingIo, active, current,
                     pc, now, clock, locked, owner, call, held>>
  BY DEF Broadcast, InClientCode
<1>2. /\ SchedTypeOK /\ SyncTypeOK /\ queue \in Lists /\ c \in WaitQueue /\ c \in Queue
      /\ Ready \in Queue /\ c # Ready
  BY <1>1, SyncFacts, QueueFacts
<1>3. PICK W \in SUBSET Routine : W = Range(queue[c])
  BY <1>2, ListDomain DEF SchedTypeOK
<1>4. /\ queue \in [Queue -> Seq(Routine)]
      /\ IsInjective(queue[Ready]) /\ IsInjective(queue[c])
      /\ Range(queue[Ready]) \cap W = {}
      /\ Range(queue[Ready]) \subseteq Routine
  BY <1>2, <1>3, ListDomain DEF Lists, LinkedOnce
<1>5. /\ queue[Ready] \o queue[c] \in Seq(Routine)
      /\ Range(queue[Ready] \o queue[c]) = Range(queue[Ready]) \cup W
      /\ IsInjective(queue[Ready] \o queue[c])
  <2>1. queue[Ready] \in Seq(Routine) /\ queue[c] \in Seq(Routine) /\ Range(queue[c]) = W
    BY <1>2, <1>3, <1>4, QueueFacts
  <2> QED BY ONLY <1>4, <2>1, ListSplice
<1>6. /\ queue' \in [Queue -> Seq(Routine)]
      /\ queue'[c] = <<>>
      /\ queue'[Ready] = queue[Ready] \o queue[c]
      /\ \A q \in Queue : q # c /\ q # Ready => queue'[q] = queue[q]
  <2> DEFINE L == [queue EXCEPT ![c] = <<>>]
  <2>1. queue' = [L EXCEPT ![Ready] = L[Ready] \o queue[c]]
    BY DEF Broadcast
  <2>2. /\ L \in [Queue -> Seq(Routine)] /\ L[c] = <<>>
        /\ \A q \in Queue : q # c => L[q] = queue[q]
    BY <1>2, <1>4, SeqEmpty
  <2>3. L[Ready] = queue[Ready]
    BY <1>2, <2>2
  <2> HIDE DEF L
  <2>4. queue' = [L EXCEPT ![Ready] = queue[Ready] \o queue[c]]
    BY <2>1, <2>3
  <2> QED BY <1>2, <1>5, <2>2, <2>4
<1>7. Range(<<>>) = {} /\ IsInjective(<<>>)
  BY SMT DEF Range, IsInjective
<1>8. queue' \in Lists
  <2>1. \A q \in Queue : IsInjective(queue'[q])
    BY <1>2, <1>5, <1>6, <1>7 DEF Lists, LinkedOnce
  <2>2. ASSUME NEW p \in Queue, NEW q \in Queue, NEW s \in Routine,
               s \in Range(queue'[p]), s \in Range(queue'[q])
        PROVE  p = q
    <3>1. p # c /\ q # c
      BY <1>6, <1>7, <2>2
    <3>2. CASE p = Ready /\ q # Ready
      BY <1>2, <1>3, <1>5, <1>6, <2>2, <3>1, <3>2 DEF Lists, LinkedOnce
    <3>3. CASE q = Ready /\ p # Ready
      BY <1>2, <1>3, <1>5, <1>6, <2>2, <3>1, <3>3 DEF Lists, LinkedOnce
    <3>4. CASE p # Ready /\ q # Ready
      BY <1>2, <1>6, <2>2, <3>1, <3>4 DEF Lists, LinkedOnce
    <3> QED BY <3>2, <3>3, <3>4
  <2> QED BY <1>6, <2>1, <2>2 DEF Lists, LinkedOnce
<1>9. /\ condQ' \in [Routine -> WaitQueue \cup {NoQueue}]
      /\ state' \in [Routine -> State] /\ signalled' \in [Routine -> BOOLEAN]
      /\ \A s \in Routine : /\ state'[s] = IF s \in W THEN "READY" ELSE state[s]
                            /\ condQ'[s] = IF s \in W THEN NoQueue ELSE condQ[s]
                            /\ signalled'[s] = IF s \in W THEN TRUE ELSE signalled[s]
  <2>1. /\ condQ' = [s \in Routine |-> IF s \in W THEN NoQueue ELSE condQ[s]]
        /\ state' = [s \in Routine |-> IF s \in W THEN "READY" ELSE state[s]]
        /\ signalled' = [s \in Routine |-> IF s \in W THEN TRUE ELSE signalled[s]]
    BY <1>3 DEF Broadcast
  <2> QED BY <1>2, <2>1 DEF SchedTypeOK, SyncTypeOK, State
<1>10. /\ \A s \in Routine : s \in Range(queue'[Ready]) <=> s \in Range(queue[Ready]) \/ s \in W
       /\ \A s \in Routine : s \in Range(queue'[c]) <=> s \in Range(queue[c]) /\ s \notin W
       /\ \A s \in W : s \in Range(queue[c])
       /\ \A q \in WaitQueue : q # c => queue'[q] = queue[q]
  BY <1>3, <1>5, <1>6, <1>7, QueueFacts
<1> QED BY ONLY ZenonT(30), SyncInv, c \in Cond, <1>1, <1>3, <1>8, <1>9, <1>10, SyncWake

------------------------------------------------------------------------------
(***************************************************************************)
(* SyncInv is inductive, and what follows.                                 *)
(***************************************************************************)

LEMMA SyncStart == SyncInit => SyncInv
<1> SUFFICES ASSUME SyncInit PROVE SyncInv
  BY SMT
<1> USE DEF SyncInit, SchedInit
<1>1. Range(<<>>) = {} /\ IsInjective(<<>>) /\ <<>> \in Seq(Routine)
  BY SMT DEF Range, IsInjective
<1>2. \A q \in Queue : queue[q] = <<>>
  BY SMT
<1>4. SchedInv /\ SchedTypeOK
  BY SchedStart DEF SchedInv
<1>6. SyncTypeOK
  <2>1. NoCall \in Call
    BY DEF NoCall, Call
  <2> QED BY <1>4, <2>1 DEF SyncTypeOK
<1>7. ASSUME NEW r \in Routine PROVE ListInv(r) /\ WaitInv(r)
  <2>1. call[r].op = "none" /\ call[r].mutex = NoQueue
    BY DEF NoCall
  <2>2. ~OnCond(r) /\ \A m \in Mutex : r \notin Range(queue[m])
    BY <1>1, <1>2, QueueFacts DEF OnCond
  <2>3. ListInv(r)
    BY <2>1, <2>2 DEF ListInv
  <2>4. WaitInv(r)
    BY SMT, <2>1, <2>2 DEF WaitInv
  <2> QED BY <2>3, <2>4
<1>8. ASSUME NEW m \in Mutex PROVE MutexInv(m)
  BY <1>2, QueueFacts DEF MutexInv
<1> QED BY <1>4, <1>6, <1>7, <1>8 DEF SyncInv

LEMMA SyncNext ==
  ASSUME SyncInv, [Next]_vars
  PROVE  SyncInv'
<1>1. CASE UNCHANGED vars
  <2>1. UNCHANGED schedVars /\ UNCHANGED syncVars
        /\ UNCHANGED <<queue, state, heap, condQ, timedOut, pc>>
    BY <1>1 DEF vars, schedVars, fieldVars
  <2>2. SchedInv'
    BY <2>1, SchedStays DEF SyncInv
  <2>3. SyncTypeOK' /\ \A m \in Mutex : MutexInv(m)'
    BY <2>1, <2>2 DEF SyncInv, SchedInv, SyncTypeOK, MutexInv, syncVars
  <2>4. ASSUME NEW r \in Routine PROVE ListInv(r)' /\ (pc' # "destroyed" => WaitInv(r)')
    BY <2>1 DEF SyncInv, ListInv, WaitInv, OnCond, syncVars
  <2> QED BY <2>2, <2>3, <2>4 DEF SyncInv
<1>2. CASE SyncStep
  <2>1. CASE Resume
    BY <2>1, SyncLockReturn, SyncResume DEF Resume
  <2>2. CASE \E m \in Mutex : TryLock(m) \/ Lock(m) \/ Unlock(m)
    BY <2>2, SyncTryLock, SyncLock, SyncUnlock
  <2>3. CASE \E c \in Cond : Signal(c) \/ Broadcast(c)
    BY <2>3, SyncSignal, SyncBroadcast
  <2>4. CASE \E c \in Cond, m \in Mutex : CondWait(c, m)
    BY <2>4, SyncCondWait
  <2>5. CASE \E c \in Cond, m \in Mutex, d \in SleepTimes : TimedWait(c, m, d)
    BY <2>5, SyncTimedWait
  <2>6. CASE \E m \in Mutex, d \in SleepTimes : TimedWaitNoMem(m, d)
    BY <2>6, SyncTimedWaitNoMem
  <2> QED BY <1>2, <2>1, <2>2, <2>3, <2>4, <2>5, <2>6 DEF SyncStep
<1>3. CASE SchedStep
  <2>1. UNCHANGED syncVars
    BY <1>3 DEF SchedStep
  <2>2. CASE SchedulerStep
    <3>1. CASE \E r \in Routine : TimerStale(r) \/ TimerCond(r) \/ TimerIo(r) \/ TimerSleep(r)
      BY <2>1, <3>1, SyncTimerStale, SyncTimerCond, SyncTimerReady
    <3>2. CASE SampleNow \/ TimersDone \/ PollTimeout \/ Recheck
      BY <2>1, <3>2, SyncQuiet
    <3>3. CASE Schedule \/ SwitchBack
      BY <2>1, <3>3, SyncSchedule, SyncSwitchBack
    <3> QED BY <2>2, <3>1, <3>2, <3>3 DEF SchedulerStep
  <2>3. CASE Fault
    BY <2>1, <2>3, SyncQuiet, SyncSchedule DEF Fault
  <2>4. CASE RunStart \/ Tick \/ Destroy
    BY <2>1, <2>4, SyncQuiet, SyncDestroy
  <2>5. CASE \E r \in Routine : ClientSpawn(r)
    BY <2>1, <2>5, SyncSpawn DEF ClientSpawn
  <2>6. CASE ClientSuspend \/ ClientFinish \/ \E d \in SleepTimes : ClientSleepNoMem(d)
    BY <2>1, <2>6, SyncClient DEF ClientSuspend, ClientFinish, ClientSleepNoMem
  <2>7. CASE Gone
    BY <1>1, <2>1, <2>7 DEF Gone, vars
  <2> QED BY <1>3, <2>2, <2>3, <2>4, <2>5, <2>6, <2>7 DEF SchedStep
<1> QED BY <1>1, <1>2, <1>3 DEF Next

(* The inductive invariant of the scheduler with mutexes and condition     *)
(* variables, under every fault the model has.                             *)
THEOREM SyncInvariant == Spec => []SyncInv
<1>1. SyncInit => SyncInv
  BY SyncStart
<1>2. SyncInv /\ [Next]_vars => SyncInv'
  BY SyncNext
<1> QED BY <1>1, <1>2, PTL DEF Spec

(* Every variable keeps its type.                                          *)
THEOREM TypeCorrect == Spec => []SyncTypeOK
<1>1. SyncInv => SyncTypeOK
  BY DEF SyncInv
<1> QED BY <1>1, SyncInvariant, PTL

(* The one queue_node of a coroutine is never linked twice (the comment at *)
(* the head of co_mutex.c).                                                *)
THEOREM LinkedAtMostOnce == Spec => []NodeLinkedOnce
<1>1. SyncInv => NodeLinkedOnce
  BY DEF SyncInv, SchedInv
<1> QED BY <1>1, SyncInvariant, PTL

(* The state field agrees with the lists.                                  *)
THEOREM ListsMatchState == Spec => []StateMatchesLists
<1>1. SyncInv => StateMatchesLists
  BY DEF SyncInv, SchedInv
<1> QED BY <1>1, SyncInvariant, PTL

(* co_scheduler_schedule never frees a coroutine that something still      *)
(* points to.                                                              *)
THEOREM NothingDangles == Spec => []NoDanglingPointer
<1>1. SyncInv => NoDanglingPointer
  BY DEF SyncInv, SchedInv
<1> QED BY <1>1, SyncInvariant, PTL

(* The assertion at the end of co_mutex_lock never fails.                  *)
THEOREM HandoffHolds == Spec => []HandoffAssertion
<1>1. SyncInv => HandoffAssertion
  <2> SUFFICES ASSUME SyncInv, NEW m \in Mutex, pc = "coroutine", call[current] = InLock(m)
               PROVE  locked[m] /\ owner[m] = current
    BY DEF HandoffAssertion
  <2>1. /\ current \in Routine /\ ListInv(current)
        /\ \A q \in WaitQueue : current \notin Range(queue[q])
    BY RunningFacts, SyncFacts
  <2>2. call[current].op = "lock" /\ call[current].mutex = m
    BY SMTT(30) DEF InLock
  <2> QED BY <2>1, <2>2, QueueFacts DEF ListInv
<1> QED BY <1>1, SyncInvariant, PTL

(* At most one client has a mutex, and it is the recorded owner.           *)
THEOREM MutexesExclude == Spec => []MutualExclusion
<1>1. SyncInv => MutualExclusion
  BY DEF SyncInv, MutexInv, MutualExclusion
<1> QED BY <1>1, SyncInvariant, PTL

(* co_mutex_unlock hands over: nobody waits for a free mutex.              *)
THEOREM WaitersHaveAnOwner == Spec => []NoWaiterOnFreeMutex
<1>1. SyncInv => NoWaiterOnFreeMutex
  BY DEF SyncInv, MutexInv, NoWaiterOnFreeMutex
<1> QED BY <1>1, SyncInvariant, PTL

(* Who waits in co_mutex_lock is in no condition's queue and has no timer, *)
(* so that no signal and no timeout reaches it.                            *)
LEMMA LockedOutFacts ==
  ASSUME SyncInv, pc # "destroyed", NEW r \in Routine, call[r].op = "lock"
  PROVE  /\ ~OnCond(r) /\ ~(heap[r] > 0) /\ state[r] # "FREE"
         /\ InCoroutineCode => r # current
  BY SyncFacts, ClientHasNoTimer DEF ListInv, WaitInv

LEMMA OutcomeClient ==
  ASSUME SyncInv, SyncStep, NEW r \in Routine, call[r].op = "lock"
  PROVE  timedOut'[r] = timedOut[r] /\ signalled'[r] = signalled[r]
<1>1. /\ pc \in {"idle", "coroutine"}
      /\ timedOut \in [Routine -> BOOLEAN] /\ signalled \in [Routine -> BOOLEAN]
      /\ queue \in [Queue -> Seq(Routine)]
  BY DEF SyncInv, SyncTypeOK, SchedTypeOK, SyncStep, Resume, LockReturn, WaitResume,
         TimedWaitResume, TryLock, Lock, Unlock, Signal, Broadcast, CondWait, TimedWait,
         TimedWaitNoMem, InClientCode, InCoroutineCode
<1>2. ~OnCond(r) /\ (InCoroutineCode => r # current)
  BY <1>1, LockedOutFacts
<1>3. ASSUME NEW m \in Mutex,
             LockReturn(m) \/ WaitResume(m) \/ TimedWaitResume(m) \/ TryLock(m) \/ Lock(m) \/ Unlock(m)
      PROVE  timedOut' = timedOut /\ signalled' = signalled
  BY <1>3 DEF LockReturn, WaitResume, TimedWaitResume, TryLock, Lock, Unlock, schedVars, fieldVars
<1>4. ASSUME NEW m \in Mutex,
             \/ \E c \in Cond : CondWait(c, m)
             \/ \E c \in Cond, d \in SleepTimes : TimedWait(c, m, d)
             \/ \E d \in SleepTimes : TimedWaitNoMem(m, d)
      PROVE  timedOut'[r] = timedOut[r] /\ signalled'[r] = signalled[r]
  BY <1>1, <1>2, <1>4 DEF CondWait, TimedWait, TimedWaitNoMem, fieldVars, syncVars
<1>5. ASSUME NEW c \in Cond, Signal(c)
      PROVE  timedOut'[r] = timedOut[r] /\ signalled'[r] = signalled[r]
  <2>1. Head(queue[c]) \in Range(queue[c])
    <3>1. queue[c] \in Seq(Routine) /\ queue[c] # <<>>
      BY <1>1, <1>5, QueueFacts DEF Signal
    <3> QED BY ONLY SMTT(30), <3>1 DEF Range
  <2>2. r # Head(queue[c])
    BY <1>2, <2>1 DEF OnCond
  <2> QED BY <1>1, <1>5, <2>2 DEF Signal
<1>6. ASSUME NEW c \in Cond, Broadcast(c)
      PROVE  timedOut'[r] = timedOut[r] /\ signalled'[r] = signalled[r]
  <2>1. r \notin Range(queue[c])
    BY <1>2 DEF OnCond
  <2> QED BY <1>6, <2>1 DEF Broadcast
<1> QED BY <1>3, <1>4, <1>5, <1>6 DEF SyncStep, Resume

LEMMA OutcomeSched ==
  ASSUME SyncInv, SchedStep, NEW r \in Routine, call[r].op = "lock"
  PROVE  timedOut'[r] = timedOut[r] /\ signalled'[r] = signalled[r]
<1>1. signalled' = signalled /\ timedOut \in [Routine -> BOOLEAN]
  BY DEF SchedStep, syncVars, SyncInv, SyncTypeOK, SchedTypeOK
<1>2. ASSUME NEW s \in Routine, TimerCond(s) \/ TimerIo(s) PROVE timedOut'[r] = timedOut[r]
  <2>1. pc = "timers" /\ heap[s] > 0
    BY <1>2 DEF TimerCond, TimerIo, Expired
  <2>2. s # r
    BY <2>1, LockedOutFacts
  <2> QED BY <1>1, <1>2, <2>2 DEF TimerCond, TimerIo
<1>3. ASSUME NEW s \in Routine, Spawn(s) PROVE timedOut'[r] = timedOut[r]
  <2>1. s # r
    BY <1>3, LockedOutFacts DEF Spawn
  <2> QED BY <1>1, <1>3, <2>1 DEF Spawn
<1>4. \/ timedOut' = timedOut
      \/ \E s \in Routine : TimerCond(s) \/ TimerIo(s) \/ Spawn(s)
  BY DEF SchedStep, SchedulerStep, SampleNow, TimerStale, TimerSleep, TimersDone, PollTimeout,
         Recheck, Schedule, SwitchBack, Fault, PollInterrupted, ScheduleError, RunStart, Destroy,
         Tick, Gone, ClientSpawn, ClientSuspend, ClientFinish, ClientSleepNoMem, Yield, Sleep,
         SleepNoMem, Finish, schedVars, fieldVars
<1> QED BY <1>1, <1>2, <1>3, <1>4

(* co_cond_timedwait reports a timeout exactly when no signal picked it,   *)
(* also when it has to wait for the mutex before it returns.               *)
THEOREM TimedWaitOutcome == Spec => TimeoutXorSignal
<1>1. SyncInv' => WokenByOneOf'
  BY DEF SyncInv, ListInv, OnCond, WokenByOneOf
<1>2. SyncInv /\ SyncInv' /\ [Next]_vars => [WokenByOneOf' /\ OutcomeKept]_vars
  BY <1>1, OutcomeClient, OutcomeSched DEF Next, OutcomeKept
<1> QED BY <1>2, SyncInvariant, PTL DEF Spec, TimeoutXorSignal

------------------------------------------------------------------------------
(* The key of a heap entry never changes: every step that writes           *)
(* wakeup_time writes that of a routine that is not in the timer heap.     *)
THEOREM KeysAreStable == Spec => TimerKeyStable
<1> DEFINE Stable == \A r \in Routine : heap[r] > 0 /\ heap'[r] > 0 => wakeup'[r] = wakeup[r]
<1>1. ASSUME SyncInv, [Next]_vars PROVE [Stable]_schedVars
  <2>1. CASE wakeup' = wakeup
    BY <2>1
  <2>2. CASE \E r \in Routine : ClientSpawn(r)
    <3>1. PICK r \in Routine : Spawn(r)
      BY <2>2 DEF ClientSpawn
    <3>2. SchedTypeOK /\ RoutineOK(r) /\ state[r] = "FREE" /\ wakeup' = [wakeup EXCEPT ![r] = 0]
      BY <1>1, <3>1, SyncFacts DEF Spawn
    <3> QED BY SMT, <3>2 DEF RoutineOK, SchedTypeOK
  <2>3. CASE InCoroutineCode /\ \E t : wakeup' = [wakeup EXCEPT ![current] = t]
    <3>1. heap[current] = 0 /\ wakeup \in [Routine -> Nat]
      BY <1>1, <2>3, ClientHasNoTimer DEF SyncInv, SyncTypeOK, SchedTypeOK
    <3> QED BY SMTT(30), <2>3, <3>1
  <2>4. \/ wakeup' = wakeup
        \/ \E r \in Routine : ClientSpawn(r)
        \/ InCoroutineCode /\ \E t : wakeup' = [wakeup EXCEPT ![current] = t]
    <3>1. CASE SyncStep
      BY <3>1
      DEF SyncStep, Resume, LockReturn, WaitResume, TimedWaitResume, TryLock, Lock, Unlock,
          Signal, Broadcast, CondWait, TimedWait, TimedWaitNoMem, schedVars, fieldVars
    <3>2. CASE SchedStep
      <4>1. CASE SchedulerStep \/ Fault \/ RunStart \/ Destroy \/ Tick \/ Gone
        BY <4>1
        DEF SchedulerStep, SampleNow, TimerStale, TimerCond, TimerIo, TimerSleep, TimersDone,
            PollTimeout, Recheck, Schedule, SwitchBack, Fault, PollInterrupted, ScheduleError,
            RunStart, Destroy, Tick, Gone, schedVars, fieldVars
      <4>2. CASE ClientSuspend \/ ClientFinish \/ \E d \in SleepTimes : ClientSleepNoMem(d)
        BY <4>2
        DEF ClientSuspend, ClientFinish, ClientSleepNoMem, Yield, Sleep, SleepNoMem, Finish, fieldVars
      <4> QED BY <3>2, <4>1, <4>2 DEF SchedStep
    <3>3. CASE UNCHANGED vars
      BY <3>3 DEF vars, schedVars, fieldVars
    <3> QED BY <1>1, <3>1, <3>2, <3>3 DEF Next
  <2> QED BY <2>1, <2>2, <2>3, <2>4
<1> QED BY <1>1, SyncInvariant, PTL DEF Spec, TimerKeyStable

------------------------------------------------------------------------------
(* Without a failed context switch.                                        *)

(* Only co_scheduler_schedule marks a routine RUNNING, and the coroutine   *)
(* that leaves the processor has another state.                            *)
LEMMA NoFaultKeeps ==
  ASSUME NoFaultInv,
         \A r \in Routine : state'[r] = "RUNNING" =>
           state[r] = "RUNNING" /\ (pc = "coroutine" /\ r = current => pc' = pc /\ current' = current),
         pc' = "idle" => \A r \in Routine : heap'[r] = 0
  PROVE  NoFaultInv'
  BY DEF NoFaultInv, HeapEmpty

LEMMA NoFaultClient ==
  ASSUME SyncInv, NoFaultInv, SwapMayFail = FALSE, SyncStep
  PROVE  NoFaultInv'
<1>0. SchedTypeOK /\ ControlInv /\ (pc = "idle" => \A r \in Routine : heap[r] = 0)
  BY DEF SyncInv, SchedInv, NoFaultInv, HeapEmpty
<1>1. ASSUME NEW m \in Mutex, LockReturn(m) \/ TryLock(m) PROVE NoFaultInv'
  BY <1>1 DEF LockReturn, TryLock, schedVars, NoFaultInv, HeapEmpty
<1>2. ASSUME NEW m \in Mutex, WaitForMutex(m), pc = "coroutine" PROVE NoFaultInv'
  <2>1. \A r \in Routine : state'[r] = IF r = current THEN "WAITING" ELSE state[r]
    BY <1>0, <1>2 DEF WaitForMutex, SchedTypeOK
  <2>2. pc' = "back"
    BY <1>2 DEF WaitForMutex, SwapToMain
  <2> QED BY <2>1, <2>2, NoFaultKeeps
<1>3. ASSUME NEW m \in Mutex, WaitResume(m) \/ TimedWaitResume(m) PROVE NoFaultInv'
  <2>1. pc = "coroutine" /\ Reacquire(m)
    BY <1>3 DEF WaitResume, TimedWaitResume
  <2>2. CASE UNCHANGED <<state, queue, current, pc>>
    BY <2>1, <2>2, NoFaultKeeps
  <2> QED BY <1>2, <2>1, <2>2 DEF Reacquire
<1>4. ASSUME NEW m \in Mutex, Lock(m) PROVE NoFaultInv'
  BY <1>2, <1>4 DEF Lock, InCoroutineCode
<1>5. ASSUME NEW m \in Mutex, NEW q, NEW st \in [Routine -> State], Release(m, q, st)
      PROVE  \A r \in Routine : state'[r] = "RUNNING" => st[r] = "RUNNING"
  BY <1>5 DEF Release
<1>6. ASSUME NEW m \in Mutex, Unlock(m) PROVE NoFaultInv'
  <2>1. \A r \in Routine : state'[r] = "RUNNING" => state[r] = "RUNNING"
    BY <1>0, <1>5, <1>6 DEF Unlock, SchedTypeOK
  <2>2. pc' = pc /\ current' = current /\ heap' = heap
    BY <1>6 DEF Unlock
  <2> QED BY <1>0, <2>1, <2>2, NoFaultKeeps
<1>7. ASSUME NEW c \in Cond, NEW m \in Mutex, CondWait(c, m) \/ \E d \in SleepTimes : TimedWait(c, m, d)
      PROVE  NoFaultInv'
  <2> DEFINE st == [state EXCEPT ![current] = "WAITING"]
  <2>1. pc' = "back" /\ Release(m, Block(queue, c), st)
    BY <1>7 DEF CondWait, TimedWait, SwapToMain
  <2>2. st \in [Routine -> State] /\ \A r \in Routine : st[r] = IF r = current THEN "WAITING" ELSE state[r]
    BY <1>0 DEF SchedTypeOK, State
  <2> HIDE DEF st
  <2>3. \A r \in Routine : state'[r] = "RUNNING" => st[r] = "RUNNING"
    BY <1>5, <2>1, <2>2
  <2> QED BY <2>1, <2>2, <2>3, NoFaultKeeps
<1>8. ASSUME NEW m \in Mutex, NEW d \in SleepTimes, TimedWaitNoMem(m, d) PROVE NoFaultInv'
  <2>1. /\ \A r \in Routine : state'[r] = IF r = current THEN "READY" ELSE state[r]
        /\ pc' = "coroutine"
    BY <1>0, <1>8 DEF TimedWaitNoMem, InCoroutineCode, SchedTypeOK
  <2> QED BY <2>1, NoFaultKeeps
<1>9. ASSUME NEW c \in Cond, Signal(c) \/ Broadcast(c) PROVE NoFaultInv'
  <2>1. \A r \in Routine : state'[r] = "RUNNING" => state[r] = "RUNNING"
    BY <1>0, <1>9 DEF Signal, Broadcast, SchedTypeOK
  <2>2. pc' = pc /\ current' = current /\ heap' = heap
    BY <1>9 DEF Signal, Broadcast
  <2> QED BY <1>0, <2>1, <2>2, NoFaultKeeps
<1> QED BY <1>1, <1>3, <1>4, <1>6, <1>7, <1>8, <1>9 DEF SyncStep, Resume

LEMMA NoFaultSched ==
  ASSUME SyncInv, NoFaultInv, SwapMayFail = FALSE, SchedStep
  PROVE  NoFaultInv'
<1>0. /\ SchedTypeOK /\ ControlInv /\ (pc = "idle" => \A r \in Routine : heap[r] = 0)
      /\ NoRoutine \notin Routine
  BY QueueAssumption DEF SyncInv, SchedInv, NoFaultInv, HeapEmpty
<1>1. CASE RunStart \/ SampleNow \/ TimersDone \/ PollTimeout \/ PollInterrupted \/ Recheck \/ Tick \/ Gone
  <2>1. state' = state /\ heap' = heap /\ current' = current
    BY <1>1
       DEF RunStart, SampleNow, TimersDone, PollTimeout, PollInterrupted, Recheck, Tick, Gone, schedVars
  <2>2. pc' = "idle" => \A r \in Routine : heap[r] = 0
    BY <1>0, <1>1
       DEF RunStart, SampleNow, TimersDone, PollTimeout, PollInterrupted, Recheck, Tick, Gone,
                      HeapEmpty, schedVars
  <2>3. pc' = pc \/ pc # "coroutine"
    BY <1>1
       DEF RunStart, SampleNow, TimersDone, PollTimeout, PollInterrupted, Recheck, Tick, Gone, schedVars
  <2> QED BY <2>1, <2>2, <2>3, NoFaultKeeps
<1>2. ASSUME NEW r \in Routine, TimerStale(r) \/ TimerCond(r) \/ TimerIo(r) \/ TimerSleep(r)
      PROVE  NoFaultInv'
  <2>1. \A s \in Routine : state'[s] = "RUNNING" => state[s] = "RUNNING"
    BY <1>0, <1>2 DEF TimerStale, TimerCond, TimerIo, TimerSleep, SchedTypeOK
  <2>2. pc = "timers" /\ pc' = "timers"
    BY <1>2 DEF TimerStale, TimerCond, TimerIo, TimerSleep, Expired
  <2> QED BY <2>1, <2>2, NoFaultKeeps
<1>3. CASE Schedule
  <2>1. /\ pc = "schedule" /\ pc' = "coroutine"
        /\ \A s \in Routine : state'[s] = "RUNNING" => s = current' \/ state[s] = "RUNNING"
    BY <1>0, <1>3 DEF Schedule, SchedTypeOK
  <2> QED BY <2>1 DEF NoFaultInv
<1>4. CASE SwitchBack
  <2>1. /\ pc = "back" /\ pc' = "loop"
        /\ \A s \in Routine : state'[s] = "RUNNING" => state[s] = "RUNNING"
    BY <1>0, <1>4 DEF SwitchBack, SchedTypeOK
  <2> QED BY <2>1, NoFaultKeeps
<1>5. CASE Destroy
  <2>1. /\ pc = "idle" /\ pc' = "destroyed"
        /\ \A s \in Routine : state'[s] = "RUNNING" => state[s] = "RUNNING"
    BY <1>0, <1>5 DEF Destroy
  <2> QED BY <2>1, NoFaultKeeps
<1>6. ASSUME NEW r \in Routine, Spawn(r) PROVE NoFaultInv'
  <2>1. /\ pc' = pc /\ current' = current /\ heap' = heap
        /\ \A s \in Routine : state'[s] = "RUNNING" => state[s] = "RUNNING"
    BY <1>0, <1>6 DEF Spawn, SchedTypeOK
  <2> QED BY <1>0, <2>1, NoFaultKeeps
<1>7. ASSUME pc = "coroutine", pc' \in {"coroutine", "back"}, NEW v, v # "RUNNING",
             state' = [state EXCEPT ![current] = v]
      PROVE  NoFaultInv'
  <2>1. \A s \in Routine : state'[s] = IF s = current THEN v ELSE state[s]
    BY <1>0, <1>7 DEF SchedTypeOK
  <2> QED BY <1>7, <2>1, NoFaultKeeps
<1>8. CASE Yield \/ Finish \/ \E d \in SleepTimes : Sleep(d) \/ SleepNoMem(d)
  BY <1>7, <1>8 DEF Yield, Finish, Sleep, SleepNoMem, SwapToMain
<1> QED
  BY <1>1, <1>2, <1>3, <1>4, <1>5, <1>6, <1>8
  DEF SchedStep, SchedulerStep, Fault, ScheduleError, ClientSpawn, ClientSuspend, ClientFinish,
      ClientSleepNoMem

(* A run that meets no failed switch returns only from the end of its      *)
(* loop, so that no timer and no RUNNING coroutine is left.                *)
THEOREM NoFaultInvariant == Spec => []NoFaultInv
<1>1. SyncInit => NoFaultInv
  BY DEF SyncInit, SchedInit, NoFaultInv, HeapEmpty
<1>2. SyncInv /\ NoFaultInv /\ [Next]_vars => NoFaultInv'
  <2> SUFFICES ASSUME SyncInv, NoFaultInv, [Next]_vars PROVE NoFaultInv'
    BY SMT
  <2>1. CASE UNCHANGED vars
    BY <2>1 DEF vars, schedVars, NoFaultInv, HeapEmpty
  <2>2. CASE SwapMayFail
    BY <2>2 DEF NoFaultInv
  <2>3. CASE SwapMayFail = FALSE /\ Next
    BY <2>3, NoFaultClient, NoFaultSched DEF Next
  <2> QED BY <2>1, <2>2, <2>3, FaultAssumption
<1> QED BY <1>1, <1>2, SyncInvariant, PTL DEF Spec

(* What is neither ready nor in the timer heap when control is in the main *)
(* program or at the end of the loop.                                      *)
LEMMA LeftBehind ==
  ASSUME SyncInv, NoFaultInv, pc \in {"idle", "recheck"},
         NEW r \in Routine, r \notin Range(queue[Ready]), heap[r] = 0
  PROVE  /\ state[r] \in {"FREE", "WAITING", "RUNNING"}
         /\ state[r] = "RUNNING" => SwapMayFail
         /\ state[r] = "WAITING" => \E q \in WaitQueue : r \in Range(queue[q])
<1>1. /\ SchedTypeOK /\ StateMatchesLists /\ ControlInv
      /\ WaitInv(r) /\ ListInv(r) /\ SyncTypeOK
  BY DEF SyncInv, SchedInv
<1>2. state[r] \in State /\ state[r] # "READY" /\ state[r] # "DEAD"
  BY <1>1 DEF SchedTypeOK, StateMatchesLists, ControlInv
<1>3. state[r] = "RUNNING" => SwapMayFail
  BY DEF NoFaultInv
<1>4. ASSUME state[r] = "WAITING" PROVE \E q \in WaitQueue : r \in Range(queue[q])
  <2>1. \/ call[r].op = "lock" /\ r \in Range(queue[call[r].mutex])
        \/ OnCond(r)
    <3>1. heap[r] # 1
      BY SMT
    <3> QED BY <1>1, <1>4, <3>1 DEF WaitInv
  <2>2. call[r].op = "lock" => call[r].mutex \in Mutex
    BY <1>1 DEF SyncTypeOK, Call, ListInv
  <2> QED BY <2>1, <2>2, SyncAssumption DEF OnCond
<1> QED BY <1>2, <1>3, <1>4 DEF State

(* Only the end of the loop and a failed switch end co_scheduler_run, and  *)
(* only co_scheduler_destroy destroys.                                     *)
LEMMA WhoEnds ==
  ASSUME Next
  PROVE  /\ pc = "recheck" /\ pc' = "idle" => Recheck
         /\ pc = "idle" /\ pc' = "destroyed" => Destroy
<1>1. CASE SchedStep
  <2>1. \/ Recheck \/ Destroy
        \/ pc \notin {"recheck", "idle"}
        \/ pc' \notin {"idle", "destroyed"}
        \/ pc' = pc
    BY <1>1
       DEF SchedStep, SchedulerStep, Fault, ClientSpawn, ClientSuspend, ClientFinish,
           ClientSleepNoMem, RunStart, SampleNow, TimerStale, TimerCond, TimerIo, TimerSleep,
           Expired, TimersDone, PollTimeout, PollInterrupted, Schedule, ScheduleError, SwitchBack,
           Tick, Spawn, Yield, Sleep, SleepNoMem, Finish, Gone, InCoroutineCode, SwapToMain,
           schedVars
  <2>2. Recheck => pc = "recheck" /\ pc' \in {"idle", "loop"}
    BY DEF Recheck
  <2>3. Destroy => pc = "idle"
    BY DEF Destroy
  <2> QED BY <2>1, <2>2, <2>3
<1>2. CASE SyncStep
  BY <1>2
     DEF SyncStep, Resume, LockReturn, WaitResume, TimedWaitResume, TryLock, Lock, Unlock, Signal,
         Broadcast, CondWait, TimedWait, TimedWaitNoMem, InClientCode, InCoroutineCode, schedVars
<1> QED BY <1>1, <1>2 DEF Next

(* The coroutines that co_scheduler_run leaves behind when it returns      *)
(* CO_OK are blocked on a mutex or a condition variable, without a timer.  *)
THEOREM RunLeaves == Spec => RunLeavesOnlyBlocked
<1> DEFINE A == pc = "recheck" /\ pc' = "idle" =>
                  \A r \in Routine :
                    /\ heap[r] = 0
                    /\ state[r] \in {"FREE", "WAITING", "RUNNING"}
                    /\ state[r] = "RUNNING" => SwapMayFail
                    /\ state[r] = "WAITING" => \E q \in WaitQueue : r \in Range(queue[q])
<1>1. SyncInv /\ NoFaultInv /\ [Next]_vars => [A]_vars
  <2> SUFFICES ASSUME SyncInv, NoFaultInv, Next, pc = "recheck", pc' = "idle", NEW r \in Routine
               PROVE  /\ heap[r] = 0
                      /\ state[r] \in {"FREE", "WAITING", "RUNNING"}
                      /\ state[r] = "RUNNING" => SwapMayFail
                      /\ state[r] = "WAITING" => \E q \in WaitQueue : r \in Range(queue[q])
    BY SMT
  <2>1. queue[Ready] = <<>> /\ heap[r] = 0
    BY WhoEnds DEF Recheck, HeapEmpty
  <2>2. r \notin Range(queue[Ready])
    BY SMT, <2>1 DEF Range
  <2> QED BY <2>1, <2>2, LeftBehind
<1>2. Spec => [][A]_vars
  BY <1>1, SyncInvariant, NoFaultInvariant, PTL DEF Spec
<1> QED BY <1>2 DEF RunLeavesOnlyBlocked

(* What co_scheduler_destroy does not free is blocked on a mutex or a      *)
(* condition variable, or was lost to a failed context switch.             *)
THEOREM DestroyLeaves == Spec => DestroyLeavesBlocked
<1> DEFINE A == pc = "idle" /\ pc' = "destroyed" =>
                  \A r \in Routine : state'[r] # "FREE" =>
                    /\ heap[r] = 0
                    /\ \/ \E q \in WaitQueue : r \in Range(queue'[q])
                       \/ SwapMayFail /\ state[r] = "RUNNING"
<1>1. SyncInv /\ NoFaultInv /\ [Next]_vars => [A]_vars
  <2> SUFFICES ASSUME SyncInv, NoFaultInv, Next, pc = "idle", pc' = "destroyed",
                      NEW r \in Routine, state'[r] # "FREE"
               PROVE  /\ heap[r] = 0
                      /\ \/ \E q \in WaitQueue : r \in Range(queue'[q])
                         \/ SwapMayFail /\ state[r] = "RUNNING"
    BY SMT
  <2>1. Destroy /\ queue \in [Queue -> Seq(Routine)] /\ heap[r] \in Nat
    BY WhoEnds DEF SyncInv, SyncTypeOK, SchedTypeOK
  <2>2. r \notin Range(queue[Ready]) /\ ~(heap[r] > 0) /\ state'[r] = state[r]
    BY <2>1 DEF Destroy
  <2>3. heap[r] = 0
    BY ONLY SMTT(30), <2>1, <2>2
  <2>4. \A q \in WaitQueue : queue'[q] = queue[q]
    BY <2>1, QueueFacts DEF Destroy
  <2> QED BY <2>2, <2>3, <2>4, LeftBehind
<1>2. Spec => [][A]_vars
  BY <1>1, SyncInvariant, NoFaultInvariant, PTL DEF Spec
<1> QED BY <1>2 DEF DestroyLeavesBlocked

==============================================================================
