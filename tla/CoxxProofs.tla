----------------------------- MODULE CoxxProofs ------------------------------
(***************************************************************************)
(* The C++ layer keeps the rules of CoSync, so that SyncInv holds of it;   *)
(* with SyncInv, LayerInv is inductive, for any number of coroutines and   *)
(* tokens, and the properties of the layer follow.                         *)
(*                                                                         *)
(* First that every step of the layer is a step of CoSync, and when a step *)
(* preserves SleepInv and TokenInv; then that each function of the layer   *)
(* and each step of the scheduler preserves LayerInv.                      *)
(***************************************************************************)
EXTENDS Coxx, CoSyncProofs

(* The leaves that name no other prover are for Zenon.                     *)
USE ZenonT(30)

LEMMA ObjectFacts ==
  /\ \A x \in Object : MutexOf(x) \in Mutex /\ CondOf(x) \in Cond
  /\ \A m \in Mutex : \E x \in Object : m = MutexOf(x)
  /\ \A x, y : MutexOf(x) = MutexOf(y) => x = y
  /\ \A x, y : CondOf(x) = CondOf(y) => x = y
  /\ \A x \in Token : x \in Object /\ x # Group /\ x # NoToken
  /\ Group \in Object /\ NoToken \notin Object
  BY CoxxAssumption DEF Object, MutexOf, CondOf

LEMMA InFacts ==
  /\ \A op, x : In(op, x).op = op /\ In(op, x).obj = x
  /\ Body.op = "body" /\ Body.obj = NoToken
  /\ Ended.op = "ended" /\ Ended.obj = NoToken
  BY DEF In, Body, Ended

LEMMA AtFacts ==
  ASSUME LayerTypeOK, NEW x \in Caller
  PROVE  /\ at[x].op \in Op /\ at[x].obj \in Object \cup {NoToken}
         /\ \A op, y : at[x] = In(op, y) <=> at[x].op = op /\ at[x].obj = y
<1>1. at[x] \in [op : Op, obj : Object \cup {NoToken}]
  BY DEF LayerTypeOK
<1> QED BY SMT, <1>1 DEF In

(* Where control is, and the types that the steps need.                    *)
LEMMA ControlFacts ==
  ASSUME SyncInv, LayerInv
  PROVE  /\ current \in Caller /\ NoRoutine \notin Routine
         /\ pc = "idle" => current = NoRoutine
         /\ pc = "coroutine" => current \in Routine
         /\ InClientCode => pc \in {"idle", "coroutine"}
         /\ locked \in [Mutex -> BOOLEAN] /\ held \in [Mutex -> SUBSET Caller]
         /\ call \in [Routine -> Call] /\ state \in [Routine -> State]
         /\ queue \in [Queue -> Seq(Routine)]
         /\ at \in [Caller -> [op : Op, obj : Object \cup {NoToken}]]
         /\ \A m \in Mutex : ~locked[m] => held[m] = {}
<1>1. SyncTypeOK /\ SchedTypeOK /\ ControlInv /\ \A m \in Mutex : MutexInv(m)
  BY DEF SyncInv, SyncTypeOK, SchedInv
<1> USE <1>1
<1>2. pc = "idle" => current = NoRoutine
  BY DEF ControlInv
<1>3. pc = "coroutine" => current \in Routine
  BY DEF ControlInv, SchedTypeOK
<1>4. \A m \in Mutex : ~locked[m] => held[m] = {}
  BY DEF MutexInv
<1> QED
  BY <1>2, <1>3, <1>4, QueueAssumption
  DEF SyncTypeOK, SchedTypeOK, Caller, InClientCode, LayerInv, LayerTypeOK

(* Outside the functions of the layer every mutex is free.                 *)
LEMMA BodyIsFree ==
  ASSUME SyncInv, LayerInv, at[current].obj = NoToken, NEW m \in Mutex
  PROVE  ~locked[m] /\ held[m] = {}
<1>1. LockInv(m)
  BY DEF LayerInv, SleepInv
<1> QED BY <1>1, ControlFacts, ObjectFacts DEF LockInv

(* A suspended coroutine has no mutex.                                     *)
LEMMA SuspendedIsFree ==
  ASSUME SyncInv, LayerInv, ~InClientCode, NEW m \in Mutex
  PROVE  ~locked[m] /\ held[m] = {}
<1>1. LockInv(m)
  BY DEF LayerInv, SleepInv
<1> QED BY <1>1, ControlFacts DEF LockInv

------------------------------------------------------------------------------
(* What the calls of CoSync do when they are made by the layer.            *)

LEMMA EnterEffect ==
  ASSUME SyncInv, LayerInv, NEW op, NEW x \in Object, Enter(op, x)
  PROVE  TryLock(MutexOf(x))
<1>1. at[current].obj = NoToken
  BY InFacts DEF Enter
<1>2. ~locked[MutexOf(x)]
  BY <1>1, BodyIsFree, ObjectFacts
<1> QED BY <1>2 DEF Enter, Lock, WaitForMutex

LEMMA UnlockEffect ==
  ASSUME SyncInv, LayerInv, NEW m \in Mutex, Unlock(m)
  PROVE  /\ locked' = [locked EXCEPT ![m] = FALSE]
         /\ held' = [held EXCEPT ![m] = @ \ {current}]
         /\ UNCHANGED <<schedVars, call>>
<1>1. queue[m] = <<>>
  BY DEF LayerInv, SleepInv, LockInv
<1> QED BY <1>1 DEF Unlock, Release, schedVars, fieldVars

LEMMA WaitEffect ==
  ASSUME SyncInv, LayerInv, NEW x \in Object, CondWait(CondOf(x), MutexOf(x))
  PROVE  /\ locked' = [locked EXCEPT ![MutexOf(x)] = FALSE]
         /\ held' = [held EXCEPT ![MutexOf(x)] = @ \ {current}]
         /\ queue' = [queue EXCEPT ![CondOf(x)] = Append(@, current)]
         /\ state' = [state EXCEPT ![current] = "WAITING"]
         /\ call' = [call EXCEPT ![current] = InWait(MutexOf(x))]
         /\ pc = "coroutine" /\ pc' = "back" /\ current' = current
<1> DEFINE m == MutexOf(x)
           c == CondOf(x)
<1>1. m \in Mutex /\ c \in Cond /\ c # m /\ m \in Queue /\ c \in Queue
  BY ObjectFacts, QueueFacts
<1>2. queue[m] = <<>> /\ queue \in [Queue -> Seq(Routine)]
  BY <1>1, ControlFacts DEF LayerInv, SleepInv, LockInv
<1>3. Block(queue, c)[m] = <<>>
  BY <1>1, <1>2 DEF Block
<1> HIDE DEF m, c
<1>4. /\ locked' = [locked EXCEPT ![m] = FALSE]
      /\ queue' = Block(queue, c)
      /\ state' = [state EXCEPT ![current] = "WAITING"]
  BY <1>3 DEF CondWait, Release, m, c
<1> QED BY <1>4 DEF CondWait, SwapToMain, InCoroutineCode, Block, m, c

LEMMA ResumeEffect ==
  ASSUME SyncInv, LayerInv, Resume
  PROVE  /\ pc = "coroutine" /\ current \in Routine
         /\ call' = [call EXCEPT ![current] = NoCall]
         /\ locked' = [locked EXCEPT ![MutexOf(at[current].obj)] = TRUE]
         /\ held' = [held EXCEPT ![MutexOf(at[current].obj)] = @ \cup {current}]
         /\ at[current].obj \in Object
         /\ UNCHANGED <<state, queue, current, pc>>
<1>1. PICK m \in Mutex : LockReturn(m) \/ WaitResume(m) \/ TimedWaitResume(m)
  BY DEF Resume
<1>2. pc = "coroutine" /\ current \in Routine /\ CallInv(current)
  BY <1>1, ControlFacts DEF LockReturn, WaitResume, TimedWaitResume, LayerInv, SleepInv
<1> USE <1>2
<1>3. /\ call[current].op = "wait" /\ call[current].mutex = m
      /\ WaitResume(m)
  BY SMT, <1>1
  DEF LockReturn, WaitResume, TimedWaitResume, CallInv, InLock, InWait, InTimedWait
<1>4. at[current].obj \in Object /\ m = MutexOf(at[current].obj)
  BY <1>3 DEF CallInv
<1>5. ~InClientCode
  BY SMT, <1>3 DEF InClientCode, NoCall
<1>6. ~locked[m]
  BY <1>5, SuspendedIsFree
<1> QED BY <1>3, <1>4, <1>6 DEF WaitResume, Reacquire, TakeMutex, WaitForMutex

(* A step of the scheduler leaves the wait queues alone: nobody in the     *)
(* layer waits with a timeout.                                             *)
LEMMA LoopEffect ==
  ASSUME SyncInv, LayerInv, SchedulerStep \/ ScheduleError \/ RunStart \/ Destroy \/ Gone
  PROVE  /\ \A q \in WaitQueue : queue'[q] = queue[q]
         /\ \A r \in Routine : pc' # "destroyed" /\ state'[r] \in {"FREE", "DEAD"} =>
              pc # "destroyed" /\ state[r] \in {"FREE", "DEAD"}
<1>1. /\ state \in [Routine -> State] /\ queue \in [Queue -> Seq(Routine)]
      /\ \A q \in WaitQueue : q \in Queue /\ q # Ready
      /\ current \in Caller
  BY ControlFacts, QueueFacts
<1> USE <1>1
<1>2. ASSUME NEW r \in Routine, TimerCond(r) PROVE FALSE
  <2>1. pc # "destroyed" /\ condQ[r] # NoQueue
    BY <1>2 DEF TimerCond, Expired
  <2>2. call[r].op = "timedwait"
    BY <2>1, SyncFacts DEF WaitInv
  <2> QED BY <2>2 DEF LayerInv, SleepInv, CallInv
<1>3. CASE \E r \in Routine : TimerStale(r) \/ TimerIo(r) \/ TimerSleep(r)
  BY <1>3 DEF TimerStale, TimerIo, TimerSleep, Expired, Enqueue
<1>4. CASE SampleNow \/ TimersDone \/ PollTimeout \/ Recheck \/ RunStart \/ Gone
  BY <1>4 DEF SampleNow, TimersDone, PollTimeout, Recheck, RunStart, Gone, schedVars
<1>5. CASE Schedule \/ ScheduleError
  BY <1>5 DEF Schedule, ScheduleError
<1>6. CASE SwitchBack
  BY <1>6 DEF SwitchBack
<1>7. CASE Destroy
  BY <1>7 DEF Destroy
<1> QED BY <1>2, <1>3, <1>4, <1>5, <1>6, <1>7 DEF SchedulerStep

LEMMA SpawnEffect ==
  ASSUME SyncInv, LayerInv, NEW r \in Routine, Spawn(r)
  PROVE  /\ \A q \in WaitQueue : queue'[q] = queue[q]
         /\ \A s \in Routine : state'[s] = IF s = r THEN "READY" ELSE state[s]
         /\ state[r] = "FREE" /\ pc \in {"idle", "coroutine"} /\ UNCHANGED <<pc, current>>
  BY ControlFacts, QueueFacts DEF Spawn, Enqueue

(* co_cond_broadcast empties the queue of the condition variable.          *)
LEMMA NotifyEffect ==
  ASSUME SyncInv, LayerInv, NEW x \in Object, NotifyAll(x)
  PROVE  /\ queue'[CondOf(x)] = <<>>
         /\ \A q \in WaitQueue : q # CondOf(x) => queue'[q] = queue[q]
         /\ \A r \in Routine : state'[r] \in {"FREE", "DEAD"} => state[r] \in {"FREE", "DEAD"}
         /\ UNCHANGED <<pc, current, call, locked, held>>
<1> DEFINE c == CondOf(x)
<1>1. c \in Cond /\ c \in WaitQueue /\ c \in Queue /\ c # Ready
  BY ObjectFacts, QueueFacts
<1>2. queue \in [Queue -> Seq(Routine)] /\ \A q \in WaitQueue : q \in Queue /\ q # Ready
  BY ControlFacts, QueueFacts
<1> HIDE DEF c
<1>3. CASE queue[c] = <<>>
  BY <1>3 DEF NotifyAll, vars, schedVars, syncVars, c
<1>4. CASE Broadcast(c)
  <2>1. queue' = [[queue EXCEPT ![c] = <<>>] EXCEPT ![Ready] = @ \o queue[c]]
    BY <1>4 DEF Broadcast
  <2>2. queue'[c] = <<>> /\ \A q \in WaitQueue : q # c => queue'[q] = queue[q]
    BY <1>1, <1>2, <2>1
  <2>3. \A r \in Routine : state'[r] = "READY" \/ state'[r] = state[r]
    BY <1>4 DEF Broadcast
  <2>4. UNCHANGED <<pc, current, call, locked, held>>
    BY <1>4 DEF Broadcast
  <2> QED BY <2>2, <2>3, <2>4 DEF c
<1> QED BY <1>3, <1>4 DEF NotifyAll, c

------------------------------------------------------------------------------
(* Every step of the layer is a step of CoSync.                            *)

LEMMA ReturnedIsFinish ==
  ASSUME SyncInv, LayerInv, Returned
  PROVE  ClientFinish
<1>1. pc = "coroutine" /\ current \in Routine /\ at[current].obj = NoToken /\ Finish
  BY InFacts, ControlFacts DEF Returned
<1> USE <1>1
<1>2. \A m \in Mutex : current \notin held[m]
  BY BodyIsFree
<1>3. call[current].op = "none"
  BY ObjectFacts DEF LayerInv, SleepInv, CallInv
<1>4. SyncTypeOK /\ ListInv(current)
  BY DEF SyncInv
<1>5. call[current].mutex = NoQueue
  BY <1>3, <1>4 DEF ListInv
<1>6. call[current] = NoCall
  BY <1>3, <1>4, <1>5, CallFacts
<1> QED BY <1>2, <1>6 DEF ClientFinish, InCoroutineCode

LEMMA LayerRules ==
  ASSUME SyncInv, LayerInv, [CoxxNext]_allVars
  PROVE  [Next]_vars
<1>1. CASE UNCHANGED allVars
  BY <1>1 DEF allVars
<1>2. ASSUME NEW op, NEW x \in Object, Enter(op, x) PROVE Next
  BY <1>2, EnterEffect, ObjectFacts DEF Next, SyncStep
<1>3. ASSUME NEW x \in Object, Unlock(MutexOf(x)) PROVE Next
  BY <1>3, ObjectFacts DEF Next, SyncStep
<1>4. ASSUME NEW x \in Object, CondWait(CondOf(x), MutexOf(x)) PROVE Next
  BY <1>4, ObjectFacts DEF Next, SyncStep
<1>5. ASSUME NEW x \in Object, NotifyAll(x) PROVE [Next]_vars
  BY <1>5, ObjectFacts DEF Next, SyncStep, NotifyAll
<1>6. CASE LayerStep
  <2>1. CASE Resume
    BY <2>1 DEF Next, SyncStep
  <2>2. CASE \E t \in Token : JoinStep(t) \/ SignalDone(t) \/ LetGo(t)
    BY <1>3, <1>4, <1>5, <2>2, ObjectFacts DEF JoinStep, SignalDone, LetGo, Wait, Leave
  <2>3. CASE Returned
    BY <2>3, ReturnedIsFinish DEF Next, SchedStep, Returned, syncVars
  <2>4. CASE AddStep \/ DoneStep \/ DoneLeave \/ WaitGroupStep
    BY <1>3, <1>4, <1>5, <2>4, ObjectFacts
    DEF AddStep, DoneStep, DoneLeave, WaitGroupStep, Wait, Leave
  <2> QED BY <1>6, <2>1, <2>2, <2>3, <2>4 DEF LayerStep
<1>7. CASE ClientStep
  <2>1. CASE \E r \in Routine, t \in Token : SpawnTask(r, t)
    BY <2>1 DEF SpawnTask, Next, SchedStep, syncVars
  <2>2. CASE \E t \in Token : Detach(t)
    BY <2>2 DEF Detach
  <2>3. CASE EndBody
    <3>1. token[current] \in Token
      BY <2>3, ControlFacts DEF EndBody, LayerInv, LayerTypeOK
    <3> QED BY <1>2, <2>3, <3>1, ObjectFacts DEF EndBody
  <2>4. CASE (\E t \in Token : Join(t)) \/ Add \/ Done \/ Enter("wait", Group)
    BY <1>2, <2>4, ObjectFacts DEF Join, Add, Done
  <2> QED BY <1>7, <2>1, <2>2, <2>3, <2>4 DEF ClientStep
<1>8. CASE Pause
  BY <1>8 DEF Pause, ClientSuspend, Next, SchedStep, syncVars
<1>9. CASE LoopStep
  BY <1>9 DEF LoopStep, Fault, Next, SchedStep, syncVars
<1> QED BY <1>1, <1>6, <1>7, <1>8, <1>9 DEF CoxxNext

------------------------------------------------------------------------------
(* SleepInv.                                                               *)

(* A step that suspends and resumes nobody, and puts nobody in the queue   *)
(* of a condition variable.                                                *)
LEMMA SleepersKept ==
  ASSUME SyncInv, LayerInv,
         \A r \in Routine : r # current \/ ~InClientCode => at'[r].obj = at[r].obj,
         call' = call,
         \A y \in Object, r \in Routine :
           r \in Range(queue'[CondOf(y)]) => r \in Range(queue[CondOf(y)])
  PROVE  (\A r \in Routine : CallInv(r)') /\ (\A y \in Object : WaiterInv(y)')
<1>1. ASSUME InClientCode, current \in Routine
      PROVE  /\ call[current].op = "none"
             /\ \A y \in Object : current \notin Range(queue[CondOf(y)])
  <2>1. pc = "coroutine" /\ call[current] = NoCall
    BY <1>1, ControlFacts DEF InClientCode
  <2>2. \A q \in WaitQueue : current \notin Range(queue[q])
    BY <2>1, RunningFacts
  <2> QED BY SMTT(30), <2>1, <2>2, ObjectFacts, QueueFacts DEF NoCall
<1>2. /\ \A r \in Routine : CallInv(r)
      /\ \A y \in Object : WaiterInv(y)
  BY DEF LayerInv, SleepInv
<1>3. ASSUME NEW r \in Routine PROVE CallInv(r)'
  BY <1>1, <1>2, <1>3 DEF CallInv
<1>4. ASSUME NEW y \in Object PROVE WaiterInv(y)'
  BY <1>1, <1>2, <1>4 DEF WaiterInv
<1> QED BY <1>3, <1>4

(* A step with every mutex free, that touches no wait queue.               *)
LEMMA SleepFree ==
  ASSUME SyncInv, LayerInv, UNCHANGED syncVars,
         \A m \in Mutex : ~locked[m],
         \A q \in WaitQueue : queue'[q] = queue[q],
         \A r \in Routine : at'[r].obj = at[r].obj
  PROVE  SleepInv'
<1>1. (\A r \in Routine : CallInv(r)') /\ (\A y \in Object : WaiterInv(y)')
  BY SleepersKept, ObjectFacts, QueueFacts DEF syncVars
<1>2. ASSUME NEW m \in Mutex PROVE LockInv(m)'
  <2>1. queue[m] = <<>> /\ queue'[m] = queue[m] /\ ~locked'[m]
    BY QueueFacts DEF LayerInv, SleepInv, LockInv, syncVars
  <2> QED BY <2>1 DEF LockInv
<1> QED BY <1>1, <1>2 DEF SleepInv

LEMMA SleepEnter ==
  ASSUME SyncInv, LayerInv, NEW op, NEW x \in Object, Enter(op, x)
  PROVE  SleepInv'
<1> DEFINE m == MutexOf(x)
<1>1. /\ TryLock(m) /\ m \in Mutex /\ InClientCode
      /\ at' = [at EXCEPT ![current] = In(op, x)]
      /\ at[current].obj = NoToken
  BY EnterEffect, ObjectFacts, InFacts DEF Enter
<1> USE <1>1
<1>2. /\ locked' = [locked EXCEPT ![m] = TRUE]
      /\ held' = [held EXCEPT ![m] = @ \cup {current}]
      /\ UNCHANGED <<queue, call, pc, current>>
  BY DEF TryLock, TakeMutex, schedVars
<1> USE <1>2
<1> HIDE DEF m
<1>3. InClientCode'
  BY DEF InClientCode
<1>4. (\A r \in Routine : CallInv(r)') /\ (\A y \in Object : WaiterInv(y)')
  <2>1. \A r \in Routine : r # current => at'[r].obj = at[r].obj
    BY ControlFacts DEF Caller
  <2> QED BY <2>1, SleepersKept
<1>5. ASSUME NEW n \in Mutex PROVE LockInv(n)'
  <2>1. queue'[n] = <<>>
    BY DEF LayerInv, SleepInv, LockInv
  <2>2. ~locked[n] /\ held[n] = {} /\ held[m] = {}
    BY BodyIsFree
  <2>3. at'[current].obj = x /\ current' = current
    BY InFacts, ControlFacts
  <2>4. CASE n = m
    <3>1. held'[n] = {current}
      BY <2>2, <2>4, ControlFacts
    <3> QED BY <1>3, <2>1, <2>3, <2>4, <3>1 DEF LockInv, m
  <2>5. CASE n # m
    <3>1. ~locked'[n]
      BY <2>2, <2>5, ControlFacts
    <3> QED BY <2>1, <3>1 DEF LockInv
  <2> QED BY <2>4, <2>5
<1> QED BY <1>4, <1>5 DEF SleepInv

(* The mutex of the function that a client is in is the only locked one.   *)
LEMMA OnlyOneLocked ==
  ASSUME SyncInv, LayerInv, NEW op, NEW x \in Object, Inside(op, x)
  PROVE  /\ MutexOf(x) \in Mutex /\ InClientCode /\ at[current].obj = x
         /\ \A n \in Mutex : n # MutexOf(x) => ~locked[n]
<1>1. at[current].obj = x /\ InClientCode /\ MutexOf(x) \in Mutex
  BY SMTT(30), InFacts, ObjectFacts DEF Inside
<1>2. \A n \in Mutex : LockInv(n)
  BY DEF LayerInv, SleepInv
<1> QED BY <1>1, <1>2 DEF LockInv

LEMMA SleepLeave ==
  ASSUME SyncInv, LayerInv, NEW op, NEW x \in Object, Inside(op, x), Unlock(MutexOf(x)),
         \E v : at' = [at EXCEPT ![current] = v]
  PROVE  SleepInv'
<1> DEFINE m == MutexOf(x)
<1>1. /\ m \in Mutex /\ InClientCode
      /\ locked' = [locked EXCEPT ![m] = FALSE]
      /\ UNCHANGED <<queue, call>>
      /\ \A n \in Mutex : n # m => ~locked[n]
  BY OnlyOneLocked, UnlockEffect DEF schedVars
<1> HIDE DEF m
<1>2. (\A r \in Routine : CallInv(r)') /\ (\A y \in Object : WaiterInv(y)')
  <2>1. \A r \in Routine : r # current => at'[r].obj = at[r].obj
    BY ControlFacts DEF Caller
  <2> QED BY <1>1, <2>1, SleepersKept
<1>3. ASSUME NEW n \in Mutex PROVE LockInv(n)'
  <2>1. queue'[n] = <<>>
    BY <1>1 DEF LayerInv, SleepInv, LockInv
  <2>2. ~locked'[n]
    BY <1>1, ControlFacts
  <2> QED BY <2>1, <2>2 DEF LockInv
<1> QED BY <1>2, <1>3 DEF SleepInv

LEMMA SleepWait ==
  ASSUME SyncInv, LayerInv, NEW op, NEW x \in Object, Inside(op, x), Wait(x)
  PROVE  /\ SleepInv'
         /\ \A y \in Object : y # x => queue'[CondOf(y)] = queue[CondOf(y)]
<1> DEFINE m == MutexOf(x)
           c == CondOf(x)
<1>1. /\ m \in Mutex /\ at[current].obj = x /\ at' = at
      /\ \A n \in Mutex : n # m => ~locked[n]
  BY OnlyOneLocked DEF Wait, cxxVars
<1> USE <1>1
<1>2. /\ locked' = [locked EXCEPT ![m] = FALSE]
      /\ queue' = [queue EXCEPT ![c] = Append(@, current)]
      /\ call' = [call EXCEPT ![current] = InWait(m)]
      /\ pc = "coroutine"
  BY WaitEffect DEF Wait
<1> USE <1>2
<1>3. /\ current \in Routine /\ queue \in [Queue -> Seq(Routine)]
      /\ call \in [Routine -> Call] /\ locked \in [Mutex -> BOOLEAN]
  BY ControlFacts
<1> USE <1>3
<1>4. /\ c \in Queue /\ c \notin Mutex /\ \A n \in Mutex : n \in Queue
      /\ \A y \in Object : CondOf(y) \in Queue /\ (CondOf(y) = c => y = x)
  BY ObjectFacts, QueueFacts
<1>5. m = MutexOf(x)
  BY SMT
<1> HIDE DEF m, c
<1>6. ASSUME NEW n \in Mutex PROVE LockInv(n)'
  <2>1. queue'[n] = <<>>
    BY <1>4 DEF LayerInv, SleepInv, LockInv
  <2>2. ~locked'[n]
    OBVIOUS
  <2> QED BY <2>1, <2>2 DEF LockInv
<1>7. ASSUME NEW r \in Routine PROVE CallInv(r)'
  <2>1. CASE r = current
    <3>1. call'[r] = InWait(m)
      BY <2>1
    <3> QED BY SMTT(30), <1>5, <2>1, <3>1 DEF CallInv, InWait
  <2>2. CASE r # current
    <3>1. call'[r] = call[r] /\ CallInv(r)
      BY <2>2 DEF LayerInv, SleepInv
    <3> QED BY <3>1 DEF CallInv
  <2> QED BY <2>1, <2>2
<1>8. \A y \in Object : y # x => queue'[CondOf(y)] = queue[CondOf(y)]
  BY <1>4
<1>9. ASSUME NEW y \in Object PROVE WaiterInv(y)'
  <2>1. CASE y = x
    <3>1. queue'[CondOf(y)] = Append(queue[CondOf(y)], current) /\ queue[CondOf(y)] \in Seq(Routine)
      BY <1>4, <2>1 DEF c
    <3>2. \A r : r \in Range(queue'[CondOf(y)]) => r \in Range(queue[CondOf(y)]) \/ r = current
      BY SMTT(30), <3>1 DEF Range
    <3> QED BY <2>1, <3>2 DEF WaiterInv, LayerInv, SleepInv
  <2>2. CASE y # x
    BY <1>8, <2>2 DEF WaiterInv, LayerInv, SleepInv
  <2> QED BY <2>1, <2>2
<1> QED BY <1>6, <1>7, <1>8, <1>9 DEF SleepInv

LEMMA SleepNotify ==
  ASSUME SyncInv, LayerInv, NEW op, NEW x \in Object, Inside(op, x), NotifyAll(x),
         NEW v, v.obj = x, at' = [at EXCEPT ![current] = v]
  PROVE  SleepInv'
<1>1. /\ InClientCode /\ at[current].obj = x
      /\ UNCHANGED <<pc, current, call, locked, held>>
      /\ queue'[CondOf(x)] = <<>>
      /\ \A q \in WaitQueue : q # CondOf(x) => queue'[q] = queue[q]
  BY OnlyOneLocked, NotifyEffect
<1> USE <1>1
<1>2. at'[current].obj = x /\ \A r \in Routine : r # current => at'[r].obj = at[r].obj
  BY ControlFacts DEF Caller
<1>3. (\A r \in Routine : CallInv(r)') /\ (\A y \in Object : WaiterInv(y)')
  <2>1. Range(<<>>) = {}
    BY SMT DEF Range
  <2>2. \A y \in Object, r \in Routine :
          r \in Range(queue'[CondOf(y)]) => r \in Range(queue[CondOf(y)])
    BY <2>1, ObjectFacts, QueueFacts
  <2> QED BY <1>2, <2>2, SleepersKept
<1>4. ASSUME NEW n \in Mutex PROVE LockInv(n)'
  <2>1. queue'[n] = queue[n]
    BY ObjectFacts, QueueFacts
  <2>2. InClientCode' <=> InClientCode
    BY DEF InClientCode
  <2> QED BY <1>2, <2>1, <2>2 DEF LockInv, LayerInv, SleepInv
<1> QED BY <1>3, <1>4 DEF SleepInv

LEMMA SleepResume ==
  ASSUME SyncInv, LayerInv, Resume, UNCHANGED cxxVars
  PROVE  SleepInv'
<1> DEFINE m == MutexOf(at[current].obj)
<1>1. /\ pc = "coroutine" /\ current \in Routine
      /\ call' = [call EXCEPT ![current] = NoCall]
      /\ locked' = [locked EXCEPT ![m] = TRUE]
      /\ held' = [held EXCEPT ![m] = @ \cup {current}]
      /\ at[current].obj \in Object /\ m \in Mutex /\ at' = at
      /\ queue' = queue /\ current' = current /\ pc' = pc
  BY ResumeEffect, ObjectFacts DEF cxxVars
<1> USE <1>1
<1>2. ~InClientCode
  BY SMT DEF Resume, LockReturn, WaitResume, TimedWaitResume, InClientCode, InLock, InWait,
         InTimedWait, NoCall
<1>3. InClientCode'
  BY ControlFacts DEF InClientCode
<1>4. ASSUME NEW r \in Routine PROVE CallInv(r)'
  <2>1. call'[r] = NoCall \/ call'[r] = call[r]
    BY ControlFacts
  <2> QED BY SMTT(30), <2>1 DEF CallInv, NoCall, LayerInv, SleepInv
<1>5. ASSUME NEW y \in Object PROVE WaiterInv(y)'
  BY DEF WaiterInv, LayerInv, SleepInv
<1>6. m = MutexOf(at[current].obj)
  BY SMT
<1> HIDE DEF m
<1>7. ASSUME NEW n \in Mutex PROVE LockInv(n)'
  <2>1. queue'[n] = <<>> /\ ~locked[n] /\ held[m] = {}
    BY <1>2, SuspendedIsFree DEF LayerInv, SleepInv, LockInv
  <2> USE <2>1
  <2>2. CASE n = m
    <3>1. held'[n] = {current}
      BY <2>2, ControlFacts
    <3> QED BY <1>3, <1>6, <2>2, <3>1 DEF LockInv
  <2>3. CASE n # m
    <3>1. ~locked'[n]
      BY <2>3, ControlFacts
    <3> QED BY <3>1 DEF LockInv
  <2> QED BY <2>2, <2>3
<1> QED BY <1>4, <1>5, <1>7 DEF SleepInv

------------------------------------------------------------------------------
(* TokenInv.                                                               *)

LEMMA RangeFacts ==
  ASSUME NEW f, NEW S, f \in [Routine -> S]
  PROVE  \A t : t \in Range(f) <=> \E s \in Routine : f[s] = t
  BY DEF Range

(* A client in done() is the one that executes.                            *)
LEMMA DoneIsRunning ==
  ASSUME SyncInv, LayerInv, NEW x \in Caller, at[x].op = "done"
  PROVE  x = current /\ InClientCode /\ at[x].obj = Group
<1>1. x \in held[MutexOf(Group)] /\ MutexOf(Group) \in Mutex
  BY ObjectFacts DEF LayerInv, TokenInv, UseInv
<1>2. locked[MutexOf(Group)]
  BY <1>1, ControlFacts
<1>3. LockInv(MutexOf(Group))
  BY <1>1 DEF LayerInv, SleepInv
<1>4. InClientCode /\ x = current /\ at[x].obj \in Object /\ MutexOf(Group) = MutexOf(at[x].obj)
  BY <1>1, <1>2, <1>3 DEF LockInv
<1> QED BY <1>4, ObjectFacts

(* Steps that leave the state of the layer alone.                          *)
LEMMA TokenSame ==
  ASSUME SyncInv, LayerInv, UNCHANGED cxxVars,
         \A r \in Routine : pc' # "destroyed" /\ state'[r] \in {"FREE", "DEAD"} =>
           pc # "destroyed" /\ state[r] \in {"FREE", "DEAD"},
         \A x \in Caller : at[x].op = "done" => x \in held'[MutexOf(Group)]
  PROVE  LayerTypeOK' /\ TokenInv'
<1> USE DEF cxxVars
<1>1. LayerTypeOK'
  BY DEF LayerInv, LayerTypeOK
<1>2. ASSUME NEW x \in Caller PROVE UseInv(x)'
  BY DEF UseInv, LayerInv, TokenInv
<1>3. ASSUME NEW r \in Routine PROVE TaskInv(r)'
  <2>1. TaskInv(r) /\ at' = at /\ token' = token
    BY DEF LayerInv, TokenInv
  <2> QED BY <2>1 DEF TaskInv
<1>4. ASSUME NEW r \in Routine PROVE HandleInv(r)'
  BY DEF HandleInv, LayerInv, TokenInv
<1>5. ASSUME NEW t \in Token PROVE DoneInv(t)'
  BY DEF DoneInv, Live, LayerInv, TokenInv
<1> QED BY <1>1, <1>2, <1>3, <1>4, <1>5 DEF TokenInv

(* Steps that move the executing client from one function to another, or   *)
(* within one, and leave the tokens alone.                                 *)
LEMMA TokenMove ==
  ASSUME SyncInv, LayerInv, InClientCode \/ pc = "coroutine",
         NEW v \in [op : Op, obj : Object \cup {NoToken}],
         at' = [at EXCEPT ![current] = v],
         UNCHANGED <<token, handle, done>>, count' \in Nat, pc' # "destroyed",
         \A r \in Routine : r # current /\ state'[r] \in {"FREE", "DEAD"} =>
           state[r] \in {"FREE", "DEAD"},
         current \in Routine /\ state'[current] \in {"FREE", "DEAD"} => v = Body,
         v.op \in {"body", "ended"} => v.obj = NoToken,
         v.obj \in Token => current \in Routine /\ v.op \in {"join", "end", "signalled"},
         v.op = "done" => current \in held'[MutexOf(Group)] /\ count' > 0,
         v.op \in {"end", "signalled"} => token[current] = v.obj /\ token[current] \in Token,
         v.op = "join" => v.obj \in handle /\ \A s \in Routine : at[s] # v,
         current \in Routine => token[current] \notin done
  PROVE  LayerTypeOK' /\ TokenInv'
<1>1. /\ current \in Caller /\ pc # "destroyed"
      /\ at'[current] = v /\ \A x \in Caller : x # current => at'[x] = at[x]
      /\ Routine \subseteq Caller
  BY ControlFacts DEF Caller
<1> USE <1>1
<1>2. LayerTypeOK'
  BY DEF LayerInv, LayerTypeOK
<1>3. ASSUME NEW x \in Caller PROVE UseInv(x)'
  <2>1. CASE x = current
    BY <2>1 DEF UseInv
  <2>2. CASE x # current
    BY <2>2, DoneIsRunning DEF UseInv, LayerInv, TokenInv
  <2> QED BY <2>1, <2>2
<1>4. ASSUME NEW r \in Routine PROVE TaskInv(r)'
  <2>1. TaskInv(r) /\ token' = token
    BY DEF LayerInv, TokenInv
  <2>2. CASE r = current
    BY <2>1, <2>2 DEF TaskInv
  <2>3. CASE r # current
    BY <2>1, <2>3 DEF TaskInv
  <2> QED BY <2>2, <2>3
<1>5. ASSUME NEW r \in Routine PROVE HandleInv(r)'
  <2>1. HandleInv(r) /\ handle' = handle
    BY DEF LayerInv, TokenInv
  <2>2. CASE r = current
    BY <2>1, <2>2 DEF HandleInv
  <2>3. CASE r # current
    BY <2>1, <2>3 DEF HandleInv
  <2> QED BY <2>2, <2>3
<1>6. ASSUME NEW t \in Token PROVE DoneInv(t)'
  <2>1. DoneInv(t) /\ token' = token /\ done' = done /\ Live' = Live
    BY DEF LayerInv, TokenInv, Live
  <2> QED BY <2>1 DEF DoneInv
<1> QED BY <1>2, <1>3, <1>4, <1>5, <1>6 DEF TokenInv

(* The executing coroutine is not a freed block, and its token is not done *)
(* before the trampoline has signalled completion.                         *)
LEMMA RunningTask ==
  ASSUME SyncInv, LayerInv, InClientCode, current \in Routine
  PROVE  /\ state[current] \notin {"FREE", "DEAD"}
         /\ at[current].op # "signalled" => token[current] \notin done
<1>1. pc = "coroutine"
  BY ControlFacts DEF InClientCode
<1>2. state[current] \notin {"FREE", "DEAD"}
  BY <1>1, RunningFacts
<1>3. \A t \in done : token[current] = t => at[current] = In("signalled", t)
  BY DEF LayerInv, LayerTypeOK, TokenInv, DoneInv
<1> QED BY <1>2, <1>3, InFacts

(* Steps that put nobody to sleep and complete nothing.                    *)
LEMMA VainKept ==
  ASSUME LayerInv, done' \subseteq done, count' = 0 => count = 0,
         \A y \in Object, r \in Routine :
           r \in Range(queue'[CondOf(y)]) => r \in Range(queue[CondOf(y)])
  PROVE  NobodySleepsInVain'
<1>1. NobodySleepsInVain /\ \A t \in done : t \in Object
  BY ObjectFacts DEF LayerInv, LayerTypeOK
<1> QED BY <1>1, ObjectFacts DEF NobodySleepsInVain

------------------------------------------------------------------------------
(***************************************************************************)
(* Each step preserves LayerInv.                                           *)
(***************************************************************************)

LEMMA LayerEnter ==
  ASSUME SyncInv, LayerInv, NEW op \in {"join", "end", "add", "done", "wait"}, NEW x \in Object,
         Enter(op, x), op \in {"join", "end"} <=> x \in Token,
         op = "end" => token[current] = x,
         op = "join" => x \in handle /\ \A r \in Routine : at[r] # In("join", x),
         op = "done" => count > 0
  PROVE  LayerInv'
<1>1. /\ TryLock(MutexOf(x)) /\ InClientCode /\ at[current] = Body
      /\ at' = [at EXCEPT ![current] = In(op, x)]
      /\ op # "add" => pc = "coroutine"
      /\ UNCHANGED <<token, handle, done, count>>
  BY EnterEffect DEF Enter
<1> USE <1>1
<1>2. /\ held' = [held EXCEPT ![MutexOf(x)] = @ \cup {current}]
      /\ UNCHANGED <<pc, state, queue>>
  BY DEF TryLock, TakeMutex, schedVars
<1> USE <1>2
<1>3. SleepInv'
  BY SleepEnter
<1>4. In(op, x) \in [op : Op, obj : Object \cup {NoToken}]
  BY DEF In, Op
<1>5. current \in Routine => state[current] \notin {"FREE", "DEAD"} /\ token[current] \notin done
  BY RunningTask, InFacts
<1>6. /\ x \in Token \/ x = Group
      /\ count' \in Nat /\ pc' # "destroyed"
      /\ x \in Token => current \in Routine
  BY ControlFacts DEF Object, LayerInv, LayerTypeOK
<1>7. op = "done" => current \in held'[MutexOf(Group)]
  BY <1>6, ControlFacts, ObjectFacts
<1>8. LayerTypeOK' /\ TokenInv'
  <2> DEFINE v == In(op, x)
  <2>1. v.op = op /\ v.obj = x /\ v.op \notin {"body", "ended"}
    BY InFacts
  <2>2. op = "join" => \A s \in Routine : at[s] # v
    BY SMT
  <2>3. v \in [op : Op, obj : Object \cup {NoToken}] /\ at' = [at EXCEPT ![current] = v]
    BY <1>4
  <2> HIDE DEF v
  <2> QED BY <1>5, <1>6, <1>7, <2>1, <2>2, <2>3, TokenMove
<1>9. NobodySleepsInVain'
  BY VainKept
<1> QED BY <1>3, <1>8, <1>9 DEF LayerInv

LEMMA LayerLeaveGroup ==
  ASSUME SyncInv, LayerInv, NEW op, Inside(op, Group), op # "signalled", Leave(Group),
         UNCHANGED <<token, handle, done>>, count' \in Nat, count' = 0 => count = 0
  PROVE  LayerInv'
<1>1. /\ InClientCode /\ at[current] = In(op, Group) /\ Group \in Object
      /\ MutexOf(Group) \in Mutex /\ Unlock(MutexOf(Group))
      /\ at' = [at EXCEPT ![current] = Body]
  BY ObjectFacts DEF Inside, Leave
<1> USE <1>1
<1>2. UNCHANGED <<pc, state, queue>>
  BY UnlockEffect DEF schedVars
<1>3. SleepInv'
  BY SleepLeave
<1>4. Body \in [op : Op, obj : Object \cup {NoToken}]
  BY DEF Body, Op
<1>5. current \in Routine => state[current] \notin {"FREE", "DEAD"} /\ token[current] \notin done
  BY SMTT(30), RunningTask, InFacts
<1>6. pc' # "destroyed"
  BY <1>2, ControlFacts
<1>7. LayerTypeOK' /\ TokenInv'
  BY <1>2, <1>4, <1>5, <1>6, TokenMove, InFacts, ObjectFacts
<1>8. NobodySleepsInVain'
  BY <1>2, VainKept
<1> QED BY <1>3, <1>7, <1>8 DEF LayerInv

(* WaitGroup::done when the counter becomes zero.                          *)
LEMMA LayerNotifyGroup ==
  ASSUME SyncInv, LayerInv, Inside("done", Group), NotifyAll(Group), count' = count - 1, count' = 0,
         at' = [at EXCEPT ![current] = In("notified", Group)], UNCHANGED <<token, handle, done>>
  PROVE  LayerInv'
<1> DEFINE v == In("notified", Group)
<1>1. /\ InClientCode /\ at[current] = In("done", Group) /\ Group \in Object /\ Group \notin Token
      /\ v.op = "notified" /\ v.obj = Group
  BY ObjectFacts, InFacts DEF Inside
<1> USE <1>1
<1>2. /\ pc' = pc /\ queue'[CondOf(Group)] = <<>>
      /\ \A q \in WaitQueue : q # CondOf(Group) => queue'[q] = queue[q]
      /\ \A r \in Routine : state'[r] \in {"FREE", "DEAD"} => state[r] \in {"FREE", "DEAD"}
  BY NotifyEffect
<1> USE <1>2
<1>3. v \in [op : Op, obj : Object \cup {NoToken}] /\ at' = [at EXCEPT ![current] = v]
  BY DEF In, Op
<1> HIDE DEF v
<1>4. SleepInv'
  BY <1>3, SleepNotify
<1>5. current \in Routine => state[current] \notin {"FREE", "DEAD"} /\ token[current] \notin done
  BY SMTT(30), RunningTask, InFacts
<1>6. pc' # "destroyed" /\ count' \in Nat
  BY SMT, ControlFacts
<1>7. LayerTypeOK' /\ TokenInv'
  BY <1>3, <1>5, <1>6, TokenMove
<1>8. NobodySleepsInVain'
  <2>1. Range(queue'[CondOf(Group)]) = {}
    BY SMT DEF Range
  <2>2. \A t \in done : t \in Token /\ CondOf(t) \in WaitQueue /\ CondOf(t) # CondOf(Group)
    BY ObjectFacts, QueueFacts DEF LayerInv, LayerTypeOK
  <2> QED BY <2>1, <2>2 DEF NobodySleepsInVain, LayerInv
<1> QED BY <1>4, <1>7, <1>8 DEF LayerInv

(* The two waits.                                                          *)
LEMMA LayerWait ==
  ASSUME SyncInv, LayerInv, NEW op, NEW x \in Object, Inside(op, x), op # "done", Wait(x),
         x \notin done, x = Group => count # 0
  PROVE  LayerInv'
<1>1. SleepInv' /\ \A y \in Object : y # x => queue'[CondOf(y)] = queue[CondOf(y)]
  BY SleepWait
<1>2. UNCHANGED cxxVars /\ CondWait(CondOf(x), MutexOf(x)) /\ at[current].op # "done"
  BY SMTT(30), InFacts DEF Wait, Inside
<1> USE <1>2
<1>3. /\ state' = [state EXCEPT ![current] = "WAITING"]
      /\ pc = "coroutine"
  BY WaitEffect
<1>4. \A r \in Routine : state'[r] \in {"FREE", "DEAD"} => state[r] \in {"FREE", "DEAD"}
  BY <1>3, ControlFacts
<1>5. \A y \in Caller : at[y].op # "done"
  BY DoneIsRunning
<1>6. LayerTypeOK' /\ TokenInv'
  BY <1>3, <1>4, <1>5, TokenSame
<1>7. NobodySleepsInVain'
  <2>1. done' = done /\ count' = count
    BY DEF cxxVars
  <2>2. \A t \in done : t \in Object
    BY ObjectFacts DEF LayerInv, LayerTypeOK
  <2> QED BY <1>1, <2>1, <2>2, ObjectFacts DEF NobodySleepsInVain, LayerInv
<1> QED BY <1>1, <1>6, <1>7 DEF LayerInv

(* The handle of a task is reset, by detach or at the end of join.         *)
LEMMA TokenDrop ==
  ASSUME SyncInv, LayerInv, NEW t \in Token, LetGoOfHandle(t), pc # "destroyed", state' = state,
         \/ at' = at
         \/ at' = [at EXCEPT ![current] = Body] /\ at[current].op = "join",
         \A r \in Routine : at'[r] # In("join", t),
         \A x \in Caller : at[x].op = "done" => x \in held'[MutexOf(Group)]
  PROVE  LayerTypeOK' /\ TokenInv' /\ done' \subseteq done /\ count' = count
<1>1. handle' = handle \ {t} /\ token' = token /\ count' = count /\ done' = done \cap Live'
  BY DEF LetGoOfHandle
<1> USE <1>1
<1>2. /\ \A x \in Caller : at'[x] = at[x] \/ (at'[x] = Body /\ at[x].op = "join")
      /\ Routine \subseteq Caller
  BY ControlFacts DEF Caller
<1> USE <1>2
<1>3. LayerTypeOK'
  <2>1. Body \in [op : Op, obj : Object \cup {NoToken}]
    BY DEF Body, Op
  <2> QED BY SMTT(30), <2>1 DEF LayerInv, LayerTypeOK
<1>4. ASSUME NEW x \in Caller PROVE UseInv(x)'
  BY InFacts, ObjectFacts DEF UseInv, LayerInv, TokenInv
<1>5. ASSUME NEW r \in Routine PROVE TaskInv(r)'
  <2>1. TaskInv(r)
    BY DEF LayerInv, TokenInv
  <2> QED BY <2>1, InFacts DEF TaskInv
<1>6. ASSUME NEW r \in Routine PROVE HandleInv(r)'
  <2>1. HandleInv(r)
    BY DEF LayerInv, TokenInv
  <2> SUFFICES ASSUME at'[r].op = "join"
               PROVE  at'[r].obj \in handle' /\ \A s \in Routine : at'[s] = at'[r] => s = r
    BY DEF HandleInv
  <2>2. at'[r] = at[r] /\ at[r].op = "join" /\ at[r].obj \in handle
    BY <2>1, InFacts DEF HandleInv
  <2>3. at[r].obj # t
    BY SMTT(30), <2>2, AtFacts DEF LayerInv
  <2>4. ASSUME NEW s \in Routine, at'[s] = at'[r] PROVE s = r
    BY <2>1, <2>2, <2>4, InFacts DEF HandleInv
  <2> QED BY <2>2, <2>3, <2>4
<1>7. ASSUME NEW u \in Token PROVE DoneInv(u)'
  <2>1. DoneInv(u)
    BY DEF LayerInv, TokenInv
  <2> QED BY SMTT(30), <2>1, InFacts DEF DoneInv
<1> QED BY <1>3, <1>4, <1>5, <1>6, <1>7 DEF TokenInv

LEMMA LayerDetach ==
  ASSUME SyncInv, LayerInv, NEW t \in Token, Detach(t)
  PROVE  LayerInv'
<1>1. /\ LetGoOfHandle(t) /\ UNCHANGED <<vars, at>> /\ InClientCode
      /\ \A r \in Routine : at'[r] # In("join", t)
  BY DEF Detach
<1> USE <1>1
<1>2. UNCHANGED <<state, queue, pc, current, call, locked, held>>
  BY DEF vars, schedVars, syncVars
<1> USE <1>2
<1>3. SleepInv'
  BY DEF LayerInv, SleepInv, LockInv, CallInv, WaiterInv, InClientCode
<1>4. LayerTypeOK' /\ TokenInv' /\ done' \subseteq done /\ count' = count
  <2>1. \A x \in Caller : at[x].op = "done" => x \in held'[MutexOf(Group)]
    BY DEF LayerInv, TokenInv, UseInv
  <2>2. pc # "destroyed"
    BY ControlFacts
  <2> QED BY <2>1, <2>2, TokenDrop
<1>5. NobodySleepsInVain'
  BY <1>4, VainKept
<1> QED BY <1>3, <1>4, <1>5 DEF LayerInv

LEMMA LayerJoined ==
  ASSUME SyncInv, LayerInv, NEW t \in Token, Inside("join", t), Leave(t), LetGoOfHandle(t)
  PROVE  LayerInv'
<1>1. /\ at[current] = In("join", t) /\ InClientCode /\ t \in Object
      /\ Unlock(MutexOf(t)) /\ MutexOf(t) \in Mutex
      /\ at' = [at EXCEPT ![current] = Body]
  BY ObjectFacts DEF Inside, Leave
<1> USE <1>1
<1>2. UNCHANGED <<state, queue, pc>>
  BY UnlockEffect DEF schedVars
<1>3. SleepInv'
  BY SleepLeave
<1>4. at[current].op = "join" /\ at[current].obj = t
  BY SMTT(30), InFacts
<1> USE <1>4
<1>5. current \in Routine
  BY ControlFacts DEF LayerInv, TokenInv, UseInv
<1>6. \A r \in Routine : at'[r] # In("join", t)
  <2>1. \A r \in Routine : at[r] = In("join", t) => r = current
    BY <1>5 DEF LayerInv, TokenInv, HandleInv
  <2>2. \A r \in Routine : at'[r] = IF r = current THEN Body ELSE at[r]
    BY ControlFacts DEF Caller
  <2> QED BY SMTT(30), <2>1, <2>2, InFacts
<1>7. \A x \in Caller : at[x].op # "done"
  BY DoneIsRunning
<1>8. LayerTypeOK' /\ TokenInv' /\ done' \subseteq done /\ count' = count
  <2>1. pc # "destroyed"
    BY ControlFacts
  <2> QED BY <1>2, <1>6, <1>7, <2>1, TokenDrop
<1>9. NobodySleepsInVain'
  BY <1>2, <1>8, VainKept
<1> QED BY <1>3, <1>8, <1>9 DEF LayerInv

(* The trampoline signals completion.                                      *)
LEMMA LayerSignal ==
  ASSUME SyncInv, LayerInv, NEW t \in Token, SignalDone(t)
  PROVE  LayerInv'
<1> DEFINE v == In("signalled", t)
<1>1. /\ Inside("end", t) /\ InClientCode /\ at[current] = In("end", t) /\ t \in Object
      /\ NotifyAll(t) /\ done' = done \cup {t} /\ UNCHANGED <<token, handle, count>>
      /\ at' = [at EXCEPT ![current] = v]
  BY ObjectFacts DEF SignalDone, Inside
<1> USE <1>1
<1>2. /\ v.op = "signalled" /\ v.obj = t /\ v \in [op : Op, obj : Object \cup {NoToken}]
      /\ at[current].op = "end" /\ at[current].obj = t
  BY SMTT(30), InFacts DEF In, Op
<1> USE <1>2
<1>3. /\ pc' = pc /\ queue'[CondOf(t)] = <<>>
      /\ \A q \in WaitQueue : q # CondOf(t) => queue'[q] = queue[q]
      /\ \A r \in Routine : state'[r] \in {"FREE", "DEAD"} => state[r] \in {"FREE", "DEAD"}
  BY NotifyEffect
<1>4. SleepInv'
  BY SleepNotify
<1>5. current \in Routine /\ current \in Caller /\ token[current] = t
  BY ControlFacts DEF LayerInv, TokenInv, UseInv, TaskInv
<1> USE <1>5
<1>6. /\ at'[current] = v /\ \A x \in Caller : x # current => at'[x] = at[x]
      /\ Routine \subseteq Caller
  BY ControlFacts DEF Caller
<1> USE <1>6
<1> HIDE DEF v
<1>7. LayerTypeOK'
  BY DEF LayerInv, LayerTypeOK
<1>8. ASSUME NEW x \in Caller PROVE UseInv(x)'
  BY DoneIsRunning DEF UseInv, LayerInv, TokenInv
<1>9. ASSUME NEW r \in Routine PROVE TaskInv(r)'
  <2>1. TaskInv(r) /\ state[current] \notin {"FREE", "DEAD"} /\ pc # "destroyed"
    BY RunningTask, ControlFacts DEF LayerInv, TokenInv
  <2> QED BY <1>3, <2>1 DEF TaskInv
<1>10. ASSUME NEW r \in Routine PROVE HandleInv(r)'
  <2>1. HandleInv(r)
    BY DEF LayerInv, TokenInv
  <2> QED BY SMTT(30), <2>1 DEF HandleInv
<1>11. ASSUME NEW u \in Token PROVE DoneInv(u)'
  <2>1. DoneInv(u) /\ Live' = Live
    BY DEF LayerInv, TokenInv, Live
  <2>2. CASE u = t
    <3>1. t \in Live
      BY ObjectFacts, RangeFacts DEF Live, LayerInv, LayerTypeOK
    <3>2. \A s \in Routine : token[s] = t => s = current
      BY SMTT(30), ObjectFacts DEF LayerInv, TokenInv, TaskInv
    <3> QED BY <2>1, <2>2, <3>1, <3>2 DEF DoneInv, v
  <2>3. CASE u # t
    BY <2>1, <2>3 DEF DoneInv
  <2> QED BY <2>2, <2>3
<1>12. NobodySleepsInVain'
  <2>1. Range(queue'[CondOf(t)]) = {}
    BY SMT, <1>3 DEF Range
  <2>2. /\ \A u \in done : CondOf(u) \in WaitQueue
        /\ CondOf(Group) \in WaitQueue /\ CondOf(Group) # CondOf(t)
    BY ObjectFacts, QueueFacts DEF LayerInv, LayerTypeOK
  <2> QED BY <1>3, <2>1, <2>2 DEF NobodySleepsInVain, LayerInv
<1> QED BY <1>4, <1>7, <1>8, <1>9, <1>10, <1>11, <1>12 DEF LayerInv, TokenInv

(* The trampoline unlocks and lets go of the token.                        *)
LEMMA LayerLetGo ==
  ASSUME SyncInv, LayerInv, NEW t \in Token, LetGo(t)
  PROVE  LayerInv'
<1>1. /\ Inside("signalled", t) /\ InClientCode /\ at[current] = In("signalled", t) /\ t \in Object
      /\ Unlock(MutexOf(t)) /\ MutexOf(t) \in Mutex
      /\ at' = [at EXCEPT ![current] = Ended]
      /\ token' = [token EXCEPT ![current] = NoToken]
      /\ handle' = handle /\ count' = count /\ done' = done \cap Live'
  BY ObjectFacts DEF LetGo, Inside
<1> USE <1>1
<1>2. at[current].op = "signalled" /\ at[current].obj = t
  BY SMT, InFacts
<1>3. UNCHANGED <<state, queue, pc>>
  BY UnlockEffect DEF schedVars
<1>4. SleepInv'
  BY SleepLeave
<1>5. current \in Routine /\ state[current] \notin {"FREE", "DEAD"}
  BY <1>2, ControlFacts, RunningTask DEF LayerInv, TokenInv, UseInv
<1>6. /\ at'[current] = Ended /\ \A x \in Caller : x # current => at'[x] = at[x]
      /\ Routine \subseteq Caller /\ current \in Caller
      /\ \A s \in Routine : token'[s] = IF s = current THEN NoToken ELSE token[s]
  BY <1>5, ControlFacts DEF Caller, LayerInv, LayerTypeOK
<1> USE <1>6
<1>7. LayerTypeOK'
  <2>1. Ended \in [op : Op, obj : Object \cup {NoToken}]
    BY DEF Ended, Op
  <2> QED BY <2>1 DEF LayerInv, LayerTypeOK
<1>8. ASSUME NEW x \in Caller PROVE UseInv(x)'
  BY <1>2, DoneIsRunning, InFacts, ObjectFacts DEF UseInv, LayerInv, TokenInv
<1>9. ASSUME NEW r \in Routine PROVE TaskInv(r)'
  <2>1. TaskInv(r)
    BY DEF LayerInv, TokenInv
  <2>2. CASE r = current
    BY <1>3, <1>5, <2>2, InFacts DEF TaskInv
  <2>3. CASE r # current
    BY <1>3, <2>1, <2>3 DEF TaskInv
  <2> QED BY <2>2, <2>3
<1>10. ASSUME NEW r \in Routine PROVE HandleInv(r)'
  <2>1. HandleInv(r)
    BY DEF LayerInv, TokenInv
  <2> QED BY SMTT(30), <2>1, InFacts DEF HandleInv
<1>11. ASSUME NEW u \in Token PROVE DoneInv(u)'
  <2>1. DoneInv(u) /\ u # NoToken
    BY ObjectFacts DEF LayerInv, TokenInv
  <2> QED BY <2>1 DEF DoneInv
<1>12. NobodySleepsInVain'
  BY <1>3, VainKept
<1> QED BY <1>4, <1>7, <1>8, <1>9, <1>10, <1>11, <1>12 DEF LayerInv, TokenInv

LEMMA LayerSpawn ==
  ASSUME SyncInv, LayerInv, NEW r \in Routine, NEW t \in Token, SpawnTask(r, t)
  PROVE  LayerInv'
<1>1. /\ at[current] = Body /\ t \notin Live /\ Spawn(r) /\ UNCHANGED <<syncVars, done, count, at>>
      /\ token' = [token EXCEPT ![r] = t] /\ handle' = handle \cup {t}
  BY DEF SpawnTask, ClientSpawn
<1> USE <1>1
<1>2. /\ \A q \in WaitQueue : queue'[q] = queue[q]
      /\ \A s \in Routine : state'[s] = IF s = r THEN "READY" ELSE state[s]
      /\ state[r] = "FREE" /\ pc \in {"idle", "coroutine"} /\ pc' = pc
  BY SpawnEffect
<1> USE <1>2
<1>3. SleepInv'
  <2>1. \A m \in Mutex : ~locked[m]
    BY BodyIsFree, InFacts
  <2> QED BY <2>1, SleepFree
<1>4. at[r] = Body /\ at' = at /\ done' = done /\ count' = count /\ held' = held
  BY DEF LayerInv, TokenInv, TaskInv, syncVars
<1> USE <1>4
<1>5. /\ \A s \in Routine : token'[s] = IF s = r THEN t ELSE token[s]
      /\ \A s \in Routine : token[s] # t
      /\ token \in [Routine -> Token \cup {NoToken}] /\ token' \in [Routine -> Token \cup {NoToken}]
  BY ObjectFacts, RangeFacts DEF LayerInv, LayerTypeOK, Live
<1> USE <1>5
<1>6. LayerTypeOK'
  BY DEF LayerInv, LayerTypeOK
<1>7. ASSUME NEW x \in Caller PROVE UseInv(x)'
  BY DEF UseInv, LayerInv, TokenInv
<1>8. ASSUME NEW s \in Routine PROVE TaskInv(s)'
  <2>1. TaskInv(s)
    BY DEF LayerInv, TokenInv
  <2>2. CASE s = r
    BY <2>2, InFacts DEF TaskInv
  <2>3. CASE s # r
    BY <2>1, <2>3 DEF TaskInv
  <2> QED BY <2>2, <2>3
<1>9. ASSUME NEW s \in Routine PROVE HandleInv(s)'
  BY DEF HandleInv, LayerInv, TokenInv
<1>10. ASSUME NEW u \in Token PROVE DoneInv(u)'
  <2> SUFFICES ASSUME u \in done
               PROVE  u \in Live' /\ \A s \in Routine : token'[s] = u => at[s] = In("signalled", u)
    BY DEF DoneInv
  <2>1. u \in Live /\ \A s \in Routine : token[s] = u => at[s] = In("signalled", u)
    BY DEF LayerInv, TokenInv, DoneInv
  <2>2. u # t /\ token[r] # u
    BY SMTT(30), <2>1, InFacts
  <2>3. u \in Live'
    <3>1. u \in handle \/ \E s \in Routine : token[s] = u
      BY ONLY ZenonT(30), <1>5, <2>1, RangeFacts DEF Live
    <3>2. u \in handle' \/ \E s \in Routine : token'[s] = u
      BY <2>2, <3>1
    <3>3. u \in handle' \/ u \in Range(token')
      BY <3>2, RangeFacts
    <3> QED BY <3>3, ObjectFacts DEF Live
  <2> QED BY <2>1, <2>2, <2>3
<1>11. NobodySleepsInVain'
  BY VainKept, ObjectFacts, QueueFacts
<1> QED BY <1>3, <1>6, <1>7, <1>8, <1>9, <1>10, <1>11 DEF LayerInv, TokenInv

(* The trampoline returns from the coroutine.                              *)
LEMMA LayerReturned ==
  ASSUME SyncInv, LayerInv, Returned
  PROVE  LayerInv'
<1>1. /\ pc = "coroutine" /\ at[current] = Ended /\ Finish /\ current \in Routine
      /\ at' = [at EXCEPT ![current] = Body] /\ UNCHANGED <<syncVars, token, handle, done, count>>
      /\ InClientCode
  BY ControlFacts, ReturnedIsFinish DEF Returned, ClientFinish, InCoroutineCode, InClientCode
<1> USE <1>1
<1>2. /\ queue' = queue /\ pc' = "back"
      /\ state' = [state EXCEPT ![current] = "DEAD"]
  BY DEF Finish, SwapToMain
<1> USE <1>2
<1>3. SleepInv'
  <2>1. \A m \in Mutex : ~locked[m]
    BY BodyIsFree, InFacts
  <2>2. \A r \in Routine : at'[r].obj = at[r].obj
    BY ControlFacts, InFacts DEF Caller
  <2> QED BY <2>1, <2>2, SleepFree
<1>4. LayerTypeOK' /\ TokenInv'
  <2>1. Body \in [op : Op, obj : Object \cup {NoToken}]
    BY DEF Body, Op
  <2>2. \A r \in Routine : r # current => state'[r] = state[r]
    BY ControlFacts
  <2>3. token[current] \notin done
    BY RunningTask, InFacts
  <2>4. count' \in Nat /\ pc' # "destroyed"
    BY DEF LayerInv, LayerTypeOK
  <2> QED BY <2>1, <2>2, <2>3, <2>4, TokenMove, InFacts, ObjectFacts
<1>5. NobodySleepsInVain'
  BY VainKept
<1> QED BY <1>3, <1>4, <1>5 DEF LayerInv

(* Steps of CoSync that the state of the layer does not see.               *)
LEMMA LayerQuiet ==
  ASSUME SyncInv, LayerInv, SleepInv', UNCHANGED cxxVars,
         \A q \in WaitQueue : queue'[q] = queue[q],
         \A r \in Routine : pc' # "destroyed" /\ state'[r] \in {"FREE", "DEAD"} =>
           pc # "destroyed" /\ state[r] \in {"FREE", "DEAD"},
         \A x \in Caller : at[x].op = "done" => x \in held'[MutexOf(Group)]
  PROVE  LayerInv'
<1>1. LayerTypeOK' /\ TokenInv'
  BY TokenSame
<1>2. NobodySleepsInVain'
  <2>1. done' = done /\ count' = count
    BY DEF cxxVars
  <2>2. \A y \in Object : queue'[CondOf(y)] = queue[CondOf(y)]
    BY ObjectFacts, QueueFacts
  <2> QED BY <2>1, <2>2, VainKept
<1> QED BY <1>1, <1>2 DEF LayerInv

LEMMA LayerResume ==
  ASSUME SyncInv, LayerInv, Resume, UNCHANGED cxxVars
  PROVE  LayerInv'
<1>1. SleepInv'
  BY SleepResume
<1>2. /\ pc = "coroutine" /\ state' = state /\ queue' = queue
      /\ held' = [held EXCEPT ![MutexOf(at[current].obj)] = @ \cup {current}]
  BY ResumeEffect
<1>3. \A m \in Mutex : held[m] \subseteq held'[m]
  BY <1>2, ControlFacts
<1>4. \A x \in Caller : at[x].op = "done" => x \in held'[MutexOf(Group)]
  BY <1>3, ObjectFacts DEF LayerInv, TokenInv, UseInv
<1> QED BY <1>1, <1>2, <1>4, LayerQuiet

(* The scheduler's steps, and co_yield_now outside the layer's functions.  *)
LEMMA LayerOutside ==
  ASSUME SyncInv, LayerInv, Pause \/ LoopStep
  PROVE  LayerInv'
<1>1. UNCHANGED syncVars /\ UNCHANGED cxxVars /\ at' = at /\ held' = held
  BY DEF Pause, LoopStep, syncVars, cxxVars
<1> USE <1>1
<1>2. \A x \in Caller : at[x].op = "done" => x \in held'[MutexOf(Group)]
  BY DEF LayerInv, TokenInv, UseInv
<1>3. CASE Pause
  <2>1. /\ at[current] = Body /\ pc = "coroutine"
        /\ queue' = [queue EXCEPT ![Ready] = Append(@, current)]
        /\ state' = [state EXCEPT ![current] = "READY"]
    BY <1>3 DEF Pause, Yield, Enqueue
  <2>2. \A m \in Mutex : ~locked[m]
    BY <2>1, BodyIsFree, InFacts
  <2>3. /\ \A q \in WaitQueue : queue'[q] = queue[q]
        /\ \A r \in Routine : state'[r] \in {"FREE", "DEAD"} => state[r] \in {"FREE", "DEAD"}
    BY <2>1, ControlFacts, QueueFacts
  <2>4. SleepInv'
    BY <2>2, <2>3, SleepFree
  <2> QED BY <1>2, <2>1, <2>3, <2>4, LayerQuiet
<1>4. CASE LoopStep
  <2>1. SchedulerStep \/ ScheduleError \/ RunStart \/ Destroy \/ Gone
    BY <1>4 DEF LoopStep
  <2>2. /\ \A q \in WaitQueue : queue'[q] = queue[q]
        /\ \A r \in Routine : pc' # "destroyed" /\ state'[r] \in {"FREE", "DEAD"} =>
             pc # "destroyed" /\ state[r] \in {"FREE", "DEAD"}
    BY <2>1, LoopEffect
  <2>3. \A m \in Mutex : ~locked[m]
    <3>1. CASE RunStart \/ Destroy
      <4>1. pc = "idle" /\ at[NoRoutine] = Body
        BY <1>4, <3>1
        DEF LoopStep, SchedulerStep, SampleNow, TimerStale, TimerCond, TimerIo, TimerSleep, Expired,
            TimersDone, PollTimeout, Recheck, Schedule, SwitchBack, ScheduleError, RunStart, Destroy,
            Gone
      <4> QED BY <4>1, ControlFacts, BodyIsFree, InFacts
    <3>2. CASE SchedulerStep \/ ScheduleError \/ Gone
      <4>1. pc \notin {"idle", "coroutine"}
        BY <3>2
        DEF SchedulerStep, SampleNow, TimerStale, TimerCond, TimerIo, TimerSleep, Expired, TimersDone,
            PollTimeout, Recheck, Schedule, SwitchBack, ScheduleError, Gone
      <4> QED BY <4>1, SuspendedIsFree DEF InClientCode
    <3> QED BY <2>1, <3>1, <3>2
  <2>4. SleepInv'
    BY <2>2, <2>3, SleepFree
  <2> QED BY <1>2, <2>2, <2>4, LayerQuiet
<1> QED BY <1>3, <1>4

------------------------------------------------------------------------------

LEMMA LayerStart == CoxxInit => LayerInv
<1> SUFFICES ASSUME CoxxInit PROVE LayerInv
  BY SMT
<1> USE DEF CoxxInit, SyncInit, SchedInit
<1>1. Range(<<>>) = {} /\ \A q \in WaitQueue : queue[q] = <<>>
  BY SMT, QueueFacts DEF Range
<1>2. Body \in [op : Op, obj : Object \cup {NoToken}]
  BY DEF Body, Op
<1>3. LayerTypeOK
  BY <1>2 DEF LayerTypeOK, Caller
<1>4. SleepInv
  BY <1>1, ObjectFacts, QueueFacts DEF SleepInv, LockInv, CallInv, WaiterInv, NoCall
<1>5. TokenInv
  BY InFacts, ObjectFacts DEF TokenInv, UseInv, TaskInv, HandleInv, DoneInv, Caller
<1>6. NobodySleepsInVain
  BY <1>1, ObjectFacts, QueueFacts DEF NobodySleepsInVain
<1> QED BY <1>3, <1>4, <1>5, <1>6 DEF LayerInv

LEMMA LayerNext ==
  ASSUME SyncInv, LayerInv, [CoxxNext]_allVars
  PROVE  LayerInv'
<1>1. CASE UNCHANGED allVars
  <2>1. UNCHANGED <<cxxVars, queue, pc, state, held, at, call, current, locked>>
    BY <1>1 DEF allVars, vars, schedVars, syncVars, cxxVars
  <2>2. SleepInv'
    BY <2>1 DEF LayerInv, SleepInv, LockInv, CallInv, WaiterInv, InClientCode
  <2>3. \A x \in Caller : at[x].op = "done" => x \in held'[MutexOf(Group)]
    BY <2>1 DEF LayerInv, TokenInv, UseInv
  <2> QED BY <2>1, <2>2, <2>3, LayerQuiet
<1>2. CASE LayerStep
  <2>1. CASE Resume /\ UNCHANGED cxxVars
    BY <2>1, LayerResume
  <2>2. ASSUME NEW t \in Token, JoinStep(t) PROVE LayerInv'
    <3>1. t \in Object /\ t # Group
      BY ObjectFacts
    <3> QED BY <2>2, <3>1, LayerWait, LayerJoined DEF JoinStep
  <2>3. CASE \E t \in Token : SignalDone(t) \/ LetGo(t)
    BY <2>3, LayerSignal, LayerLetGo
  <2>4. CASE Returned
    BY <2>4, LayerReturned
  <2>5. count \in Nat /\ Group \in Object /\ Group \notin done
    BY ObjectFacts DEF LayerInv, LayerTypeOK
  <2> USE <2>5
  <2>6. CASE AddStep
    BY SMTT(30), <2>6, LayerLeaveGroup DEF AddStep
  <2>7. CASE DoneStep
    <3>1. count > 0 /\ count' = count - 1 /\ Inside("done", Group)
      <4>1. Inside("done", Group) /\ count' = count - 1 /\ at[current].op = "done"
        BY <2>7, InFacts DEF DoneStep, Inside
      <4>2. current \in Caller /\ UseInv(current)
        BY ControlFacts DEF LayerInv, TokenInv
      <4> QED BY <4>1, <4>2 DEF UseInv
    <3>2. count' \in Nat
      BY SMTT(30), <3>1
    <3> QED BY <2>7, <3>1, <3>2, LayerLeaveGroup, LayerNotifyGroup DEF DoneStep
  <2>8. CASE DoneLeave
    BY <2>8, LayerLeaveGroup DEF DoneLeave
  <2>9. CASE WaitGroupStep
    BY <2>9, LayerLeaveGroup, LayerWait DEF WaitGroupStep
  <2> QED BY <1>2, <2>1, <2>2, <2>3, <2>4, <2>6, <2>7, <2>8, <2>9 DEF LayerStep
<1>3. CASE ClientStep
  <2>1. CASE \E r \in Routine, t \in Token : SpawnTask(r, t)
    BY <2>1, LayerSpawn
  <2>2. CASE \E t \in Token : Detach(t)
    BY <2>2, LayerDetach
  <2>3. CASE \E t \in Token : Join(t)
    BY <2>3, LayerEnter, ObjectFacts DEF Join
  <2>4. CASE EndBody
    <3>1. token[current] \in Token
      BY <2>4, ControlFacts DEF EndBody, LayerInv, LayerTypeOK
    <3> QED BY <2>4, <3>1, LayerEnter, ObjectFacts DEF EndBody
  <2>5. CASE Add \/ Done \/ Enter("wait", Group)
    BY <2>5, LayerEnter, ObjectFacts DEF Add, Done
  <2> QED BY <1>3, <2>1, <2>2, <2>3, <2>4, <2>5 DEF ClientStep
<1> QED BY <1>1, <1>2, <1>3, LayerOutside DEF CoxxNext

(* How a coroutine leaves join and wait.                                   *)
LEMMA LeaveCondition ==
  ASSUME SyncInv, LayerInv, CoxxNext, NEW r \in Routine, at[r].op \in {"join", "wait"}, at'[r] = Body
  PROVE  \/ \E t \in done : at[r] = In("join", t)
         \/ at[r].op = "wait" /\ count = 0
<1>1. at' # at
  BY InFacts
<1> USE <1>1
<1>2. ASSUME NEW v, at' = [at EXCEPT ![current] = v] PROVE r = current
  BY <1>2, ControlFacts, InFacts DEF Caller
<1>3. ASSUME NEW op, NEW x, Enter(op, x) PROVE FALSE
  <2>1. at[current] = Body /\ r = current
    BY <1>2, <1>3 DEF Enter
  <2> QED BY <2>1, InFacts
<1>4. CASE LayerStep
  <2>1. CASE Resume /\ UNCHANGED cxxVars
    BY <2>1 DEF cxxVars
  <2>2. ASSUME NEW t \in Token, JoinStep(t) PROVE \E u \in done : at[r] = In("join", u)
    <3>1. at[current] = In("join", t) /\ t \in done /\ at' = [at EXCEPT ![current] = Body]
      BY <2>2 DEF JoinStep, Inside, Wait, Leave, cxxVars
    <3> QED BY <1>2, <3>1
  <2>3. CASE \E t \in Token : SignalDone(t) \/ LetGo(t)
    BY SMTT(30), <1>2, <2>3, InFacts DEF SignalDone, LetGo, Inside
  <2>4. CASE Returned
    BY <1>2, <2>4, InFacts DEF Returned
  <2>5. CASE AddStep \/ DoneStep \/ DoneLeave
    BY SMTT(30), <1>2, <2>5, InFacts DEF AddStep, DoneStep, DoneLeave, Inside, Leave
  <2>6. CASE WaitGroupStep
    <3>1. at[current] = In("wait", Group) /\ count = 0 /\ at' = [at EXCEPT ![current] = Body]
      BY <2>6 DEF WaitGroupStep, Inside, Wait, Leave, cxxVars
    <3> QED BY <1>2, <3>1, InFacts
  <2> QED BY <1>4, <2>1, <2>2, <2>3, <2>4, <2>5, <2>6 DEF LayerStep
<1>5. CASE ClientStep
  <2>1. CASE \E s \in Routine, t \in Token : SpawnTask(s, t)
    BY <2>1 DEF SpawnTask
  <2>2. CASE \E t \in Token : Detach(t)
    BY <2>2 DEF Detach
  <2>3. CASE (\E t \in Token : Join(t)) \/ EndBody \/ Add \/ Done \/ Enter("wait", Group)
    BY <1>3, <2>3 DEF Join, EndBody, Add, Done
  <2> QED BY <1>5, <2>1, <2>2, <2>3 DEF ClientStep
<1>6. CASE Pause \/ LoopStep
  BY <1>6 DEF Pause, LoopStep, cxxVars
<1> QED BY <1>4, <1>5, <1>6 DEF CoxxNext

------------------------------------------------------------------------------

(* SyncInv and LayerInv are invariants of the C++ layer.                   *)
THEOREM LayerInvariant == CoxxSpec => [](SyncInv /\ LayerInv)
<1>1. CoxxInit => SyncInv /\ LayerInv
  BY SyncStart, LayerStart DEF CoxxInit
<1>2. SyncInv /\ LayerInv /\ [CoxxNext]_allVars => SyncInv' /\ LayerInv'
  BY LayerRules, SyncNext, LayerNext
<1> QED BY <1>1, <1>2, PTL DEF CoxxSpec

(* co::Task, co::WaitGroup and Scheduler::spawn use mutexes and condition  *)
(* variables by the rules: what is proved of CoSync holds of them.         *)
THEOREM LayerImplementsSync == CoxxSpec => LayerKeepsRules
<1>1. CoxxInit => SyncInit
  BY DEF CoxxInit
<1>2. SyncInv /\ LayerInv /\ [CoxxNext]_allVars => [Next]_vars
  BY LayerRules
<1>3. CoxxSpec => Spec
  BY <1>1, <1>2, LayerInvariant, PTL DEF CoxxSpec, Spec
<1> QED BY <1>3 DEF LayerKeepsRules

(* The last reference to a TaskSharedState goes when its mutex is free and *)
(* nobody waits in it: the assertions of co_mutex_destroy and              *)
(* co_cond_destroy hold.                                                   *)
THEOREM TokensFreedIdle == CoxxSpec => []FreedIdle
<1>1. ASSUME SyncInv, LayerInv PROVE FreedIdle
  <2> SUFFICES ASSUME NEW t \in Token, t \notin Live
               PROVE  ~locked[MutexOf(t)] /\ queue[MutexOf(t)] = <<>> /\ queue[CondOf(t)] = <<>>
    BY DEF FreedIdle
  <2>1. /\ t \in Object /\ MutexOf(t) \in Mutex /\ CondOf(t) \in Queue
        /\ LockInv(MutexOf(t)) /\ WaiterInv(t)
    BY <1>1, ObjectFacts, QueueFacts DEF LayerInv, SleepInv
  <2>2. ASSUME NEW x \in Caller, at[x].obj = t PROVE FALSE
    <3>1. x \in Routine /\ at[x].op \in {"join", "end", "signalled"}
      BY <1>1, <2>2 DEF LayerInv, TokenInv, UseInv
    <3>2. t \in handle \/ token[x] = t
      BY <1>1, <2>2, <3>1 DEF LayerInv, TokenInv, TaskInv, HandleInv
    <3>3. t \in Range(token) => t \in Live
      BY ObjectFacts DEF Live
    <3>4. token[x] = t => t \in Range(token)
      BY <1>1, <3>1, RangeFacts DEF LayerInv, LayerTypeOK
    <3> QED BY <3>2, <3>3, <3>4 DEF Live
  <2>3. ~locked[MutexOf(t)] /\ queue[MutexOf(t)] = <<>>
    BY <1>1, <2>1, <2>2, ControlFacts, ObjectFacts DEF LockInv
  <2>4. queue[CondOf(t)] = <<>>
    <3>1. queue[CondOf(t)] \in Seq(Routine)
      BY <1>1, <2>1, ControlFacts
    <3>2. \A r \in Routine : r \notin Range(queue[CondOf(t)])
      BY <2>1, <2>2 DEF WaiterInv, Caller
    <3> QED BY SMTT(30), <3>1, <3>2 DEF Range
  <2> QED BY <2>3, <2>4
<1> QED BY <1>1, LayerInvariant, PTL

(* Nobody suspends with a mutex of the layer, so that lock() never blocks. *)
THEOREM LayerNeverBlocks == CoxxSpec => []LocksNeverBlock
<1>1. ASSUME SyncInv, LayerInv PROVE LocksNeverBlock
  <2> SUFFICES ASSUME NEW r \in Routine, pc # "coroutine" \/ r # current, NEW m \in Mutex
               PROVE  r \notin held[m] /\ r \notin Range(queue[m])
    BY DEF LocksNeverBlock
  <2>1. LockInv(m) /\ (~locked[m] => held[m] = {})
    BY <1>1, ControlFacts DEF LayerInv, SleepInv
  <2>2. locked[m] => r # current
    BY <1>1, <2>1, ControlFacts DEF LockInv, InClientCode
  <2> QED BY SMTT(30), <2>1, <2>2 DEF LockInv, Range
<1> QED BY <1>1, LayerInvariant, PTL

(* No notification of a task's completion or of the counter's zero is      *)
(* lost.                                                                   *)
THEOREM NoLostNotification == CoxxSpec => []NobodySleepsInVain
<1>1. LayerInv => NobodySleepsInVain
  BY DEF LayerInv
<1> QED BY <1>1, LayerInvariant, PTL

(* Task::join returns only after the function of the coroutine has ended.  *)
THEOREM JoinWaitsForBody == CoxxSpec => JoinAfterBody
<1> DEFINE A == \A r \in Routine, t \in Token :
                  at[r] = In("join", t) /\ at'[r] = Body =>
                    \A s \in Routine : token[s] = t => at[s] = In("signalled", t)
<1>1. ASSUME SyncInv, LayerInv, [CoxxNext]_allVars PROVE [A]_allVars
  <2> SUFFICES ASSUME CoxxNext, NEW r \in Routine, NEW t \in Token,
                      at[r] = In("join", t), at'[r] = Body, NEW s \in Routine, token[s] = t
               PROVE  at[s] = In("signalled", t)
    BY <1>1
  <2>1. at[r].op = "join" /\ at[r].obj = t
    BY SMTT(30), InFacts
  <2>2. PICK u \in done : at[r] = In("join", u)
    BY <1>1, <2>1, LeaveCondition
  <2>3. u = t
    <3>1. In("join", u).obj = u
      BY InFacts
    <3> QED BY <2>1, <2>2, <3>1
  <2> QED BY <1>1, <2>2, <2>3 DEF LayerInv, TokenInv, DoneInv
<1>2. CoxxSpec => [][A]_allVars
  BY <1>1, LayerInvariant, PTL DEF CoxxSpec
<1> QED BY <1>2 DEF JoinAfterBody

------------------------------------------------------------------------------
(* TaskNotAbandoned, from AliveInv.                                        *)

(* Steps that start and complete no task: no trampoline moves but to       *)
(* return, and a token that something refers to stays done.                *)
LEMMA AliveKept ==
  ASSUME LayerInv, AliveInv, token' = token, handle' \subseteq handle, done \cap Live' \subseteq done',
         \A r \in Routine : at'[r] = at[r] \/ at'[r].op \notin {"signalled", "ended"},
         \A r \in Routine : pc' # "destroyed" /\ state'[r] \in {"FREE", "DEAD"} =>
           token[r] = NoToken \/ (pc # "destroyed" /\ state[r] \in {"FREE", "DEAD"})
  PROVE  AliveInv'
<1>1. /\ token \in [Routine -> Token \cup {NoToken}] /\ handle \in SUBSET Token
      /\ \A r \in Routine : TaskInv(r) /\ EndInv(r)
      /\ \A t \in handle \ done : \E r \in Routine : token[r] = t
  BY DEF LayerInv, LayerTypeOK, TokenInv, AliveInv
<1> USE <1>1
<1>2. /\ handle' \subseteq Live'
      /\ \A r \in Routine : token[r] \in Token => token[r] \in Live'
  BY RangeFacts, ObjectFacts DEF Live
<1>3. ASSUME NEW r \in Routine PROVE EndInv(r)'
  <2>1. at[r].op = "signalled" => at[r].obj \in done'
    BY <1>2 DEF TaskInv, EndInv
  <2> QED BY <2>1 DEF EndInv
<1>4. ASSUME NEW t \in handle' \ done' PROVE \E r \in Routine : token'[r] = t
  BY <1>2
<1> QED BY <1>3, <1>4 DEF AliveInv

LEMMA AliveEnter ==
  ASSUME SyncInv, LayerInv, AliveInv, NEW op \in Op \ {"signalled", "ended"}, NEW x \in Object,
         Enter(op, x)
  PROVE  AliveInv'
<1>1. /\ UNCHANGED <<token, handle, done>> /\ at' = [at EXCEPT ![current] = In(op, x)]
      /\ UNCHANGED <<state, pc>>
  BY EnterEffect DEF Enter, TryLock, schedVars
<1>2. \A r \in Routine : at'[r] = at[r] \/ at'[r].op \notin {"signalled", "ended"}
  BY <1>1, ControlFacts, InFacts DEF Caller
<1> QED BY <1>1, <1>2, AliveKept

LEMMA AliveLeave ==
  ASSUME SyncInv, LayerInv, AliveInv, NEW x \in Object, Leave(x),
         UNCHANGED <<token, handle, done>> \/ LetGoOfHandle(x)
  PROVE  AliveInv'
<1>1. UNCHANGED <<state, pc>> /\ at' = [at EXCEPT ![current] = Body]
  BY UnlockEffect, ObjectFacts DEF Leave, schedVars
<1>2. \A r \in Routine : at'[r] = at[r] \/ at'[r].op \notin {"signalled", "ended"}
  BY <1>1, ControlFacts, InFacts DEF Caller
<1>3. token' = token /\ handle' \subseteq handle /\ done \cap Live' \subseteq done'
  BY DEF LetGoOfHandle
<1> QED BY <1>1, <1>2, <1>3, AliveKept

(* Steps of CoSync that the state of the layer does not see.               *)
LEMMA AliveQuiet ==
  ASSUME LayerInv, AliveInv, UNCHANGED cxxVars,
         \A r \in Routine : pc' # "destroyed" /\ state'[r] \in {"FREE", "DEAD"} =>
           pc # "destroyed" /\ state[r] \in {"FREE", "DEAD"}
  PROVE  AliveInv'
<1>1. UNCHANGED <<token, handle, done, at>>
  BY DEF cxxVars
<1> QED BY <1>1, AliveKept

LEMMA AliveWait ==
  ASSUME SyncInv, LayerInv, AliveInv, NEW x \in Object, Wait(x)
  PROVE  AliveInv'
<1>1. pc = "coroutine" /\ state' = [state EXCEPT ![current] = "WAITING"] /\ UNCHANGED cxxVars
  BY WaitEffect DEF Wait
<1>2. \A r \in Routine : state'[r] \in {"FREE", "DEAD"} => state[r] \in {"FREE", "DEAD"}
  BY <1>1, ControlFacts
<1> QED BY <1>1, <1>2, AliveQuiet

(* The trampoline sets done.                                               *)
LEMMA AliveSignal ==
  ASSUME SyncInv, LayerInv, AliveInv, NEW t \in Token, SignalDone(t)
  PROVE  AliveInv'
<1>1. /\ NotifyAll(t) /\ t \in Object /\ done' = done \cup {t} /\ UNCHANGED <<token, handle>>
      /\ at' = [at EXCEPT ![current] = In("signalled", t)]
  BY ObjectFacts DEF SignalDone
<1> USE <1>1
<1>2. /\ pc' = pc
      /\ \A r \in Routine : state'[r] \in {"FREE", "DEAD"} => state[r] \in {"FREE", "DEAD"}
  BY NotifyEffect
<1>3. \A r \in Routine : at'[r] = at[r] \/ (at'[r].op = "signalled" /\ at'[r].obj = t)
  <2>1. \A r \in Routine : at'[r] = at[r] \/ at'[r] = In("signalled", t)
    BY ControlFacts DEF Caller
  <2>2. In("signalled", t).op = "signalled" /\ In("signalled", t).obj = t
    BY InFacts
  <2> QED BY ONLY SMTT(30), <2>1, <2>2
<1>4. ASSUME NEW r \in Routine PROVE EndInv(r)'
  <2>1. EndInv(r)
    BY DEF AliveInv
  <2>2. pc' # "destroyed" /\ state'[r] \in {"FREE", "DEAD"} => token'[r] = NoToken
    BY <1>2, <2>1 DEF EndInv
  <2>3. at'[r].op = "signalled" => at'[r].obj \in done'
    BY SMTT(30), <1>3, <2>1 DEF EndInv
  <2>4. at'[r].op = "ended" => token'[r] = NoToken
    BY SMTT(30), <1>3, <2>1 DEF EndInv
  <2> QED BY <2>2, <2>3, <2>4 DEF EndInv
<1> QED BY <1>4 DEF AliveInv

(* The trampoline lets go of its token, which is done.                     *)
LEMMA AliveLetGo ==
  ASSUME SyncInv, LayerInv, AliveInv, NEW t \in Token, LetGo(t)
  PROVE  AliveInv'
<1>1. /\ at[current] = In("signalled", t) /\ Unlock(MutexOf(t)) /\ MutexOf(t) \in Mutex
      /\ at' = [at EXCEPT ![current] = Ended]
      /\ token' = [token EXCEPT ![current] = NoToken]
      /\ handle' = handle /\ done' = done \cap Live'
  BY ObjectFacts DEF LetGo, Inside
<1> USE <1>1
<1>2. UNCHANGED <<state, pc>>
  BY UnlockEffect DEF schedVars
<1>3. at[current].op = "signalled" /\ at[current].obj = t
  BY SMTT(30), InFacts
<1>4. current \in Routine /\ token[current] = t /\ t \in done
  BY <1>3, ControlFacts DEF LayerInv, TokenInv, UseInv, TaskInv, AliveInv, EndInv
<1>5. /\ token \in [Routine -> Token \cup {NoToken}] /\ token' \in [Routine -> Token \cup {NoToken}]
      /\ handle \in SUBSET Token
      /\ token'[current] = NoToken /\ \A s \in Routine : s # current => token'[s] = token[s]
      /\ at'[current] = Ended /\ \A s \in Routine : s # current => at'[s] = at[s]
  BY <1>4, ControlFacts DEF LayerInv, LayerTypeOK, Caller
<1>6. /\ handle' \subseteq Live'
      /\ \A s \in Routine : token'[s] \in Token => token'[s] \in Live'
  BY <1>5, RangeFacts, ObjectFacts DEF Live
<1>7. ASSUME NEW r \in Routine PROVE EndInv(r)'
  <2>1. EndInv(r) /\ TaskInv(r)
    BY DEF AliveInv, LayerInv, TokenInv
  <2>2. CASE r = current
    BY <1>5, <2>2, InFacts DEF EndInv
  <2>3. CASE r # current
    <3>1. at[r].op = "signalled" => at[r].obj \in done'
      BY <1>5, <1>6, <2>1, <2>3 DEF EndInv, TaskInv
    <3> QED BY <1>2, <1>5, <2>1, <2>3, <3>1 DEF EndInv
  <2> QED BY <2>2, <2>3
<1>8. ASSUME NEW u \in handle' \ done' PROVE \E r \in Routine : token'[r] = u
  <2>1. u \in handle \ done
    BY <1>6
  <2>2. PICK r \in Routine : token[r] = u
    BY <2>1 DEF AliveInv
  <2>3. r # current
    BY <1>4, <2>1, <2>2
  <2> QED BY <1>5, <2>2, <2>3
<1> QED BY <1>7, <1>8 DEF AliveInv

LEMMA AliveSpawn ==
  ASSUME SyncInv, LayerInv, AliveInv, NEW r \in Routine, NEW t \in Token, SpawnTask(r, t)
  PROVE  AliveInv'
<1>1. /\ Spawn(r) /\ UNCHANGED <<done, at>>
      /\ token' = [token EXCEPT ![r] = t] /\ handle' = handle \cup {t}
  BY DEF SpawnTask, ClientSpawn
<1> USE <1>1
<1>2. /\ \A s \in Routine : state'[s] = IF s = r THEN "READY" ELSE state[s]
      /\ state[r] = "FREE" /\ pc \in {"idle", "coroutine"} /\ pc' = pc
  BY SpawnEffect
<1>3. /\ handle \in SUBSET Token /\ at[r] = Body /\ token[r] = NoToken
      /\ \A s \in Routine : token'[s] = IF s = r THEN t ELSE token[s]
  BY <1>2 DEF LayerInv, LayerTypeOK, TokenInv, TaskInv, AliveInv, EndInv
<1>4. ASSUME NEW s \in Routine PROVE EndInv(s)'
  <2>1. EndInv(s)
    BY DEF AliveInv
  <2>2. CASE s = r
    BY <1>2, <1>3, <2>2, InFacts DEF EndInv
  <2>3. CASE s # r
    BY <1>2, <1>3, <2>1, <2>3 DEF EndInv
  <2> QED BY <2>2, <2>3
<1>5. ASSUME NEW u \in handle' \ done' PROVE \E s \in Routine : token'[s] = u
  <2>1. CASE u = t
    BY <1>3, <2>1
  <2>2. CASE u # t
    <3>1. u \in handle \ done /\ u # NoToken
      BY <1>3, <2>2, ObjectFacts
    <3>2. PICK s \in Routine : token[s] = u
      BY <3>1 DEF AliveInv
    <3> QED BY <1>3, <3>1, <3>2
  <2> QED BY <2>1, <2>2
<1> QED BY <1>4, <1>5 DEF AliveInv

(* The coroutine finishes without a token.                                 *)
LEMMA AliveReturned ==
  ASSUME SyncInv, LayerInv, AliveInv, Returned
  PROVE  AliveInv'
<1>1. /\ pc = "coroutine" /\ current \in Routine /\ at[current] = Ended
      /\ at' = [at EXCEPT ![current] = Body] /\ UNCHANGED <<token, handle, done>>
      /\ state' = [state EXCEPT ![current] = "DEAD"]
  BY ControlFacts DEF Returned, Finish
<1>2. token[current] = NoToken
  BY <1>1, InFacts DEF AliveInv, EndInv
<1>3. /\ \A r \in Routine : at'[r] = at[r] \/ at'[r].op \notin {"signalled", "ended"}
      /\ \A r \in Routine : r # current => state'[r] = state[r]
  BY <1>1, ControlFacts, InFacts DEF Caller
<1> QED BY <1>1, <1>2, <1>3, AliveKept

LEMMA AliveNotifyGroup ==
  ASSUME SyncInv, LayerInv, AliveInv, NotifyAll(Group), UNCHANGED <<token, handle, done>>,
         at' = [at EXCEPT ![current] = In("notified", Group)]
  PROVE  AliveInv'
<1>1. /\ pc' = pc
      /\ \A r \in Routine : state'[r] \in {"FREE", "DEAD"} => state[r] \in {"FREE", "DEAD"}
  BY NotifyEffect, ObjectFacts
<1>2. \A r \in Routine : at'[r] = at[r] \/ at'[r].op \notin {"signalled", "ended"}
  <2>1. \A r \in Routine : at'[r] = at[r] \/ at'[r].op = "notified"
    BY ControlFacts, InFacts DEF Caller
  <2> QED BY <2>1
<1> QED BY <1>1, <1>2, AliveKept

LEMMA AliveNext ==
  ASSUME SyncInv, LayerInv, AliveInv, [CoxxNext]_allVars
  PROVE  AliveInv'
<1>1. CASE UNCHANGED allVars
  <2>1. UNCHANGED <<cxxVars, pc, state>>
    BY <1>1 DEF allVars, vars, schedVars
  <2> QED BY <2>1, AliveQuiet
<1>2. CASE LayerStep
  <2>1. CASE Resume /\ UNCHANGED cxxVars
    <3>1. pc' = pc /\ state' = state
      BY <2>1, ResumeEffect
    <3> QED BY <2>1, <3>1, AliveQuiet
  <2>2. ASSUME NEW t \in Token, JoinStep(t) PROVE AliveInv'
    <3>1. t \in Object
      BY ObjectFacts
    <3> QED BY <2>2, <3>1, AliveWait, AliveLeave DEF JoinStep
  <2>3. CASE \E t \in Token : SignalDone(t) \/ LetGo(t)
    BY <2>3, AliveSignal, AliveLetGo
  <2>4. CASE Returned
    BY <2>4, AliveReturned
  <2>5. CASE AddStep \/ DoneStep \/ DoneLeave \/ WaitGroupStep
    <3>1. Group \in Object
      BY ObjectFacts
    <3>2. \/ Leave(Group) /\ UNCHANGED <<token, handle, done>>
          \/ Wait(Group)
          \/ /\ NotifyAll(Group) /\ UNCHANGED <<token, handle, done>>
             /\ at' = [at EXCEPT ![current] = In("notified", Group)]
      BY <2>5 DEF AddStep, DoneStep, DoneLeave, WaitGroupStep
    <3> QED BY <3>1, <3>2, AliveLeave, AliveWait, AliveNotifyGroup
  <2> QED BY <1>2, <2>1, <2>2, <2>3, <2>4, <2>5 DEF LayerStep
<1>3. CASE ClientStep
  <2>1. CASE \E r \in Routine, t \in Token : SpawnTask(r, t)
    BY <2>1, AliveSpawn
  <2>2. ASSUME NEW t \in Token, Detach(t) PROVE AliveInv'
    <3>1. /\ UNCHANGED <<pc, state, at, token>>
          /\ handle' \subseteq handle /\ done \cap Live' \subseteq done'
      BY <2>2 DEF Detach, LetGoOfHandle, vars, schedVars
    <3> QED BY <3>1, AliveKept
  <2>3. PICK op \in {"join", "end", "add", "done", "wait"}, x \in Object :
          Enter(op, x) \/ \E t \in Token : Detach(t) \/ \E r \in Routine : SpawnTask(r, t)
    <3>1. EndBody => token[current] \in Object
      BY ControlFacts, ObjectFacts DEF EndBody, LayerInv, LayerTypeOK
    <3> QED BY <1>3, <3>1, ObjectFacts DEF ClientStep, Join, EndBody, Add, Done
  <2>4. op \in Op \ {"signalled", "ended"}
    BY DEF Op
  <2> QED BY <2>1, <2>2, <2>3, <2>4, AliveEnter
<1>4. CASE Pause
  <2>1. /\ pc = "coroutine" /\ state' = [state EXCEPT ![current] = "READY"] /\ UNCHANGED cxxVars
    BY <1>4 DEF Pause, Yield
  <2>2. \A r \in Routine : state'[r] \in {"FREE", "DEAD"} => state[r] \in {"FREE", "DEAD"}
    BY <2>1, ControlFacts
  <2> QED BY <2>1, <2>2, AliveQuiet
<1>5. CASE LoopStep
  <2>1. /\ SchedulerStep \/ ScheduleError \/ RunStart \/ Destroy \/ Gone
        /\ UNCHANGED cxxVars
    BY <1>5 DEF LoopStep, cxxVars
  <2> QED BY <2>1, LoopEffect, AliveQuiet
<1> QED BY <1>1, <1>2, <1>3, <1>4, <1>5 DEF CoxxNext

(* As long as the scheduler exists, a task that a handle refers to is done *)
(* or its coroutine exists and has not finished: Task::join always waits   *)
(* for something that can still happen.                                    *)
THEOREM TasksHaveACoroutine == CoxxSpec => []TaskNotAbandoned
<1>1. CoxxInit => AliveInv
  BY InFacts DEF CoxxInit, AliveInv, EndInv
<1>2. SyncInv /\ LayerInv /\ AliveInv /\ [CoxxNext]_allVars => AliveInv'
  BY AliveNext
<1>3. LayerInv /\ AliveInv => TaskNotAbandoned
  <2> SUFFICES ASSUME LayerInv, AliveInv, pc # "destroyed", NEW t \in handle \ done
               PROVE  \E r \in Routine : token[r] = t /\ state[r] \notin {"FREE", "DEAD"}
    BY DEF TaskNotAbandoned
  <2>1. PICK r \in Routine : token[r] = t
    BY DEF AliveInv
  <2>2. t # NoToken
    BY ObjectFacts DEF LayerInv, LayerTypeOK
  <2> QED BY <2>1, <2>2 DEF AliveInv, EndInv
<1> QED BY <1>1, <1>2, <1>3, LayerInvariant, PTL DEF CoxxSpec
==============================================================================
