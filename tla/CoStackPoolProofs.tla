-------------------------- MODULE CoStackPoolProofs --------------------------
(***************************************************************************)
(* The stacks of the coroutines are accounted for, and a sleep is not cut  *)
(* short, for any set of routines and stacks and any capacity of the pool. *)
(* PoolInv is inductive.  The lemmas of CoSchedulerProofs preserve its     *)
(* part on the scheduler; what is left is which coroutine is freed or      *)
(* allocated by a step, and what that step does with its stack.            *)
(***************************************************************************)
EXTENDS CoStackPool, CoSchedulerProofs

(* The leaves that name no other prover are for Zenon.                     *)
USE ZenonT(30)

------------------------------------------------------------------------------
(* The scheduler's part.                                                   *)

(* No block is allocated or freed, and a coroutine with a timer sleeps.    *)
Settled ==
  /\ \A r \in Routine : state'[r] = "FREE" <=> state[r] = "FREE"
  /\ \A r \in Routine : heap'[r] > 0 => state'[r] = "WAITING"

(* A sleeping coroutine that becomes ready has slept its time.             *)
FullSleep ==
  \A r \in Routine : Sleeping(r) /\ state'[r] = "READY" => wakeup[r] <= clock

TimersSleep == \A r \in Routine : heap[r] > 0 => state[r] = "WAITING"

LEMMA QuietSettles ==
  ASSUME TimersSleep, UNCHANGED <<state, heap>>
  PROVE  Settled /\ FullSleep
  BY DEF TimersSleep, Settled, FullSleep, Sleeping

(* The loop over expired timers.                                           *)
LEMMA TimerSettles ==
  ASSUME SchedInv, TimersSleep, now <= clock, NEW r \in Routine,
         TimerStale(r) \/ TimerCond(r) \/ TimerIo(r) \/ TimerSleep(r)
  PROVE  Settled /\ FullSleep
<1>1. /\ heap \in [Routine -> Nat] /\ state \in [Routine -> State]
      /\ wakeup \in [Routine -> Nat] /\ now \in Nat /\ clock \in Nat
      /\ heap[r] <= 1
  BY DEF SchedInv, SchedTypeOK, OneTimerEach
<1>2. /\ heap[r] > 0 /\ wakeup[r] <= now
      /\ heap' = [heap EXCEPT ![r] = @ - 1]
      /\ state[r] = "WAITING"
      /\ state' = [state EXCEPT ![r] = "READY"]
  BY DEF TimerStale, TimerCond, TimerIo, TimerSleep, Expired, HeapPop, TimersSleep
<1>3. heap'[r] = 0 /\ wakeup[r] <= clock
  BY SMTT(30), <1>1, <1>2
<1>4. \A s \in Routine \ {r} : heap'[s] = heap[s] /\ state'[s] = state[s]
  BY <1>1, <1>2
<1>5. state'[r] = "READY"
  BY <1>1, <1>2
<1>6. ASSUME NEW s \in Routine PROVE heap'[s] > 0 => state'[s] = "WAITING"
  <2>1. CASE s = r
    BY SMTT(30), <2>1, <1>3
  <2> QED BY <2>1, <1>4 DEF TimersSleep
<1>7. Settled
  BY <1>2, <1>4, <1>5, <1>6 DEF Settled
<1>8. FullSleep
  BY <1>3, <1>4 DEF FullSleep, Sleeping
<1> QED BY <1>7, <1>8

(* A step that changes the state of one allocated coroutine, which neither *)
(* sleeps nor is freed, and leaves the heap alone.                         *)
LEMMA OneSettles ==
  ASSUME SchedInv, TimersSleep, NEW r \in Routine, state[r] \notin {"FREE", "WAITING"},
         NEW v \in State \ {"FREE"}, state' = [state EXCEPT ![r] = v], heap' = heap
  PROVE  Settled /\ FullSleep
<1>1. state \in [Routine -> State] /\ heap \in [Routine -> Nat]
  BY DEF SchedInv, SchedTypeOK
<1>2. state'[r] = v /\ \A s \in Routine \ {r} : state'[s] = state[s]
  BY <1>1
<1> QED BY <1>2 DEF TimersSleep, Settled, FullSleep, Sleeping

LEMMA ScheduleSettles ==
  ASSUME SchedInv, TimersSleep, Schedule \/ ScheduleError
  PROVE  Settled /\ FullSleep
<1> DEFINE h == Head(queue[Ready])
<1>1. /\ pc = "schedule" /\ heap' = heap
      /\ state' = [state EXCEPT ![h] = "RUNNING"]
  BY DEF Schedule, ScheduleError
<1>2. queue[Ready] \in Seq(Routine) /\ queue[Ready] # <<>> /\ IsInjective(queue[Ready])
  BY <1>1 DEF SchedInv, SchedTypeOK, NodeLinkedOnce, ControlInv, Queue
<1>3. h \in Routine /\ h \in Range(queue[Ready])
  BY <1>2, ListPopFront
<1>4. state[h] = "READY"
  BY <1>1, <1>3 DEF SchedInv, StateMatchesLists
<1> QED BY <1>1, <1>3, <1>4, OneSettles DEF State

(* A call that suspends or fails: the coroutine that makes it has no timer *)
(* yet.                                                                    *)
LEMMA CallSettles ==
  ASSUME SchedInv, TimersSleep,
         Suspend \/ \E d \in SleepTimes : SleepNoMem(d)
  PROVE  Settled /\ FullSleep /\ SchedInv'
<1>1. pc = "coroutine"
  BY DEF Suspend, Yield, Sleep, Finish, SleepNoMem
<1>2. current \in Routine /\ state[current] \in {"RUNNING", "READY"}
  BY <1>1 DEF SchedInv, ControlInv, SchedTypeOK
<1>3. heap \in [Routine -> Nat] /\ state \in [Routine -> State]
  BY DEF SchedInv, SchedTypeOK
<1>4. heap[current] = 0
  <2>1. ~(heap[current] > 0)
    BY <1>2 DEF TimersSleep
  <2> QED BY SMTT(30), <2>1, <1>2, <1>3
<1>5. CASE Yield
  BY <1>5, <1>2, OneSettles, YieldStep DEF Yield, State
<1>6. CASE Finish
  BY <1>6, <1>2, <1>4, OneSettles, FinishStep DEF Finish, State
<1>7. ASSUME NEW d \in SleepTimes, SleepNoMem(d) PROVE Settled /\ FullSleep /\ SchedInv'
  BY <1>7, <1>2, OneSettles, SleepNoMemStep DEF SleepNoMem, State
<1>8. ASSUME NEW d \in SleepTimes, Sleep(d) PROVE Settled /\ FullSleep /\ SchedInv'
  <2>1. state'[current] = "WAITING"
    BY <1>8, <1>2, <1>3 DEF Sleep
  <2>2. \A s \in Routine \ {current} : heap'[s] = heap[s] /\ state'[s] = state[s]
    BY <1>8, <1>2, <1>3 DEF Sleep
  <2>3. Settled
    BY <2>1, <2>2, <1>2 DEF Settled, TimersSleep
  <2>4. FullSleep
    BY <2>1, <2>2, <1>2 DEF FullSleep, Sleeping
  <2> QED BY <2>3, <2>4, <1>8, <1>4, SleepStep
<1> QED BY <1>5, <1>6, <1>7, <1>8 DEF Suspend

(* Behind the switch a coroutine that has finished is freed.               *)
Freed ==
  /\ pc = "back" /\ current \in Routine /\ state[current] = "DEAD"
  /\ state'[current] = "FREE"
  /\ \A r \in Routine \ {current} : state'[r] = state[r]

LEMMA BackSettles ==
  ASSUME SchedInv, TimersSleep, SwitchBack
  PROVE  /\ IF state[current] = "DEAD" THEN Freed ELSE Settled
         /\ FullSleep /\ TimersSleep'
<1>1. pc = "back" /\ heap' = heap /\ current \in Routine /\ state \in [Routine -> State]
  BY DEF SwitchBack, SchedInv, SchedTypeOK, ControlInv
<1>2. CASE state[current] # "DEAD"
  <2>1. UNCHANGED <<state, heap>>
    BY <1>1, <1>2 DEF SwitchBack
  <2> QED BY <2>1, <1>2, QuietSettles DEF Settled, TimersSleep
<1>3. CASE state[current] = "DEAD"
  <2>1. Freed
    BY <1>1, <1>3 DEF SwitchBack, Freed
  <2>2. FullSleep /\ TimersSleep'
    BY <2>1, <1>1, <1>3 DEF Freed, FullSleep, Sleeping, TimersSleep
  <2> QED BY <2>1, <2>2, <1>3
<1> QED BY <1>2, <1>3

(* The time sampled at the top of the loop is never ahead of the clock.    *)
LEMMA SampleNotAhead ==
  ASSUME SchedInv, now <= clock, [SchedNext]_schedVars
  PROVE  now' <= clock'
<1>1. now \in Nat /\ clock \in Nat
  BY DEF SchedInv, SchedTypeOK
<1>2. CASE SampleNow
  <2>1. now' = clock /\ clock' = clock
    BY <1>2 DEF SampleNow
  <2> QED BY SMTT(30), <2>1, <1>1
<1>3. CASE Tick
  <2>1. now' = now /\ clock' = clock + 1
    BY <1>3 DEF Tick
  <2> QED BY SMTT(30), <2>1, <1>1
<1>4. CASE ~SampleNow /\ ~Tick
  <2>1. CASE SchedulerStep \/ Fault \/ RunStart
    BY <2>1, <1>4
    DEF SchedulerStep, Fault, RunStart, TimerStale, TimerCond, TimerIo, TimerSleep, TimersDone,
        PollTimeout, PollInterrupted, Recheck, Schedule, ScheduleError, SwitchBack
  <2>2. CASE Destroy \/ (\E r \in Routine : Spawn(r)) \/ Suspend
             \/ (\E d \in SleepTimes : SleepNoMem(d))
    BY <2>2 DEF Destroy, Spawn, Suspend, Yield, Sleep, Finish, SleepNoMem
  <2>3. CASE Gone \/ UNCHANGED schedVars
    BY <2>3 DEF Gone, schedVars
  <2> QED BY <2>1, <2>2, <2>3, <1>4 DEF SchedNext
<1> QED BY <1>2, <1>3, <1>4

(* A step of the scheduler loop.                                           *)
LEMMA LoopSettles ==
  ASSUME SchedInv, TimersSleep, now <= clock, SchedulerStep
  PROVE  /\ SchedInv' /\ TimersSleep' /\ FullSleep
         /\ IF pc = "back" /\ state[current] = "DEAD" THEN Freed ELSE Settled
<1>1. Settled => TimersSleep'
  BY DEF Settled, TimersSleep
<1>2. CASE SampleNow \/ TimersDone \/ PollTimeout \/ Recheck
  <2>1. UNCHANGED <<state, heap>> /\ pc # "back"
    BY <1>2 DEF SampleNow, TimersDone, PollTimeout, Recheck
  <2> QED BY <2>1, <1>1, <1>2, QuietSettles, LoopSteps
<1>3. ASSUME NEW r \in Routine, TimerStale(r) \/ TimerCond(r) \/ TimerIo(r) \/ TimerSleep(r)
      PROVE  SchedInv' /\ Settled /\ FullSleep /\ pc # "back"
  <2>1. pc # "back"
    BY <1>3 DEF TimerStale, TimerCond, TimerIo, TimerSleep, Expired
  <2>2. SchedInv'
    BY <1>3, TimerStaleStep, TimerCondStep, TimerIoStep, TimerSleepStep
  <2> QED BY <2>1, <2>2, <1>3, TimerSettles
<1>4. CASE Schedule
  BY <1>1, <1>4, ScheduleSettles, ScheduleStep DEF Schedule
<1>5. CASE SwitchBack
  BY <1>5, BackSettles, SwitchBackStep DEF SwitchBack
<1> QED BY <1>1, <1>2, <1>3, <1>4, <1>5 DEF SchedulerStep

(* Any other step but those of co_spawn and co_scheduler_destroy.          *)
LEMMA OtherSettles ==
  ASSUME SchedInv, TimersSleep,
         Fault \/ RunStart \/ Tick \/ Suspend
           \/ (\E d \in SleepTimes : SleepNoMem(d)) \/ Gone
  PROVE  SchedInv' /\ TimersSleep' /\ FullSleep /\ Settled
<1>1. Settled => TimersSleep'
  BY DEF Settled, TimersSleep
<1>2. CASE RunStart \/ PollInterrupted
  <2>1. UNCHANGED <<state, heap>>
    BY <1>2 DEF RunStart, PollInterrupted
  <2> QED BY <2>1, <1>1, <1>2, QuietSettles, LoopSteps
<1>3. CASE Tick \/ Gone
  <2>1. UNCHANGED <<state, heap>> /\ SchedInv'
    BY <1>3, TickStep, SchedStays DEF Tick, Gone, schedVars
  <2> QED BY <2>1, <1>1, QuietSettles
<1>4. CASE ScheduleError
  BY <1>1, <1>4, ScheduleSettles, ScheduleStep
<1>5. CASE Suspend \/ \E d \in SleepTimes : SleepNoMem(d)
  BY <1>1, <1>5, CallSettles
<1> QED BY <1>2, <1>3, <1>4, <1>5 DEF Fault

(* co_spawn allocates one block, co_scheduler_destroy only frees.          *)
LEMMA SpawnSettles ==
  ASSUME SchedInv, TimersSleep, NEW r \in Routine, Spawn(r)
  PROVE  /\ SchedInv' /\ TimersSleep' /\ FullSleep
         /\ state[r] = "FREE" /\ state'[r] = "READY"
         /\ \A s \in Routine \ {r} : state'[s] = state[s]
<1>1. /\ state \in [Routine -> State] /\ heap' = heap /\ state[r] = "FREE"
      /\ state' = [state EXCEPT ![r] = "READY"]
  BY DEF SchedInv, SchedTypeOK, Spawn
<1>2. state'[r] = "READY" /\ \A s \in Routine \ {r} : state'[s] = state[s]
  BY <1>1
<1>3. TimersSleep' /\ FullSleep
  BY <1>1, <1>2 DEF TimersSleep, FullSleep, Sleeping
<1> QED BY <1>1, <1>2, <1>3, SpawnStep

LEMMA DestroySettles ==
  ASSUME SchedInv, Destroy
  PROVE  SchedInv' /\ TimersSleep' /\ FullSleep
<1>1. \A r \in Routine : heap'[r] = 0 /\ state'[r] \in {"FREE", state[r]}
  BY DEF Destroy
<1>2. TimersSleep'
  BY SMT, <1>1 DEF TimersSleep
<1>3. FullSleep
  BY <1>1 DEF FullSleep, Sleeping
<1> QED BY <1>2, <1>3, DestroyStep

------------------------------------------------------------------------------
(* The pool's part.                                                        *)

PoolTypes == stackOf \in [Routine -> Stack \cup {NoStack}] /\ cached \in Seq(Stack)

LEMMA PoolStays ==
  ASSUME PoolTypes, StacksAccounted, UNCHANGED poolVars,
         \A r \in Routine : state'[r] = "FREE" <=> state[r] = "FREE"
  PROVE  PoolTypes' /\ StacksAccounted'
<1>1. UNCHANGED <<stackOf, cached, allocated>>
  BY DEF poolVars
<1>2. PoolTypes' /\ Owned' = Owned
  BY <1>1 DEF PoolTypes, Owned
<1>3. \A r \in Routine : (state'[r] = "FREE") = (stackOf'[r] = NoStack)
  BY <1>1 DEF StacksAccounted
<1> QED BY <1>1, <1>2, <1>3 DEF StacksAccounted

(* What co_stack_pool_alloc takes is in no other coroutine's hands, and is *)
(* no longer in the cache.                                                 *)
LEMMA TakeStack ==
  ASSUME PoolTypes, StacksAccounted, cached # <<>> \/ Stack \ allocated # {}
  PROVE  /\ TopStack \in Stack \ Owned
         /\ RestOfCache \in Seq(Stack) /\ IsInjective(RestOfCache)
         /\ Len(RestOfCache) <= Capacity
         /\ TopStack \notin Range(RestOfCache)
         /\ Owned \cap Range(RestOfCache) = {}
         /\ AllocatedWith(TopStack) = Owned \cup Range(RestOfCache) \cup {TopStack}
<1>1. /\ cached \in Seq(Stack) /\ IsInjective(cached) /\ Len(cached) <= Capacity
      /\ Owned \cap Range(cached) = {} /\ allocated = Owned \cup Range(cached)
      /\ Capacity \in Nat
  BY PoolAssumption DEF PoolTypes, StacksAccounted
<1>2. CASE cached = <<>>
  <2>1. TopStack \in Stack \ allocated /\ RestOfCache = <<>>
    BY <1>2 DEF TopStack, Malloc, RestOfCache
  <2>2. /\ <<>> \in Seq(Stack) /\ Range(<<>>) = {} /\ IsInjective(<<>>)
        /\ Len(<<>>) <= Capacity
    BY SMT, <1>1 DEF Range, IsInjective
  <2> QED BY <2>1, <2>2, <1>1, <1>2 DEF AllocatedWith
<1>3. CASE cached # <<>>
  <2> DEFINE n == Len(cached)
  <2>1. n \in Nat \ {0} /\ DOMAIN cached = 1..n /\ \A i \in 1..n : cached[i] \in Stack
    BY SMTT(30), <1>1, <1>3
  <2>2. /\ Front(cached) \in Seq(Stack) /\ Len(Front(cached)) = n - 1
        /\ DOMAIN Front(cached) = 1..(n - 1)
        /\ \A i \in 1..(n - 1) : Front(cached)[i] = cached[i]
    BY SMTT(30), <1>1, <2>1 DEF Front
  <2>3. Last(cached) = cached[n] /\ n \in 1..n /\ 1..n = 1..(n - 1) \cup {n} /\ n \notin 1..(n - 1)
    BY SMT, <2>1 DEF Last
  <2>4. Len(Front(cached)) <= Capacity
    BY SMTT(30), <1>1, <2>1, <2>2
  <2>5. Range(cached) = Range(Front(cached)) \cup {Last(cached)} /\ Last(cached) \in Stack
    BY SMTT(30), <2>1, <2>2, <2>3 DEF Range
  <2>6. IsInjective(Front(cached)) /\ Last(cached) \notin Range(Front(cached))
    BY SMTT(30), <1>1, <2>1, <2>2, <2>3 DEF IsInjective, Range
  <2>7. TopStack = Last(cached) /\ RestOfCache = Front(cached)
    BY <1>3 DEF TopStack, RestOfCache
  <2> QED BY <2>2, <2>4, <2>5, <2>6, <2>7, <1>1 DEF AllocatedWith
<1> QED BY <1>2, <1>3

(* What co_stack_pool_free does with a stack that is not in the array: it  *)
(* is cached or freed, and the array does not overflow.                    *)
LEMMA GiveStack ==
  ASSUME NEW c \in Seq(Stack), IsInjective(c), Len(c) <= Capacity,
         NEW s \in Stack, s \notin Range(c)
  PROVE  /\ CacheWith(c, s) \in Seq(Stack) /\ IsInjective(CacheWith(c, s))
         /\ Len(CacheWith(c, s)) <= Capacity
         /\ \/ Range(CacheWith(c, s)) = Range(c) \cup {s} /\ FreedBy(c, s) = {}
            \/ Range(CacheWith(c, s)) = Range(c) /\ FreedBy(c, s) = {s}
<1>1. CASE Len(c) < Capacity
  <2>1. Len(Append(c, s)) <= Capacity
    BY SMT, <1>1, PoolAssumption
  <2> QED BY <1>1, <2>1, ListPushBack DEF CacheWith, FreedBy
<1>2. CASE ~(Len(c) < Capacity)
  BY <1>2 DEF CacheWith, FreedBy
<1> QED BY <1>1, <1>2

LEMMA SpawnTakesStack ==
  ASSUME PoolTypes, StacksAccounted, NEW r \in Routine,
         state[r] = "FREE", state'[r] = "READY",
         \A s \in Routine \ {r} : state'[s] = state[s],
         SpawnWithStack(r)
  PROVE  PoolTypes' /\ StacksAccounted'
<1>1. /\ cached # <<>> \/ Stack \ allocated # {}
      /\ stackOf' = [stackOf EXCEPT ![r] = TopStack]
      /\ cached' = RestOfCache /\ allocated' = AllocatedWith(TopStack)
  BY DEF SpawnWithStack
<1>2. /\ TopStack \in Stack \ Owned
      /\ cached' \in Seq(Stack) /\ IsInjective(cached') /\ Len(cached') <= Capacity
      /\ TopStack \notin Range(cached') /\ Owned \cap Range(cached') = {}
      /\ allocated' = Owned \cup Range(cached') \cup {TopStack}
  BY <1>1, TakeStack
<1>3. NoStack \notin Stack
  BY PoolAssumption
<1>4. /\ stackOf' \in [Routine -> Stack \cup {NoStack}]
      /\ stackOf'[r] = TopStack /\ \A s \in Routine \ {r} : stackOf'[s] = stackOf[s]
  BY <1>1, <1>2 DEF PoolTypes
<1>5. stackOf[r] = NoStack
  BY DEF StacksAccounted
<1>6. Owned' = Owned \cup {TopStack}
  BY SMTT(30), <1>2, <1>3, <1>4, <1>5 DEF Owned
<1>7. \A s \in Routine : (state'[s] = "FREE") = (stackOf'[s] = NoStack)
  BY SMTT(30), <1>2, <1>3, <1>4 DEF StacksAccounted
<1>8. \A p, s \in Routine : p # s /\ stackOf'[p] = stackOf'[s] => stackOf'[p] = NoStack
  <2>1. \A s \in Routine : stackOf[s] # TopStack
    BY <1>2, <1>3 DEF Owned
  <2> SUFFICES ASSUME NEW p \in Routine, NEW s \in Routine, p # s, stackOf'[p] = stackOf'[s]
               PROVE  stackOf'[p] = NoStack
    OBVIOUS
  <2>2. p # r /\ s # r
    BY <2>1, <1>4
  <2>3. stackOf'[p] = stackOf[p] /\ stackOf'[s] = stackOf[s]
    BY <2>2, <1>4
  <2> QED BY <2>3 DEF StacksAccounted
<1>9. Owned' \cap Range(cached') = {} /\ allocated' = Owned' \cup Range(cached')
  BY <1>2, <1>6
<1> QED BY <1>2, <1>4, <1>7, <1>8, <1>9 DEF PoolTypes, StacksAccounted

(* The stack co_spawn had taken when co_context_init fails.                *)
LEMMA NoContextGivesBack ==
  ASSUME PoolTypes, StacksAccounted, SpawnNoContext
  PROVE  PoolTypes' /\ StacksAccounted'
<1> DEFINE c == RestOfCache
<1>1. /\ cached # <<>> \/ Stack \ allocated # {}
      /\ cached' = CacheWith(c, TopStack)
      /\ allocated' = AllocatedWith(TopStack) \ FreedBy(c, TopStack)
      /\ stackOf' = stackOf /\ state' = state
  BY DEF SpawnNoContext, schedVars
<1>2. /\ TopStack \in Stack \ Owned
      /\ c \in Seq(Stack) /\ IsInjective(c) /\ Len(c) <= Capacity
      /\ TopStack \notin Range(c) /\ Owned \cap Range(c) = {}
      /\ AllocatedWith(TopStack) = Owned \cup Range(c) \cup {TopStack}
  BY <1>1, TakeStack
<1>3. /\ cached' \in Seq(Stack) /\ IsInjective(cached') /\ Len(cached') <= Capacity
      /\ \/ Range(cached') = Range(c) \cup {TopStack} /\ FreedBy(c, TopStack) = {}
         \/ Range(cached') = Range(c) /\ FreedBy(c, TopStack) = {TopStack}
  BY <1>1, <1>2, GiveStack
<1>4. Owned' = Owned
  BY <1>1 DEF Owned
<1>5. Owned' \cap Range(cached') = {} /\ allocated' = Owned' \cup Range(cached')
  BY <1>1, <1>2, <1>3, <1>4
<1>6. /\ \A r \in Routine : (state'[r] = "FREE") = (stackOf'[r] = NoStack)
      /\ \A r, s \in Routine : r # s /\ stackOf'[r] = stackOf'[s] => stackOf'[r] = NoStack
  BY <1>1 DEF StacksAccounted
<1> QED BY <1>1, <1>3, <1>5, <1>6 DEF PoolTypes, StacksAccounted

(* co_routine_destroy: the stack of a coroutine that has finished goes     *)
(* back to the pool.                                                       *)
LEMMA FreedGivesBack ==
  ASSUME PoolTypes, StacksAccounted, Freed, ReturnStack(current)
  PROVE  PoolTypes' /\ StacksAccounted'
<1> DEFINE k == stackOf[current]
<1>1. /\ current \in Routine /\ state[current] = "DEAD" /\ state'[current] = "FREE"
      /\ \A r \in Routine \ {current} : state'[r] = state[r]
  BY DEF Freed
<1>2. /\ stackOf' = [stackOf EXCEPT ![current] = NoStack]
      /\ cached' = CacheWith(cached, k) /\ allocated' = allocated \ FreedBy(cached, k)
  BY DEF ReturnStack
<1>3. k \in Stack /\ k \in Owned /\ NoStack \notin Stack
  BY <1>1, PoolAssumption DEF PoolTypes, StacksAccounted, Owned
<1>4. /\ cached \in Seq(Stack) /\ IsInjective(cached) /\ Len(cached) <= Capacity
      /\ Owned \cap Range(cached) = {} /\ allocated = Owned \cup Range(cached)
  BY DEF PoolTypes, StacksAccounted
<1>5. /\ cached' \in Seq(Stack) /\ IsInjective(cached') /\ Len(cached') <= Capacity
      /\ \/ Range(cached') = Range(cached) \cup {k} /\ FreedBy(cached, k) = {}
         \/ Range(cached') = Range(cached) /\ FreedBy(cached, k) = {k}
  BY <1>2, <1>3, <1>4, GiveStack
<1>6. /\ stackOf' \in [Routine -> Stack \cup {NoStack}] /\ stackOf'[current] = NoStack
      /\ \A r \in Routine \ {current} : stackOf'[r] = stackOf[r] /\ stackOf[r] # k
  BY <1>1, <1>2, <1>3 DEF PoolTypes, StacksAccounted
<1>7. Owned' = Owned \ {k}
  <2>1. ASSUME NEW x PROVE x \in Owned' <=> x \in Owned \ {k}
    <3>1. x \in Owned' <=> x # NoStack /\ \E r \in Routine : stackOf'[r] = x
      BY DEF Owned
    <3>2. x \in Owned <=> x # NoStack /\ \E r \in Routine : stackOf[r] = x
      BY DEF Owned
    <3> QED BY <1>1, <1>6, <3>1, <3>2
  <2> QED BY <2>1
<1>8. Owned' \cap Range(cached') = {} /\ allocated' = Owned' \cup Range(cached')
  BY <1>2, <1>3, <1>4, <1>5, <1>7
<1>9. ASSUME NEW r \in Routine PROVE (state'[r] = "FREE") = (stackOf'[r] = NoStack)
  <2>1. CASE r = current
    BY <1>1, <1>6, <2>1
  <2>2. CASE r # current
    <3>1. state'[r] = state[r] /\ stackOf'[r] = stackOf[r]
      BY <1>1, <1>6, <2>2
    <3> QED BY <3>1 DEF StacksAccounted
  <2> QED BY <2>1, <2>2
<1>10. ASSUME NEW r \in Routine, NEW s \in Routine, r # s, stackOf'[r] = stackOf'[s]
       PROVE  stackOf'[r] = NoStack
  <2>1. CASE r = current \/ s = current
    BY <1>6, <1>10, <2>1
  <2>2. CASE r # current /\ s # current
    <3>1. stackOf'[r] = stackOf[r] /\ stackOf'[s] = stackOf[s]
      BY <1>6, <2>2
    <3> QED BY <1>10, <3>1 DEF StacksAccounted
  <2> QED BY <2>1, <2>2
<1> QED BY <1>5, <1>6, <1>8, <1>9, <1>10 DEF PoolTypes, StacksAccounted

LEMMA DestroyEmpties ==
  ASSUME PoolTypes, StacksAccounted, SchedInv, DestroyWithPool
  PROVE  PoolTypes' /\ StacksAccounted'
<1>1. \A r \in Routine : state'[r] \in {"FREE", state[r]}
  BY DEF DestroyWithPool, Destroy
<1>2. /\ cached' = <<>>
      /\ stackOf' = [r \in Routine |-> IF state'[r] = "FREE" THEN NoStack ELSE stackOf[r]]
      /\ allocated' = (allocated \ Range(cached))
                        \ {stackOf[r] : r \in {s \in Routine : state'[s] = "FREE"}}
  BY DEF DestroyWithPool
<1>3. /\ <<>> \in Seq(Stack) /\ Range(<<>>) = {} /\ IsInjective(<<>>) /\ Len(<<>>) <= Capacity
  BY SMTT(30), PoolAssumption DEF Range, IsInjective
<1>4. stackOf' \in [Routine -> Stack \cup {NoStack}]
  BY <1>2 DEF PoolTypes
<1>5. \A r \in Routine : (state'[r] = "FREE") = (stackOf'[r] = NoStack)
  BY <1>1, <1>2 DEF StacksAccounted
<1>6. \A r, s \in Routine : r # s /\ stackOf'[r] = stackOf'[s] => stackOf'[r] = NoStack
  <2>1. \A r \in Routine : stackOf'[r] \in {NoStack, stackOf[r]}
    BY <1>2
  <2> QED BY <2>1 DEF StacksAccounted
<1>7. allocated' = Owned'
  <2>1. ASSUME NEW s PROVE s \in allocated' <=> s \in Owned'
    <3>1. s \in allocated \ Range(cached) <=> s # NoStack /\ \E r \in Routine : stackOf[r] = s
      BY DEF StacksAccounted, Owned
    <3>2. s \in allocated' <=> /\ s # NoStack /\ \E r \in Routine : stackOf[r] = s
                               /\ ~\E r \in Routine : state'[r] = "FREE" /\ stackOf[r] = s
      BY <1>2, <3>1
    <3>3. s \in Owned' <=> /\ s # NoStack
                           /\ \E r \in Routine : state'[r] # "FREE" /\ stackOf[r] = s
      BY <1>2 DEF Owned
    <3>4. \A p, r \in Routine : stackOf[p] = s /\ stackOf[r] = s /\ s # NoStack => p = r
      BY DEF StacksAccounted
    <3> QED BY <3>2, <3>3, <3>4
  <2> QED BY <2>1
<1>8. Owned' \cap Range(cached') = {} /\ allocated' = Owned' \cup Range(cached')
  BY <1>2, <1>3, <1>7
<1> QED BY <1>2, <1>3, <1>4, <1>5, <1>6, <1>8 DEF PoolTypes, StacksAccounted

------------------------------------------------------------------------------
(* Every step.                                                             *)
LEMMA PoolRefines ==
  ASSUME [PoolNext]_allVars
  PROVE  [SchedNext]_schedVars
  BY DEF PoolNext, LoopStep, OtherStep, SpawnWithStack, SpawnNoContext, DestroyWithPool,
         allVars, SchedNext

LEMMA PoolNextInv ==
  ASSUME PoolInv, [PoolNext]_allVars
  PROVE  PoolInv' /\ FullSleep
<1>1. SchedInv /\ TimersSleep /\ now <= clock /\ PoolTypes /\ StacksAccounted
  BY DEF PoolInv, TimersSleep, PoolTypes
<1>2. now' <= clock'
  BY <1>1, PoolRefines, SampleNotAhead
<1>3. SUFFICES SchedInv' /\ TimersSleep' /\ FullSleep /\ PoolTypes' /\ StacksAccounted'
  BY <1>2 DEF PoolInv, TimersSleep, PoolTypes
<1>4. CASE LoopStep
  <2>1. /\ SchedulerStep
        /\ IF pc = "back" /\ state[current] = "DEAD" THEN ReturnStack(current) ELSE UNCHANGED poolVars
    BY <1>4 DEF LoopStep
  <2>2. /\ SchedInv' /\ TimersSleep' /\ FullSleep
        /\ IF pc = "back" /\ state[current] = "DEAD" THEN Freed ELSE Settled
    BY <2>1, <1>1, LoopSettles
  <2>3. CASE pc = "back" /\ state[current] = "DEAD"
    BY <2>1, <2>2, <2>3, <1>1, FreedGivesBack
  <2>4. CASE ~(pc = "back" /\ state[current] = "DEAD")
    BY <2>1, <2>2, <2>4, <1>1, PoolStays DEF Settled
  <2> QED BY <2>2, <2>3, <2>4
<1>5. CASE OtherStep
  <2>1. SchedInv' /\ TimersSleep' /\ FullSleep /\ Settled /\ UNCHANGED poolVars
    BY <1>1, <1>5, OtherSettles DEF OtherStep
  <2> QED BY <2>1, <1>1, PoolStays DEF Settled
<1>6. ASSUME NEW r \in Routine, SpawnWithStack(r)
      PROVE  SchedInv' /\ TimersSleep' /\ FullSleep /\ PoolTypes' /\ StacksAccounted'
  <2>1. /\ SchedInv' /\ TimersSleep' /\ FullSleep
        /\ state[r] = "FREE" /\ state'[r] = "READY"
        /\ \A s \in Routine \ {r} : state'[s] = state[s]
    BY <1>1, <1>6, SpawnSettles DEF SpawnWithStack
  <2> QED BY <2>1, <1>1, <1>6, SpawnTakesStack
<1>7. CASE SpawnNoContext \/ UNCHANGED allVars
  <2>1. UNCHANGED schedVars /\ UNCHANGED <<state, heap>>
    BY <1>7 DEF SpawnNoContext, allVars, schedVars
  <2>2. SchedInv' /\ Settled /\ FullSleep
    BY <2>1, <1>1, SchedStays, QuietSettles
  <2>3. PoolTypes' /\ StacksAccounted'
    BY <1>1, <1>7, <2>2, NoContextGivesBack, PoolStays DEF allVars, Settled
  <2> QED BY <2>2, <2>3 DEF Settled, TimersSleep
<1>8. CASE DestroyWithPool
  BY <1>1, <1>8, DestroySettles, DestroyEmpties DEF DestroyWithPool
<1> QED BY <1>4, <1>5, <1>6, <1>7, <1>8 DEF PoolNext

LEMMA PoolStart ==
  ASSUME PoolInit
  PROVE  PoolInv
<1>1. SchedInv
  BY SchedStart DEF PoolInit
<1>2. /\ \A r \in Routine : state[r] = "FREE" /\ heap[r] = 0 /\ stackOf[r] = NoStack
      /\ now = 0 /\ clock = 0 /\ cached = <<>> /\ allocated = {}
      /\ stackOf = [r \in Routine |-> NoStack]
  BY DEF PoolInit, SchedInit
<1>3. now <= clock /\ \A r \in Routine : heap[r] > 0 => state[r] = "WAITING"
  BY SMTT(30), <1>2
<1>4. /\ <<>> \in Seq(Stack) /\ Range(<<>>) = {} /\ IsInjective(<<>>) /\ Len(<<>>) <= Capacity
  BY SMTT(30), PoolAssumption DEF Range, IsInjective
<1>5. Owned = {}
  BY <1>2 DEF Owned
<1>6. StacksAccounted
  BY <1>2, <1>4, <1>5 DEF StacksAccounted
<1> QED BY <1>1, <1>2, <1>3, <1>4, <1>6 DEF PoolInv

------------------------------------------------------------------------------
(* PoolInv holds in every reachable state: the invariant behind the        *)
(* results below, for any routines, stacks and capacity, failing context   *)
(* switches and failing timers included.                                   *)
THEOREM PoolInvariant == PoolSpec => []PoolInv
<1>1. PoolInit => PoolInv
  BY PoolStart
<1>2. PoolInv /\ [PoolNext]_allVars => PoolInv'
  BY PoolNextInv
<1> QED BY <1>1, <1>2, PTL DEF PoolSpec

(* co_stack_pool_alloc and co_stack_pool_free, as co_spawn, a finished     *)
(* coroutine and co_scheduler_destroy use them, never give two coroutines  *)
(* one stack, never overrun the array of the pool, and lose no stack.      *)
THEOREM StacksNeverLost == PoolSpec => []StacksAccounted
<1>1. PoolInv => StacksAccounted
  BY DEF PoolInv
<1> QED BY <1>1, PoolInvariant, PTL

(* The timer loop of co_scheduler_run makes no coroutine in co_sleep ready *)
(* before its wakeup_time has come on the clock.                           *)
THEOREM SleepsAreFull == PoolSpec => SleepNotShort
<1>1. PoolInv /\ [PoolNext]_allVars => [FullSleep]_schedVars
  BY PoolNextInv
<1> QED BY <1>1, PoolInvariant, PTL DEF PoolSpec, SleepNotShort, FullSleep
==============================================================================
