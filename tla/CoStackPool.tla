----------------------------- MODULE CoStackPool -----------------------------
(***************************************************************************)
(* The stacks of the coroutines: co_stack_pool.c, and its use in           *)
(* co_routine_init and co_routine_destroy, on top of the scheduler.        *)
(*                                                                         *)
(* A member of Stack is the address of a block of malloc.  `cached` is the *)
(* array pool->stacks[0 .. count - 1], used as a LIFO.  The statistics,    *)
(* which nothing reads, are left out.                                      *)
(***************************************************************************)
EXTENDS CoScheduler, SequencesExt

CONSTANTS Stack,          \* addresses malloc may return
          NoStack,        \* NULL
          Capacity,       \* pool->capacity
          SpawnMayFail    \* may co_context_init fail in co_spawn?

ASSUME PoolAssumption ==
  /\ NoStack \notin Stack
  /\ Capacity \in Nat
  /\ SpawnMayFail \in BOOLEAN

VARIABLES
  stackOf,      \* routine->stack_base
  cached,       \* pool->stacks
  allocated     \* the blocks malloc has handed out and free has not taken back

poolVars == <<stackOf, cached, allocated>>
allVars == <<schedVars, poolVars>>

Owned == {stackOf[r] : r \in Routine} \ {NoStack}

(* malloc: which free block it returns makes no difference to the code.    *)
Malloc == CHOOSE s \in Stack \ allocated : TRUE

(* The stack co_stack_pool_alloc returns, what it leaves in the cache, and *)
(* the blocks in use behind it.                                            *)
TopStack == IF cached # <<>> THEN Last(cached) ELSE Malloc
RestOfCache == IF cached # <<>> THEN Front(cached) ELSE <<>>
AllocatedWith(s) == allocated \cup {s}

PoolInit ==
  /\ SchedInit
  /\ stackOf = [r \in Routine |-> NoStack]
  /\ cached = <<>>
  /\ allocated = {}

------------------------------------------------------------------------------
(* Mutant: one stack too many is put in the array.                         *)
CacheWithPastEnd(c, s) == IF Len(c) <= Capacity THEN Append(c, s) ELSE c

(* co_stack_pool_free keeps a stack while there is room, and otherwise     *)
(* frees it.                                                               *)
CacheWith(c, s) == IF Len(c) < Capacity THEN Append(c, s) ELSE c
FreedBy(c, s) == IF Len(c) < Capacity THEN {} ELSE {s}

(* co_spawn with the stack co_routine_init takes for it.  When the cache   *)
(* is empty and malloc fails, co_spawn fails and changes nothing.          *)
SpawnWithStack(r) ==
  /\ cached # <<>> \/ Stack \ allocated # {}
  /\ Spawn(r)
  /\ stackOf' = [stackOf EXCEPT ![r] = TopStack]
  /\ cached' = RestOfCache
  /\ allocated' = AllocatedWith(TopStack)

(* co_context_init writes to the new routine and its stack only, and fails *)
(* if getcontext does.                                                     *)
ContextInitFails == SpawnMayFail

(* co_context_init fails: the stack goes back to the pool.                 *)
SpawnNoContext ==
  /\ ContextInitFails
  /\ pc \in {"idle", "coroutine"}
  /\ \E r \in Routine : state[r] = "FREE"
  /\ cached # <<>> \/ Stack \ allocated # {}
  /\ cached' = CacheWith(RestOfCache, TopStack)
  /\ allocated' = AllocatedWith(TopStack) \ FreedBy(RestOfCache, TopStack)
  /\ UNCHANGED <<schedVars, stackOf>>

(* co_routine_destroy of a coroutine that has finished.                    *)
ReturnStack(r) ==
  /\ stackOf' = [stackOf EXCEPT ![r] = NoStack]
  /\ cached' = CacheWith(cached, stackOf[r])
  /\ allocated' = allocated \ FreedBy(cached, stackOf[r])

(* A step of the scheduler loop: behind the switch a dead coroutine's      *)
(* stack is returned; no other step touches the pool.                      *)
LoopStep ==
  /\ SchedulerStep
  /\ IF pc = "back" /\ state[current] = "DEAD"
     THEN ReturnStack(current)
     ELSE UNCHANGED poolVars

(* co_scheduler_destroy returns the stacks of the coroutines it finds and  *)
(* then frees the pool with what it caches.  The stacks of coroutines that *)
(* are blocked elsewhere stay allocated.                                   *)
DestroyWithPool ==
  /\ Destroy
  /\ stackOf' = [r \in Routine |->
                   IF state'[r] = "FREE" THEN NoStack ELSE stackOf[r]]
  /\ cached' = <<>>
  /\ allocated' = (allocated \ Range(cached))
                    \ {stackOf[r] : r \in {s \in Routine : state'[s] = "FREE"}}

------------------------------------------------------------------------------
OtherStep ==
  /\ \/ Fault \/ RunStart \/ Tick \/ Suspend
     \/ \E d \in SleepTimes : SleepNoMem(d)
     \/ Gone
  /\ UNCHANGED poolVars

PoolNext ==
  \/ LoopStep
  \/ OtherStep
  \/ \E r \in Routine : SpawnWithStack(r)
  \/ SpawnNoContext
  \/ DestroyWithPool

PoolSpec == PoolInit /\ [][PoolNext]_allVars

(* The fairness of the scheduler, on the composed steps.                   *)
PoolFairness ==
  /\ WF_allVars(LoopStep)
  /\ WF_allVars(Tick /\ UNCHANGED poolVars)
  /\ WF_allVars(Suspend /\ UNCHANGED poolVars)

PoolFairSpec == PoolSpec /\ PoolFairness

------------------------------------------------------------------------------
(* Every allocated coroutine runs on a stack of its own that nothing else  *)
(* has, the cache holds different stacks and no more than its array, and   *)
(* every block of malloc is either in use or cached: none is leaked or     *)
(* used after it was freed.                                                *)
StacksAccounted ==
  /\ \A r \in Routine : (state[r] = "FREE") = (stackOf[r] = NoStack)
  /\ \A r, s \in Routine : r # s /\ stackOf[r] = stackOf[s] => stackOf[r] = NoStack
  /\ IsInjective(cached) /\ Len(cached) <= Capacity
  /\ Owned \cap Range(cached) = {}
  /\ allocated = Owned \cup Range(cached)

(* The rest of the inductive invariant: the types, the scheduler's own     *)
(* invariant, the sampled time is not ahead of the clock, and with nothing *)
(* else to wait for a timer belongs to a coroutine that sleeps.            *)
PoolInv ==
  /\ SchedInv
  /\ now <= clock
  /\ \A r \in Routine : heap[r] > 0 => state[r] = "WAITING"
  /\ stackOf \in [Routine -> Stack \cup {NoStack}]
  /\ cached \in Seq(Stack)
  /\ StacksAccounted
==============================================================================
