-------------------------------- MODULE Coxx --------------------------------
(***************************************************************************)
(* The C++ layer (libcoxx): co::Scheduler::spawn, co::Task and             *)
(* co::WaitGroup, built from the mutexes and condition variables of        *)
(* CoSync.                                                                 *)
(*                                                                         *)
(* A Token is a TaskSharedState: allocated by spawn with a mutex and a     *)
(* condition variable of its own, referred to by the Task handle and by    *)
(* the trampoline of the coroutine, and freed when the last of the two     *)
(* lets go.  Every member function of the layer has one shape: lock, look  *)
(* at or change what the mutex protects, possibly wait on the condition    *)
(* variable, and unlock; `at` remembers in which function a coroutine is.  *)
(* Its steps are steps of CoSync.                                          *)
(*                                                                         *)
(* Clients use one Task handle from one place at a time, call done() once  *)
(* for each add(), and do not copy what the layer makes non-copyable.      *)
(***************************************************************************)
EXTENDS CoSync

CONSTANTS Token,       \* addresses of TaskSharedState blocks
          NoToken,     \* nullptr
          Group,       \* the WaitGroup
          MaxCount     \* bound on its counter

MutexOf(x) == <<x, "mutex">>
CondOf(x) == <<x, "cond">>
Object == Token \cup {Group}

ASSUME CoxxAssumption ==
  /\ Group \notin Token /\ NoToken \notin Object
  /\ Mutex = {MutexOf(x) : x \in Object}
  /\ Cond = {CondOf(x) : x \in Object}
  /\ MaxCount \in Nat

VARIABLES
  token,       \* the reference of each coroutine's trampoline
  handle,      \* the tokens that a Task handle refers to
  done,        \* TaskSharedState::done
  count,       \* WaitGroup::count_
  at           \* the function each coroutine, or the main program, is in

cxxVars == <<token, handle, done, count, at>>
allVars == <<vars, cxxVars>>

Body == [op |-> "body", obj |-> NoToken]
Ended == [op |-> "ended", obj |-> NoToken]
In(op, x) == [op |-> op, obj |-> x]

Live == handle \cup (Range(token) \ {NoToken})

CoxxInit ==
  /\ SyncInit
  /\ token = [r \in Routine |-> NoToken]
  /\ handle = {}
  /\ done = {}
  /\ count = 0
  /\ at = [r \in Routine \cup {NoRoutine} |-> Body]

------------------------------------------------------------------------------
(* Scheduler::spawn, with fresh synchronisation objects.  If co_spawn      *)
(* fails the wrapper and the token are deleted again.                      *)
SpawnTask(r, t) ==
  /\ at[current] = Body
  /\ t \in Token \ Live
  /\ ClientSpawn(r)
  /\ token' = [token EXCEPT ![r] = t]
  /\ handle' = handle \cup {t}
  /\ UNCHANGED <<syncVars, done, count, at>>

(* state_.reset(): a token that nothing refers to any more is freed.       *)
LetGoOfHandle(t) ==
  /\ handle' = handle \ {t}
  /\ UNCHANGED <<token, count>>
  /\ done' = done \cap Live'

(* Task::detach and ~Task.                                                 *)
Detach(t) ==
  /\ InClientCode /\ at[current] = Body
  /\ t \in handle
  /\ \A r \in Routine : at[r] # In("join", t)
  /\ LetGoOfHandle(t)
  /\ UNCHANGED <<vars, at>>

(* The first step of every function: Mutex::lock.  The main program cannot *)
(* suspend and uses only WaitGroup::add.                                   *)
Enter(op, x) ==
  /\ InClientCode /\ at[current] = Body
  /\ op # "add" => pc = "coroutine"
  /\ TryLock(MutexOf(x)) \/ Lock(MutexOf(x))
  /\ at' = [at EXCEPT ![current] = In(op, x)]
  /\ UNCHANGED <<token, handle, done, count>>

(* The lock has been taken.                                                *)
Inside(op, x) ==
  /\ InClientCode
  /\ at[current] = In(op, x)
  /\ current \in held[MutexOf(x)]

Leave(x) == Unlock(MutexOf(x)) /\ at' = [at EXCEPT ![current] = Body]
Wait(x) == CondWait(CondOf(x), MutexOf(x)) /\ UNCHANGED <<cxxVars>>
NotifyAll(x) ==
  IF queue[CondOf(x)] # <<>> THEN Broadcast(CondOf(x)) ELSE UNCHANGED vars

------------------------------------------------------------------------------
(* Task::join: throws if the handle is not valid.                          *)
Join(t) ==
  /\ t \in handle
  /\ \A r \in Routine : at[r] # In("join", t)
  /\ Enter("join", t)

(* Mutants: done is not tested; the coroutine polls instead of waiting.    *)
JoinStepUntested(t) == Inside("join", t) /\ Leave(t) /\ LetGoOfHandle(t)
JoinStepPolls(t) ==
  /\ Inside("join", t)
  /\ \/ t \notin done /\ Yield /\ UNCHANGED <<syncVars, cxxVars>>
     \/ t \in done /\ Leave(t) /\ LetGoOfHandle(t)

(* The loop of join, and the reset of the handle.                          *)
JoinStep(t) ==
  /\ Inside("join", t)
  /\ \/ t \notin done /\ Wait(t)
     \/ t \in done /\ Leave(t) /\ LetGoOfHandle(t)

(* The function of the coroutine has returned or thrown: the trampoline    *)
(* signals completion, and lets go of the token as it returns.             *)
EndBody ==
  /\ pc = "coroutine" /\ token[current] # NoToken
  /\ Enter("end", token[current])

(* Mutant: the waiters are told, and done is not set.                      *)
SignalDoneUnset(t) ==
  /\ Inside("end", t)
  /\ NotifyAll(t)
  /\ at' = [at EXCEPT ![current] = In("signalled", t)]
  /\ UNCHANGED <<token, handle, done, count>>

SignalDone(t) ==
  /\ Inside("end", t)
  /\ done' = done \cup {t}
  /\ NotifyAll(t)
  /\ at' = [at EXCEPT ![current] = In("signalled", t)]
  /\ UNCHANGED <<token, handle, count>>

(* Mutant: the mutex stays locked.                                         *)
LetGoLocked(t) ==
  /\ Inside("signalled", t)
  /\ at' = [at EXCEPT ![current] = Ended]
  /\ token' = [token EXCEPT ![current] = NoToken]
  /\ UNCHANGED <<vars, handle, count>>
  /\ done' = done \cap Live'

LetGo(t) ==
  /\ Inside("signalled", t)
  /\ Unlock(MutexOf(t))
  /\ at' = [at EXCEPT ![current] = Ended]
  /\ token' = [token EXCEPT ![current] = NoToken]
  /\ UNCHANGED <<handle, count>>
  /\ done' = done \cap Live'

Returned ==
  /\ pc = "coroutine" /\ at[current] = Ended
  /\ Finish
  /\ at' = [at EXCEPT ![current] = Body]
  /\ UNCHANGED <<syncVars, token, handle, done, count>>

------------------------------------------------------------------------------
(* WaitGroup.                                                              *)
Add == count < MaxCount /\ Enter("add", Group)
AddStep ==
  /\ Inside("add", Group)
  /\ count' = count + 1
  /\ Leave(Group) /\ UNCHANGED <<token, handle, done>>

Done == count > 0 /\ Enter("done", Group)

(* Mutant: nobody is told.                                                 *)
DoneStepSilent ==
  /\ Inside("done", Group)
  /\ count' = count - 1
  /\ Leave(Group) /\ UNCHANGED <<token, handle, done>>

DoneStep ==
  /\ Inside("done", Group)
  /\ count' = count - 1
  /\ \/ count' # 0 /\ Leave(Group) /\ UNCHANGED <<token, handle, done>>
     \/ /\ count' = 0
        /\ NotifyAll(Group)
        /\ at' = [at EXCEPT ![current] = In("notified", Group)]
        /\ UNCHANGED <<token, handle, done>>
DoneLeave == Inside("notified", Group) /\ Leave(Group) /\ UNCHANGED <<token, handle, done, count>>

WaitGroupStep ==
  /\ Inside("wait", Group)
  /\ \/ count # 0 /\ Wait(Group)
     \/ count = 0 /\ Leave(Group) /\ UNCHANGED <<token, handle, done, count>>

------------------------------------------------------------------------------
(* What runs without a choice of the client: the rest of a function, and   *)
(* the resumed half of a call of CoSync.                                   *)
LayerStep ==
  \/ Resume /\ UNCHANGED cxxVars
  \/ \E t \in Token : JoinStep(t) \/ SignalDone(t) \/ LetGo(t)
  \/ Returned
  \/ AddStep \/ DoneStep \/ DoneLeave \/ WaitGroupStep

ClientStep ==
  \/ \E r \in Routine, t \in Token : SpawnTask(r, t)
  \/ \E t \in Token : Detach(t) \/ Join(t)
  \/ EndBody
  \/ Add
  \/ Done
  \/ Enter("wait", Group)

Pause == InCoroutineCode /\ at[current] = Body /\ Yield /\ UNCHANGED <<syncVars, cxxVars>>

LoopStep ==
  /\ \/ SchedulerStep
     \/ ScheduleError
     \/ RunStart /\ at[NoRoutine] = Body
     \/ Destroy /\ at[NoRoutine] = Body
     \/ Gone
  /\ UNCHANGED <<syncVars, cxxVars>>

CoxxNext == LayerStep \/ ClientStep \/ Pause \/ LoopStep
CoxxSpec == CoxxInit /\ [][CoxxNext]_allVars

------------------------------------------------------------------------------
(* Properties.                                                             *)

(* "Wait until the coroutine completes": when Task::join returns, the      *)
(* function of the joined coroutine has ended.                             *)
JoinAfterBody ==
  [][\A r \in Routine, t \in Token :
       at[r] = In("join", t) /\ at'[r] = Body =>
         \A s \in Routine : token[s] = t => at[s] = In("signalled", t)]_allVars

(* A handle that is not done can still become so: the coroutine of the     *)
(* task exists and has its trampoline's reference, so that join waits for  *)
(* somebody, whatever is detached, freed and allocated again meanwhile.    *)
TaskNotAbandoned ==
  pc # "destroyed" =>
    \A t \in handle \ done :
      \E r \in Routine : token[r] = t /\ state[r] \notin {"FREE", "DEAD"}

(* The layer follows the rules that CoSync has for its clients: it unlocks *)
(* and waits with mutexes it has been given, and no coroutine returns from *)
(* the trampoline with one.  What is proved of CoSync holds of the layer.  *)
LayerKeepsRules == Spec

(* The assertions in co_mutex_destroy and co_cond_destroy: a token whose   *)
(* last reference is gone has an unlocked mutex, and nobody waits in it.   *)
FreedIdle ==
  \A t \in Token \ Live :
    ~locked[MutexOf(t)] /\ queue[MutexOf(t)] = <<>> /\ queue[CondOf(t)] = <<>>

(* Nobody suspends with a mutex of the layer, so that lock() never blocks: *)
(* the trampoline and the functions of WaitGroup, which ignore the result  *)
(* of co_mutex_lock, always have the mutex.                                *)
LocksNeverBlock ==
  \A r \in Routine : pc # "coroutine" \/ r # current =>
    \A m \in Mutex : r \notin held[m] /\ r \notin Range(queue[m])

(* No lost notification: nobody sleeps in join for a task that has         *)
(* completed, or in WaitGroup::wait with the counter at zero, so that what *)
(* co_scheduler_run leaves behind waits for something that has not         *)
(* happened.                                                               *)
NobodySleepsInVain ==
  \A r \in Routine :
    /\ \A t \in done : r \notin Range(queue[CondOf(t)])
    /\ count = 0 => r \notin Range(queue[CondOf(Group)])

------------------------------------------------------------------------------
(* The inductive invariant of the layer, beside SyncInv.                   *)

Caller == Routine \cup {NoRoutine}
Op == {"body", "ended", "join", "end", "signalled", "add", "done", "notified", "wait"}

LayerTypeOK ==
  /\ token \in [Routine -> Token \cup {NoToken}]
  /\ handle \in SUBSET Token
  /\ done \in SUBSET Token
  /\ count \in Nat
  /\ at \in [Caller -> [op : Op, obj : Object \cup {NoToken}]]

(* The mutexes are used one at a time and without a suspension: a locked   *)
(* one is that of the function that client code is executing.              *)
LockInv(m) ==
  /\ queue[m] = <<>>
  /\ locked[m] => /\ InClientCode
                  /\ held[m] = {current}
                  /\ at[current].obj \in Object /\ m = MutexOf(at[current].obj)

(* Who is suspended in a call waits on the condition variable of the       *)
(* object of the function it is in.                                        *)
CallInv(r) ==
  call[r].op # "none" => /\ call[r].op = "wait"
                         /\ at[r].obj \in Object /\ call[r].mutex = MutexOf(at[r].obj)

WaiterInv(y) == \A r \in Routine : r \in Range(queue[CondOf(y)]) => at[r].obj = y

SleepInv ==
  /\ \A m \in Mutex : LockInv(m)
  /\ \A r \in Routine : CallInv(r)
  /\ \A y \in Object : WaiterInv(y)

(* Tokens are used in join and in the trampoline, and done() is called     *)
(* with a positive counter.                                                *)
UseInv(x) ==
  /\ at[x].op \in {"body", "ended"} => at[x].obj = NoToken
  /\ at[x].obj \in Token => x \in Routine /\ at[x].op \in {"join", "end", "signalled"}
  /\ at[x].op = "done" => x \in held[MutexOf(Group)] /\ count > 0

(* The token of a coroutine is its own; it is the one the trampoline is    *)
(* completing; a block that is freed is in no function.                    *)
TaskInv(r) ==
  /\ at[r].op \in {"end", "signalled"} => token[r] = at[r].obj /\ token[r] \in Token
  /\ token[r] # NoToken => \A s \in Routine : token[s] = token[r] => s = r
  /\ pc # "destroyed" /\ state[r] \in {"FREE", "DEAD"} => at[r] = Body

(* A handle is joined by one coroutine, and is valid meanwhile.            *)
HandleInv(r) ==
  at[r].op = "join" => /\ at[r].obj \in handle
                       /\ \A s \in Routine : at[s] = at[r] => s = r

(* done is set by the trampoline, which then has nothing left to do.       *)
DoneInv(t) ==
  t \in done => t \in Live /\ \A s \in Routine : token[s] = t => at[s] = In("signalled", t)

TokenInv ==
  /\ \A x \in Caller : UseInv(x)
  /\ \A r \in Routine : TaskInv(r) /\ HandleInv(r)
  /\ \A t \in Token : DoneInv(t)

LayerInv == LayerTypeOK /\ SleepInv /\ TokenInv /\ NobodySleepsInVain

(* Beside it, for TaskNotAbandoned: the trampoline sets done before it     *)
(* lets go of its token, and has none when the coroutine has finished.     *)
EndInv(r) ==
  /\ at[r].op = "signalled" => at[r].obj \in done
  /\ at[r].op = "ended" => token[r] = NoToken
  /\ pc # "destroyed" /\ state[r] \in {"FREE", "DEAD"} => token[r] = NoToken

AliveInv ==
  /\ \A r \in Routine : EndInv(r)
  /\ \A t \in handle \ done : \E r \in Routine : token[r] = t
==============================================================================
