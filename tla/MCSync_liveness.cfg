\* Two coroutines and the main program; memory may run out.
SPECIFICATION FairSpec
CONSTANTS
  m1 = m1
  c1 = c1
  Routine = {r1, r2}
  NoRoutine = NoRoutine
  Ready = Ready
  WaitQueue <- MCWaitQueue
  Mutex <- MCMutex
  Cond <- MCCond
  NoQueue = NoQueue
  SleepTimes = {1}
  MaxTime = 2
  SwapMayFail = FALSE
  PushMayFail = TRUE
INVARIANTS SyncInv
PROPERTIES LockAcquires TimedWaitReturns
