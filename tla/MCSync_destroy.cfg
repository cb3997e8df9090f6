\* Two coroutines and the main program; context switches may fail.
SPECIFICATION Spec
CONSTANTS
  m1 = m1
  c1 = c1
  Routine = {r1, r2}
  NoRoutine = NoRoutine
  Ready = Ready
  WaitQueue <- MCWaitQueue
  Mutex <- MCMutex
  Cond <- MCCond
  NoQueue = NoQueue
  SleepTimes = {1}
  MaxTime = 2
  SwapMayFail = TRUE
  PushMayFail = FALSE
INVARIANTS FreedOnce
