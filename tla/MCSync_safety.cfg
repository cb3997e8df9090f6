\* Three coroutines and the main program, a mutex and a condition variable;
\* context switches may fail.
SPECIFICATION Spec
CONSTANTS
  m1 = m1
  c1 = c1
  Routine = {r1, r2, r3}
  NoRoutine = NoRoutine
  Ready = Ready
  WaitQueue <- MCWaitQueue
  Mutex <- MCMutex
  Cond <- MCCond
  NoQueue = NoQueue
  SleepTimes = {1}
  MaxTime = 2
  SwapMayFail = TRUE
  PushMayFail = FALSE
SYMMETRY Symmetry
INVARIANTS NodeLinkedOnce NoDanglingPointer HandoffAssertion MutualExclusion
PROPERTIES TimeoutXorSignal TimerKeyStable RunLeavesOnlyBlocked DestroyLeavesBlocked
