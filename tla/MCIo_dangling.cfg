\* A connection breaks under a timed call, and the coroutine finishes.
SPECIFICATION Spec
CONSTANTS
  Routine = {r1}
  NoRoutine = NoRoutine
  Ready = Ready
  WaitQueue = {}
  NoQueue = NoQueue
  SleepTimes = {1}
  MaxTime = 2
  SwapMayFail = FALSE
  PushMayFail = FALSE
  Fd = {f1}
  Direction = {read}
  TimedFd = {f1}
  IoTimeouts = {0, 1}
  FailingFd = {f1}
  OneWaiterPerFd = TRUE
INVARIANT NoDanglingPointer
