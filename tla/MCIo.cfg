\* Two coroutines, one socket used with timeouts and one that may break.
SPECIFICATION FairSpec
CONSTANTS
  Routine = {r1, r2}
  NoRoutine = NoRoutine
  Ready = Ready
  WaitQueue = {}
  NoQueue = NoQueue
  SleepTimes = {1}
  MaxTime = 1
  SwapMayFail = FALSE
  PushMayFail = TRUE
  Fd = {f1, f2}
  Direction = {read}
  TimedFd = {f1}
  IoTimeouts = {0, 1}
  FailingFd = {f2}
  OneWaiterPerFd = TRUE
INVARIANTS WaitingIoIsCount ContextAlive NoLostEvent TimeoutXorEvent
PROPERTIES TimedCallReturns ServedIfPolled
