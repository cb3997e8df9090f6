\* Two coroutines, a socket used with timeouts, one whose operations fail,
\* and handles for accepted connections.
SPECIFICATION FairSpec
CONSTANTS
  Routine = {r1, r2}
  NoRoutine = NoRoutine
  Ready = Ready
  WaitQueue = {}
  NoQueue = NoQueue
  SleepTimes = {1}
  MaxTime = 1
  SwapMayFail = FALSE
  PushMayFail = TRUE
  Socket = {s1, s2}
  NoSocket = NoSocket
  TimedSocket = {s1}
  IoTimeouts = {0, 1}
  FailingSocket = {s2}
  TableSize = 2
  MaxEvents = 2
  ReuseHandles = FALSE
INVARIANTS OverlappedAlive EveryPacketWakes ResumedForAReason WaitingIoIsCount SocketsAccounted
PROPERTIES  TimedCallReturns
