\* A closed socket's handle value is given to a new socket.
SPECIFICATION Spec
CONSTANTS
  Routine = {r1, r2}
  NoRoutine = NoRoutine
  Ready = Ready
  WaitQueue = {}
  NoQueue = NoQueue
  SleepTimes = {}
  MaxTime = 0
  SwapMayFail = FALSE
  PushMayFail = FALSE
  Socket = {s1, s2}
  NoSocket = NoSocket
  TimedSocket = {}
  IoTimeouts = {0}
  FailingSocket = {}
  TableSize = 2
  MaxEvents = 2
  ReuseHandles = TRUE
INVARIANT EveryPacketWakes
