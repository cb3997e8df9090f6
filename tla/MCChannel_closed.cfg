\* A receiver is handed a message and the channel is closed before it runs.
SPECIFICATION Spec
CONSTANTS
  Routine = {r1, r2, r3}
  NoRoutine = NoRoutine
  Ready = Ready
  sq = sq
  rq = rq
  SendQ = sq
  RecvQ = rq
  WaitQueue <- MCWaitQueue
  NoQueue = NoQueue
  SleepTimes = {}
  MaxTime = 0
  SwapMayFail = FALSE
  PushMayFail = FALSE
  Capacities = {0, 1, 2}
  MaxMessages = 4
INVARIANT ClosedRecvHasNoData
