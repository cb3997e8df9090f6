\* A rendezvous channel, one slot, and a ring of two slots that wraps, with
\* senders and receivers waiting.
SPECIFICATION FairSpec
CONSTANTS
  Routine = {r1, r2, r3}
  NoRoutine = NoRoutine
  Ready = Ready
  sq = sq
  rq = rq
  SendQ = sq
  RecvQ = rq
  WaitQueue <- MCWaitQueue
  NoQueue = NoQueue
  SleepTimes = {}
  MaxTime = 0
  SwapMayFail = FALSE
  PushMayFail = FALSE
  Capacities = {0, 1, 2}
  MaxMessages = 4
INVARIANTS NobodyWaitsInVain OkMeansDone
PROPERTIES ImplementsFifo CloseReleases
