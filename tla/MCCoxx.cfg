\* Three coroutines, three task states and a wait group.
SPECIFICATION CoxxSpec
CONSTANTS
  t1 = t1
  t2 = t2
  t3 = t3
  Routine = {r1, r2, r3}
  NoRoutine = NoRoutine
  Ready = Ready
  WaitQueue <- MCWaitQueue
  Mutex <- MCMutex
  Cond <- MCCond
  NoQueue = NoQueue
  SleepTimes = {}
  MaxTime = 0
  SwapMayFail = TRUE
  PushMayFail = FALSE
  Token <- MCToken
  NoToken = NoToken
  Group = Group
  MaxCount = 2
SYMMETRY Symmetry
INVARIANTS FreedIdle LocksNeverBlock NobodySleepsInVain TaskNotAbandoned
PROPERTIES JoinAfterBody LayerKeepsRules
