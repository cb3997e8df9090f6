\* Three coroutines with two lengths of sleep; a pool that caches one stack.
SPECIFICATION PoolFairSpec
CONSTANTS
  Routine = {r1, r2, r3}
  NoRoutine = NoRoutine
  Ready = Ready
  WaitQueue = {}
  NoQueue = NoQueue
  SleepTimes = {1, 2}
  MaxTime = 2
  SwapMayFail = FALSE
  PushMayFail = TRUE
  Stack = {1, 2, 3}
  NoStack = 0
  Capacity = 1
  SpawnMayFail = TRUE
INVARIANTS StacksAccounted
PROPERTIES SleepNotShort ReadyRuns SleeperRuns
