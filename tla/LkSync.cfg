SPECIFICATION FairSpec
CONSTANTS
  Threads = {"t1", "t2", "t3"}
  CpuSets = {{1}, {1, 2}}
  Kinds = {"mutex", "sem", "event", "auto"}
  TimedSets <- MCTimed
  MaxTokens = 2
CHECK_DEADLOCK FALSE
INVARIANT GrantExact
INVARIANT QueuesExact
INVARIANT OneCpuTimers
PROPERTY MutexServed
