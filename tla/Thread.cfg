SPECIFICATION FairSpec
CONSTANTS
  Loops = {l1, l2, l3}
  None = none
  Quitters = {l3}
INVARIANTS
  TypeOK
  SemaphoreOutlivesPost
  NoJoinableDestroyed
  ReturnedLoopRuns
  NoWakeupLost
PROPERTIES
  ImplementsLoopLease
  StartLoopReturns
  QuitLoopIsJoined
CHECK_DEADLOCK FALSE
