SPECIFICATION FairSpec
CONSTANTS
  LoopThread = loop
  BaseThread = base
  Wakeup = wakeup
  None = none
  Conns = {c1, c2, c3}
  Fds = {f1, f2, f3}
  InitEventListSize = 1
  BaseSends = FALSE
  BaseTearsDown = FALSE
INVARIANTS
  EpollCtlSucceeds
  RegistryConsistent
PROPERTIES
  ImplementsInterestList
  ClosedIsFreed
CHECK_DEADLOCK FALSE
