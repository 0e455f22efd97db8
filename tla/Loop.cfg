SPECIFICATION FairSpec
CONSTANTS
  LoopThread = loop
  Wakeup = wakeup
  NoFunctor = none
  OtherThreads = {t1, t2}
  Functors = {f1, f2}
  IoChannels = {c1}
  EventFdMax = 1
PROPERTIES
  ImplementsMailbox
  PostedIsReleased
  QuitStopsLoop
INVARIANTS
  TypeOK
  NoShortWakeupRead
  WakeCoversPending
CHECK_DEADLOCK FALSE
