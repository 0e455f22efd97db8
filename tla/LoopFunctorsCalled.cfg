SPECIFICATION Spec
CONSTANTS
  LoopThread = loop
  Wakeup = wakeup
  NoFunctor = none
  OtherThreads = {t1}
  Functors = {f1, f2}
  IoChannels = {c1}
  EventFdMax = 2
SYMMETRY Symmetry
INVARIANT
  ReleasedWereCalled
CHECK_DEADLOCK FALSE
