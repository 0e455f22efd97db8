SPECIFICATION Spec
CONSTANTS
  LoopThread = loop
  BaseThread = base
  Wakeup = wakeup
  None = none
  Conns = {c1}
  Fds = {f1, f2}
  InitEventListSize = 1
  BaseSends = FALSE
  BaseTearsDown = TRUE
SYMMETRY Symmetry
INVARIANT
  NoCallbackAfterRemove
CHECK_DEADLOCK FALSE
