SPECIFICATION Spec
CONSTANTS
  LoopThread = loop
  BaseThread = base
  Wakeup = wakeup
  None = none
  Conns = {c1, c2}
  Fds = {f1, f2, f3}
  InitEventListSize = 1
  BaseSends = TRUE
  BaseTearsDown = TRUE
SYMMETRY Symmetry
INVARIANTS
  TypeOK
  ListedIsOwner
  EventListBounded
CHECK_DEADLOCK FALSE
