SPECIFICATION Spec
CONSTANTS
  LoopThread = loop
  BaseThread = base
  Eof = eof
  MaxSent = 2
  MaxMessage = 1
  SendSpace = 1
  ForeignUse = TRUE
INVARIANT
  PendingIsWatched
CHECK_DEADLOCK FALSE
