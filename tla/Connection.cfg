SPECIFICATION FairSpec
CONSTANTS
  LoopThread = loop
  BaseThread = base
  Eof = eof
  MaxSent = 3
  MaxMessage = 2
  SendSpace = 2
  ForeignUse = FALSE
INVARIANTS
  TypeOK
  PendingIsWatched
  NoWriteAfterFin
  DueEndWaits
PROPERTIES
  StatesOnlyAdvance
  CallbackOrder
  ImplementsByteStream
  EverythingArrives
  EndIsNoticed
CHECK_DEADLOCK FALSE
