SPECIFICATION FairServerSpec
CONSTANTS
  MaxThreads = 2
  MaxGiven = 3
  Conns = {c1, c2, c3}
  NoConn = none
  MaxOpen = 2
INVARIANTS
  ServerTypeOK
  Balanced
  GivenLoopsRun
  MapAgrees
PROPERTIES
  ImplementsConnectionTable
  StartListens
  ClosedIsReleased
CHECK_DEADLOCK FALSE
