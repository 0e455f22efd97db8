SPECIFICATION FairSpec
CONSTANTS
  Loops = {l1}
  None = none
  Quitters = {}
PROPERTIES
  DestructorReturns
CHECK_DEADLOCK FALSE
