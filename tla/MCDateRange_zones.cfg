SPECIFICATION FairSpec
CONSTANTS
  LastDay = 9
  None = None
  Zone <- AllZones
INVARIANT
  DaysCounted
PROPERTY
  LoopEnds
CHECK_DEADLOCK FALSE
