SPECIFICATION Spec
CONSTANTS
  LastDay = 9
  None = None
  Zone <- AllZones
INVARIANT
  InclusiveDays
CHECK_DEADLOCK FALSE
