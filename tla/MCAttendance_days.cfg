SPECIFICATION FairSpec
CONSTANTS
  Tx = {t1, t2, t3}
  Employee = {e1}
  DayLength = 2
  LastTick = 3
  None = None
INVARIANTS
  TypeOK
  TimesOnWorkDate
  UpdateSatisfiesClockOrder
PROPERTIES
  RecordsAreKept
  CallsAnswered
