SPECIFICATION TurnSpec
CONSTANTS
  ann = ann
  bob = bob
  annUser = annUser
  bobUser = bobUser
  hugo = hugo
  None = None
  Tx = {t1, t2}
  RequestId = {r1, r2}
  Employee = {ann, bob}
  User = {annUser, bobUser, hugo}
  Linkings <- Fixed
  HRUser = {hugo}
  LeaveType = {annual}
  TypeFlags <- Charged
  Day = {1, 2}
  Year = {1}
  YearOf <- MCYearOf
  Limit = 3
  Entitlement = {2}
  Adjustment = {1}
  Calls <- TurnCalls
INVARIANT
  NoOverlap
PROPERTY
  CallsAnswered
