SPECIFICATION Spec
CONSTANTS
  ann = ann
  bob = bob
  annUser = annUser
  bobUser = bobUser
  hugo = hugo
  None = None
  Tx = {t1, t2}
  RequestId = {r1, r2}
  Employee = {ann, bob}
  User = {annUser, bobUser, hugo}
  Linkings <- Fixed
  HRUser = {annUser, hugo}
  LeaveType = {annual}
  TypeFlags <- Uncharged
  Day = {1}
  Year = {1}
  YearOf <- MCYearOf
  Limit = 3
  Entitlement = {2}
  Adjustment = {1}
  Calls <- AllCalls
INVARIANT
  NoOverlap
