SPECIFICATION Spec
CONSTANTS
  ann = ann
  bob = bob
  annUser = annUser
  bobUser = bobUser
  hugo = hugo
  None = None
  Tx = {t1, t2}
  RequestId = {r1, r2}
  Employee = {ann, bob}
  User = {annUser, bobUser, hugo}
  Linkings <- Fixed
  HRUser = {hugo}
  LeaveType = {annual}
  TypeFlags <- Toggled
  Day = {1, 2}
  Year = {1}
  YearOf <- MCYearOf
  Limit = 2
  Entitlement = {0, 2}
  Adjustment <- TakenBack
  Calls <- LedgerCalls
INVARIANTS
  ApprovedIsGranted
  CheckedBalanceStillCovers
  UsedIsApprovedCharges
  WaitsEndAtRunner
PROPERTY
  ActsAtomically
SYMMETRY Interchangeable
