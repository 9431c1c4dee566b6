SPECIFICATION FairSpec
CONSTANTS
  root = root
  ann = ann
  super = super
  hr = hr
  manage = manage
  audit = audit
  None = None
  Tx = {t1, t2}
  User = {root, ann}
  Role = {super, hr}
  Permission = {manage, audit}
  RoleManage = manage
  Admin = root
  SuperAdmin = super
  SeedGrants <- MCSeedGrants
  Calls <- MCCalls
INVARIANTS
  TypeOK
  SeedsTakeTurns
  DeadlocksTakeASeed
PROPERTIES
  OnlyASeedRestores
  ActsAtomically
  CallsAnswered
