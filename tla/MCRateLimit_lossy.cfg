SPECIFICATION FairSpec
CONSTANTS
  Request = {r1, r2, r3}
  Limit = 2
  Window = 2
  None = None
INVARIANTS
  ExpireMeetsItsKey
PROPERTY
  LiftedUnlessLost
