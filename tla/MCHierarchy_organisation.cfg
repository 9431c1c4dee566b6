SPECIFICATION OneManagerAtATime
CONSTANTS
  e1 = e1
  e2 = e2
  e3 = e3
  t1 = t1
  t2 = t2
  Tx = {t1, t2}
  Employee = {e1, e2, e3}
  User = {u1}
  Clerk = {k1}
  Department = {d1}
  Position = {p1}
  None = None
  Placements <- MCPlacements
  Calls <- MCCalls
INVARIANTS
  TypeOK
  NoMutualManagers
SYMMETRY BesideFirst
