SPECIFICATION Spec
CONSTANTS
  e1 = e1
  e2 = e2
  e3 = e3
  t1 = t1
  t2 = t2
  Tx = {t1}
  Employee = {e1, e2, e3}
  User = {u1}
  Clerk = {}
  Department = {}
  Position = {}
  None = None
  Placements = {}
  Calls <- NoRooms
INVARIANT
  Acyclic
SYMMETRY Interchangeable
