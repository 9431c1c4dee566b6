SPECIFICATION Spec
CONSTANTS
  Tx = {t1, t2}
  Client = {c1}
  Session = {s1, s2, s3}
  None = None
INVARIANTS
  TypeOK
  HeirsOverlapped
  CookieUsable
SYMMETRY Interchangeable
