SPECIFICATION Spec
CONSTANTS
  Uploads = {u1}
  Objects = {o1}
  Parts = {p1}
  Workers = {w1, w2}
  Faults = {}
  None = None
CHECK_DEADLOCK FALSE
INVARIANTS NoOrphanObject
