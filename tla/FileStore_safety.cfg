\* Two uploads of the same two contents by two requests, with every fault the
\* code means to survive.
SPECIFICATION Spec
CONSTANTS
  Uploads = {u1, u2}
  Objects = {o1, o2}
  Parts = {p1}
  Workers = {w1, w2}
  Faults = {"crash", "commit", "storage"}
  None = None
SYMMETRY Symmetry
CHECK_DEADLOCK FALSE
INVARIANTS TypeOK NoDanglingReference LedgerAgrees PartsBacked
PROPERTIES NothingIsUndone
