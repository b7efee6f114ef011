SPECIFICATION Spec
CONSTANTS
  None = None
  Requests = {r1, r2, r3, r4}
  Tenants = {t1, t2}
  Backends = {"redis", "memory"}
  Limit = 2
  Window = 2
  MaxTime = 4
SYMMETRY RequestSymmetry
INVARIANTS
  WindowHolds
  RefusalIsEarned
CHECK_DEADLOCK FALSE
