SPECIFICATION Spec
CONSTANTS
  None = None
  Requests = {r1, r2, r3}
  Tenants = {t1}
  Backends = {"memory"}
  Limit = 2
  Window = 2
  MaxTime = 2
INVARIANTS
  MemoryWindowHolds
CHECK_DEADLOCK FALSE
