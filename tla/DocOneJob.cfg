SPECIFICATION Spec
CONSTANTS
  None = None
  r1 = r1
  r2 = r2
  c1 = c1
  c2 = c2
  bad = bad
  x1 = x1
  x2 = x2
  Requests = {r1, r2}
  Workers = {w1}
  Tenants = {t1}
  Names = {n1}
  Contents = {c1, c2}
  Keys = {k1}
  Records = {x1, x2}
  KindsOf <- AllAsync
  Files <- MCFiles
  Parsable <- MCParsable
  RowsOf <- MCRowsOf
  Store = "sqlite"
  JobQueue = "background"
  MaxRetries = 1
  MaxFaults = 0
  MaxRedeliveries = 0
INVARIANTS
  OneJobPerKey
CHECK_DEADLOCK FALSE
