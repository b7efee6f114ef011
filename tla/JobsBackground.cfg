SPECIFICATION Spec
CONSTANTS
  None = None
  r1 = r1
  r2 = r2
  c1 = c1
  c2 = c2
  bad = bad
  x1 = x1
  x2 = x2
  Requests = {r1, r2}
  Workers = {w1, w2}
  Tenants = {t1, t2}
  Names = {n1}
  Contents = {c1, c2}
  Keys = {k1}
  Records = {x1, x2}
  KindsOf <- AsyncThenAny
  Files <- MCFiles
  Parsable <- MCParsable
  RowsOf <- MCRowsOf
  Store = "sqlite"
  JobQueue = "background"
  MaxRetries = 0
  MaxFaults = 1
  MaxRedeliveries = 0
SYMMETRY WorkerSymmetry
PROPERTIES
  ImplementsIdempotentSubmission
CHECK_DEADLOCK FALSE
