SPECIFICATION FairSpec
CONSTANTS
  None = None
  r1 = r1
  r2 = r2
  c1 = c1
  c2 = c2
  bad = bad
  x1 = x1
  x2 = x2
  Requests = {r1, r2}
  Workers = {w1, w2}
  Tenants = {t1}
  Names = {n1}
  Contents = {c1, c2, bad}
  Keys = {}
  Records = {x1, x2}
  KindsOf <- AsyncAndUpload
  Files <- MCFilesMixed
  Parsable <- MCParsable
  RowsOf <- MCRowsOf
  Store = "postgres"
  JobQueue = "celery"
  MaxRetries = 1
  MaxFaults = 1
  MaxRedeliveries = 1
INVARIANTS
  JobInv
  SuccessIsBacked
  UndisturbedOutputsAreOwn
  OutputsAreAudited
  UnsettledIsCarried
PROPERTIES
  EveryJobSettles
CHECK_DEADLOCK FALSE
