SPECIFICATION ReadSpec
CONSTANTS
  None = None
  r1 = r1
  r2 = r2
  c1 = c1
  c2 = c2
  bad = bad
  x1 = 1
  x2 = 2
  Requests = {r1, r2}
  Workers = {w1}
  Tenants = {t1}
  Names = {n1}
  Contents = {c1, c2, bad}
  Keys = {}
  Records = {1, 2}
  KindsOf <- AsyncAndAnyUpload
  Files <- MCFilesRead
  Parsable <- MCParsable
  RowsOf <- MCRowsOf
  Store = "postgres"
  JobQueue = "celery"
  MaxRetries = 1
  MaxFaults = 0
  MaxRedeliveries = 1
  PageLimit = 1
  ExportLimit = 1
  Migrated = TRUE
INVARIANTS
  StoredReportIsReadable
CONSTRAINT MCReads
CHECK_DEADLOCK FALSE
