SPECIFICATION MCSpec
CONSTANTS
  None = None
  t1 = t1
  t2 = t2
  p1 = p1
  p2 = p2
  d1 = d1
  d2 = d2
  Deciders = {d1, d2}
  Runs = {p1, p2}
  Tenants = {t1, t2}
  Hashes = {1, 2}
  TenantOfRun <- MCTenantOfRun
  HashesOf <- MCHashesOf
  Batches <- MCBatches
  Asks <- MCAsks
  MaxSaves = 3
  MaxFailures = 2
  Limit = 1
  Views <- MCViews
  Stamps = {1, 2}
SYMMETRY DeciderSymmetry
INVARIANTS
  MissedAreAccounted
  AuditAgreesWithRow
  DecidedIsAudited
  RepliesAreTrue
  OwnTenantOnly
PROPERTIES
  DecisionsAreFinal
  ImplementsSequentialReview
CHECK_DEADLOCK FALSE
