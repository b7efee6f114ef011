SPECIFICATION Spec
CONSTANTS
  Files <- MCFiles
  ScanRows = 20
  Paths = {"upload", "async", "sync"}
INVARIANTS
  LossIsRespelling
  OnlyRepeatsGetPast
CHECK_DEADLOCK FALSE
