SPECIFICATION RunSpec
CONSTANTS
  None = None
  Banks = 2
  Invoices = 2
  InvoiceIds <- MCInvoiceIds
  Evidences <- MCEvidences
  DateTolerance = 3
  NearAmount = 1
  ReviewAt = 15
  AutoAt = 40
  Modes = {"async", "sync", "demo"}
  BankIds <- MCBankIds
  Truths <- MCTruths
  MismatchAbove = 1
  MaxAttempts = 2
  MaxFaults = 1
INVARIANTS
  NoInvoiceMatchedTwice
  ReferenceConflictIsReviewed
  DeterministicIsUnambiguous
  ExclusivePairsAreMatched
  MismatchIsReferenced
  EveryReviewIsTracked
  ReportAgreesWithRows
  CountersAgree
  EvaluationIsHonest
CHECK_DEADLOCK FALSE
