SPECIFICATION Spec
CONSTANTS
  None = None
  Banks = 3
  Invoices = 3
  BankRecords <- MCBanks
  InvoiceRecords <- MCInvoices
  Similar <- MCSimilar
  Tolerance = 1
  BucketSize = 4
  DateTolerance = 3
  NearAmount = 1
  MaxItems = 3
  MaxComplex = 250
  ReviewAt = 70
INVARIANTS
  AccountsBalance
  SettledOnce
  UnmatchedHasNoCandidate
  UnambiguousCombinationIsTaken
CHECK_DEADLOCK FALSE
