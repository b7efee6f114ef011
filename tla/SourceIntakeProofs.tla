-------------------------- MODULE SourceIntakeProofs --------------------------
(***************************************************************************)
(* The two readers of a submitted file, for files of any number of columns *)
(* and rows: what the strict reader does not take over as the boundary     *)
(* read it is told by the header, and what it takes unseen by the boundary *)
(* the boundary would take too, but for a header written twice.            *)
(***************************************************************************)
EXTENDS SourceIntake, SequenceTheorems, TLAPS

-----------------------------------------------------------------------------
(* The invariant                                                              *)

Submitted == file.source \in {"bank", "purchase_register"}

\* What a step of the intake knows of its file.
IntakeInv ==
  /\ file \in Files
  /\ path # "upload" => Submitted
  /\ path = "async" /\ step \in {"parsed", "stored", "processed", "failed"} =>
       file.suffix = "csv" /\ CsvIsSound /\ parsed = CsvRows
  /\ step = "processed" =>
       Accepted /\ read = Transactions
  /\ step = "failed" => ~Accepted

\* The file does not change on its way, so what is said of it stays said.
LEMMA FileStays ==
  ASSUME file' = file
  PROVE  /\ CsvIsSound' = CsvIsSound /\ CsvRows' = CsvRows /\ Accepted' = Accepted
         /\ Submitted' = Submitted /\ Transactions' = Transactions
<1>1. /\ \A columns : MeetsContract(columns)' = MeetsContract(columns)
      /\ Submitted' = Submitted
  BY DEF MeetsContract, Submitted
<1>2. Names' = Names /\ AmountIfDerived' = AmountIfDerived
  <2>1. \A h : Named(h)' = Named(h)
    BY DEF Named
  <2>2. Names' = Names
    BY <2>1 DEF Names
  <2> QED BY <2>2 DEF AmountIfDerived
<1>3. \A row : ParsedRow(row)' = ParsedRow(row)
  BY <1>2 DEF ParsedRow
<1>4. CsvIsSound' = CsvIsSound /\ CsvRows' = CsvRows
  BY <1>1, <1>2, <1>3 DEF CsvIsSound, CsvRows, MappedApart, NormalizedApart
<1>5. Keys' = Keys /\ \A i : Marked(i)' = Marked(i) /\ Bare(i)' = Bare(i)
  <2>1. \A i, k : SameKey(i, k)' = SameKey(i, k)
    BY DEF SameKey, Marked
  <2>2. \A i : Last(i)' = Last(i)
    BY <2>1 DEF Last
  <2> QED BY <2>2 DEF Keys, Marked, Bare
<1>6. \A c : Readable(c)' = Readable(c)
  BY <1>5 DEF Readable
<1>7. \A row, c : Get(row, c)' = Get(row, c)
  <2> SUFFICES ASSUME NEW row, NEW c PROVE Get(row, c)' = Get(row, c)
    OBVIOUS
  <2>1. Readable(c)' = Readable(c)
    BY <1>6
  <2> QED BY <2>1 DEF Get, At, Missing
<1>8. \A row : Normalizes(row)' = Normalizes(row)
  BY <1>6, <1>7 DEF Normalizes, NormalizesBank, NormalizesPurchase
<1>9. ReaderAccepts' = ReaderAccepts
  <2>1. [i \in Keys |-> Bare(i)]' = [i \in Keys |-> Bare(i)]
    BY <1>5
  <2>2. {Bare(i) : i \in Keys}' = {Bare(i) : i \in Keys}
    BY <1>5
  <2> QED BY <1>1, <2>1, <2>2 DEF ReaderAccepts, NormalizedApart
<1>10. Accepted' = Accepted
  BY <1>8, <1>9 DEF Accepted
<1>11. \A row : Canonical(row)' = Canonical(row)
  BY <1>7 DEF Canonical
<1> QED BY <1>1, <1>4, <1>10, <1>11 DEF Transactions

\* The inductive invariant holds of every file on every path.
THEOREM IntakeInvariance == Spec => []IntakeInv
<1>1. Init => IntakeInv
  BY DEF Init, IntakeInv, Submitted
<1>2. IntakeInv /\ [Next]_vars => IntakeInv'
  <2> SUFFICES ASSUME IntakeInv, [Next]_vars PROVE IntakeInv'
    OBVIOUS
  <2>1. file' = file /\ path' = path
    BY DEF Next, vars, Goes, CheckName, ReadLimited, ParseSource, Store, RunPipeline
  <2>2. /\ CsvIsSound' = CsvIsSound /\ CsvRows' = CsvRows /\ Accepted' = Accepted
        /\ Submitted' = Submitted /\ Transactions' = Transactions
    BY <2>1, FileStays
  <2>3. CASE CheckName
    BY <2>1, <2>2, <2>3 DEF CheckName, Goes, IntakeInv
  <2>4. CASE ReadLimited
    BY <2>1, <2>2, <2>4 DEF ReadLimited, Goes, IntakeInv
  <2>5. CASE ParseSource
    <3>1. ASSUME path = "async", Parses, file.suffix \in Suffixes
          PROVE  file.suffix = "csv" /\ CsvIsSound /\ Rows = CsvRows
      <4>1. file.suffix = "csv"
        BY <3>1 DEF IntakeInv, Submitted, Suffixes
      <4> QED BY <3>1, <4>1 DEF Parses, Rows
    <3> QED BY <2>1, <2>2, <2>5, <3>1 DEF ParseSource, Goes, IntakeInv
  <2>6. CASE Store
    BY <2>1, <2>2, <2>6 DEF Store, Goes, IntakeInv
  <2>7. CASE RunPipeline
    BY <2>1, <2>2, <2>7 DEF RunPipeline, Goes, IntakeInv
  <2>8. CASE UNCHANGED vars
    BY <2>1, <2>2, <2>8 DEF vars, IntakeInv
  <2> QED BY <2>3, <2>4, <2>5, <2>6, <2>7, <2>8 DEF Next
<1> QED BY <1>1, <1>2, PTL DEF Spec

-----------------------------------------------------------------------------
(* What the contract makes of the names                                       *)

\* A submitted file whose columns meet the contract has no header of unknown meaning, so
\* every header means its own column, and no two the same one.
LEMMA HeadersMeanColumns ==
  ASSUME file \in Files, Submitted, CsvIsSound
  PROVE  /\ DOMAIN Names = DOMAIN file.header
         /\ \A i \in DOMAIN file.header : Names[i] = file.header[i].column
         /\ \A i, k \in DOMAIN file.header : Names[i] = Names[k] => i = k
<1>1. DOMAIN Names = DOMAIN file.header
  BY DEF Names
<1>2. \A i \in DOMAIN Names : Names[i] # Unknown
  <2>1. Unknown \notin Contract[file.source].required \cup Contract[file.source].optional
    BY DEF Submitted, Contract, Unknown, BankColumns, PurchaseColumns, Taxes
  <2> QED BY <2>1 DEF CsvIsSound, MeetsContract, Range
<1>3. \A i \in DOMAIN file.header : Names[i] = file.header[i].column
  BY <1>1, <1>2 DEF Names, Named
<1>4. \A i, k \in DOMAIN Names : Names[i] = Names[k] => i = k
  BY DEF CsvIsSound, MappedApart, IsInjective
<1> QED BY <1>1, <1>3, <1>4

-----------------------------------------------------------------------------
(* What the strict reader takes over                                          *)

\* A column the reader can get is the one of the header the parser named so.
LEMMA ReadableIsNamed ==
  ASSUME file \in Files, Submitted, CsvIsSound, NEW c, NEW row
  PROVE  /\ Readable(c) # {} => c \in Range(Names)
         /\ c \notin Range(Names) => Get(row, c) = Missing
         /\ c \in Range(Names) => c \in DOMAIN ParsedRow(row)
         /\ c \in Range(Names) /\ Readable(c) # {} => Stripped(Get(row, c)) = ParsedRow(row)[c]
         /\ Get(row, c) # Missing => Readable(c) # {}
<1>1. ASSUME NEW j \in Readable(c) PROVE j \in DOMAIN Names /\ Names[j] = c
  <2>1. j \in DOMAIN file.header /\ file.header[j].column = c
    BY DEF Readable, Keys
  <2> QED BY <2>1, HeadersMeanColumns
<1>2. Readable(c) # {} => c \in Range(Names)
  BY <1>1 DEF Range
<1>3. ASSUME c \in Range(Names), Readable(c) # {} 
      PROVE  Stripped(Get(row, c)) = ParsedRow(row)[c]
  <2>1. PICK j \in Readable(c) : j = CHOOSE i \in Readable(c) : TRUE
    BY <1>3
  <2>2. \A i \in DOMAIN Names : Names[i] = c => i = j
    BY <1>1, <2>1, HeadersMeanColumns
  <2>3. (CHOOSE i \in DOMAIN Names : Names[i] = c) = j
    BY <1>1, <2>1, <2>2
  <2>4. ParsedRow(row)[c] = Stripped(At(row, CHOOSE i \in DOMAIN Names : Names[i] = c))
    BY <1>3 DEF ParsedRow
  <2> QED BY <1>3, <2>1, <2>3, <2>4 DEF Get
<1>4. c \in Range(Names) => c \in DOMAIN ParsedRow(row)
  BY DEF ParsedRow
<1> QED BY <1>2, <1>3, <1>4 DEF Get

\* The columns of a submitted file are those of its contract.
LEMMA ColumnsOfContract ==
  ASSUME Submitted, CsvIsSound
  PROVE  /\ Range(Names) \cup AmountIfDerived \subseteq
               Contract[file.source].required \cup Contract[file.source].optional
         /\ AmountIfDerived = {} => Contract[file.source].required \subseteq Range(Names)
BY DEF CsvIsSound, MeetsContract

LEMMA ContractOfBank ==
  ASSUME file.source = "bank"
  PROVE  /\ Contract[file.source].required = BankColumns
         /\ Contract[file.source].optional = {"value_date", "debit", "credit"}
BY DEF Contract

LEMMA ContractOfPurchase ==
  ASSUME Submitted, file.source # "bank"
  PROVE  /\ Contract[file.source].required = PurchaseColumns
         /\ Contract[file.source].optional = Taxes
         /\ AmountIfDerived = {}
BY DEF Contract, Submitted, AmountIfDerived

\* A row that normalizes has every value the normalizer insists on.
LEMMA LostIsLenient ==
  ASSUME file \in Files, Submitted, CsvIsSound, NEW row, Normalizes(row),
         NEW c \in Range(Names) \cup AmountIfDerived, Readable(c) = {}
  PROVE  c \in Lenient /\ c \in Range(Names)
<1>1. Get(row, c) = Missing
  BY DEF Get
<1>2. CASE file.source = "bank"
  <2>1. c \notin {"amount", "transaction_id", "transaction_date"}
    BY <1>1, <1>2 DEF Normalizes, NormalizesBank, Missing
  <2>2. c \in BankColumns \cup {"value_date", "debit", "credit"}
    BY <1>2, ColumnsOfContract, ContractOfBank
  <2>3. c \in Range(Names)
    BY <2>1 DEF AmountIfDerived
  <2> QED BY <2>1, <2>2, <2>3 DEF BankColumns, Lenient
<1>3. CASE file.source # "bank"
  <2>1. c \notin {"total", "taxable_value", "invoice_record_id", "invoice_number", "invoice_date"}
    BY <1>1, <1>3 DEF Normalizes, NormalizesPurchase, Missing
  <2>2. c \in PurchaseColumns \cup Taxes /\ c \in Range(Names)
    BY <1>3, ColumnsOfContract, ContractOfPurchase
  <2> QED BY <2>1, <2>2 DEF PurchaseColumns, Lenient
<1> QED BY <1>2, <1>3

\* A row that normalizes comes through as the boundary reads it, but for respelt lenient
\* columns.
LEMMA RowsAgree ==
  ASSUME file \in Files, Submitted, CsvIsSound, NEW row, Normalizes(row),
         NEW c \in DOMAIN ParsedRow(row)
  PROVE  Canonical(row)[c] = ParsedRow(row)[c] \/ (c \in Lenient /\ Respelt(c))
<1>1. c \in Range(Names) \cup AmountIfDerived
  BY DEF ParsedRow
<1>2. Canonical(row)[c] = Stripped(Get(row, c))
  BY <1>1, ColumnsOfContract DEF Canonical
<1>3. CASE Readable(c) = {}
  BY <1>1, <1>3, LostIsLenient DEF Respelt
<1>4. CASE Readable(c) # {}
  BY <1>2, <1>4, ReadableIsNamed
<1> QED BY <1>3, <1>4

\* What comes through is what the boundary read, but for respelt lenient columns.
LEMMA ProcessedLoss ==
  ASSUME IntakeInv, path = "async", step = "processed"
  PROVE  /\ DOMAIN read = DOMAIN parsed
         /\ \A r \in DOMAIN parsed : \A c \in DOMAIN parsed[r] :
              read[r][c] = parsed[r][c] \/ (c \in Lenient /\ Respelt(c))
<1> DEFINE rows == DataRows(file.rows)
<1>1. /\ file \in Files /\ Submitted /\ CsvIsSound /\ Accepted
      /\ parsed = [r \in DOMAIN rows |-> ParsedRow(rows[r])]
      /\ read = [r \in DOMAIN rows |-> Canonical(rows[r])]
  BY DEF IntakeInv, CsvRows, Transactions
<1>2. \A r \in DOMAIN rows : Normalizes(rows[r])
  BY <1>1 DEF Accepted
<1> HIDE DEF rows
<1> QED BY <1>1, <1>2, RowsAgree

\* A file whose headers are all written as the contract has them, without a mark, and whose
\* cells are all good is accepted by both readers.
LEMMA PlainFileAccepted ==
  ASSUME file \in Files, Submitted, CsvIsSound, AmountIfDerived = {}, ~SideMissing,
         \A c \in Range(Names) : Readable(c) # {},
         \A r \in DOMAIN DataRows(file.rows) : \A c \in Range(Names) :
           ParsedRow(DataRows(file.rows)[r])[c] = "good"
  PROVE  Accepted
<1>1. ASSUME NEW i \in DOMAIN file.header
      PROVE  i \in Keys /\ Bare(i) = Names[i]
  <2>1. Names[i] \in Range(Names) /\ Names[i] = file.header[i].column
    BY HeadersMeanColumns DEF Range
  <2>2. PICK j \in Readable(Names[i]) : TRUE
    BY <2>1
  <2>3. /\ j \in Keys /\ j \in DOMAIN file.header
        /\ file.header[j].column = Names[i] /\ file.header[j].written = "exact"
    BY <2>2 DEF Readable, Keys
  <2>4. i = j
    BY <2>1, <2>3, HeadersMeanColumns
  <2> QED BY <2>1, <2>3, <2>4 DEF Bare
<1>2. ReaderAccepts
  <2>1. {Bare(i) : i \in Keys} = Range(Names)
    BY <1>1, HeadersMeanColumns DEF Range, Keys
  <2>2. NormalizedApart([i \in Keys |-> Bare(i)])
    BY <1>1, HeadersMeanColumns DEF Keys, NormalizedApart, IsInjective
  <2>3. Range(Names) \cup AmountIfDerived = Range(Names)
    OBVIOUS
  <2> QED BY <2>1, <2>2, <2>3 DEF ReaderAccepts, CsvIsSound
<1>3. ASSUME NEW r \in DOMAIN DataRows(file.rows) PROVE Normalizes(DataRows(file.rows)[r])
  <2> DEFINE row == DataRows(file.rows)[r]
  <2>0. \A c \in Range(Names) : ParsedRow(row)[c] = "good"
    OBVIOUS
  <2> HIDE DEF row
  <2>1. ASSUME NEW c \in Range(Names)
        PROVE  Get(row, c) = "good"
    <3>1. Stripped(Get(row, c)) = "good"
      BY <2>0, ReadableIsNamed
    <3> QED BY <3>1 DEF Stripped
  <2>2. ASSUME NEW c, c \notin Range(Names)
        PROVE  Get(row, c) = "None"
    BY <2>2, ReadableIsNamed DEF Missing
  <2>3. CASE file.source = "bank"
    <3>1. BankColumns \subseteq Range(Names) /\ {"debit", "credit"} \cap Range(Names) # {}
      BY <2>3, ColumnsOfContract, ContractOfBank DEF SideMissing
    <3>2. \A c \in BankColumns : Get(row, c) = "good" /\ Readable(c) # {}
      BY <2>1, <3>1
    <3>3. \A c \in {"debit", "credit", "value_date"} : Get(row, c) \in {"good", "None"}
      BY <2>1, <2>2
    <3>4. \E c \in {"debit", "credit"} : Get(row, c) = "good"
      BY <2>1, <3>1
    <3>5. NormalizesBank(row)
      BY <3>2, <3>3, <3>4 DEF NormalizesBank, BankColumns, Blank, Missing
    <3> QED BY <2>3, <3>5 DEF Normalizes, row
  <2>4. CASE file.source # "bank"
    <3>1. PurchaseColumns \subseteq Range(Names)
      BY <2>4, ColumnsOfContract, ContractOfPurchase
    <3>2. \A c \in PurchaseColumns : Get(row, c) = "good" /\ Readable(c) # {}
      BY <2>1, <3>1
    <3>3. \A c \in Taxes : Get(row, c) \in {"good", "None"}
      BY <2>1, <2>2
    <3>4. NormalizesPurchase(row)
      BY <3>2, <3>3 DEF NormalizesPurchase, PurchaseColumns, Absent, Blank, Missing
    <3> QED BY <2>4, <3>4 DEF Normalizes, row
  <2> QED BY <2>3, <2>4
<1> QED BY <1>2, <1>3 DEF Accepted

\* A submitted file that fails in the job shows why at the boundary.
LEMMA FailedLoss ==
  ASSUME IntakeInv, path = "async", step = "failed", AmountIfDerived = {}, ~SideMissing
  PROVE  \E r \in DOMAIN parsed : \E c \in DOMAIN parsed[r] :
           Respelt(c) \/ parsed[r][c] # "good"
<1> DEFINE rows == DataRows(file.rows)
<1>1. /\ file \in Files /\ Submitted /\ CsvIsSound /\ ~Accepted
      /\ parsed = [r \in DOMAIN rows |-> ParsedRow(rows[r])]
  BY DEF IntakeInv, CsvRows
<1>2. PICK r \in DOMAIN rows : TRUE
  BY <1>1 DEF CsvIsSound
<1>3. \A row : DOMAIN ParsedRow(row) = Range(Names)
  BY DEF ParsedRow
<1>4. CASE \E c \in Range(Names) : Readable(c) = {}
  BY <1>1, <1>2, <1>3, <1>4 DEF Respelt
<1>5. CASE \A c \in Range(Names) : Readable(c) # {}
  <2>1. PICK k \in DOMAIN rows, c \in Range(Names) : ParsedRow(rows[k])[c] # "good"
    BY <1>1, <1>5, PlainFileAccepted
  <2> QED BY <1>1, <1>3, <2>1
<1> QED BY <1>4, <1>5

\* Between the boundary and the job nothing of a submitted file changes silently but what
\* the header or the boundary itself announces, for files of any size.
THEOREM LossIsAnnounced == Spec => []LossIsRespelling
<1>1. IntakeInv => LossIsRespelling
  BY ProcessedLoss, FailedLoss DEF LossIsRespelling
<1> QED BY <1>1, IntakeInvariance, PTL

-----------------------------------------------------------------------------
(* What the strict reader takes that no boundary has parsed                   *)

\* A file the strict reader takes, with no header written twice, is sound at the boundary:
\* a name the contract knows without aliases is no alias.
LEMMA StrictIsSound ==
  ASSUME file \in Files, Submitted, Accepted,
         \A i, k \in DOMAIN file.header : SameKey(i, k) => i = k
  PROVE  CsvIsSound
<1> DEFINE allowed == Contract[file.source].required \cup Contract[file.source].optional
<1>1. Keys = DOMAIN file.header
  <2>1. \A i \in DOMAIN file.header : Last(i)
    <3> SUFFICES ASSUME NEW i \in DOMAIN file.header, NEW k \in DOMAIN file.header, SameKey(i, k)
                 PROVE  k <= i
      BY DEF Last
    <3>1. i \in Nat /\ i = k
      BY FilesAssumption, LenProperties
    <3> QED BY <3>1
  <2> QED BY <2>1 DEF Keys
<1>2. /\ \A i, k \in DOMAIN file.header : Bare(i) = Bare(k) => i = k
      /\ \A i \in DOMAIN file.header : Bare(i) \in allowed
      /\ \A c \in Contract[file.source].required : \E i \in DOMAIN file.header : Bare(i) = c
  BY <1>1 DEF Accepted, ReaderAccepts, NormalizedApart, IsInjective, MeetsContract
<1>3. Unknown \notin allowed
  BY DEF Submitted, Contract, Unknown, BankColumns, PurchaseColumns, Taxes
<1>4. DOMAIN Names = DOMAIN file.header /\ \A i \in DOMAIN file.header : Names[i] = Bare(i)
  BY <1>2, <1>3 DEF Names, Named, Bare
<1>5. MappedApart /\ NormalizedApart(Names)
  BY <1>2, <1>4 DEF MappedApart, NormalizedApart, IsInjective
<1>6. Contract[file.source].required \subseteq Range(Names) /\ Range(Names) \subseteq allowed
  BY <1>2, <1>4 DEF Range
<1>7. AmountIfDerived = {}
  BY <1>6 DEF AmountIfDerived, Contract, BankColumns
<1>8. file.header # <<>>
  <2>1. "invoice_number" \in Range(Names) \/ "amount" \in Range(Names)
    BY <1>6 DEF Submitted, Contract, BankColumns, PurchaseColumns
  <2> QED BY <2>1, <1>4 DEF Range
<1>9. MeetsContract(Range(Names) \cup AmountIfDerived)
  <2>1. Range(Names) \cup AmountIfDerived = Range(Names)
    BY <1>7
  <2> QED BY <1>6, <2>1 DEF MeetsContract
<1> QED BY <1>5, <1>7, <1>8, <1>9 DEF CsvIsSound, Accepted, ReaderAccepts

\* What the synchronous endpoint processes unparsed reads as the boundary would have read it,
\* for files of any size, unless the file writes a header twice.
THEOREM UnparsedAgree == Spec => []OnlyRepeatsGetPast
<1>1. IntakeInv => OnlyRepeatsGetPast
  <2> DEFINE rows == DataRows(file.rows)
  <2> SUFFICES ASSUME IntakeInv, path = "sync", step = "processed",
                      \A i, k \in DOMAIN file.header : SameKey(i, k) => i = k
               PROVE  /\ CsvIsSound /\ DOMAIN read = DOMAIN CsvRows
                      /\ \A r \in DOMAIN read : \A c \in Range(Names) :
                           read[r][c] = CsvRows[r][c] \/ (c \in Lenient /\ Respelt(c))
    BY DEF OnlyRepeatsGetPast
  <2>1. file \in Files /\ Submitted /\ Accepted
    BY DEF IntakeInv
  <2>2. CsvIsSound
    BY <2>1, StrictIsSound
  <2>3. /\ read = [r \in DOMAIN rows |-> Canonical(rows[r])]
        /\ CsvRows = [r \in DOMAIN rows |-> ParsedRow(rows[r])]
    BY DEF IntakeInv, Transactions, CsvRows
  <2>4. \A r \in DOMAIN rows : Normalizes(rows[r])
    BY <2>1 DEF Accepted
  <2>5. \A row : Range(Names) \subseteq DOMAIN ParsedRow(row)
    BY DEF ParsedRow
  <2> HIDE DEF rows
  <2> QED BY <2>1, <2>2, <2>3, <2>4, <2>5, RowsAgree
<1> QED BY <1>1, IntakeInvariance, PTL
==============================================================================
