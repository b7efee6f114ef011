----------------------------- MODULE SourceIntake -----------------------------
(***************************************************************************)
(* How one source file comes in.  The boundary of the API checks the file  *)
(* name, limits its size, and (upload and asynchronous submission) parses   *)
(* it into rows of the source contract.  What the job works on is not those *)
(* rows: the pipeline reads the stored bytes again with a stricter reader.  *)
(*                                                                          *)
(* A header is the column it means and how it is written: exactly as the    *)
(* contract has it, with other case or punctuation (normalize_column_name    *)
(* undoes that), or under another name.  A cell is a value its field        *)
(* accepts, a zero, empty, nothing but spaces, or a value of no use to a     *)
(* date or amount field.                                                    *)
(***************************************************************************)
EXTENDS Naturals, Sequences, Functions

CONSTANTS
  Files,       \* the files that come in
  ScanRows,    \* rows of an XLSX sheet searched for the header
  Paths        \* the endpoints: "upload", "async", "sync"

BankColumns == {"transaction_id", "transaction_date", "amount", "narration", "reference",
                "account_number"}
PurchaseColumns == {"invoice_record_id", "invoice_number", "invoice_date", "vendor_name",
                    "gstin", "taxable_value", "total"}
Taxes == {"cgst", "sgst", "igst"}

\* SOURCE_CONTRACTS.
Contract ==
  [bank |-> [required |-> BankColumns, optional |-> {"value_date", "debit", "credit"}],
   purchase_register |-> [required |-> PurchaseColumns, optional |-> Taxes],
   tally |-> [required |-> {"transaction_date", "amount", "transaction_type", "source_record_id"},
              optional |-> {"reference_number", "account_name", "description", "debit", "credit"}],
   gst |-> [required |-> {"invoice_number", "invoice_date", "amount", "counterparty_gstin",
                          "source_record_id"},
            optional |-> {"taxable_amount", "total_tax"} \cup Taxes],
   sales_register |-> [required |-> {"invoice_number", "invoice_date", "amount",
                                     "counterparty_name", "source_record_id"},
                       optional |-> {"counterparty_gstin", "taxable_amount", "total_tax"} \cup Taxes],
   invoice |-> [required |-> {"invoice_number", "invoice_date", "amount", "source_record_id"},
                optional |-> {"counterparty_name", "counterparty_gstin", "taxable_amount",
                              "total_tax"} \cup Taxes]]
Source == DOMAIN Contract
Unknown == "unknown"
Column == UNION {Contract[s].required \cup Contract[s].optional : s \in Source} \cup {Unknown}

\* The columns _COLUMN_ALIASES (for JSON, the table of _parse_gst_json) has other names for.
Aliased ==
  [bank |-> (BankColumns \cup {"debit", "credit"}),
   purchase_register |-> PurchaseColumns,
   tally |-> {"transaction_date", "transaction_type", "source_record_id", "reference_number",
              "account_name", "description"},
   gst |-> {"invoice_number", "invoice_date", "amount", "counterparty_gstin",
            "source_record_id", "taxable_amount"},
   sales_register |-> {}, invoice |-> {}]

Header == [column : Column, written : {"exact", "restyled", "alias"}]
Blank == {"empty", "spaces"}
Cell == {"good", "zero", "bad"} \cup Blank
Missing == "None"        \* what DictReader gives for a value the row does not have
Value == Cell \cup {Missing}

\* A file is of a known source and has text under its header; JSON records have keys of their own.
ASSUME FilesAssumption ==
  \A f \in Files : /\ f.source \in Source /\ f.bom \in BOOLEAN /\ f.header \in Seq(Header)
                   /\ f.suffix = "csv" => f.rows \in Seq(Seq(Cell))

VARIABLES
  file,     \* [source, suffix, large, bom, preamble, header, rows]; JSON records have own keys
  path,     \* the endpoint it came to
  step,
  parsed,   \* rows of the parser: column -> value
  read      \* rows of the pipeline's reader that became canonical transactions

vars == <<file, path, step, parsed, read>>
Steps == {"received", "named", "limited", "parsed", "stored", "processed", "failed", "refused"}

Init ==
  /\ file \in Files /\ path \in Paths
  /\ path # "upload" => file.source \in {"bank", "purchase_register"}
  /\ step = "received" /\ parsed = <<>> /\ read = <<>>

-----------------------------------------------------------------------------
(* The parsers *)

Named(h) == IF h.written # "alias" \/ h.column \in Aliased[file.source] THEN h.column ELSE Unknown
Names == [i \in DOMAIN file.header |-> Named(file.header[i])]

\* _map_headers refuses two headers it has given one name, normalize_columns two columns
\* that are the same but for their style: columns is a sequence, or a function on part of one.
MappedApart == IsInjective(Names)
BadNormalizedApart(columns) == TRUE
NormalizedApart(columns) == IsInjective(columns)
MeetsContract(columns) ==
  /\ Contract[file.source].required \subseteq columns
  /\ columns \subseteq Contract[file.source].required \cup Contract[file.source].optional

\* csv.DictReader passes over the rows that have no value at all.
DataRows(rows) == SelectSeq(rows, LAMBDA row : row # <<>>)
At(row, i) == IF i \in DOMAIN row THEN row[i] ELSE Missing
Stripped(v) == IF v = "spaces" THEN "empty" ELSE v
Absent(v) == v \in Blank \cup {Missing}
AmountIfDerived == IF file.source = "bank" /\ "amount" \notin Range(Names) THEN {"amount"} ELSE {}

\* A row under the canonical names; a bank row without amount takes it from its debit, or
\* else its credit.
ParsedRow(row) ==
  LET named == [c \in Range(Names) |->
                  Stripped(At(row, CHOOSE i \in DOMAIN Names : Names[i] = c))]
      side(c) == IF c \in DOMAIN named THEN named[c] ELSE Missing
  IN  [c \in Range(Names) \cup AmountIfDerived |->
         IF c \in DOMAIN named THEN named[c]
         ELSE IF Absent(side("debit")) THEN side("credit") ELSE side("debit")]

\* _parse_csv; it reads the same rows for every source.
BadCsvIsSound ==
  /\ file.header # <<>> /\ DOMAIN DataRows(file.rows) # {}
  /\ MappedApart
  /\ AmountIfDerived # {} => {"debit", "credit"} \cap Range(Names) # {}
  /\ NormalizedApart(Names) /\ MeetsContract(Range(Names) \cup AmountIfDerived)
CsvIsSound ==
  /\ file.header # <<>> /\ DOMAIN DataRows(file.rows) # {}
  /\ MappedApart
  /\ \A r \in DOMAIN DataRows(file.rows) : Len(DataRows(file.rows)[r]) <= Len(file.header)
  /\ AmountIfDerived # {} => {"debit", "credit"} \cap Range(Names) # {}
  /\ NormalizedApart(Names) /\ MeetsContract(Range(Names) \cup AmountIfDerived)
CsvRows == [r \in DOMAIN DataRows(file.rows) |-> ParsedRow(DataRows(file.rows)[r])]

\* _parse_xlsx: a header among the first rows, long rows cut, empty ones skipped.
SheetRows ==
  LET full == SelectSeq(file.rows, LAMBDA row : \E i \in DOMAIN row \cap DOMAIN file.header :
                                     row[i] \notin Blank)
  IN  [r \in DOMAIN full |-> ParsedRow(full[r])]
SheetIsSound ==
  /\ file.source = "tally" /\ file.preamble < ScanRows /\ Len(file.header) > 1
  /\ MappedApart
  /\ SheetRows # <<>>
  /\ NormalizedApart(Names) /\ MeetsContract(Range(Names))

\* _parse_gst_json: the keys of a record are renamed one after the other, so that of two
\* keys with one meaning the later stands; the id falls back on the invoice number.
JsonRow(record) ==
  LET name(i) == Named(record[i].key)
      named == [c \in {name(i) : i \in DOMAIN record} |->
                  record[CHOOSE i \in DOMAIN record : /\ name(i) = c
                           /\ \A k \in DOMAIN record : k > i => name(k) # c].value]
      id == IF "invoice_number" \in DOMAIN named THEN {"source_record_id"} ELSE {}
  IN  [c \in DOMAIN named \cup id |-> IF c \in DOMAIN named THEN named[c]
                                     ELSE named["invoice_number"]]
JsonRows == [r \in DOMAIN file.rows |-> JsonRow(file.rows[r])]
JsonIsSound ==
  /\ file.source = "gst" /\ file.rows # <<>>
  /\ \E columns \in {UNION {DOMAIN row : row \in Range(JsonRows)}} :
       /\ MeetsContract(columns)
       /\ \A row \in Range(JsonRows) : DOMAIN row = columns

\* parse_source: the suffix picks the parser.
Parses ==
  \/ file.suffix = "csv" /\ CsvIsSound
  \/ file.suffix = "xlsx" /\ SheetIsSound
  \/ file.suffix = "json" /\ JsonIsSound
Rows == CASE file.suffix = "csv" -> CsvRows [] file.suffix = "xlsx" -> SheetRows
          [] OTHER -> JsonRows

-----------------------------------------------------------------------------
(* The pipeline's reader and the normalizers *)

\* DictReader keys are the headers as they stand; decoding with utf-8 leaves a byte order
\* mark in the first one.  Of two equal headers the later stands.
Marked(i) == file.bom /\ i = 1
SameKey(i, k) == file.header[i] = file.header[k] /\ Marked(i) = Marked(k)
Last(i) == \A k \in DOMAIN file.header : SameKey(i, k) => k <= i
Keys == {i \in DOMAIN file.header : Last(i)}
Bare(i) == IF file.header[i].written = "alias" THEN Unknown ELSE file.header[i].column

\* _read_csv, validate_columns and validate_rows on those keys.
ReaderAccepts ==
  /\ DOMAIN DataRows(file.rows) # {}
  /\ NormalizedApart([i \in Keys |-> Bare(i)]) /\ MeetsContract({Bare(i) : i \in Keys})
  /\ \A r \in DOMAIN DataRows(file.rows) : Len(DataRows(file.rows)[r]) <= Len(file.header)

\* row.get(c): only a header written exactly so, and not behind the mark.
Readable(c) == {i \in Keys : file.header[i] = [column |-> c, written |-> "exact"] /\ ~Marked(i)}
Get(row, c) == IF Readable(c) = {} THEN Missing ELSE At(row, CHOOSE i \in Readable(c) : TRUE)

\* A value date is tested before it is stripped: spaces are taken for a date, and fail.
NormalizesBank(row) ==
  /\ Get(row, "amount") = "good"
  /\ \A c \in {"debit", "credit"} : Get(row, c) # "bad"
  /\ \E c \in {"debit", "credit"} : Get(row, c) = "good"
  /\ Readable("transaction_id") # {} /\ Get(row, "transaction_id") \notin Blank
  /\ Get(row, "transaction_date") = "good"
  /\ Get(row, "value_date") \in {"good", "empty", Missing}
NormalizesPurchase(row) ==
  /\ Get(row, "total") = "good" /\ Get(row, "taxable_value") \in {"good", "zero"}
  /\ \A c \in Taxes : Get(row, c) # "bad"
  /\ Readable("invoice_record_id") # {} /\ Get(row, "invoice_record_id") \notin Blank
  /\ Readable("invoice_number") # {}
  /\ Get(row, "invoice_date") = "good"
  /\ Get(row, "gstin") = "good" \/ Absent(Get(row, "gstin"))
Normalizes(row) == IF file.source = "bank" THEN NormalizesBank(row) ELSE NormalizesPurchase(row)

\* The fields of the canonical transaction: what the normalizer got under each column.
Canonical(row) ==
  [c \in Contract[file.source].required \cup Contract[file.source].optional |->
     Stripped(Get(row, c))]

-----------------------------------------------------------------------------
(* The handlers *)

\* _validate_upload and build_object_key ask the same of a name.
Suffixes == CASE file.source = "gst" -> {"json"} [] file.source = "tally" -> {"csv", "xlsx"}
              [] OTHER -> {"csv"}
Goes(to) == step' = to /\ UNCHANGED <<file, path>>

CheckName ==
  /\ step = "received"
  /\ Goes(IF path = "upload" \/ file.suffix \in Suffixes THEN "named" ELSE "refused")
  /\ UNCHANGED <<parsed, read>>

ReadLimited ==
  /\ step = "named"
  /\ Goes(IF file.large THEN "refused" ELSE "limited")
  /\ UNCHANGED <<parsed, read>>

\* Upload names its object after parsing; the synchronous endpoint does not parse.
ParseSource ==
  /\ step = "limited" /\ path # "sync"
  /\ \/ /\ Parses /\ file.suffix \in Suffixes
        /\ parsed' = Rows
        /\ Goes("parsed")
     \/ /\ ~Parses \/ file.suffix \notin Suffixes
        /\ Goes("refused") /\ parsed' = parsed
  /\ read' = read

Store ==
  /\ step = (IF path = "sync" THEN "limited" ELSE "parsed")
  /\ Goes("stored")
  /\ UNCHANGED <<parsed, read>>

\* run_pipeline on the stored bytes: one row that does not normalize fails the run.
Accepted ==
  ReaderAccepts /\ \A r \in DOMAIN DataRows(file.rows) : Normalizes(DataRows(file.rows)[r])
Transactions == [r \in DOMAIN DataRows(file.rows) |-> Canonical(DataRows(file.rows)[r])]
RunPipeline ==
  /\ step = "stored" /\ path # "upload"
  /\ \/ /\ Accepted
        /\ read' = Transactions
        /\ Goes("processed")
     \/ ~Accepted /\ Goes("failed") /\ read' = read
  /\ parsed' = parsed

Next == CheckName \/ ReadLimited \/ ParseSource \/ Store \/ RunPipeline
Spec == Init /\ [][Next]_vars

-----------------------------------------------------------------------------
Transaction(row) ==
  /\ DOMAIN row \subseteq Column
  /\ \A c \in DOMAIN row : row[c] \in Value
TypeOK ==
  /\ path \in Paths /\ step \in Steps
  /\ \A r \in DOMAIN parsed : Transaction(parsed[r])
  /\ \A r \in DOMAIN read : Transaction(read[r])

\* The column's header is not the contract's own text, or has the byte order mark on it.
Respelt(c) == c \in Range(Names) => Readable(c) = {}
\* Fields the normalizers take as absent when the key is not there.
Lenient == {"narration", "reference", "account_number", "value_date", "debit", "credit",
            "vendor_name", "gstin"} \cup Taxes

SideMissing == file.source = "bank" /\ {"debit", "credit"} \cap Range(Names) = {}

\* The two readers of a submitted file agree: a row comes through with the values the
\* boundary read, but for lenient fields whose header is spelt in a way only the boundary
\* understands; and an accepted file fails in the job only for such a header, for an amount
\* the boundary derived, for the debit and credit the contract lets a bank file do without,
\* or for a value.
LossIsRespelling ==
  path = "async" =>
    /\ step = "processed" =>
         /\ DOMAIN read = DOMAIN parsed
         /\ \A r \in DOMAIN parsed : \A c \in DOMAIN parsed[r] :
              read[r][c] = parsed[r][c] \/ (c \in Lenient /\ Respelt(c))
    /\ step = "failed" => AmountIfDerived # {} \/ SideMissing \/
         \E r \in DOMAIN parsed : \E c \in DOMAIN parsed[r] :
           Respelt(c) \/ parsed[r][c] # "good"

\* The synchronous endpoint stores and runs files it has not parsed.  What it processes, the
\* boundary of the other endpoints would have taken too and read alike, but for the lenient
\* fields above; only a header written twice in the same way gets past the strict reader, which
\* keeps the later column, while the boundary refuses it.
OnlyRepeatsGetPast ==
  path = "sync" /\ step = "processed" =>
    \/ \E i, k \in DOMAIN file.header : i # k /\ SameKey(i, k)
    \/ /\ CsvIsSound /\ DOMAIN read = DOMAIN CsvRows
       /\ \A r \in DOMAIN read : \A c \in Range(Names) :
            read[r][c] = CsvRows[r][c] \/ (c \in Lenient /\ Respelt(c))
=============================================================================
