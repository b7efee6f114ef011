------------------------------- MODULE JobReads -------------------------------
(***************************************************************************)
(* A client that reads a job while attempts execute it: its status, its    *)
(* report, its result rows page by page, and both exports.  Each endpoint  *)
(* is several statements in transactions of their own, and what one of     *)
(* them saw may be out of date at the next.                                *)
(***************************************************************************)
EXTENDS ReconJobs

CONSTANTS
  PageLimit,     \* limit of a page of results
  ExportLimit,   \* rows of a CSV export, 500 in the code
  Migrated       \* the database was made by the migration, with every table in it

Endpoints == {"status", "report", "results", "export_csv", "export_json"}
Read == [endpoint : Endpoints, job : Requests, tenant : Tenants]

ASSUME ReadsAssumption ==
  /\ PageLimit \in Nat \ {0} /\ ExportLimit \in Nat \ {0}
  /\ Migrated \in BOOLEAN
  /\ Migrated => Store = "postgres"     \* of SQLite only files the store makes itself
  /\ Records \subseteq Nat              \* record_id compares as its number
  /\ \A c \in Contents : IsFiniteSet(RowsOf[c])
  /\ \A p \in Parsable : RowsOf[p["bank"]] # {}    \* run_pipeline rejects a file without rows
  /\ None \notin Read /\ None \notin Status

ReadStep == {"idle", "job", "report", "count", "select", "more", "done", "stopped", "refused",
             "error"}

VARIABLES
  ask,       \* what the client reads
  rpc,       \* next statement, or how the read ended
  status,    \* the job's status as the first statement saw it
  offset, total,
  shown,     \* result rows the client has been given
  given,     \* report it has been given
  \* History, read by the properties only.
  rowsBefore, reportBefore,   \* what there was when the client asked
  late                        \* rows saved since the last COUNT

reader == <<ask, rpc, status, offset, total, shown, given, rowsBefore, reportBefore>>
readVars == <<vars, reader, late>>
others == <<api, objects, batches, jobs, cases, results, reports, audit, broker, read, budget,
            uploads, abandoned>>

ReadInit ==
  /\ Init
  /\ ask = None /\ rpc = "idle" /\ status = None /\ offset = 0 /\ total = 0
  /\ shown = {} /\ given = None
  /\ rowsBefore = {} /\ reportBefore = None /\ late = {}

\* export.json asks for the report at once; the other endpoints look at the job first.
Ask ==
  /\ rpc = "idle"
  /\ \E q \in Read :
       /\ ask' = q
       /\ rpc' = IF q.endpoint = "export_json" THEN "report" ELSE "job"
       /\ rowsBefore' = results[q.job] /\ reportBefore' = reports[q.job]
  /\ UNCHANGED <<vars, status, offset, total, shown, given, late>>

Own == ask.job \in Stored /\ TenantOf(ask.job) = ask.tenant
After == [status |-> "done", results |-> "count", export_csv |-> "count"]

\* get_job, which on SQLite makes the table when there is none: 404, or 409 for the report
\* of a job that is not succeeded now.  The event a status read appends to the audit file is
\* read by nothing here.
GetJob ==
  /\ rpc = "job"
  /\ jobsTable' = IF jobsTable = "absent" THEN "bare" ELSE jobsTable
  /\ status' = IF Own THEN jobs[ask.job].status ELSE None
  /\ \/ ~Own /\ rpc' = "refused"
     \/ Own /\ ask.endpoint \in DOMAIN After /\ rpc' = After[ask.endpoint]
     \/ /\ Own /\ ask.endpoint = "report"
        /\ rpc' = IF jobs[ask.job].status = "succeeded" THEN "report" ELSE "refused"
  /\ UNCHANGED <<others, ask, offset, total, shown, given, rowsBefore, reportBefore, late>>

\* get_reconciliation_report; 404 without one.
GetReport ==
  /\ rpc = "report"
  /\ \/ /\ Own /\ reports[ask.job] # None
        /\ given' = reports[ask.job] /\ rpc' = "done"
     \/ /\ ~Own \/ reports[ask.job] = None
        /\ given' = given /\ rpc' = "refused"
  /\ UNCHANGED <<vars, ask, status, offset, total, shown, rowsBefore, reportBefore, late>>

\* Neither store makes the table when it opens the database: the migration does, or the first
\* save; no file that is accepted is without rows.
ResultsTable == Migrated \/ \E j \in Requests : results[j] # {}

CountRows ==
  /\ rpc = "count"
  /\ \/ /\ ResultsTable
        /\ total' = Cardinality(results[ask.job]) /\ rpc' = "select"
     \/ ~ResultsTable /\ total' = total /\ rpc' = "error"
  /\ late' = {}
  /\ UNCHANGED <<vars, ask, status, offset, shown, given, rowsBefore, reportBefore>>

\* ORDER BY record_id LIMIT OFFSET.
Position(row) == Cardinality({x \in results[ask.job] : x.record < row.record})
RowLimit == IF ask.endpoint = "export_csv" THEN ExportLimit ELSE PageLimit
BadRowPage == {x \in results[ask.job] : offset < Position(x) /\ Position(x) <= offset + RowLimit}
RowPage == {x \in results[ask.job] : offset <= Position(x) /\ Position(x) < offset + RowLimit}

SelectRows ==
  /\ rpc = "select"
  /\ shown' = shown \cup RowPage
  /\ rpc' = IF RowPage = {} \/ ask.endpoint = "export_csv" THEN "done" ELSE "more"
  /\ UNCHANGED <<vars, ask, status, offset, total, given, rowsBefore, reportBefore, late>>

\* The client asks for the next page, a request of its own, or stops at the total.
NextRows ==
  /\ rpc = "more"
  /\ \/ rpc' = "job" /\ offset' = offset + PageLimit
     \/ rpc' = "stopped" /\ total <= offset + PageLimit /\ offset' = offset
  /\ UNCHANGED <<vars, ask, status, total, shown, given, rowsBefore, reportBefore, late>>

\* Handlers, workers and faults go on meanwhile.
JobStep ==
  /\ Next /\ UNCHANGED reader
  /\ late' = IF rpc = "select" THEN late \cup (results'[ask.job] \ results[ask.job]) ELSE late

ReadNext == Ask \/ GetJob \/ GetReport \/ CountRows \/ SelectRows \/ NextRows \/ JobStep
ReadSpec == ReadInit /\ [][ReadNext]_readVars

-----------------------------------------------------------------------------
ReadTypeOK ==
  /\ TypeOK
  /\ ask \in Read \cup {None} /\ rpc \in ReadStep /\ status \in Status \cup {None}
  /\ offset \in Nat /\ total \in Nat
  /\ shown \subseteq [record : Records, pair : Pair] /\ given \in Pair \cup {None}

(* What an endpoint tells a client was audited before: a status of succeeded  *)
(* or failed by an event of that kind.  A report that was given comes with an *)
(* audited run and a result row for every record of its bank file, even when  *)
(* other attempts of the job save rows of other files at the same time.       *)
RepliesAreBacked ==
  /\ status = "succeeded" => \E p \in Pair : Event("completed", ask.job, p) \in audit
  /\ status = "failed" => Event("failed", ask.job, None) \in audit
  /\ given # None =>
       /\ Event("completed", ask.job, given) \in audit
       /\ RowsOf[given["bank"]] \subseteq {row.record : row \in results[ask.job]}

(* Pages stay true while attempts go on saving: no row that was shown is ever *)
(* changed or taken back, a walk to the first empty page has shown all rows   *)
(* there were when it began, and one that stops at the total missed no more   *)
(* than were saved between the COUNT and the SELECT.  An export within its    *)
(* cap is whole.  A listing that fails for want of a table is one of a job    *)
(* that had neither rows nor report when the client asked.                    *)
RowsMissed == Cardinality(rowsBefore \ shown)
PagesStayTrue ==
  /\ \A row \in shown : row \in results[ask.job]
  /\ rpc = "stopped" => RowsMissed <= Cardinality(late)
  /\ rpc = "done" /\ ask.endpoint = "results" => rowsBefore \subseteq shown
  /\ rpc = "done" /\ ask.endpoint = "export_csv" =>
       rowsBefore \subseteq shown \/ Cardinality(results[ask.job]) > ExportLimit
  /\ rpc = "error" => rowsBefore = {} /\ reportBefore = None

-----------------------------------------------------------------------------
(* What the documentation says, and the code does not do.                     *)

(* docs/PRODUCT_API.md: completed jobs persist their report, which the report *)
(* endpoint reads; a job of the tenant that has one is not refused.           *)
StoredReportIsReadable ==
  rpc = "refused" /\ ask.endpoint = "report" /\ Own => reportBefore = None
=============================================================================
