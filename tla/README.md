# Verification of the reconciliation platform

TLA+ models of the parts of `src/src/reconciliation_platform` whose correctness depends on what
happens concurrently, out of order, twice or not at all; TLC runs that check them on small
instances; and TLAPS proofs of what matters most for instances of any size. Paths below are relative
to `src/src/reconciliation_platform/` unless they start with `docs/` or `README.md`.

## 1. The system

| Part | Code | State | Operations |
|---|---|---|---|
| Source intake | `ingestion/parsers.py`, `contracts.py`, `uploads.py`, `pipeline.py` (reader), `normalization/`, `models/` | none; rows of one file | `parse_source`, `_read_csv`, `_normalize_bank`, `_normalize_purchase` |
| Submission endpoints | `api/app.py` | none of their own; locals of a request | `upload_source`, `reconcile_uploaded_files`, `enqueue_reconciliation`, `reconcile` |
| Job execution | `api/app.py` `_run_reconciliation_job`, `worker.py` | locals of an attempt, retry counter | run, retry, acknowledge |
| Job queue | Celery with Redis, or FastAPI background tasks | messages, unacknowledged messages | publish, take, acknowledge, redeliver |
| Job tables | `storage/postgres.py`, `storage/sqlite.py` | `reconciliation_jobs`, `_results`, `_reports`, `ingestion_batches` | `create_job`, `update_job`, `save_*`, `register_batch`, `get_job` |
| Job read endpoints | `api/app.py`, the stores, `exports.py` | locals of a request | status, report, pages of results, CSV and JSON export |
| Object store | `storage/object_store.py`, `ingestion/uploads.py` | one object per tenant, source and file name | `put`, `get` |
| Review workflow | `api/reviews.py`, review tables of the stores | `review_cases` | `decide_review`, `bulk_decide_reviews`, `list_reviews`, `save_review_cases` |
| Matching engine | `reconciliation/engine.py` | decisions made, invoices used | `reconcile` |
| Pipeline | `pipeline.py`, `anomaly/detector.py`, `evaluation/metrics.py`, `ai/` | advice, evaluation of one run | `run_pipeline`, `detect_anomalies`, `evaluate_against_ground_truth`, `escalate_reviews` |
| Advanced matching | `reconciliation/advanced.py`, `blocking.py` | remaining amount of each invoice | `reconcile_advanced` |
| Rate limiter | `rate_limit.py` | counters per tenant and window | `allow` |
| Audit and metrics | `audit.py`, `metrics.py` | the event file; counters and gauges of a process | `record_audit_event`, `record_reconciliation`, `set_review_backlog` |
| Others | `validation/`, `data_lake/`, `cli.py`, logging, migrations, benchmarks, web page | none | functions of their inputs |

How they interact. A submission handler parses both files only to refuse what no source contract
fits, writes the two objects, registers two batches, creates a job row and dispatches a message
that holds the *names* of the objects. A worker takes the message and, in separate transactions,
marks the row running, reads the two objects by name, runs the pipeline on the bytes (with a reader
of its own), asks the AI provider for advice on the reviews, saves review cases, sets counters and
gauge, appends an audit event, marks the row succeeded, and only then saves result rows and
report. There is no transaction around an attempt and no lock around a job. Clients poll the row,
read the report and page through the rows in statements of their own meanwhile. Reviewers page
through the open cases, look at one in a transaction and resolve it in another. Audit events go to a
file that no transaction covers.

What is hard, and where: several attempts of one job at once (`acks_late`), attempts that die
between any two of their calls, retries of a job that already saved part of its outputs, clients
that overwrite the objects of a queued job, submissions that race on an idempotency key, tables
that are created differently, or not at all, by the functions that use them, pages cut by offset
from tables that change, reviewers that race on a case, greedy matching where one transaction's
choice takes an invoice from the next, record ids that nothing keeps unique, invoices paid in parts,
two readers of one file that understand different headers, counts made before what they count is
stored, and requests counted after the window they were stamped for. `PROJECT.json` lists these
hazards with their lines and the properties that address them; a hazard whose bad outcome is simply
what the code does has no property there, but a note.

What makes each part correct:

* *Intake*: what the boundary accepts and the job reads are the same rows, but for headers only the
  boundary understands; the endpoint that parses nothing lets through nothing else, but for a header
  written twice.
* *Submission*: a job is visible only after its inputs; a key of a tenant names one job for ever.
* *Execution*: a success is backed by cases, audit and report; outputs come from the job's own
  keys; no job is forgotten or executed twice without redelivery; every job ends.
* *Reading a job*: what a client is told was audited; a report comes with its rows; no page loses
  rows because another attempt writes.
* *Review*: a case is decided once, by its tenant, for good; audit and table tell one story; every
  id of a request is answered, truthfully; a walk of the queue passes over no more than was decided.
* *Matching*: no invoice settles two transactions; what is matched silently was unambiguous and did
  not contradict a reference; pairs that belong together find each other.
* *A run*: every review reaches the reviewers; report, rows, counters and evaluation count the same
  decisions, however often attempts fail and start over; advice never becomes a decision.
* *Advanced matching*: partial and full payments of an invoice add up; what is settled is settled
  once; blocking hides no close candidate; where one combination of invoices fits, it is taken.
* *Rate limiter*: no window admits more than the limit; a refused tenant used up its own limit.

## 2. Modules

| Module | Models |
|---|---|
| `ReconJobs` | handlers, object store, job tables, queue and workers; one action per call another process can see |
| `ReconJobsProps` | its properties and the refinement mapping |
| `IdempotentSubmission` | abstract contract of the `Idempotency-Key` header: what a request sent, owner of a slot (tenant and key), reply of a request |
| `ReconJobsInv` | the inductive invariant |
| `JobReads` | extends `ReconJobs` by a client that reads a job while it is executed |
| `ReviewDesk` | review cases, reviewers (single and bulk), repeated runs, the backlog gauge |
| `SequentialReview` | the desk without races: a request deals with the ids of its list one by one, each at an instant |
| `ReviewQueue` | extends `ReviewDesk` by a client that lists the cases page by page |
| `Scoring` | evidence and score of a candidate (`_candidate`), shared by both matchers |
| `MatchEngine` | the walk of `reconcile` over the transactions |
| `ReconRun` | extends `MatchEngine` to a whole run: evaluation, advice, cases, counters, rows, report, failures, further attempts |
| `AdvancedMatch` | the walk of `reconcile_advanced`: candidate index, combinations, partial payments |
| `RateLimit` | `RedisRateLimiter.allow` and `RateLimiter.allow` as the handlers call them |
| `SourceIntake` | one file through the parser of the boundary and the reader of the pipeline |
| `MCReconJobs`, `MCJobReads`, `MCReviewQueue`, `MCReconRun`, `MCAdvancedMatch`, `MCRateLimit`, `MCSourceIntake` | instances for TLC |
| `ReconJobsProofs`, `ReconJobsSafetyProofs` (jobs and their readers), `ReviewDeskProofs` (desk and queue), `ReconRunProofs` (engine and runs), `AdvancedMatchProofs`, `RateLimitProofs`, `SourceIntakeProofs` | theorems |
| `RankProofs` | lemmas on sorting, counting and the positions of a listing |

`ReconJobs` treats `run_pipeline` as a function of two contents; `SourceIntake` opens its reader and
`ReconRun` the rest of it, with one job at a time. Definitions named `Bad...` are faulty variants
that stand before the definition they alter, for instance `BadSkipResults` for an attempt that stops
when it finds its result rows already stored. Put in its place, each breaks the property
`PROJECT.json` pairs it with; that shows the property looks at that code.

### ReconJobs and the code

A job is named by the submission that created it (the code draws a uuid4), so `Requests` is also
the set of job ids. File contents are abstract values; `run_pipeline` is deterministic in the two
contents, so a result, a report and a result row carry the pair they were computed from. The rows
of a bank file are a set, two files may share a record id, and `INSERT OR IGNORE` keeps the row of
the first attempt. `Parsable` are the pairs the pipeline does not reject: `SourceIntake` shows how a
queued job may still fail.

| Variable | Code |
|---|---|
| `req`, `hpc`, `answer` | a request, the next call of its handler, the `job_id` it replied with |
| `objects` | objects under `build_object_key` |
| `jobs`, `results`, `reports`, `batches`, `cases` | the tables |
| `jobsTable` | whether `reconciliation_jobs` was made with its `UNIQUE` constraint |
| `queue`, `task`, `wpc`, `read` | messages, the message a worker holds, its next call, its locals |
| `audit` | completion events of both endpoints, failure events |
| `uploads`, `abandoned` | history: every put; jobs whose last carrier died |

`wpc` has a value for each call of `_run_reconciliation_job`, in its order; `Fault` raises at any
of them and goes to the except clause only from inside the try block (`InTry`), otherwise to
`process_job`. `KillChild` is the hard time limit or the OOM killer, after which Celery
acknowledges the message. `Redeliver` puts an unacknowledged message back while its holder
lives on or is gone. In background mode there is no retry and no redelivery, and `ApiCrash` loses
handlers and tasks. `RegisterBatches` merges the two `register_batch` transactions: nothing reads
that table between them. `PollBeforeAnyJob` is a status request on a fresh SQLite file. The
synchronous endpoint shares the objects with the jobs: `SyncGet` reads them back, `SyncFinish` is its
two remaining writes, the review cases and the completion event. The upload event is left out.

`IdempotentSubmission` knows only what a client sees: the tenant and key a request was sent with
(`sent`), the owner of a slot, the replies. A request with a key can only claim its own slot or be
answered with that slot's owner; a job of one's own is for requests without a key. `ReconJobsProps`
maps `sent` to the requests, `owner` to the oldest row of a slot and `reply` to the answers.

### JobReads and the code

`ask` is what the client reads (endpoint, job, tenant), `rpc` the next statement of the endpoint or
how the read ended, `status`, `offset`, `total`, `shown`, `given` what it has been told. `GetJob` is
the first statement of every endpoint but `export.json` and answers 404 for another tenant's job
and, to the report endpoint, 409 unless the row says succeeded at that moment. `CountRows` and
`SelectRows` are the two statements of `list_reconciliation_results`; a page is cut by `ORDER BY
record_id LIMIT OFFSET`, a CSV export is one page of `ExportLimit` rows. `NextRows` is the client's
next request, which looks the job up again. `ResultsTable` says whether the table exists: neither
store makes it when it opens the database, so it is there from the start only on a PostgreSQL
database the migration made (`Migrated`; `docker-compose.yml:29` runs it), and otherwise after the
first save. `JobStep` is any step of `ReconJobs`, so rows and status change between any two
statements. The status filter of the pages selects by a column that never changes and is left
out, as is the audit event of a status read.

### ReviewDesk, ReviewQueue, SequentialReview and the code

A case is the stored id `tenant:hash`. `SaveReviewCases` is the insert-or-ignore of one run;
`Lookup`, `Resolve`, `RecordDecision`, `Reread` are the four calls of a request, `left` the ids a
bulk request still has to handle. `rows[c].by` stands for the note and time a decider wrote, which
makes two decisions with the same outcome distinguishable. A single request is a list of length
one whose refusals are the 404 and 409 answers. `Fails` ends a handler between any two calls. The
gauge is treated as that of one process; nothing reads it.

`ReviewQueue` adds `created_at` (`born`; a run reads the clock before it saves, so later rows may
carry an earlier time) and one client. `CountCases` and `SelectPage` are the two statements of
`list_review_cases`, `Page` its `ORDER BY created_at, case_id LIMIT OFFSET`. Cases that are decided
leave an open view and move the rest up, so the next offset skips as many: `MissedAreAccounted`
says that nothing else is missed.

`SequentialReview` has the table, the requests and the two reply lists of `ReviewDesk`, and neither
threads nor audit: `Grant` decides the next id of a list if its case is open at that instant, `Refuse`
says why not. `ReviewDesk` implements it with the same variables; what `Lookup` saw is hidden.

### MatchEngine, ReconRun and the code

What a transaction and an invoice share is the record `_candidate` reads: reference equal, amount
difference, days apart, names similar, types compatible. `evidence` gives each pair any of the
kinds in `Evidences`; that includes combinations no two files produce (similarity is not
transitive here), so the safety properties are shown for more than the code can meet. Scores are in
hundredths and exact: the code sums floats (`engine.py:66-91`), so two sums of the same hundredths
in another order may differ in their last bit, and what is a tie here is broken there by that bit
instead of by amount and date. Each branch of the loop body is one action; `Best` is the first element of the stable
sort. `used` holds invoice *ids*, as the code does, and two register rows may share one.

`ReconRun` walks the engine and then goes through what the three endpoints do with the decisions:
`Evaluate` (the demo endpoint with a `ground_truth.csv`), `Advise` (any answer of the provider per
review, through `validate_ai_result`), `SaveCases`, `CountRun`, and for a job `SaveResults` and
`SaveReport`. `Raises` is any call that raises, an unusable answer of the provider or a missing key
included; `CountFailure` is the counter of the except clause, which a run already counted reaches
too; `Dies` loses the process and its counters; `Restart` is a retry or redelivery, on the same
files. Bank ids may collide: advice keeps the last, result rows the first, and a case depends on
candidate and tier as well. Quality issues appear only in the report and are left out; ratios of the
evaluation are quotients of the counts.

### AdvancedMatch and the code

`reconcile_advanced` is the matcher of the evaluation scripts; the service calls `reconcile`. A
record is what the code reads of a transaction: amount, number, day, type and a name as its tokens,
the tokens joined and the text without spaces. Invoices are numbered in the order of their ids,
which is the order candidates are visited in. The ids are assumed distinct, as the scripts that call
it generate them: the code keys its index, `remaining` and `used` by `source_record_id`, and of two
invoices with one id only the later survives (`blocking.py:51`, `advanced.py:111`), so the
properties, `UnmatchedHasNoCandidate` among them, say nothing of such lists. `Candidates` is `candidate_invoices`: the index by
name, token and amount bucket, then dates, amounts and `_compatible`; it compares the *original*
amount of an invoice, whatever remains of it, as the code does. `Pairs` and `Triples` are the
combinations `_subset_match` would accept and `PairPrecedes` and `TriplePrecedes` the order in which
it meets them. Each of the six outcomes is an action; `used` and `remaining` are the dictionaries of
the code. Amounts are integers (cents).

### RateLimit and the code

`ReadClock` is the first line of `allow`; `CountInRedis` is the Lua script, one step as Redis runs
it, and the comparison of its result; time may pass between the two. `Tick` advances the clock and
drops the keys whose expiry has come. `CountInProcess` is the deque under its lock, `LimiterOf` says
which limiter a request uses: one of its own, because the handlers call
`build_rate_limiter(settings).allow(tenant_id)`. Replicas and Redis are assumed to agree on the time.

### SourceIntake and the code

A header is the column it means and how it is written: exactly, restyled (case, spaces,
punctuation; `normalize_column_name` undoes that) or under an alias of `_COLUMN_ALIASES`. A cell is
good, zero, empty, only spaces or bad for its field: both readers strip, but `_normalize_bank` tests
`value_date` before it does (`normalizer.py:84`), so spaces fail there. `DataRows` are the rows
`csv.DictReader` yields, which passes over lines without any value. `MappedApart` and `NormalizedApart`
are the two checks for duplicates, of mapped headers (`parsers.py:126`) and of columns that differ
in style only (`contracts.py:74`); the parser makes both, the reader of the pipeline the second.
`CsvIsSound`, `SheetIsSound` and `JsonIsSound` are the
refusals of the three parsers, `ParsedRow` and `JsonRow` what they make of a row, derived amounts,
cut rows and keys that overwrite each other included. `ReaderAccepts`, `Get`, `NormalizesBank` and
`NormalizesPurchase` are the pipeline's reader: exact keys, a byte order mark that stays in the
first, the last of two equal headers. The actions are the steps of the three endpoints in their
order: name, size, parse, store, run.

## 3. Runs

The configurations set `CHECK_DEADLOCK FALSE`: the number of submissions, decisions, faults, files
and limited requests is bounded, so a behaviour ends when they are used up, and a walk over the
transactions ends after the last one.

| Run | Instance | Shows |
|---|---|---|
| `JobsTwo` | 2 submissions, 2 tenants, 1 name, 1 key, 2 files, PostgreSQL, Celery, 1 worker, 1 retry, 1 fault | inputs before job, one job per key, equal answers, single execution, own outputs, report behind a resting success |
| `JobsRedelivery` | 1 job and 1 client that replaces its purchase file, perhaps by one the pipeline rejects; 2 workers, 1 redelivery, 1 fault, 1 retry, fairness | success is backed, outputs audited and undisturbed, nothing forgotten, every job ends; the invariant of the proofs |
| `JobsBackground` | 2 submissions of 2 tenants with 1 key or none, SQLite, background tasks, 2 threads, 1 crash | the abstract contract `IdempotentSubmission` is implemented, whether or not a poll made the job table first |
| `JobReads` | 1 job on 2 workers, 1 redelivery, no retry, SQLite; a client that replaces one of its files; pages and exports of 1 row | what is told was audited, reports come with rows, pages stay true |
| `ReviewWalk` | 2 reviewers, 2 tenants, 2 cases, lists of up to 2 ids, 2 runs that share a decision saved 3 times, 2 failures; or 1 reviewer and a client that lists pages of 1 case | rows, audit file and replies agree; decisions stand; the desk implements `SequentialReview`; a walk misses no more than was decided |
| `RunWalk` | 2 transactions, 2 invoices, 6 kinds of evidence, ids equal or not, 3 endpoints, 5 ground truths, any advice, 2 attempts, 1 fault | the engine's promises; cases, counters, rows, report and evaluation of a run agree |
| `AdvancedWalk` | 3 transactions, 3 invoices, 5 records each, tolerance 1, bucket 4 | balanced accounts, settled once, no candidate lost, the only combination that fits is taken |
| `RateWindow` | 4 requests, 2 tenants, limit 2, window 2, 5 instants, both backends | the limit of a window, earned refusals |
| `SourceFiles` | some thousand files of all six sources that differ in headers, encoding, columns, row lengths and cells, 3 endpoints | where the two readers part ways, that nothing else is lost, and that the strict reader alone lets through no more than the parser but a repeated header |

Three runs show a disagreement of the code with its documentation; each checks the one statement
quoted under `findings` in `PROJECT.json`:

* `DocOneJob`: on SQLite, a poll before the first submission lets a reused key insert a second row.
* `DocReread`: the report of a completed job is refused once a redelivered attempt runs or fails.
* `DocMemoryLimit`: with the memory backend no request of a tenant is ever refused.

Disagreements that are plain from the code and have no run:

* A job is marked succeeded before its rows and report exist (`api/app.py:277`;
  `docs/architecture-diagrams.md:75` has them the other way round). `RestingSuccessIsReported` and
  `RepliesAreBacked` say what holds nevertheless.
* The rows the parser made are only counted; the pipeline reads the bytes again
  (`pipeline.py:23`; `docs/SOURCE_INGESTION.md:7` has the parser feed the normalizer). A header
  under an alias or behind a byte order mark passes the boundary and fails in the job.
  `LossIsRespelling` says that a file which passed the boundary fails in the job, or loses a field,
  only for such a header, a derived amount, absent debit and credit columns, or a value that is not
  good; not that each of these always does.
* On SQLite, and on PostgreSQL without the migration, listing or exporting results before any job has
  finished is an internal error, because only a save makes the table (`storage/sqlite.py:310`;
  `README.md:902`). `PagesStayTrue` includes
  that no job with rows or a report is affected.
* The CSV export ends after 500 rows without saying so (`api/app.py:437`).
* A payment is matched to the first combination that fits, although another fits as well
  (`advanced.py:72`), where the docstring promises a match "only ... when the allocation is
  unambiguous" (`advanced.py:105`) and the decision explains itself as unambiguous (`advanced.py:159`).
  `UnambiguousCombinationIsTaken` is the half that the code keeps: the only combination that fits is
  taken, and exactly that one.
* Of two equal headers the synchronous endpoint keeps the later column without a word, where the
  asynchronous one refuses the file (`pipeline.py:23`, `parsers.py:126`); of two keys of a JSON
  record with one meaning the upload keeps the later (`parsers.py:308`).
* A later upload of the same file name changes the batches a queued job reports
  (`ingestion/uploads.py:32`; `docs/SOURCE_INGESTION.md:50`).
* The backlog gauge counts decided cases (`storage/sqlite.py:212`; `metrics.py:61`).
* With the default thresholds the fuzzy branch is never taken (`engine.py:16`, `:148`, `:160`;
  `README.md:107`).
* `reconcile_advanced` takes `exact[0]` itself and does not call the deterministic engine its
  docstring delegates to (`advanced.py:104`, `:133`).
* The limiter's "production default" is not the default of `config.py:69` (`rate_limit.py:57`).

### Bounds and why they are enough

*Jobs.* The hazards are between two actors: two attempts of one job, a job and an uploader, two
submissions of one key. Two of each, with two different contents, make every such pair; a third
actor repeats one. One fault and one redelivery can fall on any call, so every single failure is
covered, and `MaxRetries = 1` has an attempt that may retry and one that may not (3 in the code).
Two file contents let attempts mix files; two bank files that share a record id let result rows mix.

*Reads.* Pages of one row make a walk of two rows take three requests, and the bank file of one attempt
has a record that sorts before the one both have, so a second attempt inserts a row before
rows already shown. An export of one row is below and above its cap. The second
attempt comes from the redelivery; a retry would be one more by a worker that has failed, which
`JobsRedelivery` and `DocReread` have. The constraint `MCReads` keeps
the client on the one job there is.

*Review.* A case listed twice, lists in opposite orders and a case of another tenant are all there.
Where a client walks the queue, `MCBound` allows one reviewer, who approves, two saves and no failure,
and where none does it fixes `created_at`, which nobody reads then: reviewers among themselves and a
reviewer against a reader are explored completely, two reviewers and a reader at once are not; the
theorems hold of any number.

*Runs and matching.* Two invoices suffice for a best one and a rival or a tie, two transactions for
one that takes what the other needs, or shares its id; the thresholds of `RunWalk` let fuzzy
matches happen, which the defaults do not. Two attempts and one fault put an attempt that failed at
any call before a whole one. For advanced matching, three invoices make a combination of
three; three transactions a part payment, another, and the one that settles. The records of
`MCAdvancedMatch` lie on both sides of a bucket boundary and reach every branch; `MaxComplex` (250 in
the code) is never reached.

*Rate limiter.* Four requests are one more than a limit of 2 can refuse; the clock runs through two
windows and into a third, so a late request finds a key that is there, or expired.

*Source files.* A file is independent of every other. Up to two of its headers are respelt, one is
left out or doubled in the same or another writing, and one cell or row length is odd, an empty row
and a value date of spaces among them: every reason to refuse occurs alone and next
to another.

Symmetry is used for workers, reviewers and requests, which are interchangeable, in runs without
liveness.

### Fairness

`FairSpec`, in `JobsRedelivery`, assumes weak fairness of each handler and each worker: uvicorn runs a
request it has started, and a Celery worker that is up takes messages and goes on with the task it
holds. Nothing forces faults, kills or redeliveries, and they are bounded; a job whose last carrier
is killed is excused by `abandoned`, because nothing in the code picks it up again. No other run
needs fairness.

## 4. Proofs

TLAPS checks the following for every value of the constants, under the assumptions named in the
modules (`ConstantsAssumption`, `ReadsAssumption`, `DeskAssumption`, `QueueAssumption`,
`ScoringAssumption`, `EngineAssumption`, `RunAssumption`, `AdvancedAssumption`, `RateAssumption`,
`FilesAssumption`: shapes of the parameters, `None` outside the sets, finitely many submissions,
cases, requests or rows of a file, and that the pipeline rejects a file without rows, as
`pipeline.py:24` does). TLC evaluates them in the runs.

* **Jobs.** `TypeInv` strengthens `TypeOK` with what relates program counters, messages and rows
  (`HandlersHaveSubmissions`, `CarriedJobsHaveRows`) and with what a worker has done so far
  (`WorkerProgress`). The last is the heart of `SuccessBacked`: a row becomes succeeded only at a
  worker whose own progress vouches for cases and audit, and these only grow, so it does not
  matter which attempt writes last. `OutputsAudited` follows the same line;
  `OutputsFromOwnKeys` goes from objects to uploads, to what a worker has read, to outputs;
  `UndisturbedOutputs` is a corollary. `UnsettledCarried` needs `UnsettledHasAttempt`, which names
  the steps of an attempt that still settles its job: a worker about to acknowledge does not count.
  `OneJobWhileConstrained` is inductive by itself, and on PostgreSQL the constraint never
  goes away (`OneJobInPostgres`). `InputsDurable` needs what each call of a handler has behind it
  (`InputsReady`). `AnswersAlwaysAgree` needs that row numbers are the order of insertion
  (`RowIdsAreOrder`), so that an answer, the oldest row of its key, stays the oldest
  (`AnswersAreOldest`); the same two carry the refinement `SubmissionImplemented`, on either store.
  An arrival is a `Send`, for which nothing may be recorded of the request before (`FreshHandlers`); a
  create with a key is a claim when its slot had no row and a replay when it had one.
  `ExecutionSingle` rests on `OneCarrier`: a publish, a take and a retry each hand a job over and keep
  nothing. `RestingSuccessReported` needs, besides, that nobody writes the row between a worker's
  success and its report (`ReportFollows`). `JobInvariance` puts the conjuncts of `JobInv` together,
  with `FailuresAudited` and `RowsBehindReports` for the readers.
* **Reads.** `ReadsRefineJobs` shows that a reader makes only steps of `ReconJobs` or none, so
  `JobInv` holds next to it. A reply may be older than the tables; `RepliesBacked` holds because
  what backs a reply (audit events, result rows by record) only grows. `PagesTrue` needs `ReadInv`:
  a job has one row per record, rows that come in only move others back, so every row the client
  has not seen is at or behind the next offset; what lies behind a page is what the COUNT counted,
  and what came in since, less what the pages covered; and a page is empty only behind all rows.
* **Pages.** `RankProofs` holds the counting both walks rest on: in a sorted listing of any length no
  more than k rows have a position below k (`FirstAtMost`), exactly k if there are more
  (`FirstAtLeast`, `RestAtMost`), and when rows leave, no more than left can move to a place
  among the first k, whatever comes in (`Departures`).
* **Review.** `DeskInv` adds to the types that a request past its lookup has an id left and that a
  worker at its audit owns the row. From it: `DecisionsFinal`, `AuditAgrees`, `OwnTenant`,
  `DecidedAudited`. `RepliesTrue` needs in addition what a decider's step does to its reply
  (`DeciderMoves`) and that the ids answered and the ids left are together those of the request
  (`EachIdHandled`). `DeskIsSequential` shows step by step that the desk implements `SequentialReview`:
  a save is an arrival, a successful UPDATE a grant, a lookup or an UPDATE that finds the case taken a
  refusal, and everything else a stutter. It needs that what a request has left is the end of its
  list behind the answered ids (`ListsInOrder`), and that the case of a thread at its UPDATE exists
  (`ResolvingFound`), so that an UPDATE without effect means decided and not missing. `QueueRefinesDesk` carries all of it to the desk with a listing client.
  `WaitingCasesAreShown` rests on `QueueInv`: a case leaves the view only by being decided and stays
  out of it, and the missed cases among the places the pages have covered are no more than left;
  `Departures` is the step of that count at which somebody else decides.
* **Engine.** The invariant says that the used ids are those of matched invoices, and what held
  when each decision was made, in terms of the invoices matched before it. From it:
  `InvoicesMatchOnce`, `NoReferenceLeftBehind`, `DeterministicMatchesUnambiguous`,
  `ReferenceConflictsReviewed`. `ExclusivePairsMatched` needs that a matched decision has one of
  three tiers (`MatchesHaveTiers`): an exclusive pair leaves each of the other branches without a
  candidate.
* **Run.** An attempt walks the engine, stands still or starts over, so the engine's lemmas give
  its invariant in `RunInv` too. To it the proof adds what ties amounts to references
  (`MismatchesAreReferenced`) and a count of decisions by status
  (`CountersAlwaysAgree`). What an earlier attempt stored agrees with a later one because both make the
  one walk that the files admit: `Verdict` is the decision the engine makes of a transaction, given
  the decisions before it, and `WalkIsUnique` shows, by the least transaction at which two walks part,
  that they never do. With it `RecordsInv` says what advice, cases, rows and report hold, which
  gives `ReviewsAreTracked` and `ReportsAgreeWithRows`; `EvaluationsAreHonest` counts the decisions
  by what the ground truth says of them.
* **Advanced matching.** `LedgerInv` adds to the balance that a settled invoice is in `used` and that
  an invoice anybody paid has less remaining than its amount; the second keeps combinations away
  from invoices paid in part. Every action is one of three kinds of step (`StepKinds`), and one lemma
  (`SoundStepKeepsLedger`) shows that a step of any kind keeps the invariant. From it:
  `AdvancedTypeCorrect`, `AccountsAlwaysBalance`, `InvoicesSettleOnce`. `BlockingIsPermissive` adds
  that `used` holds nothing else, and arithmetic: amounts no further apart than a bucket is wide lie
  in adjacent buckets. It assumes `Tolerance <= BucketSize`, which the code's 25 and 100 satisfy.
  `UnambiguousAreTaken` rests on `SearchInv`: what was consumed is settled, so an invoice nobody touched
  by the time of a decision was a candidate then, and if it shares a word it is in the pool that is
  searched; a decision that is not for a combination found none there, and one that is took a
  combination that fits (`TakesWhatFits`), which is the only one there is.
* **Rate limiter.** `WindowHolds` is not inductive: it does not say why the next request of a full
  window is refused. `RateInv` adds that the key of the running window counts every request
  answered under it and expires after the window (`KeysCount`; an older key may have expired
  already, a later one does not exist), and that a live key has admitted up to the limit since its
  expiry was set (`LiveKeys`), which is what makes a refusal earned. From it: `RateTypeCorrect`,
  `KeysAlwaysExpire`, `WindowsAlwaysHold`, `RefusalsAlwaysEarned`.

* **Intake.** `IntakeInv` says what a file has passed at each step. `LossIsAnnounced` compares the two
  readers cell by cell (`RowsAgree`): a header the reader can get is the one the parser named so,
  because the contract leaves no header without a meaning. `UnparsedAgree` goes the other way: where no
  header is written twice, the contract of the strict reader implies every check of the parser
  (`StrictIsSound`), and then the rows agree as before.

Only model-checked: liveness (`EveryJobSettles`; fairness and ENABLED are out of the prover's reach).
The three statements of the documentation that the code does not keep are refuted by TLC. Every other
property of a run is also a theorem.

## 5. Plan

Done: jobs and their readers, review workflow and its listing, both matchers, whole runs with AI
boundary, metrics and evaluation, source intake, rate limiter, and proofs of every safety property
the runs check. Left:

1. Torn writes of the local object store: contents with a prefix order, and an attempt that reads one.

An abstract ledger behind the advanced matcher was planned and dropped: an account is due what is left
of its amount, and `AccountsBalance` and `SettledOnce` already say that.

## 6. Not modelled

Quality rules are advisory remarks on single records that only a report shows; record idempotency
keys, `register_transactions`, `build_invoice_blocks` and the data lake are called by nothing in the
service. Authentication is an input: a request acts for some tenant. A put is atomic, as in S3;
the local store's torn writes are in the plan. Celery's result backend, back-off and prefetch do not
affect the tables. The reviewers' gauge and the Prometheus counters have no reader in the program.
Benchmarks, synthetic data, command line, logs, the web page, migrations and deployment files have no
behaviour of their own. A broker that loses messages outright is not modelled apart from the publish
that fails, and an unreachable Redis fails a request before it changes anything.
