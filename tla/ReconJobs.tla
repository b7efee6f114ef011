------------------------------ MODULE ReconJobs ------------------------------
(***************************************************************************)
(* Asynchronous reconciliation jobs: the upload handlers of the HTTP API,  *)
(* the object store they write, the job table with its idempotency key,    *)
(* the task queue, and the workers that execute _run_reconciliation_job.   *)
(* One action is one call that another process can observe: an object put  *)
(* or get, one database transaction, one append to the audit file, one     *)
(* publish or acknowledgement.  File contents are abstract values; the     *)
(* pipeline is a function of the two contents it was given.                *)
(***************************************************************************)
EXTENDS Integers, FiniteSets

CONSTANTS
  Requests,         \* HTTP submissions; the uuid4 a submission draws is named after it
  Workers,          \* Celery worker children, or background threads of the API
  Tenants, Names, Contents, Keys, Records,
  KindsOf,          \* which endpoints each submission may use
  Files,            \* the content pairs clients submit
  Parsable,         \* the content pairs run_pipeline does not reject
  RowsOf,           \* the bank record ids of a bank file
  Store,            \* "sqlite" | "postgres"     (build_store)
  JobQueue,         \* "celery" | "background"   (Settings.job_queue)
  MaxRetries,       \* max_retries of the Celery task
  MaxFaults,        \* bound: exceptions, crashes and kills of a behaviour
  MaxRedeliveries,  \* bound: broker redeliveries of a behaviour
  None

Sources == {"bank", "purchase"}
Pair == [Sources -> Contents]
ObjectKey == Tenants \X Sources \X Names
AllKinds == {"async", "sync", "upload_bank", "upload_purchase"}

Request == [kind : AllKinds, tenant : Tenants, name : Names, file : Files,
            key : Keys \cup {None}]
Status == {"queued", "running", "succeeded", "failed"}
JobRow == [status : Status, result : Pair \cup {None}, rowid : Nat]
Message == [job : Requests, retries : 0 .. MaxRetries, copy : 0 .. MaxRedeliveries]
AuditEvent ==
  [event : {"completed", "failed"}, job : Requests, pair : Pair \cup {None}]
    \cup [event : {"sync"}, job : Requests, pair : [Sources -> Contents \cup {None}]]
HandlerStep == {"new", "putBank", "putPurchase", "register", "createJob", "dispatch",
                "getBank", "getPurchase", "saveCases", "recordSync", "done", "failed"}
WorkerStep == {"idle", "markRunning", "getBank", "getPurchase", "saveCases",
               "recordDone", "markSucceeded", "saveResults", "saveReport",
               "recordFailure", "markFailed", "retry", "ack"}

ASSUME ConstantsAssumption ==
  /\ KindsOf \in [Requests -> SUBSET AllKinds]
  /\ Files \subseteq Pair /\ Parsable \subseteq Pair
  /\ RowsOf \in [Contents -> SUBSET Records]
  /\ Store \in {"sqlite", "postgres"}
  /\ JobQueue \in {"celery", "background"}
  /\ MaxRetries \in Nat /\ MaxFaults \in Nat /\ MaxRedeliveries \in Nat
  /\ None \notin Contents \cup Keys \cup Requests \cup Pair
  /\ IsFiniteSet(Requests) /\ Requests \cap Workers = {}
  /\ None \notin Request /\ None \notin JobRow /\ None \notin Message

VARIABLES
  req,         \* the submission of each handler, None before it arrives
  hpc,         \* next call of each handler
  answer,      \* job id a handler replied with
  objects,     \* object store
  batches,     \* ingestion_batches
  jobsTable,   \* how reconciliation_jobs was created: "absent" | "unique" | "bare"
  jobs,        \* reconciliation_jobs
  cases,       \* review_cases: which pairs had their cases saved, per tenant
  results,     \* reconciliation_results of each job
  reports,     \* reconciliation_reports of each job
  audit,       \* completion and failure events of the audit file, async and sync
  queue,       \* messages a worker may take
  task,        \* message each worker holds unacknowledged
  wpc,         \* next call of each worker
  read,        \* contents a worker or a synchronous handler has read
  faults, redeliveries,
  uploads,     \* history: every object put
  abandoned    \* history: jobs whose last carrier died without requeueing them

api == <<req, hpc, answer>>
tables == <<batches, jobsTable, jobs, cases, results, reports>>
broker == <<queue, task, wpc>>
budget == <<faults, redeliveries>>
vars == <<req, hpc, answer, objects, batches, jobsTable, jobs, cases, results,
          reports, audit, queue, task, wpc, read, faults, redeliveries, uploads,
          abandoned>>

NothingRead == [s \in Sources |-> None]

\* Faulty variants, named Bad..., stand before the definition they alter; each breaks a
\* property of ReconJobsProps and shows that the property depends on that definition.
BadKeySharedByTenants(r, s) == <<CHOOSE t \in Tenants : TRUE, s, req[r].name>>
BadKeyWithoutSource(r, s) == <<req[r].tenant, "bank", req[r].name>>

\* build_object_key: tenant, source and file name, nothing of the content or the job.
ObjKey(r, s) == <<req[r].tenant, s, req[r].name>>
Batch(t, s, c) == [tenant |-> t, source |-> s, content |-> c]
Upload(t, s, n, c) == [tenant |-> t, source |-> s, name |-> n, content |-> c]
TenantOf(r) == req[r].tenant

Init ==
  /\ req = [r \in Requests |-> None]
  /\ hpc = [r \in Requests |-> "new"]
  /\ answer = [r \in Requests |-> None]
  /\ objects = [k \in ObjectKey |-> None]
  /\ batches = {}
  /\ jobsTable = IF Store = "postgres" THEN "unique" ELSE "absent"
  /\ jobs = [j \in Requests |-> None]
  /\ cases = {}
  /\ results = [j \in Requests |-> {}]
  /\ reports = [j \in Requests |-> None]
  /\ audit = {}
  /\ queue = {}
  /\ task = [w \in Workers |-> None]
  /\ wpc = [w \in Workers |-> "idle"]
  /\ read = [p \in Requests \cup Workers |-> NothingRead]
  /\ faults = 0 /\ redeliveries = 0
  /\ uploads = {}
  /\ abandoned = {}

-----------------------------------------------------------------------------
(* Handlers: upload_source, reconcile_uploaded_files, enqueue_reconciliation *)

HandlerAt(r, step) == hpc[r] = step
HandlerTo(r, step) == hpc' = [hpc EXCEPT ![r] = step]

\* Validation, rate limit and parsing passed; nothing has been written yet.
Submit(r) ==
  /\ HandlerAt(r, "new")
  /\ \E q \in Request :
       /\ q.kind \in KindsOf[r]
       /\ q.kind = "async" \/ q.key = None
       /\ req' = [req EXCEPT ![r] = q]
       /\ HandlerTo(r, IF q.kind = "upload_purchase" THEN "putPurchase" ELSE "putBank")
  /\ UNCHANGED <<answer, objects, tables, audit, broker, read, budget, uploads, abandoned>>

Put(r, s) ==
  /\ objects' = [objects EXCEPT ![ObjKey(r, s)] = req[r].file[s]]
  /\ uploads' = uploads \cup {Upload(TenantOf(r), s, req[r].name, req[r].file[s])}

PutBank(r) ==
  /\ HandlerAt(r, "putBank")
  /\ Put(r, "bank")
  /\ HandlerTo(r, IF req[r].kind = "upload_bank" THEN "register" ELSE "putPurchase")
  /\ UNCHANGED <<req, answer, tables, audit, broker, read, budget, abandoned>>

BadPutPurchase(r) ==
  /\ HandlerAt(r, "putPurchase")
  /\ Put(r, "purchase")
  /\ HandlerTo(r, IF req[r].kind = "sync" THEN "getBank" ELSE "createJob")
  /\ UNCHANGED <<req, answer, tables, audit, broker, read, budget, abandoned>>

PutPurchase(r) ==
  /\ HandlerAt(r, "putPurchase")
  /\ Put(r, "purchase")
  /\ HandlerTo(r, IF req[r].kind = "sync" THEN "getBank" ELSE "register")
  /\ UNCHANGED <<req, answer, tables, audit, broker, read, budget, abandoned>>

SentSources(r) ==
  CASE req[r].kind = "upload_bank" -> {"bank"}
    [] req[r].kind = "upload_purchase" -> {"purchase"}
    [] OTHER -> Sources

RegisterBatches(r) ==
  /\ HandlerAt(r, "register")
  /\ batches' = batches \cup {Batch(TenantOf(r), s, req[r].file[s]) : s \in SentSources(r)}
  /\ HandlerTo(r, IF req[r].kind = "async" THEN "createJob" ELSE "done")
  /\ UNCHANGED <<req, answer, objects, jobsTable, jobs, cases, results, reports, audit,
                 broker, read, budget, uploads, abandoned>>

Stored == {j \in Requests : jobs[j] # None}
BadOpenJobsOnly(r) ==
  {j \in Stored : /\ req[j].tenant = req[r].tenant /\ req[j].key = req[r].key
                  /\ jobs[j].status # "failed"}
BadAnyTenant(r) == {j \in Stored : req[j].key = req[r].key}
SameKey(r) == {j \in Stored : req[j].tenant = req[r].tenant /\ req[j].key = req[r].key}
Oldest(S) == CHOOSE j \in S : \A i \in S : jobs[j].rowid <= jobs[i].rowid
NewRow == [status |-> "queued", result |-> None, rowid |-> Cardinality(Stored)]
TableAfterCreate == IF jobsTable = "absent" THEN "unique" ELSE jobsTable

BadCreateJob(r) ==
  /\ HandlerAt(r, "createJob")
  /\ jobsTable' = TableAfterCreate
  /\ answer' = [answer EXCEPT ![r] = r]
  /\ \/ /\ req[r].key = None \/ SameKey(r) = {}
        /\ jobs' = [jobs EXCEPT ![r] = NewRow]
        /\ HandlerTo(r, "dispatch")
     \/ /\ req[r].key # None /\ SameKey(r) # {}
        /\ jobs' = IF jobsTable = "bare" THEN [jobs EXCEPT ![r] = NewRow] ELSE jobs
        /\ HandlerTo(r, "done")
  /\ UNCHANGED <<req, objects, batches, cases, results, reports, audit, broker, read,
                 budget, uploads, abandoned>>

\* create_job.  The UNIQUE constraint exists only when create_job itself made the table.
CreateJob(r) ==
  /\ HandlerAt(r, "createJob")
  /\ jobsTable' = TableAfterCreate
  /\ \/ /\ req[r].key = None \/ SameKey(r) = {}
        /\ jobs' = [jobs EXCEPT ![r] = NewRow]
        /\ answer' = [answer EXCEPT ![r] = r]
        /\ HandlerTo(r, "dispatch")
     \/ /\ req[r].key # None /\ SameKey(r) # {}
        /\ jobs' = IF jobsTable = "bare" THEN [jobs EXCEPT ![r] = NewRow] ELSE jobs
        /\ answer' = [answer EXCEPT ![r] = Oldest(SameKey(r))]
        /\ HandlerTo(r, "done")
  /\ UNCHANGED <<req, objects, batches, cases, results, reports, audit, broker, read,
                 budget, uploads, abandoned>>

BadDispatchTwice(r) ==
  /\ HandlerAt(r, "dispatch")
  /\ queue' = queue \cup [job : {r}, retries : {0, MaxRetries}, copy : {0}]
  /\ HandlerTo(r, "done")
  /\ UNCHANGED <<req, answer, objects, tables, audit, task, wpc, read, budget, uploads,
                 abandoned>>

\* process_job.delay or background_tasks.add_task.
Dispatch(r) ==
  /\ HandlerAt(r, "dispatch")
  /\ queue' = queue \cup {[job |-> r, retries |-> 0, copy |-> 0]}
  /\ HandlerTo(r, "done")
  /\ UNCHANGED <<req, answer, objects, tables, audit, task, wpc, read, budget, uploads,
                 abandoned>>

\* object_store.get by process p, of the file that request or job r names.
Get(p, r, s) == read' = [read EXCEPT ![p][s] = objects[ObjKey(r, s)]]

SyncGet(r) ==
  /\ \/ HandlerAt(r, "getBank") /\ Get(r, r, "bank") /\ HandlerTo(r, "getPurchase")
     \/ HandlerAt(r, "getPurchase") /\ Get(r, r, "purchase") /\ HandlerTo(r, "saveCases")
  /\ UNCHANGED <<req, answer, objects, tables, audit, broker, budget, uploads, abandoned>>

CaseSet(t, pair) == [tenant |-> t, pair |-> pair]

Event(kind, j, pair) == [event |-> kind, job |-> j, pair |-> pair]

\* The synchronous endpoint: run_pipeline, escalation and save_review_cases, then its event.
SyncFinish(r) ==
  /\ \/ /\ HandlerAt(r, "saveCases") /\ read[r] \in Parsable
        /\ cases' = cases \cup {CaseSet(TenantOf(r), read[r])}
        /\ audit' = audit
        /\ HandlerTo(r, "recordSync")
     \/ /\ HandlerAt(r, "saveCases") /\ read[r] \notin Parsable
        /\ UNCHANGED <<cases, audit>>
        /\ HandlerTo(r, "failed")
     \/ /\ HandlerAt(r, "recordSync")
        /\ cases' = cases
        /\ audit' = audit \cup {Event("sync", r, read[r])}
        /\ HandlerTo(r, "done")
  /\ UNCHANGED <<req, answer, objects, batches, jobsTable, jobs, results, reports, broker,
                 read, budget, uploads, abandoned>>

\* A handler dies or answers 500 before its next call.
HandlerFails(r) ==
  /\ hpc[r] \notin {"new", "done", "failed"}
  /\ faults < MaxFaults
  /\ faults' = faults + 1
  /\ HandlerTo(r, "failed")
  /\ abandoned' = IF HandlerAt(r, "dispatch") THEN abandoned \cup {r} ELSE abandoned
  /\ UNCHANGED <<req, answer, objects, tables, audit, broker, read, redeliveries, uploads>>

\* SQLite get_job creates the table, without the idempotency column or the constraint.
PollBeforeAnyJob ==
  /\ jobsTable = "absent"
  /\ jobsTable' = "bare"
  /\ UNCHANGED <<api, objects, batches, jobs, cases, results, reports, audit, broker, read,
                 budget, uploads, abandoned>>

-----------------------------------------------------------------------------
(* Workers: process_job around _run_reconciliation_job                      *)

WorkerAt(w, step) == wpc[w] = step
WorkerTo(w, step) == wpc' = [wpc EXCEPT ![w] = step]
JobOf(w) == task[w].job

\* update_job: an unconditional UPDATE that also overwrites result and error.
UpdateJob(j, status, result) ==
  jobs' = [jobs EXCEPT ![j] =
             [status |-> status, result |-> result, rowid |-> jobs[j].rowid]]

\* The child stops executing: its locals and its hold on the message are gone.
Release(w) ==
  /\ task' = [task EXCEPT ![w] = None]
  /\ WorkerTo(w, "idle")
  /\ read' = [read EXCEPT ![w] = NothingRead]

Take(w) ==
  /\ WorkerAt(w, "idle")
  /\ \E m \in queue :
       /\ queue' = queue \ {m}
       /\ task' = [task EXCEPT ![w] = m]
  /\ WorkerTo(w, "markRunning")
  /\ UNCHANGED <<api, objects, tables, audit, read, budget, uploads, abandoned>>

MarkRunning(w) ==
  /\ WorkerAt(w, "markRunning")
  /\ UpdateJob(JobOf(w), "running", None)
  /\ WorkerTo(w, "getBank")
  /\ UNCHANGED <<api, objects, batches, jobsTable, cases, results, reports, audit, queue,
                 task, read, budget, uploads, abandoned>>

GetInputs(w) ==
  /\ \/ WorkerAt(w, "getBank") /\ Get(w, JobOf(w), "bank") /\ WorkerTo(w, "getPurchase")
     \/ WorkerAt(w, "getPurchase") /\ Get(w, JobOf(w), "purchase") /\ WorkerTo(w, "saveCases")
  /\ UNCHANGED <<api, objects, tables, audit, queue, task, budget, uploads, abandoned>>

BadSaveCases(w) ==
  /\ WorkerAt(w, "saveCases")
  /\ WorkerTo(w, IF read[w] \in Parsable THEN "recordDone" ELSE "recordFailure")
  /\ UNCHANGED <<api, objects, tables, audit, queue, task, read, budget, uploads, abandoned>>

\* run_pipeline, escalate_reviews and save_review_cases; a rejected file goes to except.
SaveCases(w) ==
  /\ WorkerAt(w, "saveCases")
  /\ \/ /\ read[w] \in Parsable
        /\ cases' = cases \cup {CaseSet(TenantOf(JobOf(w)), read[w])}
        /\ WorkerTo(w, "recordDone")
     \/ /\ read[w] \notin Parsable
        /\ cases' = cases
        /\ WorkerTo(w, "recordFailure")
  /\ UNCHANGED <<api, objects, batches, jobsTable, jobs, results, reports, audit, queue,
                 task, read, budget, uploads, abandoned>>

BadRecordDone(w) ==
  /\ WorkerAt(w, "recordDone")
  /\ WorkerTo(w, "markSucceeded")
  /\ UNCHANGED <<api, objects, tables, audit, queue, task, read, budget, uploads, abandoned>>

RecordDone(w) ==
  /\ WorkerAt(w, "recordDone")
  /\ audit' = audit \cup {Event("completed", JobOf(w), read[w])}
  /\ WorkerTo(w, "markSucceeded")
  /\ UNCHANGED <<api, objects, tables, queue, task, read, budget, uploads, abandoned>>

MarkSucceeded(w) ==
  /\ WorkerAt(w, "markSucceeded")
  /\ UpdateJob(JobOf(w), "succeeded", read[w])
  /\ WorkerTo(w, "saveResults")
  /\ UNCHANGED <<api, objects, batches, jobsTable, cases, results, reports, audit, queue,
                 task, read, budget, uploads, abandoned>>

BadSaveResults(w) ==
  /\ WorkerAt(w, "saveResults")
  /\ LET old == results[JobOf(w)]
         fresh == RowsOf[read[w]["bank"]] \ {row.record : row \in old}
     IN  /\ results' = [results EXCEPT ![JobOf(w)] =
                          old \cup {[record |-> x, pair |-> read[w]] : x \in fresh}]
         /\ WorkerTo(w, IF fresh = {} THEN "ack" ELSE "saveReport")
  /\ UNCHANGED <<api, objects, batches, jobsTable, jobs, cases, reports, audit, queue, task,
                 read, budget, uploads, abandoned>>

BadSkipResults(w) ==
  /\ WorkerAt(w, "saveResults")
  /\ LET old == results[JobOf(w)]
         fresh == IF old = {} THEN RowsOf[read[w]["bank"]] ELSE {}
     IN  results' = [results EXCEPT ![JobOf(w)] =
                       old \cup {[record |-> x, pair |-> read[w]] : x \in fresh}]
  /\ WorkerTo(w, "saveReport")
  /\ UNCHANGED <<api, objects, batches, jobsTable, jobs, cases, reports, audit, queue, task,
                 read, budget, uploads, abandoned>>

\* INSERT OR IGNORE on (job, tenant, record): the first attempt's row of a record stays.
SaveResults(w) ==
  /\ WorkerAt(w, "saveResults")
  /\ LET old == results[JobOf(w)]
         fresh == RowsOf[read[w]["bank"]] \ {row.record : row \in old}
     IN  results' = [results EXCEPT ![JobOf(w)] =
                       old \cup {[record |-> x, pair |-> read[w]] : x \in fresh}]
  /\ WorkerTo(w, "saveReport")
  /\ UNCHANGED <<api, objects, batches, jobsTable, jobs, cases, reports, audit, queue, task,
                 read, budget, uploads, abandoned>>

SaveReport(w) ==
  /\ WorkerAt(w, "saveReport")
  /\ reports' = [reports EXCEPT ![JobOf(w)] = read[w]]
  /\ WorkerTo(w, "ack")
  /\ UNCHANGED <<api, objects, batches, jobsTable, jobs, cases, results, audit, queue, task,
                 read, budget, uploads, abandoned>>

BadRecordFailure(w) ==
  /\ WorkerAt(w, "recordFailure")
  /\ audit' = audit \cup {Event("failed", JobOf(w), None)}
  /\ WorkerTo(w, "ack")
  /\ UNCHANGED <<api, objects, tables, queue, task, read, budget, uploads, abandoned>>

RecordFailure(w) ==
  /\ WorkerAt(w, "recordFailure")
  /\ audit' = audit \cup {Event("failed", JobOf(w), None)}
  /\ WorkerTo(w, "markFailed")
  /\ UNCHANGED <<api, objects, tables, queue, task, read, budget, uploads, abandoned>>

MarkFailed(w) ==
  /\ WorkerAt(w, "markFailed")
  /\ UpdateJob(JobOf(w), "failed", None)
  /\ WorkerTo(w, "retry")
  /\ UNCHANGED <<api, objects, batches, jobsTable, cases, results, reports, audit, queue,
                 task, read, budget, uploads, abandoned>>

CanRetry(m) == JobQueue = "celery" /\ m.retries < MaxRetries

\* self.retry publishes the next attempt; the attempt in hand is acknowledged afterwards.
Retry(w) ==
  /\ WorkerAt(w, "retry")
  /\ \/ /\ CanRetry(task[w])
        /\ queue' = queue \cup {[task[w] EXCEPT !.retries = @ + 1]}
        /\ abandoned' = abandoned
     \/ /\ ~CanRetry(task[w])
        /\ queue' = queue
        /\ abandoned' = IF jobs[JobOf(w)].status = "failed" THEN abandoned
                        ELSE abandoned \cup {JobOf(w)}
  /\ WorkerTo(w, "ack")
  /\ UNCHANGED <<api, objects, tables, audit, task, read, budget, uploads>>

Ack(w) ==
  /\ WorkerAt(w, "ack")
  /\ Release(w)
  /\ UNCHANGED <<api, objects, tables, audit, queue, budget, uploads, abandoned>>

InTry == {"getBank", "getPurchase", "saveCases", "recordDone", "markSucceeded",
          "saveResults", "saveReport"}

\* An exception of the next call.  Only the body of the try block reaches the except
\* clause; the first update_job and the except clause itself escape to process_job.
Fault(w) ==
  /\ wpc[w] \in InTry \cup {"markRunning", "recordFailure", "markFailed"}
  /\ faults < MaxFaults
  /\ faults' = faults + 1
  /\ WorkerTo(w, IF wpc[w] \in InTry THEN "recordFailure" ELSE "retry")
  /\ UNCHANGED <<api, objects, tables, audit, queue, task, read, redeliveries, uploads,
                 abandoned>>

\* The hard time limit or the OOM killer ends the child; its message is acknowledged.
KillChild(w) ==
  /\ JobQueue = "celery"
  /\ wpc[w] \notin {"idle", "ack"}
  /\ faults < MaxFaults
  /\ faults' = faults + 1
  /\ abandoned' = abandoned \cup {JobOf(w)}
  /\ Release(w)
  /\ UNCHANGED <<api, objects, tables, audit, queue, redeliveries, uploads>>

\* The broker hands an unacknowledged message out again; the holder died, or lives on.
Redeliver(w) ==
  /\ JobQueue = "celery"
  /\ task[w] # None
  /\ redeliveries < MaxRedeliveries
  /\ redeliveries' = redeliveries + 1
  /\ queue' = queue \cup {[task[w] EXCEPT !.copy = redeliveries + 1]}
  /\ Release(w) \/ UNCHANGED <<task, wpc, read>>
  /\ UNCHANGED <<api, objects, tables, audit, faults, uploads, abandoned>>

\* What a dying API process takes along, for the history of abandoned jobs.
Unfinished == {m.job : m \in queue} \cup {JobOf(w) : w \in {v \in Workers : task[v] # None}}
                \cup {r \in Requests : HandlerAt(r, "dispatch")}

\* Background mode: the API process dies with its handlers and its pending tasks.
ApiCrash ==
  /\ JobQueue = "background"
  /\ faults < MaxFaults
  /\ faults' = faults + 1
  /\ hpc' = [r \in Requests |-> IF hpc[r] \in {"new", "done"} THEN hpc[r] ELSE "failed"]
  /\ abandoned' = abandoned \cup Unfinished
  /\ queue' = {}
  /\ task' = [w \in Workers |-> None]
  /\ wpc' = [w \in Workers |-> "idle"]
  /\ read' = [p \in Requests \cup Workers |-> NothingRead]
  /\ UNCHANGED <<req, answer, objects, tables, audit, redeliveries, uploads>>

-----------------------------------------------------------------------------
HandlerNext(r) ==
  \/ Submit(r) \/ PutBank(r) \/ PutPurchase(r) \/ RegisterBatches(r) \/ CreateJob(r)
  \/ Dispatch(r) \/ SyncGet(r) \/ SyncFinish(r)

WorkerNext(w) ==
  \/ Take(w) \/ MarkRunning(w) \/ GetInputs(w) \/ SaveCases(w) \/ RecordDone(w)
  \/ MarkSucceeded(w) \/ SaveResults(w) \/ SaveReport(w) \/ RecordFailure(w)
  \/ MarkFailed(w) \/ Retry(w) \/ Ack(w)

Trouble ==
  \/ \E r \in Requests : HandlerFails(r)
  \/ \E w \in Workers : Fault(w) \/ KillChild(w) \/ Redeliver(w)
  \/ ApiCrash

Next ==
  \/ \E r \in Requests : HandlerNext(r)
  \/ \E w \in Workers : WorkerNext(w)
  \/ PollBeforeAnyJob
  \/ Trouble

Spec == Init /\ [][Next]_vars

\* A running handler proceeds, and a live worker consumes and finishes what it took.
Fairness ==
  /\ \A r \in Requests : WF_vars(HandlerNext(r))
  /\ \A w \in Workers : WF_vars(WorkerNext(w))
FairSpec == Spec /\ Fairness

-----------------------------------------------------------------------------
TypeOK ==
  /\ req \in [Requests -> Request \cup {None}]
  /\ hpc \in [Requests -> HandlerStep]
  /\ answer \in [Requests -> Requests \cup {None}]
  /\ objects \in [ObjectKey -> Contents \cup {None}]
  /\ batches \subseteq [tenant : Tenants, source : Sources, content : Contents]
  /\ jobsTable \in {"absent", "unique", "bare"}
  /\ jobs \in [Requests -> JobRow \cup {None}]
  /\ cases \subseteq [tenant : Tenants, pair : Pair]
  /\ results \in [Requests -> SUBSET [record : Records, pair : Pair]]
  /\ reports \in [Requests -> Pair \cup {None}]
  /\ audit \subseteq AuditEvent
  /\ queue \subseteq Message
  /\ task \in [Workers -> Message \cup {None}]
  /\ wpc \in [Workers -> WorkerStep]
  /\ read \in [Requests \cup Workers -> [Sources -> Contents \cup {None}]]
  /\ faults \in 0 .. MaxFaults /\ redeliveries \in 0 .. MaxRedeliveries
  /\ uploads \subseteq [tenant : Tenants, source : Sources, name : Names, content : Contents]
  /\ abandoned \subseteq Requests
=============================================================================
