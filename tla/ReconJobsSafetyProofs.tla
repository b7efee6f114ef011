------------------------ MODULE ReconJobsSafetyProofs ------------------------
(***************************************************************************)
(* The safety properties of ReconJobs for every value of its constants.    *)
(***************************************************************************)
EXTENDS ReconJobsProofs, JobReads, RankProofs

USE DEF api, tables, broker, budget, HandlerAt, HandlerTo, WorkerAt, WorkerTo

-----------------------------------------------------------------------------
(* Who writes what.                                                           *)

\* Job rows are written by create_job and by the three update_job calls of a worker.
LEMMA JobsWriters ==
  ASSUME [Next]_vars
  PROVE  \/ jobs' = jobs
         \/ \E r \in Requests : CreateJob(r)
         \/ \E w \in Workers : MarkRunning(w) \/ MarkSucceeded(w) \/ MarkFailed(w)
BY SMTT(30)
DEF Next, HandlerNext, WorkerNext, Trouble, vars, Submit, PutBank, PutPurchase,
   RegisterBatches, Dispatch, SyncGet, SyncFinish, HandlerFails, PollBeforeAnyJob, Take,
   GetInputs, SaveCases, RecordDone, SaveResults, SaveReport, RecordFailure, Retry, Ack,
   Fault, KillChild, Redeliver, ApiCrash

\* Result rows and reports have one writer each.
LEMMA OutputWriters ==
  ASSUME [Next]_vars
  PROVE  /\ results' = results \/ \E w \in Workers : SaveResults(w)
         /\ reports' = reports \/ \E w \in Workers : SaveReport(w)
<1>1. results' = results \/ \E w \in Workers : SaveResults(w)
  BY SMTT(30)
  DEF Next, HandlerNext, WorkerNext, Trouble, vars, Submit, PutBank, PutPurchase,
     RegisterBatches, CreateJob, Dispatch, SyncGet, SyncFinish, HandlerFails,
     PollBeforeAnyJob, Take, MarkRunning, GetInputs, SaveCases, RecordDone, MarkSucceeded,
     SaveReport, RecordFailure, MarkFailed, Retry, Ack, Fault, KillChild, Redeliver, ApiCrash
<1>2. reports' = reports \/ \E w \in Workers : SaveReport(w)
  BY SMTT(60)
  DEF Next, HandlerNext, WorkerNext, Trouble, vars, Submit, PutBank, PutPurchase,
     RegisterBatches, CreateJob, Dispatch, SyncGet, SyncFinish, HandlerFails,
     PollBeforeAnyJob, Take, MarkRunning, GetInputs, SaveCases, RecordDone, MarkSucceeded,
     SaveResults, RecordFailure, MarkFailed, Retry, Ack, Fault, KillChild, Redeliver, ApiCrash
<1> QED BY <1>1, <1>2

\* Nothing is ever removed from the review cases, the audit file or the upload history.
LEMMA Growth ==
  ASSUME [Next]_vars
  PROVE  cases \subseteq cases' /\ audit \subseteq audit' /\ uploads \subseteq uploads'
<1>1. cases \subseteq cases'
  <2>1. cases' = cases \/ (\E r \in Requests : SyncFinish(r)) \/ (\E w \in Workers : SaveCases(w))
    BY SMTT(30)
    DEF Next, HandlerNext, WorkerNext, Trouble, vars, Submit, PutBank, PutPurchase,
       RegisterBatches, CreateJob, Dispatch, SyncGet, HandlerFails, PollBeforeAnyJob,
       Take, MarkRunning, GetInputs, RecordDone, MarkSucceeded, SaveResults, SaveReport,
       RecordFailure, MarkFailed, Retry, Ack, Fault, KillChild, Redeliver, ApiCrash
  <2> QED BY <2>1 DEF SyncFinish, SaveCases
<1>2. audit \subseteq audit'
  <2>1. \/ audit' = audit
        \/ \E r \in Requests : SyncFinish(r)
        \/ \E w \in Workers : RecordDone(w) \/ RecordFailure(w)
    BY SMTT(30)
    DEF Next, HandlerNext, WorkerNext, Trouble, vars, Submit, PutBank, PutPurchase,
       RegisterBatches, CreateJob, Dispatch, SyncGet, HandlerFails,
       PollBeforeAnyJob, Take, MarkRunning, GetInputs, SaveCases, MarkSucceeded,
       SaveResults, SaveReport, MarkFailed, Retry, Ack, Fault, KillChild, Redeliver,
       ApiCrash
  <2> QED BY <2>1 DEF SyncFinish, RecordDone, RecordFailure
<1>3. uploads \subseteq uploads'
  <2>1. uploads' = uploads \/ (\E r \in Requests : PutBank(r)) \/ (\E r \in Requests : PutPurchase(r))
    BY SMTT(30)
    DEF Next, HandlerNext, WorkerNext, Trouble, vars, Submit, RegisterBatches, CreateJob,
       Dispatch, SyncGet, SyncFinish, HandlerFails, PollBeforeAnyJob, Take, MarkRunning,
       GetInputs, SaveCases, RecordDone, MarkSucceeded, SaveResults, SaveReport,
       RecordFailure, MarkFailed, Retry, Ack, Fault, KillChild, Redeliver, ApiCrash
  <2> QED BY <2>1 DEF PutBank, PutPurchase, Put
<1> QED BY <1>1, <1>2, <1>3

\* A submission is fixed once its handler has begun.
LEMMA SubmissionsStand ==
  ASSUME TypeInv, [Next]_vars, NEW j \in Requests, hpc[j] # "new"
  PROVE  req'[j] = req[j]
<1>1. req' = req \/ \E r \in Requests : Submit(r)
  BY SMTT(30)
  DEF Next, HandlerNext, WorkerNext, Trouble, vars, PutBank, PutPurchase,
     RegisterBatches, CreateJob, Dispatch, SyncGet, SyncFinish, HandlerFails,
     PollBeforeAnyJob, Take, MarkRunning, GetInputs, SaveCases, RecordDone, MarkSucceeded,
     SaveResults, SaveReport, RecordFailure, MarkFailed, Retry, Ack, Fault, KillChild,
     Redeliver, ApiCrash
<1>2. ASSUME NEW r \in Requests, Submit(r) PROVE req'[j] = req[j]
  BY <1>2 DEF Submit, TypeInv, TypeOK
<1> QED BY <1>1, <1>2

\* A row keeps its contents, loses them, or receives what a worker has audited.
LEMMA RowChange ==
  ASSUME TypeInv, [Next]_vars, NEW j \in Requests, jobs'[j] # None
  PROVE  \/ jobs'[j] = jobs[j]
         \/ jobs'[j].status # "succeeded" /\ jobs'[j].result = None
         \/ \E w \in Workers : /\ wpc[w] = "markSucceeded" /\ JobOf(w) = j
                               /\ jobs'[j].status = "succeeded" /\ jobs'[j].result = read[w]
<1> USE DEF TypeInv, TypeOK
<1>1. ASSUME NEW r \in Requests, CreateJob(r)
      PROVE  jobs'[j] = jobs[j] \/ jobs'[j] = NewRow
  BY <1>1 DEF CreateJob
<1>2. ASSUME NEW w \in Workers, MarkRunning(w)
      PROVE  jobs'[j] = jobs[j] \/ (jobs'[j].status = "running" /\ jobs'[j].result = None)
  BY <1>2 DEF MarkRunning, UpdateJob
<1>3. ASSUME NEW w \in Workers, MarkFailed(w)
      PROVE  jobs'[j] = jobs[j] \/ (jobs'[j].status = "failed" /\ jobs'[j].result = None)
  BY <1>3 DEF MarkFailed, UpdateJob
<1>4. ASSUME NEW w \in Workers, MarkSucceeded(w)
      PROVE  \/ jobs'[j] = jobs[j]
             \/ /\ wpc[w] = "markSucceeded" /\ JobOf(w) = j
                /\ jobs'[j].status = "succeeded" /\ jobs'[j].result = read[w]
  BY <1>4 DEF MarkSucceeded, UpdateJob
<1>5. NewRow.status # "succeeded" /\ NewRow.result = None
  BY DEF NewRow
<1> QED BY <1>1, <1>2, <1>3, <1>4, <1>5, JobsWriters

\* Rows are never deleted, and a job that has one keeps its submission.
LEMMA RowsStand ==
  ASSUME TypeInv, [Next]_vars, NEW j \in Stored
  PROVE  j \in Stored' /\ req'[j] = req[j]
<1>1. req'[j] = req[j]
  BY SubmissionsStand DEF TypeInv, HandlersHaveSubmissions, Stored
<1>2. ASSUME NEW r \in Requests, CreateJob(r) PROVE jobs'[j] # None
  <2>1. NewRow # None
    BY NewRowType, ConstantsAssumption
  <2> QED BY <1>2, <2>1 DEF CreateJob, TypeInv, TypeOK, Stored
<1>3. ASSUME NEW w \in Workers, MarkRunning(w) \/ MarkSucceeded(w) \/ MarkFailed(w)
      PROVE  jobs'[j] # None
  <2>1. wpc[w] # "idle"
    BY <1>3 DEF MarkRunning, MarkSucceeded, MarkFailed
  <2>2. JobOf(w) \in Stored
    BY <2>1, ActiveJob
  <2>3. read[w] \in Pair \cup {None} \/ ~MarkSucceeded(w)
    BY ConstantsAssumption DEF MarkSucceeded, TypeInv, WorkerProgress, Executed
  <2> QED BY <1>3, <2>2, <2>3, UpdateKeepsRows
          DEF MarkRunning, MarkSucceeded, MarkFailed, Status, Stored
<1> QED BY <1>1, <1>2, <1>3, JobsWriters DEF Stored

-----------------------------------------------------------------------------
(* A success is backed by its cases and its audit event.                      *)

\* No step takes the backing of a success away or makes one without it.
LEMMA SuccessStep ==
  ASSUME TypeInv, SuccessIsBacked, [Next]_vars
  PROVE  SuccessIsBacked'
<1> SUFFICES ASSUME NEW j \in Requests, jobs'[j] # None, jobs'[j].status = "succeeded"
             PROVE  /\ jobs'[j].result \in Parsable
                    /\ CaseSet(req'[j].tenant, jobs'[j].result) \in cases'
                    /\ Event("completed", j, jobs'[j].result) \in audit'
  BY DEF SuccessIsBacked, Succeeded, Stored, TenantOf, CaseSet, Event
<1>1. CASE jobs'[j] = jobs[j]
  <2>1. j \in Stored
    BY <1>1 DEF Stored
  <2> QED BY <1>1, <2>1, RowsStand, Growth DEF SuccessIsBacked, Succeeded, TenantOf
<1>2. ASSUME NEW w \in Workers, wpc[w] = "markSucceeded", JobOf(w) = j,
             jobs'[j].result = read[w]
      PROVE  /\ jobs'[j].result \in Parsable
             /\ CaseSet(req'[j].tenant, jobs'[j].result) \in cases'
             /\ Event("completed", j, jobs'[j].result) \in audit'
  <2>1. j \in Stored
    BY <1>2, ActiveJob
  <2> QED BY <1>2, <2>1, RowsStand, Growth
          DEF TypeInv, WorkerProgress, Executed, Audited, TenantOf
<1> QED BY <1>1, <1>2, RowChange

(* Whatever is retried, killed, duplicated or crashed, a job that says         *)
(* succeeded has saved its review cases and audited exactly the result it      *)
(* carries.                                                                    *)
THEOREM SuccessBacked == Spec => []SuccessIsBacked
<1>1. Init => SuccessIsBacked
  BY DEF Init, SuccessIsBacked, Succeeded, Stored
<1>2. TypeInv /\ SuccessIsBacked /\ [Next]_vars => SuccessIsBacked'
  BY SuccessStep
<1> QED BY <1>1, <1>2, TypeInvariance, PTL DEF Spec

-----------------------------------------------------------------------------
(* Outputs: results, result rows and report of a job.                         *)

\* A new output of a job is what a worker that executes the job has audited.
LEMMA OutputChange ==
  ASSUME TypeInv, [Next]_vars, NEW j \in Requests, NEW pair \in Outputs(j)'
  PROVE  \/ pair \in Outputs(j)
         \/ \E w \in Workers : wpc[w] \in Audited /\ JobOf(w) = j /\ pair = read[w]
<1> DEFINE Written == \E w \in Workers : wpc[w] \in Audited /\ JobOf(w) = j /\ pair = read[w]
<1>0. pair # None
  BY DEF Outputs
<1>1. CASE pair = reports'[j]
  <2>1. ASSUME NEW w \in Workers, SaveReport(w)
        PROVE  reports'[j] = reports[j] \/ (wpc[w] \in Audited /\ JobOf(w) = j /\ reports'[j] = read[w])
    BY <2>1 DEF SaveReport, TypeInv, TypeOK, Audited, Executed
  <2> QED BY <1>0, <1>1, <2>1, OutputWriters DEF Outputs
<1>2. ASSUME NEW row \in results'[j], pair = row.pair
      PROVE  pair \in Outputs(j) \/ Written
  <2>1. ASSUME NEW w \in Workers, SaveResults(w)
        PROVE  row \in results[j] \/ (wpc[w] \in Audited /\ JobOf(w) = j /\ row.pair = read[w])
    BY <2>1 DEF SaveResults, TypeInv, TypeOK, Audited, Executed
  <2> QED BY <1>0, <1>2, <2>1, OutputWriters DEF Outputs
<1>3. CASE jobs'[j] # None /\ pair = jobs'[j].result
  <2>1. jobs'[j] = jobs[j] => pair \in Outputs(j)
    BY <1>0, <1>3 DEF Outputs, Stored
  <2> QED BY <1>0, <1>3, <2>1, RowChange DEF Audited, Executed
<1> QED BY <1>0, <1>1, <1>2, <1>3 DEF Outputs, Stored

\* Outputs are stored by workers, and a worker executes only jobs that have a row.
LEMMA OutputsHaveRowsStep ==
  ASSUME TypeInv, OutputsHaveRows, [Next]_vars
  PROVE  OutputsHaveRows'
<1> SUFFICES ASSUME NEW j \in Requests, results'[j] # {} \/ reports'[j] # None
             PROVE  j \in Stored'
  BY DEF OutputsHaveRows
<1>1. CASE results'[j] # {}
  <2>1. ASSUME NEW w \in Workers, SaveResults(w)
        PROVE  results'[j] = results[j] \/ (wpc[w] # "idle" /\ JobOf(w) = j)
    BY <2>1 DEF SaveResults, TypeInv, TypeOK
  <2> QED BY <1>1, <2>1, OutputWriters, ActiveJob, RowsStand DEF OutputsHaveRows
<1>2. CASE reports'[j] # None
  <2>1. ASSUME NEW w \in Workers, SaveReport(w)
        PROVE  reports'[j] = reports[j] \/ (wpc[w] # "idle" /\ JobOf(w) = j)
    BY <2>1 DEF SaveReport, TypeInv, TypeOK
  <2> QED BY <1>2, <2>1, OutputWriters, ActiveJob, RowsStand DEF OutputsHaveRows
<1> QED BY <1>1, <1>2

(* Every output ever stored for a job, by whichever attempt, was audited as    *)
(* completed with the same contents.                                           *)
THEOREM OutputsAudited == Spec => []OutputsAreAudited
<1>1. Init => OutputsAreAudited
  BY DEF Init, OutputsAreAudited, Outputs, Stored
<1>2. ASSUME TypeInv, OutputsAreAudited, [Next]_vars PROVE OutputsAreAudited'
  <2> SUFFICES ASSUME NEW j \in Requests, NEW pair \in Outputs(j)'
               PROVE  Event("completed", j, pair) \in audit'
    BY DEF OutputsAreAudited, Event
  <2>1. CASE pair \in Outputs(j)
    BY <1>2, <2>1, Growth DEF OutputsAreAudited
  <2>2. ASSUME NEW w \in Workers, wpc[w] \in Audited, JobOf(w) = j, pair = read[w]
        PROVE  Event("completed", j, pair) \in audit'
    BY <1>2, <2>2, Growth DEF TypeInv, WorkerProgress
  <2> QED BY <1>2, <2>1, <2>2, OutputChange
<1> QED BY <1>1, <1>2, TypeInvariance, PTL DEF Spec

-----------------------------------------------------------------------------
(* Where outputs come from.                                                   *)

\* Whatever is in the object store was put there by a submission, under its own key.
LEMMA ObjectsStep ==
  ASSUME TypeInv, ObjectsUploaded, [Next]_vars
  PROVE  ObjectsUploaded'
<1>1. ASSUME NEW r \in Requests, NEW src \in Sources, Put(r, src) PROVE ObjectsUploaded'
  <2> SUFFICES ASSUME NEW t \in Tenants, NEW s \in Sources, NEW n \in Names,
                      objects'[<<t, s, n>>] # None
               PROVE  Upload(t, s, n, objects'[<<t, s, n>>]) \in uploads'
    BY DEF ObjectsUploaded, Upload
  <2>1. <<t, s, n>> \in ObjectKey
    BY DEF ObjectKey
  <2>2. CASE <<t, s, n>> = ObjKey(r, src)
    <3>1. t = req[r].tenant /\ s = src /\ n = req[r].name
      BY <2>2 DEF ObjKey
    <3>2. objects'[<<t, s, n>>] = req[r].file[src]
      BY <1>1, <2>1, <2>2 DEF Put, TypeInv, TypeOK
    <3> QED BY <1>1, <3>1, <3>2 DEF Put, TenantOf
  <2>3. CASE <<t, s, n>> # ObjKey(r, src)
    BY <1>1, <2>1, <2>3 DEF Put, TypeInv, TypeOK, ObjectsUploaded
  <2> QED BY <2>2, <2>3
<1>2. UNCHANGED <<objects, uploads>> \/ \E r \in Requests : PutBank(r) \/ PutPurchase(r)
  BY SMTT(30)
  DEF Next, HandlerNext, WorkerNext, Trouble, vars, Submit,
     RegisterBatches, CreateJob, Dispatch, SyncGet, SyncFinish, HandlerFails,
     PollBeforeAnyJob, Take, MarkRunning, GetInputs, SaveCases, RecordDone, MarkSucceeded,
     SaveResults, SaveReport, RecordFailure, MarkFailed, Retry, Ack, Fault, KillChild,
     Redeliver, ApiCrash
<1>3. UNCHANGED <<objects, uploads>> => ObjectsUploaded'
  BY DEF ObjectsUploaded
<1> QED BY <1>1, <1>2, <1>3 DEF PutBank, PutPurchase, Sources

\* A worker starts with nothing read, reads its job's objects, and forgets at the end.
LEMMA ReadsChange ==
  ASSUME TypeInv, [Next]_vars, NEW w \in Workers
  PROVE  \/ /\ read'[w] = read[w] /\ task'[w] = task[w]
            /\ wpc[w] = "idle" <=> wpc'[w] = "idle"
         \/ wpc'[w] = "idle" /\ read'[w] = NothingRead
         \/ wpc[w] = "idle" /\ read'[w] = read[w]
         \/ /\ task'[w] = task[w] /\ wpc[w] # "idle" /\ wpc'[w] # "idle"
            /\ \E s \in Sources : Get(w, JobOf(w), s)
<1> USE DEF TypeInv, TypeOK
<1> DEFINE Same == /\ read'[w] = read[w] /\ task'[w] = task[w]
                   /\ wpc[w] = "idle" <=> wpc'[w] = "idle"
           Gone == wpc'[w] = "idle" /\ read'[w] = NothingRead
           Taken == wpc[w] = "idle" /\ read'[w] = read[w]
           Reads == /\ task'[w] = task[w] /\ wpc[w] # "idle" /\ wpc'[w] # "idle"
                    /\ \E s \in Sources : Get(w, JobOf(w), s)
<1>1. ASSUME NEW r \in Requests, HandlerNext(r) PROVE Same
  <2>1. CASE SyncGet(r)
    <3>1. r # w
      BY ConstantsAssumption
    <3>2. read'[w] = read[w]
      BY <2>1, <3>1 DEF SyncGet, Get
    <3> QED BY <2>1, <3>2 DEF SyncGet
  <2> QED BY <1>1, <2>1 DEF HandlerNext, Submit, PutBank, PutPurchase, RegisterBatches,
          CreateJob, Dispatch, SyncFinish
<1>2. ASSUME NEW v \in Workers, WorkerNext(v) PROVE Same \/ Gone \/ Taken \/ Reads
  <2>1. CASE Take(v)
    BY <2>1 DEF Take
  <2>2. CASE GetInputs(v)
    <3>1. CASE v = w
      BY <2>2, <3>1 DEF GetInputs, Sources
    <3>2. CASE v # w
      BY <2>2, <3>2 DEF GetInputs, Get
    <3> QED BY <3>1, <3>2
  <2>3. CASE Ack(v)
    BY <2>3 DEF Ack, Release
  <2>4. CASE MarkRunning(v) \/ SaveCases(v) \/ RecordDone(v) \/ MarkSucceeded(v)
    BY <2>4 DEF MarkRunning, SaveCases, RecordDone, MarkSucceeded
  <2>5. CASE SaveResults(v) \/ SaveReport(v) \/ RecordFailure(v) \/ MarkFailed(v) \/ Retry(v)
    BY <2>5 DEF SaveResults, SaveReport, RecordFailure, MarkFailed, Retry
  <2> QED BY <1>2, <2>1, <2>2, <2>3, <2>4, <2>5 DEF WorkerNext
<1>3. ASSUME NEW r \in Requests, HandlerFails(r) PROVE Same
  BY <1>3 DEF HandlerFails
<1>4. ASSUME NEW v \in Workers, Fault(v) \/ KillChild(v) \/ Redeliver(v) PROVE Same \/ Gone
  <2>1. CASE Fault(v)
    BY <2>1 DEF Fault, InTry
  <2>2. CASE KillChild(v)
    BY <2>2 DEF KillChild, Release
  <2>3. CASE Redeliver(v)
    BY <2>3 DEF Redeliver, Release
  <2> QED BY <1>4, <2>1, <2>2, <2>3
<1>5. ApiCrash => Gone
  BY DEF ApiCrash
<1>6. PollBeforeAnyJob \/ UNCHANGED vars => Same
  BY DEF PollBeforeAnyJob, vars
<1> QED BY <1>1, <1>2, <1>3, <1>4, <1>5, <1>6 DEF Next, Trouble

\* What a worker holds was put under the keys of the job it executes.
LEMMA ReadsStep ==
  ASSUME TypeInv, ObjectsUploaded, ReadsUploaded, [Next]_vars
  PROVE  ReadsUploaded'
<1> USE DEF ReadsUploaded
<1> SUFFICES ASSUME NEW w \in Workers
             PROVE  /\ wpc'[w] = "idle" => read'[w] = NothingRead
                    /\ wpc'[w] # "idle" => \A s \in Sources : read'[w][s] # None =>
                         Upload(req'[task'[w].job].tenant, s, req'[task'[w].job].name,
                                read'[w][s]) \in uploads'
  BY DEF Upload, JobOf, TenantOf, NothingRead
<1>1. CASE /\ read'[w] = read[w] /\ task'[w] = task[w] /\ (wpc[w] = "idle" <=> wpc'[w] = "idle")
  <2>1. CASE wpc[w] = "idle"
    BY <1>1, <2>1
  <2>2. CASE wpc[w] # "idle"
    <3>1. JobOf(w) \in Stored /\ req'[JobOf(w)] = req[JobOf(w)]
      BY <2>2, ActiveJob, RowsStand
    <3> QED BY <1>1, <2>2, <3>1, Growth DEF JobOf, TenantOf
  <2> QED BY <2>1, <2>2
<1>2. CASE wpc'[w] = "idle" /\ read'[w] = NothingRead
  BY <1>2
<1>3. CASE wpc[w] = "idle" /\ read'[w] = read[w]
  BY <1>3 DEF NothingRead
<1>4. CASE /\ task'[w] = task[w] /\ wpc[w] # "idle" /\ wpc'[w] # "idle"
           /\ \E s \in Sources : Get(w, JobOf(w), s)
  <2>1. PICK src \in Sources : Get(w, JobOf(w), src)
    BY <1>4
  <2>2. JobOf(w) \in Stored /\ req'[JobOf(w)] = req[JobOf(w)]
    BY <1>4, ActiveJob, RowsStand
  <2>3. req[JobOf(w)] \in Request
    BY <2>2 DEF TypeInv, TypeOK, HandlersHaveSubmissions, Stored
  <2>4. req[JobOf(w)].tenant \in Tenants /\ req[JobOf(w)].name \in Names
    BY <2>3 DEF Request
  <2>5. ASSUME NEW s \in Sources, read'[w][s] # None
        PROVE  Upload(req[JobOf(w)].tenant, s, req[JobOf(w)].name, read'[w][s]) \in uploads
    <3>1. read[w] \in [Sources -> Contents \cup {None}]
      BY DEF TypeInv, TypeOK
    <3>2. read'[w] = [read[w] EXCEPT ![src] = objects[ObjKey(JobOf(w), src)]]
      BY <2>1 DEF Get, TypeInv, TypeOK
    <3>3. CASE s = src
      BY <2>4, <2>5, <3>1, <3>2, <3>3 DEF ObjKey, ObjectsUploaded
    <3>4. CASE s # src
      BY <1>4, <2>5, <3>1, <3>2, <3>4 DEF TenantOf
    <3> QED BY <3>3, <3>4
  <2>6. task'[w].job = JobOf(w)
    BY <1>4 DEF JobOf
  <2> QED BY <1>4, <2>2, <2>5, <2>6, Growth
<1> QED BY <1>1, <1>2, <1>3, <1>4, ReadsChange

\* So is everything it stores for that job.
LEMMA OutputsStep ==
  ASSUME TypeInv, ReadsUploaded, OutputsHaveRows, OutputsComeFromOwnKeys, [Next]_vars
  PROVE  OutputsComeFromOwnKeys'
<1> SUFFICES ASSUME NEW j \in Requests, NEW pair \in Outputs(j)', NEW s \in Sources
             PROVE  Upload(req'[j].tenant, s, req'[j].name, pair[s]) \in uploads'
  BY DEF OutputsComeFromOwnKeys, Upload, TenantOf
<1>1. CASE pair \in Outputs(j)
  <2>1. j \in Stored
    BY <1>1 DEF Outputs, OutputsHaveRows
  <2> QED BY <1>1, <2>1, RowsStand, Growth DEF OutputsComeFromOwnKeys, TenantOf
<1>2. ASSUME NEW w \in Workers, wpc[w] \in Audited, JobOf(w) = j, pair = read[w]
      PROVE  Upload(req'[j].tenant, s, req'[j].name, pair[s]) \in uploads'
  <2>1. wpc[w] # "idle" /\ j \in Stored
    BY <1>2, ActiveJob DEF Audited, Executed
  <2>2. read[w] \in Pair
    BY <1>2, ConstantsAssumption DEF TypeInv, WorkerProgress, Audited
  <2>3. read[w][s] # None
    BY <2>2, ConstantsAssumption DEF Pair
  <2> QED BY <1>2, <2>1, <2>3, RowsStand, Growth DEF ReadsUploaded, TenantOf
<1> QED BY <1>1, <1>2, OutputChange

(* No attempt of any job ever stores a result, a result row or a report that   *)
(* was computed from contents other than ones put under that job's own tenant, *)
(* source and file name.                                                       *)
THEOREM OutputsFromOwnKeys == Spec => []OutputsComeFromOwnKeys
<1> DEFINE Prov == ObjectsUploaded /\ ReadsUploaded /\ OutputsHaveRows /\ OutputsComeFromOwnKeys
<1>1. Init => Prov
  BY DEF Init, ObjectsUploaded, ReadsUploaded, OutputsHaveRows, OutputsComeFromOwnKeys,
     Outputs, Stored, NothingRead, ObjectKey
<1>2. TypeInv /\ Prov /\ [Next]_vars => Prov'
  BY ObjectsStep, ReadsStep, OutputsHaveRowsStep, OutputsStep
<1>3. Prov => OutputsComeFromOwnKeys
  OBVIOUS
<1> QED BY <1>1, <1>2, <1>3, TypeInvariance, PTL DEF Spec

(* A job whose objects nobody replaced reports on the files it was given.      *)
THEOREM UndisturbedOutputs == Spec => []UndisturbedOutputsAreOwn
<1>1. TypeInv /\ OutputsAreAudited /\ OutputsComeFromOwnKeys => UndisturbedOutputsAreOwn
  <2> SUFFICES ASSUME TypeInv, OutputsAreAudited, OutputsComeFromOwnKeys, NEW j \in Stored,
                      \A u \in uploads : u.tenant = TenantOf(j) /\ u.name = req[j].name
                                           => u.content = req[j].file[u.source],
                      NEW pair \in Outputs(j)
               PROVE  pair = req[j].file
    BY DEF UndisturbedOutputsAreOwn
  <2>1. j \in Requests /\ req[j] \in Request
    BY DEF TypeInv, TypeOK, HandlersHaveSubmissions, Stored
  <2>2. ASSUME NEW s \in Sources PROVE pair[s] = req[j].file[s]
    <3>1. Upload(TenantOf(j), s, req[j].name, pair[s]) \in uploads
      BY <2>1 DEF OutputsComeFromOwnKeys
    <3> QED BY <3>1 DEF Upload
  <2>3. req[j].file \in Pair
    BY <2>1, ConstantsAssumption DEF Request
  <2>4. pair \in Pair
    <3>1. Event("completed", j, pair) \in AuditEvent
      BY <2>1 DEF OutputsAreAudited, TypeInv, TypeOK
    <3>2. pair \in Pair \cup {None}
      BY <3>1 DEF Event, AuditEvent
    <3> QED BY <3>2 DEF Outputs
  <2> QED BY <2>2, <2>3, <2>4 DEF Pair
<1> QED BY <1>1, TypeInvariance, OutputsAudited, OutputsFromOwnKeys, PTL

-----------------------------------------------------------------------------
(* One job per idempotency key.                                               *)

\* A table without the constraint never gets it.
LEMMA ConstrainedBefore ==
  ASSUME [Next]_vars, Constrained'
  PROVE  Constrained
BY DEF Constrained, Next, HandlerNext, WorkerNext, Trouble, vars, Submit, PutBank,
   PutPurchase, RegisterBatches, CreateJob, TableAfterCreate, Dispatch, SyncGet,
   SyncFinish, HandlerFails, PollBeforeAnyJob, Take, MarkRunning, GetInputs, SaveCases,
   RecordDone, MarkSucceeded, SaveResults, SaveReport, RecordFailure, MarkFailed, Retry,
   Ack, Fault, KillChild, Redeliver, ApiCrash

\* Only create_job adds rows, and not for a key that has one.
LEMMA OneJobStep ==
  ASSUME TypeInv, OneJobPerKeyIfConstrained, [Next]_vars
  PROVE  OneJobPerKeyIfConstrained'
<1> SUFFICES ASSUME Constrained', NEW i \in Stored', NEW j \in Stored',
                    req'[i].key # None, req'[i].key = req'[j].key,
                    req'[i].tenant = req'[j].tenant
             PROVE  i = j
  BY DEF OneJobPerKeyIfConstrained, OneJobPerKey, TenantOf
<1>1. Constrained
  BY ConstrainedBefore
<1>2. CASE i \in Stored /\ j \in Stored
  BY <1>1, <1>2, RowsStand DEF OneJobPerKeyIfConstrained, OneJobPerKey, TenantOf
<1>3. ASSUME NEW r \in Requests, CreateJob(r), r \notin Stored
      PROVE  i = j
  <2>1. CASE req[r].key = None \/ SameKey(r) = {}
    <3>1. Stored' \subseteq Stored \cup {r} /\ req' = req
      BY <1>3 DEF CreateJob, Stored, TypeInv, TypeOK
    <3>2. ASSUME NEW k \in Stored PROVE ~(/\ req[k].key = req[r].key /\ req[r].key # None
                                          /\ req[k].tenant = req[r].tenant)
      BY <2>1, <3>2 DEF SameKey
    <3> QED BY <1>2, <3>1, <3>2
  <2>2. CASE ~(req[r].key = None \/ SameKey(r) = {})
    BY <1>1, <1>2, <1>3, <2>2 DEF CreateJob, Constrained, Stored
  <2> QED BY <2>1, <2>2
<1>4. ASSUME Stored' = Stored PROVE i = j
  BY <1>2, <1>4
<1>5. ASSUME NEW w \in Workers, MarkRunning(w) \/ MarkSucceeded(w) \/ MarkFailed(w)
      PROVE  Stored' = Stored
  <2>1. wpc[w] # "idle" /\ JobOf(w) \in Stored
    BY <1>5, ActiveJob DEF MarkRunning, MarkSucceeded, MarkFailed
  <2>2. MarkSucceeded(w) => read[w] \in Pair \cup {None}
    BY ConstantsAssumption DEF MarkSucceeded, TypeInv, WorkerProgress, Executed
  <2> QED BY <1>5, <2>1, <2>2, UpdateKeepsRows DEF MarkRunning, MarkSucceeded, MarkFailed, Status
<1>6. \A r \in Requests : CreateJob(r) => r \notin Stored
  BY DEF CreateJob, TypeInv, HandlersHaveSubmissions
<1> QED BY <1>3, <1>4, <1>5, <1>6, JobsWriters DEF Stored

(* While the table of SQLite was made by create_job, and always in PostgreSQL, *)
(* no interleaving of submissions, crashes and polls makes a second row for a  *)
(* tenant's idempotency key.                                                   *)
THEOREM OneJobWhileConstrained == Spec => []OneJobPerKeyIfConstrained
<1>1. Init => OneJobPerKeyIfConstrained
  BY DEF Init, OneJobPerKeyIfConstrained, OneJobPerKey, Stored
<1> QED BY <1>1, OneJobStep, TypeInvariance, PTL DEF Spec

(* With PostgreSQL the constraint is never missing.                            *)
THEOREM OneJobInPostgres ==
  ASSUME Store = "postgres"
  PROVE  Spec => []OneJobPerKey
<1> DEFINE Unique == jobsTable = "unique"
<1>1. Init => Unique
  BY DEF Init
<1>2. Unique /\ [Next]_vars => Unique'
  BY SMTT(30)
  DEF Next, HandlerNext, WorkerNext, Trouble, vars, Submit, PutBank,
     PutPurchase, RegisterBatches, CreateJob, TableAfterCreate, Dispatch, SyncGet,
     SyncFinish, HandlerFails, PollBeforeAnyJob, Take, MarkRunning, GetInputs, SaveCases,
     RecordDone, MarkSucceeded, SaveResults, SaveReport, RecordFailure, MarkFailed, Retry,
     Ack, Fault, KillChild, Redeliver, ApiCrash
<1>3. Unique /\ OneJobPerKeyIfConstrained => OneJobPerKey
  BY DEF OneJobPerKeyIfConstrained, Constrained
<1> QED BY <1>1, <1>2, <1>3, OneJobWhileConstrained, PTL DEF Spec

-----------------------------------------------------------------------------
(* An unsettled job always has a carrier.                                     *)

\* A pending or running attempt stays one until it settles the job or reports on it.
LEMMA AttemptPersists ==
  ASSUME TypeInv, [Next]_vars, NEW j \in Stored, NEW steps \in {Undecided, InFlight},
         Waits(j) \/ Attempted(j, steps)
  PROVE  \/ Waits(j)' \/ Attempted(j, steps)'
         \/ jobs'[j] # None /\ jobs'[j].status = "failed"
         \/ steps = Undecided /\ jobs'[j] # None /\ jobs'[j].status = "succeeded"
         \/ steps = InFlight /\ \E w \in Workers : SaveReport(w) /\ JobOf(w) = j
<1> USE DEF TypeInv, TypeOK
<1> DEFINE Kept == \/ Waits(j)' \/ Attempted(j, steps)'
                   \/ jobs'[j] # None /\ jobs'[j].status = "failed"
                   \/ steps = Undecided /\ jobs'[j] # None /\ jobs'[j].status = "succeeded"
                   \/ steps = InFlight /\ \E w \in Workers : SaveReport(w) /\ JobOf(w) = j
<1>a. j \in Requests
  BY DEF Stored
<1>b. jobs'[j] # None
  BY RowsStand DEF Stored
    \* The attempts of other workers and the waiting messages are left alone.
<1>c. ASSUME NEW v \in Workers,
             \A u \in Workers \ {v} : wpc'[u] = wpc[u] /\ task'[u] = task[u],
             queue \subseteq queue', hpc' = hpc, abandoned \subseteq abandoned',
             wpc[v] \in steps /\ JobOf(v) = j => Kept
      PROVE  Kept
  BY <1>c DEF Waits, Attempted, JobOf
<1>1. ASSUME NEW r \in Requests, HandlerNext(r) PROVE Kept
  <2>1. Attempted(j, steps) => Attempted(j, steps)'
    BY <1>1 DEF Attempted, JobOf, HandlerNext, Submit, PutBank, PutPurchase,
       RegisterBatches, CreateJob, Dispatch, SyncGet, SyncFinish
  <2>2. CASE Dispatch(r)
    <3>1. [job |-> r, retries |-> 0, copy |-> 0] \in queue'
      BY <2>2 DEF Dispatch
    <3>2. queue \subseteq queue' /\ abandoned' = abandoned
      BY <2>2 DEF Dispatch
    <3>3. j # r => hpc'[j] = hpc[j]
      BY <1>a, <2>2 DEF Dispatch
    <3>4. Waits(j) => Waits(j)'
      <4>1. CASE j = r
        BY <3>1, <4>1 DEF Waits
      <4>2. CASE j # r
        BY <3>2, <3>3, <4>2 DEF Waits
      <4> QED BY <4>1, <4>2
    <3> QED BY <2>1, <3>4
  <2>3. CASE ~Dispatch(r)
    <3>1. UNCHANGED <<queue, abandoned>> /\ (hpc[j] = "dispatch" => hpc'[j] = "dispatch")
      BY <1>a, <1>1, <2>3 DEF HandlerNext, Submit, PutBank, PutPurchase,
         RegisterBatches, CreateJob, SyncGet, SyncFinish
    <3> QED BY <2>1, <3>1 DEF Waits
  <2> QED BY <2>2, <2>3
<1>2. ASSUME NEW w \in Workers, WorkerNext(w) PROVE Kept
  <2>1. CASE Take(w)
    <3>1. PICK m \in queue : queue' = queue \ {m} /\ task' = [task EXCEPT ![w] = m]
      BY <2>1 DEF Take
    <3>2. Attempted(j, steps) => Attempted(j, steps)'
      BY <2>1, <3>1 DEF Take, Attempted, JobOf, Undecided, InFlight
    <3>3. CASE m.job = j
      BY <2>1, <3>1, <3>3 DEF Take, Attempted, JobOf, Undecided, InFlight
    <3>4. CASE m.job # j
      BY <2>1, <3>1, <3>2, <3>4 DEF Take, Waits
    <3> QED BY <3>3, <3>4
  <2>2. CASE MarkRunning(w) \/ GetInputs(w) \/ SaveCases(w) \/ RecordDone(w) \/ RecordFailure(w)
             \/ MarkFailed(w)
    <3>1. /\ \A u \in Workers \ {w} : wpc'[u] = wpc[u] /\ task'[u] = task[u]
          /\ queue' = queue /\ hpc' = hpc /\ abandoned' = abandoned /\ task' = task
          /\ wpc'[w] \in Undecided
      BY <2>2 DEF MarkRunning, GetInputs, SaveCases, RecordDone, RecordFailure, MarkFailed,
         Undecided
    <3>2. wpc'[w] \in steps
      BY <3>1 DEF InFlight
    <3> QED BY <1>c, <3>1, <3>2 DEF Attempted, JobOf
  <2>3. CASE MarkSucceeded(w)
    <3>1. JobOf(w) = j => jobs'[j].status = "succeeded"
      BY <1>a, <2>3 DEF MarkSucceeded, UpdateJob
    <3>2. steps = InFlight => wpc'[w] \in steps
      BY <2>3 DEF MarkSucceeded, InFlight
    <3>3. /\ \A u \in Workers \ {w} : wpc'[u] = wpc[u] /\ task'[u] = task[u]
          /\ queue' = queue /\ hpc' = hpc /\ abandoned' = abandoned /\ task' = task
      BY <2>3 DEF MarkSucceeded
    <3> QED BY <1>b, <1>c, <3>1, <3>2, <3>3 DEF Attempted, JobOf
  <2>4. CASE SaveResults(w)
    <3>1. /\ wpc[w] \notin Undecided /\ wpc'[w] \in InFlight /\ task' = task
          /\ \A u \in Workers \ {w} : wpc'[u] = wpc[u]
          /\ queue' = queue /\ hpc' = hpc /\ abandoned' = abandoned
      BY <2>4 DEF SaveResults, Undecided, InFlight
    <3> QED BY <1>c, <3>1 DEF Attempted, JobOf
  <2>5. CASE SaveReport(w)
    <3>1. /\ wpc[w] \notin Undecided /\ task' = task
          /\ \A u \in Workers \ {w} : wpc'[u] = wpc[u]
          /\ queue' = queue /\ hpc' = hpc /\ abandoned' = abandoned
      BY <2>5 DEF SaveReport, Undecided
    <3>2. steps = Undecided \/ steps = InFlight
      OBVIOUS
    <3> QED BY <1>c, <2>5, <3>1, <3>2
  <2>6. CASE Retry(w)
    <3>1. /\ \A u \in Workers \ {w} : wpc'[u] = wpc[u]
          /\ queue \subseteq queue' /\ hpc' = hpc /\ task' = task
          /\ abandoned \subseteq abandoned' /\ jobs' = jobs
      BY <2>6 DEF Retry
    <3>2. ASSUME JobOf(w) = j PROVE Kept
      <4>1. CASE CanRetry(task[w])
        <5>1. task[w] \in Message
          BY <2>6, ActiveJob DEF Retry
        <5>2. [task[w] EXCEPT !.retries = @ + 1].job = j
          BY <3>2, <5>1 DEF Message, JobOf
        <5> QED BY <2>6, <4>1, <5>2 DEF Retry, Waits
      <4>2. CASE ~CanRetry(task[w])
        BY <1>b, <2>6, <3>1, <3>2, <4>2 DEF Retry, Waits
      <4> QED BY <4>1, <4>2
    <3> QED BY <1>c, <3>1, <3>2
  <2>7. CASE Ack(w)
    <3>1. /\ \A u \in Workers \ {w} : wpc'[u] = wpc[u] /\ task'[u] = task[u]
          /\ queue' = queue /\ hpc' = hpc /\ abandoned' = abandoned
          /\ wpc[w] \notin Undecided /\ wpc[w] \notin InFlight
      BY <2>7 DEF Ack, Release, Undecided, InFlight
    <3> QED BY <1>c, <3>1
  <2> QED BY <1>2, <2>1, <2>2, <2>3, <2>4, <2>5, <2>6, <2>7 DEF WorkerNext
<1>3. ASSUME NEW r \in Requests, HandlerFails(r) PROVE Kept
  BY <1>a, <1>3 DEF HandlerFails, Waits, Attempted, JobOf
<1>4. ASSUME NEW w \in Workers, Fault(w) PROVE Kept
  <2>1. wpc'[w] \in Undecided /\ wpc'[w] \in InFlight
    BY <1>4 DEF Fault, InTry, Undecided, InFlight
  <2>2. /\ \A u \in Workers \ {w} : wpc'[u] = wpc[u]
        /\ queue' = queue /\ hpc' = hpc /\ abandoned' = abandoned /\ task' = task
    BY <1>4 DEF Fault
  <2> QED BY <1>c, <2>1, <2>2 DEF Attempted, JobOf
<1>5. ASSUME NEW w \in Workers, KillChild(w) PROVE Kept
  <2>1. /\ \A u \in Workers \ {w} : wpc'[u] = wpc[u] /\ task'[u] = task[u]
        /\ queue' = queue /\ hpc' = hpc /\ abandoned' = abandoned \cup {JobOf(w)}
    BY <1>5 DEF KillChild, Release
  <2> QED BY <1>c, <2>1 DEF Waits
<1>6. ASSUME NEW w \in Workers, Redeliver(w) PROVE Kept
  <2>1. task[w] \in Message
    BY <1>6 DEF Redeliver
  <2>2. [task[w] EXCEPT !.copy = redeliveries + 1].job = JobOf(w)
    BY <2>1 DEF Message, JobOf
  <2>3. /\ \A u \in Workers \ {w} : wpc'[u] = wpc[u] /\ task'[u] = task[u]
        /\ queue \subseteq queue' /\ hpc' = hpc /\ abandoned' = abandoned
    BY <1>6 DEF Redeliver, Release
  <2>4. JobOf(w) = j => Waits(j)'
    BY <1>6, <2>2 DEF Redeliver, Waits
  <2> QED BY <1>c, <2>3, <2>4
<1>7. ASSUME ApiCrash PROVE Kept
  <2>1. j \in Unfinished \cup abandoned
    BY <1>a DEF Waits, Attempted, Unfinished, Undecided, InFlight, CarriedJobsHaveRows
  <2> QED BY <1>7, <2>1 DEF ApiCrash, Waits
<1>8. ASSUME PollBeforeAnyJob \/ UNCHANGED vars PROVE Kept
  BY <1>8 DEF PollBeforeAnyJob, vars, Waits, Attempted, JobOf
<1> QED BY <1>1, <1>2, <1>3, <1>4, <1>5, <1>6, <1>7, <1>8 DEF Next, Trouble

\* A row that becomes unsettled was just created or is being attempted.
LEMMA UnsettledStep ==
  ASSUME TypeInv, UnsettledHasAttempt, [Next]_vars
  PROVE  UnsettledHasAttempt'
<1> SUFFICES ASSUME Constrained', NEW j \in Stored',
                    jobs'[j].status \notin {"succeeded", "failed"}
             PROVE  Waits(j)' \/ Attempted(j, Undecided)'
  BY DEF UnsettledHasAttempt, Settled
<1>1. Constrained
  BY ConstrainedBefore
<1>a. j \in Requests
  BY DEF Stored
<1>b. InFlight # Undecided
  BY DEF InFlight, Undecided
<1>2. CASE j \in Stored /\ ~Settled(j)
  <2>1. Waits(j) \/ Attempted(j, Undecided)
    BY <1>1, <1>2 DEF UnsettledHasAttempt
  <2> QED BY <1>b, <1>2, <2>1, AttemptPersists
<1>3. CASE jobs'[j] = jobs[j]
  BY <1>2, <1>3 DEF Stored, Settled
<1>4. ASSUME NEW r \in Requests, CreateJob(r), jobs'[j] # jobs[j]
      PROVE  Waits(j)'
  <2>1. req[r].key = None \/ SameKey(r) = {}
    BY <1>1, <1>4 DEF CreateJob, Constrained
  <2>2. j = r /\ hpc'[r] = "dispatch"
    BY <1>a, <1>4, <2>1 DEF CreateJob, TypeInv, TypeOK
  <2> QED BY <2>2 DEF Waits
<1>5. ASSUME NEW w \in Workers, MarkRunning(w), jobs'[j] # jobs[j]
      PROVE  Attempted(j, Undecided)'
  BY <1>a, <1>5 DEF MarkRunning, UpdateJob, Attempted, JobOf, Undecided, TypeInv, TypeOK
<1>6. ASSUME NEW w \in Workers, MarkSucceeded(w) \/ MarkFailed(w), jobs'[j] # jobs[j]
      PROVE  FALSE
  BY <1>a, <1>6 DEF MarkSucceeded, MarkFailed, UpdateJob, TypeInv, TypeOK
<1> QED BY <1>3, <1>4, <1>5, <1>6, JobsWriters

(* No job is forgotten: whatever interleaving of handlers, retries, kills and  *)
(* redeliveries, an unsettled job is in the queue or in somebody's hands, or   *)
(* its last carrier died.                                                      *)
THEOREM UnsettledCarried == Spec => []UnsettledIsCarried
<1>1. Init => UnsettledHasAttempt
  BY DEF Init, UnsettledHasAttempt, Stored
<1>2. TypeInv /\ UnsettledHasAttempt => UnsettledIsCarried
  <2> SUFFICES ASSUME TypeInv, UnsettledHasAttempt, Constrained, NEW j \in Stored, ~Settled(j)
               PROVE  j \in Unfinished \cup abandoned
    BY DEF UnsettledIsCarried
  <2>1. Waits(j) \/ Attempted(j, Undecided)
    BY DEF UnsettledHasAttempt
  <2> QED BY <2>1 DEF Waits, Attempted, Unfinished, Undecided, TypeInv, CarriedJobsHaveRows, Stored
<1> QED BY <1>1, <1>2, UnsettledStep, TypeInvariance, PTL DEF Spec

\* A success without a report is still being worked on, or waits to be.
LEMMA UnreportedStep ==
  ASSUME TypeInv, UnreportedHasAttempt, [Next]_vars
  PROVE  UnreportedHasAttempt'
<1> SUFFICES ASSUME NEW j \in Requests, jobs'[j] # None, jobs'[j].status = "succeeded",
                    reports'[j] = None
             PROVE  Waits(j)' \/ Attempted(j, InFlight)'
  BY DEF UnreportedHasAttempt, Succeeded, Stored
<1>0. ASSUME NEW w \in Workers, SaveReport(w) PROVE reports[j] = None /\ JobOf(w) # j
  <2>1. read[w] # None
    BY <1>0, ConstantsAssumption DEF SaveReport, TypeInv, WorkerProgress, Executed
  <2> QED BY <1>0, <2>1 DEF SaveReport, TypeInv, TypeOK
<1>1. reports[j] = None
  BY <1>0, OutputWriters
<1>2. CASE jobs'[j] = jobs[j]
  <2>1. j \in Stored /\ Succeeded(j)
    BY <1>2 DEF Stored, Succeeded
  <2>2. Waits(j) \/ Attempted(j, InFlight)
    BY <1>1, <2>1 DEF UnreportedHasAttempt
  <2>3. InFlight # Undecided
    BY DEF InFlight, Undecided
  <2> QED BY <1>0, <2>1, <2>2, <2>3, AttemptPersists
<1>3. ASSUME NEW w \in Workers, MarkSucceeded(w), JobOf(w) = j PROVE Attempted(j, InFlight)'
  BY <1>3 DEF MarkSucceeded, Attempted, JobOf, InFlight, TypeInv, TypeOK
<1>4. ASSUME NEW w \in Workers, MarkSucceeded(w), JobOf(w) # j PROVE jobs'[j] = jobs[j]
  BY <1>4 DEF MarkSucceeded, UpdateJob, TypeInv, TypeOK
<1>5. ASSUME NEW w \in Workers, MarkRunning(w) \/ MarkFailed(w) PROVE jobs'[j] = jobs[j]
  BY <1>5 DEF MarkRunning, MarkFailed, UpdateJob, TypeInv, TypeOK
<1>6. ASSUME NEW r \in Requests, CreateJob(r) PROVE jobs'[j] = jobs[j]
  BY <1>6 DEF CreateJob, NewRow, TypeInv, TypeOK
<1> QED BY <1>2, <1>3, <1>4, <1>5, <1>6, JobsWriters

(* A job that rests with status succeeded has its report: the window in which  *)
(* a poller sees succeeded and no report always has a live attempt behind it.  *)
THEOREM RestingSuccessHasReport ==
  Spec => [](\A j \in Requests : Succeeded(j) =>
               reports[j] # None \/ j \in Unfinished \cup abandoned)
<1>1. Init => UnreportedHasAttempt
  BY DEF Init, UnreportedHasAttempt, Succeeded, Stored
<1>2. TypeInv /\ UnreportedHasAttempt =>
        \A j \in Requests : Succeeded(j) => reports[j] # None \/ j \in Unfinished \cup abandoned
  <2> SUFFICES ASSUME TypeInv, UnreportedHasAttempt, NEW j \in Requests, Succeeded(j),
                      reports[j] = None
               PROVE  j \in Unfinished \cup abandoned
    OBVIOUS
  <2>1. Waits(j) \/ Attempted(j, InFlight)
    BY DEF UnreportedHasAttempt
  <2> QED BY <2>1 DEF Waits, Attempted, Unfinished, Undecided, InFlight, TypeInv,
          CarriedJobsHaveRows
<1> QED BY <1>1, <1>2, UnreportedStep, TypeInvariance, PTL DEF Spec

-----------------------------------------------------------------------------
(* What comes before a failed row and before a report.                        *)

\* The steps whose preparation the outputs of a job rely on are reached from one step each.
LEMMA StepBefore ==
  ASSUME TypeInv, [Next]_vars, NEW w \in Workers, wpc'[w] \in {"markFailed", "saveResults", "saveReport"}
  PROVE  \/ wpc'[w] = wpc[w] /\ task'[w] = task[w] /\ read'[w] = read[w]
         \/ wpc'[w] = "markFailed" /\ RecordFailure(w)
         \/ wpc'[w] = "saveReport" /\ SaveResults(w)
         \/ wpc'[w] = "saveResults" /\ MarkSucceeded(w)
<1> USE DEF TypeInv, TypeOK
<1> DEFINE Same == wpc'[w] = wpc[w] /\ task'[w] = task[w] /\ read'[w] = read[w]
<1>1. ASSUME NEW r \in Requests, HandlerNext(r) PROVE Same
  <2>1. CASE SyncGet(r)
    <3>1. r # w
      BY ConstantsAssumption
    <3> QED BY <2>1, <3>1 DEF SyncGet, Get
  <2> QED BY <1>1, <2>1 DEF HandlerNext, Submit, PutBank, PutPurchase, RegisterBatches,
          CreateJob, Dispatch, SyncFinish
<1>2. ASSUME NEW v \in Workers, WorkerNext(v)
      PROVE  \/ Same
             \/ wpc'[w] = "markFailed" /\ RecordFailure(w)
             \/ wpc'[w] = "saveReport" /\ SaveResults(w)
             \/ wpc'[w] = "saveResults" /\ MarkSucceeded(w)
  <2>1. CASE Take(v)
    BY <2>1 DEF Take
  <2>2. CASE GetInputs(v)
    BY <2>2 DEF GetInputs, Get
  <2>3. CASE Ack(v)
    BY <2>3 DEF Ack, Release
  <2>4. CASE MarkRunning(v) \/ SaveCases(v) \/ RecordDone(v)
    BY <2>4 DEF MarkRunning, SaveCases, RecordDone
  <2>5. CASE SaveResults(v)
    <3>1. v # w => Same
      BY <2>5 DEF SaveResults
    <3>2. v = w => wpc'[w] = "saveReport"
      BY <2>5 DEF SaveResults
    <3> QED BY <2>5, <3>1, <3>2
  <2>6. CASE RecordFailure(v)
    <3>1. v # w => Same
      BY <2>6 DEF RecordFailure
    <3>2. v = w => wpc'[w] = "markFailed"
      BY <2>6 DEF RecordFailure
    <3> QED BY <2>6, <3>1, <3>2
  <2>7. CASE SaveReport(v) \/ MarkFailed(v) \/ Retry(v)
    BY <2>7 DEF SaveReport, MarkFailed, Retry
  <2>8. CASE MarkSucceeded(v)
    <3>1. v # w => Same
      BY <2>8 DEF MarkSucceeded
    <3>2. v = w => wpc'[w] = "saveResults"
      BY <2>8 DEF MarkSucceeded
    <3> QED BY <2>8, <3>1, <3>2
  <2> QED BY <1>2, <2>1, <2>2, <2>3, <2>4, <2>5, <2>6, <2>7, <2>8 DEF WorkerNext
<1>3. ASSUME NEW r \in Requests, HandlerFails(r) PROVE Same
  BY <1>3 DEF HandlerFails
<1>4. ASSUME NEW v \in Workers, Fault(v) \/ KillChild(v) \/ Redeliver(v) PROVE Same
  <2>1. CASE Fault(v)
    BY <2>1 DEF Fault, InTry
  <2>2. CASE KillChild(v)
    BY <2>2 DEF KillChild, Release
  <2>3. CASE Redeliver(v)
    BY <2>3 DEF Redeliver, Release
  <2> QED BY <1>4, <2>1, <2>2, <2>3
<1>5. ~ApiCrash
  BY DEF ApiCrash
<1>6. PollBeforeAnyJob \/ UNCHANGED vars => Same
  BY DEF PollBeforeAnyJob, vars
<1> QED BY <1>1, <1>2, <1>3, <1>4, <1>5, <1>6 DEF Next, Trouble

\* Every failure is audited first.
LEMMA FailuresStep ==
  ASSUME TypeInv, FailuresAudited, [Next]_vars
  PROVE  FailuresAudited'
<1>1. ASSUME NEW w \in Workers, wpc'[w] = "markFailed"
      PROVE  Event("failed", JobOf(w), None)' \in audit'
  <2>1. CASE wpc'[w] = wpc[w] /\ task'[w] = task[w]
    BY <1>1, <2>1, Growth DEF FailuresAudited, JobOf, Event
  <2>2. CASE RecordFailure(w)
    BY <2>2 DEF RecordFailure, JobOf, Event
  <2> QED BY <1>1, <2>1, <2>2, StepBefore
<1>2. ASSUME NEW j \in Requests, jobs'[j] # None, jobs'[j].status = "failed"
      PROVE  Event("failed", j, None) \in audit'
  <2>1. CASE jobs'[j] = jobs[j]
    BY <1>2, <2>1, Growth DEF FailuresAudited, Stored
  <2>2. ASSUME NEW r \in Requests, CreateJob(r) PROVE jobs'[j] = jobs[j]
    BY <1>2, <2>2 DEF CreateJob, NewRow, TypeInv, TypeOK
  <2>3. ASSUME NEW w \in Workers, MarkRunning(w) \/ MarkSucceeded(w) PROVE jobs'[j] = jobs[j]
    BY <1>2, <2>3 DEF MarkRunning, MarkSucceeded, UpdateJob, TypeInv, TypeOK
  <2>4. ASSUME NEW w \in Workers, MarkFailed(w)
        PROVE  jobs'[j] = jobs[j] \/ (wpc[w] = "markFailed" /\ JobOf(w) = j)
    BY <2>4 DEF MarkFailed, UpdateJob, TypeInv, TypeOK
  <2>5. ASSUME NEW w \in Workers, wpc[w] = "markFailed", JobOf(w) = j
        PROVE  Event("failed", j, None) \in audit'
    BY <2>5, Growth DEF FailuresAudited
  <2> QED BY <2>1, <2>2, <2>3, <2>4, <2>5, JobsWriters
<1> QED BY <1>1, <1>2 DEF FailuresAudited, Stored, Event

\* Rows of a job are never taken back.
LEMMA ResultsGrow ==
  ASSUME TypeInv, [Next]_vars, NEW j \in Requests
  PROVE  results[j] \subseteq results'[j]
<1>1. ASSUME NEW w \in Workers, SaveResults(w) PROVE results[j] \subseteq results'[j]
  BY <1>1 DEF SaveResults, TypeInv, TypeOK
<1> QED BY <1>1, OutputWriters

\* A report is stored after the rows of its own attempt.
LEMMA ReportedRowsStep ==
  ASSUME TypeInv, RowsBehindReports, [Next]_vars
  PROVE  RowsBehindReports'
<1>0. ASSUME NEW j \in Requests, NEW pair \in Pair, RowsSaved(j, pair) PROVE RowsSaved(j, pair)'
  BY <1>0, ResultsGrow DEF RowsSaved
<1>1. ASSUME NEW w \in Workers, wpc'[w] = "saveReport"
      PROVE  RowsSaved(JobOf(w), read[w])'
  <2>1. CASE wpc'[w] = wpc[w] /\ task'[w] = task[w] /\ read'[w] = read[w]
    <3>1. read[w] \in Pair /\ JobOf(w) \in Requests
      BY <1>1, <2>1, ActiveJob, ConstantsAssumption DEF TypeInv, WorkerProgress, Executed
    <3>2. RowsSaved(JobOf(w), read[w])
      BY <1>1, <2>1 DEF RowsBehindReports
    <3>3. JobOf(w)' = JobOf(w)
      BY <2>1 DEF JobOf
    <3> QED BY <1>0, <2>1, <3>1, <3>2, <3>3 DEF RowsSaved
  <2>2. CASE SaveResults(w)
    <3>1. read[w] \in Pair /\ JobOf(w) \in Requests
      BY <2>2, ActiveJob, ConstantsAssumption
      DEF SaveResults, TypeInv, WorkerProgress, Executed
    <3>2. read'[w] = read[w] /\ JobOf(w)' = JobOf(w)
      BY <2>2 DEF SaveResults, JobOf
    <3> DEFINE old == results[JobOf(w)]
               fresh == RowsOf[read[w]["bank"]] \ {row.record : row \in old}
    <3>3. results'[JobOf(w)] = old \cup {[record |-> x, pair |-> read[w]] : x \in fresh}
      BY <2>2, <3>1 DEF SaveResults, TypeInv, TypeOK
    <3>4. ASSUME NEW x \in RowsOf[read[w]["bank"]] PROVE \E row \in results'[JobOf(w)] : row.record = x
      <4>1. CASE \E row \in old : row.record = x
        BY <3>3, <4>1
      <4>2. CASE x \in fresh
        <5>1. [record |-> x, pair |-> read[w]] \in results'[JobOf(w)]
          BY <3>3, <4>2
        <5> QED BY <5>1
      <4> QED BY <4>1, <4>2
    <3> QED BY <3>2, <3>4 DEF RowsSaved
  <2> QED BY <1>1, <2>1, <2>2, StepBefore
<1>2. ASSUME NEW j \in Requests, reports'[j] # None PROVE RowsSaved(j, reports[j])'
  <2>1. CASE reports'[j] = reports[j]
    BY <1>0, <1>2, <2>1 DEF RowsBehindReports, RowsSaved, TypeInv, TypeOK
  <2>2. ASSUME NEW w \in Workers, SaveReport(w), JobOf(w) = j
        PROVE  RowsSaved(j, reports[j])'
    <3>1. read[w] \in Pair /\ RowsSaved(j, read[w])
      BY <2>2, ConstantsAssumption
      DEF SaveReport, TypeInv, WorkerProgress, Executed, RowsBehindReports
    <3>2. reports'[j] = read[w]
      BY <2>2 DEF SaveReport, TypeInv, TypeOK
    <3> QED BY <1>0, <3>1, <3>2 DEF RowsSaved
  <2>3. ASSUME NEW w \in Workers, SaveReport(w), JobOf(w) # j PROVE reports'[j] = reports[j]
    BY <2>3 DEF SaveReport, TypeInv, TypeOK
  <2> QED BY <2>1, <2>2, <2>3, OutputWriters
<1> QED BY <1>1, <1>2 DEF RowsBehindReports

-----------------------------------------------------------------------------
(* A job's inputs come before the job.                                        *)

\* An object is replaced, never removed, and batches only grow.
LEMMA InputsStay ==
  ASSUME TypeInv, [Next]_vars
  PROVE  /\ \A k \in ObjectKey : objects[k] # None => objects'[k] # None
         /\ batches \subseteq batches'
<1>1. objects' = objects \/ \E r \in Requests : PutBank(r) \/ PutPurchase(r)
  BY SMTT(30)
  DEF Next, HandlerNext, WorkerNext, Trouble, vars, Submit,
     RegisterBatches, CreateJob, Dispatch, SyncGet, SyncFinish, HandlerFails,
     PollBeforeAnyJob, Take, MarkRunning, GetInputs, SaveCases, RecordDone, MarkSucceeded,
     SaveResults, SaveReport, RecordFailure, MarkFailed, Retry, Ack, Fault, KillChild,
     Redeliver, ApiCrash
<1>2. ASSUME NEW r \in Requests, NEW s \in Sources, Put(r, s), hpc[r] # "new"
      PROVE  \A k \in ObjectKey : objects[k] # None => objects'[k] # None
  <2>1. req[r] \in Request
    BY <1>2 DEF TypeInv, TypeOK, HandlersHaveSubmissions
  <2>2. req[r].file[s] \in Contents
    BY <2>1, ConstantsAssumption DEF Request, Pair
  <2>3. req[r].file[s] # None
    BY <2>2, ConstantsAssumption
  <2> QED BY <1>2, <2>3 DEF Put, TypeInv, TypeOK
<1>3. batches \subseteq batches'
  <2>1. batches' = batches \/ \E r \in Requests : RegisterBatches(r)
    BY SMTT(30)
    DEF Next, HandlerNext, WorkerNext, Trouble, vars, Submit, PutBank, PutPurchase,
       CreateJob, Dispatch, SyncGet, SyncFinish, HandlerFails, PollBeforeAnyJob, Take,
       MarkRunning, GetInputs, SaveCases, RecordDone, MarkSucceeded, SaveResults, SaveReport,
       RecordFailure, MarkFailed, Retry, Ack, Fault, KillChild, Redeliver, ApiCrash
  <2> QED BY <2>1 DEF RegisterBatches
<1> QED BY <1>1, <1>2, <1>3 DEF PutBank, PutPurchase, Sources

\* A handler comes to its next call from the one before, and nowhere else.
LEMMA HandlerBefore ==
  ASSUME TypeInv, [Next]_vars, NEW r \in Requests,
         hpc'[r] \in {"putPurchase", "register", "createJob"}
  PROVE  hpc'[r] = hpc[r] \/ Submit(r) \/ PutBank(r) \/ PutPurchase(r) \/ RegisterBatches(r)
<1> USE DEF TypeInv, TypeOK
<1>1. ASSUME NEW q \in Requests, HandlerNext(q)
      PROVE  hpc'[r] = hpc[r] \/ Submit(r) \/ PutBank(r) \/ PutPurchase(r) \/ RegisterBatches(r)
  <2>1. CASE q = r
    BY <1>1, <2>1 DEF HandlerNext, CreateJob, Dispatch, SyncGet, SyncFinish
  <2>2. CASE q # r
    BY <1>1, <2>2 DEF HandlerNext, Submit, PutBank, PutPurchase, RegisterBatches, CreateJob,
       Dispatch, SyncGet, SyncFinish
  <2> QED BY <2>1, <2>2
<1>2. ASSUME NEW w \in Workers, WorkerNext(w) PROVE hpc' = hpc
  BY <1>2 DEF WorkerNext, Take, MarkRunning, GetInputs, SaveCases, RecordDone, MarkSucceeded,
     SaveResults, SaveReport, RecordFailure, MarkFailed, Retry, Ack
<1>3. ASSUME Trouble PROVE hpc'[r] = hpc[r]
  BY <1>3 DEF Trouble, HandlerFails, Fault, KillChild, Redeliver, ApiCrash
<1> QED BY <1>1, <1>2, <1>3 DEF Next, PollBeforeAnyJob, vars

LEMMA InputsReadyStep ==
  ASSUME TypeInv, InputsReady, [Next]_vars
  PROVE  InputsReady'
<1> SUFFICES ASSUME NEW r \in Requests, hpc'[r] \in {"putPurchase", "register", "createJob"}
             PROVE  /\ hpc'[r] = "putPurchase" /\ req'[r].kind = "async"
                         => objects'[ObjKey(r, "bank")'] # None
                    /\ hpc'[r] = "register" /\ req'[r].kind = "async" => BothStored(r)'
                    /\ hpc'[r] = "createJob" => BothStored(r)' /\ BothRegistered(r)'
  BY DEF InputsReady
<1>1. CASE Submit(r)
  <2>1. hpc'[r] # "register" /\ hpc'[r] # "createJob"
    BY <1>1 DEF Submit, TypeInv, TypeOK
  <2>2. hpc'[r] = "putPurchase" => req'[r].kind = "upload_purchase"
    BY <1>1 DEF Submit, TypeInv, TypeOK
  <2> QED BY <2>1, <2>2
<1>2. ASSUME hpc[r] # "new"
      PROVE  /\ req'[r] = req[r] /\ \A s \in Sources : ObjKey(r, s)' = ObjKey(r, s)
             /\ \A s \in Sources : objects[ObjKey(r, s)] # None => objects'[ObjKey(r, s)] # None
             /\ BothRegistered(r) => BothRegistered(r)'
  <2>1. req'[r] = req[r]
    BY <1>2, SubmissionsStand
  <2>2. req[r] \in Request
    BY <1>2 DEF TypeInv, TypeOK, HandlersHaveSubmissions
  <2>3. \A s \in Sources : ObjKey(r, s) \in ObjectKey
    BY <2>2 DEF ObjKey, ObjectKey, Request
  <2> QED BY <2>1, <2>3, InputsStay DEF ObjKey, BothRegistered, TenantOf
<1>3. CASE hpc'[r] = hpc[r]
  BY <1>2, <1>3 DEF InputsReady, BothStored, Sources
<1>4. CASE PutBank(r)
  <2>1. hpc[r] = "putBank" /\ hpc'[r] # "createJob" /\ (hpc'[r] = "register" => req[r].kind # "async")
    BY <1>4 DEF PutBank, TypeInv, TypeOK
  <2>2. req[r].file["bank"] \in Contents /\ ObjKey(r, "bank") \in ObjectKey
    <3>1. req[r] \in Request
      BY <2>1 DEF TypeInv, TypeOK, HandlersHaveSubmissions
    <3> QED BY <3>1, ConstantsAssumption DEF Request, Pair, Sources, ObjKey, ObjectKey
  <2>3. objects'[ObjKey(r, "bank")] # None
    BY <1>4, <2>2, ConstantsAssumption DEF PutBank, Put, TypeInv, TypeOK
  <2> QED BY <1>2, <2>1, <2>3 DEF Sources
<1>5. CASE PutPurchase(r)
  <2>1. hpc[r] = "putPurchase" /\ hpc'[r] \notin {"createJob", "putPurchase"}
    BY <1>5 DEF PutPurchase, TypeInv, TypeOK
  <2>2. req[r].file["purchase"] \in Contents /\ ObjKey(r, "purchase") \in ObjectKey
    <3>1. req[r] \in Request
      BY <2>1 DEF TypeInv, TypeOK, HandlersHaveSubmissions
    <3> QED BY <3>1, ConstantsAssumption DEF Request, Pair, Sources, ObjKey, ObjectKey
  <2>3. objects'[ObjKey(r, "purchase")] # None
    BY <1>5, <2>2, ConstantsAssumption DEF PutPurchase, Put, TypeInv, TypeOK
  <2> QED BY <1>2, <2>1, <2>3 DEF Sources, InputsReady, BothStored
<1>6. CASE RegisterBatches(r)
  <2>1. hpc[r] = "register" /\ hpc'[r] = "createJob" /\ req[r].kind = "async" /\ req' = req
    BY <1>6 DEF RegisterBatches, TypeInv, TypeOK
  <2>2. BothRegistered(r)'
    BY <1>6, <2>1 DEF RegisterBatches, BothRegistered, SentSources, TenantOf
  <2>3. BothStored(r)'
    BY <1>2, <2>1 DEF InputsReady, BothStored
  <2> QED BY <2>1, <2>2, <2>3
<1> QED BY <1>1, <1>3, <1>4, <1>5, <1>6, HandlerBefore

LEMMA InputsDurableStep ==
  ASSUME TypeInv, InputsReady, JobInputsDurable, [Next]_vars
  PROVE  JobInputsDurable'
<1> SUFFICES ASSUME NEW j \in Stored' PROVE BothStored(j)' /\ BothRegistered(j)'
  BY DEF JobInputsDurable, BothStored, BothRegistered
<1>0. j \in Requests
  BY DEF Stored
<1>1. BothStored(j) /\ BothRegistered(j) /\ hpc[j] # "new"
  <2>1. CASE j \in Stored
    BY <1>0, <2>1 DEF JobInputsDurable, BothStored, BothRegistered, TypeInv, HandlersHaveSubmissions
  <2>2. ASSUME NEW r \in Requests, CreateJob(r), j \notin Stored PROVE hpc[j] = "createJob"
    BY <1>0, <2>2 DEF CreateJob, Stored, TypeInv, TypeOK
  <2>3. ASSUME NEW w \in Workers, MarkRunning(w) \/ MarkSucceeded(w) \/ MarkFailed(w)
        PROVE  j \in Stored
    <3>1. wpc[w] # "idle" /\ JobOf(w) \in Stored
      BY <2>3, ActiveJob DEF MarkRunning, MarkSucceeded, MarkFailed
    <3> QED BY <1>0, <2>3, <3>1 DEF MarkRunning, MarkSucceeded, MarkFailed, UpdateJob, Stored,
                                   TypeInv, TypeOK
  <2> QED BY <1>0, <2>1, <2>2, <2>3, JobsWriters DEF InputsReady, Stored
<1>2. req'[j] = req[j] /\ req[j] \in Request
  BY <1>0, <1>1, SubmissionsStand DEF TypeInv, TypeOK, HandlersHaveSubmissions
<1>3. \A s \in Sources : ObjKey(j, s) \in ObjectKey /\ ObjKey(j, s)' = ObjKey(j, s)
  BY <1>2 DEF ObjKey, ObjectKey, Request
<1> QED BY <1>1, <1>2, <1>3, InputsStay DEF BothStored, BothRegistered, TenantOf

(* A worker never finds an object of its job missing, and every job's batches  *)
(* are registered: enqueue_reconciliation writes them all before the row,      *)
(* whatever else is submitted, fails or is delivered meanwhile.                *)
THEOREM InputsDurable == Spec => [](InputsReady /\ JobInputsDurable)
<1>1. Init => InputsReady /\ JobInputsDurable
  BY DEF Init, InputsReady, JobInputsDurable, Stored
<1>2. TypeInv /\ (InputsReady /\ JobInputsDurable) /\ [Next]_vars
        => (InputsReady /\ JobInputsDurable)'
  BY InputsReadyStep, InputsDurableStep
<1> QED BY <1>1, <1>2, TypeInvariance, PTL DEF Spec

-----------------------------------------------------------------------------
(* What a submission is answered with.                                        *)

\* A row keeps its number; the only new one is that of create_job, the highest.
LEMMA RowIdsStep ==
  ASSUME TypeInv, RowIdsAreOrder, [Next]_vars
  PROVE  /\ RowIdsAreOrder'
         /\ \A j \in Stored : jobs'[j].rowid = jobs[j].rowid
         /\ \A j \in Stored' \ Stored : /\ CreateJob(j)
                                         /\ \A i \in Stored : jobs[i].rowid < jobs'[j].rowid
<1> DEFINE Kept == \A j \in Stored : jobs'[j].rowid = jobs[j].rowid
           Newest == \A j \in Stored' \ Stored :
                       CreateJob(j) /\ \A i \in Stored : jobs[i].rowid < jobs'[j].rowid
<1>0. /\ IsFiniteSet(Stored) /\ Cardinality(Stored) \in Nat
      /\ \A j \in Stored : jobs[j].rowid \in Nat
  <2>1. Stored \subseteq Requests
    BY DEF Stored
  <2>2. \A j \in Stored : jobs[j] \in JobRow
    BY DEF Stored, TypeInv, TypeOK
  <2> QED BY <2>1, <2>2, ConstantsAssumption, FS_Subset, FS_CardinalityType DEF JobRow
<1>1. ASSUME Stored' = Stored, Kept PROVE RowIdsAreOrder' /\ Kept /\ Newest
  BY <1>1 DEF RowIdsAreOrder
<1>2. ASSUME jobs' = jobs PROVE Stored' = Stored /\ Kept
  BY <1>2 DEF Stored
<1>3. ASSUME NEW w \in Workers, MarkRunning(w) \/ MarkSucceeded(w) \/ MarkFailed(w)
      PROVE  Stored' = Stored /\ Kept
  <2>1. wpc[w] # "idle" /\ JobOf(w) \in Stored
    BY <1>3, ActiveJob DEF MarkRunning, MarkSucceeded, MarkFailed
  <2>2. MarkSucceeded(w) => read[w] \in Pair \cup {None}
    BY ConstantsAssumption DEF MarkSucceeded, TypeInv, WorkerProgress, Executed
  <2>3. Stored' = Stored
    BY <1>3, <2>1, <2>2, UpdateKeepsRows DEF MarkRunning, MarkSucceeded, MarkFailed, Status
  <2>4. Kept
    BY SMTT(20), <1>3, <2>1 DEF MarkRunning, MarkSucceeded, MarkFailed, UpdateJob, Stored, TypeInv, TypeOK
  <2> QED BY <2>3, <2>4
<1>4. ASSUME NEW r \in Requests, CreateJob(r) PROVE RowIdsAreOrder' /\ Kept /\ Newest
  <2>1. r \notin Stored
    BY <1>4 DEF CreateJob, TypeInv, HandlersHaveSubmissions
  <2>2. CASE jobs' = jobs
    BY <1>1, <1>2, <2>2
  <2>3. CASE jobs' = [jobs EXCEPT ![r] = NewRow]
    <3>1. NewRow # None /\ NewRow.rowid = Cardinality(Stored)
      BY NewRowType, ConstantsAssumption DEF NewRow
    <3>2. Stored' = Stored \cup {r}
      BY <2>3, <3>1 DEF Stored, TypeInv, TypeOK
    <3>3. Kept /\ jobs'[r].rowid = Cardinality(Stored)
      BY <2>1, <2>3, <3>1 DEF Stored, TypeInv, TypeOK
    <3>4. Cardinality(Stored') = Cardinality(Stored) + 1
      BY <1>0, <2>1, <3>2, FS_AddElement
    <3>5. Newest
      BY <1>4, <3>2, <3>3 DEF RowIdsAreOrder
    <3>6. \A j \in Stored' : jobs'[j].rowid < Cardinality(Stored')
      BY <1>0, <3>2, <3>3, <3>4 DEF RowIdsAreOrder
    <3>7. ASSUME NEW i \in Stored', NEW j \in Stored', jobs'[i].rowid = jobs'[j].rowid
          PROVE  i = j
      BY <1>0, <3>2, <3>3, <3>7 DEF RowIdsAreOrder
    <3> QED BY <3>3, <3>5, <3>6, <3>7 DEF RowIdsAreOrder
  <2> QED BY <1>4, <2>2, <2>3 DEF CreateJob
<1> QED BY <1>1, <1>2, <1>3, <1>4, JobsWriters

\* A handler that was answered makes its publish or none, and stays answered.
LEMMA AnsweredHandlers ==
  ASSUME TypeInv, [Next]_vars, NEW a \in Requests
  PROVE  /\ answer'[a] = answer[a] \/ CreateJob(a)
         /\ hpc[a] \in {"dispatch", "done", "failed"} => hpc'[a] \in {"dispatch", "done", "failed"}
<1> USE DEF TypeInv, TypeOK
<1>1. ASSUME NEW q \in Requests, HandlerNext(q)
      PROVE  /\ answer'[a] = answer[a] \/ CreateJob(a)
             /\ hpc[a] \in {"dispatch", "done", "failed"} => hpc'[a] \in {"dispatch", "done", "failed"}
  <2>1. CASE q = a
    BY <1>1, <2>1 DEF HandlerNext, Submit, PutBank, PutPurchase, RegisterBatches, CreateJob,
       Dispatch, SyncGet, SyncFinish
  <2>2. CASE q # a
    BY <1>1, <2>2 DEF HandlerNext, Submit, PutBank, PutPurchase, RegisterBatches, CreateJob,
       Dispatch, SyncGet, SyncFinish
  <2> QED BY <2>1, <2>2
<1>2. ASSUME NEW w \in Workers, WorkerNext(w) PROVE UNCHANGED <<hpc, answer>>
  BY <1>2 DEF WorkerNext, Take, MarkRunning, GetInputs, SaveCases, RecordDone, MarkSucceeded,
     SaveResults, SaveReport, RecordFailure, MarkFailed, Retry, Ack
<1>3. ASSUME Trouble
      PROVE  answer' = answer /\ (hpc[a] \in {"dispatch", "done", "failed"} =>
                                   hpc'[a] \in {"dispatch", "done", "failed"})
  BY <1>3 DEF Trouble, HandlerFails, Fault, KillChild, Redeliver, ApiCrash
<1> QED BY <1>1, <1>2, <1>3 DEF Next, PollBeforeAnyJob, vars

\* A keyed answer stays the oldest row: rows of the key that come later are younger.
LEMMA AnswersStep ==
  ASSUME TypeInv, RowIdsAreOrder, AnswersAreOldest, [Next]_vars
  PROVE  AnswersAreOldest'
<1> SUFFICES ASSUME NEW a \in Requests, answer'[a] # None
             PROVE  /\ hpc'[a] \in {"dispatch", "done", "failed"}
                    /\ answer'[a] \in Stored' /\ TenantOf(answer[a])' = TenantOf(a)'
                    /\ req'[a].key # None =>
                         /\ req'[answer'[a]].key = req'[a].key
                         /\ \A j \in SameKey(a)' : jobs'[answer'[a]].rowid <= jobs'[j].rowid
  BY DEF AnswersAreOldest
<1>0. \A j \in Stored : jobs[j].rowid \in Nat
  <2>1. \A j \in Stored : jobs[j] \in JobRow
    BY DEF Stored, TypeInv, TypeOK
  <2> QED BY <2>1 DEF JobRow
<1>1. CASE answer'[a] = answer[a]
  <2>1. hpc[a] \in {"dispatch", "done", "failed"} /\ answer[a] \in Stored
        /\ TenantOf(answer[a]) = TenantOf(a)
    BY <1>1 DEF AnswersAreOldest
  <2>2. req'[a] = req[a]
    BY <2>1, SubmissionsStand
  <2>3. answer[a] \in Stored' /\ req'[answer[a]] = req[answer[a]]
    BY <2>1, RowsStand
  <2>4. ASSUME req'[a].key # None, NEW j \in SameKey(a)'
        PROVE  jobs'[answer[a]].rowid <= jobs'[j].rowid
    <3>1. j \in Stored' /\ req'[j].tenant = req'[a].tenant /\ req'[j].key = req'[a].key
      BY DEF SameKey
    <3>2. jobs'[answer[a]].rowid = jobs[answer[a]].rowid
      BY <2>1, RowIdsStep
    <3>3. CASE j \in Stored
      <4>1. j \in SameKey(a)
        BY <2>2, <3>1, <3>3, RowsStand DEF SameKey
      <4>2. jobs[answer[a]].rowid <= jobs[j].rowid
        BY <1>1, <2>2, <2>4, <4>1 DEF AnswersAreOldest
      <4> QED BY <3>2, <3>3, <4>2, RowIdsStep
    <3>4. CASE j \notin Stored
      <4>1. jobs[answer[a]].rowid < jobs'[j].rowid
        BY <2>1, <3>1, <3>4, RowIdsStep
      <4>2. CreateJob(j) /\ jobs'[j] = NewRow
        BY <3>1, <3>4, RowIdsStep DEF CreateJob, Stored, TypeInv, TypeOK
      <4>3. jobs'[j].rowid \in Nat
        BY <4>2, NewRowType DEF JobRow
      <4> QED BY <1>0, <2>1, <3>2, <4>1, <4>3
    <3> QED BY <3>3, <3>4
  <2>5. req'[a].key # None => req'[answer[a]].key = req'[a].key
    BY <1>1, <2>2, <2>3 DEF AnswersAreOldest
  <2>6. hpc'[a] \in {"dispatch", "done", "failed"}
    BY <2>1, AnsweredHandlers
  <2> QED BY <1>1, <2>1, <2>2, <2>3, <2>4, <2>5, <2>6 DEF TenantOf
<1>2. CASE CreateJob(a)
  <2>1. req' = req /\ hpc'[a] \in {"dispatch", "done", "failed"}
    BY <1>2 DEF CreateJob, TypeInv, TypeOK
  <2>2. CASE req[a].key = None \/ SameKey(a) = {}
    <3>1. answer'[a] = a /\ jobs'[a] = NewRow
      BY <1>2, <2>2 DEF CreateJob, TypeInv, TypeOK
    <3>2. a \in Stored' /\ NewRow.rowid \in Nat
      BY <3>1, NewRowType, ConstantsAssumption DEF Stored, JobRow
    <3>3. ASSUME req[a].key # None, NEW j \in SameKey(a)' PROVE j = a
      <4>1. j \in Stored' /\ req[j].tenant = req[a].tenant /\ req[j].key = req[a].key
        BY <2>1 DEF SameKey
      <4>2. j \notin Stored
        BY <2>2, <3>3, <4>1 DEF SameKey
      <4> QED BY <1>2, <2>2, <4>1, <4>2 DEF CreateJob, Stored, TypeInv, TypeOK
    <3> QED BY <2>1, <3>1, <3>2, <3>3 DEF TenantOf
  <2>3. CASE req[a].key # None /\ SameKey(a) # {}
    <3> DEFINE o == Oldest(SameKey(a))
    <3>1. o \in SameKey(a) /\ \A i \in SameKey(a) : jobs[o].rowid <= jobs[i].rowid
      <4>1. SameKey(a) \in SUBSET Stored
        BY DEF SameKey
      <4> QED BY <2>3, <4>1, OldestExists
    <3>2. answer'[a] = o
      BY <1>2, <2>3 DEF CreateJob, TypeInv, TypeOK
    <3>3. o \in Stored /\ req[o].tenant = req[a].tenant /\ req[o].key = req[a].key
      BY <3>1 DEF SameKey
    <3> HIDE DEF o
    <3>4. o \in Stored' /\ jobs'[o].rowid = jobs[o].rowid
      BY <3>3, RowsStand, RowIdsStep
    <3>5. ASSUME NEW j \in SameKey(a)' PROVE jobs'[o].rowid <= jobs'[j].rowid
      <4>1. j \in Stored' /\ req[j].tenant = req[a].tenant /\ req[j].key = req[a].key
        BY <2>1 DEF SameKey
      <4>2. CASE j \in Stored
        BY <3>1, <3>4, <4>1, <4>2, RowIdsStep DEF SameKey
      <4>3. CASE j \notin Stored
        <5>1. jobs[o].rowid < jobs'[j].rowid
          BY <3>3, <4>1, <4>3, RowIdsStep
        <5>2. jobs'[j] = NewRow
          BY <4>1, <4>3, RowIdsStep DEF CreateJob, Stored, TypeInv, TypeOK
        <5>3. jobs'[j].rowid \in Nat
          BY <5>2, NewRowType DEF JobRow
        <5> QED BY <1>0, <3>3, <3>4, <5>1, <5>3
      <4> QED BY <4>2, <4>3
    <3> QED BY <2>1, <3>2, <3>3, <3>4, <3>5 DEF TenantOf
  <2> QED BY <2>2, <2>3
<1> QED BY <1>1, <1>2, AnsweredHandlers

LEMMA AnswerInvariance == Spec => [](RowIdsAreOrder /\ AnswersAreOldest)
<1>1. Init => RowIdsAreOrder /\ AnswersAreOldest
  BY DEF Init, RowIdsAreOrder, AnswersAreOldest, Stored
<1>2. TypeInv /\ (RowIdsAreOrder /\ AnswersAreOldest) /\ [Next]_vars
        => (RowIdsAreOrder /\ AnswersAreOldest)'
  BY RowIdsStep, AnswersStep
<1> QED BY <1>1, <1>2, TypeInvariance, PTL DEF Spec

(* Two submissions with one key get one job id, that of the oldest row, even   *)
(* where the table lacks its constraint and has several rows for the key.      *)
THEOREM AnswersAlwaysAgree == Spec => []AnswersAgree
<1>1. TypeInv /\ RowIdsAreOrder /\ AnswersAreOldest => AnswersAgree
  <2> SUFFICES ASSUME TypeInv, RowIdsAreOrder, AnswersAreOldest,
                      NEW a \in Requests, NEW b \in Requests,
                      answer[a] # None, answer[b] # None
               PROVE  /\ answer[a] \in Stored /\ TenantOf(answer[a]) = TenantOf(a)
                      /\ req[a].key # None /\ req[a].key = req[b].key
                           /\ TenantOf(a) = TenantOf(b) => answer[a] = answer[b]
    BY DEF AnswersAgree
  <2>1. ASSUME req[a].key # None, req[a].key = req[b].key, TenantOf(a) = TenantOf(b)
        PROVE  answer[a] = answer[b]
    <3>1. answer[a] \in SameKey(b) /\ answer[b] \in SameKey(a)
      BY <2>1 DEF AnswersAreOldest, SameKey, TenantOf
    <3>2. /\ jobs[answer[a]].rowid <= jobs[answer[b]].rowid
          /\ jobs[answer[b]].rowid <= jobs[answer[a]].rowid
      BY <2>1, <3>1 DEF AnswersAreOldest
    <3>3. answer[a] \in Stored /\ answer[b] \in Stored
      BY DEF AnswersAreOldest
    <3>4. jobs[answer[a]].rowid \in Nat /\ jobs[answer[b]].rowid \in Nat
      <4>1. jobs[answer[a]] \in JobRow /\ jobs[answer[b]] \in JobRow
        BY <3>3 DEF Stored, TypeInv, TypeOK
      <4> QED BY <4>1 DEF JobRow
    <3>5. jobs[answer[a]].rowid = jobs[answer[b]].rowid
      BY <3>2, <3>4
    <3> QED BY <3>3, <3>5 DEF RowIdsAreOrder
  <2> QED BY <2>1 DEF AnswersAreOldest
<1> QED BY <1>1, AnswerInvariance, TypeInvariance, PTL

-----------------------------------------------------------------------------
(* The job table implements the contract of the idempotency key.              *)

\* CHOOSE finds the one row with the smallest number.
LEMMA SmallestChosen ==
  ASSUME NEW f, NEW S, NEW m \in S, \A i \in S : f[i].rowid \in Nat,
         \A i \in S : i # m => f[m].rowid < f[i].rowid
  PROVE  (CHOOSE j \in S : \A i \in S : f[j].rowid <= f[i].rowid) = m
<1> DEFINE P(j) == \A i \in S : f[j].rowid <= f[i].rowid
<1>1. P(m)
  OBVIOUS
<1>2. \A j \in S : P(j) => j = m
  OBVIOUS
<1> HIDE DEF P
<1>3. (CHOOSE j \in S : P(j)) = m
  BY <1>1, <1>2
<1> QED BY <1>3 DEF P

\* An owned slot belongs to its oldest row; another does not.
LEMMA OwnerOfSlot ==
  ASSUME TypeInv, RowIdsAreOrder, NEW slot \in Tenants \X Keys
  PROVE  /\ KeyRows(slot) = {} => KeyOwner[slot] = None
         /\ KeyRows(slot) # {} => /\ KeyOwner[slot] \in KeyRows(slot) /\ KeyOwner[slot] # None
                                  /\ \A i \in KeyRows(slot) : i # KeyOwner[slot] =>
                                       jobs[KeyOwner[slot]].rowid < jobs[i].rowid
<1> DEFINE R == KeyRows(slot)
<1>1. KeyOwner[slot] = IF R = {} THEN None ELSE Oldest(R)
  BY DEF KeyOwner, KeyRows, FirstRow, Oldest
<1>2. R \in SUBSET Stored /\ Stored \subseteq Requests
  BY DEF KeyRows, Stored
<1>3. \A i \in R : jobs[i].rowid \in Nat
  <2>1. \A j \in Stored : jobs[j] \in JobRow
    BY DEF Stored, TypeInv, TypeOK
  <2> QED BY <1>2, <2>1 DEF JobRow
<1> HIDE DEF R
<1>4. ASSUME R # {}
      PROVE  /\ Oldest(R) \in R /\ Oldest(R) # None
             /\ \A i \in R : i # Oldest(R) => jobs[Oldest(R)].rowid < jobs[i].rowid
  <2>1. Oldest(R) \in R /\ \A i \in R : jobs[Oldest(R)].rowid <= jobs[i].rowid
    BY <1>2, <1>4, OldestExists
  <2> HIDE DEF Oldest
  <2>2. ASSUME NEW i \in R, i # Oldest(R) PROVE jobs[Oldest(R)].rowid < jobs[i].rowid
    <3>1. jobs[Oldest(R)].rowid # jobs[i].rowid
      BY <1>2, <2>1, <2>2 DEF RowIdsAreOrder
    <3> QED BY <1>3, <2>1, <2>2, <3>1
  <2>3. Oldest(R) # None
    BY <1>2, <2>1, ConstantsAssumption
  <2> QED BY <2>1, <2>2, <2>3
<1> QED BY <1>1, <1>4 DEF R

\* An owner stays, because rows stay and new ones are younger.
LEMMA OwnersStay ==
  ASSUME TypeInv, RowIdsAreOrder, [Next]_vars, NEW slot \in Tenants \X Keys
  PROVE  /\ KeyRows(slot) # {} => KeyOwner'[slot] = KeyOwner[slot]
         /\ KeyRows(slot)' = {} => KeyOwner'[slot] = None
         /\ \A r \in Requests : KeyRows(slot) = {} /\ KeyRows(slot)' = {r} => KeyOwner'[slot] = r
<1> DEFINE R == KeyRows(slot)
           N == KeyRows(slot)'
<1>1. KeyOwner'[slot] =
        IF N = {} THEN None ELSE CHOOSE j \in N : \A i \in N : jobs'[j].rowid <= jobs'[i].rowid
  BY DEF KeyOwner, KeyRows, FirstRow
<1>2. R \subseteq N /\ R \subseteq Stored /\ N \subseteq Stored'
  BY RowsStand DEF KeyRows, TenantOf
<1>3. ASSUME NEW i \in N, i \notin R PROVE i \in Stored' \ Stored
  BY <1>3, RowsStand DEF KeyRows, TenantOf
<1>4. \A i \in N : jobs'[i].rowid \in Nat
  <2>1. TypeInv'
    BY TypeStep
  <2>2. \A j \in Stored' : jobs'[j] \in JobRow
    BY <2>1 DEF Stored, TypeInv, TypeOK
  <2> QED BY <1>2, <2>2 DEF JobRow
<1>5. ASSUME R # {} PROVE KeyOwner'[slot] = KeyOwner[slot]
  <2> DEFINE m == KeyOwner[slot]
  <2>1. m \in R /\ \A i \in R : i # m => jobs[m].rowid < jobs[i].rowid
    BY <1>5, OwnerOfSlot
  <2> HIDE DEF m
  <2>2. m \in N /\ \A i \in N : i # m => jobs'[m].rowid < jobs'[i].rowid
    <3>1. jobs'[m].rowid = jobs[m].rowid
      BY <1>2, <2>1, RowIdsStep
    <3>2. ASSUME NEW i \in N, i # m PROVE jobs'[m].rowid < jobs'[i].rowid
      <4>1. CASE i \in R
        <5>1. jobs'[i].rowid = jobs[i].rowid
          BY <1>2, <4>1, RowIdsStep
        <5> QED BY <2>1, <3>1, <3>2, <4>1, <5>1
      <4>2. CASE i \notin R
        BY <1>2, <1>3, <2>1, <3>1, <4>2, RowIdsStep
      <4> QED BY <4>1, <4>2
    <3> QED BY <1>2, <2>1, <3>2
  <2>3. (CHOOSE j \in N : \A i \in N : jobs'[j].rowid <= jobs'[i].rowid) = m
    <3> HIDE DEF N
    <3> QED BY <1>4, <2>2, SmallestChosen
  <2> QED BY <1>1, <2>2, <2>3 DEF m
<1>6. ASSUME NEW r \in Requests, N = {r} PROVE KeyOwner'[slot] = r
  BY <1>1, <1>4, <1>6
<1> QED BY <1>1, <1>5, <1>6

\* A handler is sent its request once, before anything else.
LEMMA RequestWriters ==
  ASSUME [Next]_vars
  PROVE  req' = req \/ \E r \in Requests : Submit(r)
BY SMTT(30)
DEF Next, HandlerNext, WorkerNext, Trouble, vars, PutBank, PutPurchase, RegisterBatches,
   CreateJob, Dispatch, SyncGet, SyncFinish, HandlerFails, PollBeforeAnyJob, Take,
   MarkRunning, GetInputs, SaveCases, RecordDone, MarkSucceeded, SaveResults, SaveReport,
   RecordFailure, MarkFailed, Retry, Ack, Fault, KillChild, Redeliver, ApiCrash

LEMMA FreshStep ==
  ASSUME TypeInv, FreshHandlers, [Next]_vars
  PROVE  FreshHandlers'
<1> SUFFICES ASSUME NEW r \in Requests, hpc'[r] = "new" PROVE req'[r] = None
  BY DEF FreshHandlers
<1> USE DEF TypeInv, TypeOK
<1>1. hpc[r] = "new"
  <2>1. ASSUME NEW q \in Requests, HandlerNext(q) \/ HandlerFails(q)
        PROVE  hpc[r] = "new"
    BY <2>1 DEF HandlerNext, Submit, PutBank, PutPurchase, RegisterBatches, CreateJob,
       Dispatch, SyncGet, SyncFinish, HandlerFails
  <2>2. ASSUME NEW w \in Workers, WorkerNext(w) \/ Fault(w) \/ KillChild(w) \/ Redeliver(w)
        PROVE  hpc' = hpc
    BY <2>2 DEF WorkerNext, Take, MarkRunning, GetInputs, SaveCases, RecordDone, MarkSucceeded,
       SaveResults, SaveReport, RecordFailure, MarkFailed, Retry, Ack, Fault, KillChild, Redeliver
  <2>3. ApiCrash => hpc[r] = "new"
    BY DEF ApiCrash
  <2>4. PollBeforeAnyJob \/ UNCHANGED vars => hpc' = hpc
    BY DEF PollBeforeAnyJob, vars
  <2> QED BY <2>1, <2>2, <2>3, <2>4 DEF Next, Trouble
<1>2. ASSUME NEW q \in Requests, Submit(q) PROVE req'[r] = req[r]
  BY <1>2 DEF Submit
<1> QED BY <1>1, <1>2, RequestWriters DEF FreshHandlers

LEMMA FreshInvariance == Spec => []FreshHandlers
<1>1. Init => FreshHandlers
  BY DEF Init, FreshHandlers
<1>2. TypeInv /\ FreshHandlers /\ [Next]_vars => FreshHandlers'
  BY FreshStep
<1> QED BY <1>1, <1>2, TypeInvariance, PTL DEF Spec

\* Owners of slots change only when a row is inserted for the slot.
LEMMA OwnersKept ==
  ASSUME TypeInv, RowIdsAreOrder, [Next]_vars,
         \A slot \in Tenants \X Keys : KeyRows(slot)' \subseteq KeyRows(slot)
  PROVE  KeyOwner' = KeyOwner
<1>1. ASSUME NEW slot \in Tenants \X Keys PROVE KeyOwner'[slot] = KeyOwner[slot]
  BY OwnersStay, OwnerOfSlot
<1>2. /\ KeyOwner = [slot \in Tenants \X Keys |-> KeyOwner[slot]]
      /\ KeyOwner' = [slot \in Tenants \X Keys |-> KeyOwner'[slot]]
  BY DEF KeyOwner
<1> QED BY <1>1, <1>2

\* Submit is the sending of a request: no answer and no row yet.
LEMMA SendingStep ==
  ASSUME TypeInv, FreshHandlers, RowIdsAreOrder, [Next]_vars, NEW r \in Requests, Submit(r)
  PROVE  Submission!Send(r)
<1>1. PICK q \in Request : req' = [req EXCEPT ![r] = q]
  BY DEF Submit
<1>2. /\ req[r] = None /\ q # None /\ jobs' = jobs /\ answer' = answer
      /\ req \in [Requests -> Request \cup {None}]
  BY ConstantsAssumption DEF Submit, FreshHandlers, TypeInv, TypeOK
<1>3. <<q.tenant, q.key>> \in Submission!Slot \cup Submission!Keyless
  <2>1. q.tenant \in Tenants /\ q.key \in Keys \cup {None}
    BY DEF Request
  <2> QED BY <2>1 DEF Submission!Slot, Submission!Keyless
<1>4. SentAs' = [SentAs EXCEPT ![r] = <<q.tenant, q.key>>] /\ SentAs[r] = None
  BY <1>1, <1>2 DEF SentAs
<1>5. ASSUME NEW slot \in Tenants \X Keys PROVE KeyRows(slot)' \subseteq KeyRows(slot)
  BY <1>2, RowsStand DEF KeyRows, Stored
<1>6. KeyOwner' = KeyOwner
  BY <1>5, OwnersKept
<1> QED BY <1>2, <1>3, <1>4, <1>6 DEF Submission!Send

\* create_job answers a keyless request with its own row, the first of a slot with its own
\* row, which then owns the slot, and every later one of the slot with the owner.
LEMMA AnsweringStep ==
  ASSUME TypeInv, RowIdsAreOrder, AnswersAreOldest, [Next]_vars, NEW r \in Requests, CreateJob(r)
  PROVE  Submission!AnswerNew(r) \/ Submission!Claim(r) \/ Submission!Replay(r)
<1> DEFINE mine == <<req[r].tenant, req[r].key>>
           Slots == Tenants \X Keys
<1>1. /\ req' = req /\ answer[r] = None /\ r \notin Stored /\ req[r] \in Request
      /\ Stored' \subseteq Stored \cup {r}
  <2>1. hpc[r] = "createJob" /\ req' = req
    BY DEF CreateJob
  <2>2. answer[r] = None
    BY <2>1 DEF AnswersAreOldest
  <2>3. r \notin Stored /\ req[r] \in Request
    BY <2>1 DEF TypeInv, TypeOK, HandlersHaveSubmissions
  <2>4. Stored' \subseteq Stored \cup {r}
    BY DEF CreateJob, TypeInv, TypeOK, Stored
  <2> QED BY <2>1, <2>2, <2>3, <2>4
<1>2. SentAs' = SentAs /\ SentAs[r] = mine
  BY <1>1, ConstantsAssumption DEF SentAs
<1>3. ASSUME NEW slot \in Slots, slot # mine PROVE KeyRows(slot)' \subseteq KeyRows(slot)
  BY <1>1, <1>3, RowsStand DEF KeyRows
<1>4. CASE req[r].key = None
  <2>1. answer' = [answer EXCEPT ![r] = r]
    BY <1>4 DEF CreateJob
  <2>2. mine \notin Slots /\ mine \in Submission!Keyless
    BY <1>1, <1>4, ConstantsAssumption DEF Request, Submission!Keyless
  <2>3. KeyOwner' = KeyOwner
    BY <1>3, <2>2, OwnersKept
  <2> QED BY <1>1, <1>2, <2>1, <2>2, <2>3 DEF Submission!AnswerNew
<1>5. CASE req[r].key # None
  <2>1. PICK slot \in Slots : slot = mine
    BY <1>1, <1>5 DEF Request
  <2>2. SameKey(r) = KeyRows(slot)
    BY <2>1 DEF SameKey, KeyRows
  <2>3. CASE SameKey(r) = {}
    <3>1. answer' = [answer EXCEPT ![r] = r] /\ jobs' = [jobs EXCEPT ![r] = NewRow]
      BY <1>5, <2>3 DEF CreateJob
    <3>2. r \in Stored'
      <4>1. NewRow # None
        BY NewRowType, ConstantsAssumption
      <4> QED BY <3>1, <4>1 DEF Stored, TypeInv, TypeOK
    <3>3. KeyRows(slot)' = {r}
      <4>1. KeyRows(slot)' = {j \in Stored' : <<req[j].tenant, req[j].key>> = slot}
        BY <1>1 DEF KeyRows
      <4>2. {j \in Stored : <<req[j].tenant, req[j].key>> = slot} = {}
        BY <2>2, <2>3 DEF KeyRows
      <4>3. r \in {j \in Stored' : <<req[j].tenant, req[j].key>> = slot}
        BY <2>1, <3>2
      <4> QED BY <1>1, <4>1, <4>2, <4>3
    <3>4. KeyOwner[slot] = None /\ KeyOwner'[slot] = r
      BY <2>1, <2>2, <2>3, <3>3, OwnerOfSlot, OwnersStay
    <3>5. KeyOwner' = [KeyOwner EXCEPT ![slot] = r]
      <4>1. ASSUME NEW other \in Slots, other # slot PROVE KeyOwner'[other] = KeyOwner[other]
        BY <1>3, <2>1, <4>1, OwnersStay, OwnerOfSlot
      <4>2. /\ KeyOwner = [any \in Slots |-> KeyOwner[any]]
            /\ KeyOwner' = [any \in Slots |-> KeyOwner'[any]]
        BY DEF KeyOwner
      <4> QED BY <2>1, <3>4, <4>1, <4>2
    <3> QED BY <1>1, <1>2, <2>1, <3>1, <3>4, <3>5 DEF Submission!Claim, Submission!Slot
  <2>4. CASE SameKey(r) # {}
    <3>1. answer' = [answer EXCEPT ![r] = Oldest(SameKey(r))]
      BY <1>5, <2>4 DEF CreateJob
    <3>2. KeyOwner[slot] = Oldest(SameKey(r))
      <4>1. KeyOwner[slot] = IF KeyRows(slot) = {} THEN None ELSE FirstRow(KeyRows(slot))
        BY <2>1 DEF KeyOwner
      <4> QED BY <2>2, <2>4, <4>1 DEF FirstRow, Oldest
    <3>3. KeyOwner[slot] # None /\ KeyOwner'[slot] = KeyOwner[slot]
      BY <2>1, <2>2, <2>4, OwnerOfSlot, OwnersStay
    <3>4. KeyOwner' = KeyOwner
      <4>1. ASSUME NEW other \in Slots, other # slot PROVE KeyOwner'[other] = KeyOwner[other]
        BY <1>3, <2>1, <4>1, OwnersStay, OwnerOfSlot
      <4>2. /\ KeyOwner = [any \in Slots |-> KeyOwner[any]]
            /\ KeyOwner' = [any \in Slots |-> KeyOwner'[any]]
        BY DEF KeyOwner
      <4> QED BY <3>3, <4>1, <4>2
    <3> QED BY <1>1, <1>2, <2>1, <3>1, <3>2, <3>3, <3>4 DEF Submission!Replay, Submission!Slot
  <2> QED BY <2>3, <2>4
<1> QED BY <1>4, <1>5

\* Nothing else touches what was sent, owners or answers.
LEMMA SubmissionStep ==
  ASSUME TypeInv, FreshHandlers, RowIdsAreOrder, AnswersAreOldest, [Next]_vars
  PROVE  [Submission!Next]_<<SentAs, KeyOwner, answer>>
<1>1. CASE \E r \in Requests : Submit(r)
  BY <1>1, SendingStep DEF Submission!Next
<1>2. CASE \E r \in Requests : CreateJob(r)
  BY <1>2, AnsweringStep DEF Submission!Next
<1>3. CASE \A r \in Requests : ~Submit(r) /\ ~CreateJob(r)
  <2>1. req' = req /\ Stored' \subseteq Stored
    BY <1>3, RequestWriters, RowIdsStep DEF Stored
  <2>2. answer' = answer
    <3>1. /\ answer \in [Requests -> Requests \cup {None}]
          /\ answer' \in [Requests -> Requests \cup {None}]
      BY TypeStep DEF TypeInv, TypeOK
    <3> QED BY <1>3, <3>1, AnsweredHandlers
  <2>3. KeyOwner' = KeyOwner
    <3>1. ASSUME NEW slot \in Tenants \X Keys PROVE KeyRows(slot)' \subseteq KeyRows(slot)
      BY <2>1 DEF KeyRows
    <3> QED BY <3>1, OwnersKept
  <2>4. SentAs' = SentAs
    BY <2>1 DEF SentAs
  <2> QED BY <2>2, <2>3, <2>4
<1> QED BY <1>1, <1>2, <1>3

(* On every store, with whatever crashes and polls, a client gets what the      *)
(* Idempotency-Key header promises: a request without a key is answered with a  *)
(* job of its own, the first one answered for a tenant's key owns that key for  *)
(* ever, and every later one is answered with the owner and nothing else.       *)
THEOREM SubmissionImplemented == Spec => ImplementsIdempotentSubmission
<1>1. Init => Submission!Init
  BY DEF Init, Submission!Init, Submission!Slot, SentAs, KeyOwner, KeyRows, Stored
<1>2. TypeInv /\ FreshHandlers /\ RowIdsAreOrder /\ AnswersAreOldest /\ [Next]_vars
        => [Submission!Next]_<<SentAs, KeyOwner, answer>>
  BY SubmissionStep
<1> QED BY <1>1, <1>2, TypeInvariance, FreshInvariance, AnswerInvariance, PTL
        DEF Spec, ImplementsIdempotentSubmission, Submission!Spec

-----------------------------------------------------------------------------
(* Without redelivery a job is carried once.                                  *)

\* Nobody becomes a carrier of j and no message for it appears.
Fewer(j) ==
  /\ \A m \in queue' : m.job = j => m \in queue
  /\ \A w \in Workers : Carries(w, j)' => Carries(w, j)

\* How a job changes hands: it is published, taken, or published again by its holder.
LEMMA CarrierMoves ==
  ASSUME TypeInv, [Next]_vars, redeliveries' = 0, NEW j \in Requests
  PROVE  /\ redeliveries = 0
         /\ hpc[j] = "done" => hpc'[j] = "done"
         /\ \/ Fewer(j)
            \/ \E n \in queue' :
                 /\ hpc[j] = "dispatch" /\ hpc'[j] = "done" /\ n.job = j
                 /\ \A m \in queue' : m.job = j => m = n \/ m \in queue
                 /\ \A w \in Workers : Carries(w, j)' => Carries(w, j)
            \/ \E w \in Workers, m \in queue :
                 /\ m.job = j /\ queue' = queue \ {m}
                 /\ \A v \in Workers \ {w} : Carries(v, j)' => Carries(v, j)
            \/ \E w \in Workers, n \in queue' :
                 /\ Carries(w, j) /\ ~Carries(w, j)'
                 /\ \A m \in queue' : m.job = j => m = n \/ m \in queue
                 /\ \A v \in Workers : Carries(v, j)' => Carries(v, j)
<1> USE DEF TypeInv, TypeOK
<1> DEFINE Published == \E n \in queue' :
                 /\ hpc[j] = "dispatch" /\ hpc'[j] = "done" /\ n.job = j
                 /\ \A m \in queue' : m.job = j => m = n \/ m \in queue
                 /\ \A w \in Workers : Carries(w, j)' => Carries(w, j)
           Taken == \E w \in Workers, m \in queue :
                 /\ m.job = j /\ queue' = queue \ {m}
                 /\ \A v \in Workers \ {w} : Carries(v, j)' => Carries(v, j)
           Again == \E w \in Workers, n \in queue' :
                 /\ Carries(w, j) /\ ~Carries(w, j)'
                 /\ \A m \in queue' : m.job = j => m = n \/ m \in queue
                 /\ \A v \in Workers : Carries(v, j)' => Carries(v, j)
           Moves == /\ redeliveries = 0
                    /\ hpc[j] = "done" => hpc'[j] = "done"
                    /\ Fewer(j) \/ Published \/ Taken \/ Again
<1>1. ASSUME NEW r \in Requests, HandlerNext(r) PROVE Moves
  <2>1. CASE Dispatch(r)
    <3>1. /\ queue' = queue \cup {[job |-> r, retries |-> 0, copy |-> 0]}
          /\ hpc[r] = "dispatch" /\ hpc' = [hpc EXCEPT ![r] = "done"]
          /\ UNCHANGED <<task, wpc, redeliveries>>
      BY <2>1 DEF Dispatch
    <3>2. \A w \in Workers : Carries(w, j)' => Carries(w, j)
      BY <3>1 DEF Carries, JobOf
    <3>3. CASE j = r
      <4>1. [job |-> r, retries |-> 0, copy |-> 0] \in queue'
        BY <3>1
      <4> QED BY <3>1, <3>2, <3>3, <4>1
    <3>4. CASE j # r
      BY <3>1, <3>2, <3>4 DEF Fewer
    <3> QED BY <3>3, <3>4
  <2>2. CASE ~Dispatch(r)
    <3>1. UNCHANGED <<queue, task, wpc, redeliveries>>
      BY <1>1, <2>2 DEF HandlerNext, Submit, PutBank, PutPurchase, RegisterBatches, CreateJob,
         SyncGet, SyncFinish
    <3>2. hpc[j] = "done" => hpc'[j] = "done"
      BY <1>1, <2>2 DEF HandlerNext, Submit, PutBank, PutPurchase, RegisterBatches, CreateJob,
         SyncGet, SyncFinish
    <3> QED BY <3>1, <3>2 DEF Fewer, Carries, JobOf
  <2> QED BY <2>1, <2>2
<1>2. ASSUME NEW w \in Workers, WorkerNext(w) PROVE Moves
  <2>1. UNCHANGED <<hpc, redeliveries>>
    BY <1>2 DEF WorkerNext, Take, MarkRunning, GetInputs, SaveCases, RecordDone, MarkSucceeded,
       SaveResults, SaveReport, RecordFailure, MarkFailed, Retry, Ack
  <2>2. CASE Take(w)
    <3>1. PICK m \in queue : queue' = queue \ {m} /\ task' = [task EXCEPT ![w] = m]
      BY <2>2 DEF Take
    <3>2. \A v \in Workers \ {w} : Carries(v, j)' => Carries(v, j)
      BY <2>2, <3>1 DEF Take, Carries, JobOf
    <3>3. m.job # j => ~Carries(w, j)'
      BY <3>1 DEF Carries, JobOf
    <3>4. CASE m.job = j
      BY <2>1, <3>1, <3>2, <3>4
    <3>5. CASE m.job # j
      BY <2>1, <3>1, <3>2, <3>3, <3>5 DEF Fewer
    <3> QED BY <3>4, <3>5
  <2>3. CASE Retry(w)
    <3>1. task' = task /\ \A v \in Workers : Carries(v, j)' => Carries(v, j)
      BY <2>3 DEF Retry, Carries, JobOf
    <3>2. CASE CanRetry(task[w])
      <4> DEFINE n == [task[w] EXCEPT !.retries = @ + 1]
      <4>1. queue' = queue \cup {n} /\ wpc[w] = "retry" /\ wpc'[w] = "ack"
        BY <2>3, <3>2 DEF Retry
      <4>2. task[w] \in Message
        BY <4>1, ActiveJob
      <4>3. n.job = JobOf(w) /\ task[w] # None
        BY <4>2, ConstantsAssumption DEF Message, JobOf
      <4>4. n \in queue' /\ \A m \in queue' : m = n \/ m \in queue
        BY <4>1
      <4>5. CASE JobOf(w) = j
        <5>1. Carries(w, j) /\ ~Carries(w, j)'
          BY <4>1, <4>3, <4>5 DEF Carries
        <5> QED BY <2>1, <3>1, <4>4, <5>1
      <4>6. CASE JobOf(w) # j
        BY <2>1, <3>1, <4>3, <4>4, <4>6 DEF Fewer
      <4> QED BY <4>5, <4>6
    <3>3. CASE ~CanRetry(task[w])
      BY <2>1, <2>3, <3>1, <3>3 DEF Retry, Fewer
    <3> QED BY <3>2, <3>3
  <2>4. CASE Ack(w)
    BY <2>1, <2>4 DEF Ack, Release, Fewer, Carries, JobOf
  <2>5. CASE MarkRunning(w) \/ GetInputs(w) \/ SaveCases(w) \/ RecordDone(w) \/ MarkSucceeded(w)
    BY <2>1, <2>5 DEF MarkRunning, GetInputs, SaveCases, RecordDone, MarkSucceeded,
       Fewer, Carries, JobOf
  <2>6. CASE SaveResults(w) \/ SaveReport(w) \/ RecordFailure(w) \/ MarkFailed(w)
    BY <2>1, <2>6 DEF SaveResults, SaveReport, RecordFailure, MarkFailed, Fewer, Carries, JobOf
  <2> QED BY <1>2, <2>2, <2>3, <2>4, <2>5, <2>6 DEF WorkerNext
<1>3. ASSUME NEW r \in Requests, HandlerFails(r) PROVE Moves
  BY <1>3 DEF HandlerFails, Fewer, Carries, JobOf
<1>4. ASSUME NEW w \in Workers, Fault(w) \/ KillChild(w) PROVE Moves
  <2>1. CASE Fault(w)
    BY <2>1 DEF Fault, InTry, Fewer, Carries, JobOf
  <2>2. CASE KillChild(w)
    BY <2>2 DEF KillChild, Release, Fewer, Carries, JobOf
  <2> QED BY <1>4, <2>1, <2>2
<1>5. ASSUME NEW w \in Workers, Redeliver(w) PROVE FALSE
  BY <1>5 DEF Redeliver
<1>6. ASSUME ApiCrash PROVE Moves
  BY <1>6 DEF ApiCrash, Fewer, Carries
<1>7. ASSUME PollBeforeAnyJob \/ UNCHANGED vars PROVE Moves
  BY <1>7 DEF PollBeforeAnyJob, vars, Fewer, Carries, JobOf
<1> HIDE DEF Published, Taken, Again
<1>8. Moves
  BY <1>1, <1>2, <1>3, <1>4, <1>5, <1>6, <1>7 DEF Next, Trouble
<1> QED BY <1>8 DEF Published, Taken, Again

\* A hand-over leaves the giver without the job.
LEMMA OneCarrierStep ==
  ASSUME TypeInv, OneCarrier, [Next]_vars
  PROVE  OneCarrier'
<1> SUFFICES ASSUME redeliveries' = 0, NEW j \in Requests
             PROVE  /\ \A m, n \in queue' : m.job = j /\ n.job = j => m = n
                    /\ \A v, w \in Workers : Carries(v, j)' /\ Carries(w, j)' => v = w
                    /\ \A m \in queue' : m.job = j =>
                         hpc'[j] = "done" /\ \A w \in Workers : ~Carries(w, j)'
                    /\ \A w \in Workers : Carries(w, j)' => hpc'[j] = "done"
  <2>1. \A m \in queue' : m.job \in Requests
    BY TypeStep DEF TypeInv, TypeOK, Message
  <2> QED BY <2>1 DEF OneCarrier
<1>1. redeliveries = 0 /\ (hpc[j] = "done" => hpc'[j] = "done")
  BY CarrierMoves
<1>2. /\ \A m, n \in queue : m.job = j /\ n.job = j => m = n
      /\ \A v, w \in Workers : Carries(v, j) /\ Carries(w, j) => v = w
      /\ \A m \in queue : m.job = j => hpc[j] = "done" /\ \A w \in Workers : ~Carries(w, j)
      /\ \A w \in Workers : Carries(w, j) => hpc[j] = "done"
  BY <1>1 DEF OneCarrier
<1>3. CASE Fewer(j)
  BY <1>1, <1>2, <1>3 DEF Fewer
<1>4. CASE ~Fewer(j)
  BY <1>1, <1>2, <1>4, CarrierMoves
<1> QED BY <1>3, <1>4

LEMMA OneCarrierInvariance == Spec => []OneCarrier
<1>1. Init => OneCarrier
  BY DEF Init, OneCarrier, Carries
<1> QED BY <1>1, OneCarrierStep, TypeInvariance, PTL DEF Spec

(* Handlers, replays of an idempotency key and retries never put a job into    *)
(* two hands: only a broker that redelivers does.                              *)
THEOREM ExecutionSingle == Spec => []SingleExecution
<1>1. OneCarrier => SingleExecution
  <2> SUFFICES ASSUME OneCarrier, redeliveries = 0, NEW j \in Requests PROVE Carriers(j) <= 1
    BY DEF SingleExecution
  <2> DEFINE M == {m \in queue : m.job = j}
             W == {w \in Workers : task[w] # None /\ JobOf(w) = j /\ wpc[w] # "ack"}
  <2>1. M = {} \/ \E m : M = {m}
    BY DEF OneCarrier
  <2>2. W = {} \/ \E w : W = {w}
    <3>1. \A v, w \in W : v = w
      BY DEF OneCarrier, Carries
    <3> QED BY <3>1
  <2>3. M = {} \/ W = {}
    BY DEF OneCarrier, Carries
  <2>4. Carriers(j) = Cardinality(M) + Cardinality(W)
    BY DEF Carriers
  <2> HIDE DEF M, W
  <2>5. M = {} \/ Cardinality(M) = 1
    BY <2>1, FS_Singleton
  <2>6. W = {} \/ Cardinality(W) = 1
    BY <2>2, FS_Singleton
  <2> QED BY <2>3, <2>4, <2>5, <2>6, FS_EmptySet
<1> QED BY <1>1, OneCarrierInvariance, PTL

\* Nobody else writes the row between a worker's success and its report.
LEMMA ReportFollowsStep ==
  ASSUME TypeInv, OneCarrier, ReportFollows, [Next]_vars
  PROVE  ReportFollows'
<1> SUFFICES ASSUME redeliveries' = 0 PROVE ReportFollows'
  BY DEF ReportFollows
<1>0. redeliveries = 0 \/ Requests = {}
  BY CarrierMoves
<1>1. ASSUME NEW w \in Workers, wpc'[w] \in {"saveResults", "saveReport"}
      PROVE  jobs'[JobOf(w)'].result = read'[w]
  <2>1. CASE wpc'[w] = wpc[w] /\ task'[w] = task[w] /\ read'[w] = read[w]
    <3> DEFINE j == JobOf(w)
    <3>1. j \in Stored /\ j \in Requests /\ task[w] # None /\ j = JobOf(w)'
      BY <1>1, <2>1, ActiveJob, ConstantsAssumption DEF JobOf, Stored
    <3>2. redeliveries = 0 /\ Carries(w, j) /\ jobs[j].result = read[w]
      BY <1>0, <1>1, <2>1, <3>1 DEF ReportFollows, Carries
    <3>3. ASSUME NEW v \in Workers, MarkRunning(v) \/ MarkSucceeded(v) \/ MarkFailed(v)
          PROVE  JobOf(v) # j
      <4>1. wpc[v] # "idle" /\ wpc[v] # "ack" /\ wpc[v] \notin {"saveResults", "saveReport"}
        BY <3>3 DEF MarkRunning, MarkSucceeded, MarkFailed
      <4>2. task[v] # None /\ v # w
        BY <1>1, <2>1, <4>1 DEF TypeInv, CarriedJobsHaveRows
      <4> QED BY <3>1, <3>2, <4>1, <4>2 DEF OneCarrier, Carries
    <3>4. ASSUME NEW v \in Workers, MarkRunning(v) \/ MarkSucceeded(v) \/ MarkFailed(v)
          PROVE  jobs'[j] = jobs[j]
      BY <3>1, <3>3, <3>4 DEF MarkRunning, MarkSucceeded, MarkFailed, UpdateJob, TypeInv, TypeOK
    <3>5. ASSUME NEW r \in Requests, CreateJob(r) PROVE jobs'[j] = jobs[j]
      BY <3>1, <3>5 DEF CreateJob, TypeInv, TypeOK, HandlersHaveSubmissions
    <3> QED BY <2>1, <3>1, <3>2, <3>4, <3>5, JobsWriters
  <2>2. CASE SaveResults(w)
    <3>1. wpc[w] = "saveResults" /\ UNCHANGED <<jobs, task, read>>
      BY <2>2 DEF SaveResults
    <3>2. JobOf(w) \in Requests
      BY <3>1, ActiveJob DEF Stored
    <3> QED BY <1>0, <3>1, <3>2 DEF ReportFollows, JobOf
  <2>3. CASE MarkSucceeded(w)
    <3>1. wpc[w] # "idle" /\ UNCHANGED <<task, read>>
      BY <2>3 DEF MarkSucceeded
    <3>2. JobOf(w) \in Requests
      BY <3>1, ActiveJob DEF Stored
    <3> QED BY <2>3, <3>1, <3>2 DEF MarkSucceeded, UpdateJob, JobOf, TypeInv, TypeOK
  <2> QED BY <1>1, <2>1, <2>2, <2>3, StepBefore
<1>2. ASSUME NEW j \in Requests, jobs'[j] # None, jobs'[j].status = "succeeded"
      PROVE  Waits(j)' \/ Attempted(j, InFlight)' \/ reports'[j] = jobs'[j].result
  <2>1. ASSUME NEW w \in Workers, SaveReport(w), JobOf(w) = j PROVE reports'[j] = jobs[j].result
    BY <1>0, <1>2, <2>1 DEF SaveReport, ReportFollows, TypeInv, TypeOK
  <2>2. ASSUME NEW w \in Workers, SaveReport(w), JobOf(w) # j PROVE reports'[j] = reports[j]
    BY <2>2 DEF SaveReport, TypeInv, TypeOK
  <2>3. CASE jobs'[j] = jobs[j]
    <3>1. j \in Stored /\ Succeeded(j)
      BY <1>2, <2>3 DEF Stored, Succeeded
    <3>2. Waits(j) \/ Attempted(j, InFlight) \/ reports[j] = jobs[j].result
      BY <1>0, <3>1 DEF ReportFollows
    <3>3. InFlight # Undecided
      BY DEF InFlight, Undecided
    <3>4. CASE Waits(j) \/ Attempted(j, InFlight)
      BY <1>2, <2>1, <2>3, <3>1, <3>3, <3>4, AttemptPersists
    <3>5. CASE reports[j] = jobs[j].result
      BY <2>1, <2>2, <2>3, <3>5, OutputWriters
    <3> QED BY <3>2, <3>4, <3>5
  <2>4. ASSUME NEW w \in Workers, MarkSucceeded(w), JobOf(w) = j PROVE Attempted(j, InFlight)'
    BY <2>4 DEF MarkSucceeded, Attempted, JobOf, InFlight, TypeInv, TypeOK
  <2>5. ASSUME NEW w \in Workers, MarkSucceeded(w), JobOf(w) # j PROVE jobs'[j] = jobs[j]
    BY <2>5 DEF MarkSucceeded, UpdateJob, TypeInv, TypeOK
  <2>6. ASSUME NEW w \in Workers, MarkRunning(w) \/ MarkFailed(w) PROVE jobs'[j] = jobs[j]
    BY <1>2, <2>6 DEF MarkRunning, MarkFailed, UpdateJob, TypeInv, TypeOK
  <2>7. ASSUME NEW r \in Requests, CreateJob(r) PROVE jobs'[j] = jobs[j]
    BY <1>2, <2>7 DEF CreateJob, NewRow, TypeInv, TypeOK
  <2> QED BY <2>3, <2>4, <2>5, <2>6, <2>7, JobsWriters
<1> QED BY <1>1, <1>2 DEF ReportFollows, Succeeded, Stored

LEMMA ReportInvariance == Spec => []ReportFollows
<1>1. Init => ReportFollows
  BY DEF Init, ReportFollows, Succeeded, Stored
<1> QED BY <1>1, ReportFollowsStep, OneCarrierInvariance, TypeInvariance, PTL DEF Spec

(* A job at rest with status succeeded has its report, and without redelivery  *)
(* that report is the result of its row: no retry leaves one attempt's row     *)
(* with another's report.                                                      *)
THEOREM RestingSuccessReported == Spec => []RestingSuccessIsReported
<1>1. TypeInv /\ ReportFollows
        /\ (\A j \in Requests : Succeeded(j) => reports[j] # None \/ j \in Unfinished \cup abandoned)
        => RestingSuccessIsReported
  <2> SUFFICES ASSUME TypeInv, ReportFollows, NEW j \in Requests, Succeeded(j),
                      j \notin Unfinished \cup abandoned, redeliveries = 0
               PROVE  reports[j] = jobs[j].result
    BY DEF RestingSuccessIsReported
  <2>1. ~Waits(j) /\ ~Attempted(j, InFlight)
    BY DEF Waits, Attempted, Unfinished, Undecided, InFlight, TypeInv, CarriedJobsHaveRows
  <2> QED BY <2>1 DEF ReportFollows
<1> QED BY <1>1, ReportInvariance, RestingSuccessHasReport, TypeInvariance, PTL

-----------------------------------------------------------------------------
(* The parts hold together: every state the platform reaches, whatever is      *)
(* retried, killed or redelivered, satisfies the whole invariant that TLC      *)
(* checks on its instance.                                                     *)
THEOREM JobInvariance == Spec => []JobInv
<1> DEFINE Rest == /\ ObjectsUploaded /\ ReadsUploaded /\ OutputsHaveRows
                   /\ OutputsComeFromOwnKeys /\ UnsettledHasAttempt /\ UnreportedHasAttempt
                   /\ FailuresAudited /\ RowsBehindReports
<1>1. Init => Rest
  BY DEF Init, ObjectsUploaded, ReadsUploaded, OutputsHaveRows, OutputsComeFromOwnKeys,
     Outputs, Stored, NothingRead, ObjectKey, UnsettledHasAttempt, UnreportedHasAttempt, Succeeded,
     FailuresAudited, RowsBehindReports
<1>2. TypeInv /\ Rest /\ [Next]_vars => Rest'
  BY ObjectsStep, ReadsStep, OutputsHaveRowsStep, OutputsStep, UnsettledStep, UnreportedStep,
     FailuresStep, ReportedRowsStep
<1>3. TypeInv /\ FreshHandlers /\ SuccessIsBacked /\ OutputsAreAudited
        /\ OneJobPerKeyIfConstrained /\ Rest
        /\ (InputsReady /\ JobInputsDurable) /\ (RowIdsAreOrder /\ AnswersAreOldest)
        /\ OneCarrier /\ ReportFollows
        => JobInv
  BY DEF JobInv
<1> QED BY <1>1, <1>2, <1>3, TypeInvariance, FreshInvariance, SuccessBacked, OutputsAudited,
           OneJobWhileConstrained, InputsDurable, AnswerInvariance, OneCarrierInvariance,
           ReportInvariance, PTL DEF Spec
-----------------------------------------------------------------------------
(* Clients that read a job.                                                   *)

\* Reading changes nothing of a job; the table a read makes is one that a status poll makes.
LEMMA ReadsAreJobSteps == [ReadNext]_readVars => [Next]_vars
<1> SUFFICES ASSUME [ReadNext]_readVars PROVE [Next]_vars
  OBVIOUS
<1>1. CASE GetJob
  <2>1. CASE jobsTable = "absent"
    <3>1. PollBeforeAnyJob
      BY <1>1, <2>1 DEF GetJob, PollBeforeAnyJob, others
    <3> QED BY <3>1 DEF Next
  <2>2. CASE jobsTable # "absent"
    BY <1>1, <2>2 DEF GetJob, others, vars
  <2> QED BY <2>1, <2>2
<1> QED BY <1>1 DEF ReadNext, readVars, Ask, GetReport, CountRows, SelectRows, NextRows, JobStep

(* Everything shown of the platform holds while clients poll, page and export. *)
THEOREM ReadsRefineJobs == ReadSpec => Spec
<1>1. ReadInit => Init
  BY DEF ReadInit
<1> QED BY <1>1, ReadsAreJobSteps, PTL DEF ReadSpec, Spec

\* A client has been told nothing before it asked.
Answered == rpc = "idle" => status = None /\ given = None

\* What a read step tells the client is in the tables, and the tables are backed.
LEMMA RepliesStep ==
  ASSUME TypeInv, SuccessIsBacked, OutputsAreAudited, FailuresAudited, RowsBehindReports,
         Answered, RepliesAreBacked, [ReadNext]_readVars
  PROVE  Answered' /\ RepliesAreBacked'
<1>0. audit \subseteq audit' /\ \A j \in Requests : results[j] \subseteq results'[j]
  BY ReadsAreJobSteps, Growth, ResultsGrow
<1>1. CASE Ask
  BY <1>1, ReadsAssumption DEF Ask, Answered, RepliesAreBacked, Status
<1>2. CASE GetJob
  <2>1. UNCHANGED <<ask, given, audit, results>> /\ rpc' # "idle"
    BY <1>2 DEF GetJob, others, After
  <2>2. ASSUME status' = "succeeded" PROVE \E p \in Pair : Event("completed", ask.job, p) \in audit
    <3>1. ask.job \in Stored /\ jobs[ask.job].status = "succeeded"
      BY <1>2, <2>2, ReadsAssumption DEF GetJob, Own, Status
    <3>2. /\ jobs[ask.job].result \in Parsable
          /\ Event("completed", ask.job, jobs[ask.job].result) \in audit
      BY <3>1 DEF SuccessIsBacked, Succeeded, Stored
    <3> QED BY <3>2, ConstantsAssumption
  <2>3. ASSUME status' = "failed" PROVE Event("failed", ask.job, None) \in audit
    <3>1. ask.job \in Stored /\ jobs[ask.job].status = "failed"
      BY <1>2, <2>3, ReadsAssumption DEF GetJob, Own, Status
    <3> QED BY <3>1 DEF FailuresAudited
  <2> QED BY <2>1, <2>2, <2>3 DEF Answered, RepliesAreBacked, Event
<1>3. CASE GetReport
  <2>1. UNCHANGED <<ask, status, audit, results>> /\ rpc' # "idle"
    BY <1>3 DEF GetReport, vars
  <2>2. CASE given' = given
    BY <2>1, <2>2 DEF Answered, RepliesAreBacked, Event
  <2>3. ASSUME Own, reports[ask.job] # None, given' = reports[ask.job]
        PROVE  Answered' /\ RepliesAreBacked'
    <3>1. ask.job \in Requests
      BY <2>3 DEF Own, Stored
    <3>2. Event("completed", ask.job, given') \in audit
      BY <2>3, <3>1 DEF OutputsAreAudited, Outputs
    <3>3. RowsOf[given'["bank"]] \subseteq {row.record : row \in results[ask.job]}
      BY <2>3, <3>1 DEF RowsBehindReports, RowsSaved
    <3> QED BY <2>1, <3>2, <3>3 DEF Answered, RepliesAreBacked, Event
  <2> QED BY <1>3, <2>2, <2>3 DEF GetReport
<1>4. CASE CountRows \/ SelectRows \/ NextRows
  <2>1. UNCHANGED <<ask, status, given, audit, results>> /\ rpc' # "idle"
    BY <1>4 DEF CountRows, SelectRows, NextRows, vars
  <2> QED BY <2>1 DEF Answered, RepliesAreBacked, Event
<1>5. CASE JobStep \/ UNCHANGED readVars
  <2>1. UNCHANGED <<ask, rpc, status, given>>
    BY <1>5 DEF JobStep, readVars, reader
  <2>2. given # None => ask.job \in Requests
    BY DEF RepliesAreBacked, TypeInv, TypeOK, AuditEvent, Event
  <2>3. given # None =>
          RowsOf[given["bank"]] \subseteq {row.record : row \in results'[ask.job]}
    BY <1>0, <2>2 DEF RepliesAreBacked
  <2> QED BY <1>0, <2>1, <2>3 DEF Answered, RepliesAreBacked, Event
<1> QED BY <1>1, <1>2, <1>3, <1>4, <1>5 DEF ReadNext

(* A client is never told that a job succeeded or failed before that is in the *)
(* audit file, nor given a report whose result rows are not all there.         *)
THEOREM RepliesBacked == ReadSpec => []RepliesAreBacked
<1> DEFINE Audits == FailuresAudited /\ RowsBehindReports
<1>1. Init => Audits
  BY DEF Init, FailuresAudited, RowsBehindReports, Stored
<1>2. TypeInv /\ Audits /\ [Next]_vars => Audits'
  BY FailuresStep, ReportedRowsStep
<1>3. Spec => []Audits
  BY <1>1, <1>2, TypeInvariance, PTL DEF Spec
<1>4. ReadInit => Answered /\ RepliesAreBacked
  BY ReadsAssumption DEF ReadInit, Answered, RepliesAreBacked, Status
<1>5. /\ TypeInv /\ SuccessIsBacked /\ OutputsAreAudited /\ Audits
      /\ Answered /\ RepliesAreBacked /\ [ReadNext]_readVars
      => Answered' /\ RepliesAreBacked'
  BY RepliesStep
<1> HIDE DEF Audits
<1> QED BY <1>3, <1>4, <1>5, ReadsRefineJobs, TypeInvariance, SuccessBacked, OutputsAudited,
           PTL DEF ReadSpec

-----------------------------------------------------------------------------
(* The walk of a job's result rows.                                           *)

\* The key (job, tenant, record) of the results, and what a report was made of.
OneRowPerRecord ==
  \A j \in Requests : /\ IsFiniteSet(results[j])
                      /\ \A x, y \in results[j] : x.record = y.record => x = y
ReportsAreParsable == \A j \in Requests : reports[j] # None => reports[j] \in Parsable

LEMMA OneRowStep ==
  ASSUME TypeInv, OneRowPerRecord, [Next]_vars
  PROVE  OneRowPerRecord'
<1>1. ASSUME NEW w \in Workers, SaveResults(w), NEW j \in Requests
      PROVE  /\ IsFiniteSet(results'[j])
             /\ \A x, y \in results'[j] : x.record = y.record => x = y
  <2>1. CASE JobOf(w) # j
    BY <1>1, <2>1 DEF SaveResults, TypeInv, TypeOK, OneRowPerRecord
  <2>2. CASE JobOf(w) = j
    <3> DEFINE old == results[j]
               fresh == RowsOf[read[w]["bank"]] \ {row.record : row \in old}
               new == {[record |-> x, pair |-> read[w]] : x \in fresh}
    <3>1. results'[j] = old \cup new
      BY <1>1, <2>2 DEF SaveResults, TypeInv, TypeOK
    <3>2. read[w]["bank"] \in Contents
      BY <1>1, ConstantsAssumption
      DEF SaveResults, TypeInv, WorkerProgress, Executed, Pair, Sources
    <3>3. IsFiniteSet(fresh)
      BY <3>2, ReadsAssumption, FS_Subset
    <3>4. IsFiniteSet(new)
      <4> DEFINE f == [z \in new |-> z.record]
      <4>1. f \in Injection(new, fresh)
        BY DEF Injection, IsInjective
      <4> HIDE DEF f, new, fresh
      <4> QED BY <3>3, <4>1, FS_Injection, Zenon
    <3>5. IsFiniteSet(old) /\ \A x, y \in old : x.record = y.record => x = y
      BY DEF OneRowPerRecord
    <3>6. IsFiniteSet(results'[j])
      <4> HIDE DEF old, new
      <4>1. IsFiniteSet(old \cup new)
        BY <3>4, <3>5, FS_Union, Zenon
      <4> QED BY <3>1, <4>1
    <3>7. ASSUME NEW x \in results'[j], NEW y \in results'[j], x.record = y.record PROVE x = y
      <4>1. x \in old \/ x \in new
        BY <3>1
      <4>2. y \in old \/ y \in new
        BY <3>1
      <4>3. \A z \in new : z.record \in fresh /\ z = [record |-> z.record, pair |-> read[w]]
        OBVIOUS
      <4>4. \A z \in old : z.record \notin fresh
        OBVIOUS
      <4> HIDE DEF new, fresh, old
      <4> QED BY <3>5, <3>7, <4>1, <4>2, <4>3, <4>4
    <3> QED BY <3>6, <3>7
  <2> QED BY <2>1, <2>2
<1>2. CASE results' = results
  BY <1>2 DEF OneRowPerRecord
<1> QED BY <1>1, <1>2, OutputWriters DEF OneRowPerRecord

LEMMA ParsableStep ==
  ASSUME TypeInv, ReportsAreParsable, [Next]_vars
  PROVE  ReportsAreParsable'
<1>1. ASSUME NEW w \in Workers, SaveReport(w), NEW j \in Requests, reports'[j] # None
      PROVE  reports'[j] \in Parsable
  BY <1>1 DEF SaveReport, TypeInv, TypeOK, WorkerProgress, Executed, ReportsAreParsable
<1> QED BY <1>1, OutputWriters DEF ReportsAreParsable

\* Rows the client could have seen and has not; the positions its pages have covered.
Unseen == rowsBefore \ shown
Reached == IF rpc = "more" THEN offset + PageLimit ELSE offset

\* Rows only move back as others come in, so what has not been seen is still to come; and
\* what is still to come after a page is counted by the COUNT before it.
ReadInv ==
  /\ ask \in Read \cup {None} /\ offset \in Nat /\ total \in Nat
  /\ rpc = "idle" => shown = {} /\ offset = 0 /\ late = {} /\ rowsBefore = {}
  /\ rpc # "idle" =>
       /\ ask \in Read
       /\ shown \cup rowsBefore \cup late \subseteq results[ask.job]
       /\ reportBefore # None => rowsBefore # {}
  /\ rpc = "job" => ask.endpoint # "export_json"
  /\ rpc = "report" => ask.endpoint \in {"report", "export_json"}
  /\ rpc \in {"count", "select"} => ask.endpoint \in {"results", "export_csv"}
  /\ rpc = "more" => ask.endpoint = "results"
  /\ rpc \in {"job", "count", "select", "more"} =>
       /\ \A row \in Unseen : Reached <= Position(row)
       /\ ask.endpoint = "export_csv" => offset = 0
  /\ rpc = "select" => Cardinality(results[ask.job]) <= total + Cardinality(late)
  /\ rpc = "more" => \/ RowsMissed = 0
                     \/ RowsMissed + offset + PageLimit <= total + Cardinality(late)
  /\ PagesStayTrue

\* The rows that ORDER BY record_id puts before each row.
Smaller(R) == [c \in R |-> {x \in R : x.record < c.record}]

LEMMA SmallerSorted ==
  ASSUME NEW R, IsFiniteSet(R), \A x \in R : x.record \in Nat,
         \A x, y \in R : x.record = y.record => x = y
  PROVE  Sorted(R, Smaller(R))
BY DEF Sorted, Smaller

\* The rows of the job that the client reads, and their positions.
LEMMA RowsOfJob ==
  ASSUME TypeInv, OneRowPerRecord, ask \in Read
  PROVE  /\ ask.job \in Requests /\ IsFiniteSet(results[ask.job])
         /\ Cardinality(results[ask.job]) \in Nat
         /\ Sorted(results[ask.job], Smaller(results[ask.job]))
         /\ \A row \in results[ask.job] :
              /\ Position(row) = Cardinality(Smaller(results[ask.job])[row])
              /\ Position(row) \in Nat /\ Position(row) < Cardinality(results[ask.job])
<1> DEFINE R == results[ask.job]
<1>1. ask.job \in Requests
  BY DEF Read
<1>2. IsFiniteSet(R) /\ \A x, y \in R : x.record = y.record => x = y
  BY <1>1 DEF OneRowPerRecord
<1>3. \A x \in R : x.record \in Nat
  BY <1>1, ReadsAssumption DEF TypeInv, TypeOK
<1>4. Sorted(R, Smaller(R))
  <2> HIDE DEF R
  <2> QED BY <1>2, <1>3, SmallerSorted
<1>5. ASSUME NEW row \in R
      PROVE  /\ Position(row) = Cardinality(Smaller(R)[row])
             /\ Position(row) \in Nat /\ Position(row) < Cardinality(R)
  <2>1. Smaller(R)[row] = {x \in R : x.record < row.record}
    BY DEF Smaller
  <2>2. Position(row) = Cardinality(Smaller(R)[row])
    BY <2>1 DEF Position
  <2>3. Smaller(R)[row] \subseteq R /\ row \notin Smaller(R)[row]
    BY <1>3, <2>1
  <2> HIDE DEF R
  <2>4. /\ Cardinality(Smaller(R)[row]) <= Cardinality(R)
        /\ Cardinality(Smaller(R)[row]) # Cardinality(R)
    BY <1>2, <2>3, FS_Subset
  <2>5. Cardinality(Smaller(R)[row]) \in Nat /\ Cardinality(R) \in Nat
    BY <1>2, <2>3, FS_Subset, FS_CardinalityType
  <2> QED BY <2>2, <2>4, <2>5
<1> QED BY <1>1, <1>2, <1>4, <1>5, FS_CardinalityType

\* Meanwhile handlers and workers go on: rows come in, and none is taken back.
LEMMA ReadMeanwhile ==
  ASSUME TypeInv, OneRowPerRecord, OneRowPerRecord', ReadInv, JobStep, rpc # "idle"
  PROVE  ReadInv'
<1> DEFINE R == results[ask.job]
           T == results'[ask.job]
           new == T \ R
<1>1. /\ UNCHANGED <<ask, rpc, offset, total, shown, rowsBefore, reportBefore>>
      /\ late' = IF rpc = "select" THEN late \cup new ELSE late
  BY DEF JobStep, reader
<1>2. /\ ask \in Read /\ ask.job \in Requests
      /\ shown \cup rowsBefore \cup late \subseteq R
      /\ reportBefore # None => rowsBefore # {}
      /\ offset \in Nat /\ total \in Nat /\ PageLimit \in Nat
  BY ReadsAssumption DEF ReadInv, Read
<1>3. R \subseteq T
  BY <1>2, ReadsAreJobSteps, ResultsGrow DEF JobStep
<1>4. IsFiniteSet(R) /\ IsFiniteSet(T) /\ Cardinality(R) \in Nat /\ Cardinality(T) \in Nat
  BY <1>2, FS_CardinalityType DEF OneRowPerRecord
<1>5. ASSUME NEW row \in Unseen, rpc \in {"job", "count", "select", "more"}
      PROVE  Reached <= Position(row)'
  <2>1. Reached <= Position(row) /\ Reached \in Nat
    BY <1>2, <1>5 DEF ReadInv, Reached
  <2>2. Position(row)' = Cardinality({x \in T : x.record < row.record})
    BY <1>1 DEF Position
  <2>3. {x \in R : x.record < row.record} \subseteq {x \in T : x.record < row.record}
    BY <1>3
  <2>4. IsFiniteSet({x \in T : x.record < row.record})
    BY <1>4, FS_Subset
  <2>5. /\ Cardinality({x \in R : x.record < row.record})
             <= Cardinality({x \in T : x.record < row.record})
        /\ Cardinality({x \in R : x.record < row.record}) \in Nat
        /\ Cardinality({x \in T : x.record < row.record}) \in Nat
    BY <2>3, <2>4, FS_Subset, FS_CardinalityType
  <2> QED BY <2>1, <2>2, <2>5 DEF Position
<1>6. ASSUME rpc = "select" PROVE Cardinality(T) <= total + Cardinality(late')
  <2>1. Cardinality(R) <= total + Cardinality(late) /\ late \subseteq R /\ late' = late \cup new
    BY <1>1, <1>2, <1>6 DEF ReadInv
  <2>2. IsFiniteSet(late) /\ IsFiniteSet(new) /\ late \cap new = {} /\ R \cap new = {}
        /\ T = R \cup new
    BY <1>3, <1>4, <2>1, FS_Subset
  <2> HIDE DEF R, T, new
  <2>3. /\ Cardinality(late \cup new) = Cardinality(late) + Cardinality(new)
        /\ Cardinality(R \cup new) = Cardinality(R) + Cardinality(new)
        /\ Cardinality(late) \in Nat /\ Cardinality(new) \in Nat
    BY <1>4, <2>2, DisjointUnion
  <2> QED BY <1>2, <1>4, <2>1, <2>2, <2>3
<1>7. shown' \cup rowsBefore' \cup late' \subseteq results'[ask'.job]
  BY <1>1, <1>2, <1>3
<1>8. Unseen' = Unseen /\ Reached' = Reached /\ RowsMissed' = RowsMissed
  BY <1>1 DEF Unseen, Reached, RowsMissed
<1>9. rpc' \in {"job", "count", "select", "more"} =>
        /\ \A row \in Unseen' : Reached' <= Position(row)'
        /\ ask'.endpoint = "export_csv" => offset' = 0
  BY <1>1, <1>5, <1>8 DEF ReadInv
<1>10. Cardinality(T) >= Cardinality(R)
  <2> HIDE DEF R, T
  <2> QED BY <1>3, <1>4, FS_Subset
<1>11. PagesStayTrue'
  <2>1. \A row \in shown' : row \in results'[ask'.job]
    BY <1>7
  <2>2. rpc = "done" /\ ask.endpoint = "export_csv" =>
          rowsBefore \subseteq shown \/ Cardinality(T) > ExportLimit
    BY <1>4, <1>10, ReadsAssumption DEF ReadInv, PagesStayTrue
  <2>3. /\ rpc = "stopped" => RowsMissed <= Cardinality(late)
        /\ rpc = "done" /\ ask.endpoint = "results" => rowsBefore \subseteq shown
        /\ rpc = "error" => rowsBefore = {} /\ reportBefore = None
    BY DEF ReadInv, PagesStayTrue
  <2> QED BY <1>1, <1>8, <2>1, <2>2, <2>3 DEF PagesStayTrue
<1>12. /\ rpc' = "select" => Cardinality(results'[ask'.job]) <= total' + Cardinality(late')
       /\ rpc' = "more" => \/ RowsMissed' = 0
                           \/ RowsMissed' + offset' + PageLimit' <= total' + Cardinality(late')
  BY <1>1, <1>6, <1>8 DEF ReadInv
<1>13. /\ rpc' = "job" => ask'.endpoint # "export_json"
       /\ rpc' = "report" => ask'.endpoint \in {"report", "export_json"}
       /\ rpc' \in {"count", "select"} => ask'.endpoint \in {"results", "export_csv"}
       /\ rpc' = "more" => ask'.endpoint = "results"
  BY <1>1 DEF ReadInv
<1> QED BY <1>1, <1>2, <1>7, <1>9, <1>11, <1>12, <1>13 DEF ReadInv

\* The page: nothing before it is left out, and an empty one is behind all rows.
LEMMA ReadPage ==
  ASSUME TypeInv, OneRowPerRecord, ReadInv, SelectRows
  PROVE  ReadInv'
<1> DEFINE R == results[ask.job]
           P == Smaller(R)
<1>1. /\ UNCHANGED <<ask, offset, total, rowsBefore, reportBefore, late, results>>
      /\ rpc = "select" /\ shown' = shown \cup RowPage
      /\ rpc' = IF RowPage = {} \/ ask.endpoint = "export_csv" THEN "done" ELSE "more"
  BY DEF SelectRows, vars
<1>2. /\ ask \in Read /\ ask.endpoint \in {"results", "export_csv"}
      /\ shown \cup rowsBefore \cup late \subseteq R
      /\ reportBefore # None => rowsBefore # {}
      /\ offset \in Nat /\ total \in Nat /\ PageLimit \in Nat /\ ExportLimit \in Nat
      /\ PageLimit > 0
      /\ ask.endpoint = "export_csv" => offset = 0
      /\ Cardinality(R) <= total + Cardinality(late)
  BY <1>1, ReadsAssumption DEF ReadInv
<1>3. /\ IsFiniteSet(R) /\ Cardinality(R) \in Nat /\ Sorted(R, P)
      /\ \A row \in R : /\ Position(row) = Cardinality(P[row])
                        /\ Position(row) \in Nat /\ Position(row) < Cardinality(R)
  BY <1>2, RowsOfJob
<1>4. \A row \in Unseen : row \in R /\ offset <= Position(row)
  BY <1>1, <1>2 DEF ReadInv, Unseen, Reached
<1>5. ASSUME NEW row \in Unseen' PROVE row \in R /\ row \in Unseen /\ offset + RowLimit <= Position(row)
  <2>1. row \in Unseen /\ row \notin RowPage
    BY <1>1 DEF Unseen
  <2>2. ~(Position(row) < offset + RowLimit)
    BY <1>4, <2>1 DEF RowPage
  <2>3. offset + RowLimit \in Nat
    BY <1>2 DEF RowLimit
  <2> QED BY <1>3, <1>4, <2>1, <2>2, <2>3
<1>6. shown' \cup rowsBefore \cup late \subseteq R /\ RowPage \subseteq R
  BY <1>1, <1>2 DEF RowPage
<1>7. CASE RowPage = {}
  <2>1. Leading(R, P, offset) = R
    <3>1. SUFFICES ASSUME Leading(R, P, offset) # R PROVE FALSE
      OBVIOUS
    <3>2. PICK m \in R : Cardinality(P[m]) = offset
      <4> HIDE DEF R, P
      <4> QED BY <1>2, <1>3, <3>1, FirstAtLeast
    <3>3. offset < offset + RowLimit
      BY <1>2, ReadsAssumption DEF RowLimit
    <3>4. m \in RowPage
      BY <1>2, <1>3, <3>2, <3>3 DEF RowPage
    <3> QED BY <1>7, <3>4
  <2>2. Unseen = {}
    <3>1. \A row \in R : Position(row) < offset
      BY <1>3, <2>1 DEF Leading
    <3> QED BY <1>2, <1>3, <1>4, <3>1
  <2>3. rpc' = "done" /\ rowsBefore \subseteq shown'
    BY <1>1, <1>7, <2>2 DEF Unseen
  <2>4. PagesStayTrue'
    BY <1>1, <1>6, <2>3 DEF PagesStayTrue
  <2> QED BY <1>1, <1>2, <1>6, <2>3, <2>4 DEF ReadInv
<1>8. CASE RowPage # {} /\ ask.endpoint = "export_csv"
  <2>1. rpc' = "done"
    BY <1>1, <1>8
  <2>2. rowsBefore \subseteq shown' \/ Cardinality(R) > ExportLimit
    <3>1. SUFFICES ASSUME NEW row \in rowsBefore, row \notin shown' PROVE Cardinality(R) > ExportLimit
      OBVIOUS
    <3>2. row \in Unseen'
      BY <1>1, <3>1 DEF Unseen
    <3>3. ExportLimit <= Position(row)
      BY <1>2, <1>5, <1>8, <3>2 DEF RowLimit
    <3> QED BY <1>2, <1>3, <1>5, <3>2, <3>3
  <2>3. PagesStayTrue'
    BY <1>1, <1>6, <1>8, <2>1, <2>2 DEF PagesStayTrue
  <2> QED BY <1>1, <1>2, <1>6, <2>1, <2>3 DEF ReadInv
<1>9. CASE RowPage # {} /\ ask.endpoint # "export_csv"
  <2> DEFINE rest == R \ Leading(R, P, offset + PageLimit)
  <2>1. rpc' = "more" /\ ask.endpoint = "results" /\ RowLimit = PageLimit
    BY <1>1, <1>2, <1>9 DEF RowLimit
  <2>2. Reached' = offset + PageLimit
    BY <1>1, <2>1 DEF Reached
  <2>3. ASSUME NEW row \in Unseen' PROVE Reached' <= Position(row)'
    <3>1. Position(row)' = Position(row)
      BY <1>1 DEF Position
    <3> QED BY <1>5, <2>1, <2>2, <3>1
  <2>4. Unseen' \subseteq rest
    <3> SUFFICES ASSUME NEW row \in Unseen' PROVE row \in rest
      OBVIOUS
    <3>1. row \in R /\ offset + PageLimit <= Cardinality(P[row])
      BY <1>3, <1>5, <2>1
    <3>2. Cardinality(P[row]) \in Nat
      BY <1>3, <3>1
    <3> HIDE DEF R, P
    <3> QED BY <1>2, <3>1, <3>2 DEF Leading
  <2>5. RowsMissed' = Cardinality(Unseen')
    BY DEF RowsMissed, Unseen
  <2>6. IsFiniteSet(rest) /\ Cardinality(rest) \in Nat
    <3> HIDE DEF R, P
    <3> QED BY <1>3, FS_Subset, FS_CardinalityType
  <2>7. Cardinality(Unseen') <= Cardinality(rest) /\ Cardinality(Unseen') \in Nat
    <3> HIDE DEF rest
    <3> QED BY <2>4, <2>6, FS_Subset, FS_CardinalityType
  <2>8. Cardinality(late) \in Nat
    <3> HIDE DEF R
    <3> QED BY <1>2, <1>3, FS_Subset, FS_CardinalityType
  <2>9. RowsMissed' = 0 \/ RowsMissed' + offset + PageLimit <= total + Cardinality(late)
    <3>1. CASE rest = {}
      <4>1. Unseen' = {}
        BY <2>4, <3>1
      <4> QED BY <2>5, <4>1, FS_EmptySet
    <3>2. CASE rest # {}
      <4>1. Leading(R, P, offset + PageLimit) # R /\ offset + PageLimit \in Nat
        BY <1>2, <3>2
      <4>2. Cardinality(rest) + (offset + PageLimit) = Cardinality(R)
        <5> HIDE DEF R, P
        <5> QED BY <1>3, <4>1, RestAtMost
      <4> HIDE DEF rest
      <4> QED BY <1>2, <1>3, <2>5, <2>6, <2>7, <2>8, <4>2
    <3> QED BY <3>1, <3>2
  <2>10. PagesStayTrue'
    BY <1>1, <1>6, <2>1 DEF PagesStayTrue
  <2> QED BY <1>1, <1>2, <1>6, <2>1, <2>3, <2>9, <2>10 DEF ReadInv
<1> QED BY <1>7, <1>8, <1>9

LEMMA ReadInvStep ==
  ASSUME TypeInv, OneRowPerRecord, OneRowPerRecord', RowsBehindReports, ReportsAreParsable,
         ReadInv, [ReadNext]_readVars
  PROVE  ReadInv'
<1>0. /\ ask \in Read \cup {None} /\ offset \in Nat /\ total \in Nat /\ PageLimit \in Nat
      /\ offset + PageLimit \in Nat
  BY ReadsAssumption DEF ReadInv
<1>1. ASSUME Ask PROVE ReadInv'
  <2>1. PICK q \in Read :
          /\ ask' = q /\ rowsBefore' = results[q.job] /\ reportBefore' = reports[q.job]
          /\ rpc' = IF q.endpoint = "export_json" THEN "report" ELSE "job"
    BY <1>1 DEF Ask
  <2>2. /\ UNCHANGED <<results, reports, offset, total, shown, late>>
        /\ shown = {} /\ offset = 0 /\ late = {}
    BY <1>1 DEF Ask, vars, ReadInv
  <2>3. q.job \in Requests
    BY DEF Read
  <2>4. ASSUME reports[q.job] # None PROVE results[q.job] # {}
    <3>1. reports[q.job] \in Parsable /\ RowsSaved(q.job, reports[q.job])
      BY <2>3, <2>4 DEF RowsBehindReports, ReportsAreParsable
    <3>2. RowsOf[reports[q.job]["bank"]] # {}
      BY <3>1, ReadsAssumption
    <3> QED BY <3>1, <3>2 DEF RowsSaved
  <2>5. ASSUME NEW row \in Unseen', rpc' = "job" PROVE Reached' <= Position(row)'
    <3>1. Position(row)' = Cardinality({x \in results[q.job] : x.record < row.record})
      BY <2>1, <2>2 DEF Position
    <3>2. IsFiniteSet({x \in results[q.job] : x.record < row.record})
      BY <2>3, FS_Subset DEF OneRowPerRecord
    <3>3. Position(row)' \in Nat
      BY <3>1, <3>2, FS_CardinalityType
    <3>4. Reached' = 0
      BY <2>2, <2>5 DEF Reached
    <3> QED BY <3>3, <3>4
  <2>6. PagesStayTrue'
    BY <2>1, <2>2 DEF PagesStayTrue
  <2>7. rpc' \in {"job", "report"} /\ (rpc' = "report" <=> q.endpoint = "export_json")
    BY <2>1
  <2> QED BY <1>0, <2>1, <2>2, <2>4, <2>5, <2>6, <2>7 DEF ReadInv
<1>2. ASSUME GetJob \/ GetReport \/ CountRows \/ NextRows, UNCHANGED results PROVE ReadInv'
  <2>1. /\ UNCHANGED <<ask, shown, rowsBefore, reportBefore>> /\ rpc # "idle" /\ rpc' # "idle"
        /\ ask \in Read /\ shown \cup rowsBefore \cup late \subseteq results[ask.job]
        /\ reportBefore # None => rowsBefore # {}
    BY <1>2 DEF GetJob, GetReport, CountRows, NextRows, ReadInv, After
  <2>2. Unseen' = Unseen /\ RowsMissed' = RowsMissed /\ \A row : Position(row)' = Position(row)
    BY <1>2, <2>1 DEF Unseen, RowsMissed, Position
  <2>3. \A row \in shown' : row \in results'[ask'.job]
    BY <1>2, <2>1
  <2>4. CASE GetJob
    <3>1. UNCHANGED <<offset, total, late>> /\ rpc = "job"
      BY <2>4 DEF GetJob
    <3>2. ask.endpoint # "export_json" /\ (ask.endpoint = "export_csv" => offset = 0)
          /\ \A row \in Unseen : offset <= Position(row)
      BY <3>1 DEF ReadInv, Reached
    <3>3. \/ rpc' = "refused"
          \/ rpc' = "done" /\ ask.endpoint = "status"
          \/ rpc' = "count" /\ ask.endpoint \in {"results", "export_csv"}
          \/ rpc' = "report" /\ ask.endpoint = "report"
      BY <2>4 DEF GetJob, After
    <3>4. rpc' = "count" => Reached' = offset
      BY <3>1 DEF Reached
    <3>5. PagesStayTrue'
      BY <2>1, <2>3, <3>3 DEF PagesStayTrue
    <3> QED BY <1>0, <1>2, <2>1, <2>2, <3>1, <3>2, <3>3, <3>4, <3>5 DEF ReadInv
  <2>5. CASE GetReport
    <3>1. UNCHANGED <<offset, total, late>> /\ rpc = "report" /\ rpc' \in {"done", "refused"}
      BY <2>5 DEF GetReport
    <3>2. ask.endpoint \in {"report", "export_json"}
      BY <3>1 DEF ReadInv
    <3>3. PagesStayTrue'
      BY <2>1, <2>3, <3>1, <3>2 DEF PagesStayTrue
    <3> QED BY <1>0, <1>2, <2>1, <3>1, <3>3 DEF ReadInv
  <2>6. CASE CountRows
    <3>1. offset' = offset /\ rpc = "count" /\ late' = {}
      BY <2>6 DEF CountRows
    <3>2. /\ ask.endpoint \in {"results", "export_csv"} /\ (ask.endpoint = "export_csv" => offset = 0)
          /\ \A row \in Unseen : offset <= Position(row)
      BY <3>1 DEF ReadInv, Reached
    <3>3. Cardinality(results[ask.job]) \in Nat /\ ask.job \in Requests /\ Cardinality({}) = 0
      BY <2>1, RowsOfJob, FS_EmptySet
    <3>4. CASE ResultsTable
      <4>1. rpc' = "select" /\ total' = Cardinality(results[ask.job])
        BY <2>6, <3>4 DEF CountRows
      <4>2. Reached' = offset
        BY <3>1, <4>1 DEF Reached
      <4>3. PagesStayTrue'
        BY <2>3, <4>1 DEF PagesStayTrue
      <4> QED BY <1>0, <1>2, <2>1, <2>2, <3>1, <3>2, <3>3, <4>1, <4>2, <4>3 DEF ReadInv
    <3>5. CASE ~ResultsTable
      <4>1. rpc' = "error" /\ total' = total
        BY <2>6, <3>5 DEF CountRows
      <4>2. results[ask.job] = {}
        BY <3>3, <3>5 DEF ResultsTable
      <4>3. rowsBefore = {} /\ reportBefore = None
        BY <2>1, <4>2
      <4>4. PagesStayTrue'
        BY <2>1, <2>3, <4>1, <4>3 DEF PagesStayTrue
      <4> QED BY <1>0, <1>2, <2>1, <3>1, <4>1, <4>4 DEF ReadInv
    <3> QED BY <3>4, <3>5
  <2>7. CASE NextRows
    <3>1. UNCHANGED <<total, late>> /\ rpc = "more"
      BY <2>7 DEF NextRows
    <3>2. /\ ask.endpoint = "results" /\ \A row \in Unseen : offset + PageLimit <= Position(row)
          /\ RowsMissed = 0 \/ RowsMissed + offset + PageLimit <= total + Cardinality(late)
      BY <3>1 DEF ReadInv, Reached
    <3>3. CASE rpc' = "job" /\ offset' = offset + PageLimit
      <4>1. Reached' = offset + PageLimit
        BY <3>3 DEF Reached
      <4>2. PagesStayTrue'
        BY <2>3, <3>3 DEF PagesStayTrue
      <4> QED BY <1>0, <1>2, <2>1, <2>2, <3>1, <3>2, <3>3, <4>1, <4>2 DEF ReadInv
    <3>4. CASE rpc' = "stopped" /\ total <= offset + PageLimit /\ offset' = offset
      <4>1. IsFiniteSet(results[ask.job]) /\ rowsBefore \subseteq results[ask.job]
            /\ late \subseteq results[ask.job]
        BY <2>1, RowsOfJob
      <4>2. RowsMissed \in Nat /\ Cardinality(late) \in Nat
        BY <4>1, FS_Subset, FS_CardinalityType DEF RowsMissed
      <4>3. RowsMissed <= Cardinality(late)
        BY <1>0, <3>2, <3>4, <4>2
      <4>4. PagesStayTrue'
        BY <2>2, <2>3, <3>1, <3>4, <4>3 DEF PagesStayTrue
      <4> QED BY <1>0, <1>2, <2>1, <3>1, <3>4, <4>4 DEF ReadInv
    <3> QED BY <2>7, <3>3, <3>4 DEF NextRows
  <2> QED BY <1>2, <2>4, <2>5, <2>6, <2>7
<1>3. ASSUME JobStep, rpc = "idle" PROVE ReadInv'
  BY <1>3 DEF JobStep, reader, ReadInv, PagesStayTrue
<1>4. CASE UNCHANGED readVars
  BY <1>4 DEF readVars, reader, vars, ReadInv, PagesStayTrue, RowsMissed, Unseen, Reached, Position
<1>5. GetJob \/ GetReport \/ CountRows \/ NextRows => UNCHANGED results
  BY DEF GetJob, others, GetReport, CountRows, NextRows, vars
<1> QED BY <1>1, <1>2, <1>3, <1>4, <1>5, ReadPage, ReadMeanwhile DEF ReadNext

(* What a client reads page by page stays true while attempts go on saving, for *)
(* any page size, any files and any number of workers: see PagesStayTrue.       *)
THEOREM PagesTrue == ReadSpec => []PagesStayTrue
<1> DEFINE Tables == OneRowPerRecord /\ ReportsAreParsable /\ RowsBehindReports
<1>1. Init => Tables
  BY FS_EmptySet DEF Init, OneRowPerRecord, ReportsAreParsable, RowsBehindReports
<1>2. TypeInv /\ Tables /\ [Next]_vars => Tables'
  BY OneRowStep, ParsableStep, ReportedRowsStep
<1>3. Spec => []Tables
  BY <1>1, <1>2, TypeInvariance, PTL DEF Spec
<1>4. ReadInit => ReadInv
  BY DEF ReadInit, ReadInv, PagesStayTrue
<1>5. TypeInv /\ Tables /\ Tables' /\ ReadInv /\ [ReadNext]_readVars => ReadInv'
  BY ReadInvStep
<1>6. ReadInv => PagesStayTrue
  BY DEF ReadInv
<1> HIDE DEF Tables
<1> QED BY <1>3, <1>4, <1>5, <1>6, ReadsRefineJobs, TypeInvariance, PTL DEF ReadSpec
==============================================================================
