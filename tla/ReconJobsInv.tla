---------------------------- MODULE ReconJobsInv ----------------------------
(***************************************************************************)
(* The inductive invariant behind the safety properties of ReconJobs.      *)
(***************************************************************************)
EXTENDS ReconJobsProps

\* Steps at which a worker holds the pair the pipeline accepted, and has audited it.
Executed == {"recordDone", "markSucceeded", "saveResults", "saveReport"}
Audited == Executed \ {"recordDone"}

\* A handler past validation has a submission; a row belongs to a handler that made it.
HandlersHaveSubmissions ==
  \A r \in Requests :
    /\ hpc[r] # "new" => req[r] # None
    /\ r \in Stored => hpc[r] \in {"dispatch", "done", "failed"}
    /\ hpc[r] = "dispatch" => r \in Stored

\* A handler that has not begun was sent nothing yet.
FreshHandlers == \A r \in Requests : hpc[r] = "new" => req[r] = None

\* Only existing jobs are in the queue or executed.
CarriedJobsHaveRows ==
  /\ \A m \in queue : m.job \in Stored
  /\ \A w \in Workers :
       /\ wpc[w] = "idle" <=> task[w] = None
       /\ task[w] # None => JobOf(w) \in Stored

\* What a worker has done so far, by its program counter.
WorkerProgress ==
  \A w \in Workers :
    /\ wpc[w] \in Executed =>
         read[w] \in Parsable /\ CaseSet(TenantOf(JobOf(w)), read[w]) \in cases
    /\ wpc[w] \in Audited => Event("completed", JobOf(w), read[w]) \in audit

TypeInv == TypeOK /\ HandlersHaveSubmissions /\ CarriedJobsHaveRows
           /\ WorkerProgress

\* Only a job that has a row has outputs.
OutputsHaveRows ==
  \A j \in Requests : results[j] # {} \/ reports[j] # None => j \in Stored

\* Where the contents a worker holds come from.
ObjectsUploaded ==
  \A t \in Tenants, s \in Sources, n \in Names :
    objects[<<t, s, n>>] # None => Upload(t, s, n, objects[<<t, s, n>>]) \in uploads
ReadsUploaded ==
  \A w \in Workers :
    /\ wpc[w] = "idle" => read[w] = NothingRead
    /\ wpc[w] # "idle" => \A s \in Sources : read[w][s] # None =>
         Upload(TenantOf(JobOf(w)), s, req[JobOf(w)].name, read[w][s]) \in uploads

\* Steps of an attempt that has not yet settled its job, and those after it did.
Undecided == {"markRunning", "getBank", "getPurchase", "saveCases", "recordDone",
              "markSucceeded", "recordFailure", "markFailed", "retry"}
InFlight == Undecided \cup {"saveResults", "saveReport"}
Waits(j) == (\E m \in queue : m.job = j) \/ hpc[j] = "dispatch" \/ j \in abandoned
Attempted(j, steps) == \E w \in Workers : wpc[w] \in steps /\ JobOf(w) = j

\* An unsettled job has an attempt ahead of it or one that is yet to settle it.
UnsettledHasAttempt ==
  Constrained => \A j \in Stored : Settled(j) \/ Waits(j) \/ Attempted(j, Undecided)

\* A succeeded job without a report has an attempt that is not over.
UnreportedHasAttempt ==
  \A j \in Requests : Succeeded(j) =>
    reports[j] # None \/ Waits(j) \/ Attempted(j, InFlight)

\* A failed job was audited as failed before its row said so.
FailuresAudited ==
  /\ \A w \in Workers : wpc[w] = "markFailed" => Event("failed", JobOf(w), None) \in audit
  /\ \A j \in Stored : jobs[j].status = "failed" => Event("failed", j, None) \in audit

\* A report is saved when there is a result row for every record of its bank file.
RowsSaved(j, pair) == RowsOf[pair["bank"]] \subseteq {row.record : row \in results[j]}
RowsBehindReports ==
  /\ \A w \in Workers : wpc[w] = "saveReport" => RowsSaved(JobOf(w), read[w])
  /\ \A j \in Requests : reports[j] # None => RowsSaved(j, reports[j])

\* How far the inputs of a submission are, by the next call of its handler.
BothStored(r) == \A s \in Sources : objects[ObjKey(r, s)] # None
BothRegistered(r) == \A s \in Sources : Batch(TenantOf(r), s, req[r].file[s]) \in batches
InputsReady ==
  \A r \in Requests :
    /\ hpc[r] = "putPurchase" /\ req[r].kind = "async" => objects[ObjKey(r, "bank")] # None
    /\ hpc[r] = "register" /\ req[r].kind = "async" => BothStored(r)
    /\ hpc[r] = "createJob" => BothStored(r) /\ BothRegistered(r)

\* Rows carry their insertion order, and a keyed answer is the oldest row of its key.
RowIdsAreOrder ==
  /\ \A j \in Stored : jobs[j].rowid < Cardinality(Stored)
  /\ \A i, j \in Stored : jobs[i].rowid = jobs[j].rowid => i = j
AnswersAreOldest ==
  \A a \in Requests : answer[a] # None =>
    /\ hpc[a] \in {"dispatch", "done", "failed"}
    /\ answer[a] \in Stored /\ TenantOf(answer[a]) = TenantOf(a)
    /\ req[a].key # None =>
         /\ req[answer[a]].key = req[a].key
         /\ \A j \in SameKey(a) : jobs[answer[a]].rowid <= jobs[j].rowid

\* Without redelivery a dispatched job has one message or one executing worker at most.
Carries(w, j) == task[w] # None /\ JobOf(w) = j /\ wpc[w] # "ack"
OneCarrier ==
  redeliveries = 0 =>
    /\ \A m, n \in queue : m.job = n.job => m = n
    /\ \A v, w \in Workers, j \in Requests : Carries(v, j) /\ Carries(w, j) => v = w
    /\ \A m \in queue : hpc[m.job] = "done" /\ \A w \in Workers : ~Carries(w, m.job)
    /\ \A w \in Workers, j \in Requests : Carries(w, j) => hpc[j] = "done"

\* So the row of a job keeps the result its attempt goes on to report.
ReportFollows ==
  redeliveries = 0 =>
    /\ \A w \in Workers : wpc[w] \in {"saveResults", "saveReport"} =>
         jobs[JobOf(w)].result = read[w]
    /\ \A j \in Requests : Succeeded(j) =>
         Waits(j) \/ Attempted(j, InFlight) \/ reports[j] = jobs[j].result

JobInv ==
  /\ TypeInv /\ FreshHandlers
  /\ SuccessIsBacked /\ OutputsHaveRows /\ OutputsAreAudited
  /\ ObjectsUploaded /\ ReadsUploaded /\ OutputsComeFromOwnKeys
  /\ UnsettledHasAttempt /\ UnreportedHasAttempt
  /\ OneJobPerKeyIfConstrained /\ FailuresAudited /\ RowsBehindReports
  /\ InputsReady /\ JobInputsDurable
  /\ RowIdsAreOrder /\ AnswersAreOldest /\ OneCarrier /\ ReportFollows
=============================================================================
