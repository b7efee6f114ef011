--------------------------- MODULE ReconJobsProps ---------------------------
(***************************************************************************)
(* Correctness properties of the job subsystem modelled in ReconJobs.      *)
(***************************************************************************)
EXTENDS ReconJobs

Settled(j) == jobs[j].status \in {"succeeded", "failed"}
Succeeded(j) == j \in Stored /\ jobs[j].status = "succeeded"
Constrained == jobsTable # "bare"
Outputs(j) ==
  ({reports[j]} \cup {row.pair : row \in results[j]}
     \cup (IF j \in Stored THEN {jobs[j].result} ELSE {})) \ {None}

(* What a job row promises about its inputs: by the time the row exists, both *)
(* files are in the object store and both batches are registered, so a worker *)
(* that takes the message never looks for a missing object.                   *)
JobInputsDurable ==
  \A j \in Stored : \A s \in Sources :
    /\ objects[ObjKey(j, s)] # None
    /\ Batch(TenantOf(j), s, req[j].file[s]) \in batches

(* A job whose status is succeeded has had its review cases saved and its     *)
(* completion audited for exactly the result its row carries, whichever       *)
(* attempt, retry or duplicate delivery wrote the row last.                   *)
SuccessIsBacked ==
  \A j \in Requests : Succeeded(j) =>
    /\ jobs[j].result \in Parsable
    /\ CaseSet(TenantOf(j), jobs[j].result) \in cases
    /\ Event("completed", j, jobs[j].result) \in audit

(* Everything stored for a job (result, result rows, report) was computed from *)
(* contents that some request had put under the job's own tenant-scoped keys:  *)
(* no attempt, retry or crash makes a job report on another tenant's files.    *)
OutputsComeFromOwnKeys ==
  \A j \in Requests : \A pair \in Outputs(j) : \A s \in Sources :
    Upload(TenantOf(j), s, req[j].name, pair[s]) \in uploads

(* When no other submission replaced the job's objects, every attempt agrees:  *)
(* results, rows and report are those of the files that were submitted.        *)
UndisturbedOutputsAreOwn ==
  \A j \in Stored :
    (\A u \in uploads :
       u.tenant = TenantOf(j) /\ u.name = req[j].name => u.content = req[j].file[u.source])
    => \A pair \in Outputs(j) : pair = req[j].file

(* A stored report and a stored result row were audited as completed with the  *)
(* pair they were computed from.                                               *)
OutputsAreAudited ==
  \A j \in Requests : \A pair \in Outputs(j) : Event("completed", j, pair) \in audit

(* Job rows are not forgotten: an unsettled job is about to be dispatched, is  *)
(* in the queue or is held by a worker, unless its last carrier died without   *)
(* handing it on.                                                              *)
UnsettledIsCarried ==
  Constrained =>
    \A j \in Stored : Settled(j) \/ j \in Unfinished \/ j \in abandoned

(* Reuse of an idempotency key never makes a second job row of the tenant.     *)
OneJobPerKey ==
  \A i, j \in Stored :
    req[i].key # None /\ req[i].key = req[j].key /\ TenantOf(i) = TenantOf(j) => i = j
OneJobPerKeyIfConstrained == Constrained => OneJobPerKey

(* Two submissions of one tenant with one key are answered with the same job,  *)
(* whatever was crashed, retried or polled in between, and it is the tenant's. *)
AnswersAgree ==
  \A a, b \in {r \in Requests : answer[r] # None} :
    /\ answer[a] \in Stored /\ TenantOf(answer[a]) = TenantOf(a)
    /\ req[a].key # None /\ req[a].key = req[b].key /\ TenantOf(a) = TenantOf(b)
         => answer[a] = answer[b]

(* The job table implements the abstract contract of the header: what a client *)
(* sent is its tenant and key, a slot belongs to the first row inserted for it, *)
(* and the answers given are the replies.  So a reused key is never answered    *)
(* with a fresh row, even where create_job inserts one.                         *)
SentAs == [r \in Requests |-> IF req[r] = None THEN None ELSE <<req[r].tenant, req[r].key>>]
KeyRows(slot) == {j \in Stored : <<req[j].tenant, req[j].key>> = slot}
FirstRow(rows) == CHOOSE j \in rows : \A i \in rows : jobs[j].rowid <= jobs[i].rowid
KeyOwner ==
  [slot \in Tenants \X Keys |->
     IF KeyRows(slot) = {} THEN None ELSE FirstRow(KeyRows(slot))]
Submission ==
  INSTANCE IdempotentSubmission WITH sent <- SentAs, owner <- KeyOwner, reply <- answer
ImplementsIdempotentSubmission == Submission!Spec

(* As long as the broker redelivers nothing, replays and retries never make a  *)
(* job execute twice at once.                                                  *)
Carriers(j) ==
  Cardinality({m \in queue : m.job = j})
    + Cardinality({w \in Workers : task[w] # None /\ JobOf(w) = j /\ wpc[w] # "ack"})
SingleExecution == redeliveries = 0 => \A j \in Requests : Carriers(j) <= 1

(* A job at rest with status succeeded has its report; and unless deliveries   *)
(* were duplicated the report is the result in the row.                        *)
RestingSuccessIsReported ==
  \A j \in Requests : Succeeded(j) /\ j \notin Unfinished \cup abandoned =>
    reports[j] # None /\ (redeliveries = 0 => reports[j] = jobs[j].result)

(* Every created job ends succeeded or failed for good, unless abandoned.      *)
EveryJobSettles ==
  \A j \in Requests : <>[](j \in Stored /\ Constrained => Settled(j) \/ j \in abandoned)

=============================================================================
