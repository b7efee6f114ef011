--------------------------- MODULE ReconJobsProofs ---------------------------
(***************************************************************************)
(* Proofs of the safety properties of ReconJobs.  TypeInv is proved first; *)
(* each later invariant is proved relative to it.                          *)
(***************************************************************************)
EXTENDS ReconJobsInv, FiniteSetTheorems, WellFoundedInduction, TLAPS

USE DEF api, tables, broker, budget, HandlerAt, HandlerTo, WorkerAt, WorkerTo

-----------------------------------------------------------------------------
(* Facts about single pieces of state, cited by the step proofs.              *)

\* The initial state is well typed and no process has started.
LEMMA TypeInit == Init => TypeInv
BY ConstantsAssumption, SMTT(30)
DEF Init, TypeInv, TypeOK, HandlersHaveSubmissions, CarriedJobsHaveRows, WorkerProgress,
    Executed, Audited, Stored, HandlerStep, WorkerStep, NothingRead, JobRow, Pair, ObjectKey

\* An active worker executes a job that has a row.
LEMMA ActiveJob ==
  ASSUME TypeInv, NEW w \in Workers, wpc[w] # "idle"
  PROVE  /\ task[w] \in Message /\ task[w] # None
         /\ JobOf(w) \in Stored /\ JobOf(w) \in Requests /\ jobs[JobOf(w)] \in JobRow
BY SMTT(30) DEF TypeInv, TypeOK, CarriedJobsHaveRows, JobOf, Stored, Message

\* update_job changes a row and creates none.
LEMMA UpdateKeepsRows ==
  ASSUME TypeInv, NEW j \in Stored, NEW st \in Status, NEW res \in Pair \cup {None},
         UpdateJob(j, st, res)
  PROVE  /\ jobs' \in [Requests -> JobRow \cup {None}]
         /\ Stored' = Stored
<1>1. j \in Requests /\ jobs[j] \in JobRow
  BY DEF Stored, TypeInv, TypeOK
<1>2. [status |-> st, result |-> res, rowid |-> jobs[j].rowid] \in JobRow
  BY <1>1, SMTT(30) DEF JobRow
<1>3. jobs' \in [Requests -> JobRow \cup {None}]
  BY <1>1, <1>2, SMTT(30) DEF UpdateJob, TypeInv, TypeOK
<1>4. Stored' = Stored
  BY <1>1, <1>2, ConstantsAssumption, SMTT(30) DEF UpdateJob, TypeInv, TypeOK, Stored
<1> QED BY <1>3, <1>4

\* The new row of create_job, and the row an idempotent replay finds.
LEMMA NewRowType == TypeInv => NewRow \in JobRow
<1> SUFFICES ASSUME TypeInv PROVE NewRow \in JobRow
  OBVIOUS
<1>1. Stored \subseteq Requests
  BY DEF Stored
<1>2. Cardinality(Stored) \in Nat
  BY <1>1, ConstantsAssumption, FS_Subset, FS_CardinalityType
<1> QED
  BY <1>2, SMTT(30) DEF NewRow, JobRow, Status

\* A non-empty set of rows has an oldest one, the row a replayed key is answered with.
LEMMA OldestExists ==
  ASSUME TypeInv, NEW S \in SUBSET Stored, S # {}
  PROVE  Oldest(S) \in S /\ \A i \in S : jobs[Oldest(S)].rowid <= jobs[i].rowid
<1> DEFINE Ids == {jobs[i].rowid : i \in S}
<1>1. Ids \in SUBSET Nat
  BY SMTT(30) DEF Stored, TypeInv, TypeOK, JobRow
<1>2. Ids # {}
  OBVIOUS
<1>3. \E n \in Ids : \A m \in Ids : n <= m
  <2> DEFINE R == OpToRel(<, Nat)
  <2>1. \A x, y \in Nat : x < y => <<x, y>> \in R
    BY SMTT(30) DEF OpToRel
  <2>2. IsWellFoundedOn(R, Nat)
    BY NatLessThanWellFounded
  <2> HIDE DEF Ids, R
  <2>3. PICK n \in Ids : \A m \in Ids : ~(<<m, n>> \in R)
    BY <1>1, <1>2, <2>2, WFMin
  <2>4. ASSUME NEW m \in Ids PROVE n <= m
    <3>1. m \in Nat /\ n \in Nat
      BY <1>1
    <3>2. ~(m < n)
      BY <2>1, <2>3, <3>1, Zenon
    <3> QED BY <3>1, <3>2, SMT
  <2> QED BY <2>4
<1>4. \E j \in S : \A i \in S : jobs[j].rowid <= jobs[i].rowid
  BY <1>3
<1> QED
  BY <1>4 DEF Oldest

\* Steps that leave the handlers and the set of rows alone.
LEMMA HandlersFrame ==
  ASSUME HandlersHaveSubmissions, UNCHANGED <<req, hpc>>, Stored' = Stored
  PROVE  HandlersHaveSubmissions'
BY DEF HandlersHaveSubmissions

\* Steps that leave the broker and the workers alone, and delete no row.
LEMMA CarriedFrame ==
  ASSUME CarriedJobsHaveRows, UNCHANGED <<queue, task, wpc>>, Stored \subseteq Stored'
  PROVE  CarriedJobsHaveRows'
BY DEF CarriedJobsHaveRows, JobOf

\* Workers keep their progress while cases and audit grow and submissions stand.
LEMMA ProgressFrame ==
  ASSUME TypeInv, UNCHANGED <<task, wpc>>, \A w \in Workers : read'[w] = read[w],
         cases \subseteq cases', audit \subseteq audit',
         \A j \in Stored : req'[j] = req[j]
  PROVE  WorkerProgress'
<1> SUFFICES ASSUME NEW w \in Workers, wpc[w] \in Executed
             PROVE  /\ read[w] \in Parsable
                    /\ CaseSet(TenantOf(JobOf(w))', read[w]) \in cases'
                    /\ wpc[w] \in Audited => Event("completed", JobOf(w), read[w]) \in audit'
  BY DEF WorkerProgress, JobOf, Audited, Executed
<1>1. wpc[w] # "idle"
  BY DEF Executed
<1>2. TenantOf(JobOf(w))' = TenantOf(JobOf(w))
  BY <1>1, ActiveJob DEF TenantOf, JobOf
<1> QED
  BY <1>2 DEF TypeInv, WorkerProgress

\* What object_store.get returns is a stored content.
LEMMA GetType ==
  ASSUME TypeInv, NEW p \in Requests \cup Workers, NEW r, NEW s \in Sources,
         ObjKey(r, s) \in ObjectKey, Get(p, r, s)
  PROVE  read' \in [Requests \cup Workers -> [Sources -> Contents \cup {None}]]
<1>1. objects[ObjKey(r, s)] \in Contents \cup {None}
  BY DEF TypeInv, TypeOK
<1>2. read[p] \in [Sources -> Contents \cup {None}]
  BY DEF TypeInv, TypeOK
<1>3. [read[p] EXCEPT ![s] = objects[ObjKey(r, s)]] \in [Sources -> Contents \cup {None}]
  BY <1>1, <1>2
<1>4. read' = [read EXCEPT ![p] = [read[p] EXCEPT ![s] = objects[ObjKey(r, s)]]]
  BY DEF Get
<1> QED
  BY <1>3, <1>4 DEF TypeInv, TypeOK

\* A worker that stops executing owes nothing.
LEMMA ReleaseProgress ==
  ASSUME TypeInv, NEW w \in Workers, Release(w), UNCHANGED <<req, cases, audit>>
  PROVE  WorkerProgress'
<1> SUFFICES ASSUME NEW v \in Workers, wpc'[v] \in Executed
             PROVE  v # w
  BY SMTT(30)
  DEF Release, TypeInv, WorkerProgress, TypeOK, JobOf, TenantOf, Executed, Audited
<1> QED BY DEF Release, TypeInv, TypeOK, Executed

-----------------------------------------------------------------------------
(* One lemma per process kind: a step preserves TypeInv.                      *)

\* The steps of the HTTP handlers.
LEMMA HandlerTypeStep ==
  ASSUME TypeInv, NEW r \in Requests, HandlerNext(r)
  PROVE  TypeInv'
<1> USE DEF TypeInv
<1>1. CASE Submit(r)
  <2>1. r \notin Stored /\ Stored' = Stored
    BY <1>1 DEF Submit, HandlersHaveSubmissions, Stored
  <2>2. TypeOK'
    BY <1>1, SMTT(30) DEF Submit, TypeOK, HandlerStep
  <2>3. HandlersHaveSubmissions'
    BY <1>1, <2>1, ConstantsAssumption, SMTT(30)
    DEF Submit, HandlersHaveSubmissions, TypeOK
  <2>4. CarriedJobsHaveRows'
    BY <1>1, <2>1, CarriedFrame DEF Submit
  <2>5. WorkerProgress'
    BY <1>1, <2>1, ProgressFrame, SMTT(30) DEF Submit, TypeOK
  <2> QED BY <2>2, <2>3, <2>4, <2>5
<1>2. CASE PutBank(r)
  <2>1. req[r] \in Request /\ ObjKey(r, "bank") \in ObjectKey
    BY <1>2, SMTT(30) DEF PutBank, TypeOK, HandlersHaveSubmissions, ObjKey, ObjectKey,
       Request, Sources
  <2>2. req[r].file["bank"] \in Contents
    BY <2>1, ConstantsAssumption, SMTT(30) DEF Request, Pair, Sources
  <2>3. uploads' \subseteq [tenant : Tenants, source : Sources, name : Names, content : Contents]
    BY <1>2, <2>1, <2>2, SMTT(30) DEF PutBank, Put, Upload, TenantOf, Request, TypeOK, Sources
  <2>4. TypeOK'
    BY <1>2, <2>1, <2>2, <2>3, SMTT(30) DEF PutBank, Put, TypeOK, HandlerStep
  <2>5. HandlersHaveSubmissions'
    BY <1>2, SMTT(30) DEF PutBank, HandlersHaveSubmissions, TypeOK, Stored
  <2>6. CarriedJobsHaveRows'
    BY <1>2, CarriedFrame DEF PutBank, Stored
  <2>7. WorkerProgress'
    BY <1>2, ProgressFrame DEF PutBank
  <2> QED BY <2>4, <2>5, <2>6, <2>7
<1>3. CASE PutPurchase(r)
  <2>1. req[r] \in Request /\ ObjKey(r, "purchase") \in ObjectKey
    BY <1>3, SMTT(30) DEF PutPurchase, TypeOK, HandlersHaveSubmissions, ObjKey, ObjectKey,
       Request, Sources
  <2>2. req[r].file["purchase"] \in Contents
    BY <2>1, ConstantsAssumption, SMTT(30) DEF Request, Pair, Sources
  <2>3. uploads' \subseteq [tenant : Tenants, source : Sources, name : Names, content : Contents]
    BY <1>3, <2>1, <2>2, SMTT(30)
    DEF PutPurchase, Put, Upload, TenantOf, Request, TypeOK, Sources
  <2>4. TypeOK'
    BY <1>3, <2>1, <2>2, <2>3, SMTT(30) DEF PutPurchase, Put, TypeOK, HandlerStep
  <2>5. HandlersHaveSubmissions'
    BY <1>3, SMTT(30) DEF PutPurchase, HandlersHaveSubmissions, TypeOK, Stored
  <2>6. CarriedJobsHaveRows'
    BY <1>3, CarriedFrame DEF PutPurchase, Stored
  <2>7. WorkerProgress'
    BY <1>3, ProgressFrame DEF PutPurchase
  <2> QED BY <2>4, <2>5, <2>6, <2>7
<1>4. CASE RegisterBatches(r)
  <2>1. req[r] \in Request
    BY <1>4, SMTT(30) DEF RegisterBatches, TypeOK, HandlersHaveSubmissions
  <2>2. \A s \in Sources : req[r].file[s] \in Contents
    BY <2>1, ConstantsAssumption, SMTT(30) DEF Request, Pair
  <2>3. SentSources(r) \subseteq Sources
    BY DEF SentSources, Sources
  <2>4. batches' \subseteq [tenant : Tenants, source : Sources, content : Contents]
    BY <1>4, <2>1, <2>2, <2>3, SMTT(30) DEF RegisterBatches, Batch, TenantOf, Request, TypeOK
  <2>5. TypeOK'
    BY <1>4, <2>4, SMTT(30) DEF RegisterBatches, TypeOK, HandlerStep
  <2>6. HandlersHaveSubmissions'
    BY <1>4, SMTT(30) DEF RegisterBatches, HandlersHaveSubmissions, TypeOK, Stored
  <2>7. CarriedJobsHaveRows'
    BY <1>4, CarriedFrame DEF RegisterBatches, Stored
  <2>8. WorkerProgress'
    BY <1>4, ProgressFrame DEF RegisterBatches
  <2> QED BY <2>5, <2>6, <2>7, <2>8
<1>5. CASE CreateJob(r)
  <2>1. NewRow \in JobRow /\ NewRow # None
    BY NewRowType, ConstantsAssumption
  <2>2. jobs' \in [Requests -> JobRow \cup {None}] /\ Stored \subseteq Stored'
           /\ Stored' \subseteq Stored \cup {r}
    BY <1>5, <2>1, SMTT(30) DEF CreateJob, TypeOK, Stored
  <2>3. SameKey(r) \subseteq Stored /\ Stored \subseteq Requests
    BY DEF SameKey, Stored
  <2>11. SameKey(r) # {} => Oldest(SameKey(r)) \in Requests
    BY <2>3, OldestExists
  <2>4. answer' \in [Requests -> Requests \cup {None}]
    <3>1. \E a \in Requests : answer' = [answer EXCEPT ![r] = a]
      BY <1>5, <2>11 DEF CreateJob
    <3> QED BY <3>1, SMTT(30) DEF TypeOK
  <2>5. jobsTable' \in {"absent", "unique", "bare"}
    <3>1. jobsTable' = TableAfterCreate
      BY <1>5 DEF CreateJob
    <3> QED BY <3>1 DEF TableAfterCreate, TypeOK
  <2>6. hpc' \in [Requests -> HandlerStep]
    <3>1. \E step \in {"dispatch", "done"} : hpc' = [hpc EXCEPT ![r] = step]
      BY <1>5 DEF CreateJob
    <3> QED BY <3>1, SMTT(30) DEF TypeOK, HandlerStep
  <2>7. TypeOK'
    BY <1>5, <2>2, <2>4, <2>5, <2>6 DEF CreateJob, TypeOK
  <2>8. HandlersHaveSubmissions'
    <3>1. hpc'[r] = "dispatch" => r \in Stored'
      BY <1>5, <2>1, SMTT(30) DEF CreateJob, TypeOK, Stored
    <3>2. hpc'[r] \in {"dispatch", "done"} /\ \A q \in Requests \ {r} : hpc'[q] = hpc[q]
      BY <1>5, SMTT(30) DEF CreateJob, TypeOK
    <3>3. req' = req /\ hpc[r] = "createJob"
      BY <1>5 DEF CreateJob
    <3> QED
      BY <2>2, <3>1, <3>2, <3>3 DEF HandlersHaveSubmissions
  <2>9. CarriedJobsHaveRows'
    BY <1>5, <2>2, CarriedFrame DEF CreateJob
  <2>10. WorkerProgress'
    BY <1>5, ProgressFrame DEF CreateJob
  <2> QED BY <2>7, <2>8, <2>9, <2>10
<1>6. CASE Dispatch(r)
  <2>1. r \in Stored /\ [job |-> r, retries |-> 0, copy |-> 0] \in Message
    BY <1>6, ConstantsAssumption, SMTT(30) DEF Dispatch, HandlersHaveSubmissions, Message
  <2>2. TypeOK'
    BY <1>6, <2>1, SMTT(30) DEF Dispatch, TypeOK, HandlerStep
  <2>3. HandlersHaveSubmissions'
    BY <1>6, SMTT(30) DEF Dispatch, HandlersHaveSubmissions, TypeOK, Stored
  <2>4. CarriedJobsHaveRows'
    BY <1>6, <2>1, SMTT(30) DEF Dispatch, CarriedJobsHaveRows, Stored, JobOf
  <2>5. WorkerProgress'
    BY <1>6, ProgressFrame DEF Dispatch
  <2> QED BY <2>2, <2>3, <2>4, <2>5
<1>7. CASE SyncGet(r)
  <2>1. req[r] \in Request /\ \A s \in Sources : ObjKey(r, s) \in ObjectKey
    BY <1>7, SMTT(30) DEF SyncGet, TypeOK, HandlersHaveSubmissions, ObjKey, ObjectKey, Request
  <2>2. \A s \in Sources : objects[ObjKey(r, s)] \in Contents \cup {None}
    BY <2>1 DEF TypeOK
  <2>3. read' \in [Requests \cup Workers -> [Sources -> Contents \cup {None}]]
    BY <1>7, <2>1, GetType DEF SyncGet, Sources
  <2>9. hpc' \in [Requests -> HandlerStep]
    BY <1>7, SMTT(30) DEF SyncGet, TypeOK, HandlerStep
  <2>4. TypeOK'
    BY <1>7, <2>3, <2>9 DEF SyncGet, TypeOK
  <2>5. HandlersHaveSubmissions'
    BY <1>7, SMTT(30) DEF SyncGet, HandlersHaveSubmissions, TypeOK, Stored
  <2>6. CarriedJobsHaveRows'
    BY <1>7, CarriedFrame DEF SyncGet, Stored
  <2>7. \A w \in Workers : read'[w] = read[w]
    BY <1>7, ConstantsAssumption, SMTT(30) DEF SyncGet, Get, TypeOK
  <2>8. WorkerProgress'
    BY <1>7, <2>7, ProgressFrame DEF SyncGet
  <2> QED BY <2>4, <2>5, <2>6, <2>8
<1>8. CASE SyncFinish(r)
  <2>1. req[r] \in Request
    BY <1>8, SMTT(30) DEF SyncFinish, TypeOK, HandlersHaveSubmissions
  <2>2. cases' \subseteq [tenant : Tenants, pair : Pair] /\ cases \subseteq cases'
    BY <1>8, <2>1, ConstantsAssumption, SMTT(30)
    DEF SyncFinish, CaseSet, TenantOf, Request, TypeOK
  <2>7. audit' \subseteq AuditEvent /\ audit \subseteq audit'
    BY <1>8, SMTT(30) DEF SyncFinish, TypeOK, AuditEvent, Event
  <2>3. TypeOK'
    BY <1>8, <2>2, <2>7, SMTT(30) DEF SyncFinish, TypeOK, HandlerStep
  <2>4. HandlersHaveSubmissions'
    BY <1>8, SMTT(30) DEF SyncFinish, HandlersHaveSubmissions, TypeOK, Stored
  <2>5. CarriedJobsHaveRows'
    BY <1>8, CarriedFrame DEF SyncFinish, Stored
  <2>6. WorkerProgress'
    BY <1>8, <2>2, <2>7, ProgressFrame DEF SyncFinish
  <2> QED BY <2>3, <2>4, <2>5, <2>6
<1> QED
  BY <1>1, <1>2, <1>3, <1>4, <1>5, <1>6, <1>7, <1>8 DEF HandlerNext

\* The parts of TypeInv that only workers disturb, for one worker step.
\* The steps of a worker.
LEMMA WorkerTypeStep ==
  ASSUME TypeInv, NEW w \in Workers, WorkerNext(w)
  PROVE  TypeInv'
<1> USE DEF TypeInv
<1>a. NothingRead \in [Sources -> Contents \cup {None}]
  BY DEF NothingRead
<1>1. CASE Take(w)
  <2>1. PICK m \in queue : queue' = queue \ {m} /\ task' = [task EXCEPT ![w] = m]
    BY <1>1 DEF Take
  <2>2. m \in Message /\ m # None /\ m.job \in Stored
    BY ConstantsAssumption DEF TypeOK, CarriedJobsHaveRows
  <2>3. TypeOK'
    BY <1>1, <2>1, <2>2, SMTT(30) DEF Take, TypeOK, WorkerStep
  <2>4. HandlersHaveSubmissions'
    BY <1>1, HandlersFrame DEF Take, Stored
  <2>5. CarriedJobsHaveRows'
    BY <1>1, <2>1, <2>2, SMTT(30) DEF Take, CarriedJobsHaveRows, JobOf, Stored, TypeOK
  <2>6. WorkerProgress'
    <3> SUFFICES ASSUME NEW v \in Workers, wpc'[v] \in Executed
                 PROVE  v # w
      BY <1>1, SMTT(30)
      DEF Take, WorkerProgress, TypeOK, JobOf, TenantOf, Executed, Audited
    <3> QED BY <1>1 DEF Take, TypeOK, Executed
  <2> QED BY <2>3, <2>4, <2>5, <2>6
<1>2. CASE MarkRunning(w)
  <2>1. JobOf(w) \in Stored
    BY <1>2, ActiveJob DEF MarkRunning
  <2>2. jobs' \in [Requests -> JobRow \cup {None}] /\ Stored' = Stored
    BY <1>2, <2>1, UpdateKeepsRows DEF MarkRunning, Status
  <2>3. TypeOK'
    BY <1>2, <2>2, SMTT(30) DEF MarkRunning, TypeOK, WorkerStep
  <2>4. HandlersHaveSubmissions'
    BY <1>2, <2>2, HandlersFrame DEF MarkRunning
  <2>5. CarriedJobsHaveRows'
    BY <1>2, <2>2, SMTT(30) DEF MarkRunning, TypeOK, CarriedJobsHaveRows, JobOf
  <2>6. WorkerProgress'
    BY <1>2, SMTT(30)
    DEF MarkRunning, TypeOK, WorkerProgress, Executed, Audited, JobOf, TenantOf
  <2> QED BY <2>3, <2>4, <2>5, <2>6
<1>3. CASE GetInputs(w)
  <2>1. wpc[w] \in {"getBank", "getPurchase"} /\ JobOf(w) \in Stored
    BY <1>3, ActiveJob DEF GetInputs
  <2>2. req[JobOf(w)] \in Request
    BY <2>1 DEF HandlersHaveSubmissions, TypeOK, Stored
  <2>3. \A s \in Sources : ObjKey(JobOf(w), s) \in ObjectKey
    BY <2>2, SMTT(30) DEF ObjKey, ObjectKey, Request
  <2>4. read' \in [Requests \cup Workers -> [Sources -> Contents \cup {None}]]
    BY <1>3, <2>3, GetType DEF GetInputs, Sources
  <2>5. TypeOK'
    BY <1>3, <2>4, SMTT(30) DEF GetInputs, TypeOK, WorkerStep
  <2>6. HandlersHaveSubmissions'
    BY <1>3, HandlersFrame DEF GetInputs, Stored
  <2>7. CarriedJobsHaveRows'
    BY <1>3, SMTT(30) DEF GetInputs, TypeOK, CarriedJobsHaveRows, JobOf, Stored
  <2>8. \A v \in Workers \ {w} : read'[v] = read[v]
    BY <1>3, SMTT(30) DEF GetInputs, Get, TypeOK
  <2>9. WorkerProgress'
    BY <1>3, <2>8, SMTT(30)
    DEF GetInputs, TypeOK, WorkerProgress, Executed, Audited, JobOf, TenantOf
  <2> QED BY <2>5, <2>6, <2>7, <2>9
<1>4. CASE SaveCases(w)
  <2>1. JobOf(w) \in Stored
    BY <1>4, ActiveJob DEF SaveCases
  <2>2. TenantOf(JobOf(w)) \in Tenants
    <3>1. req[JobOf(w)] \in Request
      BY <2>1 DEF HandlersHaveSubmissions, TypeOK, Stored
    <3> QED BY <3>1 DEF TenantOf, Request
  <2>3. cases' \subseteq [tenant : Tenants, pair : Pair] /\ cases \subseteq cases'
    BY <1>4, <2>2, ConstantsAssumption, SMTT(30) DEF SaveCases, CaseSet, TypeOK
  <2>4. wpc' \in [Workers -> WorkerStep]
    BY <1>4, SMTT(30) DEF SaveCases, TypeOK, WorkerStep
  <2>5. TypeOK'
    BY <1>4, <2>3, <2>4 DEF SaveCases, TypeOK
  <2>6. HandlersHaveSubmissions'
    BY <1>4, HandlersFrame DEF SaveCases, Stored
  <2>7. CarriedJobsHaveRows'
    BY <1>4, SMTT(30) DEF SaveCases, TypeOK, CarriedJobsHaveRows, JobOf, Stored
  <2>8. WorkerProgress'
    <3> SUFFICES ASSUME NEW v \in Workers, wpc'[v] \in Executed
                 PROVE  /\ read[v] \in Parsable /\ CaseSet(TenantOf(JobOf(v)), read[v]) \in cases'
                        /\ wpc'[v] \in Audited => Event("completed", JobOf(v), read[v]) \in audit
      BY <1>4 DEF SaveCases, WorkerProgress, JobOf, TenantOf, Audited, Executed
    <3>1. CASE v = w
      BY <1>4, <3>1, SMTT(30) DEF SaveCases, TypeOK, Executed, Audited
    <3>2. CASE v # w
      BY <1>4, <2>3, <3>2, SMTT(30) DEF SaveCases, TypeOK, WorkerProgress
    <3> QED BY <3>1, <3>2
  <2> QED BY <2>5, <2>6, <2>7, <2>8
<1>5. CASE RecordDone(w)
  <2>1. JobOf(w) \in Requests /\ read[w] \in Pair
    BY <1>5, ActiveJob, ConstantsAssumption DEF RecordDone, WorkerProgress, Executed
  <2>2. audit' \subseteq AuditEvent
    BY <1>5, <2>1, SMTT(30) DEF RecordDone, TypeOK, AuditEvent, Event
  <2>3. TypeOK'
    BY <1>5, <2>2, SMTT(30) DEF RecordDone, TypeOK, WorkerStep
  <2>4. HandlersHaveSubmissions'
    BY <1>5, HandlersFrame DEF RecordDone, Stored
  <2>5. CarriedJobsHaveRows'
    BY <1>5, SMTT(30) DEF RecordDone, TypeOK, CarriedJobsHaveRows, JobOf, Stored
  <2>6. WorkerProgress'
    BY <1>5, SMTT(30)
    DEF RecordDone, TypeOK, WorkerProgress, Executed, Audited, JobOf, TenantOf
  <2> QED BY <2>3, <2>4, <2>5, <2>6
<1>6. CASE MarkSucceeded(w)
  <2>1. JobOf(w) \in Stored /\ read[w] \in Pair
    BY <1>6, ActiveJob, ConstantsAssumption DEF MarkSucceeded, WorkerProgress, Executed
  <2>2. jobs' \in [Requests -> JobRow \cup {None}] /\ Stored' = Stored
    BY <1>6, <2>1, UpdateKeepsRows DEF MarkSucceeded, Status
  <2>3. TypeOK'
    BY <1>6, <2>2, SMTT(30) DEF MarkSucceeded, TypeOK, WorkerStep
  <2>4. HandlersHaveSubmissions'
    BY <1>6, <2>2, HandlersFrame DEF MarkSucceeded
  <2>5. CarriedJobsHaveRows'
    BY <1>6, <2>2, SMTT(30) DEF MarkSucceeded, TypeOK, CarriedJobsHaveRows, JobOf
  <2>6. WorkerProgress'
    BY <1>6, SMTT(30)
    DEF MarkSucceeded, TypeOK, WorkerProgress, Executed, Audited, JobOf, TenantOf
  <2> QED BY <2>3, <2>4, <2>5, <2>6
<1>7. CASE SaveResults(w)
  <2>1. JobOf(w) \in Requests /\ read[w] \in Pair
    BY <1>7, ActiveJob, ConstantsAssumption DEF SaveResults, WorkerProgress, Executed
  <2>2. RowsOf[read[w]["bank"]] \subseteq Records
    BY <2>1, ConstantsAssumption DEF Pair, Sources
  <2>3. TypeOK'
    <3>1. PICK new \in SUBSET Records :
            results' = [results EXCEPT ![JobOf(w)] =
                          results[JobOf(w)] \cup {[record |-> x, pair |-> read[w]] : x \in new}]
      BY <1>7, <2>2 DEF SaveResults
    <3>2. {[record |-> x, pair |-> read[w]] : x \in new} \subseteq [record : Records, pair : Pair]
      BY <2>1, <3>1
    <3>3. results' \in [Requests -> SUBSET [record : Records, pair : Pair]]
      BY <2>1, <3>1, <3>2 DEF TypeOK
    <3> QED BY <1>7, <3>3, SMTT(30) DEF SaveResults, TypeOK, WorkerStep
  <2>4. HandlersHaveSubmissions'
    BY <1>7, HandlersFrame DEF SaveResults, Stored
  <2>5. CarriedJobsHaveRows'
    BY <1>7, SMTT(30) DEF SaveResults, TypeOK, CarriedJobsHaveRows, JobOf, Stored
  <2>6. WorkerProgress'
    BY <1>7, SMTT(30)
    DEF SaveResults, TypeOK, WorkerProgress, Executed, Audited, JobOf, TenantOf
  <2> QED BY <2>3, <2>4, <2>5, <2>6
<1>8. CASE SaveReport(w)
  <2>1. JobOf(w) \in Requests /\ read[w] \in Pair
    BY <1>8, ActiveJob, ConstantsAssumption DEF SaveReport, WorkerProgress, Executed
  <2>3. TypeOK'
    BY <1>8, <2>1, SMTT(30) DEF SaveReport, TypeOK, WorkerStep
  <2>4. HandlersHaveSubmissions'
    BY <1>8, HandlersFrame DEF SaveReport, Stored
  <2>5. CarriedJobsHaveRows'
    BY <1>8, SMTT(30) DEF SaveReport, TypeOK, CarriedJobsHaveRows, JobOf, Stored
  <2>6. WorkerProgress'
    BY <1>8, SMTT(30)
    DEF SaveReport, TypeOK, WorkerProgress, Executed, Audited, JobOf, TenantOf
  <2> QED BY <2>3, <2>4, <2>5, <2>6
<1>9. CASE RecordFailure(w)
  <2>1. JobOf(w) \in Requests
    BY <1>9, ActiveJob DEF RecordFailure
  <2>2. audit' \subseteq AuditEvent
    BY <1>9, <2>1, SMTT(30) DEF RecordFailure, TypeOK, AuditEvent, Event
  <2>3. TypeOK'
    BY <1>9, <2>2, SMTT(30) DEF RecordFailure, TypeOK, WorkerStep
  <2>4. HandlersHaveSubmissions'
    BY <1>9, HandlersFrame DEF RecordFailure, Stored
  <2>5. CarriedJobsHaveRows'
    BY <1>9, SMTT(30) DEF RecordFailure, TypeOK, CarriedJobsHaveRows, JobOf, Stored
  <2>6. WorkerProgress'
    BY <1>9, SMTT(30)
    DEF RecordFailure, TypeOK, WorkerProgress, Executed, Audited, JobOf, TenantOf
  <2> QED BY <2>3, <2>4, <2>5, <2>6
<1>10. CASE MarkFailed(w)
  <2>1. JobOf(w) \in Stored
    BY <1>10, ActiveJob DEF MarkFailed
  <2>2. jobs' \in [Requests -> JobRow \cup {None}] /\ Stored' = Stored
    BY <1>10, <2>1, UpdateKeepsRows DEF MarkFailed, Status
  <2>3. TypeOK'
    BY <1>10, <2>2, SMTT(30) DEF MarkFailed, TypeOK, WorkerStep
  <2>4. HandlersHaveSubmissions'
    BY <1>10, <2>2, HandlersFrame DEF MarkFailed
  <2>5. CarriedJobsHaveRows'
    BY <1>10, <2>2, SMTT(30) DEF MarkFailed, TypeOK, CarriedJobsHaveRows, JobOf
  <2>6. WorkerProgress'
    BY <1>10, SMTT(30)
    DEF MarkFailed, TypeOK, WorkerProgress, Executed, Audited, JobOf, TenantOf
  <2> QED BY <2>3, <2>4, <2>5, <2>6
<1>11. CASE Retry(w)
  <2>1. task[w] \in Message /\ task[w].job \in Stored /\ JobOf(w) \in Requests
    BY <1>11, ActiveJob DEF Retry, JobOf
  <2>2. CanRetry(task[w]) =>
          LET next == [task[w] EXCEPT !.retries = @ + 1]
          IN  next \in Message /\ next.job \in Stored
    BY <2>1, ConstantsAssumption, SMTT(30) DEF CanRetry, Message
  <2>8. queue' \subseteq Message /\ abandoned' \subseteq Requests
    BY <1>11, <2>1, <2>2 DEF Retry, TypeOK
  <2>9. wpc' \in [Workers -> WorkerStep]
    BY <1>11 DEF Retry, TypeOK, WorkerStep
  <2>3. TypeOK'
    BY <1>11, <2>8, <2>9 DEF Retry, TypeOK
  <2>4. HandlersHaveSubmissions'
    BY <1>11, HandlersFrame DEF Retry, Stored
  <2>7. \A m \in queue' : m.job \in Stored
    BY <1>11, <2>2 DEF Retry, CarriedJobsHaveRows
  <2>5. CarriedJobsHaveRows'
    BY <1>11, <2>7, SMTT(30) DEF Retry, TypeOK, CarriedJobsHaveRows, JobOf, Stored
  <2>6. WorkerProgress'
    BY <1>11, SMTT(30)
    DEF Retry, TypeOK, WorkerProgress, Executed, Audited, JobOf, TenantOf
  <2> QED BY <2>3, <2>4, <2>5, <2>6
<1>12. CASE Ack(w)
  <2>3. TypeOK'
    BY <1>12, <1>a, SMTT(30) DEF Ack, Release, TypeOK, WorkerStep
  <2>4. HandlersHaveSubmissions'
    BY <1>12, HandlersFrame DEF Ack, Stored
  <2>5. CarriedJobsHaveRows'
    BY <1>12, SMTT(30) DEF Ack, Release, TypeOK, CarriedJobsHaveRows, JobOf, Stored
  <2>6. WorkerProgress'
    BY <1>12, ReleaseProgress DEF Ack
  <2> QED BY <2>3, <2>4, <2>5, <2>6
<1> QED
  BY <1>1, <1>2, <1>3, <1>4, <1>5, <1>6, <1>7, <1>8, <1>9, <1>10, <1>11, <1>12 DEF WorkerNext

\* Exceptions, kills, redeliveries, crashes and the early poll.
LEMMA TroubleTypeStep ==
  ASSUME TypeInv, Trouble \/ PollBeforeAnyJob
  PROVE  TypeInv'
<1> USE DEF TypeInv
<1>a. NothingRead \in [Sources -> Contents \cup {None}]
  BY DEF NothingRead
<1>1. ASSUME NEW r \in Requests, HandlerFails(r) PROVE TypeInv'
  <2>1. TypeOK'
    BY <1>1, ConstantsAssumption, SMTT(30) DEF HandlerFails, TypeOK, HandlerStep
  <2>2. HandlersHaveSubmissions'
    BY <1>1, SMTT(30) DEF HandlerFails, HandlersHaveSubmissions, TypeOK, Stored
  <2>3. CarriedJobsHaveRows'
    BY <1>1, CarriedFrame DEF HandlerFails, Stored
  <2>4. WorkerProgress'
    BY <1>1, ProgressFrame DEF HandlerFails
  <2> QED BY <2>1, <2>2, <2>3, <2>4
<1>2. ASSUME NEW w \in Workers, Fault(w) PROVE TypeInv'
  <2>1. TypeOK'
    BY <1>2, ConstantsAssumption, SMTT(30) DEF Fault, InTry, TypeOK, WorkerStep
  <2>2. HandlersHaveSubmissions'
    BY <1>2, HandlersFrame DEF Fault, Stored
  <2>3. CarriedJobsHaveRows'
    BY <1>2, SMTT(30) DEF Fault, InTry, TypeOK, CarriedJobsHaveRows, JobOf, Stored
  <2>4. WorkerProgress'
    BY <1>2, SMTT(30)
    DEF Fault, InTry, TypeOK, WorkerProgress, Executed, Audited, JobOf, TenantOf
  <2> QED BY <2>1, <2>2, <2>3, <2>4
<1>3. ASSUME NEW w \in Workers, KillChild(w) PROVE TypeInv'
  <2>0. JobOf(w) \in Requests
    BY <1>3, ActiveJob DEF KillChild
  <2>1. TypeOK'
    BY <1>3, <1>a, <2>0, ConstantsAssumption, SMTT(30) DEF KillChild, Release, TypeOK, WorkerStep
  <2>2. HandlersHaveSubmissions'
    BY <1>3, HandlersFrame DEF KillChild, Stored
  <2>3. CarriedJobsHaveRows'
    BY <1>3, SMTT(30) DEF KillChild, Release, TypeOK, CarriedJobsHaveRows, JobOf, Stored
  <2>4. WorkerProgress'
    BY <1>3, ReleaseProgress DEF KillChild
  <2> QED BY <2>1, <2>2, <2>3, <2>4
<1>4. ASSUME NEW w \in Workers, Redeliver(w) PROVE TypeInv'
  <2>1. task[w] \in Message /\ task[w].job \in Stored
    BY <1>4, ActiveJob DEF Redeliver, CarriedJobsHaveRows, JobOf
  <2>2. /\ [task[w] EXCEPT !.copy = redeliveries + 1] \in Message
        /\ [task[w] EXCEPT !.copy = redeliveries + 1].job \in Stored
        /\ redeliveries + 1 \in 0 .. MaxRedeliveries
    <3>1. redeliveries + 1 \in 0 .. MaxRedeliveries
      BY <1>4, ConstantsAssumption, SMTT(30) DEF Redeliver, TypeOK
    <3> QED BY <2>1, <3>1, SMTT(30) DEF Message
  <2>3. queue' \subseteq Message /\ \A m \in queue' : m.job \in Stored
    BY <1>4, <2>2 DEF Redeliver, TypeOK, CarriedJobsHaveRows
  <2>4. HandlersHaveSubmissions'
    BY <1>4, HandlersFrame DEF Redeliver, Stored
  <2>5. CASE Release(w)
    <3>1. TypeOK'
      BY <1>4, <1>a, <2>2, <2>3, <2>5, SMTT(30) DEF Redeliver, Release, TypeOK, WorkerStep
    <3>2. CarriedJobsHaveRows'
      BY <1>4, <2>3, <2>5, SMTT(30)
      DEF Redeliver, Release, TypeOK, CarriedJobsHaveRows, JobOf, Stored
    <3>3. WorkerProgress'
      BY <1>4, <2>5, ReleaseProgress DEF Redeliver
    <3> QED BY <2>4, <3>1, <3>2, <3>3
  <2>6. CASE UNCHANGED <<task, wpc, read>>
    <3>1. TypeOK'
      BY <1>4, <2>2, <2>3, <2>6, SMTT(30) DEF Redeliver, TypeOK
    <3>2. CarriedJobsHaveRows'
      BY <1>4, <2>3, <2>6 DEF Redeliver, CarriedJobsHaveRows, JobOf, Stored
    <3>3. WorkerProgress'
      BY <1>4, <2>6, ProgressFrame DEF Redeliver
    <3> QED BY <2>4, <3>1, <3>2, <3>3
  <2> QED BY <1>4, <2>5, <2>6 DEF Redeliver
<1>5. ASSUME ApiCrash PROVE TypeInv'
  <2>1. Unfinished \subseteq Requests
    BY SMTT(30) DEF Unfinished, TypeOK, Message, JobOf
  <2>2. TypeOK'
    BY <1>5, <1>a, <2>1, ConstantsAssumption, SMTT(30) DEF ApiCrash, TypeOK, HandlerStep, WorkerStep
  <2>3. HandlersHaveSubmissions'
    BY <1>5, SMTT(30) DEF ApiCrash, HandlersHaveSubmissions, Stored
  <2>4. CarriedJobsHaveRows'
    BY <1>5 DEF ApiCrash, CarriedJobsHaveRows
  <2>5. WorkerProgress'
    BY <1>5 DEF ApiCrash, WorkerProgress, Executed, Audited
  <2> QED BY <2>2, <2>3, <2>4, <2>5
<1>6. ASSUME PollBeforeAnyJob PROVE TypeInv'
  <2>1. TypeOK'
    BY <1>6, SMTT(30) DEF PollBeforeAnyJob, TypeOK
  <2>2. HandlersHaveSubmissions' /\ CarriedJobsHaveRows'
    BY <1>6, HandlersFrame, CarriedFrame DEF PollBeforeAnyJob, Stored
  <2>3. WorkerProgress'
    BY <1>6, ProgressFrame DEF PollBeforeAnyJob
  <2> QED BY <2>1, <2>2, <2>3
<1> QED
  BY <1>1, <1>2, <1>3, <1>4, <1>5, <1>6 DEF Trouble

\* Every step preserves the invariant.
LEMMA TypeStep == TypeInv /\ [Next]_vars => TypeInv'
<1>1. TypeInv /\ Next => TypeInv'
  BY HandlerTypeStep, WorkerTypeStep, TroubleTypeStep DEF Next
<1>2. TypeInv /\ UNCHANGED vars => TypeInv'
  BY DEF vars, TypeInv, TypeOK, HandlersHaveSubmissions, CarriedJobsHaveRows, WorkerProgress,
     Stored, JobOf, TenantOf
<1> QED BY <1>1, <1>2

(* In every reachable state handlers have submissions, carried jobs have rows, *)
(* and a worker past a call has done what the call does.                       *)
THEOREM TypeInvariance == Spec => []TypeInv
BY TypeInit, TypeStep, PTL DEF Spec

(* Every state of every behaviour is well typed, for all submissions, files,  *)
(* faults and redeliveries.                                                   *)
THEOREM TypeCorrect == Spec => []TypeOK
<1>1. TypeInv => TypeOK
  BY DEF TypeInv
<1> QED BY <1>1, TypeInvariance, PTL
=============================================================================
