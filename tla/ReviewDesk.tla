----------------------------- MODULE ReviewDesk -----------------------------
(***************************************************************************)
(* The human review workflow: reconciliation runs save review cases, and   *)
(* API threads (decide_review, bulk_decide_reviews) look a case up, resolve *)
(* it with a conditional UPDATE and append to the audit file.  One action  *)
(* is one transaction or one append; a case is named by its stored id, the *)
(* tenant prefix and the hash of the decision it stands for.               *)
(***************************************************************************)
EXTENDS Naturals, Sequences, FiniteSets

CONSTANTS
  Deciders,      \* decision requests, single or bulk
  Runs,          \* reconciliation runs; a run may execute more than once
  Tenants, Hashes,
  TenantOfRun, HashesOf,   \* the cases build_review_cases makes of a run's decisions
  Batches,       \* the case_ids lists clients send (at most 50 long in the code)
  Asks,          \* the requests clients send
  MaxSaves,      \* bound: executions of runs
  MaxFailures,   \* bound: exceptions and crashes of handlers
  None

CaseId == Tenants \X Hashes
\* Faulty variants, named Bad..., stand before the definition they alter.
Outcome(action) == IF action = "approve" THEN "approved" ELSE "rejected"
Actions == {"approve", "reject"}
Reasons == {"not_found", "already_resolved", "concurrent_update"}
Row == [status : {"open", "approved", "rejected"}, by : Deciders \cup {None}]
Request == [bulk : BOOLEAN, tenant : Tenants, action : Actions, ids : Batches]
Decision == [by : Deciders, case : CaseId, action : Actions]
DeciderStep == {"new", "get", "resolve", "audit", "reread", "done", "failed"}

ASSUME DeskAssumption ==
  /\ TenantOfRun \in [Runs -> Tenants] /\ HashesOf \in [Runs -> SUBSET Hashes]
  /\ Batches \subseteq Seq(CaseId) \ {<<>>}
  /\ Asks \subseteq {q \in Request : q.bulk \/ Len(q.ids) = 1}
  /\ IsFiniteSet(CaseId)
  /\ MaxSaves \in Nat /\ MaxFailures \in Nat
  /\ None \notin Deciders \cup Row \cup Request

VARIABLES
  rows,        \* review_cases: [status, by], by standing for the note and time a decider wrote
  events,      \* review_case.decided events of the audit file
  ask,         \* the request of each decider
  step,        \* its next call
  left,        \* the case ids it has not handled yet
  resolved,    \* local list of a bulk request, and the reply's
  conflicts,   \* refusals, 404 and 409 of a single request included
  shown,       \* the case a single request answered with
  running,     \* runs that saved their cases and have not reported the backlog
  backlog,     \* REVIEW_BACKLOG gauge
  saves, failures

vars == <<rows, events, ask, step, left, resolved, conflicts, shown, running, backlog,
          saves, failures>>
locals == <<resolved, conflicts, shown>>
others == <<running, backlog, saves>>

Init ==
  /\ rows = [c \in CaseId |-> None]
  /\ events = {}
  /\ ask = [d \in Deciders |-> None]
  /\ step = [d \in Deciders |-> "new"]
  /\ left = [d \in Deciders |-> <<>>]
  /\ resolved = [d \in Deciders |-> <<>>]
  /\ conflicts = [d \in Deciders |-> <<>>]
  /\ shown = [d \in Deciders |-> None]
  /\ running = {} /\ backlog = 0 /\ saves = 0 /\ failures = 0

Stored == {c \in CaseId : rows[c] # None}
Open == {c \in Stored : rows[c].status = "open"}
Decided == Stored \ Open

-----------------------------------------------------------------------------
(* Runs *)

CasesOf(p) == {TenantOfRun[p]} \X HashesOf[p]

BadSaveReviewCases(p) ==
  /\ p \notin running /\ saves < MaxSaves
  /\ saves' = saves + 1
  /\ rows' = [c \in CaseId |-> IF c \in CasesOf(p)
                               THEN [status |-> "open", by |-> None] ELSE rows[c]]
  /\ running' = running \cup {p}
  /\ UNCHANGED <<events, ask, step, left, locals, backlog, failures>>

\* save_review_cases: INSERT OR IGNORE of every case, in one transaction.
SaveReviewCases(p) ==
  /\ p \notin running /\ saves < MaxSaves
  /\ saves' = saves + 1
  /\ rows' = [c \in CaseId |-> IF c \in CasesOf(p) \ Stored
                               THEN [status |-> "open", by |-> None] ELSE rows[c]]
  /\ running' = running \cup {p}
  /\ UNCHANGED <<events, ask, step, left, locals, backlog, failures>>

CaseCount(t) == Cardinality({c \in Stored : c[1] = t})

\* set_review_backlog(review_case_count(tenant)): one gauge, no tenant label, no status.
ReportBacklog(p) ==
  /\ p \in running
  /\ running' = running \ {p}
  /\ backlog' = CaseCount(TenantOfRun[p])
  /\ UNCHANGED <<rows, events, ask, step, left, locals, saves, failures>>

-----------------------------------------------------------------------------
(* Deciders *)

At(d, s) == step[d] = s
To(d, s) == step' = [step EXCEPT ![d] = s]
Current(d) == Head(left[d])

BadFind(d) == rows[Current(d)]
\* get_review_case and the WHERE clause of the UPDATE: case id and tenant.
Find(d) == IF Current(d)[1] = ask[d].tenant THEN rows[Current(d)] ELSE None

Ask(d) ==
  /\ At(d, "new")
  /\ \E q \in Asks :
       /\ ask' = [ask EXCEPT ![d] = q]
       /\ left' = [left EXCEPT ![d] = q.ids]
  /\ To(d, "get")
  /\ UNCHANGED <<rows, events, locals, others, failures>>

\* The loop goes on with the next case id; a single request ends.
NextCase(d) ==
  /\ left' = [left EXCEPT ![d] = Tail(@)]
  /\ To(d, IF Len(left[d]) > 1 THEN "get" ELSE "done")

BadRefuse(d, reason) ==
  /\ conflicts' = [conflicts EXCEPT ![d] = Append(@, [case |-> Current(d), reason |-> reason])]
  /\ To(d, "done")
  /\ UNCHANGED <<rows, left, resolved>>

Refuse(d, reason) ==
  /\ conflicts' = [conflicts EXCEPT ![d] = Append(@, [case |-> Current(d), reason |-> reason])]
  /\ NextCase(d)
  /\ UNCHANGED <<rows, resolved>>

Lookup(d) ==
  /\ At(d, "get")
  /\ \/ Find(d) = None /\ Refuse(d, "not_found")
     \/ Find(d) # None /\ Find(d).status # "open" /\ Refuse(d, "already_resolved")
     \/ /\ Find(d) # None /\ Find(d).status = "open"
        /\ To(d, "resolve")
        /\ UNCHANGED <<rows, left, resolved, conflicts>>
  /\ UNCHANGED <<events, ask, shown, others, failures>>

Write(d) ==
  /\ rows' = [rows EXCEPT ![Current(d)] = [status |-> Outcome(ask[d].action), by |-> d]]
  /\ resolved' = [resolved EXCEPT ![d] = Append(@, Current(d))]
  /\ To(d, "audit")
  /\ UNCHANGED <<left, conflicts>>

BadResolve(d) ==
  /\ At(d, "resolve")
  /\ Write(d)
  /\ UNCHANGED <<events, ask, shown, others, failures>>

\* resolve_review_case: UPDATE ... AND status = 'open', and its rowcount.
Resolve(d) ==
  /\ At(d, "resolve")
  /\ \/ Find(d) # None /\ Find(d).status = "open" /\ Write(d)
     \/ (Find(d) = None \/ Find(d).status # "open") /\ Refuse(d, "concurrent_update")
  /\ UNCHANGED <<events, ask, shown, others, failures>>

BadRecordDecision(d) ==
  /\ At(d, "audit")
  /\ \/ ask[d].bulk /\ NextCase(d)
     \/ ~ask[d].bulk /\ To(d, "reread") /\ left' = left
  /\ UNCHANGED <<rows, events, ask, locals, others, failures>>

RecordDecision(d) ==
  /\ At(d, "audit")
  /\ events' = events \cup {[by |-> d, case |-> Current(d), action |-> ask[d].action]}
  /\ \/ ask[d].bulk /\ NextCase(d)
     \/ ~ask[d].bulk /\ To(d, "reread") /\ left' = left
  /\ UNCHANGED <<rows, ask, locals, others, failures>>

\* decide_review answers with the row as it reads it after the audit.
Reread(d) ==
  /\ At(d, "reread")
  /\ shown' = [shown EXCEPT ![d] = Find(d)]
  /\ NextCase(d)
  /\ UNCHANGED <<rows, events, ask, resolved, conflicts, others, failures>>

\* A call raises, or the process dies: the rest of the request is not executed.
Fails(d) ==
  /\ step[d] \notin {"new", "done", "failed"}
  /\ failures < MaxFailures
  /\ failures' = failures + 1
  /\ To(d, "failed")
  /\ UNCHANGED <<rows, events, ask, left, locals, others>>

Next ==
  \/ \E p \in Runs : SaveReviewCases(p) \/ ReportBacklog(p)
  \/ \E d \in Deciders :
       Ask(d) \/ Lookup(d) \/ Resolve(d) \/ RecordDecision(d) \/ Reread(d) \/ Fails(d)

Spec == Init /\ [][Next]_vars

-----------------------------------------------------------------------------
TypeOK ==
  /\ rows \in [CaseId -> Row \cup {None}]
  /\ events \subseteq Decision
  /\ ask \in [Deciders -> Request \cup {None}]
  /\ step \in [Deciders -> DeciderStep]
  /\ left \in [Deciders -> Seq(CaseId)]
  /\ resolved \in [Deciders -> Seq(CaseId)]
  /\ conflicts \in [Deciders -> Seq([case : CaseId, reason : Reasons])]
  /\ shown \in [Deciders -> Row \cup {None}]
  /\ running \subseteq Runs /\ backlog \in Nat
  /\ saves \in 0 .. MaxSaves /\ failures \in 0 .. MaxFailures

\* A decided case has the decision its decider asked for, and nobody else's: the audit
\* file tells the same story as the table, whatever threads interleaved.
AuditAgreesWithRow ==
  \A e \in events : /\ e.case \in Decided
                    /\ rows[e.case] = [status |-> Outcome(e.action), by |-> e.by]

\* A decided case is in the audit file, unless the thread that decided it is about to
\* append, or died before it did.
DecidedIsAudited ==
  \A c \in Decided : LET d == rows[c].by IN
    \/ [by |-> d, case |-> c, action |-> ask[d].action] \in events
    \/ step[d] \in {"audit", "failed"} /\ Current(d) = c

ResolvedOnce ==
  \A d, e \in Deciders : \A i \in DOMAIN resolved[d], k \in DOMAIN resolved[e] :
    /\ rows[resolved[d][i]] # None /\ rows[resolved[d][i]].by = d
    /\ resolved[d][i] = resolved[e][k] => d = e /\ i = k
EveryIdAnswered ==
  \A d \in Deciders : At(d, "done") =>
    /\ Len(resolved[d]) + Len(conflicts[d]) = Len(ask[d].ids)
    /\ \A i \in DOMAIN ask[d].ids : LET c == ask[d].ids[i] IN
         \/ \E k \in DOMAIN resolved[d] : resolved[d][k] = c
         \/ \E k \in DOMAIN conflicts[d] : conflicts[d][k].case = c
RefusalsAreTrue ==
  \A d \in Deciders : \A i \in DOMAIN conflicts[d] :
    LET c == conflicts[d][i] IN
    c.reason # "not_found" => c.case \in Decided /\ c.case[1] = ask[d].tenant
ShownIsOwnDecision ==
  \A d \in Deciders : shown[d] # None => shown[d] = [status |-> Outcome(ask[d].action), by |-> d]

\* What the replies say is so, whatever requests raced: a case is reported resolved once, to
\* the request that owns its row, though lists name it twice or two requests want it; every
\* id of a finished request is accounted for; a refused case is decided, and of the caller's
\* tenant; and the row a single request shows after its audit is its own decision.
RepliesAreTrue == ResolvedOnce /\ EveryIdAnswered /\ RefusalsAreTrue /\ ShownIsOwnDecision

\* A request decides cases of its own tenant only.
OwnTenantOnly == \A c \in Decided : c[1] = ask[rows[c].by].tenant

\* A decision is final: no later decision overwrites it, and a run that executes again
\* (a retry, a redelivery, the same files once more) does not reopen it.
DecisionsAreFinal == [][\A c \in Decided : rows'[c] = rows[c]]_rows

\* Lookups that race with updates, deaths between any two calls and runs that save again
\* cannot be told from requests that each deal with one id at a time: the desk implements
\* the sequential one, with its rows, requests and answers.
Sequential == INSTANCE SequentialReview WITH Arrivals <- {CasesOf(p) : p \in Runs}
ImplementsSequentialReview == Sequential!Spec
=============================================================================
