-------------------------- MODULE ReviewDeskProofs --------------------------
(***************************************************************************)
(* The review workflow for any number of requests, runs, tenants and cases, *)
(* and for case lists of any length.                                       *)
(***************************************************************************)
EXTENDS ReviewQueue, RankProofs, SequenceTheorems

USE DEF locals, others, At, To

Handling == {"get", "resolve", "audit", "reread"}

\* A request under way has ids left; a thread past the UPDATE owns the row of its case.
DeciderProgress ==
  \A d \in Deciders :
    /\ step[d] # "new" => ask[d] # None
    /\ step[d] \in Handling => left[d] # <<>>
    /\ step[d] \in {"audit", "reread"} =>
         /\ rows[Current(d)] = [status |-> Outcome(ask[d].action), by |-> d]
         /\ Current(d)[1] = ask[d].tenant

\* Whoever decided a row, and for which tenant, is known from the row.
RowsHaveDeciders ==
  \A c \in Decided :
    /\ rows[c].by \in Deciders /\ step[rows[c].by] # "new"
    /\ rows[c].status = Outcome(ask[rows[c].by].action)

DeskInv == TypeOK /\ DeciderProgress /\ RowsHaveDeciders

-----------------------------------------------------------------------------
(* The invariant.                                                             *)

\* What moving on to the next case, or refusing one, does to the request's own state.
LEMMA Moves ==
  ASSUME TypeOK, NEW d \in Deciders, NextCase(d), left[d] # <<>>
  PROVE  /\ left' \in [Deciders -> Seq(CaseId)]
         /\ step' \in [Deciders -> DeciderStep]
         /\ step'[d] \in {"get", "done"}
         /\ step'[d] = "get" => left'[d] # <<>>
         /\ \A e \in Deciders \ {d} : step'[e] = step[e] /\ left'[e] = left[e]
<1>1. left[d] \in Seq(CaseId) /\ Tail(left[d]) \in Seq(CaseId)
  BY DEF TypeOK
<1>2. ASSUME Len(left[d]) > 1, Tail(left[d]) = <<>> PROVE FALSE
  <2>1. Len(Tail(left[d])) = Len(left[d]) - 1 /\ Len(left[d]) \in Nat
    BY <1>1, HeadTailProperties, LenProperties
  <2>2. Len(<<>>) = 0
    OBVIOUS
  <2>3. Len(left[d]) - 1 = 0
    BY <1>2, <2>1, <2>2, Zenon
  <2> QED BY <1>2, <2>1, <2>3
<1> QED BY <1>1, <1>2 DEF NextCase, TypeOK, DeciderStep

LEMMA RefuseType ==
  ASSUME TypeOK, NEW d \in Deciders, NEW reason \in Reasons, Refuse(d, reason), left[d] # <<>>
  PROVE  /\ conflicts' \in [Deciders -> Seq([case : CaseId, reason : Reasons])]
         /\ rows' = rows /\ resolved' = resolved
<1>1. Current(d) \in CaseId
  BY DEF TypeOK, Current
<1>2. [case |-> Current(d), reason |-> reason] \in [case : CaseId, reason : Reasons]
  BY <1>1
<1>3. conflicts[d] \in Seq([case : CaseId, reason : Reasons])
  BY DEF TypeOK
<1>4. Append(conflicts[d], [case |-> Current(d), reason |-> reason])
        \in Seq([case : CaseId, reason : Reasons])
  BY <1>2, <1>3
<1> QED BY <1>4 DEF Refuse, TypeOK

LEMMA WriteType ==
  ASSUME TypeOK, DeciderProgress, NEW d \in Deciders, At(d, "resolve"), Write(d)
  PROVE  /\ rows' \in [CaseId -> Row \cup {None}]
         /\ resolved' \in [Deciders -> Seq(CaseId)]
         /\ Current(d) \in CaseId
<1>1. left[d] \in Seq(CaseId) /\ left[d] # <<>>
  BY DEF TypeOK, DeciderProgress, Handling
<1>2. Current(d) \in CaseId
  BY <1>1 DEF Current
<1>3. [status |-> Outcome(ask[d].action), by |-> d] \in Row
  BY DEF Row, Outcome
<1>4. Append(resolved[d], Current(d)) \in Seq(CaseId)
  BY <1>2 DEF TypeOK
<1> QED BY <1>2, <1>3, <1>4 DEF Write, TypeOK

\* The UPDATE and the INSERT OR IGNORE leave decided rows alone, whatever the state.
LEMMA FinalStep ==
  ASSUME TypeOK, [Next]_vars, NEW c \in Decided
  PROVE  rows'[c] = rows[c]
<1>0. c \in CaseId /\ rows[c] # None /\ rows[c].status # "open"
  BY DEF Decided, Open, Stored
<1>1. UNCHANGED rows \/ (\E p \in Runs : SaveReviewCases(p)) \/ (\E d \in Deciders : Resolve(d))
  BY DEF Next, vars, ReportBacklog, Ask, Lookup, Refuse, RecordDecision, Reread, Fails
<1>2. ASSUME NEW p \in Runs, SaveReviewCases(p) PROVE rows'[c] = rows[c]
  BY <1>0, <1>2 DEF SaveReviewCases, Decided, Stored
<1>3. ASSUME NEW d \in Deciders, Resolve(d) PROVE rows'[c] = rows[c]
  <2>1. CASE rows' = rows
    BY <2>1
  <2>2. CASE Find(d) # None /\ Find(d).status = "open" /\ Write(d)
    <3>1. Current(d) # c
      BY <1>0, <2>2 DEF Find
    <3> QED BY <1>0, <2>2, <3>1 DEF Write, TypeOK
  <2> QED BY <1>3, <2>1, <2>2 DEF Resolve, Refuse
<1> QED BY <1>1, <1>2, <1>3

LEMMA DeskType ==
  ASSUME TypeOK, DeciderProgress, [Next]_vars
  PROVE  TypeOK'
<1>1. ASSUME NEW p \in Runs, SaveReviewCases(p) PROVE TypeOK'
  <2>1. rows' \in [CaseId -> Row \cup {None}]
    BY <1>1 DEF SaveReviewCases, TypeOK, Row
  <2>2. saves' \in 0 .. MaxSaves
    BY <1>1, DeskAssumption DEF SaveReviewCases, TypeOK
  <2> QED BY <1>1, <2>1, <2>2 DEF SaveReviewCases, TypeOK
<1>2. ASSUME NEW p \in Runs, ReportBacklog(p) PROVE TypeOK'
  <2>1. {c \in Stored : c[1] = TenantOfRun[p]} \in SUBSET CaseId
    BY DEF Stored
  <2>2. IsFiniteSet({c \in Stored : c[1] = TenantOfRun[p]})
    BY <2>1, DeskAssumption, FS_Subset
  <2>3. CaseCount(TenantOfRun[p]) \in Nat
    BY <2>2, FS_CardinalityType DEF CaseCount
  <2> QED BY <1>2, <2>3 DEF ReportBacklog, TypeOK
<1>3. ASSUME NEW d \in Deciders, Ask(d) PROVE TypeOK'
  <2>1. PICK q \in Request : ask' = [ask EXCEPT ![d] = q] /\ left' = [left EXCEPT ![d] = q.ids]
    BY <1>3, DeskAssumption DEF Ask
  <2>2. q.ids \in Seq(CaseId)
    BY DeskAssumption DEF Request
  <2> QED BY <1>3, <2>1, <2>2 DEF Ask, TypeOK, DeciderStep
<1>4. ASSUME NEW d \in Deciders, Lookup(d) PROVE TypeOK'
  <2>0. left[d] # <<>>
    BY <1>4 DEF Lookup, DeciderProgress, Handling
  <2>1. ASSUME NEW reason \in Reasons, Refuse(d, reason) PROVE TypeOK'
    BY <1>4, <2>0, <2>1, RefuseType, Moves DEF Lookup, Refuse, TypeOK
  <2>2. CASE To(d, "resolve") /\ UNCHANGED <<rows, left, resolved, conflicts>>
    BY <1>4, <2>2 DEF Lookup, TypeOK, DeciderStep
  <2> QED BY <1>4, <2>1, <2>2 DEF Lookup, Reasons
<1>5. ASSUME NEW d \in Deciders, Resolve(d) PROVE TypeOK'
  <2>0. left[d] # <<>>
    BY <1>5 DEF Resolve, DeciderProgress, Handling
  <2>1. CASE Refuse(d, "concurrent_update")
    BY <1>5, <2>0, <2>1, RefuseType, Moves DEF Resolve, Refuse, TypeOK, Reasons
  <2>2. CASE Write(d)
    <3>1. step' \in [Deciders -> DeciderStep]
      BY <2>2 DEF Write, TypeOK, DeciderStep
    <3> QED BY <1>5, <2>2, <3>1, WriteType DEF Resolve, Write, TypeOK
  <2> QED BY <1>5, <2>1, <2>2 DEF Resolve
<1>6. ASSUME NEW d \in Deciders, RecordDecision(d) PROVE TypeOK'
  <2>a. step[d] = "audit"
    BY <1>6 DEF RecordDecision
  <2>b. ask[d] \in Request \cup {None} /\ ask[d] # None
    BY <2>a DEF DeciderProgress, TypeOK
  <2>0. left[d] # <<>> /\ ask[d] \in Request
    BY <2>a, <2>b DEF DeciderProgress, Handling
  <2>1. Current(d) \in CaseId
    BY <2>0 DEF TypeOK, Current
  <2>2. events' \subseteq Decision
    BY <1>6, <2>0, <2>1 DEF RecordDecision, TypeOK, Decision, Request
  <2>3. CASE NextCase(d)
    BY <1>6, <2>0, <2>2, <2>3, Moves DEF RecordDecision, TypeOK
  <2>4. CASE To(d, "reread") /\ left' = left
    BY <1>6, <2>2, <2>4 DEF RecordDecision, TypeOK, DeciderStep
  <2> QED BY <1>6, <2>3, <2>4 DEF RecordDecision
<1>7. ASSUME NEW d \in Deciders, Reread(d) PROVE TypeOK'
  <2>0. left[d] # <<>>
    BY <1>7 DEF Reread, DeciderProgress, Handling
  <2>1. Find(d) \in Row \cup {None}
    BY <2>0 DEF Find, Current, TypeOK
  <2> QED BY <1>7, <2>0, <2>1, Moves DEF Reread, TypeOK
<1>8. ASSUME NEW d \in Deciders, Fails(d) PROVE TypeOK'
  <2>1. failures' \in 0 .. MaxFailures
    BY <1>8, DeskAssumption DEF Fails, TypeOK
  <2> QED BY <1>8, <2>1 DEF Fails, TypeOK, DeciderStep
<1>9. UNCHANGED vars => TypeOK'
  BY DEF vars, TypeOK
<1> QED BY <1>1, <1>2, <1>3, <1>4, <1>5, <1>6, <1>7, <1>8, <1>9 DEF Next

\* A thread keeps its own case while other threads and runs write the table.
LEMMA ProgressStep ==
  ASSUME DeskInv, [Next]_vars
  PROVE  DeciderProgress'
<1> USE DEF DeskInv
<1>0. TypeOK /\ TypeOK'
  BY DeskType
<1> DEFINE Keeps(e) ==
      /\ step'[e] # "new" => ask'[e] # None
      /\ step'[e] \in Handling => left'[e] # <<>>
      /\ step'[e] \in {"audit", "reread"} =>
           /\ rows'[Head(left'[e])] = [status |-> Outcome(ask'[e].action), by |-> e]
           /\ Head(left'[e])[1] = ask'[e].tenant
\* What a decided thread has written stays, by FinalStep.
<1>1. ASSUME NEW e \in Deciders, step'[e] = step[e], left'[e] = left[e], ask'[e] = ask[e]
      PROVE  Keeps(e)
  <2>1. CASE step[e] \in {"audit", "reread"}
    <3>1. /\ left[e] # <<>> /\ ask[e] # None
          /\ rows[Current(e)] = [status |-> Outcome(ask[e].action), by |-> e]
          /\ Current(e)[1] = ask[e].tenant
      BY <2>1 DEF DeciderProgress, Handling
    <3>2. Current(e) \in CaseId
      BY <1>0, <3>1 DEF TypeOK, Current
    <3>3. Current(e) \in Decided
      BY <3>1, <3>2, DeskAssumption DEF Decided, Open, Stored, Outcome, TypeOK, Row
    <3>4. rows'[Current(e)] = rows[Current(e)]
      BY <1>0, <3>3, FinalStep
    <3> QED BY <1>1, <3>1, <3>4 DEF Current, Handling
  <2>2. CASE step[e] \notin {"audit", "reread"}
    BY <1>1, <2>2 DEF DeciderProgress
  <2> QED BY <2>1, <2>2
<1>2. ASSUME NEW d \in Deciders, NEW e \in Deciders \ {d},
             Ask(d) \/ Lookup(d) \/ Resolve(d) \/ RecordDecision(d) \/ Reread(d) \/ Fails(d)
      PROVE  step'[e] = step[e] /\ left'[e] = left[e] /\ ask'[e] = ask[e]
  BY <1>0, <1>2 DEF Ask, Lookup, Resolve, Write, Refuse, NextCase, RecordDecision, Reread, Fails,
     TypeOK
\* A thread that has handled its case goes on with the next one or ends.
<1>3. ASSUME NEW d \in Deciders, NextCase(d), ask' = ask, step[d] \in Handling PROVE Keeps(d)
  <2>1. left[d] # <<>> /\ ask[d] # None
    BY <1>3 DEF DeciderProgress, Handling
  <2> QED BY <1>0, <1>3, <2>1, Moves DEF Handling
<1>4. ASSUME NEW d \in Deciders, Ask(d) PROVE Keeps(d)
  <2>1. PICK q \in Request : ask' = [ask EXCEPT ![d] = q] /\ left' = [left EXCEPT ![d] = q.ids]
    BY <1>4, DeskAssumption DEF Ask
  <2>2. q.ids # <<>> /\ q # None
    BY DeskAssumption DEF Request
  <2> QED BY <1>0, <1>4, <2>1, <2>2 DEF Ask, TypeOK, Handling
<1>5. ASSUME NEW d \in Deciders, Lookup(d) PROVE Keeps(d)
  <2>1. CASE NextCase(d)
    BY <1>3, <1>5, <2>1 DEF Lookup, Handling
  <2>2. CASE To(d, "resolve") /\ left' = left
    BY <1>0, <1>5, <2>2 DEF Lookup, Handling, DeciderProgress, TypeOK
  <2> QED BY <1>5, <2>1, <2>2 DEF Lookup, Refuse
<1>6. ASSUME NEW d \in Deciders, Resolve(d) PROVE Keeps(d)
  <2>1. CASE NextCase(d)
    BY <1>3, <1>6, <2>1 DEF Resolve, Handling
  <2>2. CASE Write(d) /\ Find(d) # None
    <3>1. Current(d) \in CaseId /\ Current(d)[1] = ask[d].tenant
      BY <1>0, <1>6, <2>2, WriteType DEF Resolve, Find
    <3> QED BY <1>0, <1>6, <2>2, <3>1 DEF Resolve, Write, TypeOK, Current, DeciderProgress, Handling
  <2> QED BY <1>6, <2>1, <2>2 DEF Resolve, Refuse
<1>7. ASSUME NEW d \in Deciders, RecordDecision(d) PROVE Keeps(d)
  <2>1. CASE NextCase(d)
    BY <1>3, <1>7, <2>1 DEF RecordDecision, Handling
  <2>2. CASE To(d, "reread") /\ left' = left
    BY <1>0, <1>7, <2>2 DEF RecordDecision, DeciderProgress, Handling, TypeOK, Current
  <2> QED BY <1>7, <2>1, <2>2 DEF RecordDecision
<1>8. ASSUME NEW d \in Deciders, Reread(d) PROVE Keeps(d)
  BY <1>3, <1>8 DEF Reread, Handling
<1>9. ASSUME NEW d \in Deciders, Fails(d) PROVE Keeps(d)
  BY <1>0, <1>9 DEF Fails, DeciderProgress, Handling, TypeOK
<1>10. ASSUME NEW p \in Runs, SaveReviewCases(p) \/ ReportBacklog(p), NEW e \in Deciders
       PROVE  Keeps(e)
  BY <1>1, <1>10 DEF SaveReviewCases, ReportBacklog
<1>11. ASSUME UNCHANGED vars, NEW e \in Deciders PROVE Keeps(e)
  BY <1>1, <1>11 DEF vars
<1>12. \A e \in Deciders : Keeps(e)
  BY <1>1, <1>2, <1>4, <1>5, <1>6, <1>7, <1>8, <1>9, <1>10, <1>11 DEF Next
<1> QED BY <1>12 DEF DeciderProgress, Current

\* A request does not change once it has been made, and a thread never starts over.
LEMMA RequestsStand ==
  ASSUME TypeOK, [Next]_vars, NEW d \in Deciders, step[d] # "new"
  PROVE  ask'[d] = ask[d] /\ step'[d] # "new"
<1>1. ASSUME NEW e \in Deciders,
             Ask(e) \/ Lookup(e) \/ Resolve(e) \/ RecordDecision(e) \/ Reread(e) \/ Fails(e)
      PROVE  ask'[d] = ask[d] /\ step'[d] # "new"
  BY <1>1 DEF Ask, Lookup, Resolve, Write, Refuse, NextCase, RecordDecision, Reread, Fails, TypeOK
<1> QED BY <1>1 DEF Next, vars, SaveReviewCases, ReportBacklog

\* A row becomes decided by one UPDATE, of a thread of the case's tenant.
LEMMA DecisionChange ==
  ASSUME TypeOK, DeciderProgress, [Next]_vars, NEW c \in Decided'
  PROVE  \/ c \in Decided /\ rows'[c] = rows[c]
         \/ \E d \in Deciders :
              /\ step[d] = "resolve" /\ Write(d) /\ ask' = ask
              /\ Current(d) = c /\ c[1] = ask[d].tenant
              /\ rows'[c] = [status |-> Outcome(ask[d].action), by |-> d]
<1>0. c \in CaseId /\ rows'[c] # None /\ rows'[c].status # "open"
  BY DEF Decided, Open, Stored
<1>1. UNCHANGED rows \/ (\E p \in Runs : SaveReviewCases(p)) \/ (\E d \in Deciders : Resolve(d))
  BY DEF Next, vars, ReportBacklog, Ask, Lookup, Refuse, RecordDecision, Reread, Fails
<1>2. CASE rows'[c] = rows[c]
  BY <1>0, <1>2 DEF Decided, Open, Stored
<1>3. ASSUME NEW p \in Runs, SaveReviewCases(p) PROVE rows'[c] = rows[c]
  BY <1>0, <1>3 DEF SaveReviewCases
<1>4. ASSUME NEW d \in Deciders, Resolve(d), rows'[c] # rows[c]
      PROVE  /\ step[d] = "resolve" /\ Write(d) /\ ask' = ask
             /\ Current(d) = c /\ c[1] = ask[d].tenant
             /\ rows'[c] = [status |-> Outcome(ask[d].action), by |-> d]
  <2>1. Write(d) /\ Find(d) # None
    BY <1>4 DEF Resolve, Refuse
  <2>2. Current(d) = c
    BY <1>0, <1>4, <2>1 DEF Write, TypeOK
  <2> QED BY <1>0, <1>4, <2>1, <2>2 DEF Resolve, Write, Find, TypeOK
<1> QED BY <1>1, <1>2, <1>3, <1>4

\* A thread that resolves has made its request.
LEMMA WriterHasRequest ==
  ASSUME DeciderProgress, NEW d \in Deciders, step[d] = "resolve", Write(d), TypeOK
  PROVE  step[d] # "new" /\ step'[d] = "audit" /\ left' = left /\ ask[d] # None
BY DEF DeciderProgress, Write, TypeOK

LEMMA OwnersStep ==
  ASSUME DeskInv, [Next]_vars
  PROVE  RowsHaveDeciders'
<1> USE DEF DeskInv
<1> SUFFICES ASSUME NEW c \in Decided'
             PROVE  /\ rows'[c].by \in Deciders /\ step'[rows'[c].by] # "new"
                    /\ rows'[c].status = Outcome(ask'[rows'[c].by].action)
  BY DEF RowsHaveDeciders, Outcome
<1>1. CASE c \in Decided /\ rows'[c] = rows[c]
  BY <1>1, RequestsStand DEF RowsHaveDeciders
<1>2. ASSUME NEW d \in Deciders, step[d] = "resolve", Write(d), ask' = ask,
             rows'[c] = [status |-> Outcome(ask[d].action), by |-> d]
      PROVE  /\ rows'[c].by \in Deciders /\ step'[rows'[c].by] # "new"
             /\ rows'[c].status = Outcome(ask'[rows'[c].by].action)
  BY <1>2, WriterHasRequest
<1> QED BY <1>1, <1>2, DecisionChange

LEMMA DeskInit == Init => DeskInv
<1> SUFFICES ASSUME Init PROVE DeskInv
  OBVIOUS
<1>1. TypeOK
  BY DeskAssumption DEF Init, TypeOK, DeciderStep
<1>2. DeciderProgress /\ RowsHaveDeciders
  BY DEF Init, DeciderProgress, RowsHaveDeciders, Decided, Open, Stored, Handling
<1> QED BY <1>1, <1>2 DEF DeskInv

(* In every reachable state a thread past the UPDATE owns the row of its case, *)
(* and a decided row names the request that decided it.                        *)
THEOREM DeskInvariance == Spec => []DeskInv
<1>1. DeskInv /\ [Next]_vars => DeskInv'
  BY DeskType, ProgressStep, OwnersStep DEF DeskInv
<1> QED BY <1>1, DeskInit, PTL DEF Spec

-----------------------------------------------------------------------------
(* What the workflow promises.                                                *)

\* Well-typedness, for case lists of any length.
THEOREM DeskTypeCorrect == Spec => []TypeOK
<1>1. DeskInv => TypeOK
  BY DEF DeskInv
<1> QED BY <1>1, DeskInvariance, PTL

(* A decision is never overwritten by another one, and a reconciliation that   *)
(* runs again never reopens a decided case.                                    *)
THEOREM DecisionsFinal == Spec => DecisionsAreFinal
<1>1. TypeOK /\ [Next]_vars => [\A c \in Decided : rows'[c] = rows[c]]_rows
  BY FinalStep
<1> QED BY <1>1, DeskTypeCorrect, PTL DEF Spec, DecisionsAreFinal

(* The audit file and the table agree on every decided case: who decided it    *)
(* and how.                                                                    *)
THEOREM AuditAgrees == Spec => []AuditAgreesWithRow
<1>1. Init => AuditAgreesWithRow
  BY DEF Init, AuditAgreesWithRow
<1>2. ASSUME DeskInv, AuditAgreesWithRow, [Next]_vars PROVE AuditAgreesWithRow'
  <2> USE DEF DeskInv
  <2> SUFFICES ASSUME NEW e \in events'
               PROVE  /\ e.case \in Decided'
                      /\ rows'[e.case] = [status |-> Outcome(e.action), by |-> e.by]
    BY DEF AuditAgreesWithRow, Outcome
  <2>1. \A c \in Decided : c \in Decided' /\ rows'[c] = rows[c]
    BY <1>2, FinalStep DEF Decided, Open, Stored
  <2>2. CASE e \in events
    BY <1>2, <2>1, <2>2 DEF AuditAgreesWithRow
  <2>3. ASSUME NEW d \in Deciders, RecordDecision(d), e \notin events
        PROVE  /\ e.case \in Decided
               /\ rows[e.case] = [status |-> Outcome(e.action), by |-> e.by]
    <3>1. e = [by |-> d, case |-> Current(d), action |-> ask[d].action]
      BY <2>3 DEF RecordDecision
    <3>2. left[d] # <<>> /\ rows[Current(d)] = [status |-> Outcome(ask[d].action), by |-> d]
      BY <1>2, <2>3 DEF RecordDecision, DeciderProgress, Handling
    <3>3. Current(d) \in CaseId
      BY <1>2, <3>2 DEF Current, TypeOK
    <3>4. [status |-> Outcome(ask[d].action), by |-> d] \in Row
      BY DEF Row, Outcome
    <3>5. Current(d) \in Decided
      BY <3>2, <3>3, <3>4, DeskAssumption DEF Decided, Open, Stored, Outcome
    <3> QED BY <3>1, <3>2, <3>5
  <2>4. events' = events \/ \E d \in Deciders : RecordDecision(d)
    BY <1>2 DEF Next, vars, SaveReviewCases, ReportBacklog, Ask, Lookup, Resolve, Reread, Fails
  <2> QED BY <2>1, <2>2, <2>3, <2>4
<1> QED BY <1>1, <1>2, DeskInvariance, PTL DEF Spec

(* Nobody decides a case of another tenant, whatever case ids a request names. *)
THEOREM OwnTenant == Spec => []OwnTenantOnly
<1>1. Init => OwnTenantOnly
  BY DEF Init, OwnTenantOnly, Decided, Stored
<1>2. ASSUME DeskInv, OwnTenantOnly, [Next]_vars PROVE OwnTenantOnly'
  <2> SUFFICES ASSUME NEW c \in Decided' PROVE c[1] = ask'[rows'[c].by].tenant
    BY DEF OwnTenantOnly
  <2>1. CASE c \in Decided /\ rows'[c] = rows[c]
    BY <1>2, <2>1, RequestsStand DEF OwnTenantOnly, DeskInv, RowsHaveDeciders
  <2>2. ASSUME NEW d \in Deciders, ask' = ask, c[1] = ask[d].tenant, rows'[c].by = d
        PROVE  c[1] = ask'[rows'[c].by].tenant
    BY <2>2
  <2>3. ASSUME NEW d \in Deciders, rows'[c] = [status |-> Outcome(ask[d].action), by |-> d]
        PROVE  rows'[c].by = d
    BY <2>3
  <2> QED BY <1>2, <2>1, <2>2, <2>3, DecisionChange DEF DeskInv
<1> QED BY <1>1, <1>2, DeskInvariance, PTL DEF Spec

(* A decided case is in the audit file, except for the thread that is about to *)
(* append its event or failed at that very case.                               *)
THEOREM DecidedAudited == Spec => []DecidedIsAudited
<1>1. Init => DecidedIsAudited
  BY DEF Init, DecidedIsAudited, Decided, Stored
<1>2. ASSUME DeskInv, DecidedIsAudited, [Next]_vars PROVE DecidedIsAudited'
  <2> USE DEF DeskInv
  <2>0. TypeOK'
    BY <1>2, DeskType
  <2> DEFINE Fine(c, d) == \/ [by |-> d, case |-> c, action |-> ask'[d].action] \in events'
                           \/ step'[d] \in {"audit", "failed"} /\ Head(left'[d]) = c
  <2> SUFFICES ASSUME NEW c \in Decided' PROVE Fine(c, rows'[c].by)
    BY DEF DecidedIsAudited, Current
  <2>1. events \subseteq events'
    BY <1>2 DEF Next, vars, SaveReviewCases, ReportBacklog, Ask, Lookup, Resolve,
       RecordDecision, Reread, Fails
  <2>2. ASSUME c \in Decided, rows'[c] = rows[c] PROVE Fine(c, rows'[c].by)
    <3> DEFINE d == rows[c].by
    <3>1. d \in Deciders /\ step[d] # "new"
      BY <1>2, <2>2 DEF RowsHaveDeciders
    <3>2. ask'[d] = ask[d]
      BY <1>2, <3>1, RequestsStand
    <3>3. CASE [by |-> d, case |-> c, action |-> ask[d].action] \in events
      BY <2>1, <2>2, <3>2, <3>3
    <3>4. CASE step[d] \in {"audit", "failed"} /\ Current(d) = c
      <4>1. ASSUME RecordDecision(d)
            PROVE  [by |-> d, case |-> c, action |-> ask[d].action] \in events'
        BY <3>4, <4>1 DEF RecordDecision
      <4>2. ASSUME ~RecordDecision(d)
            PROVE  step'[d] \in {"audit", "failed"} /\ left'[d] = left[d]
        <5> HIDE DEF d
        <5>1. ASSUME NEW e \in Deciders, Ask(e) \/ Lookup(e) \/ Resolve(e)
              PROVE  step'[d] = step[d] /\ left'[d] = left[d]
          BY <1>2, <3>1, <3>4, <5>1 DEF Ask, Lookup, Resolve, Write, Refuse, NextCase, TypeOK
        <5>2. ASSUME NEW e \in Deciders, RecordDecision(e) \/ Reread(e) \/ Fails(e)
              PROVE  step'[d] \in {"audit", "failed"} /\ left'[d] = left[d]
          BY <1>2, <3>1, <3>4, <4>2, <5>2 DEF RecordDecision, Reread, Fails, NextCase, TypeOK
        <5>3. ASSUME UNCHANGED vars \/ \E p \in Runs : SaveReviewCases(p) \/ ReportBacklog(p)
              PROVE  step'[d] = step[d] /\ left'[d] = left[d]
          BY <5>3 DEF vars, SaveReviewCases, ReportBacklog
        <5> QED BY <1>2, <3>4, <5>1, <5>2, <5>3 DEF Next
      <4> QED BY <2>2, <3>2, <3>4, <4>1, <4>2 DEF Current
    <3> QED BY <1>2, <2>2, <3>3, <3>4 DEF DecidedIsAudited
  <2>3. ASSUME NEW d \in Deciders, step[d] = "resolve", Write(d), Current(d) = c,
               rows'[c] = [status |-> Outcome(ask[d].action), by |-> d]
        PROVE  Fine(c, rows'[c].by)
    BY <1>2, <2>3, WriterHasRequest DEF Current
  <2> QED BY <1>2, <2>2, <2>3, DecisionChange
<1> QED BY <1>1, <1>2, DeskInvariance, PTL DEF Spec

-----------------------------------------------------------------------------
(* Replies.                                                                   *)

LEMMA CurrentIsCase ==
  ASSUME TypeOK, DeciderProgress, NEW d \in Deciders, step[d] \in Handling
  PROVE  Current(d) \in CaseId /\ left[d] \in Seq(CaseId) /\ left[d] # <<>>
<1>1. left[d] \in Seq(CaseId) /\ left[d] # <<>>
  BY DEF TypeOK, DeciderProgress
<1> QED BY <1>1 DEF Current

LEMMA RequestIds ==
  ASSUME TypeOK, DeciderProgress, NEW d \in Deciders, step[d] # "new"
  PROVE  ask[d].ids \in Seq(CaseId) /\ Len(ask[d].ids) \in Nat
<1>1. ask[d] \in Request
  <2>1. ask[d] # None
    BY DEF DeciderProgress
  <2> QED BY <2>1 DEF TypeOK
<1>2. ask[d].ids \in Seq(CaseId)
  BY <1>1, DeskAssumption DEF Request
<1> QED BY <1>2, LenProperties

\* What one step does to the locals of a request, whoever takes it.
Stays(d) ==
  /\ step'[d] = step[d] /\ left'[d] = left[d] /\ ask'[d] = ask[d]
  /\ resolved'[d] = resolved[d] /\ conflicts'[d] = conflicts[d] /\ shown'[d] = shown[d]
Answers(d) == ask'[d] = ask[d] /\ resolved'[d] = resolved[d] /\ conflicts'[d] = conflicts[d]
Advances(d) ==
  /\ left'[d] = Tail(left[d])
  /\ step'[d] = IF Len(left[d]) > 1 THEN "get" ELSE "done"
Starts(d) ==
  /\ step[d] = "new" /\ step'[d] = "get" /\ ask'[d] \in Request /\ left'[d] = ask'[d].ids
  /\ resolved'[d] = resolved[d] /\ conflicts'[d] = conflicts[d] /\ shown'[d] = shown[d]
Breaks(d) == step[d] # "new" /\ step'[d] = "failed" /\ Answers(d) /\ shown'[d] = shown[d]
FindsOpen(d) ==
  /\ step[d] = "get" /\ step'[d] = "resolve" /\ Find(d) # None
  /\ left'[d] = left[d] /\ Answers(d) /\ shown'[d] = shown[d]
Refuses(d) ==
  /\ step[d] \in {"get", "resolve"} /\ Advances(d)
  /\ \E reason \in Reasons :
       /\ conflicts'[d] = Append(conflicts[d], [case |-> Current(d), reason |-> reason])
       /\ reason # "not_found" => Find(d) = None \/ Find(d).status # "open"
       /\ reason # "not_found" => step[d] = "resolve" \/ Find(d) # None
  /\ ask'[d] = ask[d] /\ resolved'[d] = resolved[d] /\ shown'[d] = shown[d]
Wins(d) ==
  /\ step[d] = "resolve" /\ step'[d] = "audit" /\ left'[d] = left[d]
  /\ Find(d) # None /\ Find(d).status = "open"
  /\ resolved'[d] = Append(resolved[d], Current(d))
  /\ rows'[Current(d)] = [status |-> Outcome(ask[d].action), by |-> d]
  /\ ask'[d] = ask[d] /\ conflicts'[d] = conflicts[d] /\ shown'[d] = shown[d]
Logs(d) ==
  /\ step[d] = "audit" /\ Answers(d) /\ shown'[d] = shown[d]
  /\ Advances(d) \/ (step'[d] = "reread" /\ left'[d] = left[d])
Shows(d) == step[d] = "reread" /\ Answers(d) /\ Advances(d) /\ shown'[d] = Find(d)

LEMMA DeciderMoves ==
  ASSUME TypeOK, DeciderProgress, [Next]_vars, NEW d \in Deciders
  PROVE  \/ Stays(d) \/ Starts(d) \/ Breaks(d) \/ FindsOpen(d) \/ Refuses(d)
         \/ Wins(d) \/ Logs(d) \/ Shows(d)
<1>1. CASE UNCHANGED vars \/ \E p \in Runs : SaveReviewCases(p) \/ ReportBacklog(p)
  BY <1>1 DEF vars, SaveReviewCases, ReportBacklog, Stays
<1>2. ASSUME NEW e \in Deciders \ {d},
             Ask(e) \/ Lookup(e) \/ Resolve(e) \/ RecordDecision(e) \/ Reread(e) \/ Fails(e)
      PROVE  Stays(d)
  BY <1>2 DEF Ask, Lookup, Resolve, Write, Refuse, NextCase, RecordDecision, Reread, Fails,
     TypeOK, Stays
<1>3. ASSUME Ask(d) PROVE Starts(d)
  <2>1. PICK q \in Request : ask' = [ask EXCEPT ![d] = q] /\ left' = [left EXCEPT ![d] = q.ids]
    BY <1>3, DeskAssumption DEF Ask
  <2> QED BY <1>3, <2>1 DEF Ask, Starts, TypeOK
<1>4. ASSUME Fails(d) PROVE Breaks(d)
  BY <1>4 DEF Fails, Breaks, Answers, TypeOK
<1>5. ASSUME NextCase(d) PROVE Advances(d)
  BY <1>5 DEF NextCase, Advances, TypeOK
<1>6. ASSUME NEW reason \in Reasons, Refuse(d, reason)
      PROVE  conflicts'[d] = Append(conflicts[d], [case |-> Current(d), reason |-> reason])
  BY <1>6 DEF Refuse, TypeOK
<1>7. ASSUME Lookup(d) PROVE FindsOpen(d) \/ Refuses(d)
  <2>1. CASE To(d, "resolve") /\ Find(d) # None /\ UNCHANGED <<rows, left, resolved, conflicts>>
    BY <1>7, <2>1 DEF Lookup, FindsOpen, Answers, TypeOK
  <2>2. CASE Find(d) = None /\ Refuse(d, "not_found")
    BY <1>5, <1>6, <1>7, <2>2 DEF Lookup, Refuse, Refuses, Reasons
  <2>3. CASE Find(d) # None /\ Find(d).status # "open" /\ Refuse(d, "already_resolved")
    BY <1>5, <1>6, <1>7, <2>3 DEF Lookup, Refuse, Refuses, Reasons
  <2> QED BY <1>7, <2>1, <2>2, <2>3 DEF Lookup
<1>8. ASSUME Resolve(d) PROVE Wins(d) \/ Refuses(d)
  <2>1. CASE Find(d) # None /\ Find(d).status = "open" /\ Write(d)
    BY <1>8, <2>1, WriteType DEF Resolve, Write, Wins, TypeOK
  <2>2. CASE (Find(d) = None \/ Find(d).status # "open") /\ Refuse(d, "concurrent_update")
    BY <1>5, <1>6, <1>8, <2>2 DEF Resolve, Refuse, Refuses, Reasons
  <2> QED BY <1>8, <2>1, <2>2 DEF Resolve
<1>9. ASSUME RecordDecision(d) PROVE Logs(d)
  BY <1>5, <1>9 DEF RecordDecision, Logs, Answers, TypeOK
<1>10. ASSUME Reread(d) PROVE Shows(d)
  BY <1>5, <1>10 DEF Reread, Shows, Answers, TypeOK
<1> QED BY <1>1, <1>2, <1>3, <1>4, <1>7, <1>8, <1>9, <1>10 DEF Next

\* A case that is reported resolved belongs to the request, and is reported once.
ResolvedOwned ==
  \A d \in Deciders : \A i \in DOMAIN resolved[d] :
    resolved[d][i] \in Decided /\ rows[resolved[d][i]].by = d
ResolvedDistinct ==
  \A d \in Deciders : \A i, k \in DOMAIN resolved[d] :
    resolved[d][i] = resolved[d][k] => i = k
\* A thread at its UPDATE has seen the case, and of its own tenant.
ResolvingFound ==
  \A d \in Deciders : step[d] = "resolve" => Current(d)[1] = ask[d].tenant /\ Current(d) \in Stored
\* Nothing is refused or shown to a request that has not been made.
NothingBefore == \A d \in Deciders :
  step[d] = "new" => resolved[d] = <<>> /\ conflicts[d] = <<>> /\ shown[d] = None

LEMMA StoredStay ==
  ASSUME TypeOK, [Next]_vars, NEW c \in Stored
  PROVE  c \in Stored'
<1>0. c \in CaseId /\ rows[c] # None
  BY DEF Stored
<1>1. UNCHANGED rows \/ (\E p \in Runs : SaveReviewCases(p)) \/ (\E d \in Deciders : Resolve(d))
  BY DEF Next, vars, ReportBacklog, Ask, Lookup, Refuse, RecordDecision, Reread, Fails
<1>2. ASSUME NEW p \in Runs, SaveReviewCases(p) PROVE rows'[c] # None
  BY <1>0, <1>2 DEF SaveReviewCases, Stored
<1>3. ASSUME NEW d \in Deciders, Resolve(d) PROVE rows'[c] # None
  <2>1. [status |-> Outcome(ask[d].action), by |-> d] # None
    BY DeskAssumption DEF Row, Outcome
  <2> QED BY <1>0, <1>3, <2>1 DEF Resolve, Write, Refuse, TypeOK
<1> QED BY <1>0, <1>1, <1>2, <1>3 DEF Stored

LEMMA DecidedStay ==
  ASSUME TypeOK, [Next]_vars, NEW c \in Decided
  PROVE  c \in Decided' /\ rows'[c] = rows[c]
BY FinalStep DEF Decided, Open, Stored

LEMMA FoundStep ==
  ASSUME DeskInv, ResolvingFound, [Next]_vars
  PROVE  ResolvingFound'
<1> USE DEF DeskInv
<1> SUFFICES ASSUME NEW d \in Deciders, step'[d] = "resolve"
             PROVE  Head(left'[d])[1] = ask'[d].tenant /\ Head(left'[d]) \in Stored'
  BY DEF ResolvingFound, Current
<1>1. CASE Stays(d)
  BY <1>1, StoredStay DEF Stays, ResolvingFound, Current
<1>2. CASE FindsOpen(d)
  <2>1. Current(d) \in CaseId
    BY <1>2, CurrentIsCase DEF FindsOpen, Handling
  <2>2. Current(d)[1] = ask[d].tenant /\ Current(d) \in Stored
    BY <1>2, <2>1 DEF FindsOpen, Find, Stored
  <2> QED BY <1>2, <2>2, StoredStay DEF FindsOpen, Answers, Current
<1> QED BY <1>1, <1>2, DeciderMoves DEF Starts, Breaks, Refuses, Wins, Logs, Shows, Advances

LEMMA ResolvedStep ==
  ASSUME DeskInv, ResolvedOwned, ResolvedDistinct, [Next]_vars
  PROVE  ResolvedOwned' /\ ResolvedDistinct'
<1> USE DEF DeskInv
<1>1. ASSUME NEW d \in Deciders, resolved'[d] = resolved[d]
      PROVE  /\ \A i \in DOMAIN resolved'[d] :
                  resolved'[d][i] \in Decided' /\ rows'[resolved'[d][i]].by = d
             /\ \A i, k \in DOMAIN resolved'[d] : resolved'[d][i] = resolved'[d][k] => i = k
  BY <1>1, DecidedStay DEF ResolvedOwned, ResolvedDistinct
<1>2. ASSUME NEW d \in Deciders, Wins(d)
      PROVE  /\ \A i \in DOMAIN resolved'[d] :
                  resolved'[d][i] \in Decided' /\ rows'[resolved'[d][i]].by = d
             /\ \A i, k \in DOMAIN resolved'[d] : resolved'[d][i] = resolved'[d][k] => i = k
  <2> DEFINE c == Current(d)
             n == Len(resolved[d])
  <2>1. c \in CaseId /\ rows[c] # None /\ rows[c].status = "open"
    BY <1>2 DEF Wins, Find, DeciderProgress, Handling, TypeOK, Current
  <2>2. c \notin Decided
    BY <2>1 DEF Decided, Open, Stored
  <2>3. c \in Decided' /\ rows'[c].by = d
    <3>1. [status |-> Outcome(ask[d].action), by |-> d] \in Row
      BY DEF Row, Outcome
    <3>2. rows'[c] # None /\ rows'[c].status # "open" /\ rows'[c].by = d
      BY <1>2, <3>1, DeskAssumption DEF Wins, Outcome
    <3> QED BY <2>1, <3>2 DEF Decided, Open, Stored
  <2>4. resolved[d] \in Seq(CaseId) /\ n \in Nat /\ DOMAIN resolved[d] = 1 .. n
    BY LenProperties DEF TypeOK
  <2>5. /\ DOMAIN resolved'[d] = 1 .. n + 1
        /\ \A i \in 1 .. n : resolved'[d][i] = resolved[d][i]
        /\ resolved'[d][n + 1] = c
    <3> HIDE DEF c
    <3>1. resolved'[d] = Append(resolved[d], c)
      BY <1>2 DEF Wins, c
    <3> QED BY <2>1, <2>4, <3>1, AppendProperties
  <2>6. \A i \in 1 .. n : /\ resolved[d][i] \in Decided /\ rows[resolved[d][i]].by = d
                          /\ resolved[d][i] # c
    BY <2>2, <2>4 DEF ResolvedOwned
  <2>7. \A i \in 1 .. n : resolved[d][i] \in Decided' /\ rows'[resolved[d][i]].by = d
    BY <2>6, DecidedStay
  <2>8. \A i, k \in 1 .. n : resolved[d][i] = resolved[d][k] => i = k
    BY <2>4 DEF ResolvedDistinct
  <2>9. \A i \in 1 .. n + 1 : i \in 1 .. n \/ i = n + 1
    BY <2>4
  <2> HIDE DEF c, n
  <2> QED BY <2>3, <2>5, <2>6, <2>7, <2>8, <2>9
<1>3. ASSUME NEW d \in Deciders PROVE resolved'[d] = resolved[d] \/ Wins(d)
  BY DeciderMoves DEF Stays, Starts, Breaks, FindsOpen, Refuses, Logs, Shows, Answers
<1> QED BY <1>1, <1>2, <1>3 DEF ResolvedOwned, ResolvedDistinct

LEMMA BeforeStep ==
  ASSUME DeskInv, NothingBefore, [Next]_vars
  PROVE  NothingBefore'
<1> SUFFICES ASSUME NEW d \in Deciders, step'[d] = "new"
             PROVE  resolved'[d] = <<>> /\ conflicts'[d] = <<>> /\ shown'[d] = None
  BY DEF NothingBefore
<1>1. Stays(d)
  BY DeciderMoves DEF DeskInv, Starts, Breaks, FindsOpen, Refuses, Wins, Logs, Shows, Advances
<1> QED BY <1>1 DEF Stays, NothingBefore

LEMMA RefusalsStep ==
  ASSUME DeskInv, ResolvingFound, NothingBefore, RefusalsAreTrue, [Next]_vars
  PROVE  RefusalsAreTrue'
<1> USE DEF DeskInv
<1> SUFFICES ASSUME NEW d \in Deciders, NEW i \in DOMAIN conflicts'[d],
                    conflicts'[d][i].reason # "not_found"
             PROVE  /\ conflicts'[d][i].case \in Decided'
                    /\ conflicts'[d][i].case[1] = ask'[d].tenant
  BY DEF RefusalsAreTrue
<1>1. ASSUME i \in DOMAIN conflicts[d], conflicts'[d][i] = conflicts[d][i], ask'[d] = ask[d]
      PROVE  /\ conflicts'[d][i].case \in Decided'
             /\ conflicts'[d][i].case[1] = ask'[d].tenant
  BY <1>1, DecidedStay DEF RefusalsAreTrue
<1>2. CASE Refuses(d)
  <2>1. PICK reason \in Reasons :
          /\ conflicts'[d] = Append(conflicts[d], [case |-> Current(d), reason |-> reason])
          /\ reason # "not_found" => Find(d) = None \/ Find(d).status # "open"
          /\ reason # "not_found" => step[d] = "resolve" \/ Find(d) # None
    BY <1>2 DEF Refuses
  <2> DEFINE r == [case |-> Current(d), reason |-> reason]
  <2>2. Current(d) \in CaseId
    BY <1>2, CurrentIsCase DEF Refuses, Handling
  <2>3. conflicts[d] \in Seq([case : CaseId, reason : Reasons]) /\ r \in [case : CaseId, reason : Reasons]
    BY <2>2 DEF TypeOK
  <2>4. (i \in DOMAIN conflicts[d] /\ conflicts'[d][i] = conflicts[d][i]) \/ conflicts'[d][i] = r
    <3> HIDE DEF r
    <3>1. conflicts'[d] = Append(conflicts[d], r)
      BY <2>1 DEF r
    <3>2. /\ Len(conflicts[d]) \in Nat /\ DOMAIN conflicts[d] = 1 .. Len(conflicts[d])
          /\ DOMAIN conflicts'[d] = 1 .. Len(conflicts[d]) + 1
          /\ \A k \in 1 .. Len(conflicts[d]) : conflicts'[d][k] = conflicts[d][k]
          /\ conflicts'[d][Len(conflicts[d]) + 1] = r
      BY <2>3, <3>1, AppendProperties, LenProperties
    <3> QED BY <3>2
  <2>5. ASSUME reason # "not_found" PROVE Current(d) \in Decided /\ Current(d)[1] = ask[d].tenant
    <3>1. Current(d)[1] = ask[d].tenant /\ Current(d) \in Stored
      BY <2>1, <2>2, <2>5 DEF ResolvingFound, Find, Stored
    <3>2. Find(d) = rows[Current(d)] /\ rows[Current(d)] # None
      BY <3>1 DEF Find, Stored
    <3> QED BY <2>1, <2>5, <3>1, <3>2 DEF Decided, Open
  <2>6. ask'[d] = ask[d]
    BY <1>2 DEF Refuses
  <2>7. CASE conflicts'[d][i] = r
    BY <2>5, <2>6, <2>7, DecidedStay
  <2> QED BY <1>1, <2>4, <2>6, <2>7
<1>3. CASE Starts(d)
  BY <1>3 DEF Starts, NothingBefore
<1>4. CASE ~Refuses(d) /\ ~Starts(d)
  <2>1. conflicts'[d] = conflicts[d] /\ ask'[d] = ask[d]
    BY <1>4, DeciderMoves DEF Stays, Breaks, FindsOpen, Wins, Logs, Shows, Answers
  <2> QED BY <1>1, <2>1
<1> QED BY <1>2, <1>3, <1>4

LEMMA ShownStep ==
  ASSUME DeskInv, NothingBefore, ShownIsOwnDecision, [Next]_vars
  PROVE  ShownIsOwnDecision'
<1> SUFFICES ASSUME NEW d \in Deciders, shown'[d] # None
             PROVE  shown'[d] = [status |-> Outcome(ask'[d].action), by |-> d]
  BY DEF ShownIsOwnDecision, Outcome
<1>1. CASE Shows(d)
  BY <1>1 DEF Shows, Answers, Find, DeskInv, DeciderProgress
<1>2. CASE Starts(d)
  BY <1>2 DEF Starts, NothingBefore
<1>3. CASE ~Shows(d) /\ ~Starts(d)
  <2>1. shown'[d] = shown[d] /\ ask'[d] = ask[d]
    BY <1>3, DeciderMoves DEF DeskInv, Stays, Breaks, FindsOpen, Refuses, Wins, Logs, Answers
  <2> QED BY <2>1 DEF ShownIsOwnDecision
<1> QED BY <1>1, <1>2, <1>3

\* Every id of a request is answered or still to be handled, and counted once.
Occurs(c, ids) == \E k \in DOMAIN ids : ids[k] = c
Replied(c, res, con) == Occurs(c, res) \/ \E k \in DOMAIN con : con[k].case = c
Pending(s) == IF s \in {"audit", "reread"} THEN 1 ELSE 0
Handles(ids, s, lt, res, con) ==
  /\ Len(res) + Len(con) + Len(lt) = Len(ids) + Pending(s)
  /\ s = "done" => lt = <<>>
  /\ s \in {"audit", "reread"} => Replied(Head(lt), res, con)
  /\ \A i \in DOMAIN ids : Replied(ids[i], res, con) \/ Occurs(ids[i], lt)
EachIdHandled ==
  \A d \in Deciders : step[d] \notin {"new", "failed"} =>
    Handles(ask[d].ids, step[d], left[d], resolved[d], conflicts[d])

LEMMA TailKeeps ==
  ASSUME NEW S, NEW s \in Seq(S), s # <<>>
  PROVE  /\ Len(s) \in Nat \ {0} /\ Len(Tail(s)) = Len(s) - 1 /\ Tail(s) \in Seq(S)
         /\ Len(s) <= 1 => Tail(s) = <<>>
         /\ \A c : Occurs(c, s) => c = Head(s) \/ Occurs(c, Tail(s))
<1>1. Len(s) \in Nat /\ Len(s) > 0 /\ DOMAIN s = 1 .. Len(s) /\ Head(s) = s[1]
  BY LenProperties, EmptySeq
<1>2. Tail(s) \in Seq(S) /\ Len(Tail(s)) = Len(s) - 1
  BY HeadTailProperties
<1>3. DOMAIN Tail(s) = 1 .. Len(s) - 1 /\ \A i \in 1 .. Len(s) - 1 : Tail(s)[i] = s[i + 1]
  BY <1>1, <1>2, LenProperties, HeadTailProperties
<1>4. Len(s) <= 1 => Tail(s) = <<>>
  <2>1. Len(s) <= 1 => Len(Tail(s)) = 0
    BY <1>1, <1>2
  <2> QED BY <1>2, <2>1, EmptySeq
<1>5. ASSUME NEW k \in DOMAIN s, s[k] # Head(s) PROVE Occurs(s[k], Tail(s))
  <2>1. k - 1 \in 1 .. Len(s) - 1 /\ (k - 1) + 1 = k
    BY <1>1, <1>5
  <2>2. k - 1 \in DOMAIN Tail(s) /\ Tail(s)[k - 1] = s[k]
    BY <1>3, <2>1
  <2> QED BY <2>2 DEF Occurs
<1>6. \A c : Occurs(c, s) => c = Head(s) \/ Occurs(c, Tail(s))
  BY <1>5 DEF Occurs
<1> QED BY <1>1, <1>2, <1>4, <1>6

LEMMA AppendKeeps ==
  ASSUME NEW S, NEW s \in Seq(S), NEW x \in S
  PROVE  /\ Len(s) \in Nat /\ Len(Append(s, x)) = Len(s) + 1
         /\ \A k \in DOMAIN s : k \in DOMAIN Append(s, x) /\ Append(s, x)[k] = s[k]
         /\ \E k \in DOMAIN Append(s, x) : Append(s, x)[k] = x
BY AppendProperties, LenProperties

Refusal == [case : CaseId, reason : Reasons]

\* The three ways a request gets on, on its lists alone.
LEMMA HandleResolved ==
  ASSUME NEW ids \in Seq(CaseId), NEW lt \in Seq(CaseId), NEW c \in CaseId, c = Head(lt),
         NEW res \in Seq(CaseId), NEW con \in Seq(Refusal), Handles(ids, "resolve", lt, res, con)
  PROVE  Handles(ids, "audit", lt, Append(res, c), con)
<1>1. /\ Len(res) \in Nat /\ Len(Append(res, c)) = Len(res) + 1
      /\ \A k \in DOMAIN res : k \in DOMAIN Append(res, c) /\ Append(res, c)[k] = res[k]
      /\ \E k \in DOMAIN Append(res, c) : Append(res, c)[k] = c
  <2>1. Len(res) \in Nat /\ Len(Append(res, c)) = Len(res) + 1
    BY AppendKeeps, SMTT(30)
  <2>2. DOMAIN res = 1 .. Len(res) /\ DOMAIN Append(res, c) = 1 .. Len(res) + 1
    BY <2>1, AppendProperties, LenProperties
  <2>3. /\ \A k \in 1 .. Len(res) : Append(res, c)[k] = res[k]
        /\ Append(res, c)[Len(res) + 1] = c
    BY AppendProperties
  <2>4. /\ Len(res) + 1 \in 1 .. Len(res) + 1
        /\ \A k \in 1 .. Len(res) : k \in 1 .. Len(res) + 1
    BY <2>1
  <2> QED BY <2>1, <2>2, <2>3, <2>4, Zenon
<1>2. Replied(c, Append(res, c), con)
  BY <1>1, Zenon DEF Replied, Occurs
<1>3. ASSUME NEW x, Replied(x, res, con) PROVE Replied(x, Append(res, c), con)
  BY <1>1, <1>3, Zenon DEF Replied, Occurs
<1>4. Len(res) + Len(con) + Len(lt) = Len(ids) + 0
  BY DEF Handles, Pending
<1>5. Len(Append(res, c)) + Len(con) + Len(lt) = Len(ids) + 1
  <2> DEFINE i == Len(res)
             j == Len(con)
             k == Len(lt)
             n == Len(ids)
  <2>1. i \in Nat /\ j \in Nat /\ k \in Nat /\ n \in Nat /\ i + j + k = n + 0
    BY <1>4, LenProperties
  <2>2. (i + 1) + j + k = n + 1
    <3> HIDE DEF i, j, k, n
    <3> QED BY <2>1
  <2> QED BY <1>1, <2>2, Zenon
<1>6. \A i \in DOMAIN ids : Replied(ids[i], Append(res, c), con) \/ Occurs(ids[i], lt)
  BY <1>3 DEF Handles
<1> QED BY <1>2, <1>5, <1>6 DEF Handles, Pending

LEMMA HandleAdvanced ==
  ASSUME NEW ids \in Seq(CaseId), NEW lt \in Seq(CaseId), lt # <<>>,
         NEW res \in Seq(CaseId), NEW con \in Seq(Refusal), NEW s \in {"audit", "reread"},
         Handles(ids, s, lt, res, con)
  PROVE  Handles(ids, IF Len(lt) > 1 THEN "get" ELSE "done", Tail(lt), res, con)
<1>1. /\ Len(lt) \in Nat \ {0} /\ Len(Tail(lt)) = Len(lt) - 1
      /\ Len(lt) <= 1 => Tail(lt) = <<>>
      /\ \A c : Occurs(c, lt) => c = Head(lt) \/ Occurs(c, Tail(lt))
  BY TailKeeps
<1>2. Len(res) + Len(con) + Len(lt) = Len(ids) + 1 /\ Replied(Head(lt), res, con)
  BY DEF Handles, Pending
<1>3. Len(res) + Len(con) + Len(Tail(lt)) = Len(ids) + 0
  <2>1. ASSUME NEW i \in Nat, NEW j \in Nat, NEW k \in Nat, NEW n \in Nat, i + j + k = n + 1
        PROVE  i + j + (k - 1) = n + 0
    BY <2>1
  <2>2. Len(con) \in Nat /\ Len(res) \in Nat /\ Len(ids) \in Nat
    BY LenProperties
  <2> QED BY <1>1, <1>2, <2>1, <2>2
<1>4. \A i \in DOMAIN ids : Replied(ids[i], res, con) \/ Occurs(ids[i], Tail(lt))
  BY <1>1, <1>2, Zenon DEF Handles
<1>5. CASE Len(lt) > 1
  BY <1>3, <1>4, <1>5 DEF Handles, Pending
<1>6. CASE ~(Len(lt) > 1)
  <2>1. Tail(lt) = <<>>
    BY <1>1, <1>6
  <2> QED BY <1>3, <1>4, <1>6, <2>1 DEF Handles, Pending
<1> QED BY <1>5, <1>6

LEMMA HandleRefused ==
  ASSUME NEW ids \in Seq(CaseId), NEW lt \in Seq(CaseId), NEW r \in Refusal, r.case = Head(lt),
         NEW res \in Seq(CaseId), NEW con \in Seq(Refusal), NEW s \in {"get", "resolve"},
         Handles(ids, s, lt, res, con)
  PROVE  Handles(ids, "audit", lt, res, Append(con, r))
<1>1. /\ Len(con) \in Nat /\ Len(Append(con, r)) = Len(con) + 1
      /\ \A k \in DOMAIN con : k \in DOMAIN Append(con, r) /\ Append(con, r)[k] = con[k]
      /\ \E k \in DOMAIN Append(con, r) : Append(con, r)[k] = r
  <2>1. Len(con) \in Nat /\ Len(Append(con, r)) = Len(con) + 1
    BY AppendKeeps, SMTT(30)
  <2>2. DOMAIN con = 1 .. Len(con) /\ DOMAIN Append(con, r) = 1 .. Len(con) + 1
    BY <2>1, AppendProperties, LenProperties
  <2>3. /\ \A k \in 1 .. Len(con) : Append(con, r)[k] = con[k]
        /\ Append(con, r)[Len(con) + 1] = r
    BY AppendProperties
  <2>4. /\ Len(con) + 1 \in 1 .. Len(con) + 1
        /\ \A k \in 1 .. Len(con) : k \in 1 .. Len(con) + 1
    BY <2>1
  <2> QED BY <2>1, <2>2, <2>3, <2>4, Zenon
<1>2. Replied(Head(lt), res, Append(con, r))
  BY <1>1, Zenon DEF Replied
<1>3. ASSUME NEW x, Replied(x, res, con) PROVE Replied(x, res, Append(con, r))
  BY <1>1, <1>3, Zenon DEF Replied
<1>4. Len(res) + Len(con) + Len(lt) = Len(ids) + 0
  BY DEF Handles, Pending
<1>5. Len(res) + Len(Append(con, r)) + Len(lt) = Len(ids) + 1
  <2> DEFINE i == Len(res)
             j == Len(con)
             k == Len(lt)
             n == Len(ids)
  <2>1. i \in Nat /\ j \in Nat /\ k \in Nat /\ n \in Nat /\ i + j + k = n + 0
    BY <1>4, LenProperties
  <2>2. i + (j + 1) + k = n + 1
    <3> HIDE DEF i, j, k, n
    <3> QED BY <2>1
  <2> QED BY <1>1, <2>2, Zenon
<1>6. \A i \in DOMAIN ids : Replied(ids[i], res, Append(con, r)) \/ Occurs(ids[i], lt)
  BY <1>3 DEF Handles
<1> QED BY <1>2, <1>5, <1>6 DEF Handles, Pending

LEMMA HandledStep ==
  ASSUME DeskInv, NothingBefore, EachIdHandled, [Next]_vars
  PROVE  EachIdHandled'
<1> USE DEF DeskInv
<1> SUFFICES ASSUME NEW d \in Deciders, step'[d] \notin {"new", "failed"}
             PROVE  Handles(ask'[d].ids, step'[d], left'[d], resolved'[d], conflicts'[d])
  BY DEF EachIdHandled, Handles, Replied, Occurs, Pending
<1>1. CASE Stays(d)
  BY <1>1 DEF Stays, EachIdHandled
<1>2. CASE Starts(d)
  <2>1. resolved'[d] = <<>> /\ conflicts'[d] = <<>>
    BY <1>2 DEF Starts, NothingBefore
  <2>2. Len(ask'[d].ids) \in Nat
    <3>1. ask'[d].ids \in Seq(CaseId)
      BY <1>2, DeskAssumption DEF Starts, Request
    <3> QED BY <3>1, LenProperties
  <2>3. left'[d] = ask'[d].ids /\ step'[d] = "get"
    BY <1>2 DEF Starts
  <2> QED BY <2>1, <2>2, <2>3 DEF Handles, Occurs, Pending
<1>3. CASE FindsOpen(d)
  BY <1>3 DEF FindsOpen, Answers, EachIdHandled, Handles, Pending
<1>4. ASSUME step[d] \in Handling
      PROVE  /\ left[d] \in Seq(CaseId) /\ left[d] # <<>> /\ Head(left[d]) \in CaseId
             /\ resolved[d] \in Seq(CaseId) /\ conflicts[d] \in Seq(Refusal)
             /\ ask[d].ids \in Seq(CaseId)
             /\ Handles(ask[d].ids, step[d], left[d], resolved[d], conflicts[d])
  <2>1. left[d] \in Seq(CaseId) /\ left[d] # <<>> /\ Head(left[d]) \in CaseId
    BY <1>4, CurrentIsCase DEF Current
  <2>2. resolved[d] \in Seq(CaseId) /\ conflicts[d] \in Seq(Refusal)
    BY DEF TypeOK, Refusal
  <2>3. Handles(ask[d].ids, step[d], left[d], resolved[d], conflicts[d])
    BY <1>4 DEF EachIdHandled, Handling
  <2>4. ask[d].ids \in Seq(CaseId)
    BY <1>4, RequestIds DEF Handling
  <2> QED BY <2>1, <2>2, <2>3, <2>4
<1>5. CASE Wins(d)
  <2>1. step[d] \in Handling /\ step[d] = "resolve"
    BY <1>5 DEF Wins, Handling
  <2>2. /\ resolved'[d] = Append(resolved[d], Head(left[d])) /\ left'[d] = left[d]
        /\ conflicts'[d] = conflicts[d] /\ ask'[d] = ask[d] /\ step'[d] = "audit"
    BY <1>5 DEF Wins, Current
  <2>3. Handles(ask[d].ids, "audit", left[d], Append(resolved[d], Head(left[d])), conflicts[d])
    BY <1>4, <2>1, HandleResolved
  <2> QED BY <2>2, <2>3
<1>6. CASE Refuses(d)
  <2>1. step[d] \in Handling /\ step[d] \in {"get", "resolve"}
    BY <1>6 DEF Refuses, Handling
  <2>2. PICK reason \in Reasons :
          conflicts'[d] = Append(conflicts[d], [case |-> Head(left[d]), reason |-> reason])
    BY <1>6 DEF Refuses, Current
  <2>3. PICK r \in Refusal : r = [case |-> Head(left[d]), reason |-> reason]
    BY <1>4, <2>1 DEF Refusal
  <2>4. conflicts'[d] = Append(conflicts[d], r) /\ r.case = Head(left[d])
    BY <2>2, <2>3
  <2>5. Handles(ask[d].ids, "audit", left[d], resolved[d], conflicts'[d])
    BY <1>4, <2>1, <2>4, HandleRefused
  <2>6. conflicts'[d] \in Seq(Refusal)
    BY <1>4, <2>1, <2>4
  <2>7. /\ left'[d] = Tail(left[d]) /\ step'[d] = (IF Len(left[d]) > 1 THEN "get" ELSE "done")
        /\ ask'[d] = ask[d] /\ resolved'[d] = resolved[d]
    BY <1>6 DEF Refuses, Advances
  <2>8. Handles(ask[d].ids, IF Len(left[d]) > 1 THEN "get" ELSE "done", Tail(left[d]),
                resolved[d], conflicts'[d])
    BY <1>4, <2>1, <2>5, <2>6, HandleAdvanced
  <2> QED BY <2>7, <2>8
<1>7. CASE Logs(d) \/ Shows(d)
  <2>1. /\ step[d] \in {"audit", "reread"} /\ step[d] \in Handling
        /\ ask'[d] = ask[d] /\ resolved'[d] = resolved[d] /\ conflicts'[d] = conflicts[d]
    BY <1>7 DEF Logs, Shows, Answers, Handling
  <2>2. CASE Advances(d)
    <3>1. Handles(ask[d].ids, IF Len(left[d]) > 1 THEN "get" ELSE "done", Tail(left[d]),
                  resolved[d], conflicts[d])
      BY <1>4, <2>1, HandleAdvanced
    <3> QED BY <2>1, <2>2, <3>1 DEF Advances
  <2>3. CASE step'[d] = "reread" /\ left'[d] = left[d]
    BY <1>4, <2>1, <2>3 DEF Handles, Pending
  <2> QED BY <1>7, <2>2, <2>3 DEF Logs, Shows
<1>8. ~Breaks(d)
  BY DEF Breaks
<1> QED BY <1>1, <1>2, <1>3, <1>5, <1>6, <1>7, <1>8, DeciderMoves

(* What replies say is so, however requests race for the same cases and        *)
(* whatever ids their lists repeat: a case is reported resolved once and to    *)
(* its owner, every id is answered, refusals have their reason, and the row    *)
(* shown is the caller's own decision.                                         *)
THEOREM RepliesTrue == Spec => []RepliesAreTrue
<1> DEFINE Inv == /\ DeskInv /\ ResolvedOwned /\ ResolvedDistinct /\ ResolvingFound
                  /\ NothingBefore /\ RefusalsAreTrue /\ ShownIsOwnDecision /\ EachIdHandled
<1>1. Init => /\ ResolvedOwned /\ ResolvedDistinct /\ ResolvingFound
              /\ NothingBefore /\ RefusalsAreTrue /\ ShownIsOwnDecision /\ EachIdHandled
  BY DEF Init, ResolvedOwned, ResolvedDistinct, ResolvingFound, NothingBefore, RefusalsAreTrue,
     ShownIsOwnDecision, EachIdHandled
<1>2. DeskInv /\ Inv /\ [Next]_vars /\ DeskInv' => Inv'
  BY FoundStep, ResolvedStep, BeforeStep, RefusalsStep, ShownStep, HandledStep
<1>3. Inv => RepliesAreTrue
  <2> SUFFICES ASSUME Inv PROVE RepliesAreTrue
    OBVIOUS
  <2>1. ResolvedOnce
    <3> SUFFICES ASSUME NEW d \in Deciders, NEW e \in Deciders,
                        NEW i \in DOMAIN resolved[d], NEW k \in DOMAIN resolved[e]
                 PROVE  /\ rows[resolved[d][i]] # None /\ rows[resolved[d][i]].by = d
                        /\ resolved[d][i] = resolved[e][k] => d = e /\ i = k
      BY DEF ResolvedOnce
    <3> QED BY DEF ResolvedOwned, ResolvedDistinct, Decided, Stored
  <2>2. EveryIdAnswered
    <3> SUFFICES ASSUME NEW d \in Deciders, step[d] = "done"
                 PROVE  /\ Len(resolved[d]) + Len(conflicts[d]) = Len(ask[d].ids)
                        /\ \A i \in DOMAIN ask[d].ids :
                             Replied(ask[d].ids[i], resolved[d], conflicts[d])
      BY DEF EveryIdAnswered, Replied, Occurs
    <3>1. /\ Len(resolved[d]) + Len(conflicts[d]) + Len(left[d]) = Len(ask[d].ids) + 0
          /\ left[d] = <<>>
          /\ \A i \in DOMAIN ask[d].ids :
               Replied(ask[d].ids[i], resolved[d], conflicts[d]) \/ Occurs(ask[d].ids[i], left[d])
      BY DEF EachIdHandled, Handles, Pending
    <3>2. Len(resolved[d]) \in Nat /\ Len(conflicts[d]) \in Nat /\ Len(left[d]) = 0
      BY <3>1, LenProperties DEF DeskInv, TypeOK
    <3>3. Len(ask[d].ids) \in Nat
      BY RequestIds DEF DeskInv
    <3>4. \A c : ~Occurs(c, left[d])
      BY <3>1 DEF Occurs
    <3>5. Len(resolved[d]) + Len(conflicts[d]) = Len(ask[d].ids)
      <4> DEFINE i == Len(resolved[d])
                 j == Len(conflicts[d])
                 n == Len(ask[d].ids)
      <4>1. i \in Nat /\ j \in Nat /\ n \in Nat /\ i + j + Len(left[d]) = n + 0
        BY <3>1, <3>2, <3>3
      <4>2. i + j + 0 = n + 0
        BY <3>2, <4>1, Zenon
      <4> HIDE DEF i, j, n
      <4>3. i + j = n
        BY <4>1, <4>2
      <4> QED BY <4>3 DEF i, j, n
    <3> QED BY <3>1, <3>4, <3>5
  <2> QED BY <2>1, <2>2 DEF RepliesAreTrue
<1> QED BY <1>1, <1>2, <1>3, DeskInit, DeskInvariance, PTL DEF Spec

-----------------------------------------------------------------------------
(* The desk is a sequential one.                                              *)

\* What a request has left is the end of its list, after the ids it has answered.
EndsAt(lt, ids, n) == \A k \in DOMAIN lt : lt[k] = ids[n + k]
Done(d) == Len(resolved[d]) + Len(conflicts[d])
ListsInOrder ==
  \A d \in Deciders :
    /\ step[d] = "new" => ask[d] = None
    /\ step[d] \in Handling => EndsAt(left[d], ask[d].ids, Done(d) - Pending(step[d]))

LEMMA EndsOn ==
  ASSUME NEW S, NEW lt \in Seq(S), lt # <<>>, NEW ids, NEW n \in Int, EndsAt(lt, ids, n)
  PROVE  Head(lt) = ids[n + 1] /\ EndsAt(Tail(lt), ids, n + 1)
<1>1. Len(lt) \in Nat /\ Len(lt) > 0 /\ DOMAIN lt = 1 .. Len(lt) /\ Head(lt) = lt[1]
  BY LenProperties, EmptySeq
<1>2. DOMAIN Tail(lt) = 1 .. Len(lt) - 1 /\ \A k \in 1 .. Len(lt) - 1 : Tail(lt)[k] = lt[k + 1]
  BY <1>1, HeadTailProperties, LenProperties
<1>3. ASSUME NEW k \in DOMAIN Tail(lt) PROVE Tail(lt)[k] = ids[(n + 1) + k]
  <2>1. k \in Nat /\ k + 1 \in DOMAIN lt /\ Tail(lt)[k] = lt[k + 1]
    BY <1>1, <1>2
  <2>2. lt[k + 1] = ids[n + (k + 1)]
    BY <2>1 DEF EndsAt
  <2>3. n + (k + 1) = (n + 1) + k
    BY <2>1
  <2> QED BY <2>1, <2>2, <2>3
<1> QED BY <1>1, <1>3 DEF EndsAt

LEMMA OrderStep ==
  ASSUME DeskInv, NothingBefore, ListsInOrder, [Next]_vars
  PROVE  ListsInOrder'
<1> USE DEF DeskInv
<1> SUFFICES ASSUME NEW d \in Deciders
             PROVE  /\ step'[d] = "new" => ask'[d] = None
                    /\ step'[d] \in Handling =>
                         EndsAt(left'[d], ask'[d].ids, Done(d)' - Pending(step'[d]))
  BY DEF ListsInOrder, EndsAt, Pending
<1>1. Len(resolved[d]) \in Nat /\ Len(conflicts[d]) \in Nat /\ Done(d) \in Nat
  BY LenProperties DEF TypeOK, Done
<1>2. CASE Stays(d)
  BY <1>2 DEF Stays, ListsInOrder, Done
<1>3. CASE Starts(d)
  <2>1. resolved'[d] = <<>> /\ conflicts'[d] = <<>> /\ step'[d] = "get" /\ left'[d] = ask'[d].ids
    BY <1>3 DEF Starts, NothingBefore
  <2>2. left'[d] \in Seq(CaseId)
    BY <1>3, DeskAssumption DEF Starts, Request
  <2>3. Done(d)' - Pending(step'[d]) = 0
    BY <2>1 DEF Done, Pending
  <2>4. \A k \in DOMAIN left'[d] : 0 + k = k
    BY <2>2, LenProperties
  <2> QED BY <2>1, <2>3, <2>4 DEF EndsAt
<1>4. ASSUME step[d] \in Handling
      PROVE  /\ left[d] \in Seq(CaseId) /\ left[d] # <<>>
             /\ EndsAt(left[d], ask[d].ids, Done(d) - Pending(step[d]))
             /\ Done(d) - Pending(step[d]) \in Int
  BY <1>1, <1>4, CurrentIsCase DEF ListsInOrder, Pending
<1>5. CASE FindsOpen(d)
  BY <1>4, <1>5 DEF FindsOpen, Answers, Handling, Pending, Done
<1>6. CASE Refuses(d)
  <2>1. step[d] \in Handling /\ Pending(step[d]) = 0 /\ left'[d] = Tail(left[d])
        /\ ask'[d] = ask[d] /\ step'[d] \in {"get", "done"}
    BY <1>6 DEF Refuses, Advances, Handling, Pending
  <2>2. PICK r \in Refusal : conflicts'[d] = Append(conflicts[d], r) /\ resolved'[d] = resolved[d]
    BY <1>6, <2>1, CurrentIsCase DEF Refuses, Refusal
  <2>3. Done(d)' = Done(d) + 1
    <3>1. conflicts[d] \in Seq(Refusal)
      BY DEF TypeOK, Refusal
    <3>2. Len(Append(conflicts[d], r)) = Len(conflicts[d]) + 1
      BY <3>1, AppendKeeps, SMTT(30)
    <3>3. \A i, j \in Nat : i + (j + 1) = (i + j) + 1
      OBVIOUS
    <3>4. Done(d)' = Len(resolved[d]) + (Len(conflicts[d]) + 1)
      <4>1. Len(resolved'[d]) = Len(resolved[d]) /\ Len(conflicts'[d]) = Len(conflicts[d]) + 1
        BY <2>2, <3>2, Zenon
      <4> QED BY <4>1, Zenon DEF Done
    <3> QED BY <1>1, <3>3, <3>4, Zenon DEF Done
  <2>4. EndsAt(Tail(left[d]), ask[d].ids, Done(d) + 1)
    BY <1>1, <1>4, <2>1, EndsOn
  <2>5. Pending(step'[d]) = 0 /\ Done(d)' - Pending(step'[d]) = Done(d) + 1
    BY <1>1, <2>1, <2>3 DEF Pending
  <2> QED BY <2>1, <2>4, <2>5
<1>7. CASE Wins(d)
  <2>1. /\ step[d] = "resolve" /\ step'[d] = "audit" /\ left'[d] = left[d] /\ ask'[d] = ask[d]
        /\ resolved'[d] = Append(resolved[d], Current(d)) /\ conflicts'[d] = conflicts[d]
    BY <1>7 DEF Wins
  <2>2. Len(Append(resolved[d], Current(d))) = Len(resolved[d]) + 1
    <3>1. resolved[d] \in Seq(CaseId) /\ Current(d) \in CaseId
      BY <2>1, CurrentIsCase DEF TypeOK, Handling
    <3> QED BY <3>1, AppendKeeps, SMTT(30)
  <2>3. Done(d)' - Pending(step'[d]) = Done(d) - Pending(step[d])
    <3>1. \A i, j \in Nat : (i + 1) + j = (i + j) + 1
      OBVIOUS
    <3>2. Done(d)' = Done(d) + 1
      BY <1>1, <2>1, <2>2, <3>1, Zenon DEF Done
    <3>3. Pending(step'[d]) = 1 /\ Pending(step[d]) = 0
      BY <2>1 DEF Pending
    <3> QED BY <1>1, <3>2, <3>3
  <2> QED BY <1>4, <2>1, <2>3 DEF Handling
<1>8. CASE Logs(d) \/ Shows(d)
  <2>1. /\ step[d] \in Handling /\ Pending(step[d]) = 1 /\ ask'[d] = ask[d] /\ Done(d)' = Done(d)
    BY <1>8 DEF Logs, Shows, Answers, Handling, Pending, Done
  <2>2. CASE Advances(d)
    <3>1. EndsAt(Tail(left[d]), ask[d].ids, (Done(d) - 1) + 1)
      BY <1>1, <1>4, <2>1, EndsOn
    <3>2. step'[d] \in {"get", "done"} /\ left'[d] = Tail(left[d]) /\ Pending(step'[d]) = 0
      BY <2>2 DEF Advances, Pending
    <3>3. Done(d)' - Pending(step'[d]) = (Done(d) - 1) + 1
      BY <1>1, <2>1, <3>2
    <3> QED BY <2>1, <3>1, <3>2, <3>3
  <2>3. CASE step'[d] = "reread" /\ left'[d] = left[d]
    <3>1. Pending(step'[d]) = 1
      BY <2>3 DEF Pending
    <3> QED BY <1>4, <2>1, <2>3, <3>1
  <2> QED BY <1>8, <2>2, <2>3 DEF Logs, Shows
<1>9. CASE Breaks(d)
  BY <1>9 DEF Breaks, Handling
<1> QED BY <1>2, <1>3, <1>5, <1>6, <1>7, <1>8, <1>9, DeciderMoves

\* The id a thread looks up or updates is the next one the sequential desk would deal with.
LEMMA CurrentIsDue ==
  ASSUME DeskInv, ListsInOrder, EachIdHandled, NEW d \in Deciders, step[d] \in {"get", "resolve"}
  PROVE  /\ Sequential!InHand(d) /\ Sequential!Due(d) = Current(d)
         /\ Sequential!Visible(d) <=> Find(d) # None
         /\ Find(d) # None => Find(d) = rows[Current(d)]
<1>1. /\ left[d] \in Seq(CaseId) /\ left[d] # <<>> /\ ask[d] # None
      /\ EndsAt(left[d], ask[d].ids, Done(d) - 0)
      /\ Done(d) + Len(left[d]) = Len(ask[d].ids) + 0
  BY CurrentIsCase DEF DeskInv, DeciderProgress, ListsInOrder, EachIdHandled, Handles, Handling,
     Pending, Done
<1>2. Done(d) \in Nat /\ Len(left[d]) \in Nat \ {0} /\ Len(ask[d].ids) \in Nat
  BY <1>1, LenProperties, EmptySeq, RequestIds DEF DeskInv, TypeOK, Done
<1>3. Done(d) < Len(ask[d].ids) /\ Done(d) - 0 = Done(d)
  BY <1>1, <1>2
<1>4. Current(d) = ask[d].ids[Done(d) + 1]
  BY <1>1, <1>2, <1>3, EndsOn DEF Current
<1>5. Sequential!Answered(d) = Done(d)
  BY DEF Sequential!Answered, Done
<1>6. Sequential!InHand(d) /\ Sequential!Due(d) = Current(d)
  BY <1>1, <1>3, <1>4, <1>5 DEF Sequential!InHand, Sequential!Due
<1> QED BY <1>6 DEF Sequential!Visible, Find

\* One step of the desk is one step of the sequential desk, or none.
LEMMA SequentialStep ==
  ASSUME DeskInv, ResolvingFound, ListsInOrder, EachIdHandled, [Next]_vars
  PROVE  [Sequential!Next]_<<rows, ask, resolved, conflicts>>
<1> USE DEF DeskInv
<1>1. ASSUME NEW p \in Runs, SaveReviewCases(p) PROVE Sequential!Next
  <2>1. Sequential!Arrive(CasesOf(p))
    BY <1>1 DEF SaveReviewCases, Sequential!Arrive, Sequential!Open, Stored
  <2> QED BY <2>1 DEF Sequential!Next
<1>2. ASSUME NEW d \in Deciders, Ask(d) PROVE Sequential!Next
  <2>1. PICK q \in Asks : ask' = [ask EXCEPT ![d] = q]
    BY <1>2 DEF Ask
  <2>2. Sequential!Request(d, q)
    BY <1>2, <2>1 DEF Ask, ListsInOrder, Sequential!Request
  <2> QED BY <2>1, <2>2 DEF Sequential!Next
<1>3. ASSUME NEW d \in Deciders, step[d] \in {"get", "resolve"}, NEW reason \in Reasons,
             Refuse(d, reason), ask' = ask,
             \/ reason = "not_found" /\ Find(d) = None
             \/ reason # "not_found" /\ Find(d) # None /\ Find(d).status # "open"
      PROVE  Sequential!Next
  <2>1. Sequential!Refuse(d, reason)
    BY <1>3, CurrentIsDue DEF Refuse, Sequential!Refuse
  <2> QED BY <2>1 DEF Sequential!Next, Reasons
<1>4. ASSUME NEW d \in Deciders, Lookup(d)
      PROVE  Sequential!Next \/ UNCHANGED <<rows, ask, resolved, conflicts>>
  BY <1>3, <1>4 DEF Lookup, Reasons
<1>5. ASSUME NEW d \in Deciders, Resolve(d) PROVE Sequential!Next
  <2>1. step[d] = "resolve" /\ Find(d) # None
    BY <1>5 DEF Resolve, ResolvingFound, Find, Stored
  <2>2. CASE Refuse(d, "concurrent_update") /\ Find(d).status # "open"
    BY <1>3, <1>5, <2>1, <2>2 DEF Resolve, Reasons
  <2>3. CASE Find(d).status = "open" /\ Write(d)
    <3>1. Sequential!Grant(d)
      BY <1>5, <2>1, <2>3, CurrentIsDue
         DEF Resolve, Write, Outcome, Sequential!Grant, Sequential!Verdict
    <3> QED BY <3>1 DEF Sequential!Next
  <2> QED BY <1>5, <2>1, <2>2, <2>3 DEF Resolve
<1>6. ASSUME \/ UNCHANGED vars \/ \E p \in Runs : ReportBacklog(p)
             \/ \E d \in Deciders : RecordDecision(d) \/ Reread(d) \/ Fails(d)
      PROVE  UNCHANGED <<rows, ask, resolved, conflicts>>
  BY <1>6 DEF vars, ReportBacklog, RecordDecision, Reread, Fails
<1> QED BY <1>1, <1>2, <1>4, <1>5, <1>6 DEF Next

(* However lookups, updates and appends of any number of requests interleave,   *)
(* wherever they die and whatever runs save, the desk cannot be told from one   *)
(* that deals with one id at an instant, in the order of each list; a request   *)
(* that was cut short has dealt with the first ids of its list and no others.   *)
THEOREM DeskIsSequential == Spec => ImplementsSequentialReview
<1> DEFINE Inv == DeskInv /\ ResolvingFound /\ NothingBefore /\ ListsInOrder /\ EachIdHandled
<1>1. Init => /\ ResolvingFound /\ NothingBefore /\ ListsInOrder /\ EachIdHandled
  BY DEF Init, ResolvingFound, NothingBefore, ListsInOrder, EachIdHandled, Handling
<1>2. Inv /\ [Next]_vars => Inv'
  BY DeskType, ProgressStep, OwnersStep, FoundStep, BeforeStep, OrderStep, HandledStep DEF DeskInv
<1>3. Init => Sequential!Init
  BY DEF Init, Sequential!Init
<1>4. Inv /\ [Next]_vars => [Sequential!Next]_<<rows, ask, resolved, conflicts>>
  BY SequentialStep
<1> QED BY <1>1, <1>2, <1>3, <1>4, DeskInit, PTL
        DEF Spec, ImplementsSequentialReview, Sequential!Spec

-----------------------------------------------------------------------------
(* The desk with a client that lists the queue.                               *)

(* Listing changes nothing on the desk: the queue implements the desk, and     *)
(* everything shown above holds while clients walk the pages.                  *)
THEOREM QueueRefinesDesk == QueueSpec => Spec
<1>1. QueueInit => Init
  BY DEF QueueInit
<1>2. [QueueNext]_qvars => [Next]_vars
  BY DEF QueueNext, qvars, Begin, CountCases, SelectPage, NextPage, DeskStep
<1> QED BY <1>1, <1>2, PTL DEF QueueSpec, Spec

-----------------------------------------------------------------------------
(* The walk of the queue.                                                     *)

\* Missed cases among the first k of the listing: the pages up to there cannot show them
\* any more.
Among(k) == {c \in Missed : Position(c) < k}
Counted == Cardinality(departed) + total + Cardinality(late)

\* A case that left the view has been decided, and does not come back; the cases that the
\* pages so far have passed over are no more than left; what is still to come is counted.
QueueInv ==
  /\ QueueTypeOK
  /\ walk = "idle" => departed = {} /\ seen = {} /\ offset = 0
  /\ walk # "idle" =>
       /\ view \in Views
       /\ due \subseteq Listed \cup departed
       /\ departed \subseteq Decided /\ (departed # {} => view.status = "open")
  /\ walk \in {"count", "select"} => Cardinality(Among(offset)) <= Cardinality(departed)
  /\ walk = "more" => Cardinality(Among(offset + Limit)) <= Cardinality(departed)
  /\ walk = "select" => /\ Cardinality(Listed) <= total + Cardinality(late)
                        /\ late \subseteq Listed \cup departed
  /\ walk = "more" => \/ Cardinality(Missed) <= Cardinality(departed)
                      \/ Cardinality(Missed) + offset + Limit <= Counted
  /\ MissedAreAccounted

\* The cases of one tenant that ORDER BY created_at, case_id puts before each of them.
Ahead(L, b) == [c \in L |-> {d \in L : b[d] < b[c] \/ (b[d] = b[c] /\ d[2] < c[2])}]

LEMMA AheadSorted ==
  ASSUME NEW L, L \subseteq CaseId, NEW b \in [CaseId -> Nat], NEW t, \A c \in L : c[1] = t
  PROVE  IsFiniteSet(L) /\ Sorted(L, Ahead(L, b))
<1>1. IsFiniteSet(L)
  BY DeskAssumption, FS_Subset
<1>2. ASSUME NEW c \in L PROVE b[c] \in Nat /\ c[2] \in Nat /\ c = <<t, c[2]>>
  <2>1. c \in CaseId /\ c[1] = t
    OBVIOUS
  <2>2. PICK x \in Tenants, y \in Hashes : c = <<x, y>>
    BY <2>1 DEF CaseId
  <2> QED BY <2>1, <2>2, QueueAssumption
<1>3. Ahead(L, b) \in [L -> SUBSET L]
  BY DEF Ahead
<1>4. ASSUME NEW c \in L, NEW d \in L
      PROVE  d \in Ahead(L, b)[c] <=> b[d] < b[c] \/ (b[d] = b[c] /\ d[2] < c[2])
  BY DEF Ahead
<1>5. ASSUME NEW c \in L PROVE c \notin Ahead(L, b)[c]
  BY <1>2, <1>4
<1>6. ASSUME NEW c \in L, NEW d \in L
      PROVE  c = d \/ c \in Ahead(L, b)[d] \/ d \in Ahead(L, b)[c]
  <2>1. c = <<t, c[2]>> /\ d = <<t, d[2]>>
    BY <1>2
  <2>2. c[2] = d[2] => c = d
    BY <2>1, Zenon
  <2> QED BY <1>2, <1>4, <2>2
<1>7. ASSUME NEW c \in L, NEW d \in L, c \in Ahead(L, b)[d]
      PROVE  Ahead(L, b)[c] \subseteq Ahead(L, b)[d]
  <2> SUFFICES ASSUME NEW e \in Ahead(L, b)[c] PROVE e \in Ahead(L, b)[d]
    OBVIOUS
  <2>1. e \in L
    BY <1>3
  <2> QED BY <1>2, <1>4, <1>7, <2>1
<1> QED BY <1>1, <1>3, <1>5, <1>6, <1>7 DEF Sorted

\* Positions are the lengths of what is ahead.
LEMMA ListedType ==
  ASSUME QueueTypeOK
  PROVE  /\ IsFiniteSet(Listed) /\ Sorted(Listed, Ahead(Listed, born))
         /\ \A c \in Listed : Position(c) = Cardinality(Ahead(Listed, born)[c])
                             /\ Position(c) \in Nat
         /\ \A k : /\ Among(k) = Missed \cap Leading(Listed, Ahead(Listed, born), k)
                   /\ IsFiniteSet(Among(k)) /\ Cardinality(Among(k)) \in Nat
         /\ IsFiniteSet(Missed) /\ Cardinality(Missed) \in Nat
         /\ IsFiniteSet(departed) /\ Cardinality(departed) \in Nat
         /\ IsFiniteSet(late) /\ Cardinality(late) \in Nat
         /\ Cardinality(Listed) \in Nat
<1>1. Listed \subseteq CaseId /\ \A c \in Listed : c[1] = view.tenant
  BY DEF Listed, Stored
<1>2. born \in [CaseId -> Nat]
  BY DEF QueueTypeOK
<1>3. IsFiniteSet(Listed) /\ Sorted(Listed, Ahead(Listed, born))
  BY <1>1, <1>2, AheadSorted
<1>4. ASSUME NEW c \in Listed
      PROVE  Position(c) = Cardinality(Ahead(Listed, born)[c]) /\ Position(c) \in Nat
  <2>1. Ahead(Listed, born)[c] = {d \in Listed : Before(d, c)}
    BY DEF Ahead, Before
  <2> QED BY <1>3, <2>1, PositionType DEF Position
<1>5. Missed \subseteq Listed
  BY DEF Missed
<1>6. ASSUME NEW k
      PROVE  /\ Among(k) = Missed \cap Leading(Listed, Ahead(Listed, born), k)
             /\ IsFiniteSet(Among(k)) /\ Cardinality(Among(k)) \in Nat
  <2>1. Among(k) = Missed \cap Leading(Listed, Ahead(Listed, born), k)
    BY <1>4, <1>5 DEF Among, Leading
  <2>2. Among(k) \subseteq Listed
    BY <1>5 DEF Among
  <2> QED BY <1>3, <2>1, <2>2, FS_Subset, FS_CardinalityType
<1>7. IsFiniteSet(Missed) /\ IsFiniteSet(departed) /\ IsFiniteSet(late)
  BY <1>3, <1>5, DeskAssumption, FS_Subset DEF QueueTypeOK
<1> QED BY <1>3, <1>4, <1>6, <1>7, FS_CardinalityType

LEMMA QueueTypeStep ==
  ASSUME QueueTypeOK, TypeOK', [QueueNext]_qvars
  PROVE  QueueTypeOK'
<1>1. Cardinality(Listed) \in Nat /\ Page \subseteq CaseId /\ Listed \subseteq CaseId
  BY ListedType DEF Page, Listed, Stored
<1>2. Limit \in Nat /\ offset \in Nat /\ offset + Limit \in Nat
  BY QueueAssumption DEF QueueTypeOK
<1>3. CASE DeskStep
  <2>1. born' \in [CaseId -> Nat]
    BY <1>3, QueueAssumption DEF DeskStep, QueueTypeOK
  <2>2. (Listed' \ Listed) \subseteq CaseId
    BY DEF Listed, Stored
  <2> QED BY <1>1, <1>3, <2>1, <2>2 DEF DeskStep, QueueTypeOK, client
<1>4. CASE Begin \/ CountCases \/ SelectPage \/ NextPage
  BY <1>1, <1>2, <1>4 DEF Begin, CountCases, SelectPage, NextPage, QueueTypeOK, WalkStep
<1>5. CASE UNCHANGED qvars
  BY <1>5 DEF qvars, client, QueueTypeOK
<1> QED BY <1>3, <1>4, <1>5 DEF QueueNext

\* What a step of the desk does to the listing: times and decided rows stay as they are, and
\* a case leaves the listing by being decided.
LEMMA ListingStep ==
  ASSUME QueueTypeOK, DeskStep, view \in Views
  PROVE  /\ \A c \in Listed : born'[c] = born[c]
         /\ \A c \in Listed \ Listed' : c \in Decided' /\ view.status = "open"
         /\ \A c \in Decided : c \in Decided' /\ (view.status = "open" => c \notin Listed')
<1>0. TypeOK /\ [Next]_vars /\ view' = view
  BY DEF QueueTypeOK, DeskStep, client
<1>1. ASSUME NEW c \in Stored PROVE c \in Stored' /\ born'[c] = born[c]
  <2>1. c \in Stored' /\ c \in CaseId
    BY <1>0, StoredStay DEF Stored
  <2> QED BY <2>1 DEF DeskStep
<1>2. ASSUME NEW c \in Decided
      PROVE  c \in Decided' /\ (view.status = "open" => c \notin Listed')
  <2>1. c \in Decided' /\ rows'[c] = rows[c]
    BY <1>0, DecidedStay
  <2>2. rows[c].status # "open"
    BY DEF Decided, Open, Stored
  <2> QED BY <1>0, <2>1, <2>2 DEF Listed
<1>3. ASSUME NEW c \in Listed \ Listed' PROVE c \in Decided' /\ view.status = "open"
  <2>1. /\ c \in Stored /\ c[1] = view.tenant /\ view.status \in {"all", rows[c].status}
        /\ c \in Stored'
    BY <1>1 DEF Listed
  <2>2. view.status \notin {"all", rows'[c].status}
    BY <1>0, <1>3, <2>1 DEF Listed
  <2>3. c \notin Decided
    BY <1>0, <2>1, <2>2, DecidedStay
  <2>4. rows[c].status = "open"
    BY <2>1, <2>3 DEF Decided, Open
  <2> QED BY <2>1, <2>2, <2>4 DEF Decided, Open
<1> QED BY <1>1, <1>2, <1>3 DEF Listed

\* The desk's steps add no more to what the pages have passed over than leaves the view.
LEMMA WaitingStep ==
  ASSUME QueueInv, QueueTypeOK', DeskStep, walk # "idle"
  PROVE  /\ Missed' \subseteq Missed /\ Cardinality(Missed') <= Cardinality(Missed)
         /\ Cardinality(departed) <= Cardinality(departed')
         /\ departed' \subseteq Decided' /\ (departed' # {} => view.status = "open")
         /\ due \subseteq Listed' \cup departed'
         /\ Listed \subseteq Listed' \cup departed' /\ departed \subseteq departed'
         /\ departed \cap Listed' = {}
         /\ \A k \in Nat : Cardinality(Among(k)) <= Cardinality(departed)
                            => Cardinality(Among(k)') <= Cardinality(departed')
<1> DEFINE gone == Listed \ Listed'
<1>0. /\ QueueTypeOK /\ view \in Views /\ due \subseteq Listed \cup departed
      /\ departed \subseteq Decided /\ (departed # {} => view.status = "open")
      /\ departed' = departed \cup gone /\ due' = due /\ seen' = seen
  BY DEF QueueInv, DeskStep, client
<1>1. /\ \A c \in Listed : born'[c] = born[c]
      /\ \A c \in gone : c \in Decided' /\ view.status = "open"
      /\ \A c \in Decided : c \in Decided' /\ (view.status = "open" => c \notin Listed')
  BY <1>0, ListingStep
<1>2. departed \cap Listed = {}
  BY <1>0 DEF Listed, Decided, Open
<1>3. departed' \subseteq Decided' /\ (departed' # {} => view.status = "open")
  BY <1>0, <1>1
<1>4. due \subseteq Listed' \cup departed'
  BY <1>0
<1>5. ASSUME NEW c \in Missed' PROVE c \in Missed /\ c \in Listed /\ c \in Listed'
  <2>1. c \in due /\ c \in Listed' /\ c \notin seen
    BY <1>0 DEF Missed
  <2>2. c \notin departed
    BY <1>0, <1>1, <2>1
  <2> QED BY <1>0, <2>1, <2>2 DEF Missed
<1>6. IsFiniteSet(gone)
  BY <1>0, ListedType, FS_Subset
<1>7. /\ Cardinality(departed') = Cardinality(departed) + Cardinality(gone)
      /\ Cardinality(departed) \in Nat /\ Cardinality(gone) \in Nat
  <2>1. departed \cap gone = {} /\ IsFiniteSet(departed)
    BY <1>0, <1>2, ListedType
  <2> HIDE DEF gone
  <2> QED BY <1>0, <1>6, <2>1, DisjointUnion
<1>8. Cardinality(Missed') <= Cardinality(Missed)
  BY <1>0, <1>5, ListedType, FS_Subset
<1>9. ASSUME NEW k \in Nat, Cardinality(Among(k)) <= Cardinality(departed)
      PROVE  Cardinality(Among(k)') <= Cardinality(departed')
  <2> DEFINE S == Listed
             T == Listed'
             P == Ahead(Listed, born)
             Q == Ahead(Listed', born')
             moved == (Leading(T, Q, k) \cap S) \ Leading(S, P, k)
  <2>1. IsFiniteSet(S) /\ Sorted(S, P) /\ Among(k) = Missed \cap Leading(S, P, k)
        /\ IsFiniteSet(Among(k)) /\ Cardinality(Among(k)) \in Nat
    BY <1>0, ListedType
  <2>2. /\ T \subseteq CaseId /\ \A c \in T : c[1] = view'.tenant
        /\ born' \in [CaseId -> Nat]
    BY DEF Listed, Stored, QueueTypeOK
  <2>3. IsFiniteSet(T) /\ Sorted(T, Q)
    BY <2>2, AheadSorted
  <2>4. ASSUME NEW c \in S \cap T PROVE P[c] \cap T \subseteq Q[c]
    BY <1>1 DEF Ahead
  <2>5. Cardinality(moved) <= Cardinality(gone)
    <3> HIDE DEF S, T, P, Q
    <3> QED BY <2>1, <2>3, <2>4, Departures DEF S, T
  <2>6. Among(k)' \subseteq Among(k) \cup moved
    <3> SUFFICES ASSUME NEW c \in Among(k)', c \notin Among(k) PROVE c \in moved
      OBVIOUS
    <3>1. c \in Missed' /\ Position(c)' < k
      BY DEF Among
    <3>2. Position(c)' = Cardinality(Q[c])
      <4>1. c \in Listed'
        BY <1>5, <3>1
      <4>2. Position(c)' = Cardinality({d \in Listed' : Before(d, c)'})
        BY DEF Position
      <4>3. \A d \in Listed' :
              Before(d, c)' <=> born'[d] < born'[c] \/ (born'[d] = born'[c] /\ d[2] < c[2])
        BY DEF Before
      <4> QED BY <4>1, <4>2, <4>3 DEF Ahead
    <3>3. c \in Leading(T, Q, k) /\ c \in S
      BY <1>5, <3>1, <3>2 DEF Leading
    <3>4. c \notin Leading(S, P, k)
      BY <1>5, <2>1, <3>1
    <3> QED BY <3>3, <3>4
  <2>7. IsFiniteSet(moved) /\ Among(k) \cap moved = {}
    BY <2>1, FS_Subset
  <2>8. /\ Cardinality(Among(k) \cup moved) = Cardinality(Among(k)) + Cardinality(moved)
        /\ IsFiniteSet(Among(k) \cup moved) /\ Cardinality(moved) \in Nat
    <3> HIDE DEF moved
    <3> QED BY <2>1, <2>7, DisjointUnion
  <2>9. /\ Cardinality(Among(k)') <= Cardinality(Among(k) \cup moved)
        /\ Cardinality(Among(k)') \in Nat
    <3> HIDE DEF moved
    <3> QED BY <2>6, <2>8, FS_Subset, FS_CardinalityType
  <2> HIDE DEF moved, gone
  <2> QED BY <1>7, <1>9, <2>1, <2>5, <2>8, <2>9
<1>10. Missed' \subseteq Missed
  BY <1>5
<1>11. /\ Listed \subseteq Listed' \cup departed' /\ departed \subseteq departed'
       /\ departed \cap Listed' = {}
  BY <1>0, <1>1
<1> HIDE DEF gone
<1> QED BY <1>3, <1>4, <1>7, <1>8, <1>9, <1>10, <1>11

\* Every statement of the walk, and every step of the desk during it, keeps the account.
LEMMA QueueInvStep ==
  ASSUME QueueInv, TypeOK', [QueueNext]_qvars
  PROVE  QueueInv'
<1>0. QueueTypeOK /\ QueueTypeOK'
  BY QueueTypeStep DEF QueueInv
<1>1. /\ IsFiniteSet(Listed) /\ Sorted(Listed, Ahead(Listed, born))
      /\ \A c \in Listed : Position(c) = Cardinality(Ahead(Listed, born)[c]) /\ Position(c) \in Nat
      /\ \A k : /\ Among(k) = Missed \cap Leading(Listed, Ahead(Listed, born), k)
                /\ IsFiniteSet(Among(k)) /\ Cardinality(Among(k)) \in Nat
      /\ IsFiniteSet(Missed) /\ Cardinality(Missed) \in Nat
      /\ IsFiniteSet(departed) /\ Cardinality(departed) \in Nat
      /\ IsFiniteSet(late) /\ Cardinality(late) \in Nat
      /\ Cardinality(Listed) \in Nat
  BY <1>0, ListedType
<1>2. /\ Limit \in Nat /\ Limit > 0 /\ offset \in Nat /\ offset + Limit \in Nat /\ total \in Nat
  BY <1>0, QueueAssumption DEF QueueTypeOK
<1>3. Cardinality({}) = 0
  BY FS_EmptySet
<1>4. ASSUME Begin PROVE QueueInv'
  <2>1. /\ view \in Views /\ due' = Listed /\ seen' = {} /\ departed' = {} /\ offset' = 0
        /\ Listed' = Listed /\ walk' = "count" /\ view' = view
    BY <1>0, <1>4 DEF Begin, QueueInv, QueueTypeOK, Listed, Stored, vars
  <2>2. Among(offset)' = {}
    <3>1. \A c \in Listed : Position(c)' = Position(c)
      BY <1>4, <2>1 DEF Begin, Position, Before
    <3>2. \A c \in Listed : ~(Position(c)' < 0)
      BY <1>1, <3>1
    <3> QED BY <2>1, <3>2 DEF Among, Missed
  <2> QED BY <1>0, <1>3, <2>1, <2>2 DEF QueueInv, MissedAreAccounted
<1>5. ASSUME CountCases PROVE QueueInv'
  <2>1. /\ Listed' = Listed /\ Missed' = Missed /\ Decided' = Decided
        /\ Among(offset)' = Among(offset)
        /\ departed' = departed /\ due' = due /\ view' = view
        /\ walk = "count" /\ walk' = "select"
        /\ total' = Cardinality(Listed) /\ late' = {} /\ offset' = offset
    BY <1>5 DEF CountCases, Listed, Stored, vars, Missed, Among, Position, Before, Decided, Open
  <2> QED BY <1>0, <1>1, <1>3, <2>1 DEF QueueInv, MissedAreAccounted
<1>6. ASSUME SelectPage PROVE QueueInv'
  <2>1. /\ Listed' = Listed /\ Decided' = Decided
        /\ departed' = departed /\ due' = due /\ view' = view /\ born' = born
        /\ walk = "select" /\ offset' = offset /\ late' = late /\ total' = total
        /\ seen' = seen \cup Page /\ walk' = IF Page = {} THEN "done" ELSE "more"
    BY <1>6 DEF SelectPage, Listed, Stored, vars, Decided, Open
  <2>2. Missed' = Missed \ Page
    BY <2>1 DEF Missed
  <2>3. ASSUME NEW c \in Missed
        PROVE  c \in Listed /\ Position(c) \in Nat /\ Position(c)' = Position(c)
               /\ (c \in Page <=> offset <= Position(c) /\ Position(c) < offset + Limit)
    BY <1>1, <2>1 DEF Missed, Position, Before, Page
  <2>4. Cardinality(Among(offset)) <= Cardinality(departed)
        /\ Cardinality(Listed) <= total + Cardinality(late)
    BY <2>1 DEF QueueInv
  <2>5. CASE Page = {}
    <3>1. Leading(Listed, Ahead(Listed, born), offset) = Listed
      <4>1. SUFFICES ASSUME Leading(Listed, Ahead(Listed, born), offset) # Listed PROVE FALSE
        OBVIOUS
      <4>2. PICK m \in Listed : Cardinality(Ahead(Listed, born)[m]) = offset
        BY <1>1, <1>2, <4>1, FirstAtLeast
      <4>3. m \in Page
        BY <1>1, <1>2, <4>2 DEF Page
      <4> QED BY <2>5, <4>3
    <3>2. Among(offset) = Missed /\ Missed' = Missed
      BY <1>1, <2>2, <2>5, <3>1 DEF Missed
    <3> QED BY <1>0, <2>1, <2>4, <2>5, <3>2 DEF QueueInv, MissedAreAccounted
  <2>6. CASE Page # {}
    <3> DEFINE rest == Listed \ Leading(Listed, Ahead(Listed, born), offset + Limit)
    <3>1. Among(offset + Limit)' = Among(offset)
      BY <1>2, <2>1, <2>2, <2>3 DEF Among
    <3>2. Missed' \subseteq Among(offset) \cup rest
      BY <1>1, <1>2, <2>2, <2>3 DEF Among, Leading
    <3>3. IsFiniteSet(rest) /\ Cardinality(rest) \in Nat
      BY <1>1, FS_Subset, FS_CardinalityType
    <3>4. /\ Cardinality(Missed') <= Cardinality(Among(offset)) + Cardinality(rest)
          /\ Cardinality(Missed') \in Nat
      <4>1. Among(offset) \cap rest = {}
        BY <1>1, <1>2 DEF Among, Leading, Missed
      <4> HIDE DEF rest
      <4>2. IsFiniteSet(Among(offset) \cup rest)
            /\ Cardinality(Among(offset) \cup rest) = Cardinality(Among(offset)) + Cardinality(rest)
        BY <1>1, <3>3, <4>1, DisjointUnion
      <4> QED BY <3>2, <4>2, FS_Subset, FS_CardinalityType
    <3>5. \/ Cardinality(Missed') <= Cardinality(departed)
          \/ Cardinality(Missed') + offset + Limit <= Counted
      <4>1. CASE rest = {}
        BY <1>1, <1>3, <2>4, <3>4, <4>1
      <4>2. CASE rest # {}
        <5>1. Leading(Listed, Ahead(Listed, born), offset + Limit) # Listed
          BY <4>2
        <5>2. Cardinality(rest) + (offset + Limit) = Cardinality(Listed)
          BY <1>1, <1>2, <5>1, RestAtMost
        <5> HIDE DEF rest
        <5> QED BY <1>1, <1>2, <2>4, <3>3, <3>4, <5>2 DEF Counted
      <4> QED BY <4>1, <4>2
    <3>6. Counted' = Counted
      BY <2>1 DEF Counted
    <3> QED BY <1>0, <2>1, <2>4, <2>6, <3>1, <3>5, <3>6 DEF QueueInv, MissedAreAccounted
  <2> QED BY <2>5, <2>6
<1>7. ASSUME NextPage PROVE QueueInv'
  <2>1. /\ Listed' = Listed /\ Missed' = Missed /\ Decided' = Decided
        /\ departed' = departed /\ due' = due /\ view' = view /\ late' = late /\ total' = total
        /\ walk = "more"
    BY <1>7 DEF NextPage, Listed, Stored, vars, Missed, Decided, Open
  <2>2. /\ view \in Views /\ due \subseteq Listed \cup departed
        /\ departed \subseteq Decided /\ (departed # {} => view.status = "open")
        /\ Cardinality(Among(offset + Limit)) <= Cardinality(departed)
        /\ \/ Cardinality(Missed) <= Cardinality(departed)
           \/ Cardinality(Missed) + offset + Limit <= Counted
    BY <2>1 DEF QueueInv
  <2>3. CASE walk' = "count" /\ offset' = offset + Limit
    <3>1. Among(offset)' = Among(offset + Limit)
      BY <1>7, <2>1, <2>3 DEF NextPage, vars, Among, Position, Before
    <3> QED BY <1>0, <2>1, <2>2, <2>3, <3>1 DEF QueueInv, MissedAreAccounted
  <2>4. CASE walk' = "stopped" /\ total <= offset + Limit
    <3>1. Cardinality(Missed) <= Cardinality(departed) + Cardinality(late)
      BY <1>1, <1>2, <2>2, <2>4 DEF Counted
    <3> QED BY <1>0, <2>1, <2>2, <2>4, <3>1 DEF QueueInv, MissedAreAccounted
  <2> QED BY <1>7, <2>3, <2>4 DEF NextPage
<1>8. ASSUME DeskStep, walk = "idle" PROVE QueueInv'
  BY <1>0, <1>8 DEF DeskStep, client, QueueInv, MissedAreAccounted
<1>9. ASSUME DeskStep, walk # "idle" PROVE QueueInv'
  <2>1. /\ Missed' \subseteq Missed /\ Cardinality(Missed') <= Cardinality(Missed)
        /\ Cardinality(departed) <= Cardinality(departed')
        /\ departed' \subseteq Decided' /\ (departed' # {} => view.status = "open")
        /\ due \subseteq Listed' \cup departed'
        /\ Listed \subseteq Listed' \cup departed' /\ departed \subseteq departed'
        /\ departed \cap Listed' = {}
        /\ \A k \in Nat : Cardinality(Among(k)) <= Cardinality(departed)
                           => Cardinality(Among(k)') <= Cardinality(departed')
    BY <1>0, <1>9, WaitingStep
  <2>2. /\ view' = view /\ walk' = walk /\ offset' = offset /\ total' = total /\ due' = due
        /\ late' = IF walk = "select" THEN late \cup (Listed' \ Listed) ELSE late
    BY <1>9 DEF DeskStep, client
  <2>3. /\ Among(offset)' = {c \in Missed' : Position(c)' < offset}
        /\ Among(offset + Limit)' = {c \in Missed' : Position(c)' < offset + Limit}
    BY <2>2 DEF Among
  <2>4. /\ Cardinality(Among(offset)) <= Cardinality(departed)
             => Cardinality(Among(offset)') <= Cardinality(departed')
        /\ Cardinality(Among(offset + Limit)) <= Cardinality(departed)
             => Cardinality(Among(offset + Limit)') <= Cardinality(departed')
    <3>1. \A k \in Nat : Among(k)' = {c \in Missed' : Position(c)' < k}
      BY DEF Among
    <3> QED BY <1>2, <2>1, <2>3, <3>1
  <2>5. /\ Cardinality(Missed') \in Nat /\ Cardinality(departed') \in Nat
        /\ IsFiniteSet(late') /\ Cardinality(late') \in Nat /\ Cardinality(Listed') \in Nat
        /\ IsFiniteSet(Listed')
    <3>1. IsFiniteSet(Missed') /\ IsFiniteSet(departed') /\ IsFiniteSet(late') /\ IsFiniteSet(Listed')
      <4>1. Listed' \subseteq CaseId
        BY DEF Listed, Stored
      <4>2. departed' \subseteq CaseId /\ late' \subseteq CaseId
        BY <1>0 DEF QueueTypeOK
      <4> QED BY <1>1, <2>1, <4>1, <4>2, DeskAssumption, FS_Subset
    <3> QED BY <3>1, FS_CardinalityType
  <2>6. ASSUME walk = "select"
        PROVE  Cardinality(Listed') <= total + Cardinality(late') /\ late' \subseteq Listed' \cup departed'
    <3> DEFINE new == Listed' \ Listed
    <3>1. Cardinality(Listed) <= total + Cardinality(late) /\ late \subseteq Listed \cup departed
      BY <2>6 DEF QueueInv
    <3>2. late' = late \cup new /\ late \cap new = {} /\ IsFiniteSet(new) /\ Listed \cap new = {}
      BY <2>1, <2>2, <2>5, <2>6, <3>1, FS_Subset
    <3>3. Listed' \subseteq Listed \cup new /\ late' \subseteq Listed' \cup departed'
      BY <2>1, <3>1, <3>2
    <3> HIDE DEF new
    <3>4. /\ Cardinality(late') = Cardinality(late) + Cardinality(new)
          /\ Cardinality(Listed \cup new) = Cardinality(Listed) + Cardinality(new)
          /\ IsFiniteSet(Listed \cup new) /\ Cardinality(new) \in Nat
      BY <1>1, <3>2, DisjointUnion
    <3>5. Cardinality(Listed') <= Cardinality(Listed \cup new)
      BY <3>3, <3>4, FS_Subset
    <3> QED BY <1>1, <1>2, <2>5, <3>1, <3>3, <3>4, <3>5
  <2>7. /\ walk' # "idle" /\ view' \in Views /\ due' \subseteq Listed' \cup departed'
        /\ departed' \subseteq Decided' /\ (departed' # {} => view'.status = "open")
    BY <1>9, <2>1, <2>2 DEF QueueInv
  <2>8. /\ walk' \in {"count", "select"} => Cardinality(Among(offset)') <= Cardinality(departed')
        /\ walk' = "more" => Cardinality(Among(offset + Limit)') <= Cardinality(departed')
    BY <2>2, <2>4 DEF QueueInv
  <2>9. walk' = "select" => /\ Cardinality(Listed') <= total' + Cardinality(late')
                            /\ late' \subseteq Listed' \cup departed'
    BY <2>2, <2>6
  <2>10. walk' = "more" => \/ Cardinality(Missed') <= Cardinality(departed')
                           \/ Cardinality(Missed') + offset' + Limit <= Counted'
    <3> SUFFICES ASSUME walk' = "more"
                 PROVE  \/ Cardinality(Missed') <= Cardinality(departed')
                        \/ Cardinality(Missed') + offset' + Limit <= Counted'
      OBVIOUS
    <3>1. \/ Cardinality(Missed) <= Cardinality(departed)
          \/ Cardinality(Missed) + offset + Limit <= Counted
      BY <2>2 DEF QueueInv
    <3>2. late' = late
      BY <2>2
    <3>3. Counted' = Cardinality(departed') + total + Cardinality(late)
      BY <2>2, <3>2 DEF Counted
    <3> QED BY <1>1, <1>2, <2>1, <2>2, <2>5, <3>1, <3>3 DEF Counted
  <2>11. MissedAreAccounted'
    <3>1. /\ walk' = "done" => Cardinality(Missed') <= Cardinality(departed')
          /\ walk' = "stopped" =>
               Cardinality(Missed') <= Cardinality(departed') + Cardinality(late')
      BY <1>1, <2>1, <2>2, <2>5 DEF QueueInv, MissedAreAccounted
    <3> QED BY <3>1 DEF MissedAreAccounted
  <2> QED BY <1>0, <2>7, <2>8, <2>9, <2>10, <2>11 DEF QueueInv
<1>10. CASE UNCHANGED qvars
  BY <1>0, <1>10 DEF qvars, vars, client, QueueInv, MissedAreAccounted, Missed, Among, Position,
     Before, Listed, Stored, Decided, Open, Counted
<1> QED BY <1>4, <1>5, <1>6, <1>7, <1>8, <1>9, <1>10 DEF QueueNext

\* A client that walks the queue to an empty page, or stops at the total, has missed no more
\* waiting cases than were decided, or came in behind the COUNT, meanwhile: for any page
\* size, any number of deciders and runs, and any order of the cases.
THEOREM WaitingCasesAreShown == QueueSpec => []MissedAreAccounted
<1>1. QueueInit => TypeOK
  BY DeskInit DEF QueueInit, DeskInv
<1>2. QueueInit => QueueInv
  <2> SUFFICES ASSUME QueueInit PROVE QueueInv
    OBVIOUS
  <2>1. born \in [CaseId -> Nat]
    BY DEF QueueInit
  <2> QED BY <1>1, <2>1
      DEF QueueInit, QueueInv, QueueTypeOK, MissedAreAccounted, WalkStep
<1>3. QueueInv /\ TypeOK' /\ [QueueNext]_qvars => QueueInv'
  BY QueueInvStep
<1>4. QueueInv => MissedAreAccounted
  BY DEF QueueInv
<1> QED BY <1>2, <1>3, <1>4, QueueRefinesDesk, DeskTypeCorrect, PTL DEF QueueSpec
==============================================================================
