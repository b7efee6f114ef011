---------------------------- MODULE MCReviewQueue ----------------------------
(* Model-checking instances of ReviewQueue and of the ReviewDesk it extends.   *)
EXTENDS ReviewQueue, TLC

CONSTANTS t1, t2, p1, p2, d1, d2

\* p1 and p2 process files of one tenant that share a decision.
MCTenantOfRun == [p \in Runs |-> t1]
MCHashesOf == [p \in Runs |-> IF p = p1 THEN {1} ELSE {1, 2}]

\* A list with a case twice, lists that race in opposite orders, and one that names
\* another tenant's case (here: t1's case asked for by t2, and a case that never exists).
MCBatches == {<<<<t1, 1>>>>, <<<<t1, 1>>, <<t1, 2>>>>, <<<<t1, 2>>, <<t1, 1>>>>,
              <<<<t1, 1>>, <<t1, 1>>>>}
\* Both decisions of t1's cases, and an approval of them by t2.
MCAsks == {q \in Request : /\ q.tenant = t1 \/ q.action = "approve"
                           /\ IF q.bulk THEN q.tenant = t2 => Len(q.ids) = 1 ELSE Len(q.ids) = 1}

MCViews == {[tenant |-> t1, status |-> f] : f \in {"open", "all"}}

\* Where a client walks the queue, one decider that approves cases of its tenant (the views
\* do not tell outcomes apart) and two saves are enough; where none does, nobody reads
\* created_at.  As a conjunct of the step, the bound spares TLC
\* the checks of states beyond it.
MCAsked == {d \in Deciders : step[d] # "new"}
MCBound ==
  IF view = None THEN \A c \in CaseId : born[c] <= 1
  ELSE /\ Cardinality(MCAsked) <= 1 /\ failures = 0 /\ saves <= 2
       /\ \A d \in MCAsked : ask[d].tenant = view.tenant /\ ask[d].action = "approve"
MCNext == QueueNext /\ MCBound'
MCSpec == QueueInit /\ [][MCNext]_qvars

DeciderSymmetry == Permutations(Deciders)
=============================================================================
