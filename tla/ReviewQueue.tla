----------------------------- MODULE ReviewQueue -----------------------------
(***************************************************************************)
(* The review desk with a client that walks the queue page by page (GET     *)
(* /v1/reviews).  A page is two statements on a table that other threads    *)
(* write to: a COUNT, then a SELECT of the next rows in the order of        *)
(* created_at and case_id.                                                  *)
(***************************************************************************)
EXTENDS ReviewDesk

CONSTANTS
  Limit,        \* page size
  Views,        \* what clients list: a tenant and a status
  Stamps        \* values of created_at; a run reads the clock before it saves

Filters == {"open", "approved", "rejected", "all"}
View == [tenant : Tenants, status : Filters]

ASSUME QueueAssumption ==
  /\ Views \subseteq View /\ None \notin View
  /\ Limit \in Nat \ {0} /\ Stamps \subseteq Nat
  /\ Hashes \subseteq Nat              \* case ids of a tenant compare as their hashes

WalkStep == {"idle", "count", "select", "more", "done", "stopped"}

VARIABLES
  born,         \* created_at of the stored cases
  view,         \* [tenant, status]: what the client lists, if there is one
  walk,         \* its next statement
  offset, total,
  seen,         \* cases on the pages so far
  \* History, read by the properties only.
  due,          \* cases that were there when the walk began
  departed,     \* cases that left the view since
  late          \* cases that came in since the last COUNT

client == <<view, walk, offset, total, seen, due>>
qvars == <<vars, born, client, departed, late>>

QueueInit ==
  /\ Init
  /\ born = [c \in CaseId |-> 0]
  /\ view \in Views \cup {None} /\ walk = "idle" /\ offset = 0 /\ total = 0
  /\ seen = {} /\ due = {} /\ departed = {} /\ late = {}

\* The WHERE clause.
Listed == {c \in Stored : c[1] = view.tenant /\ view.status \in {"all", rows[c].status}}

\* ORDER BY created_at, case_id.
Before(c, d) == born[c] < born[d] \/ (born[c] = born[d] /\ c[2] < d[2])
Position(c) == Cardinality({d \in Listed : Before(d, c)})
BadPage == {c \in Listed : offset < Position(c) /\ Position(c) <= offset + Limit}
Page == {c \in Listed : offset <= Position(c) /\ Position(c) < offset + Limit}

Begin ==
  /\ walk = "idle" /\ view # None
  /\ walk' = "count" /\ due' = Listed
  /\ UNCHANGED <<vars, born, view, offset, total, seen, departed, late>>

CountCases ==
  /\ walk = "count"
  /\ total' = Cardinality(Listed) /\ late' = {}
  /\ walk' = "select"
  /\ UNCHANGED <<vars, born, view, offset, seen, due, departed>>

SelectPage ==
  /\ walk = "select"
  /\ seen' = seen \cup Page
  /\ walk' = IF Page = {} THEN "done" ELSE "more"
  /\ UNCHANGED <<vars, born, view, offset, total, due, departed, late>>

\* The client asks for the next page, or is content when it has reached the total.
NextPage ==
  /\ walk = "more"
  /\ \/ walk' = "count" /\ offset' = offset + Limit
     \/ walk' = "stopped" /\ total <= offset + Limit /\ offset' = offset
  /\ UNCHANGED <<vars, born, view, total, seen, due, departed, late>>

\* Runs and deciders go on meanwhile; new rows get the time their run began with.
DeskStep ==
  /\ Next /\ UNCHANGED client
  /\ \/ Stored' = Stored /\ born' = born
     \/ /\ Stored' # Stored
        /\ \E s \in Stamps :
             born' = [c \in CaseId |-> IF c \in Stored' \ Stored THEN s ELSE born[c]]
  /\ departed' = IF walk = "idle" THEN departed ELSE departed \cup (Listed \ Listed')
  /\ late' = IF walk = "select" THEN late \cup (Listed' \ Listed) ELSE late

QueueNext == Begin \/ CountCases \/ SelectPage \/ NextPage \/ DeskStep
QueueSpec == QueueInit /\ [][QueueNext]_qvars

-----------------------------------------------------------------------------
QueueTypeOK ==
  /\ TypeOK
  /\ born \in [CaseId -> Nat] /\ view \in Views \cup {None} /\ walk \in WalkStep
  /\ offset \in Nat /\ total \in Nat
  /\ seen \subseteq CaseId /\ due \subseteq CaseId
  /\ departed \subseteq CaseId /\ late \subseteq CaseId

\* A walk of the queue passes over no more waiting cases than were decided meanwhile (by
\* others or by the client itself, page by page); a client that stops at the total may
\* also miss as many as came in between the COUNT and the SELECT.
Missed == (due \cap Listed) \ seen
MissedAreAccounted ==
  /\ walk = "done" => Cardinality(Missed) <= Cardinality(departed)
  /\ walk = "stopped" => Cardinality(Missed) <= Cardinality(departed) + Cardinality(late)
=============================================================================
