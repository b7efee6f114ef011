------------------------------ MODULE ReconRun ------------------------------
(***************************************************************************)
(* One reconciliation of two files, from the engine's walk to everything   *)
(* the run leaves behind: the advice of the AI reviewer, review cases,     *)
(* counters, result rows and the report.  The three endpoints differ in    *)
(* which of these they do.  An attempt may fail at any call; a job's       *)
(* attempt starts over on the same files, next to what the earlier ones    *)
(* wrote.                                                                  *)
(***************************************************************************)
EXTENDS MatchEngine, FiniteSets

CONSTANTS
  Modes,          \* "async": job, "sync": upload endpoint, "demo": POST /reconcile
  BankIds,        \* the transaction ids a bank file may carry; nothing keeps them apart
  Truths,         \* ground_truth.csv of the demo directory: rows [bank, invoice]
  MismatchAbove,  \* the amount detect_anomalies tolerates in a review
  MaxAttempts,    \* bound: executions of a job, retries and redeliveries
  MaxFaults       \* bound: calls that raise, processes that die

Recommendations == {"MATCH", "HUMAN_REVIEW", "UNMATCHED"}
Counter == {"runs", "failures", "reviewed"} \cup Statuses
Truth == Seq([bank : Nat, invoice : Nat \cup {None}])

ASSUME RunAssumption ==
  /\ Modes \subseteq {"async", "sync", "demo"}
  /\ BankIds \subseteq [1 .. Banks -> Nat]
  /\ Truths \subseteq Truth \cup {None} /\ None \notin Truth
  /\ MismatchAbove \in Nat /\ NearAmount <= MismatchAbove
  /\ MaxAttempts \in Nat \ {0} /\ MaxFaults \in Nat

VARIABLES
  mode, bankId, truth,   \* what was submitted; never change
  phase,                 \* the last thing the attempt did
  advice,                \* escalate_reviews: bank id -> recommendation
  score,                 \* the evaluation against ground truth
  cases,                 \* review_cases made of this run's decisions
  counters,              \* _COUNTERS of the process
  results,               \* reconciliation_results: bank id -> decision
  report,                \* reconciliation_reports
  attempts, faults

given == <<evidence, invoiceId, mode, bankId, truth>>
walk == <<decisions, used>>
locals == <<advice, score>>
kept == <<cases, counters, results, report>>
runVars == <<given, walk, phase, locals, kept, attempts, faults>>

Phases == {"match", "scored", "advised", "saved", "counted", "listed", "done", "failing", "failed"}

ZeroCounters == [c \in Counter |-> 0]
RunInit ==
  /\ Init
  /\ mode \in Modes /\ bankId \in BankIds /\ truth \in Truths
  /\ mode # "demo" => truth = None
  /\ phase = "match" /\ attempts = 1 /\ faults = 0
  /\ advice = <<>> /\ score = None
  /\ cases = {} /\ counters = ZeroCounters /\ results = <<>> /\ report = None

-----------------------------------------------------------------------------
(* What the decisions amount to *)

With(status) == {b \in Handled : decisions[b].status = status}
WithTier(tier) == {b \in Handled : decisions[b].tier = tier}
IdsOf(B) == {bankId[b] : b \in B}
Unique == \A a, b \in 1 .. Banks : bankId[a] = bankId[b] => a = b
IdOf(i) == IF i = None THEN None ELSE invoiceId[i]

\* Several invoices tie on an exact amount; the other decisions carry their candidate's.
AmountGap(b) == IF decisions[b].invoice = None THEN 0
                ELSE evidence[<<b, decisions[b].invoice>>].amount
Mismatches == {b \in With("REVIEW") : AmountGap(b) > MismatchAbove}
Anomalies == Mismatches \cup With("UNMATCHED")

Summary ==
  [bank |-> Banks, anomalies |-> Cardinality(Anomalies), reviewed |-> Cardinality(DOMAIN advice),
   status |-> [s \in Statuses |-> Cardinality(With(s))],
   tier |-> [t \in Tiers |-> Cardinality(WithTier(t))]]

BadCaseOf(b) == [candidate |-> IdOf(decisions[b].invoice), tier |-> decisions[b].tier]
\* build_review_cases: the digest covers these three.
CaseOf(b) == [record |-> bankId[b], candidate |-> IdOf(decisions[b].invoice),
              tier |-> decisions[b].tier]

\* validate_ai_result: no MATCH without a candidate.
Validated(recommendation, b) ==
  IF recommendation = "MATCH" /\ decisions[b].invoice = None THEN "HUMAN_REVIEW"
  ELSE recommendation

\* Of the reviews of one bank id the last one's advice stands.
LastReview(id) == CHOOSE b \in With("REVIEW") :
  bankId[b] = id /\ \A a \in With("REVIEW") : bankId[a] = id => a <= b
\* Of the decisions of one bank id the first one's row stands.
First(id) == CHOOSE b \in Handled : bankId[b] = id /\ \A a \in Handled : bankId[a] = id => b <= a

-----------------------------------------------------------------------------
(* Evaluation against ground truth *)

Row == DOMAIN truth
Expected(r) == truth[r].invoice
DecisionOf(r) == decisions[First(truth[r].bank)]
Judged(r) == DecisionOf(r).status = "MATCHED"
TruthLoads == truth # <<>> /\ \A r, s \in Row : truth[r].bank = truth[s].bank => r = s
BadComparable == IdsOf(Handled) = {truth[r].bank : r \in Row}
Comparable == Unique /\ IdsOf(Handled) = {truth[r].bank : r \in Row}

\* Precision is correct over correct + false, recall correct over actual, pair accuracy
\* pairs over actual; a match with the wrong invoice is a correct one that is no pair.
Evaluation ==
  LET count(P(_)) == Cardinality({r \in Row : P(r)}) IN
  [actual |-> count(LAMBDA r : Expected(r) # None),
   correct |-> count(LAMBDA r : Expected(r) # None /\ Judged(r)),
   pairs |-> count(LAMBDA r : /\ Expected(r) # None /\ Judged(r)
                              /\ IdOf(DecisionOf(r).invoice) = Expected(r)),
   missed |-> count(LAMBDA r : Expected(r) # None /\ ~Judged(r)),
   false |-> count(LAMBDA r : Expected(r) = None /\ Judged(r)),
   unresolved |-> count(LAMBDA r : Expected(r) = None /\ ~Judged(r))]

-----------------------------------------------------------------------------
(* The attempt *)

Walk ==
  /\ phase = "match" /\ Next
  /\ UNCHANGED <<mode, bankId, truth, phase, locals, kept, attempts, faults>>

MatchingDone == phase = "match" /\ Bank > Banks
FailedPhase == IF mode = "async" THEN "failing" ELSE "failed"

\* A directory with a ground truth that does not fit is an error of the whole request.
Evaluate ==
  /\ MatchingDone /\ truth # None
  /\ \/ /\ TruthLoads /\ Comparable
        /\ score' = Evaluation /\ phase' = "scored"
     \/ /\ ~(TruthLoads /\ Comparable)
        /\ score' = score /\ phase' = "failed"
  /\ UNCHANGED <<given, walk, advice, kept, attempts, faults>>

\* escalate_reviews: one call of the provider per review, in order.
Advise ==
  /\ IF truth = None THEN MatchingDone ELSE phase = "scored"
  /\ \E reply \in [With("REVIEW") -> Recommendations] :
       advice' = [id \in IdsOf(With("REVIEW")) |->
                    Validated(reply[LastReview(id)], LastReview(id))]
  /\ phase' = "advised"
  /\ UNCHANGED <<given, walk, score, kept, attempts, faults>>

\* INSERT OR IGNORE per case, in one transaction.
SaveCases ==
  /\ phase = "advised"
  /\ cases' = cases \cup {CaseOf(b) : b \in With("REVIEW")}
  /\ phase' = "saved"
  /\ UNCHANGED <<given, walk, locals, counters, results, report, attempts, faults>>

\* record_reconciliation(summary); the other endpoints have nothing more to write.
CountRun ==
  /\ phase = "saved"
  /\ counters' = [c \in Counter |-> counters[c] +
                    CASE c = "runs" -> 1 [] c = "failures" -> 0
                      [] c = "reviewed" -> Summary.reviewed [] OTHER -> Summary.status[c]]
  /\ phase' = IF mode = "async" THEN "counted" ELSE "done"
  /\ UNCHANGED <<given, walk, locals, cases, results, report, attempts, faults>>

\* INSERT OR IGNORE on (job, tenant, record): the row that is there stays.
SaveResults ==
  /\ phase = "counted"
  /\ results' = [id \in DOMAIN results \cup IdsOf(Handled) |->
                   IF id \in DOMAIN results THEN results[id] ELSE decisions[First(id)]]
  /\ phase' = "listed"
  /\ UNCHANGED <<given, walk, locals, cases, counters, report, attempts, faults>>

SaveReport ==
  /\ phase = "listed"
  /\ report' = Summary
  /\ phase' = "done"
  /\ UNCHANGED <<given, walk, locals, cases, counters, results, attempts, faults>>

\* A call raises, the provider's answer is not usable, or no key is configured for it.
Raises ==
  /\ phase \notin {"done", "failing", "failed"} /\ faults < MaxFaults
  /\ faults' = faults + 1
  /\ phase' = FailedPhase
  /\ UNCHANGED <<given, walk, locals, kept, attempts>>

BadCountFailure ==
  /\ phase = "failing"
  /\ counters' = [c \in Counter |-> counters[c] +
                    CASE c \in {"runs", "failures"} -> 1
                      [] c = "reviewed" -> Summary.reviewed [] OTHER -> Summary.status[c]]
  /\ phase' = "failed"
  /\ UNCHANGED <<given, walk, locals, cases, results, report, attempts, faults>>

\* record_reconciliation({}, failed=True), even after the attempt was counted as a success.
CountFailure ==
  /\ phase = "failing"
  /\ counters' = [counters EXCEPT !["runs"] = @ + 1, !["failures"] = @ + 1]
  /\ phase' = "failed"
  /\ UNCHANGED <<given, walk, locals, cases, results, report, attempts, faults>>

\* The worker process dies, and its counters with it.
Dies ==
  /\ mode = "async" /\ phase \notin {"done", "failed"} /\ faults < MaxFaults
  /\ faults' = faults + 1
  /\ counters' = ZeroCounters
  /\ phase' = "failed"
  /\ UNCHANGED <<given, walk, locals, cases, results, report, attempts>>

BadRestart ==
  /\ mode = "async" /\ phase \in {"done", "failed"} /\ attempts < MaxAttempts
  /\ attempts' = attempts + 1
  /\ phase' = "match"
  /\ decisions' = <<>> /\ used' = used /\ advice' = <<>> /\ score' = score
  /\ UNCHANGED <<given, kept, faults>>

\* The task is retried or delivered again.
Restart ==
  /\ mode = "async" /\ phase \in {"done", "failed"} /\ attempts < MaxAttempts
  /\ attempts' = attempts + 1
  /\ phase' = "match"
  /\ decisions' = <<>> /\ used' = {} /\ advice' = <<>> /\ score' = score
  /\ UNCHANGED <<given, kept, faults>>

RunNext ==
  \/ Walk \/ Evaluate \/ Advise \/ SaveCases \/ CountRun \/ SaveResults \/ SaveReport
  \/ Raises \/ CountFailure \/ Dies \/ Restart
RunSpec == RunInit /\ [][RunNext]_runVars

-----------------------------------------------------------------------------
RunTypeOK ==
  /\ TypeOK
  /\ mode \in Modes /\ bankId \in BankIds /\ truth \in Truths /\ phase \in Phases
  /\ \A id \in DOMAIN advice : advice[id] \in Recommendations
  /\ counters \in [Counter -> Nat]
  /\ \A id \in DOMAIN results : results[id] \in Decision
  /\ attempts \in 1 .. MaxAttempts /\ faults \in 0 .. MaxFaults

\* AMOUNT_MISMATCH says that the amount differs from the referenced invoice: the candidate
\* is one that the transaction refers to.  The fuzzy tier reviews no larger difference than
\* the detector tolerates, though the two limits are kept in different files.
MismatchIsReferenced ==
  \A b \in Mismatches : evidence[<<b, decisions[b].invoice>>].ref

\* Nothing a run escalates gets lost on the way to the reviewers: bank ids that differ give
\* each review a case and an advice of its own, in every attempt; and where ids collide
\* there is still a case of each, and no advice to match without an invoice of that bank id.
EveryReviewIsTracked ==
  /\ phase \in {"saved", "counted", "listed", "done"} =>
       /\ {CaseOf(b) : b \in With("REVIEW")} = cases
       /\ Unique => /\ Cardinality(cases) = Cardinality(With("REVIEW"))
                    /\ DOMAIN advice = IdsOf(With("REVIEW"))
  /\ \A id \in DOMAIN advice : \E b \in With("REVIEW") :
       bankId[b] = id /\ (advice[id] = "MATCH" => decisions[b].invoice # None)

Listed(status) == {id \in DOMAIN results : results[id].status = status}

\* The report counts every transaction once by status, and the rows behind it tell the same
\* story, whichever attempts wrote the two, as long as the bank ids differ.
ReportAgreesWithRows ==
  /\ report # None =>
       /\ report.status["MATCHED"] + report.status["REVIEW"] + report.status["UNMATCHED"]
            = report.bank
       /\ Unique => \A s \in Statuses : report.status[s] = Cardinality(Listed(s))
       /\ ~Unique => Cardinality(DOMAIN results) < report.bank
  /\ \A id \in DOMAIN results : phase \in {"counted", "listed", "done"} =>
       results[id] = decisions[First(id)]

\* However often attempts are repeated or fail after they were counted, the outcomes the
\* process has counted are those of whole runs, and failed ones add none.
CountersAgree ==
  counters["MATCHED"] + counters["REVIEW"] + counters["UNMATCHED"]
    = Banks * (counters["runs"] - counters["failures"])

\* An evaluation judges every decision once, and a perfect one (no false match, every
\* expected pair) leaves nothing to find.
EvaluationIsHonest ==
  score # None =>
    /\ score.correct + score.false = Cardinality(With("MATCHED"))
    /\ score.missed + score.unresolved = Banks - Cardinality(With("MATCHED"))
    /\ score.pairs = score.actual /\ score.false = 0 =>
         \A b \in Handled : \E r \in Row :
           /\ truth[r].bank = bankId[b]
           /\ IF decisions[b].status = "MATCHED" THEN IdOf(decisions[b].invoice) = Expected(r)
              ELSE Expected(r) = None
=============================================================================
