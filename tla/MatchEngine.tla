----------------------------- MODULE MatchEngine -----------------------------
(***************************************************************************)
(* The deterministic reconciliation engine: reconcile walks the bank       *)
(* transactions in order, scores every invoice that is not used yet, and   *)
(* commits to one decision before it looks at the next transaction.  What  *)
(* a transaction and an invoice have in common is abstracted to the        *)
(* evidence _candidate reads off them; scores are in hundredths.           *)
(***************************************************************************)
EXTENDS Scoring, Sequences

CONSTANTS
  Banks, Invoices,        \* lengths of the two lists
  InvoiceIds,             \* the source_record_ids a register may carry; nothing keeps them apart
  Evidences,              \* the kinds of evidence that occur
  ReviewAt, AutoAt,       \* ReconciliationConfig
  None

Statuses == {"MATCHED", "REVIEW", "UNMATCHED"}
Tiers == {"DETERMINISTIC", "AMBIGUOUS_DETERMINISTIC", "DETERMINISTIC_EXCEPTION", "FUZZY", "NONE"}
Invoice == 1 .. Invoices
Decision == [invoice : Invoice \cup {None}, status : Statuses, tier : Tiers]

ASSUME EngineAssumption ==
  /\ Banks \in Nat /\ Invoices \in Nat
  /\ InvoiceIds \subseteq [Invoice -> Nat]
  /\ Evidences \subseteq Evidence
  /\ ReviewAt \in Nat /\ AutoAt \in Nat
  /\ None \notin Nat

VARIABLES
  evidence,     \* what each transaction shares with each invoice; never changes
  invoiceId,    \* source_record_id of each invoice; never changes
  decisions,    \* one decision per transaction handled so far
  used          \* source_record_ids of the invoices consumed

vars == <<evidence, invoiceId, decisions, used>>

Init ==
  /\ evidence \in [(1 .. Banks) \X Invoice -> Evidences] /\ invoiceId \in InvoiceIds
  /\ decisions = <<>>
  /\ used = {}

-----------------------------------------------------------------------------
(* The order of the candidates *)

\* The sort key (score, -amount_difference, -date_difference_days), best first.
Stronger(e, f) ==
  \/ Score(e) > Score(f)
  \/ Score(e) = Score(f) /\ e.amount < f.amount
  \/ Score(e) = Score(f) /\ e.amount = f.amount /\ e.days < f.days
Tied(e, f) == Score(e) = Score(f) /\ e.amount = f.amount /\ e.days = f.days

-----------------------------------------------------------------------------
(* One transaction *)

Bank == Len(decisions) + 1
Ev(i) == evidence[<<Bank, i>>]

BadFree == Invoice
Free == {i \in Invoice : invoiceId[i] \notin used}
IsExact(e) == e.ref /\ e.amount = 0 /\ e.days <= DateTolerance
BadIsFuzzy(e) == Score(e) >= ReviewAt /\ e.days <= DateTolerance /\ e.types
IsFuzzy(e) == /\ Score(e) >= ReviewAt /\ e.days <= DateTolerance /\ e.amount <= NearAmount
              /\ e.types
Exact == {i \in Free : IsExact(Ev(i))}
Referenced == {i \in Free : Ev(i).ref}
Fuzzy == {i \in Free : IsFuzzy(Ev(i))}

\* The sort is stable: among equals the earlier invoice comes first.
Best(S) == CHOOSE i \in S : \A k \in S \ {i} :
             Stronger(Ev(i), Ev(k)) \/ (Tied(Ev(i), Ev(k)) /\ i < k)
BadRivals(S) == {}
Rivals(S) == {k \in S \ {Best(S)} : Tied(Ev(k), Ev(Best(S)))}

Decide(i, status, tier) ==
  /\ decisions' = Append(decisions, [invoice |-> i, status |-> status, tier |-> tier])
  /\ UNCHANGED <<evidence, invoiceId>>

MatchExact ==
  /\ Exact # {} /\ Rivals(Exact) = {}
  /\ Decide(Best(Exact), "MATCHED", "DETERMINISTIC")
  /\ used' = used \cup {invoiceId[Best(Exact)]}

RaiseAmbiguous ==
  /\ Exact # {} /\ Rivals(Exact) # {}
  /\ Decide(None, "REVIEW", "AMBIGUOUS_DETERMINISTIC")
  /\ used' = used

RaiseException ==
  /\ Exact = {} /\ Referenced # {}
  /\ Decide(Best(Referenced), "REVIEW", "DETERMINISTIC_EXCEPTION")
  /\ used' = used

BadMatchFuzzy ==
  /\ Exact = {} /\ Fuzzy # {}
  /\ Score(Ev(Best(Fuzzy))) >= AutoAt
  /\ Decide(Best(Fuzzy), "MATCHED", "FUZZY")
  /\ used' = used

MatchFuzzy ==
  /\ Exact = {} /\ Referenced = {} /\ Fuzzy # {}
  /\ Score(Ev(Best(Fuzzy))) >= AutoAt
  /\ Decide(Best(Fuzzy), "MATCHED", "FUZZY")
  /\ used' = used \cup {invoiceId[Best(Fuzzy)]}

BadReviewFuzzy ==
  /\ Exact = {} /\ Referenced = {} /\ Fuzzy # {}
  /\ Score(Ev(Best(Fuzzy))) < AutoAt
  /\ Decide(Best(Fuzzy), "REVIEW", "FUZZY")
  /\ used' = used \cup {invoiceId[Best(Fuzzy)]}

ReviewFuzzy ==
  /\ Exact = {} /\ Referenced = {} /\ Fuzzy # {}
  /\ Score(Ev(Best(Fuzzy))) < AutoAt
  /\ Decide(Best(Fuzzy), "REVIEW", "FUZZY")
  /\ used' = used

LeaveUnmatched ==
  /\ Exact = {} /\ Referenced = {} /\ Fuzzy = {}
  /\ Decide(None, "UNMATCHED", "NONE")
  /\ used' = used

Next ==
  /\ Bank <= Banks
  /\ \/ MatchExact \/ RaiseAmbiguous \/ RaiseException
     \/ MatchFuzzy \/ ReviewFuzzy \/ LeaveUnmatched

Spec == Init /\ [][Next]_vars

-----------------------------------------------------------------------------
TypeOK ==
  /\ evidence \in [(1 .. Banks) \X Invoice -> Evidences] /\ invoiceId \in InvoiceIds
  /\ decisions \in Seq(Decision) /\ Len(decisions) <= Banks
  /\ used \subseteq Nat

Handled == DOMAIN decisions
IsMatched(a) == decisions[a].status = "MATCHED"
\* An invoice is taken as soon as one with its id is.
MatchedBefore(b, i) ==
  \E a \in 1 .. b - 1 : IsMatched(a) /\ invoiceId[decisions[a].invoice] = invoiceId[i]

\* No invoice is settled by two transactions, in whichever tier, nor two rows of one id.
NoInvoiceMatchedTwice ==
  \A a, b \in Handled :
    /\ IsMatched(a) /\ IsMatched(b)
    /\ invoiceId[decisions[a].invoice] = invoiceId[decisions[b].invoice]
    => a = b

\* A reference that is contradicted by amount or date is never matched silently, not even
\* by a better looking invoice without the reference.
ReferenceConflictIsReviewed ==
  \A b \in Handled : IsMatched(b) =>
    \A i \in Invoice : evidence[<<b, i>>].ref =>
      MatchedBefore(b, i) \/ IsExact(evidence[<<b, decisions[b].invoice>>])

\* A deterministic match was the only strongest invoice left: one that is as good or
\* better belongs to an earlier transaction.
DeterministicIsUnambiguous ==
  \A b \in Handled : decisions[b].tier = "DETERMINISTIC" =>
    LET e == evidence[<<b, decisions[b].invoice>>] IN
    \A i \in Invoice \ {decisions[b].invoice} :
      IsExact(evidence[<<b, i>>]) =>
        Stronger(e, evidence[<<b, i>>]) \/ MatchedBefore(b, i)

\* Nobody is left unmatched while an invoice with its reference is unclaimed.
UnmatchedHasNoReference ==
  \A b \in Handled : decisions[b].status = "UNMATCHED" =>
    \A i \in Invoice : evidence[<<b, i>>].ref => MatchedBefore(b, i)

\* What keeps b from its invoice: an earlier fuzzy match, or a match of its namesake.
TakenFrom(b, i) ==
  \E a \in 1 .. b - 1 : /\ IsMatched(a) /\ invoiceId[decisions[a].invoice] = invoiceId[i]
                        /\ decisions[a].tier = "FUZZY" \/ decisions[a].invoice # i

\* A transaction and an invoice that agree exactly and refer to nobody else find each
\* other, wherever they stand in the files, unless a fuzzy match took the invoice before
\* or another row with the invoice's id was matched.
ExclusivePairsAreMatched ==
  \A b \in Handled, i \in Invoice :
    /\ IsExact(evidence[<<b, i>>])
    /\ \A k \in Invoice \ {i} : ~evidence[<<b, k>>].ref
    /\ \A a \in (1 .. Banks) \ {b} : ~evidence[<<a, i>>].ref
    => TakenFrom(b, i) \/ (decisions[b].invoice = i /\ IsMatched(b))
=============================================================================
