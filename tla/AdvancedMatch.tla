---------------------------- MODULE AdvancedMatch ----------------------------
(***************************************************************************)
(* reconcile_advanced: like the deterministic engine it walks the bank     *)
(* transactions in order, but an invoice has a remaining amount, may be    *)
(* paid in parts, and one transaction may settle several invoices.         *)
(* Candidates come from an index by name, token and amount bucket          *)
(* (blocking.py).  Invoices are numbered in the order of their ids, which   *)
(* are assumed distinct: the code keys its index, remaining and used by     *)
(* source_record_id, and of two invoices with one id keeps the later.       *)
(***************************************************************************)
EXTENDS Scoring, Sequences, FiniteSets

CONSTANTS
  Banks, Invoices,                \* lengths of the two lists
  BankRecords, InvoiceRecords,    \* the records that occur
  Similar,                        \* pairs of names that are 90% alike
  Tolerance, BucketSize,          \* amount_tolerance, amount_bucket_size
  MaxItems, MaxComplex,           \* max_one_to_many, max_complex_candidates
  ReviewAt,                       \* fuzzy_review_threshold
  None

\* A name is what blocking.py and advanced.py read off it: its tokens, the tokens joined,
\* and the text without spaces; a missing name has none of them.  A number is None or not
\* empty; OTHER stands for the types no match is made of.
Name == [tokens : SUBSET STRING, joined : STRING \cup {None}, plain : STRING \cup {None}]
Record == [amount : Nat \ {0}, number : STRING \cup {None}, name : Name, day : Nat,
           type : {"PAYMENT", "RECEIPT", "PURCHASE", "SALE", "OTHER"}]
Invoice == 1 .. Invoices
Relations == {"ONE_TO_ONE", "ONE_TO_MANY", "PARTIAL_PAYMENT", "AMBIGUOUS", "NONE"}
Matched == {"ONE_TO_ONE", "ONE_TO_MANY", "PARTIAL_PAYMENT"}    \* status MATCHED
Decision == [invoices : SUBSET Invoice, relation : Relations, applied : Nat, left : Nat]

ASSUME AdvancedAssumption ==
  /\ Banks \in Nat /\ Invoices \in Nat /\ MaxItems \in Nat /\ MaxComplex \in Nat
  /\ BankRecords \subseteq Record /\ InvoiceRecords \subseteq Record
  /\ Tolerance \in Nat /\ BucketSize \in Nat \ {0} /\ ReviewAt \in Nat
  /\ None \notin STRING

VARIABLES
  bank, invoice,      \* the two lists; never change
  decisions,          \* one decision per transaction handled so far
  used,               \* ids of the invoices consumed
  remaining           \* what is still due on each invoice

vars == <<bank, invoice, decisions, used, remaining>>

Init ==
  /\ bank \in [1 .. Banks -> BankRecords]
  /\ invoice \in [Invoice -> InvoiceRecords]
  /\ decisions = <<>>
  /\ used = {}
  /\ remaining = [i \in Invoice |-> invoice[i].amount]

-----------------------------------------------------------------------------
(* A transaction b and an invoice i *)

Apart(x, y) == IF x > y THEN x - y ELSE y - x
DateWindow == IF DateTolerance > 7 THEN DateTolerance ELSE 7
Compatible(b, i) ==
  <<bank[b].type, invoice[i].type>> \in {<<"PAYMENT", "PURCHASE">>, <<"RECEIPT", "SALE">>}
ShareToken(b, i) == bank[b].name.tokens \cap invoice[i].name.tokens # {}
InWindow(b, i) == Apart(bank[b].day, invoice[i].day) <= DateWindow
CloseAmount(b, i) == Apart(bank[b].amount, invoice[i].amount) <= Tolerance

\* Faulty variants, named Bad..., stand before the definition they alter.
BadBuckets(b, i) == bank[b].amount \div BucketSize = invoice[i].amount \div BucketSize
Buckets(b, i) == Apart(bank[b].amount \div BucketSize, invoice[i].amount \div BucketSize) <= 1
Indexed(b, i) ==
  \/ bank[b].name.joined # None /\ bank[b].name.joined = invoice[i].name.joined
  \/ ShareToken(b, i)
  \/ Buckets(b, i)

\* reference_number and invoice_number are both called number.  Two missing numbers are
\* equal for a partial payment, but not for a score or an exact match.
SameNumber(b, i) == bank[b].number = invoice[i].number
Refers(b, i) == SameNumber(b, i) /\ invoice[i].number # None
SamePlainName(b, i) == bank[b].name.plain # None /\ bank[b].name.plain = invoice[i].name.plain

EvidenceOf(b, i) ==
  [ref |-> Refers(b, i), amount |-> Apart(bank[b].amount, invoice[i].amount),
   days |-> Apart(bank[b].day, invoice[i].day),
   name |-> <<bank[b].name, invoice[i].name>> \in Similar, types |-> Compatible(b, i)]
ScoreOf(b, i) == Score(EvidenceOf(b, i))

-----------------------------------------------------------------------------
(* The transaction in hand *)

Turn == Len(decisions) + 1
Due == bank[Turn].amount

Candidates ==
  {i \in Invoice \ used : /\ Indexed(Turn, i) /\ InWindow(Turn, i) /\ Compatible(Turn, i)
                          /\ CloseAmount(Turn, i) \/ ShareToken(Turn, i)}
Exact == {i \in Candidates : remaining[i] = Due /\ Refers(Turn, i)}

\* _subset_match: untouched candidates, those that share a token if there are two of them.
BadUntouched == Candidates
Untouched == {i \in Candidates : remaining[i] = invoice[i].amount}
Focused == {i \in Untouched : ShareToken(Turn, i)}
Pool == LET focused == Focused IN
        IF Cardinality(Untouched) \notin 2 .. MaxComplex THEN {}
        ELSE IF Cardinality(focused) >= 2 THEN focused ELSE Untouched

\* The search order: by amount, then by id.
Precedes(i, k) == \/ invoice[i].amount < invoice[k].amount
                  \/ invoice[i].amount = invoice[k].amount /\ i < k
PairSum(p) == invoice[p[1]].amount + invoice[p[2]].amount
PairPrecedes(p, q) == Precedes(p[1], q[1]) \/ (p[1] = q[1] /\ Precedes(p[2], q[2]))
AllPairs == LET pool == Pool IN {p \in pool \X pool : Precedes(p[1], p[2])}
BadPairs == {p \in AllPairs : MaxItems >= 2 /\ PairSum(p) = Due}
Pairs == {p \in AllPairs : MaxItems >= 2 /\ Apart(PairSum(p), Due) <= Tolerance}

\* A third invoice k with a pair of others: k in search order, then the pair by its sum.
Triples == {t \in Pool \X AllPairs : /\ MaxItems >= 3 /\ t[1] \notin {t[2][1], t[2][2]}
                                     /\ Apart(invoice[t[1]].amount + PairSum(t[2]), Due) <= Tolerance}
TriplePrecedes(t, u) ==
  \/ Precedes(t[1], u[1])
  \/ t[1] = u[1] /\ PairSum(t[2]) < PairSum(u[2])
  \/ t[1] = u[1] /\ PairSum(t[2]) = PairSum(u[2]) /\ PairPrecedes(t[2], u[2])

Payable == {i \in Candidates : Due < remaining[i] /\ (SameNumber(Turn, i) \/ SamePlainName(Turn, i))}

Decide(S, relation, applied, left) ==
  /\ decisions' = Append(decisions, [invoices |-> S, relation |-> relation,
                                     applied |-> applied, left |-> left])
  /\ UNCHANGED <<bank, invoice>>

Settle(S, relation) ==
  /\ Decide(S, relation, Due, 0)
  /\ used' = used \cup S
  /\ remaining' = [i \in Invoice |-> IF i \in S THEN 0 ELSE remaining[i]]

MatchExact ==
  \E i \in Exact : /\ \A k \in Exact : i <= k
                   /\ Settle({i}, "ONE_TO_ONE")

MatchPair ==
  /\ Exact = {}
  /\ LET found == Pairs IN
     \E p \in found : /\ \A q \in found \ {p} : PairPrecedes(p, q)
                      /\ Settle({p[1], p[2]}, "ONE_TO_MANY")

MatchTriple ==
  /\ Exact = {} /\ Pairs = {}
  /\ LET found == Triples IN
     \E t \in found : /\ \A u \in found \ {t} : TriplePrecedes(t, u)
                      /\ Settle({t[1], t[2][1], t[2][2]}, "ONE_TO_MANY")

NoFullMatch == Exact = {} /\ Pairs = {} /\ Triples = {}

BadPayPart ==
  /\ NoFullMatch
  /\ \E i \in Payable :
       /\ Payable = {i}
       /\ Decide({i}, "PARTIAL_PAYMENT", Due, invoice[i].amount - Due)
       /\ remaining' = [remaining EXCEPT ![i] = invoice[i].amount - Due]
       /\ used' = used

PayPart ==
  /\ NoFullMatch
  /\ \E i \in Payable :
       /\ Payable = {i}
       /\ Decide({i}, "PARTIAL_PAYMENT", Due, remaining[i] - Due)
       /\ remaining' = [remaining EXCEPT ![i] = remaining[i] - Due]
       /\ used' = used \cup {k \in {i} : remaining[k] = Due}

\* The head of the stable sort by score.
Strongest == {i \in Candidates : \A k \in Candidates \ {i} :
                \/ ScoreOf(Turn, i) > ScoreOf(Turn, k)
                \/ ScoreOf(Turn, i) = ScoreOf(Turn, k) /\ i < k}

RaiseReview ==
  /\ NoFullMatch /\ Cardinality(Payable) # 1
  /\ \E i \in Strongest : /\ ScoreOf(Turn, i) >= ReviewAt
                          /\ Decide({i}, "AMBIGUOUS", 0, Due)
  /\ UNCHANGED <<used, remaining>>

LeaveUnmatched ==
  /\ NoFullMatch /\ Cardinality(Payable) # 1
  /\ \A i \in Strongest : ScoreOf(Turn, i) < ReviewAt
  /\ Decide({}, "NONE", 0, Due)
  /\ UNCHANGED <<used, remaining>>

Next ==
  /\ Turn <= Banks
  /\ MatchExact \/ MatchPair \/ MatchTriple \/ PayPart \/ RaiseReview \/ LeaveUnmatched

Spec == Init /\ [][Next]_vars

-----------------------------------------------------------------------------
TypeOK ==
  /\ bank \in [1 .. Banks -> BankRecords]
  /\ invoice \in [Invoice -> InvoiceRecords]
  /\ decisions \in Seq(Decision) /\ Len(decisions) <= Banks
  /\ used \subseteq Invoice
  /\ remaining \in [Invoice -> Nat]

Handled == DOMAIN decisions
Touches(b, i) == decisions[b].relation \in Matched /\ i \in decisions[b].invoices
PaysPart(b, i) == decisions[b].relation = "PARTIAL_PAYMENT" /\ i \in decisions[b].invoices
Pays(b, i) == PaysPart(b, i) \/ (decisions[b].relation = "ONE_TO_ONE" /\ i \in decisions[b].invoices)
Settles(b, i) == Touches(b, i) /\ ~PaysPart(b, i)
FreeAt(b, i) == \A a \in 1 .. b - 1 : ~Settles(a, i)
UntouchedAt(b, i) == \A a \in 1 .. b - 1 : ~Touches(a, i)

\* What one may expect to find for b: open invoices with a word of its name, and what they
\* add up to.
Named(b) == {i \in Invoice : UntouchedAt(b, i) /\ Compatible(b, i) /\ InWindow(b, i)
                              /\ ShareToken(b, i)}
PairFits(b, i, j) == Apart(invoice[i].amount + invoice[j].amount, bank[b].amount) <= Tolerance
TripleFits(b, i, j, k) ==
  Apart(invoice[i].amount + invoice[j].amount + invoice[k].amount, bank[b].amount) <= Tolerance

\* The last of some decisions.
IsLast(b, S) == b \in S /\ \A c \in S : c <= b
Payers(i) == {b \in Handled : Pays(b, i)}

\* The payments of an invoice form an account: the first opens with its amount, each later
\* one, in part or in full, with what the one before left; the last says what remains.
Opens(b, i) ==
  LET earlier == {a \in Payers(i) : a < b}
      balance == decisions[b].applied + decisions[b].left IN
  /\ earlier = {} => balance = invoice[i].amount
  /\ \A a \in earlier : IsLast(a, earlier) => balance = decisions[a].left
AccountsBalance ==
  \A i \in Invoice :
    /\ \A b \in Payers(i) : Opens(b, i) /\ (IsLast(b, Payers(i)) => remaining[i] = decisions[b].left)
    /\ (\A b \in Handled : ~Touches(b, i)) => remaining[i] = invoice[i].amount

\* Once a transaction settles an invoice no other one pays it, and a combination takes
\* only invoices nobody paid before.
SettledOnce ==
  \A a, b \in Handled, i \in Invoice :
    a < b /\ Touches(a, i) /\ Touches(b, i) =>
      PaysPart(a, i) /\ decisions[b].relation # "ONE_TO_MANY"

\* docs/adversarial-benchmark.md: blocking does not exclude a candidate within the matching
\* window.  Whoever is left unmatched has no open invoice of close amount, within the dates,
\* that deserves a review.
UnmatchedHasNoCandidate ==
  \A b \in Handled : decisions[b].relation = "NONE" =>
    \A i \in Invoice : FreeAt(b, i) /\ Compatible(b, i) /\ InWindow(b, i) /\ CloseAmount(b, i) =>
      ScoreOf(b, i) < ReviewAt

\* The combinations of them that the docstring of reconcile_advanced may mean.
Fitting(b) ==
  {S \in SUBSET Named(b) :
     \/ /\ MaxItems >= 2
        /\ \E i, j \in S : i # j /\ S = {i, j} /\ PairFits(b, i, j)
     \/ /\ MaxItems >= 3
        /\ \E i, j, k \in S : /\ i # j /\ j # k /\ i # k /\ S = {i, j, k}
                              /\ TripleFits(b, i, j, k)}

\* Where the allocation is unambiguous, that is exactly one combination of invoices that
\* nobody paid, with a word of its name, adds up to a transaction, the transaction is matched
\* with these invoices and no others, unless an invoice under its own number is due exactly,
\* or there are more invoices than the search admits.  Nothing is said of several that fit:
\* the code takes the first in search order.
UnambiguousCombinationIsTaken ==
  \A b \in Handled : \A S \in Fitting(b) :
    Fitting(b) = {S} /\ Invoices <= MaxComplex =>
      \/ decisions[b].relation = "ONE_TO_ONE"
      \/ decisions[b].relation = "ONE_TO_MANY" /\ decisions[b].invoices = S

=============================================================================
