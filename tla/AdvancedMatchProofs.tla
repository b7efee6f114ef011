------------------------- MODULE AdvancedMatchProofs -------------------------
(***************************************************************************)
(* Advanced matching for lists of any length and any records: invoices     *)
(* have balanced accounts, and a settled invoice stays settled.            *)
(***************************************************************************)
EXTENDS AdvancedMatch, RankProofs, SequenceTheorems

\* Scores are at most 100.
LEMMA ScoreType ==
  ASSUME NEW e \in Evidence
  PROVE  Score(e) \in 0 .. 100 /\ e.amount \in Nat /\ e.days \in Nat
BY DEF Score, Total, AmountPoints, DatePoints, Points, Evidence

-----------------------------------------------------------------------------
(* One decision is appended; those before it stand.                           *)

LEMMA DecideAppends ==
  ASSUME TypeOK, Turn <= Banks, NEW S \in SUBSET Invoice, NEW relation \in Relations,
         NEW applied \in Nat, NEW left \in Nat, Decide(S, relation, applied, left)
  PROVE  /\ decisions' \in Seq(Decision) /\ Len(decisions') <= Banks
         /\ Turn \in Nat /\ Turn' = Turn + 1
         /\ Handled = 1 .. Turn - 1 /\ Handled' = 1 .. Turn
         /\ \A a \in 1 .. Turn - 1 : decisions'[a] = decisions[a]
         /\ decisions'[Turn] = [invoices |-> S, relation |-> relation, applied |-> applied,
                                left |-> left]
         /\ bank' = bank /\ invoice' = invoice
<1> DEFINE d == [invoices |-> S, relation |-> relation, applied |-> applied, left |-> left]
<1>1. /\ decisions \in Seq(Decision) /\ Len(decisions) \in Nat
      /\ DOMAIN decisions = 1 .. Len(decisions)
  BY LenProperties DEF TypeOK
<1>2. d \in Decision
  BY DEF Decision
<1>3. decisions' = Append(decisions, d)
  BY DEF Decide
<1> HIDE DEF d
<1>4. /\ decisions' \in Seq(Decision) /\ Len(decisions') = Len(decisions) + 1
      /\ \A a \in 1 .. Len(decisions) : decisions'[a] = decisions[a]
      /\ decisions'[Len(decisions) + 1] = d
  BY <1>1, <1>2, <1>3, AppendProperties
<1>5. DOMAIN decisions' = 1 .. Len(decisions')
  BY <1>4, LenProperties
<1> QED BY <1>1, <1>4, <1>5, AdvancedAssumption DEF Turn, Decide, Handled, d

\* Payments and amounts due are positive.
LEMMA AmountsPositive ==
  ASSUME TypeOK, Turn <= Banks
  PROVE  /\ Due \in Nat \ {0}
         /\ \A i \in Invoice : invoice[i].amount \in Nat \ {0} /\ remaining[i] \in Nat
<1>1. Turn \in 1 .. Banks
  BY LenProperties, AdvancedAssumption DEF TypeOK, Turn
<1>2. \A r \in BankRecords \cup InvoiceRecords : r.amount \in Nat \ {0}
  BY AdvancedAssumption DEF Record
<1> QED BY <1>1, <1>2 DEF TypeOK, Due

-----------------------------------------------------------------------------
(* The invariant                                                              *)

\* An invoice is consumed when a transaction settles it, and something is paid on an
\* invoice as soon as a transaction touches it.
UsedIsSettled == \A i \in Invoice, b \in Handled : Settles(b, i) => i \in used
TouchedIsPaid == \A i \in Invoice, b \in Handled : Touches(b, i) => remaining[i] < invoice[i].amount

LedgerInv == TypeOK /\ UsedIsSettled /\ TouchedIsPaid /\ AccountsBalance /\ SettledOnce

\* What the search returns.
Found(S) ==
  \/ \E p \in Pairs : S = {p[1], p[2]}
  \/ \E t \in Triples : S = {t[1], t[2][1], t[2][2]}

\* The three kinds of a step: it settles invoices in full, pays one in part, or pays none.
SettleStep(S, relation) ==
  /\ S \subseteq Candidates
  /\ \/ relation = "ONE_TO_ONE" /\ \E i \in S : S = {i} /\ remaining[i] = Due
     \/ relation = "ONE_TO_MANY" /\ S \subseteq Untouched /\ Found(S)
  /\ Settle(S, relation)
PartStep(i) ==
  /\ NoFullMatch
  /\ i \in Candidates /\ Due < remaining[i]
  /\ Decide({i}, "PARTIAL_PAYMENT", Due, remaining[i] - Due)
  /\ remaining' = [remaining EXCEPT ![i] = remaining[i] - Due]
  /\ used' = used
IdleStep(S, relation) ==
  /\ NoFullMatch
  /\ S \subseteq Invoice /\ relation \in Relations \ Matched
  /\ relation = "NONE" => \A i \in Strongest : ScoreOf(Turn, i) < ReviewAt
  /\ Decide(S, relation, 0, Due)
  /\ UNCHANGED <<used, remaining>>

\* Every step is of one of these kinds.
LEMMA StepKinds ==
  ASSUME TypeOK, Next
  PROVE  /\ Turn <= Banks
         /\ \/ \E S \in SUBSET Invoice, relation \in {"ONE_TO_ONE", "ONE_TO_MANY"} : SettleStep(S, relation)
            \/ \E i \in Invoice : PartStep(i)
            \/ \E S \in SUBSET Invoice, relation \in {"AMBIGUOUS", "NONE"} : IdleStep(S, relation)
<1> USE DEF Next
<1>0. /\ Turn <= Banks
      /\ Candidates \subseteq Invoice /\ Untouched \subseteq Candidates
      /\ Pool \subseteq Untouched
  BY DEF Candidates, Untouched, Pool, Focused
<1>1. CASE MatchExact
  <2>1. PICK i \in Exact : Settle({i}, "ONE_TO_ONE")
    BY <1>1 DEF MatchExact
  <2>2. i \in Candidates /\ remaining[i] = Due
    BY <2>1 DEF Exact
  <2>3. SettleStep({i}, "ONE_TO_ONE")
    BY <2>1, <2>2 DEF SettleStep
  <2> QED BY <1>0, <2>2, <2>3
<1>2. CASE MatchPair
  <2>1. PICK p \in Pairs : Settle({p[1], p[2]}, "ONE_TO_MANY")
    BY <1>2 DEF MatchPair
  <2>2. p[1] \in Untouched /\ p[2] \in Untouched
    BY <1>0, <2>1 DEF Pairs, AllPairs
  <2>3. SettleStep({p[1], p[2]}, "ONE_TO_MANY")
    BY <1>0, <2>1, <2>2 DEF SettleStep, Found
  <2> QED BY <1>0, <2>2, <2>3
<1>3. CASE MatchTriple
  <2>1. PICK t \in Triples : Settle({t[1], t[2][1], t[2][2]}, "ONE_TO_MANY")
    BY <1>3 DEF MatchTriple
  <2>2. t[1] \in Pool /\ t[2] \in AllPairs
    BY <2>1 DEF Triples
  <2>3. t[1] \in Untouched /\ t[2][1] \in Untouched /\ t[2][2] \in Untouched
    BY <1>0, <2>2 DEF AllPairs
  <2>4. SettleStep({t[1], t[2][1], t[2][2]}, "ONE_TO_MANY")
    BY <1>0, <2>1, <2>3 DEF SettleStep, Found
  <2> QED BY <1>0, <2>3, <2>4
<1>4. CASE PayPart
  <2>1. PICK i \in Payable : /\ Decide({i}, "PARTIAL_PAYMENT", Due, remaining[i] - Due)
                             /\ remaining' = [remaining EXCEPT ![i] = remaining[i] - Due]
                             /\ used' = used \cup {k \in {i} : remaining[k] = Due}
    BY <1>4 DEF PayPart
  <2>2. /\ NoFullMatch /\ i \in Candidates /\ Due < remaining[i]
        /\ Due \in Nat /\ remaining[i] \in Nat
    BY <1>0, <1>4, <2>1, AmountsPositive DEF Payable, PayPart
  <2>3. used' = used
    BY <2>1, <2>2
  <2> QED BY <1>0, <2>1, <2>2, <2>3 DEF PartStep
<1>5. CASE RaiseReview
  <2>1. PICK i \in Strongest : Decide({i}, "AMBIGUOUS", 0, Due) /\ UNCHANGED <<used, remaining>>
    BY <1>5 DEF RaiseReview
  <2>2. {i} \in SUBSET Invoice
    BY <1>0, <2>1 DEF Strongest
  <2>3. IdleStep({i}, "AMBIGUOUS")
    BY <1>5, <2>1, <2>2 DEF RaiseReview, IdleStep, Relations, Matched
  <2> QED BY <1>0, <2>2, <2>3
<1>6. CASE LeaveUnmatched
  <2>1. IdleStep({}, "NONE")
    BY <1>6 DEF LeaveUnmatched, IdleStep, Relations, Matched
  <2> QED BY <1>0, <2>1
<1> QED BY <1>1, <1>2, <1>3, <1>4, <1>5, <1>6
-----------------------------------------------------------------------------
(* One decision keeps the invariant                                           *)

\* What a decision may do to the accounts.
Sound(S, relation, applied, left) ==
  /\ remaining' \in [Invoice -> Nat] /\ used \subseteq used' /\ used' \subseteq Invoice
  /\ \A i \in Invoice : i \notin S \/ relation \notin Matched => remaining'[i] = remaining[i]
  /\ relation \in Matched => \A i \in S : i \notin used /\ remaining'[i] < invoice[i].amount
  /\ relation \in {"ONE_TO_ONE", "PARTIAL_PAYMENT"} =>
       \A i \in S : applied + left = remaining[i] /\ remaining'[i] = left
  /\ relation = "ONE_TO_MANY" => \A i \in S : remaining[i] = invoice[i].amount
  /\ relation \in {"ONE_TO_ONE", "ONE_TO_MANY"} => S \subseteq used'

LEMMA SoundStepKeepsLedger ==
  ASSUME LedgerInv, Turn <= Banks, NEW S \in SUBSET Invoice, NEW relation \in Relations,
         NEW applied \in Nat, NEW left \in Nat, Decide(S, relation, applied, left),
         Sound(S, relation, applied, left)
  PROVE  LedgerInv'
<1>0. PICK n \in Nat \ {0} : n = Turn
  BY LenProperties DEF LedgerInv, TypeOK, Turn
<1>1. /\ decisions' \in Seq(Decision) /\ Len(decisions') <= Banks /\ n \in Nat
      /\ Handled = 1 .. n - 1 /\ Handled' = 1 .. n
      /\ \A a \in 1 .. n - 1 : decisions'[a] = decisions[a]
      /\ decisions'[n] = [invoices |-> S, relation |-> relation, applied |-> applied, left |-> left]
      /\ bank' = bank /\ invoice' = invoice
  BY <1>0, DecideAppends DEF LedgerInv
<1>2. \A i : \A b \in 1 .. n - 1 :
        /\ Touches(b, i)' <=> Touches(b, i)
        /\ PaysPart(b, i)' <=> PaysPart(b, i)
        /\ Pays(b, i)' <=> Pays(b, i)
        /\ Settles(b, i)' <=> Settles(b, i)
  BY <1>1 DEF Touches, PaysPart, Pays, Settles
<1>3. \A i : /\ Touches(n, i)' <=> relation \in Matched /\ i \in S
             /\ PaysPart(n, i)' <=> relation = "PARTIAL_PAYMENT" /\ i \in S
             /\ Pays(n, i)' <=> relation \in {"ONE_TO_ONE", "PARTIAL_PAYMENT"} /\ i \in S
             /\ Settles(n, i)' <=> relation \in {"ONE_TO_ONE", "ONE_TO_MANY"} /\ i \in S
  BY <1>1 DEF Touches, PaysPart, Pays, Settles, Matched
<1>4. \A i \in Invoice : invoice[i].amount \in Nat /\ remaining[i] \in Nat
  BY AmountsPositive DEF LedgerInv
<1>5. TypeOK'
  BY <1>1 DEF LedgerInv, TypeOK, Sound
<1>6. UsedIsSettled'
  BY <1>1, <1>2, <1>3 DEF LedgerInv, UsedIsSettled, Sound
<1>7. TouchedIsPaid'
  <2> SUFFICES ASSUME NEW i \in Invoice, NEW b \in 1 .. n, Touches(b, i)'
               PROVE  remaining'[i] < invoice[i].amount
    BY <1>1 DEF TouchedIsPaid
  <2>1. CASE i \in S /\ relation \in Matched
    BY <2>1 DEF Sound
  <2>2. CASE ~(i \in S /\ relation \in Matched)
    <3>1. b \in 1 .. n - 1
      BY <1>1, <1>3, <2>2
    <3>2. remaining'[i] = remaining[i]
      BY <2>2 DEF Sound
    <3> QED BY <1>1, <1>2, <3>1, <3>2 DEF LedgerInv, TouchedIsPaid
  <2> QED BY <2>1, <2>2
<1>8. SettledOnce'
  <2> SUFFICES ASSUME NEW a \in 1 .. n, NEW b \in 1 .. n, NEW i \in Invoice, a < b,
                      Touches(a, i)', Touches(b, i)'
               PROVE  PaysPart(a, i)' /\ decisions'[b].relation # "ONE_TO_MANY"
    BY <1>1 DEF SettledOnce
  <2>1. a \in 1 .. n - 1
    BY <1>1
  <2>2. CASE b = n
    <3>1. i \notin used /\ remaining[i] < invoice[i].amount
      BY <1>1, <1>2, <1>3, <2>1, <2>2 DEF LedgerInv, TouchedIsPaid, Sound
    <3>2. ~Settles(a, i)
      BY <1>1, <2>1, <3>1 DEF LedgerInv, UsedIsSettled
    <3>3. PaysPart(a, i)'
      BY <1>2, <2>1, <3>2 DEF Settles
    <3>4. relation # "ONE_TO_MANY"
      BY <1>3, <1>4, <2>2, <3>1 DEF Sound
    <3> QED BY <1>1, <2>2, <3>3, <3>4
  <2>3. CASE b # n
    <3>1. b \in 1 .. n - 1
      BY <1>1, <2>3
    <3> QED BY <1>1, <1>2, <2>1, <3>1 DEF LedgerInv, SettledOnce
  <2> QED BY <2>2, <2>3
<1>9. AccountsBalance'
  <2> SUFFICES ASSUME NEW i \in Invoice
               PROVE  /\ \A b \in Payers(i)' :
                           /\ Opens(b, i)'
                           /\ IsLast(b, Payers(i)') => remaining'[i] = decisions'[b].left
                      /\ (\A b \in Handled' : ~Touches(b, i)') => remaining'[i] = invoice[i].amount
    BY <1>1 DEF AccountsBalance, IsLast
  <2>1. /\ \A b \in Payers(i) :
             /\ Opens(b, i)
             /\ IsLast(b, Payers(i)) => remaining[i] = decisions[b].left
        /\ (\A b \in Handled : ~Touches(b, i)) => remaining[i] = invoice[i].amount
    BY DEF LedgerInv, AccountsBalance
  <2>2. \A b : b \in Payers(i)' <=> b \in Payers(i) \/ (b = n /\ Pays(n, i)')
    <3>1. \A b : b \in Payers(i)' <=> b \in 1 .. n /\ Pays(b, i)'
      BY <1>1 DEF Payers
    <3>2. \A b : b \in Payers(i) <=> b \in 1 .. n - 1 /\ Pays(b, i)
      BY <1>1 DEF Payers
    <3>3. \A b : b \in 1 .. n <=> b \in 1 .. n - 1 \/ b = n
      OBVIOUS
    <3> QED BY <1>2, <3>1, <3>2, <3>3, Zenon
  <2>3. Payers(i) \subseteq 1 .. n - 1
    BY <1>1 DEF Payers
  <2>4. ASSUME NEW b \in Payers(i) PROVE Opens(b, i)'
    <3>1. {a \in Payers(i)' : a < b} = {a \in Payers(i) : a < b}
      BY <1>1, <2>2, <2>3
    <3>2. decisions'[b] = decisions[b] /\ \A a \in Payers(i) : decisions'[a] = decisions[a]
      BY <1>1, <2>3
    <3> QED BY <1>1, <2>1, <3>1, <3>2 DEF Opens, IsLast
  <2>5. CASE i \in S /\ relation \in {"ONE_TO_ONE", "PARTIAL_PAYMENT"}
    <3>1. Payers(i)' = Payers(i) \cup {n}
      BY <1>3, <2>2, <2>5
    <3>2. applied + left = remaining[i] /\ remaining'[i] = left /\ i \notin used
      BY <2>5 DEF Sound, Matched
    <3>3. {a \in Payers(i)' : a < n} = Payers(i)
      BY <1>1, <2>3, <3>1
    <3>4. Payers(i) = {} => remaining[i] = invoice[i].amount
      <4> SUFFICES ASSUME Payers(i) = {}, NEW b \in Handled, Touches(b, i) PROVE FALSE
        BY <2>1
      <4>1. ~PaysPart(b, i)
        BY DEF Payers, Pays
      <4>2. i \in used
        BY <4>1 DEF LedgerInv, UsedIsSettled, Settles
      <4> QED BY <3>2, <4>2
    <3>5. \A a \in Payers(i) : decisions'[a] = decisions[a]
      BY <1>1, <2>3
    <3>6. Opens(n, i)'
      BY <1>1, <2>1, <3>2, <3>3, <3>4, <3>5 DEF Opens, IsLast
    <3>7. ASSUME NEW b \in Payers(i)', IsLast(b, Payers(i)') PROVE remaining'[i] = decisions'[b].left
      <4>1. b = n
        <5>1. n \in Payers(i)' /\ (b \in Payers(i) \/ b = n)
          BY <3>1
        <5>2. n <= b
          BY <3>7, <5>1 DEF IsLast
        <5> QED BY <2>3, <5>1, <5>2
      <4> QED BY <1>1, <3>2, <4>1
    <3>8. Touches(n, i)' /\ n \in Handled'
      BY <1>1, <1>3, <2>5 DEF Matched
    <3> QED BY <2>4, <3>1, <3>6, <3>7, <3>8
  <2>6. CASE ~(i \in S /\ relation \in {"ONE_TO_ONE", "PARTIAL_PAYMENT"})
    <3>1. Payers(i)' = Payers(i)
      BY <1>3, <2>2, <2>6
    <3>2. CASE i \in S /\ relation = "ONE_TO_MANY"
      <4>1. remaining[i] = invoice[i].amount
        BY <3>2 DEF Sound
      <4>2. \A b \in Handled : ~Touches(b, i)
        BY <1>4, <4>1 DEF LedgerInv, TouchedIsPaid
      <4>3. Payers(i) = {}
        <5>1. \A b : Pays(b, i) => Touches(b, i)
          BY DEF Pays, Touches, PaysPart, Matched
        <5> QED BY <4>2, <5>1 DEF Payers
      <4>4. Touches(n, i)' /\ n \in Handled'
        BY <1>1, <1>3, <3>2 DEF Matched
      <4> QED BY <3>1, <4>3, <4>4
    <3>3. CASE ~(i \in S /\ relation = "ONE_TO_MANY")
      <4>1. remaining'[i] = remaining[i]
        BY <2>6, <3>3 DEF Sound, Matched
      <4>2. \A b \in Payers(i) : decisions'[b] = decisions[b]
        BY <1>1, <2>3
      <4>3. (\A b \in Handled' : ~Touches(b, i)') => \A b \in Handled : ~Touches(b, i)
        BY <1>1, <1>2
      <4> QED BY <2>1, <2>4, <3>1, <4>1, <4>2, <4>3 DEF IsLast
    <3> QED BY <3>2, <3>3
  <2> QED BY <2>5, <2>6
<1> QED BY <1>5, <1>6, <1>7, <1>8, <1>9 DEF LedgerInv
-----------------------------------------------------------------------------
(* The steps are sound                                                        *)

LEMMA SettleStepIsSound ==
  ASSUME LedgerInv, Turn <= Banks, NEW S \in SUBSET Invoice,
         NEW relation \in {"ONE_TO_ONE", "ONE_TO_MANY"}, SettleStep(S, relation)
  PROVE  LedgerInv'
<1>1. Due \in Nat \ {0} /\ \A i \in Invoice : invoice[i].amount \in Nat \ {0} /\ remaining[i] \in Nat
  BY AmountsPositive DEF LedgerInv
<1>2. relation \in Relations /\ Decide(S, relation, Due, 0) /\ 0 \in Nat
  BY DEF Relations, SettleStep, Settle
<1>3. \A i \in S : i \in Invoice \ used
  BY DEF SettleStep, Candidates
<1>4. /\ \A i \in S : remaining'[i] = 0 /\ i \in used'
      /\ \A i \in Invoice \ S : remaining'[i] = remaining[i]
      /\ remaining' \in [Invoice -> Nat] /\ used' = used \cup S
  BY <1>1 DEF SettleStep, Settle
<1>5. relation = "ONE_TO_ONE" => \A i \in S : remaining[i] = Due
  BY DEF SettleStep
<1>6. relation = "ONE_TO_MANY" => \A i \in S : remaining[i] = invoice[i].amount
  BY DEF SettleStep, Untouched
<1>7. Sound(S, relation, Due, 0)
  BY <1>1, <1>3, <1>4, <1>5, <1>6 DEF Sound, Matched, LedgerInv, TypeOK
<1> QED BY <1>1, <1>2, <1>7, SoundStepKeepsLedger

LEMMA PartStepIsSound ==
  ASSUME LedgerInv, Turn <= Banks, NEW i \in Invoice, PartStep(i)
  PROVE  LedgerInv'
<1>1. /\ Due \in Nat \ {0} /\ remaining[i] \in Nat /\ Due < remaining[i]
      /\ \A k \in Invoice : invoice[k].amount \in Nat \ {0} /\ remaining[k] \in Nat
  BY AmountsPositive DEF LedgerInv, PartStep
<1>2. /\ remaining[i] - Due \in Nat /\ Due + (remaining[i] - Due) = remaining[i]
      /\ remaining[i] - Due < remaining[i]
  BY <1>1
<1>3. remaining[i] <= invoice[i].amount
  <2>1. CASE \E b \in Handled : Touches(b, i)
    BY <1>1, <2>1 DEF LedgerInv, TouchedIsPaid
  <2>2. CASE \A b \in Handled : ~Touches(b, i)
    BY <1>1, <2>2 DEF LedgerInv, AccountsBalance
  <2> QED BY <2>1, <2>2
<1>4. /\ i \notin used /\ used' = used /\ used \subseteq Invoice
      /\ remaining' \in [Invoice -> Nat] /\ remaining'[i] = remaining[i] - Due
      /\ \A k \in Invoice \ {i} : remaining'[k] = remaining[k]
  BY <1>2 DEF PartStep, Candidates, LedgerInv, TypeOK
<1>5. remaining[i] - Due < invoice[i].amount
  BY <1>1, <1>2, <1>3
<1>6. Sound({i}, "PARTIAL_PAYMENT", Due, remaining[i] - Due)
  BY <1>2, <1>4, <1>5 DEF Sound, Matched
<1>7. Decide({i}, "PARTIAL_PAYMENT", Due, remaining[i] - Due)
  BY DEF PartStep
<1> QED BY <1>1, <1>2, <1>6, <1>7, SoundStepKeepsLedger DEF Relations

LEMMA IdleStepIsSound ==
  ASSUME LedgerInv, Turn <= Banks, NEW S \in SUBSET Invoice,
         NEW relation \in {"AMBIGUOUS", "NONE"}, IdleStep(S, relation)
  PROVE  LedgerInv'
<1>1. Due \in Nat
  BY AmountsPositive DEF LedgerInv
<1>2. Sound(S, relation, 0, Due)
  BY DEF IdleStep, Sound, Matched, LedgerInv, TypeOK
<1> QED BY <1>1, <1>2, SoundStepKeepsLedger DEF IdleStep, Relations

\* The inductive invariant: types, accounts, and what used and remaining say of the past.
THEOREM LedgerInvariance == Spec => []LedgerInv
<1>1. Init => LedgerInv
  <2> SUFFICES ASSUME Init PROVE LedgerInv
    OBVIOUS
  <2>1. Handled = {}
    BY DEF Init, Handled
  <2>2. decisions \in Seq(Decision) /\ Len(decisions) <= Banks
    BY EmptySeq, AdvancedAssumption DEF Init
  <2>3. \A i \in Invoice : invoice[i].amount \in Nat
    BY AdvancedAssumption DEF Init, Record
  <2>4. TypeOK
    BY <2>2, <2>3 DEF Init, TypeOK
  <2>5. AccountsBalance
    BY <2>1 DEF Init, AccountsBalance, Payers
  <2> QED BY <2>1, <2>4, <2>5 DEF LedgerInv, UsedIsSettled, TouchedIsPaid, SettledOnce
<1>2. LedgerInv /\ [Next]_vars => LedgerInv'
  <2> SUFFICES ASSUME LedgerInv, [Next]_vars PROVE LedgerInv'
    OBVIOUS
  <2>1. CASE Next
    BY <2>1, StepKinds, SettleStepIsSound, PartStepIsSound, IdleStepIsSound DEF LedgerInv
  <2>2. CASE UNCHANGED vars
    <3>1. /\ Handled' = Handled /\ bank' = bank /\ invoice' = invoice /\ decisions' = decisions
          /\ used' = used /\ remaining' = remaining
      BY <2>2 DEF vars, Handled
    <3> QED BY <3>1 DEF LedgerInv, TypeOK, UsedIsSettled, TouchedIsPaid, AccountsBalance,
                       SettledOnce, Payers, Opens, IsLast, Handled, Touches, Pays, PaysPart, Settles
  <2> QED BY <2>1, <2>2
<1> QED BY <1>1, <1>2, PTL DEF Spec

\* Type correctness of advanced matching, for any lists.
THEOREM AdvancedTypeCorrect == Spec => []TypeOK
<1>1. LedgerInv => TypeOK
  BY DEF LedgerInv
<1> QED BY <1>1, LedgerInvariance, PTL

\* The payments of each invoice add up to what the code records, for any lists.
THEOREM AccountsAlwaysBalance == Spec => []AccountsBalance
<1>1. LedgerInv => AccountsBalance
  BY DEF LedgerInv
<1> QED BY <1>1, LedgerInvariance, PTL

\* A settled invoice is never paid again, and a combination takes only untouched ones.
THEOREM InvoicesSettleOnce == Spec => []SettledOnce
<1>1. LedgerInv => SettledOnce
  BY DEF LedgerInv
<1> QED BY <1>1, LedgerInvariance, PTL
-----------------------------------------------------------------------------
(* Blocking loses no candidate                                                *)

\* Amounts that differ by no more than the size of a bucket lie in adjacent buckets.
LEMMA CloseAmountsShareBuckets ==
  ASSUME NEW x \in Nat, NEW y \in Nat, NEW size \in Nat \ {0}, Apart(x, y) <= size
  PROVE  Apart(x \div size, y \div size) <= 1
<1>1. /\ x \div size \in Nat /\ y \div size \in Nat
      /\ size * (x \div size) <= x /\ x < size * (x \div size) + size
      /\ size * (y \div size) <= y /\ y < size * (y \div size) + size
  BY SMTT(30)
<1> DEFINE p == x \div size
           q == y \div size
<1>2. p \in Nat /\ q \in Nat
  BY <1>1
<1>3. size * p <= x /\ x < size * p + size /\ size * q <= y /\ y < size * q + size
  BY <1>1
<1> HIDE DEF p, q
<1>4. x <= y + size /\ y <= x + size
  BY DEF Apart
<1>5. p < q + 2
  <2> SUFFICES ASSUME p >= q + 2 PROVE FALSE
    BY <1>2
  <2>1. size * p >= size * (q + 2) /\ size * (q + 2) = size * q + 2 * size
    BY <1>2, SMTT(30)
  <2>2. size * p \in Nat /\ size * q \in Nat
    BY <1>2
  <2> QED BY <1>3, <1>4, <2>1, <2>2
<1>6. q < p + 2
  <2> SUFFICES ASSUME q >= p + 2 PROVE FALSE
    BY <1>2
  <2>1. size * q >= size * (p + 2) /\ size * (p + 2) = size * p + 2 * size
    BY <1>2, SMTT(30)
  <2>2. size * p \in Nat /\ size * q \in Nat
    BY <1>2
  <2> QED BY <1>3, <1>4, <2>1, <2>2
<1>7. Apart(p, q) <= 1
  BY <1>2, <1>5, <1>6 DEF Apart
<1> QED BY <1>7 DEF p, q

\* Candidates are scored within 0 .. 100.
LEMMA ScoresAreBounded ==
  ASSUME TypeOK, Turn <= Banks, NEW i \in Candidates
  PROVE  i \in Nat /\ ScoreOf(Turn, i) \in 0 .. 100
<1>1. Turn \in 1 .. Banks /\ i \in Invoice
  BY LenProperties, AdvancedAssumption DEF TypeOK, Turn, Candidates
<1>2. bank[Turn] \in Record /\ invoice[i] \in Record
  BY <1>1, AdvancedAssumption DEF TypeOK
<1>3. EvidenceOf(Turn, i) \in Evidence
  BY <1>2 DEF EvidenceOf, Evidence, Record, Apart, Refers, SameNumber, Compatible
<1> QED BY <1>1, <1>3, ScoreType, AdvancedAssumption DEF ScoreOf, Invoice

\* The sort by score has a head.
LEMMA StrongestExists ==
  ASSUME TypeOK, Turn <= Banks, NEW k \in Candidates
  PROVE  \E i \in Strongest : ScoreOf(Turn, k) <= ScoreOf(Turn, i)
<1>1. \A i \in Candidates : i \in Nat /\ ScoreOf(Turn, i) \in 0 .. 100
  BY ScoresAreBounded
<1> DEFINE loss == [i \in Candidates |-> 100 - ScoreOf(Turn, i)]
           T == {i \in Candidates : \A j \in Candidates : loss[i] <= loss[j]}
           place == [i \in T |-> i]
<1>2. T # {}
  <2>1. \A i \in Candidates : loss[i] \in Nat
    BY <1>1
  <2> HIDE DEF loss
  <2> QED BY <2>1, LeastExists
<1>3. PICK i \in T : \A j \in T : i <= j
  <2>1. \A i \in T : place[i] \in Nat
    BY <1>1
  <2>2. \E i \in T : \A j \in T : place[i] <= place[j]
    <3> HIDE DEF place, T
    <3> QED BY <1>2, <2>1, LeastExists
  <2> QED BY <2>2
<1>4. i \in Candidates
  OBVIOUS
<1>5. \A j \in Candidates : ScoreOf(Turn, j) <= ScoreOf(Turn, i)
  BY <1>1
<1>6. \A j \in Candidates : ScoreOf(Turn, j) = ScoreOf(Turn, i) => j \in T
  BY <1>1
<1> HIDE DEF T
<1>7. i \in Strongest
  <2> SUFFICES ASSUME NEW j \in Candidates \ {i}
               PROVE  \/ ScoreOf(Turn, i) > ScoreOf(Turn, j)
                      \/ ScoreOf(Turn, i) = ScoreOf(Turn, j) /\ i < j
    BY <1>4 DEF Strongest
  <2>1. ScoreOf(Turn, j) = ScoreOf(Turn, i) => i <= j
    BY <1>3, <1>6
  <2> QED BY <1>1, <1>4, <1>5, <2>1
<1> QED BY <1>5, <1>7

\* Invoices are consumed by transactions that settle them only.
UsedWasSettled == \A i \in used : \E b \in Handled : Settles(b, i)

BlockingInv == LedgerInv /\ UsedWasSettled /\ UnmatchedHasNoCandidate

\* A transaction that is left unmatched had no candidate worth a review.
LEMMA NoCandidateLost ==
  ASSUME BlockingInv, Turn <= Banks, Tolerance <= BucketSize,
         \A i \in Strongest : ScoreOf(Turn, i) < ReviewAt,
         NEW i \in Invoice, FreeAt(Turn, i), Compatible(Turn, i), InWindow(Turn, i),
         CloseAmount(Turn, i)
  PROVE  ScoreOf(Turn, i) < ReviewAt
<1>1. Turn \in 1 .. Banks /\ Handled = 1 .. Turn - 1
  BY LenProperties, AdvancedAssumption DEF BlockingInv, LedgerInv, TypeOK, Turn, Handled
<1>2. i \notin used
  BY <1>1 DEF BlockingInv, UsedWasSettled, FreeAt
<1>3. bank[Turn].amount \in Nat /\ invoice[i].amount \in Nat
  BY AmountsPositive DEF BlockingInv, LedgerInv, Due
<1>4. Apart(bank[Turn].amount, invoice[i].amount) <= BucketSize
  BY <1>3, AdvancedAssumption DEF CloseAmount, Apart
<1>5. Buckets(Turn, i)
  BY <1>3, <1>4, CloseAmountsShareBuckets, AdvancedAssumption DEF Buckets
<1>6. i \in Candidates
  BY <1>2, <1>5 DEF Candidates, Indexed
<1>7. PICK k \in Strongest : ScoreOf(Turn, i) <= ScoreOf(Turn, k)
  BY <1>6, StrongestExists DEF BlockingInv, LedgerInv
<1>8. ScoreOf(Turn, k) < ReviewAt
  BY <1>7
<1>9. ScoreOf(Turn, i) \in Int /\ ScoreOf(Turn, k) \in Int /\ ReviewAt \in Int
  BY <1>6, <1>7, ScoresAreBounded, AdvancedAssumption DEF Strongest, BlockingInv, LedgerInv
<1> QED BY <1>7, <1>8, <1>9
\* Only a decision that settles consumes invoices.
LEMMA DecisionKeepsUsed ==
  ASSUME LedgerInv, UsedWasSettled, Turn <= Banks, NEW S \in SUBSET Invoice,
         NEW relation \in Relations, NEW applied \in Nat, NEW left \in Nat,
         Decide(S, relation, applied, left),
         used' \subseteq used \cup S,
         relation \notin {"ONE_TO_ONE", "ONE_TO_MANY"} => used' = used
  PROVE  UsedWasSettled'
<1>0. PICK n \in Nat \ {0} : n = Turn
  BY LenProperties DEF LedgerInv, TypeOK, Turn
<1>1. /\ Handled = 1 .. n - 1 /\ Handled' = 1 .. n
      /\ \A a \in 1 .. n - 1 : decisions'[a] = decisions[a]
      /\ decisions'[n] = [invoices |-> S, relation |-> relation, applied |-> applied, left |-> left]
  BY <1>0, DecideAppends DEF LedgerInv
<1>2. \A i : \A b \in 1 .. n - 1 : Settles(b, i)' <=> Settles(b, i)
  BY <1>1 DEF Settles, Touches, PaysPart
<1> SUFFICES ASSUME NEW i \in used' PROVE \E b \in 1 .. n : Settles(b, i)'
  BY <1>1 DEF UsedWasSettled
<1>3. CASE i \in used
  BY <1>1, <1>2, <1>3 DEF UsedWasSettled
<1>4. CASE i \notin used
  <2>1. i \in S /\ relation \in {"ONE_TO_ONE", "ONE_TO_MANY"}
    BY <1>4
  <2>2. Settles(n, i)'
    BY <1>1, <2>1 DEF Settles, Touches, PaysPart, Matched
  <2> QED BY <2>2
<1> QED BY <1>3, <1>4

\* ... and the next transaction left unmatched joins those without a candidate.
LEMMA DecisionKeepsBlocking ==
  ASSUME BlockingInv, LedgerInv', Turn <= Banks, Tolerance <= BucketSize, NEW S \in SUBSET Invoice,
         NEW relation \in Relations, NEW applied \in Nat, NEW left \in Nat,
         Decide(S, relation, applied, left),
         relation = "NONE" => \A i \in Strongest : ScoreOf(Turn, i) < ReviewAt,
         used' \subseteq used \cup S,
         relation \notin {"ONE_TO_ONE", "ONE_TO_MANY"} => used' = used
  PROVE  BlockingInv'
<1>0. PICK n \in Nat \ {0} : n = Turn
  BY LenProperties DEF BlockingInv, LedgerInv, TypeOK, Turn
<1>1. /\ Handled = 1 .. n - 1 /\ Handled' = 1 .. n
      /\ \A a \in 1 .. n - 1 : decisions'[a] = decisions[a]
      /\ decisions'[n] = [invoices |-> S, relation |-> relation, applied |-> applied, left |-> left]
      /\ bank' = bank /\ invoice' = invoice
  BY <1>0, DecideAppends DEF BlockingInv, LedgerInv
<1>2. \A i : \A b \in 1 .. n - 1 : Settles(b, i)' <=> Settles(b, i)
  BY <1>1 DEF Settles, Touches, PaysPart
<1>3. \A i : \A b \in 1 .. n : FreeAt(b, i)' <=> FreeAt(b, i)
  BY <1>2 DEF FreeAt
<1>4. \A b, i : /\ Compatible(b, i)' <=> Compatible(b, i)
                /\ InWindow(b, i)' <=> InWindow(b, i)
                /\ CloseAmount(b, i)' <=> CloseAmount(b, i)
                /\ ScoreOf(b, i)' = ScoreOf(b, i)
  BY <1>1 DEF Compatible, InWindow, CloseAmount, ScoreOf, EvidenceOf, Refers, SameNumber
<1>5. UsedWasSettled'
  BY DecisionKeepsUsed DEF BlockingInv
<1>6. UnmatchedHasNoCandidate'
  <2> SUFFICES ASSUME NEW b \in 1 .. n, decisions'[b].relation = "NONE", NEW i \in Invoice,
                      FreeAt(b, i), Compatible(b, i), InWindow(b, i), CloseAmount(b, i)
               PROVE  ScoreOf(b, i) < ReviewAt
    BY <1>1, <1>3, <1>4 DEF UnmatchedHasNoCandidate
  <2>1. CASE b = n
    BY <1>0, <1>1, <2>1, NoCandidateLost
  <2>2. CASE b # n
    BY <1>1, <2>2 DEF BlockingInv, UnmatchedHasNoCandidate
  <2> QED BY <2>1, <2>2
<1> QED BY <1>5, <1>6 DEF BlockingInv

\* As long as a bucket is at least as wide as the tolerance (100 and 25 in the code), no
\* open invoice of close amount that deserves a review is lost on a transaction.
THEOREM BlockingIsPermissive ==
  ASSUME Tolerance <= BucketSize
  PROVE  Spec => []UnmatchedHasNoCandidate
<1>1. Init => UsedWasSettled /\ UnmatchedHasNoCandidate
  BY DEF Init, UsedWasSettled, UnmatchedHasNoCandidate, Handled
<1>2. LedgerInv /\ LedgerInv' /\ UsedWasSettled /\ UnmatchedHasNoCandidate /\ [Next]_vars
        => UsedWasSettled' /\ UnmatchedHasNoCandidate'
  <2> SUFFICES ASSUME BlockingInv, LedgerInv', [Next]_vars PROVE BlockingInv'
    BY DEF BlockingInv
  <2>1. CASE Next
    <3>1. TypeOK /\ Turn <= Banks /\ Due \in Nat /\ \A i \in Invoice : remaining[i] \in Nat
      BY <2>1, AmountsPositive DEF Next, BlockingInv, LedgerInv
    <3>2. ASSUME NEW S \in SUBSET Invoice, NEW relation \in {"ONE_TO_ONE", "ONE_TO_MANY"},
                 SettleStep(S, relation)
          PROVE  BlockingInv'
      <4>1. Decide(S, relation, Due, 0) /\ used' = used \cup S /\ relation \in Relations
        BY <3>2 DEF SettleStep, Settle, Relations
      <4> QED BY <3>1, <4>1, DecisionKeepsBlocking
    <3>3. ASSUME NEW i \in Invoice, PartStep(i) PROVE BlockingInv'
      <4>1. /\ Decide({i}, "PARTIAL_PAYMENT", Due, remaining[i] - Due) /\ used' = used
            /\ remaining[i] - Due \in Nat /\ "PARTIAL_PAYMENT" \in Relations
        BY <3>1, <3>3 DEF PartStep, Relations
      <4> QED BY <3>1, <4>1, DecisionKeepsBlocking
    <3>4. ASSUME NEW S \in SUBSET Invoice, NEW relation \in {"AMBIGUOUS", "NONE"},
                 IdleStep(S, relation)
          PROVE  BlockingInv'
      <4>1. /\ Decide(S, relation, 0, Due) /\ used' = used /\ relation \in Relations
            /\ relation = "NONE" => \A i \in Strongest : ScoreOf(Turn, i) < ReviewAt
        BY <3>4 DEF IdleStep
      <4> QED BY <3>1, <4>1, DecisionKeepsBlocking
    <3> QED BY <2>1, <3>1, <3>2, <3>3, <3>4, StepKinds
  <2>2. CASE UNCHANGED vars
    BY <2>2 DEF vars, BlockingInv, UsedWasSettled, UnmatchedHasNoCandidate, Handled, Settles, Touches,
                PaysPart, FreeAt, Compatible, InWindow, CloseAmount, ScoreOf, EvidenceOf, Refers,
                SameNumber
  <2> QED BY <2>1, <2>2
<1> QED BY <1>1, <1>2, LedgerInvariance, PTL DEF Spec

-----------------------------------------------------------------------------
(* A combination that is there is found                                       *)

\* An open invoice with a word of the transaction's name is in the narrowed pool.
LEMMA NamedAreFocused ==
  ASSUME LedgerInv, UsedWasSettled, Turn <= Banks, NEW i \in Named(Turn)
  PROVE  i \in Focused
<1>1. Turn \in Nat /\ Handled = 1 .. Turn - 1
  BY LenProperties DEF LedgerInv, TypeOK, Turn, Handled
<1>2. i \in Invoice /\ \A b \in Handled : ~Touches(b, i)
  BY <1>1 DEF Named, UntouchedAt
<1>3. i \notin used
  BY <1>2 DEF UsedWasSettled, Settles
<1>4. remaining[i] = invoice[i].amount
  BY <1>2 DEF LedgerInv, AccountsBalance
<1> QED BY <1>2, <1>3, <1>4 DEF Named, Focused, Untouched, Candidates, Indexed

\* Two of them and the search runs, on exactly these invoices.
LEMMA NamedAreSearched ==
  ASSUME LedgerInv, UsedWasSettled, Turn <= Banks, Invoices <= MaxComplex,
         NEW i \in Named(Turn), NEW j \in Named(Turn), i # j
  PROVE  \A k \in Named(Turn) : k \in Pool
<1>1. IsFiniteSet(Invoice) /\ Cardinality(Invoice) = Invoices
  BY FS_Interval, AdvancedAssumption DEF Invoice
<1>2. Focused \subseteq Untouched /\ Untouched \subseteq Invoice
  BY DEF Focused, Untouched, Candidates
<1>3. /\ IsFiniteSet(Untouched) /\ Cardinality(Untouched) <= Invoices
      /\ IsFiniteSet(Focused)
  BY <1>1, <1>2, FS_Subset
<1>4. i \in Focused /\ j \in Focused
  BY NamedAreFocused
<1>5. Cardinality(Focused) >= 2
  BY <1>3, <1>4, TwoMembers
<1>6. Cardinality(Untouched) \in Nat /\ Cardinality(Untouched) >= 2
  BY <1>2, <1>3, <1>4, TwoMembers
<1>7. Pool = Focused
  BY <1>3, <1>5, <1>6, AdvancedAssumption DEF Pool
<1> QED BY <1>7, NamedAreFocused

\* Of two members of the pool one precedes the other.
LEMMA PoolIsOrdered ==
  ASSUME TypeOK, NEW i \in Pool, NEW j \in Pool, i # j
  PROVE  /\ \E p \in AllPairs : {p[1], p[2]} = {i, j}
         /\ \A p \in AllPairs : {p[1], p[2]} = {i, j}
              => PairSum(p) = invoice[i].amount + invoice[j].amount
<1>1. Pool \subseteq Invoice
  BY DEF Pool, Focused, Untouched, Candidates
<1>2. /\ i \in Nat /\ j \in Nat
      /\ invoice[i].amount \in Nat /\ invoice[j].amount \in Nat
  BY SMTT(20), <1>1, AdvancedAssumption DEF TypeOK, Invoice, Record
<1>3. Precedes(i, j) \/ Precedes(j, i)
  BY <1>2 DEF Precedes
<1>4. <<i, j>> \in AllPairs \/ <<j, i>> \in AllPairs
  BY <1>3 DEF AllPairs
<1>5. \E p \in AllPairs : {p[1], p[2]} = {i, j}
  <2>1. CASE <<i, j>> \in AllPairs
    <3>1. <<i, j>>[1] = i /\ <<i, j>>[2] = j
      OBVIOUS
    <3> QED BY <2>1, <3>1
  <2>2. CASE <<j, i>> \in AllPairs
    <3>1. <<j, i>>[1] = j /\ <<j, i>>[2] = i
      OBVIOUS
    <3> QED BY <2>2, <3>1
  <2> QED BY <1>4, <2>1, <2>2
<1>6. ASSUME NEW p \in AllPairs, {p[1], p[2]} = {i, j}
      PROVE  PairSum(p) = invoice[i].amount + invoice[j].amount
  <2>1. (p[1] = i /\ p[2] = j) \/ (p[1] = j /\ p[2] = i)
    BY <1>6
  <2> QED BY <1>2, <2>1 DEF PairSum
<1> QED BY <1>5, <1>6

\* A pair and a third that fit are in the search.
LEMMA FittingIsSearched ==
  ASSUME LedgerInv, UsedWasSettled, Turn <= Banks, Invoices <= MaxComplex,
         NEW i \in Named(Turn), NEW j \in Named(Turn), i # j
  PROVE  /\ MaxItems >= 2 /\ PairFits(Turn, i, j) => Pairs # {}
         /\ MaxItems >= 3 => \A k \in Named(Turn) :
              j # k /\ i # k /\ TripleFits(Turn, i, j, k) => Triples # {}
<1>1. TypeOK /\ i \in Pool /\ j \in Pool
  BY NamedAreSearched DEF LedgerInv
<1>2. PICK p \in AllPairs : {p[1], p[2]} = {i, j}
  BY <1>1, PoolIsOrdered
<1>3. PairSum(p) = invoice[i].amount + invoice[j].amount
  BY <1>1, <1>2, PoolIsOrdered
<1>4. ASSUME MaxItems >= 2, PairFits(Turn, i, j) PROVE p \in Pairs
  BY <1>2, <1>3, <1>4 DEF Pairs, PairFits, Due
<1>5. ASSUME MaxItems >= 3, NEW k \in Named(Turn), j # k, i # k, TripleFits(Turn, i, j, k)
      PROVE  <<k, p>> \in Triples
  <2>1. k \in Pool /\ k \notin {p[1], p[2]}
    BY <1>2, <1>5, NamedAreSearched
  <2>2. /\ invoice[i].amount \in Nat /\ invoice[j].amount \in Nat /\ invoice[k].amount \in Nat
    BY AdvancedAssumption DEF Named, LedgerInv, TypeOK, Record
  <2>3. invoice[k].amount + PairSum(p)
          = invoice[i].amount + invoice[j].amount + invoice[k].amount
    BY <1>3, <2>2
  <2>4. <<k, p>>[1] = k /\ <<k, p>>[2] = p /\ <<k, p>> \in Pool \X AllPairs
    BY <1>2, <2>1
  <2> QED BY <1>5, <2>1, <2>3, <2>4 DEF Triples, TripleFits, Due
<1> QED BY <1>4, <1>5

\* So a transaction that is not matched in full has none that fits.
LEMMA NoCombinationLost ==
  ASSUME LedgerInv, UsedWasSettled, Turn <= Banks, Invoices <= MaxComplex, NoFullMatch
  PROVE  Fitting(Turn) = {}
<1> SUFFICES ASSUME NEW S \in Fitting(Turn) PROVE FALSE
  OBVIOUS
<1>1. S \subseteq Named(Turn) /\ Pairs = {} /\ Triples = {}
  BY DEF Fitting, NoFullMatch
<1>2. CASE MaxItems >= 2 /\ \E i, j \in S : i # j /\ S = {i, j} /\ PairFits(Turn, i, j)
  BY <1>1, <1>2, FittingIsSearched
<1>3. CASE /\ MaxItems >= 3
           /\ \E i, j, k \in S : i # j /\ j # k /\ i # k /\ TripleFits(Turn, i, j, k)
  BY <1>1, <1>3, FittingIsSearched
<1> QED BY <1>2, <1>3 DEF Fitting

\* Where something fits, the pool has named invoices only.
LEMMA PoolIsNamed ==
  ASSUME LedgerInv, UsedWasSettled, Turn <= Banks, Invoices <= MaxComplex,
         Fitting(Turn) # {}
  PROVE  Pool \subseteq Named(Turn)
<1>1. PICK i \in Named(Turn), j \in Named(Turn) : i # j
  BY DEF Fitting
<1>2. Turn \in Nat /\ Handled = 1 .. Turn - 1
  BY LenProperties DEF LedgerInv, TypeOK, Turn, Handled
<1>3. Pool = Focused
  <2>1. IsFiniteSet(Invoice) /\ Cardinality(Invoice) = Invoices
    BY FS_Interval, AdvancedAssumption DEF Invoice
  <2>2. IsFiniteSet(Focused)
    <3>1. Focused \subseteq Invoice
      BY DEF Focused, Untouched, Candidates
    <3> QED BY <2>1, <3>1, FS_Subset
  <2>3. Cardinality(Focused) >= 2
    BY <1>1, <2>2, NamedAreFocused, TwoMembers
  <2>4. i \in Pool
    BY <1>1, NamedAreSearched
  <2> QED BY <2>3, <2>4 DEF Pool
<1>4. ASSUME NEW k \in Focused PROVE k \in Named(Turn)
  <2>1. /\ k \in Invoice /\ remaining[k] = invoice[k].amount
        /\ Compatible(Turn, k) /\ InWindow(Turn, k) /\ ShareToken(Turn, k)
    BY <1>4 DEF Focused, Untouched, Candidates
  <2>2. remaining[k] \in Nat
    BY <2>1 DEF LedgerInv, TypeOK
  <2>3. \A b \in Handled : ~Touches(b, k)
    BY <2>1, <2>2 DEF LedgerInv, TouchedIsPaid
  <2>4. UntouchedAt(Turn, k)
    BY <1>2, <2>3 DEF UntouchedAt
  <2> QED BY <2>1, <2>4 DEF Named
<1> QED BY <1>3, <1>4

\* ... and what is found is one that fits.
LEMMA FoundFits ==
  ASSUME LedgerInv, UsedWasSettled, Turn <= Banks, Invoices <= MaxComplex,
         Fitting(Turn) # {}, NEW S \in SUBSET Invoice, Found(S)
  PROVE  S \in Fitting(Turn)
<1>1. TypeOK /\ Pool \subseteq Named(Turn)
  BY PoolIsNamed DEF LedgerInv
<1>2. \A i \in Named(Turn) : i \in Nat /\ invoice[i].amount \in Nat
  BY AdvancedAssumption DEF Named, Invoice, LedgerInv, TypeOK, Record
<1>3. ASSUME NEW p \in AllPairs
      PROVE  p[1] \in Named(Turn) /\ p[2] \in Named(Turn) /\ p[1] # p[2]
  <2>1. p[1] \in Pool /\ p[2] \in Pool /\ Precedes(p[1], p[2])
    BY DEF AllPairs
  <2> QED BY <1>1, <1>2, <2>1 DEF Precedes
<1>4. ASSUME NEW p \in Pairs, S = {p[1], p[2]} PROVE S \in Fitting(Turn)
  <2>1. p \in AllPairs /\ MaxItems >= 2 /\ Apart(PairSum(p), Due) <= Tolerance
    BY <1>4 DEF Pairs
  <2>2. PairFits(Turn, p[1], p[2])
    BY <2>1 DEF PairFits, PairSum, Due
  <2> QED BY <1>3, <1>4, <2>1, <2>2 DEF Fitting
<1>5. ASSUME NEW t \in Triples, S = {t[1], t[2][1], t[2][2]} PROVE S \in Fitting(Turn)
  <2> DEFINE k == t[1]
             p == t[2]
  <2>1. /\ k \in Pool /\ p \in AllPairs /\ MaxItems >= 3 /\ k \notin {p[1], p[2]}
        /\ Apart(invoice[k].amount + PairSum(p), Due) <= Tolerance
    BY <1>5 DEF Triples
  <2>2. k \in Named(Turn) /\ p[1] \in Named(Turn) /\ p[2] \in Named(Turn) /\ p[1] # p[2]
    BY <1>1, <1>3, <2>1
  <2>3. invoice[k].amount + PairSum(p)
          = invoice[p[1]].amount + invoice[p[2]].amount + invoice[k].amount
    BY <1>2, <2>2 DEF PairSum
  <2>4. TripleFits(Turn, p[1], p[2], k)
    BY <2>1, <2>3 DEF TripleFits, Due
  <2>5. S = {p[1], p[2], k}
    BY <1>5
  <2> HIDE DEF k, p
  <2> QED BY <2>1, <2>2, <2>4, <2>5 DEF Fitting
<1> QED BY <1>4, <1>5 DEF Found

TakesWhatFits(b) ==
  \A S \in Fitting(b) :
    Fitting(b) = {S} /\ Invoices <= MaxComplex =>
      \/ decisions[b].relation = "ONE_TO_ONE"
      \/ decisions[b].relation = "ONE_TO_MANY" /\ decisions[b].invoices = S

SearchInv == LedgerInv /\ UsedWasSettled /\ UnambiguousCombinationIsTaken

\* A decision leaves the earlier ones as they are, and itself takes what alone fits.
LEMMA DecisionKeepsSearch ==
  ASSUME SearchInv, LedgerInv', Turn <= Banks, NEW S \in SUBSET Invoice,
         NEW relation \in Relations, NEW applied \in Nat, NEW left \in Nat,
         Decide(S, relation, applied, left),
         used' \subseteq used \cup S,
         relation = "ONE_TO_MANY" => Found(S),
         relation \notin {"ONE_TO_ONE", "ONE_TO_MANY"} => used' = used /\ NoFullMatch
  PROVE  SearchInv'
<1>0. PICK n \in Nat \ {0} : n = Turn
  BY LenProperties DEF SearchInv, LedgerInv, TypeOK, Turn
<1>1. /\ Handled = 1 .. n - 1 /\ Handled' = 1 .. n
      /\ \A a \in 1 .. n - 1 : decisions'[a] = decisions[a]
      /\ decisions'[n] = [invoices |-> S, relation |-> relation, applied |-> applied, left |-> left]
      /\ bank' = bank /\ invoice' = invoice
  BY <1>0, DecideAppends DEF SearchInv, LedgerInv
<1>2. UsedWasSettled'
  BY DecisionKeepsUsed DEF SearchInv
<1>3. \A b \in 1 .. n : \A i : UntouchedAt(b, i)' <=> UntouchedAt(b, i)
  BY <1>1 DEF UntouchedAt, Touches
<1>4. \A b, i : /\ Compatible(b, i)' <=> Compatible(b, i)
                /\ InWindow(b, i)' <=> InWindow(b, i)
                /\ ShareToken(b, i)' <=> ShareToken(b, i)
  BY <1>1 DEF Compatible, InWindow, ShareToken
<1>5. \A b \in 1 .. n : Named(b)' = Named(b)
  BY <1>3, <1>4 DEF Named
<1>6. \A b, i, j, k : /\ PairFits(b, i, j)' <=> PairFits(b, i, j)
                      /\ TripleFits(b, i, j, k)' <=> TripleFits(b, i, j, k)
  BY <1>1 DEF PairFits, TripleFits
<1>7. ASSUME NEW b \in 1 .. n PROVE Fitting(b)' = Fitting(b)
  <2>1. Named(b)' = Named(b)
    BY <1>5
  <2>2. /\ \A i, j : PairFits(b, i, j)' <=> PairFits(b, i, j)
        /\ \A i, j, k : TripleFits(b, i, j, k)' <=> TripleFits(b, i, j, k)
    BY <1>6
  <2> QED BY <2>1, <2>2 DEF Fitting
<1>8. UnambiguousCombinationIsTaken'
  <2>1. \A b \in Handled : TakesWhatFits(b)
    BY DEF SearchInv, UnambiguousCombinationIsTaken, TakesWhatFits
  <2>2. ASSUME NEW b \in 1 .. n PROVE TakesWhatFits(b)'
    <3>1. Fitting(b)' = Fitting(b)
      BY <1>7
    <3>2. CASE b # n
      <4>1. decisions'[b] = decisions[b] /\ TakesWhatFits(b)
        BY <1>1, <2>1, <3>2
      <4> QED BY <3>1, <4>1 DEF TakesWhatFits
    <3>3. CASE b = n
      <4> SUFFICES ASSUME NEW T \in Fitting(b), Fitting(b) = {T}, Invoices <= MaxComplex
                   PROVE  \/ decisions'[b].relation = "ONE_TO_ONE"
                          \/ decisions'[b].relation = "ONE_TO_MANY" /\ decisions'[b].invoices = T
        BY <3>1 DEF TakesWhatFits
      <4>1. Fitting(Turn) = {T}
        BY <1>0, <3>3
      <4>2. relation \in {"ONE_TO_ONE", "ONE_TO_MANY"}
        BY <4>1, NoCombinationLost DEF SearchInv
      <4>3. relation = "ONE_TO_MANY" => S = T
        BY <4>1, FoundFits DEF SearchInv
      <4> QED BY <1>1, <3>3, <4>2, <4>3
    <3> QED BY <3>2, <3>3
  <2> QED BY <1>1, <2>2 DEF UnambiguousCombinationIsTaken, TakesWhatFits
<1> QED BY <1>2, <1>8 DEF SearchInv

(* With no more invoices than the search admits, a transaction to which exactly *)
(* one combination of untouched invoices with a word of its name adds up is     *)
(* matched with that combination, or exactly with one invoice, for any lists:   *)
(* the index, the narrowed pool and the search order neither hide it nor put    *)
(* another in its place.                                                        *)
THEOREM UnambiguousAreTaken == Spec => []UnambiguousCombinationIsTaken
<1>1. Init => UsedWasSettled /\ UnambiguousCombinationIsTaken
  BY DEF Init, UsedWasSettled, UnambiguousCombinationIsTaken, Handled
<1>2. LedgerInv /\ LedgerInv' /\ UsedWasSettled /\ UnambiguousCombinationIsTaken /\ [Next]_vars
        => UsedWasSettled' /\ UnambiguousCombinationIsTaken'
  <2> SUFFICES ASSUME SearchInv, LedgerInv', [Next]_vars PROVE SearchInv'
    BY DEF SearchInv
  <2>1. CASE Next
    <3>1. TypeOK /\ Turn <= Banks /\ Due \in Nat /\ \A i \in Invoice : remaining[i] \in Nat
      BY <2>1, AmountsPositive DEF Next, SearchInv, LedgerInv
    <3>2. ASSUME NEW S \in SUBSET Invoice, NEW relation \in {"ONE_TO_ONE", "ONE_TO_MANY"},
                 SettleStep(S, relation)
          PROVE  SearchInv'
      <4>1. /\ Decide(S, relation, Due, 0) /\ used' = used \cup S /\ relation \in Relations
            /\ relation = "ONE_TO_MANY" => Found(S)
        BY <3>2 DEF SettleStep, Settle, Relations
      <4> QED BY <3>1, <4>1, DecisionKeepsSearch
    <3>3. ASSUME NEW i \in Invoice, PartStep(i) PROVE SearchInv'
      <4>1. /\ Decide({i}, "PARTIAL_PAYMENT", Due, remaining[i] - Due) /\ used' = used
            /\ remaining[i] - Due \in Nat /\ "PARTIAL_PAYMENT" \in Relations /\ NoFullMatch
        BY <3>1, <3>3 DEF PartStep, Relations
      <4> QED BY <3>1, <4>1, DecisionKeepsSearch
    <3>4. ASSUME NEW S \in SUBSET Invoice, NEW relation \in {"AMBIGUOUS", "NONE"},
                 IdleStep(S, relation)
          PROVE  SearchInv'
      <4>1. /\ Decide(S, relation, 0, Due) /\ used' = used /\ relation \in Relations
            /\ NoFullMatch
        BY <3>4 DEF IdleStep
      <4> QED BY <3>1, <4>1, DecisionKeepsSearch
    <3> QED BY <2>1, <3>1, <3>2, <3>3, <3>4, StepKinds
  <2>2. CASE UNCHANGED vars
    <3>1. /\ Handled' = Handled /\ decisions' = decisions /\ used' = used
          /\ bank' = bank /\ invoice' = invoice
      BY <2>2 DEF vars, Handled
    <3>2. ASSUME NEW b \in Handled PROVE Fitting(b)' = Fitting(b)
      <4>1. Named(b)' = Named(b)
        BY <3>1 DEF Named, UntouchedAt, Touches, Compatible, InWindow, ShareToken
      <4>2. /\ \A i, j : PairFits(b, i, j)' <=> PairFits(b, i, j)
            /\ \A i, j, k : TripleFits(b, i, j, k)' <=> TripleFits(b, i, j, k)
        BY <3>1 DEF PairFits, TripleFits
      <4> QED BY <4>1, <4>2 DEF Fitting
    <3>3. ASSUME NEW b \in Handled PROVE TakesWhatFits(b)'
      <4>1. Fitting(b)' = Fitting(b) /\ TakesWhatFits(b)
        BY <3>2 DEF SearchInv, UnambiguousCombinationIsTaken, TakesWhatFits
      <4> QED BY <3>1, <4>1 DEF TakesWhatFits
    <3>4. UnambiguousCombinationIsTaken'
      BY <3>1, <3>3 DEF UnambiguousCombinationIsTaken, TakesWhatFits
    <3>5. UsedWasSettled'
      BY <3>1 DEF SearchInv, UsedWasSettled, Settles, Touches, PaysPart
    <3> QED BY <3>4, <3>5 DEF SearchInv
  <2> QED BY <2>1, <2>2
<1> QED BY <1>1, <1>2, LedgerInvariance, PTL DEF Spec
==============================================================================
