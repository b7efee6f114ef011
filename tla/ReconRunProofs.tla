--------------------------- MODULE ReconRunProofs ---------------------------
(***************************************************************************)
(* A whole run, for files of any length and any number of attempts and     *)
(* faults: what the engine promises survives that a task starts over, and   *)
(* what is derived from its decisions is right.                            *)
(***************************************************************************)
EXTENDS ReconRun, RankProofs, SequenceTheorems

\* Scores are at most 100.
LEMMA ScoreType ==
  ASSUME NEW e \in Evidence
  PROVE  Score(e) \in 0 .. 100 /\ e.amount \in Nat /\ e.days \in Nat
BY DEF Score, Total, AmountPoints, DatePoints, Points, Evidence

-----------------------------------------------------------------------------
(* The head of the sorted candidate list exists.                              *)

\* The sort has a first element, and it is one of the candidates.
LEMMA BestExists ==
  ASSUME TypeOK, Bank <= Banks, NEW S \in SUBSET Invoice, S # {}
  PROVE  /\ Best(S) \in S
         /\ \A k \in S \ {Best(S)} :
              Stronger(Ev(Best(S)), Ev(k)) \/ (Tied(Ev(Best(S)), Ev(k)) /\ Best(S) < k)
<1>1. \A i \in S : i \in Nat /\ Ev(i) \in Evidence
  <2>1. Bank \in 1 .. Banks
    BY LenProperties, EngineAssumption DEF TypeOK, Bank
  <2> QED BY <2>1, EngineAssumption DEF TypeOK, Ev, Invoice
<1>2. \A i \in S : Score(Ev(i)) \in 0 .. 100 /\ Ev(i).amount \in Nat /\ Ev(i).days \in Nat
  BY <1>1, ScoreType
<1> DEFINE loss == [i \in S |-> 100 - Score(Ev(i))]
           T == {i \in S : \A k \in S : loss[i] <= loss[k]}
           amount == [i \in T |-> Ev(i).amount]
           U == {i \in T : \A k \in T : amount[i] <= amount[k]}
           days == [i \in U |-> Ev(i).days]
           V == {i \in U : \A k \in U : days[i] <= days[k]}
           place == [i \in V |-> i]
<1>3. T # {}
  <2>1. \A i \in S : loss[i] \in Nat
    BY <1>2
  <2> HIDE DEF loss
  <2> QED BY <2>1, LeastExists
<1>4. U # {}
  <2>1. \A i \in T : amount[i] \in Nat
    BY <1>2
  <2> HIDE DEF amount, T
  <2> QED BY <1>3, <2>1, LeastExists
<1>5. V # {}
  <2>1. \A i \in U : days[i] \in Nat
    BY <1>2
  <2> HIDE DEF days, U
  <2> QED BY <1>4, <2>1, LeastExists
<1>6. PICK i \in V : \A k \in V : i <= k
  <2>1. \A i \in V : place[i] \in Nat
    BY <1>1
  <2>2. \E i \in V : \A k \in V : place[i] <= place[k]
    <3> HIDE DEF place, V
    <3> QED BY <1>5, <2>1, LeastExists
  <2> QED BY <2>2
<1>7. ASSUME NEW k \in S \ {i}
      PROVE  Stronger(Ev(i), Ev(k)) \/ (Tied(Ev(i), Ev(k)) /\ i < k)
  <2>1. Score(Ev(i)) >= Score(Ev(k))
    BY <1>2
  <2>2. Score(Ev(i)) = Score(Ev(k)) => k \in T
    BY <1>2
  <2>3. k \in T => Ev(i).amount <= Ev(k).amount
    OBVIOUS
  <2>4. k \in T /\ Ev(i).amount = Ev(k).amount => k \in U
    OBVIOUS
  <2>5. k \in U => Ev(i).days <= Ev(k).days
    OBVIOUS
  <2>6. k \in U /\ Ev(i).days = Ev(k).days => k \in V
    OBVIOUS
  <2>7. k \in V => i < k
    <3>1. i \in Nat /\ k \in Nat /\ i # k
      BY <1>1
    <3>2. k \in V => i <= k
      BY <1>6
    <3> HIDE DEF V
    <3> QED BY <3>1, <3>2
  <2> HIDE DEF T, U, V
  <2>8. /\ Score(Ev(i)) \in Nat /\ Score(Ev(k)) \in Nat /\ Ev(i).amount \in Nat
        /\ Ev(k).amount \in Nat /\ Ev(i).days \in Nat /\ Ev(k).days \in Nat
    <3>1. i \in S
      BY DEF T, U, V
    <3> QED BY <1>2, <3>1
  <2> QED BY <2>1, <2>2, <2>3, <2>4, <2>5, <2>6, <2>7, <2>8 DEF Stronger, Tied
<1>8. i \in S
  OBVIOUS
<1> HIDE DEF V
<1> QED BY <1>7, <1>8 DEF Best

-----------------------------------------------------------------------------
(* The invariant: used is what the decisions so far have matched.             *)

UsedIsMatched == \A i \in Invoice : invoiceId[i] \in used <=> MatchedBefore(Bank, i)

EngineInv == TypeOK /\ UsedIsMatched

\* One decision is appended; those before it stand.
LEMMA DecideAppends ==
  ASSUME TypeOK, Bank <= Banks, NEW x \in Invoice \cup {None}, NEW st \in Statuses,
         NEW tier \in Tiers, Decide(x, st, tier)
  PROVE  /\ decisions' \in Seq(Decision) /\ Len(decisions') <= Banks
         /\ Bank \in Nat /\ Bank' = Bank + 1
         /\ DOMAIN decisions = 1 .. Bank - 1 /\ DOMAIN decisions' = 1 .. Bank
         /\ \A a \in 1 .. Bank - 1 : decisions'[a] = decisions[a]
         /\ decisions'[Bank] = [invoice |-> x, status |-> st, tier |-> tier]
         /\ evidence' = evidence /\ invoiceId' = invoiceId
<1>1. decisions \in Seq(Decision) /\ Len(decisions) \in Nat /\ DOMAIN decisions = 1 .. Len(decisions)
  BY LenProperties DEF TypeOK
<1>2. [invoice |-> x, status |-> st, tier |-> tier] \in Decision
  BY DEF Decision
<1>3. decisions' = Append(decisions, [invoice |-> x, status |-> st, tier |-> tier])
  BY DEF Decide
<1>4. /\ decisions' \in Seq(Decision) /\ Len(decisions') = Len(decisions) + 1
      /\ \A a \in 1 .. Len(decisions) : decisions'[a] = decisions[a]
      /\ decisions'[Len(decisions) + 1] = [invoice |-> x, status |-> st, tier |-> tier]
  BY <1>1, <1>2, <1>3, AppendProperties
<1>5. DOMAIN decisions' = 1 .. Len(decisions')
  BY <1>4, LenProperties
<1> QED BY <1>1, <1>4, <1>5, EngineAssumption DEF Bank, Decide

\* What each branch of the loop decides, and on which evidence.
Choice(x, st, tier) ==
  \/ /\ x = Best(Exact) /\ st = "MATCHED" /\ tier = "DETERMINISTIC"
     /\ Exact # {} /\ Rivals(Exact) = {} /\ used' = used \cup {invoiceId[x]}
  \/ /\ x = Best(Fuzzy) /\ st = "MATCHED" /\ tier = "FUZZY"
     /\ Exact = {} /\ Referenced = {} /\ Fuzzy # {} /\ used' = used \cup {invoiceId[x]}
  \/ /\ st = "UNMATCHED" /\ tier = "NONE" /\ Exact = {} /\ Referenced = {} /\ used' = used
  \/ /\ st = "REVIEW" /\ tier # "DETERMINISTIC" /\ used' = used
     /\ Exact = {} \/ Rivals(Exact) # {}
     /\ x = None \/ x \in Referenced \/ x \in Fuzzy

LEMMA NextDecides ==
  ASSUME TypeOK, Next
  PROVE  /\ Bank <= Banks
         /\ \E x \in Invoice \cup {None}, st \in Statuses, tier \in Tiers :
              Decide(x, st, tier) /\ Choice(x, st, tier) /\ (st = "MATCHED" => x \in Free)
<1>1. Bank <= Banks
  BY DEF Next
<1>2. Exact \subseteq Free /\ Referenced \subseteq Free /\ Fuzzy \subseteq Free /\ Free \subseteq Invoice
  BY DEF Exact, Referenced, Fuzzy, Free
<1>3. /\ Exact # {} => Best(Exact) \in Exact
      /\ Referenced # {} => Best(Referenced) \in Referenced
      /\ Fuzzy # {} => Best(Fuzzy) \in Fuzzy
  BY <1>1, <1>2, BestExists
<1> USE <1>1, <1>2, <1>3 DEF Choice, Statuses, Tiers
<1> HIDE DEF Exact, Referenced, Fuzzy, Free, Best, Decide
<1>4. CASE MatchExact
  BY <1>4 DEF MatchExact
<1>5. CASE RaiseAmbiguous
  BY <1>5 DEF RaiseAmbiguous
<1>6. CASE RaiseException
  BY <1>6 DEF RaiseException
<1>7. CASE MatchFuzzy
  BY <1>7 DEF MatchFuzzy
<1>8. CASE ReviewFuzzy
  BY <1>8 DEF ReviewFuzzy
<1>9. CASE LeaveUnmatched
  BY <1>9 DEF LeaveUnmatched
<1> QED BY <1>4, <1>5, <1>6, <1>7, <1>8, <1>9 DEF Next

LEMMA EngineStep ==
  ASSUME EngineInv, [Next]_vars
  PROVE  EngineInv'
<1> USE DEF EngineInv
<1>1. CASE UNCHANGED vars
  BY <1>1 DEF vars, TypeOK, UsedIsMatched, MatchedBefore, IsMatched, Bank
<1>2. CASE Next
  <2>1. Bank <= Banks
    BY <1>2, NextDecides
  <2>2. PICK x \in Invoice \cup {None}, st \in Statuses, tier \in Tiers :
          Decide(x, st, tier) /\ Choice(x, st, tier) /\ (st = "MATCHED" => x \in Free)
    BY <1>2, NextDecides
  <2>3. /\ decisions' \in Seq(Decision) /\ Len(decisions') <= Banks
        /\ Bank \in Nat /\ Bank' = Bank + 1 /\ evidence' = evidence /\ invoiceId' = invoiceId
        /\ \A a \in 1 .. Bank - 1 : decisions'[a] = decisions[a]
        /\ decisions'[Bank] = [invoice |-> x, status |-> st, tier |-> tier]
    BY <2>1, <2>2, DecideAppends
  <2>4. used' = IF st = "MATCHED" THEN used \cup {invoiceId[x]} ELSE used
    BY <2>2 DEF Choice
  <2>5. TypeOK'
    <3>1. st = "MATCHED" => invoiceId[x] \in Nat
      BY <2>2, EngineAssumption DEF Free, TypeOK
    <3> QED BY <2>3, <2>4, <3>1 DEF TypeOK
  <2>6. ASSUME NEW i \in Invoice PROVE invoiceId[i] \in used' <=> MatchedBefore(Bank, i)'
    <3> DEFINE Settles(row) == row.status = "MATCHED" /\ invoiceId[row.invoice] = invoiceId[i]
    <3>1. MatchedBefore(Bank, i)' <=> \E a \in 1 .. Bank' - 1 : Settles(decisions'[a])
      BY <2>3 DEF MatchedBefore, IsMatched
    <3>2. 1 .. Bank' - 1 = (1 .. Bank - 1) \cup {Bank}
      BY <2>3, EngineAssumption DEF Bank
    <3>3. Settles(decisions'[Bank]) <=> (invoiceId[x] = invoiceId[i] /\ st = "MATCHED")
      BY <2>3
    <3>4. (\E a \in 1 .. Bank - 1 : Settles(decisions'[a])) <=> MatchedBefore(Bank, i)
      BY <2>3 DEF MatchedBefore, IsMatched
    <3>5. MatchedBefore(Bank, i)' <=> MatchedBefore(Bank, i) \/ (invoiceId[x] = invoiceId[i] /\ st = "MATCHED")
      <4> HIDE DEF Settles
      <4> QED BY <3>1, <3>2, <3>3, <3>4
    <3>6. invoiceId' = invoiceId
      BY <2>3
    <3>7. invoiceId[i] \in used <=> MatchedBefore(Bank, i)
      BY DEF UsedIsMatched
    <3> HIDE DEF MatchedBefore, Settles
    <3> QED BY <2>4, <3>5, <3>6, <3>7
  <2> QED BY <2>3, <2>5, <2>6 DEF UsedIsMatched
<1> QED BY <1>1, <1>2

(* At every step the set of used invoices is exactly what has been matched.    *)
THEOREM EngineInvariance == Spec => []EngineInv
<1>1. Init => EngineInv
  BY EngineAssumption DEF Init, EngineInv, TypeOK, UsedIsMatched, MatchedBefore, IsMatched, Bank
<1> QED BY <1>1, EngineStep, PTL DEF Spec

\* Well-typedness for files of any length.
THEOREM EngineTypeCorrect == Spec => []TypeOK
<1>1. EngineInv => TypeOK
  BY DEF EngineInv
<1> QED BY <1>1, EngineInvariance, PTL

-----------------------------------------------------------------------------
(* What the engine promises.                                                  *)

\* A step of the loop, seen from the decisions that stand and the one that is new.
NewDecision(n, x, st, tier) ==
  /\ n = Bank /\ n \notin Handled /\ Handled' = Handled \cup {n}
  /\ evidence' = evidence /\ invoiceId' = invoiceId
  /\ \A a \in Handled : decisions'[a] = decisions[a]
  /\ decisions'[n] = [invoice |-> x, status |-> st, tier |-> tier]
  /\ \A b \in Handled \cup {n}, i \in Invoice : MatchedBefore(b, i)' <=> MatchedBefore(b, i)
  /\ \A i \in Invoice : invoiceId[i] \in used <=> MatchedBefore(n, i)
  /\ Choice(x, st, tier) /\ (st = "MATCHED" => x \in Free)

LEMMA OneMore ==
  ASSUME EngineInv, Next
  PROVE  \E n \in Nat, x \in Invoice \cup {None}, st \in Statuses, tier \in Tiers :
           NewDecision(n, x, st, tier)
<1> USE DEF EngineInv
<1>1. Bank <= Banks
  BY NextDecides
<1>2. PICK x \in Invoice \cup {None}, st \in Statuses, tier \in Tiers :
        Decide(x, st, tier) /\ Choice(x, st, tier) /\ (st = "MATCHED" => x \in Free)
  BY NextDecides
<1>3. PICK n \in Nat : n = Bank
  BY <1>1, <1>2, DecideAppends
<1>4. /\ DOMAIN decisions = 1 .. n - 1 /\ DOMAIN decisions' = 1 .. n /\ evidence' = evidence /\ invoiceId' = invoiceId
      /\ \A a \in 1 .. n - 1 : decisions'[a] = decisions[a]
      /\ decisions'[n] = [invoice |-> x, status |-> st, tier |-> tier]
  BY <1>1, <1>2, <1>3, DecideAppends
<1>5. n \notin 1 .. n - 1 /\ 1 .. n = (1 .. n - 1) \cup {n}
  <2>1. n >= 1
    BY <1>3, LenProperties DEF Bank, TypeOK
  <2> QED BY <2>1
<1>6. ASSUME NEW b \in 1 .. n, NEW i \in Invoice
      PROVE  MatchedBefore(b, i)' <=> MatchedBefore(b, i)
  <2>1. \A a \in 1 .. b - 1 : a \in 1 .. n - 1
    OBVIOUS
  <2> QED BY <1>4, <2>1 DEF MatchedBefore, IsMatched
<1>7. \A i \in Invoice : invoiceId[i] \in used <=> MatchedBefore(n, i)
  BY <1>3 DEF UsedIsMatched
<1> QED BY <1>2, <1>3, <1>4, <1>5, <1>6, <1>7 DEF NewDecision, Handled

LEMMA MatchOnceStep ==
  ASSUME EngineInv, NoInvoiceMatchedTwice, [Next]_vars
  PROVE  NoInvoiceMatchedTwice'
<1>1. CASE UNCHANGED vars
  BY <1>1 DEF vars, NoInvoiceMatchedTwice, Handled, IsMatched
<1>2. CASE Next
  <2>1. PICK n \in Nat, x \in Invoice \cup {None}, st \in Statuses, tier \in Tiers :
          NewDecision(n, x, st, tier)
    BY <1>2, OneMore
  <2>2. ASSUME NEW a \in Handled, decisions[a].status = "MATCHED", st = "MATCHED"
        PROVE  invoiceId[decisions[a].invoice] # invoiceId[x]
    <3>1. a \in 1 .. n - 1 /\ x \in Invoice /\ invoiceId[x] \notin used
      BY <1>2, <2>1, <2>2, LenProperties DEF NewDecision, Handled, EngineInv, TypeOK, Bank, Free
    <3> QED BY <2>1, <2>2, <3>1 DEF NewDecision, MatchedBefore, IsMatched
  <2> QED BY <1>2, <2>1, <2>2 DEF NewDecision, NoInvoiceMatchedTwice, IsMatched
<1> QED BY <1>1, <1>2

(* No invoice is settled by two bank transactions, whatever the evidence and   *)
(* in whichever order the files list them.                                     *)
THEOREM InvoicesMatchOnce == Spec => []NoInvoiceMatchedTwice
<1>1. Init => NoInvoiceMatchedTwice
  BY DEF Init, NoInvoiceMatchedTwice, Handled
<1> QED BY <1>1, MatchOnceStep, EngineInvariance, PTL DEF Spec

LEMMA NoReferenceStep ==
  ASSUME EngineInv, UnmatchedHasNoReference, [Next]_vars
  PROVE  UnmatchedHasNoReference'
<1>1. CASE UNCHANGED vars
  BY <1>1 DEF vars, UnmatchedHasNoReference, Handled, MatchedBefore, IsMatched
<1>2. CASE Next
  <2>1. PICK n \in Nat, x \in Invoice \cup {None}, st \in Statuses, tier \in Tiers :
          NewDecision(n, x, st, tier)
    BY <1>2, OneMore
  <2>2. ASSUME st = "UNMATCHED", NEW i \in Invoice, evidence[<<n, i>>].ref
        PROVE  MatchedBefore(n, i)
    BY <2>1, <2>2 DEF NewDecision, Choice, Referenced, Free, Ev
  <2> QED BY <1>2, <2>1, <2>2 DEF NewDecision, UnmatchedHasNoReference
<1> QED BY <1>1, <1>2

(* An unmatched transaction leaves no unclaimed invoice with its reference.    *)
THEOREM NoReferenceLeftBehind == Spec => []UnmatchedHasNoReference
<1>1. Init => UnmatchedHasNoReference
  BY DEF Init, UnmatchedHasNoReference, Handled
<1> QED BY <1>1, NoReferenceStep, EngineInvariance, PTL DEF Spec

LEMMA UnambiguousStep ==
  ASSUME EngineInv, DeterministicIsUnambiguous, [Next]_vars
  PROVE  DeterministicIsUnambiguous'
<1>1. CASE UNCHANGED vars
  BY <1>1 DEF vars, DeterministicIsUnambiguous, Handled, MatchedBefore, IsMatched
<1>2. CASE Next
  <2>1. PICK n \in Nat, x \in Invoice \cup {None}, st \in Statuses, tier \in Tiers :
          NewDecision(n, x, st, tier)
    BY <1>2, OneMore
  <2>2. ASSUME tier = "DETERMINISTIC", NEW i \in Invoice \ {x}, IsExact(evidence[<<n, i>>])
        PROVE  Stronger(evidence[<<n, x>>], evidence[<<n, i>>]) \/ MatchedBefore(n, i)
    <3>1. x = Best(Exact) /\ Exact # {} /\ Rivals(Exact) = {}
      BY <2>1, <2>2 DEF NewDecision, Choice
    <3>2. CASE invoiceId[i] \in used
      BY <2>1, <3>2 DEF NewDecision
    <3>3. CASE invoiceId[i] \notin used
      <4>1. i \in Exact \ {Best(Exact)}
        BY <2>1, <2>2, <3>1, <3>3 DEF NewDecision, Exact, Free, Ev
      <4>2. Bank <= Banks /\ Exact \subseteq Invoice
        BY <1>2, NextDecides DEF EngineInv, Exact, Free
      <4>3. \/ Stronger(Ev(x), Ev(i))
            \/ Tied(Ev(x), Ev(i))
        BY <1>2, <3>1, <4>1, <4>2, BestExists DEF EngineInv
      <4>4. ~Tied(Ev(i), Ev(x))
        BY <3>1, <4>1 DEF Rivals
      <4> QED BY <2>1, <4>3, <4>4 DEF NewDecision, Tied, Ev
    <3> QED BY <3>2, <3>3
  <2> QED BY <1>2, <2>1, <2>2 DEF NewDecision, DeterministicIsUnambiguous
<1> QED BY <1>1, <1>2

(* A deterministic match was the single strongest exact invoice still free.    *)
THEOREM DeterministicMatchesUnambiguous == Spec => []DeterministicIsUnambiguous
<1>1. Init => DeterministicIsUnambiguous
  BY DEF Init, DeterministicIsUnambiguous, Handled
<1> QED BY <1>1, UnambiguousStep, EngineInvariance, PTL DEF Spec

LEMMA ReferencesStep ==
  ASSUME EngineInv, ReferenceConflictIsReviewed, [Next]_vars
  PROVE  ReferenceConflictIsReviewed'
<1>1. CASE UNCHANGED vars
  BY <1>1 DEF vars, ReferenceConflictIsReviewed, Handled, MatchedBefore, IsMatched
<1>2. CASE Next
  <2>1. PICK n \in Nat, x \in Invoice \cup {None}, st \in Statuses, tier \in Tiers :
          NewDecision(n, x, st, tier)
    BY <1>2, OneMore
  <2>2. ASSUME st = "MATCHED", NEW i \in Invoice, evidence[<<n, i>>].ref
        PROVE  MatchedBefore(n, i) \/ IsExact(evidence[<<n, x>>])
    <3>1. CASE x = Best(Exact) /\ Exact # {}
      <4>1. Best(Exact) \in Exact
        BY <1>2, <3>1, NextDecides, BestExists DEF EngineInv, Exact, Free
      <4> QED BY <2>1, <3>1, <4>1 DEF NewDecision, Exact, Ev
    <3>2. CASE Referenced = {}
      BY <2>1, <2>2, <3>2 DEF NewDecision, Referenced, Free, Ev
    <3> QED BY <2>1, <2>2, <3>1, <3>2 DEF NewDecision, Choice
  <2> QED BY <1>2, <2>1, <2>2 DEF NewDecision, ReferenceConflictIsReviewed, IsMatched
<1> QED BY <1>1, <1>2

(* A match never passes over an unclaimed invoice with the same reference,     *)
(* unless it rests on reference, amount and date itself.                       *)
THEOREM ReferenceConflictsReviewed == Spec => []ReferenceConflictIsReviewed
<1>1. Init => ReferenceConflictIsReviewed
  BY DEF Init, ReferenceConflictIsReviewed, Handled
<1> QED BY <1>1, ReferencesStep, EngineInvariance, PTL DEF Spec

\* What is matched in the deterministic tier agrees exactly.
MatchesHaveTiers ==
  \A b \in Handled : IsMatched(b) =>
    \/ decisions[b].tier = "FUZZY"
    \/ decisions[b].tier = "DETERMINISTIC" /\ IsExact(evidence[<<b, decisions[b].invoice>>])

LEMMA TiersStep ==
  ASSUME EngineInv, MatchesHaveTiers, [Next]_vars
  PROVE  MatchesHaveTiers'
<1>1. CASE UNCHANGED vars
  BY <1>1 DEF vars, MatchesHaveTiers, Handled, IsMatched
<1>2. CASE Next
  <2>1. PICK n \in Nat, x \in Invoice \cup {None}, st \in Statuses, tier \in Tiers :
          NewDecision(n, x, st, tier)
    BY <1>2, OneMore
  <2>2. ASSUME st = "MATCHED", tier # "FUZZY"
        PROVE  tier = "DETERMINISTIC" /\ IsExact(evidence[<<n, x>>])
    <3>1. x = Best(Exact) /\ Exact # {} /\ tier = "DETERMINISTIC"
      BY <2>1, <2>2 DEF NewDecision, Choice
    <3>2. Best(Exact) \in Exact
      BY <1>2, <3>1, NextDecides, BestExists DEF EngineInv, Exact, Free
    <3> QED BY <2>1, <3>1, <3>2 DEF NewDecision, Exact, Ev
  <2> QED BY <1>2, <2>1, <2>2 DEF NewDecision, MatchesHaveTiers, IsMatched
<1> QED BY <1>1, <1>2

LEMMA ExclusiveStep ==
  ASSUME EngineInv, MatchesHaveTiers, ExclusivePairsAreMatched, [Next]_vars
  PROVE  ExclusivePairsAreMatched'
<1>1. CASE UNCHANGED vars
  BY <1>1 DEF vars, ExclusivePairsAreMatched, TakenFrom, Handled, IsMatched
<1>2. CASE Next
  <2>1. PICK n \in Nat, x \in Invoice \cup {None}, st \in Statuses, tier \in Tiers :
          NewDecision(n, x, st, tier)
    BY <1>2, OneMore
  <2>2. ASSUME NEW i \in Invoice, IsExact(evidence[<<n, i>>]),
               \A k \in Invoice \ {i} : ~evidence[<<n, k>>].ref,
               \A a \in (1 .. Banks) \ {n} : ~evidence[<<a, i>>].ref
        PROVE  TakenFrom(n, i) \/ (x = i /\ st = "MATCHED")
    <3>1. CASE MatchedBefore(n, i)
      <4>1. PICK a \in 1 .. n - 1 : IsMatched(a) /\ invoiceId[decisions[a].invoice] = invoiceId[i]
        BY <3>1 DEF MatchedBefore
      <4>2. a \in Handled /\ a \in (1 .. Banks) \ {n}
        BY <1>2, <2>1, <4>1, LenProperties, EngineAssumption
           DEF NewDecision, Handled, EngineInv, TypeOK, Bank
      <4>3. decisions[a].tier = "FUZZY" \/ IsExact(evidence[<<a, decisions[a].invoice>>])
        BY <4>1, <4>2 DEF MatchesHaveTiers
      <4> QED BY <2>2, <4>1, <4>2, <4>3 DEF TakenFrom, IsExact
    <3>2. CASE ~MatchedBefore(n, i)
      <4>1. i \in Exact
        BY <2>1, <2>2, <3>2 DEF NewDecision, Exact, Free, Ev
      <4>2. \A k \in Exact : k = i
        BY <2>1, <2>2 DEF NewDecision, Exact, Free, Ev, IsExact
      <4>3. Best(Exact) = i
        BY <1>2, <4>1, <4>2, NextDecides, BestExists DEF EngineInv, Exact, Free
      <4>4. Rivals(Exact) = {}
        BY <4>2, <4>3 DEF Rivals
      <4> QED BY <2>1, <4>1, <4>3, <4>4 DEF NewDecision, Choice
    <3> QED BY <3>1, <3>2
  <2>3. ASSUME NEW b \in Handled \cup {n}, NEW i \in Invoice
        PROVE  TakenFrom(b, i)' <=> TakenFrom(b, i)
    <3>1. \A a \in 1 .. b - 1 : a \in Handled
      BY <1>2, <2>1, LenProperties DEF NewDecision, Handled, EngineInv, TypeOK, Bank
    <3> QED BY <2>1, <3>1 DEF NewDecision, TakenFrom, IsMatched
  <2>4. ASSUME NEW b \in Handled, NEW i \in Invoice,
               IsExact(evidence'[<<b, i>>]),
               \A k \in Invoice \ {i} : ~evidence'[<<b, k>>].ref,
               \A a \in (1 .. Banks) \ {b} : ~evidence'[<<a, i>>].ref
        PROVE  TakenFrom(b, i)' \/ (decisions'[b].invoice = i /\ IsMatched(b)')
    BY <1>2, <2>1, <2>3, <2>4 DEF NewDecision, ExclusivePairsAreMatched, IsMatched
  <2>5. ASSUME NEW i \in Invoice,
               IsExact(evidence'[<<n, i>>]),
               \A k \in Invoice \ {i} : ~evidence'[<<n, k>>].ref,
               \A a \in (1 .. Banks) \ {n} : ~evidence'[<<a, i>>].ref
        PROVE  TakenFrom(n, i)' \/ (decisions'[n].invoice = i /\ IsMatched(n)')
    BY <2>1, <2>2, <2>3, <2>5 DEF NewDecision, IsMatched
  <2>6. Handled' = Handled \cup {n}
    BY <2>1 DEF NewDecision
  <2> QED BY <2>4, <2>5, <2>6 DEF ExclusivePairsAreMatched, IsExact
<1> QED BY <1>1, <1>2

(* A transaction and an invoice that agree exactly and refer to nobody else    *)
(* are matched with each other, wherever they stand in the files, unless a     *)
(* fuzzy match or a namesake took the invoice first.                           *)
THEOREM ExclusivePairsMatched == Spec => []ExclusivePairsAreMatched
<1>1. Init => MatchesHaveTiers /\ ExclusivePairsAreMatched
  BY DEF Init, MatchesHaveTiers, ExclusivePairsAreMatched, Handled
<1> QED BY <1>1, TiersStep, ExclusiveStep, EngineInvariance, PTL DEF Spec

-----------------------------------------------------------------------------
(* The run around the engine.                                                 *)

\* A review without a reference is within the amount the fuzzy tier allows.
ReviewsAreClose ==
  \A b \in Handled : decisions[b].status = "REVIEW" =>
    LET i == decisions[b].invoice IN
    i = None \/ evidence[<<b, i>>].ref \/ evidence[<<b, i>>].amount <= NearAmount

EngineSafe ==
  /\ EngineInv /\ MatchesHaveTiers /\ ReviewsAreClose
  /\ NoInvoiceMatchedTwice /\ UnmatchedHasNoReference /\ DeterministicIsUnambiguous
  /\ ReferenceConflictIsReviewed /\ ExclusivePairsAreMatched

\* Once an attempt is past the engine, every transaction has its decision.
WalkIsOver ==
  phase \in {"scored", "advised", "saved", "counted", "listed", "done"} =>
    Len(decisions) = Banks

AdviceIsFinite == IsFiniteSet(DOMAIN advice)

RunInv == RunTypeOK /\ EngineSafe /\ WalkIsOver /\ AdviceIsFinite

-----------------------------------------------------------------------------
(* The engine inside the run.                                                 *)

LEMMA CloseStep ==
  ASSUME EngineInv, ReviewsAreClose, [Next]_vars
  PROVE  ReviewsAreClose'
<1>1. CASE UNCHANGED vars
  BY <1>1 DEF vars, ReviewsAreClose, Handled
<1>2. CASE Next
  <2>1. PICK n \in Nat, x \in Invoice \cup {None}, st \in Statuses, tier \in Tiers :
          NewDecision(n, x, st, tier)
    BY <1>2, OneMore
  <2>2. ASSUME st = "REVIEW", x # None
        PROVE  evidence[<<n, x>>].ref \/ evidence[<<n, x>>].amount <= NearAmount
    <3>1. x \in Referenced \/ x \in Fuzzy
      BY <2>1, <2>2 DEF NewDecision, Choice
    <3> QED BY <2>1, <3>1 DEF NewDecision, Referenced, Fuzzy, IsFuzzy, Ev
  <2> QED BY <1>2, <2>1, <2>2 DEF NewDecision, ReviewsAreClose
<1> QED BY <1>1, <1>2

\* Seen from the engine, an attempt walks on, stands still or starts over.
LEMMA EngineMoves ==
  ASSUME [RunNext]_runVars
  PROVE  \/ [Next]_vars
         \/ decisions' = <<>> /\ used' = {} /\ evidence' = evidence /\ invoiceId' = invoiceId
BY DEF RunNext, runVars, given, walk, vars, Walk, Evaluate, Advise, SaveCases, CountRun,
   SaveResults, SaveReport, Raises, CountFailure, Dies, Restart

LEMMA FreshWalk ==
  ASSUME /\ evidence' \in [(1 .. Banks) \X Invoice -> Evidences] /\ invoiceId' \in InvoiceIds
         /\ decisions' = <<>> /\ used' = {}
  PROVE  EngineSafe'
<1>1. Handled' = {} /\ Bank' = 1 /\ 1 .. Bank' - 1 = {}
  BY DEF Handled, Bank
<1>2. EngineInv'
  BY <1>1, EngineAssumption DEF EngineInv, TypeOK, UsedIsMatched, MatchedBefore
<1> QED BY <1>1, <1>2 DEF EngineSafe, MatchesHaveTiers, ReviewsAreClose, NoInvoiceMatchedTwice,
     UnmatchedHasNoReference, DeterministicIsUnambiguous, ReferenceConflictIsReviewed,
     ExclusivePairsAreMatched

LEMMA FreshWalkFirst ==
  ASSUME /\ evidence \in [(1 .. Banks) \X Invoice -> Evidences] /\ invoiceId \in InvoiceIds
         /\ decisions = <<>> /\ used = {}
  PROVE  EngineSafe
<1>1. Handled = {} /\ Bank = 1 /\ 1 .. Bank - 1 = {}
  BY DEF Handled, Bank
<1>2. EngineInv
  BY <1>1, EngineAssumption DEF EngineInv, TypeOK, UsedIsMatched, MatchedBefore
<1> QED BY <1>1, <1>2 DEF EngineSafe, MatchesHaveTiers, ReviewsAreClose, NoInvoiceMatchedTwice,
     UnmatchedHasNoReference, DeterministicIsUnambiguous, ReferenceConflictIsReviewed,
     ExclusivePairsAreMatched

LEMMA EngineSafeStep ==
  ASSUME EngineSafe, [RunNext]_runVars
  PROVE  EngineSafe'
<1>1. CASE [Next]_vars
  BY <1>1, EngineStep, TiersStep, CloseStep, MatchOnceStep, NoReferenceStep, UnambiguousStep,
     ReferencesStep, ExclusiveStep DEF EngineSafe
<1>2. CASE decisions' = <<>> /\ used' = {} /\ evidence' = evidence /\ invoiceId' = invoiceId
  BY <1>2, FreshWalk DEF EngineSafe, EngineInv, TypeOK
<1> QED BY <1>1, <1>2, EngineMoves

-----------------------------------------------------------------------------
(* Counting decisions.                                                        *)

LEMMA StatusesPartition ==
  ASSUME TypeOK
  PROVE  /\ \A s \in Statuses : IsFiniteSet(With(s)) /\ Cardinality(With(s)) \in Nat
         /\ Cardinality(With("MATCHED")) + Cardinality(With("REVIEW"))
              + Cardinality(With("UNMATCHED")) = Len(decisions)
<1>1. decisions \in Seq(Decision) /\ Len(decisions) \in Nat /\ Handled = 1 .. Len(decisions)
  BY LenProperties DEF TypeOK, Handled
<1>2. IsFiniteSet(Handled) /\ Cardinality(Handled) = Len(decisions)
  BY SMTT(20), <1>1, FS_Interval
<1>3. \A s \in Statuses : IsFiniteSet(With(s)) /\ Cardinality(With(s)) \in Nat
  <2> SUFFICES ASSUME NEW s \in Statuses
               PROVE  IsFiniteSet(With(s)) /\ Cardinality(With(s)) \in Nat
    OBVIOUS
  <2>1. With(s) \in SUBSET Handled
    BY DEF With
  <2>2. IsFiniteSet(With(s))
    BY <1>2, <2>1, FS_Subset
  <2> QED BY <2>2, FS_CardinalityType
<1> DEFINE M == With("MATCHED")
           R == With("REVIEW")
           U == With("UNMATCHED")
<1>4. /\ IsFiniteSet(M) /\ IsFiniteSet(R) /\ IsFiniteSet(U)
      /\ Cardinality(M) \in Nat /\ Cardinality(R) \in Nat /\ Cardinality(U) \in Nat
  <2>1. "MATCHED" \in Statuses /\ "REVIEW" \in Statuses /\ "UNMATCHED" \in Statuses
    BY DEF Statuses
  <2> HIDE DEF With
  <2> QED BY <1>3, <2>1
<1>5. Handled = (M \cup R) \cup U
  <2>1. \A b \in Handled : decisions[b] \in Decision
    BY <1>1
  <2>2. \A b \in Handled : decisions[b].status \in {"MATCHED", "REVIEW", "UNMATCHED"}
    BY <2>1 DEF Decision, Statuses
  <2> QED BY <2>2 DEF With
<1>6. M \cap R = {} /\ (M \cup R) \cap U = {}
  BY DEF With
<1> HIDE DEF M, R, U
<1>7. /\ Cardinality(M \cup R) = Cardinality(M) + Cardinality(R)
      /\ Cardinality((M \cup R) \cup U) = Cardinality(M \cup R) + Cardinality(U)
  <2>1. IsFiniteSet(M \cup R)
    BY <1>4, <1>6, DisjointUnion
  <2> QED BY <1>4, <1>6, <2>1, DisjointUnion
<1>8. Cardinality(M) + Cardinality(R) + Cardinality(U) = Len(decisions)
  BY <1>2, <1>4, <1>5, <1>7
<1> QED BY <1>3, <1>8 DEF M, R, U

LEMMA IdsFinite ==
  ASSUME NEW B, IsFiniteSet(B)
  PROVE  IsFiniteSet(IdsOf(B))
<1> DEFINE f == [b \in B |-> bankId[b]]
<1>1. f \in Surjection(B, IdsOf(B))
  BY DEF Surjection, IdsOf
<1> HIDE DEF f
<1> QED BY <1>1, FS_Surjection

\* The last review of a bank id is one of the reviews.
LEMMA LastExists ==
  ASSUME TypeOK, NEW id \in IdsOf(With("REVIEW"))
  PROVE  LastReview(id) \in With("REVIEW") /\ bankId[LastReview(id)] = id
<1> DEFINE S == {b \in With("REVIEW") : bankId[b] = id}
           f == [b \in S |-> Len(decisions) - b]
<1>1. S # {}
  BY DEF IdsOf
<1>2. Len(decisions) \in Nat /\ \A b \in S : b \in 1 .. Len(decisions)
  BY LenProperties DEF TypeOK, Handled, With
<1>3. \E b \in S : \A a \in S : f[b] <= f[a]
  <2>1. \A b \in S : f[b] \in Nat
    BY <1>2
  <2> HIDE DEF S, f
  <2> QED BY <1>1, <2>1, LeastExists
<1>4. PICK b \in S : \A a \in S : a <= b
  <2>1. \A a, b \in S : f[b] <= f[a] => a <= b
    BY <1>2
  <2> HIDE DEF S, f
  <2> QED BY <1>3, <2>1
<1> QED BY <1>4 DEF LastReview

\* The first decision on a bank id is one of the decisions.
LEMMA FirstExists ==
  ASSUME TypeOK, NEW id \in IdsOf(Handled)
  PROVE  First(id) \in Handled /\ bankId[First(id)] = id
<1> DEFINE S == {b \in Handled : bankId[b] = id}
           f == [b \in S |-> b]
<1>1. S # {}
  BY DEF IdsOf
<1>2. \A b \in S : f[b] \in Nat
  BY LenProperties DEF TypeOK, Handled
<1>3. \E b \in S : \A a \in S : f[b] <= f[a]
  <2> HIDE DEF S, f
  <2> QED BY <1>1, <1>2, LeastExists
<1> QED BY <1>3 DEF First

-----------------------------------------------------------------------------
(* The invariant.                                                             *)

\* An attempt that has its decisions counts every transaction once.
LEMMA CountRunAdds ==
  ASSUME RunTypeOK, WalkIsOver, AdviceIsFinite, CountRun
  PROVE  /\ counters' \in [Counter -> Nat]
         /\ counters'["runs"] = counters["runs"] + 1
         /\ counters'["failures"] = counters["failures"]
         /\ counters'["MATCHED"] + counters'["REVIEW"] + counters'["UNMATCHED"]
              = counters["MATCHED"] + counters["REVIEW"] + counters["UNMATCHED"] + Banks
<1> DEFINE m == Cardinality(With("MATCHED"))
           r == Cardinality(With("REVIEW"))
           u == Cardinality(With("UNMATCHED"))
           a == Cardinality(DOMAIN advice)
<1>1. m \in Nat /\ r \in Nat /\ u \in Nat /\ a \in Nat /\ m + r + u = Banks
  <2>1. Len(decisions) = Banks
    BY DEF CountRun, WalkIsOver
  <2>2. a \in Nat
    BY FS_CardinalityType DEF AdviceIsFinite
  <2>3. "MATCHED" \in Statuses /\ "REVIEW" \in Statuses /\ "UNMATCHED" \in Statuses
    BY DEF Statuses
  <2> QED BY <2>1, <2>2, <2>3, StatusesPartition DEF RunTypeOK
<1>2. /\ Summary.reviewed = a /\ Summary.status["MATCHED"] = m
      /\ Summary.status["REVIEW"] = r /\ Summary.status["UNMATCHED"] = u
  BY DEF Summary, Statuses
<1>3. counters' = [c \in Counter |-> counters[c] +
                    CASE c = "runs" -> 1 [] c = "failures" -> 0
                      [] c = "reviewed" -> Summary.reviewed [] OTHER -> Summary.status[c]]
  BY DEF CountRun
<1>4. Counter = {"runs", "failures", "reviewed", "MATCHED", "REVIEW", "UNMATCHED"}
  BY DEF Counter, Statuses
<1> HIDE DEF m, r, u, a
<1>5. /\ counters'["runs"] = counters["runs"] + 1
      /\ counters'["failures"] = counters["failures"] + 0
      /\ counters'["reviewed"] = counters["reviewed"] + a
      /\ counters'["MATCHED"] = counters["MATCHED"] + m
      /\ counters'["REVIEW"] = counters["REVIEW"] + r
      /\ counters'["UNMATCHED"] = counters["UNMATCHED"] + u
  BY <1>2, <1>3, <1>4
<1>6. \A c \in Counter : counters[c] \in Nat
  BY DEF RunTypeOK
<1>7. \A c \in Counter : counters'[c] \in Nat
  BY <1>1, <1>4, <1>5, <1>6
<1>8. counters' \in [Counter -> Nat]
  BY <1>3, <1>7
<1> QED BY <1>1, <1>4, <1>5, <1>6, <1>8

LEMMA RunTypeStep ==
  ASSUME RunInv, [RunNext]_runVars
  PROVE  RunTypeOK' /\ AdviceIsFinite'
<1> USE DEF RunInv
<1>0. TypeOK' /\ mode' = mode /\ bankId' = bankId /\ truth' = truth
  <2>1. TypeOK'
    BY EngineSafeStep DEF EngineSafe, EngineInv
  <2> QED BY <2>1 DEF RunNext, runVars, given, Walk, Evaluate, Advise, SaveCases, CountRun,
       SaveResults, SaveReport, Raises, CountFailure, Dies, Restart
<1> DEFINE Keeps == UNCHANGED <<advice, counters, results, attempts, faults>>
<1>1. CASE UNCHANGED runVars
  BY <1>0, <1>1 DEF runVars, locals, kept, RunTypeOK, AdviceIsFinite
<1>2. CASE Walk
  BY <1>0, <1>2 DEF Walk, locals, kept, RunTypeOK, AdviceIsFinite
<1>3. CASE Evaluate \/ SaveCases \/ SaveReport
  BY <1>0, <1>3 DEF Evaluate, SaveCases, SaveReport, locals, kept, RunTypeOK, AdviceIsFinite, Phases
<1>4. CASE Advise
  <2>1. PICK reply \in [With("REVIEW") -> Recommendations] :
          advice' = [id \in IdsOf(With("REVIEW")) |->
                       Validated(reply[LastReview(id)], LastReview(id))]
    BY <1>4 DEF Advise
  <2>2. IsFiniteSet(With("REVIEW"))
    BY StatusesPartition DEF RunTypeOK, Statuses
  <2>3. IsFiniteSet(DOMAIN advice')
    BY <2>1, <2>2, IdsFinite
  <2>4. ASSUME NEW id \in IdsOf(With("REVIEW")) PROVE LastReview(id) \in With("REVIEW")
    BY <1>4, <2>4, LastExists DEF RunTypeOK
  <2>5. \A id \in DOMAIN advice' : advice'[id] \in Recommendations
    BY <2>1, <2>4 DEF Validated, Recommendations
  <2> QED BY <1>0, <1>4, <2>3, <2>5 DEF Advise, kept, RunTypeOK, AdviceIsFinite, Phases
<1>5. CASE CountRun
  BY <1>0, <1>5, CountRunAdds DEF CountRun, locals, RunTypeOK, AdviceIsFinite, Phases
<1>6. CASE SaveResults
  <2>1. \A b \in Handled : decisions[b] \in Decision
    BY DEF RunTypeOK, TypeOK, Handled
  <2>2. ASSUME NEW id \in DOMAIN results' PROVE results'[id] \in Decision
    <3>1. CASE id \in DOMAIN results
      BY <1>6, <2>2, <3>1 DEF SaveResults, RunTypeOK
    <3>2. CASE id \notin DOMAIN results
      <4>1. id \in IdsOf(Handled) /\ results'[id] = decisions[First(id)]
        BY <1>6, <2>2, <3>2 DEF SaveResults
      <4> QED BY <2>1, <4>1, FirstExists DEF RunTypeOK
    <3> QED BY <3>1, <3>2
  <2> QED BY <1>0, <1>6, <2>2 DEF SaveResults, locals, RunTypeOK, AdviceIsFinite, Phases
<1>7. CASE Raises
  BY <1>0, <1>7, RunAssumption DEF Raises, FailedPhase, locals, kept, RunTypeOK, AdviceIsFinite, Phases
<1>8. CASE CountFailure
  <2>1. counters' \in [Counter -> Nat]
    <3>1. "runs" \in Counter /\ "failures" \in Counter /\ counters \in [Counter -> Nat]
      BY DEF Counter, RunTypeOK
    <3> QED BY <1>8, <3>1 DEF CountFailure
  <2> QED BY <1>0, <1>8, <2>1 DEF CountFailure, locals, RunTypeOK, AdviceIsFinite, Phases
<1>9. CASE Dies
  <2>1. counters' \in [Counter -> Nat]
    BY <1>9 DEF Dies, ZeroCounters
  <2>2. faults' \in 0 .. MaxFaults
    BY <1>9, RunAssumption DEF Dies, RunTypeOK
  <2> QED BY <1>0, <1>9, <2>1, <2>2 DEF Dies, locals, RunTypeOK, AdviceIsFinite, Phases
<1>10. CASE Restart
  <2>1. attempts' \in 1 .. MaxAttempts
    BY <1>10, RunAssumption DEF Restart, RunTypeOK
  <2>2. IsFiniteSet(DOMAIN advice') /\ DOMAIN advice' = {}
    BY <1>10, FS_EmptySet DEF Restart
  <2> QED BY <1>0, <1>10, <2>1, <2>2 DEF Restart, kept, RunTypeOK, AdviceIsFinite, Phases
<1> QED BY <1>1, <1>2, <1>3, <1>4, <1>5, <1>6, <1>7, <1>8, <1>9, <1>10 DEF RunNext

LEMMA OverStep ==
  ASSUME RunInv, [RunNext]_runVars
  PROVE  WalkIsOver'
<1> USE DEF RunInv
<1> DEFINE Late == {"scored", "advised", "saved", "counted", "listed", "done"}
<1> SUFFICES ASSUME phase' \in Late PROVE Len(decisions') = Banks
  BY DEF WalkIsOver
<1>1. MatchingDone => Len(decisions) = Banks
  BY LenProperties, EngineAssumption DEF MatchingDone, Bank, RunTypeOK, TypeOK
<1>2. decisions' = decisions /\ (phase \in Late \/ MatchingDone)
  BY DEF RunNext, runVars, given, walk, Walk, Evaluate, Advise, SaveCases, CountRun,
     SaveResults, SaveReport, Raises, FailedPhase, CountFailure, Dies, Restart, MatchingDone
<1> QED BY <1>1, <1>2 DEF WalkIsOver

(* In every state of a run, at whatever point its attempts failed and started  *)
(* over, the engine's invariant holds and what is past the engine has all of   *)
(* its decisions.                                                              *)
THEOREM RunInvariance == RunSpec => []RunInv
<1>1. RunInit => RunInv
  <2> SUFFICES ASSUME RunInit PROVE RunInv
    OBVIOUS
  <2>1. EngineSafe
    BY FreshWalkFirst DEF RunInit, Init
  <2>2. AdviceIsFinite /\ DOMAIN advice = {} /\ DOMAIN results = {}
    BY FS_EmptySet DEF RunInit, AdviceIsFinite
  <2>3. counters \in [Counter -> Nat] /\ attempts \in 1 .. MaxAttempts /\ faults \in 0 .. MaxFaults
    BY RunAssumption DEF RunInit, ZeroCounters
  <2> QED BY <2>1, <2>2, <2>3 DEF RunInit, RunInv, RunTypeOK, WalkIsOver, Phases, EngineSafe, EngineInv
<1>2. RunInv /\ [RunNext]_runVars => RunInv'
  BY RunTypeStep, OverStep, EngineSafeStep DEF RunInv
<1> QED BY <1>1, <1>2, PTL DEF RunSpec

\* Well-typedness, for any files and any number of attempts.
THEOREM RunTypeCorrect == RunSpec => []RunTypeOK
<1>1. RunInv => RunTypeOK
  BY DEF RunInv
<1> QED BY <1>1, RunInvariance, PTL

-----------------------------------------------------------------------------
(* What a run promises.                                                       *)

(* What the engine promises of one walk holds in every attempt of a run.       *)
THEOREM RunKeepsEngine ==
  RunSpec => [](/\ NoInvoiceMatchedTwice /\ ReferenceConflictIsReviewed
                /\ DeterministicIsUnambiguous /\ ExclusivePairsAreMatched)
<1>1. RunInv => /\ NoInvoiceMatchedTwice /\ ReferenceConflictIsReviewed
                /\ DeterministicIsUnambiguous /\ ExclusivePairsAreMatched
  BY DEF RunInv, EngineSafe
<1> QED BY <1>1, RunInvariance, PTL

(* An AMOUNT_MISMATCH names an invoice the transaction refers to, whatever the *)
(* thresholds, as long as the detector tolerates what the fuzzy tier does.     *)
THEOREM MismatchesAreReferenced == RunSpec => []MismatchIsReferenced
<1>1. RunInv => MismatchIsReferenced
  <2> SUFFICES ASSUME RunInv, NEW b \in Mismatches
               PROVE  evidence[<<b, decisions[b].invoice>>].ref
    BY DEF MismatchIsReferenced
  <2> DEFINE i == decisions[b].invoice
             gap == evidence[<<b, i>>].amount
  <2>1. b \in Handled /\ decisions[b].status = "REVIEW" /\ AmountGap(b) > MismatchAbove
    BY DEF Mismatches, With
  <2>2. i # None /\ AmountGap(b) = gap
    BY <2>1, RunAssumption DEF AmountGap
  <2>3. gap \in Nat
    <3>1. b \in 1 .. Banks
      BY <2>1, LenProperties, EngineAssumption DEF RunInv, RunTypeOK, TypeOK, Handled
    <3>2. i \in Invoice
      <4>1. decisions[b] \in Decision
        BY <2>1 DEF RunInv, RunTypeOK, TypeOK, Handled
      <4> QED BY <2>2, <4>1 DEF Decision
    <3>3. evidence[<<b, i>>] \in Evidence
      BY <3>1, <3>2, EngineAssumption DEF RunInv, RunTypeOK, TypeOK
    <3> QED BY <3>3 DEF Evidence
  <2>4. ~(gap <= NearAmount)
    BY <2>1, <2>2, <2>3, RunAssumption, ScoringAssumption
  <2> QED BY <2>1, <2>2, <2>4 DEF RunInv, EngineSafe, ReviewsAreClose
<1> QED BY <1>1, RunInvariance, PTL

(* The process counters add up to whole runs, however often attempts are       *)
(* repeated, fail after they were counted, or die.                             *)
THEOREM CountersAlwaysAgree == RunSpec => []CountersAgree
<1>1. RunInit => CountersAgree
  BY EngineAssumption DEF RunInit, ZeroCounters, CountersAgree, Counter, Statuses
<1>2. ASSUME RunInv, CountersAgree, [RunNext]_runVars PROVE CountersAgree'
  <2> USE DEF RunInv
  <2>0. \A c \in {"runs", "failures", "MATCHED", "REVIEW", "UNMATCHED"} :
          counters[c] \in Nat /\ c \in Counter
    BY <1>2 DEF RunTypeOK, Counter, Statuses
  <2>1. CASE counters' = counters
    BY <1>2, <2>1 DEF CountersAgree
  <2>2. CASE CountRun
    <3>1. Banks * ((counters["runs"] + 1) - counters["failures"])
            = Banks * (counters["runs"] - counters["failures"]) + Banks
      <4>1. ASSUME NEW n \in Nat, NEW k \in Int PROVE n * (k + 1) = n * k + n
        OBVIOUS
      <4>2. counters["runs"] - counters["failures"] \in Int
        BY <2>0
      <4>3. (counters["runs"] + 1) - counters["failures"]
              = (counters["runs"] - counters["failures"]) + 1
        BY <2>0
      <4> QED BY <4>1, <4>2, <4>3, EngineAssumption
    <3>2. Banks \in Nat
      BY EngineAssumption
    <3> QED BY <1>2, <2>2, <3>1, CountRunAdds DEF CountersAgree
  <2>3. CASE CountFailure
    <3>1. /\ counters'["runs"] = counters["runs"] + 1
          /\ counters'["failures"] = counters["failures"] + 1
          /\ \A s \in {"MATCHED", "REVIEW", "UNMATCHED"} : counters'[s] = counters[s]
      BY <1>2, <2>0, <2>3 DEF CountFailure, RunTypeOK
    <3>2. counters'["runs"] - counters'["failures"] = counters["runs"] - counters["failures"]
      BY <2>0, <3>1
    <3> QED BY <1>2, <3>1, <3>2 DEF CountersAgree
  <2>4. CASE Dies
    <3>1. \A c \in {"runs", "failures", "MATCHED", "REVIEW", "UNMATCHED"} : counters'[c] = 0
      BY <2>0, <2>4 DEF Dies, ZeroCounters
    <3> QED BY <3>1, EngineAssumption DEF CountersAgree
  <2>5. counters' = counters \/ CountRun \/ CountFailure \/ Dies
    BY <1>2 DEF RunNext, runVars, kept, Walk, Evaluate, Advise, SaveCases,
       SaveResults, SaveReport, Raises, Restart
  <2> QED BY <2>1, <2>2, <2>3, <2>4, <2>5
<1> QED BY <1>1, <1>2, RunInvariance, PTL DEF RunSpec

-----------------------------------------------------------------------------
(* Every attempt comes to the same decisions.                                 *)

\* What the engine decides on transaction n while the invoices F are free.
ExactIn(n, F) == {i \in F : IsExact(evidence[<<n, i>>])}
ReferencedIn(n, F) == {i \in F : evidence[<<n, i>>].ref}
FuzzyIn(n, F) == {i \in F : IsFuzzy(evidence[<<n, i>>])}
BestIn(n, S) == CHOOSE i \in S : \A k \in S \ {i} :
  \/ Stronger(evidence[<<n, i>>], evidence[<<n, k>>])
  \/ Tied(evidence[<<n, i>>], evidence[<<n, k>>]) /\ i < k
RivalsIn(n, S) == {k \in S \ {BestIn(n, S)} : Tied(evidence[<<n, k>>], evidence[<<n, BestIn(n, S)>>])}
Verdict(n, F) ==
  IF ExactIn(n, F) # {} THEN
    IF RivalsIn(n, ExactIn(n, F)) = {}
    THEN [invoice |-> BestIn(n, ExactIn(n, F)), status |-> "MATCHED", tier |-> "DETERMINISTIC"]
    ELSE [invoice |-> None, status |-> "REVIEW", tier |-> "AMBIGUOUS_DETERMINISTIC"]
  ELSE IF ReferencedIn(n, F) # {} THEN
    [invoice |-> BestIn(n, ReferencedIn(n, F)), status |-> "REVIEW",
     tier |-> "DETERMINISTIC_EXCEPTION"]
  ELSE IF FuzzyIn(n, F) # {} THEN
    [invoice |-> BestIn(n, FuzzyIn(n, F)), tier |-> "FUZZY",
     status |-> IF Score(evidence[<<n, BestIn(n, FuzzyIn(n, F))>>]) >= AutoAt
                THEN "MATCHED" ELSE "REVIEW"]
  ELSE [invoice |-> None, status |-> "UNMATCHED", tier |-> "NONE"]

LEMMA NextIsVerdict ==
  ASSUME TypeOK, Next
  PROVE  decisions' = Append(decisions, Verdict(Bank, Free))
<1>1. /\ Exact = ExactIn(Bank, Free) /\ Referenced = ReferencedIn(Bank, Free)
      /\ Fuzzy = FuzzyIn(Bank, Free)
  BY DEF Exact, ExactIn, Referenced, ReferencedIn, Fuzzy, FuzzyIn, Ev
<1>2. \A S : Best(S) = BestIn(Bank, S)
  BY DEF Best, BestIn, Ev
<1>3. \A S : Rivals(S) = RivalsIn(Bank, S)
  BY <1>2 DEF Rivals, RivalsIn, Ev
<1>4. \A i : Ev(i) = evidence[<<Bank, i>>]
  BY DEF Ev
<1>5. Fuzzy # {} => Score(Ev(Best(Fuzzy))) \in Nat
  <2> SUFFICES ASSUME Fuzzy # {} PROVE Score(Ev(Best(Fuzzy))) \in Nat
    OBVIOUS
  <2>1. Bank \in 1 .. Banks /\ Fuzzy \subseteq Invoice
    BY LenProperties, EngineAssumption DEF TypeOK, Bank, Next, Fuzzy, Free
  <2>2. Best(Fuzzy) \in Invoice
    BY <2>1, BestExists
  <2>3. Ev(Best(Fuzzy)) \in Evidence
    BY <1>4, <2>1, <2>2, EngineAssumption DEF TypeOK
  <2> QED BY <2>3, ScoreType
<1> USE <1>1, <1>2, <1>3, <1>4 DEF Verdict, Decide
<1>6. CASE MatchExact
  BY <1>6 DEF MatchExact
<1>7. CASE RaiseAmbiguous
  BY <1>7 DEF RaiseAmbiguous
<1>8. CASE RaiseException
  BY <1>8 DEF RaiseException
<1>9. CASE MatchFuzzy
  BY <1>9 DEF MatchFuzzy
<1>10. CASE ReviewFuzzy
  BY <1>5, <1>10, EngineAssumption DEF ReviewFuzzy
<1>11. CASE LeaveUnmatched
  BY <1>11 DEF LeaveUnmatched
<1> QED BY <1>6, <1>7, <1>8, <1>9, <1>10, <1>11 DEF Next

\* The invoices that the decisions of d before n leave free.
OpenAt(d, n) ==
  {i \in Invoice : ~\E a \in 1 .. n - 1 :
                     d[a].status = "MATCHED" /\ invoiceId[d[a].invoice] = invoiceId[i]}
IsWalk(d) == d \in Seq(Decision) /\ \A n \in DOMAIN d : d[n] = Verdict(n, OpenAt(d, n))
IsFullWalk(d) == IsWalk(d) /\ Len(d) = Banks

\* Two full walks over the same files are the same: no first decision differs.
LEMMA WalkIsUnique ==
  ASSUME NEW d, NEW e, IsFullWalk(d), IsFullWalk(e)
  PROVE  d = e
<1>1. d \in [1 .. Banks -> Decision] /\ e \in [1 .. Banks -> Decision]
  BY LenProperties DEF IsFullWalk, IsWalk
<1> DEFINE Differ == {n \in 1 .. Banks : d[n] # e[n]}
           place == [n \in Differ |-> n]
<1>2. ASSUME Differ # {} PROVE FALSE
  <2>1. \A n \in Differ : place[n] \in Nat
    OBVIOUS
  <2>2. PICK n \in Differ : \A k \in Differ : place[n] <= place[k]
    <3> HIDE DEF Differ, place
    <3> QED BY <1>2, <2>1, LeastExists
  <2>3. \A a \in 1 .. n - 1 : d[a] = e[a]
    <3> SUFFICES ASSUME NEW a \in 1 .. n - 1, d[a] # e[a] PROVE FALSE
      OBVIOUS
    <3>1. a \in Differ
      BY EngineAssumption
    <3> QED BY <2>2, <3>1
  <2>4. OpenAt(d, n) = OpenAt(e, n)
    BY <2>3 DEF OpenAt
  <2>5. n \in DOMAIN d /\ n \in DOMAIN e
    BY <1>1
  <2>6. d[n] = e[n]
    BY <2>4, <2>5 DEF IsFullWalk, IsWalk
  <2> QED BY <2>6
<1>3. \A n \in 1 .. Banks : d[n] = e[n]
  BY <1>2
<1>4. d = [n \in 1 .. Banks |-> d[n]] /\ e = [n \in 1 .. Banks |-> e[n]]
  BY <1>1
<1> HIDE DEF Differ, place
<1> QED BY <1>3, <1>4, Zenon

\* The files do not change, so a walk over them stays one.
LEMMA WalkStays ==
  ASSUME evidence' = evidence, invoiceId' = invoiceId, NEW d
  PROVE  IsWalk(d)' <=> IsWalk(d)
<1>1. \A n, F : /\ ExactIn(n, F)' = ExactIn(n, F) /\ ReferencedIn(n, F)' = ReferencedIn(n, F)
                /\ FuzzyIn(n, F)' = FuzzyIn(n, F)
  BY DEF ExactIn, ReferencedIn, FuzzyIn, IsExact, IsFuzzy, Score, Total, Points, AmountPoints,
         DatePoints
<1>2. \A n, S : BestIn(n, S)' = BestIn(n, S)
  BY DEF BestIn, Stronger, Tied, Score, Total, Points, AmountPoints, DatePoints
<1>3. \A n, S : RivalsIn(n, S)' = RivalsIn(n, S)
  BY <1>2 DEF RivalsIn, Tied, Score, Total, Points, AmountPoints, DatePoints
<1>4. \A n, F : Verdict(n, F)' = Verdict(n, F)
  BY <1>1, <1>2, <1>3 DEF Verdict, Score, Total, Points, AmountPoints, DatePoints
<1>5. \A n : OpenAt(d, n)' = OpenAt(d, n)
  BY DEF OpenAt
<1> QED BY <1>4, <1>5 DEF IsWalk, Decision, Invoice, Statuses, Tiers

LEMMA WalkStep ==
  ASSUME EngineInv, IsWalk(decisions), [RunNext]_runVars
  PROVE  IsWalk(decisions)'
<1>1. evidence' = evidence /\ invoiceId' = invoiceId
  BY EngineMoves DEF vars, Next, MatchExact, RaiseAmbiguous, RaiseException, MatchFuzzy,
                     ReviewFuzzy, LeaveUnmatched, Decide
<1>2. IsWalk(decisions') => IsWalk(decisions)'
  BY <1>1, WalkStays
<1>3. CASE Next
  <2>1. Free = OpenAt(decisions, Bank)
    BY DEF EngineInv, UsedIsMatched, MatchedBefore, IsMatched, Free, OpenAt
  <2>2. decisions' = Append(decisions, Verdict(Bank, OpenAt(decisions, Bank)))
    BY <1>3, <2>1, NextIsVerdict DEF EngineInv
  <2>3. /\ decisions' \in Seq(Decision) /\ Bank \in Nat
        /\ DOMAIN decisions = 1 .. Bank - 1 /\ DOMAIN decisions' = 1 .. Bank
        /\ \A a \in 1 .. Bank - 1 : decisions'[a] = decisions[a]
    BY <1>3, NextDecides, DecideAppends DEF EngineInv
  <2>4. decisions'[Bank] = Verdict(Bank, OpenAt(decisions, Bank))
    BY <2>2, LenProperties DEF EngineInv, TypeOK, Bank
  <2>5. ASSUME NEW n \in 1 .. Bank PROVE OpenAt(decisions', n) = OpenAt(decisions, n)
    <3>1. \A a \in 1 .. n - 1 : decisions'[a] = decisions[a]
      BY <2>3
    <3> QED BY <3>1 DEF OpenAt
  <2>6. ASSUME NEW n \in 1 .. Bank PROVE decisions'[n] = Verdict(n, OpenAt(decisions', n))
    <3>1. CASE n = Bank
      BY <2>4, <2>5, <3>1
    <3>2. CASE n # Bank
      <4>1. n \in 1 .. Bank - 1
        BY <2>3, <3>2
      <4> QED BY <2>3, <2>5, <4>1 DEF IsWalk
    <3> QED BY <3>1, <3>2
  <2> QED BY <1>2, <2>3, <2>6 DEF IsWalk
<1>4. CASE decisions' = decisions
  BY <1>2, <1>4
<1>5. CASE decisions' = <<>>
  <2>1. IsWalk(<<>>)
    BY EmptySeq DEF IsWalk
  <2> QED BY <1>2, <1>5, <2>1
<1> QED BY <1>3, <1>4, <1>5, EngineMoves DEF vars

-----------------------------------------------------------------------------
(* What the attempts leave behind.                                            *)

\* The cases and the rows that the decisions of d amount to.
CasesOf(d) == {[record |-> bankId[b], candidate |-> IdOf(d[b].invoice), tier |-> d[b].tier] :
                 b \in {a \in DOMAIN d : d[a].status = "REVIEW"}}
FirstOf(d, id) == CHOOSE b \in DOMAIN d :
  bankId[b] = id /\ \A a \in DOMAIN d : bankId[a] = id => b <= a
RowsOf(d) == [id \in {bankId[b] : b \in DOMAIN d} |-> d[FirstOf(d, id)]]

\* What is stored is nothing or that of a whole walk, whichever attempt wrote it.
CasesAreWhole ==
  /\ cases # {} => \E d : IsFullWalk(d) /\ cases = CasesOf(d)
  /\ phase \in {"saved", "counted", "listed", "done"} => cases = CasesOf(decisions)
RowsAreWhole ==
  /\ DOMAIN results # {} \/ report # None \/ phase = "listed"
       => \E d : IsFullWalk(d) /\ results = RowsOf(d)
ReportIsTrue ==
  /\ report.status["MATCHED"] + report.status["REVIEW"] + report.status["UNMATCHED"] = report.bank
  /\ Unique => \A s \in Statuses : report.status[s] = Cardinality(Listed(s))
  /\ ~Unique => Cardinality(DOMAIN results) < report.bank
AdviceIsSound ==
  /\ phase \in {"match", "scored"} => DOMAIN advice = {}
  /\ phase \in {"advised", "saved", "counted", "listed", "done"} =>
       DOMAIN advice = IdsOf(With("REVIEW"))
  /\ \A id \in DOMAIN advice : \E b \in With("REVIEW") :
       bankId[b] = id /\ (advice[id] = "MATCH" => decisions[b].invoice # None)

RecordsInv ==
  /\ IsWalk(decisions) /\ AdviceIsSound /\ CasesAreWhole /\ RowsAreWhole
  /\ report # None => ReportIsTrue

\* Past the engine the decisions are those of every other full walk.
LEMMA LateIsFull ==
  ASSUME RunInv, RecordsInv,
         phase \in {"scored", "advised", "saved", "counted", "listed", "done"}
  PROVE  /\ IsFullWalk(decisions) /\ \A d : IsFullWalk(d) => d = decisions
         /\ Handled = 1 .. Banks
<1>1. Len(decisions) = Banks
  BY DEF RunInv, WalkIsOver
<1>2. IsFullWalk(decisions)
  BY <1>1 DEF RecordsInv, IsFullWalk
<1>3. Handled = 1 .. Banks
  BY <1>1, LenProperties DEF RunInv, RunTypeOK, TypeOK, Handled
<1> QED BY <1>2, <1>3, WalkIsUnique

LEMMA RecordsOfDecisions ==
  /\ CasesOf(decisions) = {CaseOf(b) : b \in With("REVIEW")}
  /\ RowsOf(decisions) = [id \in IdsOf(Handled) |-> decisions[First(id)]]
<1>1. CasesOf(decisions) = {CaseOf(b) : b \in With("REVIEW")}
  BY DEF CasesOf, CaseOf, With, Handled
<1>2. \A id : FirstOf(decisions, id) = First(id)
  BY DEF FirstOf, First, Handled
<1>3. RowsOf(decisions) = [id \in IdsOf(Handled) |-> decisions[First(id)]]
  BY <1>2 DEF RowsOf, IdsOf, Handled
<1> QED BY <1>1, <1>3

\* Nothing that a step does not write changes its meaning.
LEMMA RecordsStay ==
  ASSUME evidence' = evidence, invoiceId' = invoiceId, bankId' = bankId, NEW d
  PROVE  /\ IsFullWalk(d)' <=> IsFullWalk(d)
         /\ CasesOf(d)' = CasesOf(d) /\ RowsOf(d)' = RowsOf(d)
<1>1. IsFullWalk(d)' <=> IsFullWalk(d)
  BY WalkStays DEF IsFullWalk
<1>2. CasesOf(d)' = CasesOf(d)
  BY DEF CasesOf, IdOf
<1>3. \A id : FirstOf(d, id)' = FirstOf(d, id)
  BY DEF FirstOf
<1>4. RowsOf(d)' = RowsOf(d)
  BY <1>3 DEF RowsOf
<1> QED BY <1>1, <1>2, <1>4

\* The cases of an attempt join those of an earlier one, which are the same.
LEMMA SaveCasesIsWhole ==
  ASSUME RunInv, RecordsInv, SaveCases
  PROVE  cases' = CasesOf(decisions) /\ IsFullWalk(decisions)
<1>1. IsFullWalk(decisions) /\ \A d : IsFullWalk(d) => d = decisions
  BY LateIsFull DEF SaveCases
<1>2. cases = {} \/ cases = CasesOf(decisions)
  BY <1>1 DEF RecordsInv, CasesAreWhole
<1> QED BY <1>1, <1>2, RecordsOfDecisions DEF SaveCases

\* The rows of an attempt fill a table that is empty or holds the same rows.
LEMMA SaveResultsIsWhole ==
  ASSUME RunInv, RecordsInv, SaveResults
  PROVE  results' = RowsOf(decisions) /\ IsFullWalk(decisions)
<1>1. IsFullWalk(decisions) /\ \A d : IsFullWalk(d) => d = decisions
  BY LateIsFull DEF SaveResults
<1> DEFINE rows == [id \in IdsOf(Handled) |-> decisions[First(id)]]
<1>2. RowsOf(decisions) = rows
  BY RecordsOfDecisions
<1>3. DOMAIN results = {} \/ results = rows
  BY <1>1, <1>2 DEF RecordsInv, RowsAreWhole
<1>4. results' = [id \in DOMAIN results \cup IdsOf(Handled) |->
                   IF id \in DOMAIN results THEN results[id] ELSE rows[id]]
  BY DEF SaveResults
<1>5. DOMAIN rows = IdsOf(Handled) /\ rows = [id \in IdsOf(Handled) |-> rows[id]]
  OBVIOUS
<1> HIDE DEF rows
<1>6. DOMAIN results' = IdsOf(Handled)
  BY <1>3, <1>4, <1>5
<1>7. \A id \in IdsOf(Handled) : results'[id] = rows[id]
  BY <1>3, <1>4
<1>8. results' = [id \in IdsOf(Handled) |-> results'[id]]
  BY <1>4, <1>6
<1>9. results' = rows
  BY <1>5, <1>7, <1>8, Zenon
<1> QED BY <1>1, <1>2, <1>9

\* Where bank ids differ, a decision is the first on its id.
LEMMA UniqueFirst ==
  ASSUME Unique, Handled = 1 .. Banks, NEW b \in Handled
  PROVE  First(bankId[b]) = b
<1>1. \A a \in Handled : bankId[a] = bankId[b] => a = b
  BY DEF Unique
<1>2. \A a \in Handled : bankId[a] = bankId[b] => b <= a
  BY <1>1, EngineAssumption
<1> QED BY <1>1, <1>2 DEF First

\* A status has as many rows as decisions if the bank ids differ, and there are fewer rows
\* than decisions if they do not.
LEMMA RowsByStatus ==
  ASSUME RunInv, RecordsInv, phase = "listed"
  PROVE  /\ Unique => \A s \in Statuses : Cardinality(Listed(s)) = Cardinality(With(s))
         /\ ~Unique => Cardinality(DOMAIN results) < Banks
<1>1. Handled = 1 .. Banks /\ results = [id \in IdsOf(Handled) |-> decisions[First(id)]]
  BY LateIsFull, RecordsOfDecisions DEF RecordsInv, RowsAreWhole
<1>2. ASSUME Unique, NEW s \in Statuses PROVE Cardinality(Listed(s)) = Cardinality(With(s))
  <2>1. \A b \in Handled : First(bankId[b]) = b
    BY <1>1, <1>2, UniqueFirst
  <2> DEFINE f == [b \in With(s) |-> bankId[b]]
  <2>2. \A b \in With(s) : bankId[b] \in Listed(s)
    BY <1>1, <2>1 DEF With, Listed, IdsOf
  <2>3. \A id \in Listed(s) : \E b \in With(s) : bankId[b] = id
    BY <1>1, <2>1 DEF With, Listed, IdsOf
  <2>4. \A a, b \in With(s) : bankId[a] = bankId[b] => a = b
    BY <1>1, <1>2 DEF With, Unique
  <2>5. f \in Bijection(With(s), Listed(s))
    BY <2>2, <2>3, <2>4 DEF Bijection, Injection, Surjection, IsInjective
  <2>6. ExistsBijection(With(s), Listed(s))
    BY <2>5 DEF ExistsBijection
  <2>7. IsFiniteSet(With(s))
    BY StatusesPartition DEF RunInv, RunTypeOK
  <2> QED BY <2>6, <2>7, FS_Bijection
<1>3. ASSUME ~Unique PROVE Cardinality(DOMAIN results) < Banks
  <2> DEFINE f == [b \in 1 .. Banks |-> bankId[b]]
  <2>1. f \in Surjection(1 .. Banks, DOMAIN results)
    BY <1>1 DEF Surjection, IdsOf
  <2>2. f \notin Injection(1 .. Banks, DOMAIN results)
    BY <1>3 DEF Unique, Injection, IsInjective
  <2>3. IsFiniteSet(1 .. Banks) /\ Cardinality(1 .. Banks) = Banks
    BY FS_Interval, EngineAssumption
  <2> HIDE DEF f
  <2>4. /\ IsFiniteSet(DOMAIN results) /\ Cardinality(DOMAIN results) <= Banks
        /\ Cardinality(DOMAIN results) # Banks
    BY <2>1, <2>2, <2>3, FS_Surjection
  <2>5. Cardinality(DOMAIN results) \in Nat
    BY <2>4, FS_CardinalityType
  <2> QED BY <2>4, <2>5, EngineAssumption
<1> QED BY <1>2, <1>3

LEMMA SaveReportIsTrue ==
  ASSUME RunInv, RecordsInv, SaveReport
  PROVE  ReportIsTrue'
<1>1. /\ report' = Summary /\ results' = results /\ bankId' = bankId
      /\ phase = "listed" /\ Len(decisions) = Banks
  BY DEF SaveReport, given, RunInv, WalkIsOver
<1>2. /\ report'.bank = Banks
      /\ \A s \in Statuses : report'.status[s] = Cardinality(With(s))
  BY <1>1 DEF Summary
<1>3. Cardinality(With("MATCHED")) + Cardinality(With("REVIEW"))
        + Cardinality(With("UNMATCHED")) = Banks
  BY <1>1, StatusesPartition DEF RunInv, RunTypeOK
<1>4. Unique' = Unique /\ \A s : Listed(s)' = Listed(s)
  BY <1>1 DEF Unique, Listed
<1>5. \A s \in Statuses : Unique => report'.status[s] = Cardinality(Listed(s))
  BY <1>1, <1>2, RowsByStatus
<1>6. ~Unique => Cardinality(DOMAIN results) < report'.bank
  BY <1>1, <1>2, RowsByStatus
<1>7. report'.status["MATCHED"] + report'.status["REVIEW"] + report'.status["UNMATCHED"]
        = report'.bank
  BY <1>2, <1>3 DEF Statuses
<1> QED BY <1>1, <1>4, <1>5, <1>6, <1>7 DEF ReportIsTrue, Statuses

\* What a step leaves alone.
LEMMA RunFrame ==
  ASSUME [RunNext]_runVars
  PROVE  /\ evidence' = evidence /\ invoiceId' = invoiceId /\ bankId' = bankId
         /\ mode' = mode /\ truth' = truth
         /\ decisions' = decisions \/ phase = "match" \/ Restart
         /\ advice' = advice \/ Advise \/ Restart
         /\ cases' = cases \/ SaveCases
         /\ results' = results \/ SaveResults
         /\ report' = report \/ SaveReport
         /\ phase' = phase \/ phase' \in {"scored", "advised", "saved", "counted", "listed", "done"}
              \/ phase' \in {"failing", "failed"} \/ Restart
BY DEF RunNext, runVars, given, walk, locals, kept, Walk, Next, MatchExact, RaiseAmbiguous,
   RaiseException, MatchFuzzy, ReviewFuzzy, LeaveUnmatched, Decide, Evaluate, Advise, SaveCases,
   CountRun, SaveResults, SaveReport, Raises, FailedPhase, CountFailure, Dies, Restart

LEMMA CasesStep ==
  ASSUME RunInv, RecordsInv, [RunNext]_runVars
  PROVE  CasesAreWhole'
<1>1. /\ evidence' = evidence /\ invoiceId' = invoiceId /\ bankId' = bankId
      /\ cases' = cases \/ SaveCases
  BY RunFrame
<1>2. \A d : (IsFullWalk(d)' <=> IsFullWalk(d)) /\ CasesOf(d)' = CasesOf(d)
  BY <1>1, RecordsStay
<1>3. cases' # {} => \E d : IsFullWalk(d) /\ cases' = CasesOf(d)
  BY <1>1, SaveCasesIsWhole DEF RecordsInv, CasesAreWhole
<1>4. ASSUME phase' \in {"saved", "counted", "listed", "done"}
      PROVE  cases' = CasesOf(decisions) /\ decisions' = decisions
  <2>1. CASE SaveCases
    BY <2>1, SaveCasesIsWhole DEF SaveCases, walk
  <2>2. CASE ~SaveCases
    <3>1. phase \in {"saved", "counted", "listed", "done"} /\ decisions' = decisions
      BY <1>4, <2>2 DEF RunNext, runVars, given, walk, Walk, Evaluate, Advise, SaveCases,
         CountRun, SaveResults, SaveReport, Raises, FailedPhase, CountFailure, Dies, Restart
    <3> QED BY <1>1, <2>2, <3>1 DEF RecordsInv, CasesAreWhole
  <2> QED BY <2>1, <2>2
<1>5. ASSUME phase' \in {"saved", "counted", "listed", "done"} PROVE cases' = CasesOf(decisions)'
  <2>1. CasesOf(decisions)' = CasesOf(decisions')
    BY <1>1 DEF CasesOf, IdOf
  <2> QED BY <1>4, <1>5, <2>1
<1> QED BY <1>2, <1>3, <1>5 DEF CasesAreWhole

LEMMA RowsStep ==
  ASSUME RunInv, RecordsInv, [RunNext]_runVars
  PROVE  RowsAreWhole'
<1>1. /\ evidence' = evidence /\ invoiceId' = invoiceId /\ bankId' = bankId
      /\ results' = results \/ SaveResults
  BY RunFrame
<1>2. \A d : (IsFullWalk(d)' <=> IsFullWalk(d)) /\ RowsOf(d)' = RowsOf(d)
  BY <1>1, RecordsStay
<1>3. CASE SaveResults
  BY <1>2, <1>3, SaveResultsIsWhole DEF RowsAreWhole
<1>4. CASE ~SaveResults
  <2>1. results' = results
    BY <1>1, <1>4
  <2>2. DOMAIN results' # {} \/ report' # None \/ phase' = "listed"
          => DOMAIN results # {} \/ report # None \/ phase = "listed"
    BY <1>4, <2>1 DEF RunNext, runVars, given, kept, Walk, Evaluate, Advise, SaveCases, CountRun,
       SaveResults, SaveReport, Raises, FailedPhase, CountFailure, Dies, Restart
  <2> QED BY <1>2, <2>1, <2>2 DEF RecordsInv, RowsAreWhole
<1> QED BY <1>3, <1>4

LEMMA ReportStep ==
  ASSUME RunInv, RecordsInv, [RunNext]_runVars, report' # None
  PROVE  ReportIsTrue'
<1>1. /\ evidence' = evidence /\ invoiceId' = invoiceId /\ bankId' = bankId
      /\ report' = report \/ SaveReport
      /\ results' = results \/ SaveResults
  BY RunFrame
<1>2. CASE SaveReport
  BY <1>2, SaveReportIsTrue
<1>3. CASE report' = report
  <2>1. PICK d : IsFullWalk(d) /\ results = RowsOf(d)
    BY <1>3 DEF RecordsInv, RowsAreWhole
  <2>2. CASE SaveResults
    <3>1. results' = RowsOf(decisions) /\ d = decisions
      BY <2>1, <2>2, SaveResultsIsWhole, WalkIsUnique
    <3>2. results' = results
      BY <2>1, <3>1
    <3> QED BY <1>1, <1>3, <3>2 DEF RecordsInv, ReportIsTrue, Listed, Unique
  <2>3. CASE results' = results
    BY <1>1, <1>3, <2>3 DEF RecordsInv, ReportIsTrue, Listed, Unique
  <2> QED BY <1>1, <2>2, <2>3
<1> QED BY <1>1, <1>2, <1>3

\* The advice on a bank id is that on its last review.
LEMMA AdviseIsSound ==
  ASSUME RunInv, Advise
  PROVE  /\ DOMAIN advice' = IdsOf(With("REVIEW"))
         /\ \A id \in DOMAIN advice' : \E b \in With("REVIEW") :
              bankId[b] = id /\ (advice'[id] = "MATCH" => decisions[b].invoice # None)
<1>1. PICK reply \in [With("REVIEW") -> Recommendations] :
        advice' = [id \in IdsOf(With("REVIEW")) |->
                     Validated(reply[LastReview(id)], LastReview(id))]
  BY DEF Advise
<1>2. ASSUME NEW id \in IdsOf(With("REVIEW"))
      PROVE  LastReview(id) \in With("REVIEW") /\ bankId[LastReview(id)] = id
  BY LastExists DEF RunInv, RunTypeOK
<1>3. ASSUME NEW id \in IdsOf(With("REVIEW")), advice'[id] = "MATCH"
      PROVE  decisions[LastReview(id)].invoice # None
  BY <1>1, <1>3 DEF Validated
<1> QED BY <1>1, <1>2, <1>3

LEMMA AdviceStep ==
  ASSUME RunInv, RecordsInv, [RunNext]_runVars
  PROVE  AdviceIsSound'
<1>1. bankId' = bankId
  BY RunFrame
<1>2. CASE Advise
  <2>1. decisions' = decisions /\ phase' = "advised"
    BY <1>2 DEF Advise, walk
  <2>2. With("REVIEW")' = With("REVIEW") /\ IdsOf(With("REVIEW"))' = IdsOf(With("REVIEW"))
    BY <1>1, <2>1 DEF With, Handled, IdsOf
  <2> QED BY <1>1, <1>2, <2>1, <2>2, AdviseIsSound DEF AdviceIsSound
<1>3. CASE Restart
  <2>1. DOMAIN advice' = {} /\ phase' = "match"
    BY <1>3 DEF Restart
  <2> QED BY <2>1 DEF AdviceIsSound
<1>4. CASE Walk
  <2>1. DOMAIN advice' = {} /\ phase' = "match"
    BY <1>4 DEF Walk, locals, RecordsInv, AdviceIsSound
  <2> QED BY <2>1 DEF AdviceIsSound
<1>5. CASE ~Advise /\ ~Restart /\ ~Walk
  <2>1. /\ decisions' = decisions /\ advice' = advice
        /\ phase' \in {"match", "scored"} => phase \in {"match", "scored"}
        /\ phase' \in {"advised", "saved", "counted", "listed", "done"}
             => phase \in {"advised", "saved", "counted", "listed", "done"}
    BY <1>5 DEF RunNext, runVars, given, walk, locals, Evaluate, SaveCases, CountRun,
       SaveResults, SaveReport, Raises, FailedPhase, CountFailure, Dies, MatchingDone
  <2>2. With("REVIEW")' = With("REVIEW") /\ IdsOf(With("REVIEW"))' = IdsOf(With("REVIEW"))
    BY <1>1, <2>1 DEF With, Handled, IdsOf
  <2> QED BY <1>1, <2>1, <2>2 DEF RecordsInv, AdviceIsSound
<1> QED BY <1>2, <1>3, <1>4, <1>5

(* At whatever point attempts failed and started over, what they stored is     *)
(* nothing or that of the one walk the files admit.                            *)
THEOREM RecordsInvariance == RunSpec => []RecordsInv
<1>1. RunInit => RecordsInv
  <2> SUFFICES ASSUME RunInit PROVE RecordsInv
    OBVIOUS
  <2>1. IsWalk(decisions)
    BY EmptySeq DEF RunInit, Init, IsWalk
  <2>2. DOMAIN advice = {} /\ DOMAIN results = {}
    BY DEF RunInit
  <2> QED BY <2>1, <2>2 DEF RunInit, RecordsInv, AdviceIsSound, CasesAreWhole, RowsAreWhole
<1>2. RunInv /\ RecordsInv /\ [RunNext]_runVars => RecordsInv'
  <2> SUFFICES ASSUME RunInv, RecordsInv, [RunNext]_runVars PROVE RecordsInv'
    OBVIOUS
  <2>1. IsWalk(decisions)'
    BY WalkStep DEF RunInv, EngineSafe, RecordsInv
  <2> QED BY <2>1, AdviceStep, CasesStep, RowsStep, ReportStep DEF RecordsInv
<1> QED BY <1>1, <1>2, RunInvariance, PTL DEF RunSpec

(* No review gets lost on the way to the reviewers, for any files, bank ids     *)
(* and number of attempts.                                                      *)
THEOREM ReviewsAreTracked == RunSpec => []EveryReviewIsTracked
<1>1. RunInv /\ RecordsInv => EveryReviewIsTracked
  <2> SUFFICES ASSUME RunInv, RecordsInv PROVE EveryReviewIsTracked
    OBVIOUS
  <2>1. ASSUME phase \in {"saved", "counted", "listed", "done"}
        PROVE  /\ {CaseOf(b) : b \in With("REVIEW")} = cases
               /\ DOMAIN advice = IdsOf(With("REVIEW"))
    BY <2>1, RecordsOfDecisions DEF RecordsInv, CasesAreWhole, AdviceIsSound
  <2>2. ASSUME phase \in {"saved", "counted", "listed", "done"}, Unique
        PROVE  Cardinality(cases) = Cardinality(With("REVIEW"))
    <3> DEFINE f == [b \in With("REVIEW") |-> CaseOf(b)]
    <3>1. With("REVIEW") \subseteq 1 .. Banks
      BY <2>2, LateIsFull DEF With
    <3>2. \A a, b \in With("REVIEW") : CaseOf(a) = CaseOf(b) => a = b
      <4>1. \A b : CaseOf(b).record = bankId[b]
        BY DEF CaseOf
      <4> QED BY <2>2, <3>1, <4>1 DEF Unique
    <3>3. f \in Bijection(With("REVIEW"), cases)
      BY <2>1, <2>2, <3>2 DEF Bijection, Injection, Surjection, IsInjective
    <3>4. ExistsBijection(With("REVIEW"), cases)
      BY <3>3 DEF ExistsBijection
    <3>5. IsFiniteSet(With("REVIEW"))
      BY StatusesPartition DEF RunInv, RunTypeOK, Statuses
    <3> QED BY <3>4, <3>5, FS_Bijection
  <2> QED BY <2>1, <2>2 DEF EveryReviewIsTracked, RecordsInv, AdviceIsSound
<1> QED BY <1>1, RunInvariance, RecordsInvariance, PTL

(* The report and the rows behind it tell the same story, whichever attempts    *)
(* wrote the two, for any files.                                                *)
THEOREM ReportsAgreeWithRows == RunSpec => []ReportAgreesWithRows
<1>1. RunInv /\ RecordsInv => ReportAgreesWithRows
  <2> SUFFICES ASSUME RunInv, RecordsInv PROVE ReportAgreesWithRows
    OBVIOUS
  <2>1. ASSUME NEW id \in DOMAIN results, phase \in {"counted", "listed", "done"}
        PROVE  results[id] = decisions[First(id)]
    <3>1. PICK d : IsFullWalk(d) /\ results = RowsOf(d)
      BY <2>1 DEF RecordsInv, RowsAreWhole
    <3>2. results = [k \in IdsOf(Handled) |-> decisions[First(k)]]
      BY <2>1, <3>1, LateIsFull, RecordsOfDecisions
    <3> QED BY <2>1, <3>2
  <2> QED BY <2>1 DEF ReportAgreesWithRows, RecordsInv, ReportIsTrue
<1> QED BY <1>1, RunInvariance, RecordsInvariance, PTL

-----------------------------------------------------------------------------
(* Evaluation.                                                                *)

\* The rows of the ground truth by what is expected and what the run says.
Matchable == {r \in Row : Expected(r) # None}
Found == {r \in Row : Judged(r)}
PairsFound == {r \in Row : /\ Expected(r) # None /\ Judged(r)
                           /\ IdOf(DecisionOf(r).invoice) = Expected(r)}

LEMMA EvaluationCounts ==
  /\ Evaluation.actual = Cardinality(Matchable)
  /\ Evaluation.correct = Cardinality(Found \cap Matchable)
  /\ Evaluation.false = Cardinality(Found \ Matchable)
  /\ Evaluation.missed = Cardinality(Matchable \ Found)
  /\ Evaluation.unresolved = Cardinality(Row \ (Matchable \cup Found))
  /\ Evaluation.pairs = Cardinality(PairsFound)
<1>1. /\ Found \cap Matchable = {r \in Row : Expected(r) # None /\ Judged(r)}
      /\ Found \ Matchable = {r \in Row : Expected(r) = None /\ Judged(r)}
      /\ Matchable \ Found = {r \in Row : Expected(r) # None /\ ~Judged(r)}
      /\ Row \ (Matchable \cup Found) = {r \in Row : Expected(r) = None /\ ~Judged(r)}
  BY DEF Matchable, Found
<1>2. /\ Evaluation.actual = Cardinality({r \in Row : Expected(r) # None})
      /\ Evaluation.correct = Cardinality({r \in Row : Expected(r) # None /\ Judged(r)})
      /\ Evaluation.false = Cardinality({r \in Row : Expected(r) = None /\ Judged(r)})
      /\ Evaluation.missed = Cardinality({r \in Row : Expected(r) # None /\ ~Judged(r)})
      /\ Evaluation.unresolved = Cardinality({r \in Row : Expected(r) = None /\ ~Judged(r)})
      /\ Evaluation.pairs = Cardinality(PairsFound)
  BY DEF Evaluation, PairsFound
<1> QED BY <1>1, <1>2 DEF Matchable

\* A ground truth that fits has one row for each decision.
LEMMA RowsAreDecisions ==
  ASSUME RunTypeOK, Len(decisions) = Banks, truth # None, TruthLoads, Comparable
  PROVE  /\ IsFiniteSet(Row)
         /\ \A r \in Row : /\ First(truth[r].bank) \in Handled
                           /\ bankId[First(truth[r].bank)] = truth[r].bank
         /\ \A r, s \in Row : First(truth[r].bank) = First(truth[s].bank) => r = s
         /\ \A b \in Handled : \E r \in Row : truth[r].bank = bankId[b] /\ First(truth[r].bank) = b
<1>1. Handled = 1 .. Banks
  BY LenProperties DEF RunTypeOK, TypeOK, Handled
<1>2. IsFiniteSet(Row)
  <2>1. truth \in Seq([bank : Nat, invoice : Nat \cup {None}])
    BY RunAssumption DEF RunTypeOK, Truth
  <2>2. Len(truth) \in Nat /\ DOMAIN truth = 1 .. Len(truth)
    BY <2>1, LenProperties
  <2> QED BY <2>2, FS_Interval DEF Row
<1>3. IdsOf(Handled) = {truth[r].bank : r \in Row}
  BY DEF Comparable
<1>4. \A r \in Row : /\ First(truth[r].bank) \in Handled
                     /\ bankId[First(truth[r].bank)] = truth[r].bank
  BY <1>3, FirstExists DEF RunTypeOK
<1>5. \A r, s \in Row : First(truth[r].bank) = First(truth[s].bank) => r = s
  BY <1>4 DEF TruthLoads
<1>6. ASSUME NEW b \in Handled
      PROVE  \E r \in Row : truth[r].bank = bankId[b] /\ First(truth[r].bank) = b
  <2>1. bankId[b] \in IdsOf(Handled)
    BY DEF IdsOf
  <2>2. First(bankId[b]) = b
    BY <1>1, UniqueFirst DEF Comparable
  <2> QED BY <1>3, <2>1, <2>2
<1> QED BY <1>2, <1>4, <1>5, <1>6

\* So the rows judged a match are as many as the matches, and the others as the others.
LEMMA RowsJudged ==
  ASSUME RunTypeOK, Len(decisions) = Banks, truth # None, TruthLoads, Comparable
  PROVE  /\ IsFiniteSet(Row) /\ Cardinality(Row) = Banks
         /\ Cardinality(Found) = Cardinality(With("MATCHED"))
<1> DEFINE f == [r \in Row |-> First(truth[r].bank)]
           g == [r \in Found |-> First(truth[r].bank)]
<1>1. /\ \A r \in Row : First(truth[r].bank) \in Handled
      /\ \A r, s \in Row : First(truth[r].bank) = First(truth[s].bank) => r = s
      /\ \A b \in Handled : \E r \in Row : First(truth[r].bank) = b
      /\ IsFiniteSet(Row)
  BY RowsAreDecisions
<1>2. f \in Bijection(Row, Handled)
  BY <1>1 DEF Bijection, Injection, Surjection, IsInjective
<1>3. \A r \in Row : r \in Found <=> First(truth[r].bank) \in With("MATCHED")
  BY <1>1 DEF Found, Judged, DecisionOf, With
<1>4. g \in Bijection(Found, With("MATCHED"))
  <2>1. Found \subseteq Row /\ With("MATCHED") \subseteq Handled
    BY DEF Found, With
  <2> QED BY <1>1, <1>3, <2>1 DEF Bijection, Injection, Surjection, IsInjective
<1>5. ExistsBijection(Row, Handled) /\ ExistsBijection(Found, With("MATCHED"))
  BY <1>2, <1>4 DEF ExistsBijection
<1>6. IsFiniteSet(Found)
  <2>1. Found \in SUBSET Row
    BY DEF Found
  <2> QED BY <1>1, <2>1, FS_Subset
<1>7. Cardinality(Handled) = Banks
  <2>1. Handled = 1 .. Banks
    BY LenProperties DEF RunTypeOK, TypeOK, Handled
  <2> QED BY <2>1, FS_Interval, EngineAssumption
<1> HIDE DEF f, g
<1> QED BY <1>1, <1>5, <1>6, <1>7, FS_Bijection

LEMMA EvaluationCovers ==
  ASSUME RunTypeOK, Len(decisions) = Banks, truth # None, TruthLoads, Comparable
  PROVE  /\ Evaluation.correct + Evaluation.false = Cardinality(With("MATCHED"))
         /\ Evaluation.missed + Evaluation.unresolved = Banks - Cardinality(With("MATCHED"))
<1>1. /\ IsFiniteSet(Row) /\ Cardinality(Row) = Banks
      /\ Cardinality(Found) = Cardinality(With("MATCHED"))
  BY RowsJudged
<1>2. Found \subseteq Row /\ Matchable \subseteq Row
  BY DEF Found, Matchable
<1> DEFINE A == Found \cap Matchable
           B == Found \ Matchable
           C == Matchable \ Found
           D == Row \ (Matchable \cup Found)
<1>3. /\ A \subseteq Row /\ B \subseteq Row /\ C \subseteq Row /\ D \subseteq Row
      /\ A \cup B = Found /\ A \cap B = {} /\ (C \cup D) \cap Found = {} /\ C \cap D = {}
      /\ (C \cup D) \cup Found = Row
  BY <1>2
<1>4. /\ Evaluation.correct = Cardinality(A) /\ Evaluation.false = Cardinality(B)
      /\ Evaluation.missed = Cardinality(C) /\ Evaluation.unresolved = Cardinality(D)
  BY EvaluationCounts
<1> HIDE DEF A, B, C, D
<1>5. IsFiniteSet(A) /\ IsFiniteSet(B) /\ IsFiniteSet(C) /\ IsFiniteSet(D) /\ IsFiniteSet(Found)
  BY <1>1, <1>2, <1>3, FS_Subset
<1>6. Cardinality(A) + Cardinality(B) = Cardinality(Found)
  BY <1>3, <1>5, DisjointUnion
<1>7. /\ IsFiniteSet(C \cup D) /\ Cardinality(C \cup D) = Cardinality(C) + Cardinality(D)
      /\ Cardinality(C) \in Nat /\ Cardinality(D) \in Nat
  BY <1>3, <1>5, DisjointUnion
<1>8. /\ Cardinality(Row) = Cardinality(C \cup D) + Cardinality(Found)
      /\ Cardinality(Found) \in Nat
  BY <1>3, <1>5, <1>7, DisjointUnion
<1> QED BY <1>1, <1>4, <1>6, <1>7, <1>8

\* All pairs found and no false match: every decision is what its row expects.
LEMMA PerfectEvaluation ==
  ASSUME RunTypeOK, Len(decisions) = Banks, truth # None, TruthLoads, Comparable,
         Evaluation.pairs = Evaluation.actual, Evaluation.false = 0, NEW b \in Handled
  PROVE  \E r \in Row : /\ truth[r].bank = bankId[b]
                        /\ IF decisions[b].status = "MATCHED"
                           THEN IdOf(decisions[b].invoice) = Expected(r)
                           ELSE Expected(r) = None
<1>1. PICK r \in Row : truth[r].bank = bankId[b] /\ First(truth[r].bank) = b
  BY RowsAreDecisions
<1>2. DecisionOf(r) = decisions[b]
  BY <1>1 DEF DecisionOf
<1>3. PairsFound \in SUBSET Matchable /\ Matchable \in SUBSET Row /\ Found \ Matchable \in SUBSET Row
  BY DEF PairsFound, Matchable, Found
<1>4. IsFiniteSet(Matchable) /\ IsFiniteSet(Found \ Matchable)
  BY <1>3, RowsAreDecisions, FS_Subset
<1>5. PairsFound = Matchable
  <2>1. Cardinality(PairsFound) = Cardinality(Matchable)
    BY EvaluationCounts
  <2> QED BY <1>3, <1>4, <2>1, FS_Subset
<1>6. Found \ Matchable = {}
  <2>1. Cardinality(Found \ Matchable) = 0
    BY EvaluationCounts
  <2> QED BY <1>4, <2>1, FS_EmptySet
<1>7. CASE Judged(r)
  <2>1. r \in PairsFound
    BY <1>1, <1>5, <1>6, <1>7 DEF Found
  <2> QED BY <1>1, <1>2, <1>7, <2>1 DEF PairsFound, Judged
<1>8. CASE ~Judged(r)
  <2>1. r \notin Matchable
    BY <1>5, <1>8 DEF PairsFound
  <2> QED BY <1>1, <1>2, <1>8, <2>1 DEF Matchable, Judged
<1> QED BY <1>7, <1>8

\* A score is that of the decisions at hand: only a demo has one, and it never starts over.
ScoreInv ==
  /\ truth # None => mode = "demo"
  /\ score # None => phase # "match" /\ truth # None
  /\ EvaluationIsHonest

LEMMA EvaluateIsHonest ==
  ASSUME RunInv, ScoreInv, Evaluate
  PROVE  EvaluationIsHonest'
<1>1. /\ truth' = truth /\ bankId' = bankId /\ decisions' = decisions /\ invoiceId' = invoiceId
      /\ truth # None /\ Len(decisions) = Banks
  BY LenProperties, EngineAssumption DEF Evaluate, given, walk, MatchingDone, Bank, RunInv,
     RunTypeOK, TypeOK
<1>2. CASE TruthLoads /\ Comparable /\ score' = Evaluation
  <2>1. \A b \in Handled : score'.pairs = score'.actual /\ score'.false = 0 =>
          \E r \in Row : /\ truth[r].bank = bankId[b]
                         /\ IF decisions[b].status = "MATCHED"
                            THEN IdOf(decisions[b].invoice) = Expected(r)
                            ELSE Expected(r) = None
    BY <1>1, <1>2, PerfectEvaluation DEF RunInv
  <2>2. /\ score'.correct + score'.false = Cardinality(With("MATCHED"))
        /\ score'.missed + score'.unresolved = Banks - Cardinality(With("MATCHED"))
    BY <1>1, <1>2, EvaluationCovers DEF RunInv
  <2>3. /\ With("MATCHED")' = With("MATCHED") /\ Handled' = Handled /\ Row' = Row
        /\ \A i : IdOf(i)' = IdOf(i)
        /\ \A r : Expected(r)' = Expected(r)
    BY <1>1 DEF With, Handled, Row, IdOf, Expected
  <2> QED BY <1>1, <2>1, <2>2, <2>3 DEF EvaluationIsHonest, With
<1>3. CASE score' = score
  BY <1>1, <1>3 DEF ScoreInv, EvaluationIsHonest, Evaluate, MatchingDone
<1> QED BY <1>2, <1>3 DEF Evaluate

(* An evaluation judges every decision exactly once and a perfect score means    *)
(* what it says, for any files and any ground truth that is accepted.           *)
THEOREM EvaluationsAreHonest == RunSpec => []EvaluationIsHonest
<1>1. RunInit => ScoreInv
  BY RunAssumption DEF RunInit, ScoreInv, EvaluationIsHonest
<1>2. RunInv /\ ScoreInv /\ [RunNext]_runVars => ScoreInv'
  <2> SUFFICES ASSUME RunInv, ScoreInv, [RunNext]_runVars PROVE ScoreInv'
    OBVIOUS
  <2>1. mode' = mode /\ truth' = truth /\ bankId' = bankId /\ invoiceId' = invoiceId
    BY RunFrame
  <2>2. CASE Evaluate
    BY <2>1, <2>2, EvaluateIsHonest DEF ScoreInv, Evaluate
  <2>3. CASE ~Evaluate
    <3>1. score' = score
      BY <2>3 DEF RunNext, runVars, locals, Walk, Advise, SaveCases, CountRun, SaveResults,
         SaveReport, Raises, CountFailure, Dies, Restart
    <3>2. CASE score = None
      BY <2>1, <3>1, <3>2 DEF ScoreInv, EvaluationIsHonest
    <3>3. CASE score # None
      <4>1. phase # "match" /\ mode = "demo"
        BY <3>3 DEF ScoreInv
      <4>2. decisions' = decisions /\ phase' # "match"
        BY <2>3, <4>1 DEF RunNext, runVars, walk, Walk, Advise, SaveCases, CountRun, SaveResults,
           SaveReport, Raises, FailedPhase, CountFailure, Dies, Restart
      <4>3. /\ With("MATCHED")' = With("MATCHED") /\ Handled' = Handled /\ Row' = Row
            /\ \A i : IdOf(i)' = IdOf(i)
            /\ \A r : Expected(r)' = Expected(r)
        BY <2>1, <4>2 DEF With, Handled, Row, IdOf, Expected
      <4> QED BY <2>1, <3>1, <4>2, <4>3 DEF ScoreInv, EvaluationIsHonest
    <3> QED BY <3>2, <3>3
  <2> QED BY <2>2, <2>3
<1>3. ScoreInv => EvaluationIsHonest
  BY DEF ScoreInv
<1> QED BY <1>1, <1>2, <1>3, RunInvariance, PTL DEF RunSpec
==============================================================================
