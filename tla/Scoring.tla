------------------------------- MODULE Scoring -------------------------------
(***************************************************************************)
(* How both matchers weigh what a transaction and an invoice share         *)
(* (_candidate).  Scores are exact sums in hundredths; the code adds       *)
(* floats, where sums of the same hundredths in another order may differ   *)
(* in the last bit and so break a tie that is one here.                    *)
(***************************************************************************)
EXTENDS Naturals

CONSTANTS DateTolerance, NearAmount    \* ReconciliationConfig

ASSUME ScoringAssumption == DateTolerance \in Nat /\ NearAmount \in Nat

\* Reference equal, difference in amount and in days, names similar, types compatible.
Evidence == [ref : BOOLEAN, amount : Nat, days : Nat, name : BOOLEAN, types : BOOLEAN]

Points(condition, n) == IF condition THEN n ELSE 0
AmountPoints(e) == IF e.amount = 0 THEN 30 ELSE Points(e.amount <= NearAmount, 20)
DatePoints(e) == IF e.days = 0 THEN 10 ELSE Points(e.days <= DateTolerance, 7)
Total(e) == Points(e.ref, 55) + AmountPoints(e) + DatePoints(e) + Points(e.name, 5)
              + Points(e.types, 5)
Score(e) == IF Total(e) > 100 THEN 100 ELSE Total(e)
=============================================================================
