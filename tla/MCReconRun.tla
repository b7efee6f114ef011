----------------------------- MODULE MCReconRun -----------------------------
(* Model-checking instances of ReconRun and of the MatchEngine it extends.    *)
EXTENDS ReconRun

Kind(r, a, d, n, t) == [ref |-> r, amount |-> a, days |-> d, name |-> n, types |-> t]

\* Exact ones that differ by name and date, conflicts in amount and in date, strong and
\* weak candidates without reference, and nothing in common.
MCEvidences == {Kind(TRUE, 0, 0, TRUE, TRUE), Kind(TRUE, 0, 3, FALSE, TRUE),
                Kind(TRUE, 2, 4, TRUE, TRUE), Kind(FALSE, 0, 1, TRUE, TRUE),
                Kind(FALSE, 1, 3, FALSE, TRUE), Kind(FALSE, 2, 3, TRUE, TRUE)}

\* Registers and bank files with ids that differ and that do not.
MCInvoiceIds == {<<1, 2>>, <<1, 1>>}
MCBankIds == {<<1, 2>>, <<1, 1>>}

T(b, i) == [bank |-> b, invoice |-> i]
\* Fitting, ambiguous and unfitting ground truths.
MCTruths == {None, <<T(1, 1), T(2, 2)>>, <<T(2, None), T(1, 2)>>, <<T(1, 1), T(1, 2)>>, <<T(1, 1)>>}
=============================================================================
