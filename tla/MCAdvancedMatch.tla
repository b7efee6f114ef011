--------------------------- MODULE MCAdvancedMatch ---------------------------
(* Model-checking instance of AdvancedMatch.                                  *)
EXTENDS AdvancedMatch

Acme == [tokens |-> {"acme", "corp"}, joined |-> "acmecorp", plain |-> "acmecorp"]
\* The same letters in one word: no token in common.
Fused == [tokens |-> {"acmecorp"}, joined |-> "acmecorp", plain |-> "acmecorp"]
Zeta == [tokens |-> {"zeta"}, joined |-> "zeta", plain |-> "zeta"]
Nameless == [tokens |-> {}, joined |-> None, plain |-> None]

Rec(a, n, name, d, t) == [amount |-> a, number |-> n, name |-> name, day |-> d, type |-> t]

\* Amounts on both sides of a bucket boundary (4 and 8), whole and partial payments of the
\* same invoices, two and three invoices that add up exactly or nearly, a reference with
\* a strange name, a missing one.
MCBanks == {Rec(3, "n1", Acme, 2, "PAYMENT"), Rec(2, None, Acme, 0, "PAYMENT"),
            Rec(8, None, Acme, 0, "PAYMENT"), Rec(4, "n1", Zeta, 9, "PAYMENT"),
            Rec(3, None, Nameless, 0, "PAYMENT")}
MCInvoices == {Rec(3, "n1", Acme, 3, "PURCHASE"), Rec(5, "n1", Acme, 0, "PURCHASE"),
               Rec(2, "n3", Acme, 2, "PURCHASE"), Rec(8, "n1", Acme, 3, "PURCHASE"),
               Rec(4, None, Fused, 2, "PURCHASE")}
MCSimilar == {<<Acme, Acme>>, <<Acme, Fused>>, <<Fused, Acme>>, <<Fused, Fused>>, <<Zeta, Zeta>>}
=============================================================================
