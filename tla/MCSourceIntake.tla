---------------------------- MODULE MCSourceIntake ----------------------------
(* Model-checking instances of SourceIntake.                                   *)
EXTENDS SourceIntake, FiniteSets
Seqs == INSTANCE SequencesExt

H(c, w) == [column |-> c, written |-> w]
File(s, x, b, n, h, r) ==
  [source |-> s, suffix |-> x, large |-> FALSE, bom |-> b, preamble |-> n, header |-> h, rows |-> r]
Row(n) == [i \in 1 .. n |-> "good"]

BankOrders == {<<"transaction_id", "transaction_date", "amount", "credit", "narration",
                 "reference", "account_number">>,
               <<"reference", "amount", "transaction_date", "narration", "account_number",
                 "debit", "transaction_id">>}
DatedOrders == {<<"transaction_id", "transaction_date", "value_date", "amount", "credit",
                  "narration", "reference", "account_number">>}
PurchaseOrders == {<<"gstin", "invoice_number", "invoice_date", "vendor_name", "taxable_value",
                     "total", "invoice_record_id">>}
\* Up to two of the columns are written otherwise, one may be left out, one may come twice.
Written(order, kinds) ==
  {[i \in DOMAIN order |-> H(order[i], w[i])] :
     w \in {v \in [DOMAIN order -> kinds] : Cardinality({i \in DOMAIN v : v[i] # "exact"}) < 3}}
Without(h) == {[i \in 1 .. Len(h) - 1 |-> IF i < k THEN h[i] ELSE h[i + 1]] : k \in DOMAIN h}
Doubled(h) == {Append(h, H(h[k].column, w)) : k \in DOMAIN h, w \in {"exact", "restyled", "alias"}}
Headers(orders) ==
  LET plain == {[i \in DOMAIN q |-> H(q[i], "exact")] : q \in orders}
  IN  UNION {Written(q, {"exact", "restyled", "alias"}) : q \in orders}
        \cup UNION {Without(h) \cup Doubled(h) : h \in plain}
OddRows(n) ==
  {[Row(n) EXCEPT ![k] = v] : k \in 1 .. n, v \in Cell}
    \cup {<<>>, Row(n - 1), Row(n + 1)}

Odd(s, orders) ==
  UNION {{File(s, "csv", FALSE, 0, [i \in DOMAIN q |-> H(q[i], "exact")], <<Row(Len(q)), r>>) :
            r \in OddRows(Len(q))} : q \in orders}
Csv(s, orders) ==
  {File(s, "csv", b, 0, h, <<Row(Len(h))>>) : b \in BOOLEAN, h \in Headers(orders)}
    \cup Odd(s, orders)
Void == {File(s, "csv", FALSE, 0, [i \in DOMAIN q |-> H(q[i], "exact")], <<<<>>>>) :
           s \in {"bank"}, q \in BankOrders}

TallyHeader == <<H("transaction_date", "alias"), H("amount", "exact"),
                 H("transaction_type", "exact"), H("source_record_id", "restyled")>>
Sheets == {File("tally", "xlsx", FALSE, n, TallyHeader, <<[i \in 1 .. 4 |-> "spaces"], Row(3)>>) :
             n \in {ScanRows - 1, ScanRows}}
Field(c, w, v) == [key |-> H(c, w), value |-> v]
Record(total) == <<Field("invoice_number", "exact", "good"), Field("invoice_date", "exact", "good"),
                   Field("amount", "exact", "good"), Field("counterparty_gstin", "alias", "good")>>
                 \o total
Jsons == {File("gst", "json", FALSE, 0, <<>>, <<Record(t), Record(<<>>)>>) :
            t \in {<<>>, <<Field("amount", "alias", "zero")>>, <<Field("cgst", "exact", "zero")>>}}
\* A complete file of every source, and one that lacks a column.
Plain(s) == {[i \in 1 .. n |-> H(Seqs!SetToSeq(Contract[s].required)[i], "exact")] :
               n \in {Cardinality(Contract[s].required), Cardinality(Contract[s].required) - 1}}
Complete == UNION {{File(s, "csv", FALSE, 0, h, <<Row(Len(h))>>) : h \in Plain(s)} : s \in Source}
Others == {File("bank", "pdf", FALSE, 0, <<>>, <<>>), File("gst", "csv", FALSE, 0, TallyHeader, <<>>),
           [File("bank", "csv", FALSE, 0, <<>>, <<>>) EXCEPT !.large = TRUE]}

MCFiles == Csv("bank", BankOrders) \cup Csv("purchase_register", PurchaseOrders)
             \cup Odd("bank", DatedOrders) \cup Void \cup Sheets \cup Jsons \cup Complete \cup Others
=============================================================================
