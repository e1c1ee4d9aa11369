--------------------------- MODULE MCBankStatements ---------------------------
(***************************************************************************)
(* Instances of BankStatements for TLC.                                    *)
(***************************************************************************)
EXTENDS BankStatements, TLC

CONSTANTS r1, r2, r3, ngn

Symmetry == Permutations(Requests)

Exactly(n) == [minor |-> n, short |-> FALSE]

Row(debit, credit, reference) ==
  [described |-> TRUE, dated |-> TRUE, finite |-> TRUE, storable |-> TRUE,
   debit |-> debit, credit |-> credit, reference |-> reference, currency |-> ngn, day |-> 10]

Csv(rows) == [type |-> "csv", intact |-> TRUE, rows |-> rows]
Xlsx(rows) == [type |-> "xlsx", intact |-> TRUE, rows |-> rows]

Paid == Row(None, Exactly(500), 1)
Sent == Row(Exactly(1999), None, None)
Cut  == Row([minor |-> 1999, short |-> TRUE], None, None)

MCFiles ==
  {Csv(<<Paid, Sent>>), Csv(<<Sent, Paid, Sent>>),
   Csv(<<[Paid EXCEPT !.described = FALSE], Cut>>), Csv(<<[Paid EXCEPT !.finite = FALSE]>>),
   Xlsx(<<Paid, [Sent EXCEPT !.storable = FALSE]>>),
   Xlsx(<<Sent, [Paid EXCEPT !.dated = FALSE, !.storable = FALSE]>>),
   [type |-> "xlsx", intact |-> FALSE, rows |-> <<>>]}

MCPayments ==
  {[id |-> 1, refs |-> {1, 2}, amount |-> 500, currency |-> ngn, day |-> None],
   [id |-> 2, refs |-> {3}, amount |-> 1999, currency |-> ngn, day |-> 17]}
==============================================================================
