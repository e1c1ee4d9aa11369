------------------------------- MODULE MCLedger -------------------------------
(***************************************************************************)
(* Instances of Ledger for TLC: two merchants, of which m1 has an account, *)
(* and the postings that tell the code's checks apart.                     *)
(***************************************************************************)
EXTENDS Ledger, TLC

CONSTANTS r1, r2, r3, m1, m2, main, fee, k1

Symmetry == Permutations(Requests)

L(c, t, n) == [code |-> c, type |-> t, amount |-> n]

Good     == <<L(main, "DEBIT", 2), L(fee, "CREDIT", 1), L(main, "CREDIT", 1)>>
Lopsided == <<L(main, "DEBIT", 2), L(fee, "CREDIT", 1)>>
Short    == <<L(main, "DEBIT", 1)>>
Zero     == <<L(main, "DEBIT", 0), L(fee, "CREDIT", 0)>>
Uncoded  == <<L(main, "DEBIT", 1), L(None, "CREDIT", 1)>>
Typeless == <<L(main, "DEBIT", 1), L(fee, "CREDIT", 1), L(fee, "OTHER", 1)>>

Acct(m, c) == [merchant |-> m, code |-> c]

Post(m, a, k, l) == [kind |-> "post", merchant |-> m, account |-> a, key |-> k, lines |-> l]

MCInitialAccounts == {Acct(m1, main)}

MCAccountInputs == {[kind |-> "account", account |-> Acct(m2, main)]}

MCInputs ==
  MCAccountInputs
  \cup {Post(m1, Acct(m1, main), k, Good) : k \in {None, EmptyKey, k1}}
  \cup {Post(m1, Acct(m1, main), k1, l) : l \in {Lopsided, Short, Uncoded}}
  \cup {Post(m2, a, k1, Good) : a \in {Acct(m1, main), Acct(m2, main)}}
  \cup {[kind |-> "fee", merchant |-> m1, entry |-> r1, amount |-> n] : n \in {0, 1}}

\* Every way a posting can fail validation, alone and next to a valid one.
MCInvalidInputs ==
  {Post(m1, Acct(m1, main), None, l) : l \in {Good, Lopsided, Short, Zero, Uncoded, Typeless}}
=============================================================================
