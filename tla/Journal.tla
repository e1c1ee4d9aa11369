------------------------------- MODULE Journal -------------------------------
(***************************************************************************)
(* What the ledger promises: accounts are opened once and never closed, an *)
(* entry is appended whole to an account of its own merchant, a key names  *)
(* at most one entry, and nothing appended ever changes.                   *)
(***************************************************************************)
CONSTANTS
  Accounts,       \* every account that may be opened
  Postings,       \* every well-formed entry
  None            \* the key of an entry posted without one

VARIABLES
  accounts,       \* the open accounts
  entries         \* the journal

vars == <<accounts, entries>>

Init ==
  /\ accounts \subseteq Accounts
  /\ entries = {}

Open(a) ==
  /\ accounts' = accounts \cup {a}
  /\ UNCHANGED entries

Append(e) ==
  /\ e.account \in accounts
  /\ e.account.merchant = e.merchant
  /\ \A f \in entries : f.id # e.id /\ (e.key # None => f.key # e.key)
  /\ entries' = entries \cup {e}
  /\ UNCHANGED accounts

Next == (\E a \in Accounts : Open(a)) \/ (\E e \in Postings : Append(e))

Spec == Init /\ [][Next]_vars
==============================================================================
