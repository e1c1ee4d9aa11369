----------------------------- MODULE MCIngestion -----------------------------
(***************************************************************************)
(* Instances of Ingestion for TLC.  m1 already has a webhook data source,  *)
(* m2 has none; a to d are transactions of the provider.                   *)
(***************************************************************************)
EXTENDS Ingestion, TLC

CONSTANTS r1, r2, r3, m1, m2, a, b, c, d, charge

Symmetry == Permutations(Requests)

Pay(n, s) == [id |-> n, reference |-> None, status |-> s]

Rec(n, s, f) == [id |-> n, reference |-> None, status |-> s, form |-> f]

Webhook(m, p) == [kind |-> "webhook", merchant |-> m, event |-> charge, payload |-> p]

SyncOf(type, m, f) == [kind |-> "sync", type |-> type, merchant |-> m, fetched |-> f]

Sync(m, f) == SyncOf("transactions", m, f)

Unnamed == [id |-> None, reference |-> b, status |-> "success"]

\* c and d are recorded; two syncs list them in two orders.
MCEarlier ==
  {[id |-> <<None, n>>, merchant |-> m1, ref |-> n, status |-> "success"] : n \in {c, d}}

\* A settlement that is recorded, and, by the name of a transaction, one that is not.
MCEarlierSettlements == {[id |-> <<None, d>>, merchant |-> m1, ref |-> d, status |-> "pending"]}

MCInputs ==
  {Webhook(m1, Pay(a, s)) : s \in {"success", "abandoned"}}
  \cup {Webhook(m2, Pay(b, "failed")), Webhook(m2, Unnamed), Webhook(None, Pay(a, "success"))}
  \cup {Sync(m1, <<Rec(c, "failed", "good"), Rec(d, "failed", "good"), Rec(a, "pending", "good")>>),
        Sync(m1, <<Rec(d, "failed", "good"), Rec(c, "failed", "good"), Rec(b, "failed", "unreadable")>>),
        Sync(m2, <<Rec(b, "pending", "good"), Rec(a, "success", "unstorable")>>),
        SyncOf("settlements", m1, <<Rec(d, "completed", "good"), Rec(c, "pending", "unreadable"), Rec(b, "failed", "good")>>),
        SyncOf("settlements", m1, <<Rec(b, "pending", "good"), Rec(d, "failed", "good")>>),
        SyncOf("transfers", m2, <<Rec(a, "pending", "good"), Rec(b, "pending", "unreadable")>>),
        SyncOf("refunds", m2, <<>>)}
==============================================================================
