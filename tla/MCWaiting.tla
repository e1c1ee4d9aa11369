------------------------------- MODULE MCWaiting -------------------------------
(***************************************************************************)
(* The waiting of the components whose requests take row locks, one after  *)
(* the other: a behaviour belongs to one component, and leaves the         *)
(* variables of the others alone.  All of them answer every request.       *)
(***************************************************************************)
EXTENDS Integers, Sequences, TLC

CONSTANTS r1, r2, m1, m2, a, b, ada, bob, charge, ngn, None, Nameless

Requests == {r1, r2}

VARIABLES
  part, pc, input, work, answer, transactions,
  sources, settlements, events, alerts, jobs,  \* Ingestion
  expected, matched, batches, runs,     \* Reconciliation
  entries, imports, results             \* BankStatements

vars == <<part, pc, input, work, answer, transactions, sources, settlements, events, alerts, jobs,
          expected, matched, batches, runs, entries, imports, results>>

------------------------------------------------------------------------------
\* Syncs that list the same transactions, or settlements, in two orders, next to webhooks.
Webhook(n, s) ==
  [kind |-> "webhook", merchant |-> m2, event |-> charge,
   payload |-> [id |-> n, reference |-> None, status |-> s]]

Sync(type, s, names) ==
  [kind |-> "sync", type |-> type, merchant |-> m1,
   fetched |-> [k \in DOMAIN names |-> [id |-> names[k], reference |-> None, status |-> s, form |-> "good"]]]

Ingested ==
  {Webhook(a, "success"), Webhook(b, "failed")}
  \cup {Sync(type, s[1], s[2]) : type \in {"transactions", "settlements"},
                                s \in {<<"failed", <<a, b>>>>, <<"pending", <<b, a>>>>}}

Known == {[id |-> <<None, n>>, merchant |-> m1, ref |-> n, status |-> "success"] : n \in {a, b}}

I == INSTANCE Ingestion WITH
       Merchants <- {m1, m2}, Names <- {a, b}, EventNames <- {charge},
       Inputs <- Ingested, InitialSources <- {m1}, Earlier <- Known, EarlierSettlements <- Known

\* Both payments are matched by customer in the short period, and the second one by
\* reference in the long one, which so takes it first.
By(who) == <<who, None, None>>

Due(ref, amount, customer) ==
  [ref |-> ref, amount |-> amount, currency |-> ngn, day |-> 3, customer |-> customer]

Txn(id, ref, amount, day, customer) ==
  [id |-> id, refs |-> {ref}, amount |-> amount, currency |-> ngn, day |-> day, customer |-> customer]

Refused ==
  [items |-> <<[form |-> "good", item |-> Due(2, 90, By(bob))],
               [form |-> "unsearchable", item |-> Due(2, 90, By(None))]>>,
   errors |-> 0]

R == INSTANCE Reconciliation WITH
       References <- 0..4, Currencies <- {ngn}, Contacts <- {ada, bob},
       Earlier <- {Due(1, 100, By(ada)), Due(2, 90, By(bob))},
       Payments <- {Txn(1, 3, 100, 3, By(ada)), Txn(2, 4, 90, 3, By(bob)), Txn(3, 2, 90, 5, By(None))},
       Imports <- {Refused}, Ranges <- {<<3, 4>>, <<3, 5>>}

\* Statements with the same lines in two orders.
Line(n) ==
  [described |-> TRUE, dated |-> TRUE, finite |-> TRUE, storable |-> TRUE, debit |-> None,
   credit |-> [minor |-> n, short |-> FALSE], reference |-> None, currency |-> ngn, day |-> 10]

Statement(rows) == [type |-> "csv", intact |-> TRUE, rows |-> rows]

B == INSTANCE BankStatements WITH
       Currencies <- {ngn}, Window <- 7,
       Payments <- {[id |-> 1, refs |-> {1}, amount |-> 5, currency |-> ngn, day |-> 17]},
       Files <- {Statement(<<Line(5), Line(6)>>), Statement(<<Line(6), Line(5)>>)}

------------------------------------------------------------------------------
ingestionOnly == <<sources, settlements, events, alerts, jobs>>
reconciliationOnly == <<expected, matched, batches, runs>>
statementsOnly == <<entries, imports, results>>

Init ==
  \/ /\ part = "ingestion" /\ I!Init
     /\ expected = {} /\ matched = {} /\ batches = {} /\ runs = {}
     /\ entries = {} /\ imports = {} /\ results = {}
  \/ /\ part = "reconciliation" /\ R!Init
     /\ sources = {} /\ settlements = {} /\ events = {} /\ alerts = {} /\ jobs = {}
     /\ entries = {} /\ imports = {} /\ results = {}
  \/ /\ part = "statements" /\ B!Init
     /\ sources = {} /\ settlements = {} /\ events = {} /\ alerts = {} /\ jobs = {}
     /\ expected = {} /\ matched = {} /\ batches = {} /\ runs = {}

Next ==
  \/ part = "ingestion" /\ I!Next /\ UNCHANGED <<part, reconciliationOnly, statementsOnly>>
  \/ part = "reconciliation" /\ R!Next /\ UNCHANGED <<part, ingestionOnly, statementsOnly>>
  \/ part = "statements" /\ B!Next /\ UNCHANGED <<part, ingestionOnly, reconciliationOnly>>

Step(r) ==
  \/ part = "ingestion" /\ I!Step(r) /\ UNCHANGED <<part, reconciliationOnly, statementsOnly>>
  \/ part = "reconciliation" /\ R!Step(r) /\ UNCHANGED <<part, ingestionOnly, statementsOnly>>
  \/ part = "statements" /\ B!Step(r) /\ UNCHANGED <<part, ingestionOnly, reconciliationOnly>>

Spec == Init /\ [][Next]_vars /\ \A r \in Requests : WF_vars(Step(r))

\* Requests that wait for one another's rows, webhooks and syncs, imports and runs,
\* uploads of the same lines, are all answered.
EveryRequestEnds == \A r \in Requests : pc[r] # "idle" ~> pc[r] = "done"
==============================================================================
