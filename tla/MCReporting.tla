------------------------------ MODULE MCReporting ------------------------------
(***************************************************************************)
(* Instances of Reporting for TLC: small databases and the reports of them. *)
(***************************************************************************)
EXTENDS Reporting

CONSTANTS r1, r2

\* Noon of a Monday.
MCNow == 35 * 48 + 24

Tx(id, status, at, amount) ==
  [id |-> id, type |-> "transaction", merchant |-> "m1", provider |-> "p1", status |-> status, at |-> at,
   amount |-> amount, settled |-> None, initiated |-> None, reason |-> None, fee |-> None, email |-> "e1"]

Settled(t, from, to) == [t EXCEPT !.initiated = from, !.settled = to, !.fee = 1]

Row(type, id, at) == [id |-> id, type |-> type, merchant |-> "m1", at |-> at]

Of(transaction, id, status, at) == [id |-> id, transaction |-> transaction, status |-> status, at |-> at]

SettlementRow(id, at, settled) == Row("settlement", id, at) @@ [settled |-> settled, provider |-> "p1", status |-> "settled"]

IncidentRow(id, severity, at) ==
  Row("incident", id, at) @@ [status |-> "open", severity |-> severity, provider |-> "p1", amount |-> at]

AlertRow(id, at) ==
  Row("alert", id, at) @@ [status |-> "open", metadata |-> TRUE, kind |-> "reconciliation_mismatch"]

Job(id, status, at) == Row("sync_job", id, at) @@ [status |-> status, account |-> "acc1"]

MarRow(id, day, total) ==
  [id |-> id, merchant |-> "m1", day |-> day, pending |-> total, unreconciled |-> 0, failed |-> 0,
   total |-> total, score |-> 0]

HealthRow(id, day) ==
  [id |-> id, merchant |-> "m1", provider |-> "p1", day |-> day, count |-> 0, success |-> 0, fail |-> 0,
   settlements |-> 0, webhooks |-> 0, webhook_fail |-> 0, reliability |-> 10000, lag |-> 10000,
   webhook |-> 10000, outages |-> 0, status |-> "healthy"]

Empty ==
  [t \in {"transactions", "events", "results", "settlements", "incidents", "alerts", "jobs", "runs", "entries",
          "imports", "accounts", "sources", "bank_accounts", "money_at_risk", "health"} |-> {}]

\* A provider account without transactions, and one sync that failed.
New ==
  [Empty EXCEPT !.accounts = {[id |-> "acc1", merchant |-> "m1", provider |-> "p1", status |-> "active"]},
                !.sources = {[id |-> "src1", merchant |-> "m1", status |-> "error"]},
                !.jobs = {Job("j1", "failed_permanent", MCNow - 3)}]

\* A transaction in every state, at the ages that matter, and all that can hang on them.
Full ==
  [New EXCEPT
     !.transactions = {Tx("t1", "pending", MCNow - 1, 3), Settled(Tx("t2", "success", MCNow - 7 * 48, 5), 1, 9),
                       [Tx("t3", "failed", MCNow - 47, 2) EXCEPT !.reason = "funds"],
                       [Tx("t4", "settled", MCNow - 60, 4) EXCEPT !.merchant = "m2"]},
     !.events = {Of("t2", "e2", "success", MCNow - 300), Of("t3", "e3", "failed", MCNow - 40), Of("t3", "e4", "failed", MCNow - 41)},
     !.results = {[Of("t2", "x2", "unmatched", MCNow - 200) EXCEPT !.status = "unmatched"] @@ [run |-> "run1"]},
     !.runs = {Row("run", "run1", MCNow - 200)},
     !.settlements = {SettlementRow("s1", MCNow - 300, MCNow - 298)},
     !.incidents = {IncidentRow("i1", "critical", MCNow - 1), IncidentRow("i2", "medium", MCNow - 5)},
     !.alerts = {AlertRow("a1", MCNow - 1)},
     !.jobs = {Job("j1", "failed_permanent", MCNow - 3), Job("j2", "failed", MCNow - 90)},
     !.entries = {Row("entry", "b1", MCNow - 100) @@ [credit |-> 5, debit |-> 0]},
     !.imports = {[id |-> "u1", merchant |-> "m1", status |-> "uploaded"]},
     !.bank_accounts = {[id |-> "ba1", merchant |-> "m1", status |-> "pending"]},
     !.money_at_risk = {MarRow("d1", 34, 50)},
     !.health = {HealthRow("h1", 28), HealthRow("h2", 35)}]

\* Hours of failures between successes, and the money at risk of a week that falls to nothing.
Failing ==
  [New EXCEPT
     !.transactions = {Tx("t1", "success", MCNow - 12, 1), Tx("t2", "failed", MCNow - 10, 1),
                       Tx("t3", "failed", MCNow - 4, 1), Tx("t4", "success", MCNow - 2, 1),
                       Tx("t5", "pending", MCNow - 8, 1)},
     !.money_at_risk = {MarRow("d1", 33, 9), MarRow("d2", 34, 6), MarRow("d3", 35, 3)}]

\* Incidents of all severities, and one old transaction.
Alarming ==
  [Empty EXCEPT !.transactions = {Tx("t1", "success", MCNow - 400, 1)}, !.money_at_risk = {MarRow("d1", 35, 3)},
                !.incidents = {IncidentRow("i1", "critical", 1), IncidentRow("i2", "high", 2),
                               IncidentRow("i3", "high", 3), IncidentRow("i4", "medium", 4)}]

MCStores == {New, Full, Failing, Alarming}

By(name) == [name |-> name, role |-> "merchant_user", user |-> "m1", merchant |-> None]

AllReports ==
  {By(n) : n \in {"current_mar", "mar_breakdown", "save_mar", "actions", "action_stats", "dashboard",
                  "dashboard_providers", "dashboard_status", "dashboard_activities", "dashboard_performance",
                  "dashboard_anomalies", "mission_control"}}
  \cup {By(n) @@ [days |-> 14] : n \in {"mar_trend", "timeline_summary"}}
  \cup {By("dashboard_metrics") @@ [period |-> p] : p \in {"week", "decade"}}
  \cup {By("projection") @@ [days_ahead |-> d] : d \in {1, 5}}
  \cup {By("mar_alerts") @@ [threshold |-> 4, score_threshold |-> 1]}
  \cup {By("at_risk_transactions") @@ [category |-> c, limit |-> 2] : c \in {None, "failed", "all"}}
  \cup {By("legacy") @@ [from |-> None, to |-> MCNow - 2]}
  \cup {By("calculate_health") @@ [provider |-> "p1", day |-> 35], By("health_detail") @@ [provider |-> "p1"],
        By("health_history") @@ [provider |-> "p1", days |-> 1], By("health_summary") @@ [from |-> 30, to |-> None]}
  \cup {By("transaction_graph") @@ [id |-> i] : i \in {"t2", "t4"}}
  \cup {By("incident_graph") @@ [id |-> "i1"], By("settlement_graph") @@ [id |-> "s1"],
        By("customer_graph") @@ [id |-> "e1"], By("lifecycle") @@ [id |-> "t3"]}
  \cup {[By(n) EXCEPT !.merchant = "m1"] : n \in {"overview_graph", "network_graph"}}
  \cup {By("timeline") @@ [types |-> types, from |-> from, to |-> None, status |-> None, provider |-> None,
                           skip |-> skip, limit |-> 3] :
          types \in {{}, {"transaction_created", "sync_job_completed"}}, from \in {None, MCNow - 100}, skip \in {0, 2}}
  \cup {By("ai_query") @@ [category |-> c] : c \in Categories}
  \cup {By("ai_query_with_safety") @@ [category |-> "general"]}
  \cup {[By("current_mar") EXCEPT !.user = "m2", !.merchant = "m1"], [By("actions") EXCEPT !.role = "support"],
        [By("dashboard") EXCEPT !.user = None, !.role = "admin"]}

\* The second request only saves, too.
MCOperations == (r1 :> AllReports) @@ (r2 :> {By("save_mar"), By("calculate_health") @@ [provider |-> "p1", day |-> 35]})

MCArrivals ==
  {[table |-> "transactions", row |-> Tx("t9", "success", MCNow, 6)],
   [table |-> "events", row |-> Of("t3", "e9", "failed", MCNow)],
   [table |-> "incidents", row |-> IncidentRow("i9", "high", MCNow)],
   [table |-> "jobs", row |-> Job("j9", "completed", MCNow)]}

\* Two requests at a time only when they save.
Alone ==
  Cardinality({r \in Requests : op[r] # None}) > 1 =>
    \A r \in Requests : op[r] # None => op[r].name \in {"save_mar", "calculate_health"}
==============================================================================
