------------------------------- MODULE Dashboard -------------------------------
(***************************************************************************)
(* The dashboards (services/dashboard.py, routes/dashboard.py).  The real- *)
(* time dashboard computes the core metrics twice and the health of the    *)
(* providers twice, each by statements of its own.                         *)
(***************************************************************************)
EXTENDS Reports

Paid == {"success", "settled"}
Open == {"open", "acknowledged"}

\* Mismatches of the merchant's own runs.
OwnMismatches(m, s) ==
  {x \in In(s.results, {"unmatched", "weak"}) : \E run \in Own(m, s.runs) : run.id = x.run}

(* ---- _aggregate_core_metrics ---- *)

CoreReads(m, s) ==
  LET txs == Own(m, s.transactions) IN
  <<Every(txs), Every(In(txs, Paid)), Every(In(txs, {"failed"})), Every(In(txs, {"pending"})),
    Every(In(txs, Paid)), Every({t \in txs : t.settled # None /\ t.initiated # None}),
    Every(In(txs, {"failed", "pending"})), Every(Own(m, s.settlements)),
    Every(In(Own(m, s.incidents), Open)), Every(OwnMismatches(m, s))>>

\* Hours to the settlement, of those that were not settled before they were begun.
SettlementTime(rows) ==
  LET sane == {t \in rows : t.settled >= t.initiated} IN
  Mean(MapThenSumSet(LAMBDA t : t.settled - t.initiated, sane) \div Hour, sane)

Core(g) ==
  [total |-> Count(g[1]), success_rate |-> Rate(Count(g[2]), Count(g[1])),
   failed |-> Count(g[3]), pending |-> Count(g[4]), amount |-> Amount(g[5]),
   settlement_time |-> SettlementTime(g[6]), money_at_risk |-> Amount(g[7]),
   settlements |-> Count(g[8]), incidents |-> Count(g[9]), mismatches |-> Count(g[10])]

(* ---- _calculate_performance_metrics: core metrics, these two, provider health ---- *)

FailureReads(m, s) ==
  LET failed == In(Own(m, s.transactions), {"failed"}) IN
  <<Every({t \in failed : t.reason # None}), Every(failed)>>

\* The value most of the rows have; any one of those when several have it.
Commonest(rows, Key(_)) ==
  LET times(k) == Cardinality({t \in rows : Key(t) = k})
      keys == {Key(t) : t \in rows}
  IN IF rows = {} THEN None ELSE CHOOSE k \in keys : \A l \in keys : times(k) >= times(l)

TopErrorProvider(g) == Commonest(g[2], LAMBDA t : t.provider)
TopFailureReason(g) == Commonest(g[1], LAMBDA t : t.reason)

(* ---- _get_provider_health: four statements for each provider account ---- *)

HealthReads(m, g, s) ==
  LET accounts == IF g = <<>> THEN <<>> ELSE SetToSeq(g[1])
      reads(a) == LET txs == {t \in Own(m, s.transactions) : t.provider = a.provider} IN
        <<Every(txs), Every(In(txs, Paid)), Every(In(txs, {"failed"})),
          Latest({j \in Own(m, s.jobs) : j.account = a.id}, 10)>>
  IN <<Every(Own(m, s.accounts))>> \o FlattenSeq([i \in 1..Len(accounts) |-> reads(accounts[i])])

\* 40 % paid, 30 % completed syncs, 30 % not failed; a total of 0 counts as 1.
AccountHealth(account, total, paid, failed, jobs) ==
  LET rate(x) == (10000 * Count(x)) \div Max({1, Count(total)})
      uptime == Rate(Count(In(jobs, {"completed"})), Count(jobs))
  IN [provider |-> account.provider, rate |-> rate(paid), errors |-> rate(failed), uptime |-> uptime,
      score |-> (4 * rate(paid) + 3 * uptime + 3 * (10000 - rate(failed))) \div 10]

Health(g) ==
  LET accounts == SetToSeq(g[1]) IN
  {AccountHealth(accounts[i], g[4 * i - 2], g[4 * i - 1], g[4 * i], g[4 * i + 1]) : i \in 1..Len(accounts)}

(* ---- _get_operational_status ---- *)

OperationalStatus(core, errorProvider) ==
  LET rate == core.success_rate
      status == IF rate < 7000 \/ core.failed > 100 \/ core.incidents > 5 THEN "critical"
                ELSE IF rate < 8500 \/ core.failed > 50 \/ core.incidents > 2 THEN "degraded" ELSE "healthy"
  IN [status |-> status,
      score |-> CASE status = "critical" -> Min({rate, 4000})
                  [] status = "degraded" -> Min({rate, 7000})
                  [] OTHER -> rate,
      issues |-> {i \in {"rate", "failed", "incidents", "provider"} :
                    CASE i = "rate" -> rate < 9000
                      [] i = "failed" -> core.failed > 10
                      [] i = "incidents" -> core.incidents > 0
                      [] OTHER -> errorProvider # None}]

(* ---- _get_recent_activities, _get_open_alerts, get_top_transactions ---- *)

ActivityReads(m, s) ==
  <<Latest(In(Own(m, s.transactions), {"failed"}), 5), Latest(Own(m, s.incidents), 5),
    Latest(Own(m, s.alerts), 5)>>

\* The latest of what was read.
Activities(g, limit) ==
  LET all == Sorted(g[1] \cup g[2] \cup g[3], LAMBDA x, y : x.at > y.at) IN
  SubSeq(all, 1, Min({limit, Len(all)}))

OpenAlertReads(m, limit, s) == <<Latest(In(Own(m, s.alerts), {"open"}), limit)>>

TopTransactions(m, limit, s) == <<Largest(Own(m, s.transactions), LAMBDA t : t.amount, limit)>>

(* ---- _detect_anomalies ---- *)

\* The amount that 95 % of them do not exceed.
Percentile(rows) ==
  LET sorted == Sorted(rows, LAMBDA x, y : x.amount < y.amount)
      n == Len(sorted)
  IN IF n = 0 THEN None ELSE sorted[Min({n, (95 * n) \div 100 + 1})].amount

AnomalyReads(m, g, s) ==
  LET txs == Own(m, s.transactions)
      p95 == IF g = <<>> THEN None ELSE Percentile(g[1])
  IN <<Every({t \in txs : t.amount > 0})>>
     \o (IF p95 = None THEN <<>> ELSE <<Every({t \in txs : t.amount > p95 /\ t.at > Now - Hour})>>)
     \o <<Every({i \in Own(m, s.incidents) : i.at > Now - Hour})>>

Anomalies(core, g) ==
  {a \in {"outlier_transaction", "success_rate_drop", "incident_spike", "settlement_delay"} :
     CASE a = "outlier_transaction" -> Len(g) = 3 /\ g[2] # {}
       [] a = "success_rate_drop" -> core.success_rate < 8500
       [] a = "incident_spike" -> Count(g[Len(g)]) > 3
       [] OTHER -> core.settlement_time > 24}

(* ---- get_metrics_summary ---- *)

\* The first half hour of the period.  Day 0 is a Monday and the first of a month and of
\* the year; months have four weeks.
PeriodStart(period) ==
  CASE period = "today" -> Today * Day
    [] period = "week" -> (Today - (Today % 7)) * Day
    [] period = "month" -> (Today - (Today % 28)) * Day
    [] OTHER -> 0

SummaryReads(m, period, s) ==
  LET txs == {t \in Own(m, s.transactions) : t.at >= PeriodStart(period)} IN
  <<Every(txs), Every(In(txs, Paid)), Every(In(txs, {"failed"})), Every(In(txs, {"pending"})),
    Every(In(txs, Paid)), Every({t \in txs : t.fee # None}), Every({t \in txs : t.settled # None})>>

Summary(g) ==
  [total |-> Count(g[1]), success_rate |-> Rate(Count(g[2]), Count(g[1])),
   failed |-> Count(g[3]), pending |-> Count(g[4]), amount |-> Amount(g[5]),
   fees |-> MapThenSumSet(LAMBDA t : t.fee, g[6]),
   settlement_time |-> Mean(MapThenSumSet(LAMBDA t : t.settled - t.at, g[7]) \div Hour, g[7])]

(* ---- get_mission_control: statements of its own for the same figures ---- *)

MissionReads(m, s) ==
  LET txs == Own(m, s.transactions) IN
  <<Every(txs), Every(In(txs, Paid)), Every(In(txs, {"failed"})), Every(In(txs, {"failed", "pending"})),
    Every(Own(m, s.settlements)), Every(In(Own(m, s.incidents), Open)), Every(Own(m, s.accounts)),
    Every(In(s.results, {"unmatched", "weak"})), Every(In(Own(m, s.alerts), {"open"}))>>

\* Altered form: only failed payments are money at risk.
MissionWithoutPending(g) ==
  [success_rate |-> Rate(Count(g[2]), Count(g[1])), failed |-> Count(g[3]), money_at_risk |-> Amount(g[3]),
   settlements |-> Count(g[5]), incidents |-> Count(g[6]),
   providers |-> {[provider |-> a.provider, status |-> a.status] : a \in g[7]},
   mismatches |-> Count(g[8]), alerts |-> Count(g[9])]

Mission(g) ==
  [success_rate |-> Rate(Count(g[2]), Count(g[1])), failed |-> Count(g[3]), money_at_risk |-> Amount(g[4]),
   settlements |-> Count(g[5]), incidents |-> Count(g[6]),
   providers |-> {[provider |-> a.provider, status |-> a.status] : a \in g[7]},
   mismatches |-> Count(g[8]), alerts |-> Count(g[9])]

(* ---- What each route puts together ---- *)

DashboardNames == {"dashboard", "dashboard_metrics", "dashboard_providers", "dashboard_status",
                   "dashboard_activities", "dashboard_performance", "dashboard_anomalies", "mission_control"}

Periods == {"today", "week", "month", "year"}

\* The sections of a report, in the order they are computed; the metrics compute the
\* period that was asked for and then all of them.
DashboardParts(o) ==
  CASE o.name = "dashboard" -> <<"core", "core", "failures", "health", "health", "activities", "anomalies", "alerts">>
    [] o.name = "dashboard_metrics" -> <<o.period, "today", "week", "month", "year">>
    [] o.name = "dashboard_providers" -> <<"health">>
    [] o.name = "dashboard_status" -> <<"core", "core", "failures", "health">>
    [] o.name = "dashboard_activities" -> <<"activities">>
    [] o.name = "dashboard_performance" -> <<"core", "failures", "health">>
    [] o.name = "dashboard_anomalies" -> <<"core", "core", "failures", "health", "anomalies">>
    [] o.name = "mission_control" -> <<"mission">>

DashboardReads(part, o, g, s) ==
  LET m == Effective(o) IN
  CASE part = "core" -> CoreReads(m, s)
    [] part = "failures" -> FailureReads(m, s)
    [] part = "health" -> HealthReads(m, g, s)
    [] part = "activities" -> ActivityReads(m, s)
    [] part = "anomalies" -> AnomalyReads(m, g, s)
    [] part = "alerts" -> OpenAlertReads(m, 10, s)
    [] part = "mission" -> MissionReads(m, s)
    [] OTHER -> SummaryReads(m, part, s)

\* The rates and scores of a report, which its response schema wants to be percentages.
Rates(o, parts) ==
  LET health(g) == UNION {{h.rate, h.errors, h.uptime, h.score} : h \in Health(g)} IN
  CASE o.name = "dashboard" ->
         {Core(parts[1]).success_rate, Core(parts[2]).success_rate,
          OperationalStatus(Core(parts[1]), None).score} \cup health(parts[5])
    [] o.name = "dashboard_metrics" -> {Summary(parts[i]).success_rate : i \in 2..5}
    [] o.name = "dashboard_providers" -> health(parts[1])
    [] o.name = "dashboard_status" -> {OperationalStatus(Core(parts[1]), None).score}
    [] o.name = "dashboard_performance" -> {Core(parts[1]).success_rate}
    [] OTHER -> {}

\* A response that does not fit its schema is an error of the server.
DashboardAnswer(o, parts) == IF Rates(o, parts) \subseteq 0..10000 THEN "200" ELSE "500"
------------------------------------------------------------------------------
\* The two halves of a dashboard compute the same figures at different times, and so
\* does mission control: counts differ by no more than the rows that were changed or
\* inserted meanwhile, and what nobody changed is the same everywhere.
FiguresDriftByChanges ==
  \A r \in Requests : Reported(r, {"dashboard", "dashboard_status", "mission_control"}) =>
    LET o == op[r]
        now == CoreReads(Effective(o), store)
        reference == Core([i \in 1..10 |-> now[i].rows])
        figures == IF o.name = "mission_control" THEN Mission(got[r][1]) ELSE Core(got[r][1])
        again == IF o.name = "mission_control" THEN figures ELSE Core(got[r][2])
        drift == Count(touched[r])
        close(x, y) == x - y \in (0 - drift)..drift
    IN /\ \A f \in {"failed", "settlements", "incidents"} :
            close(figures[f], reference[f]) /\ close(figures[f], again[f])
       /\ drift = 0 => \A f \in {"success_rate", "money_at_risk"} :
                         figures[f] = reference[f] /\ figures[f] = again[f]
       /\ drift = 0 => answer[r] # "500"

\* A provider account's health is a percentage with every part of it, however few
\* transactions or syncs it has, unless the transactions change meanwhile.
QuietScoresAreInRange ==
  \A r \in Requests : Reported(r, {"dashboard", "dashboard_providers"}) /\ touched[r] = {} =>
    \A h \in Health(got[r][IF op[r].name = "dashboard" THEN 5 ELSE 1]) :
      /\ {h.rate, h.errors, h.uptime, h.score} \subseteq 0..10000
      /\ h.rate + h.errors <= 10000
      /\ h.score = 10000 => h.errors = 0 /\ h.rate = 10000 /\ h.uptime = 10000

\* Today is part of this week, this month and this year, and so are its figures.
PeriodsNest ==
  \A r \in Requests : Reported(r, {"dashboard_metrics"}) =>
    LET summaries == [i \in 2..5 |-> Summary(got[r][i])] IN
    /\ touched[r] = {} => summaries[2].amount <= summaries[3].amount /\ summaries[4].amount <= summaries[5].amount
    /\ \A i \in {3, 4, 5} : summaries[2].total <= summaries[i].total + Count(touched[r])
    /\ \A i \in 2..5 : summaries[i].failed + summaries[i].pending <= summaries[i].total + Count(touched[r])

\* The figures of the dashboard, each computed in several places, agree.
FiguresAgree == FiguresDriftByChanges /\ QuietScoresAreInRange /\ PeriodsNest
==============================================================================
