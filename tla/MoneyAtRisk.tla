------------------------------ MODULE MoneyAtRisk ------------------------------
(***************************************************************************)
(* Money at risk (services/money_at_risk.py, routes/analytics.py): what is *)
(* pending, unreconciled or failed for too long, its daily snapshots, their *)
(* trend and projection.                                                   *)
(***************************************************************************)
EXTENDS Reports

\* Snapshots are written by these reports alone, and the database keeps one for a day.
ASSUME SnapshotsAssumption ==
  /\ \A s \in Stores :
       /\ "money_at_risk" \in DOMAIN s
       /\ \A x \in s.money_at_risk : {"merchant", "day"} \subseteq DOMAIN x
       /\ \A x, y \in s.money_at_risk : x.merchant = y.merchant /\ x.day = y.day => x = y
  /\ \A a \in Arrivals : a.table # "money_at_risk"

\* A transaction has a time and an amount in kobo, as its provider reported them.
Priced(t) == {"at", "amount"} \subseteq DOMAIN t /\ t.at \in Int /\ t.amount \in Nat

\* Totals of snapshots are sums of such amounts; the days ahead are validated by the route.
ASSUME AmountsAssumption ==
  /\ \A s \in Stores :
       /\ \A t \in s.transactions : Priced(t)
       /\ IsFiniteSet(s.money_at_risk)
       /\ \A x \in s.money_at_risk : "total" \in DOMAIN x /\ x.total \in Nat
  /\ \A a \in Arrivals : a.table = "transactions" => Priced(a.row)
  /\ \A r \in Requests : \A o \in Operations[r] : o.name = "projection" => o.days_ahead \in Nat

(* ---- calculate_mar_for_merchant ---- *)

AtRisk(m, status, age, s) ==
  {t \in Own(m, s.transactions) : t.status = status /\ t.at <= Now - age}

\* Altered form: the reports of failed transfers start with the pending ones' age.
MarReadsEarly(o, s) ==
  LET m == Effective(o) IN
  <<Every(AtRisk(m, "pending", 1, s)), Every(AtRisk(m, "success", 7 * Day, s)),
    Every(AtRisk(m, "failed", 1, s))>>

\* Pending for half an hour, successful but not settled for a week, failed a day ago.
MarReads(o, s) ==
  LET m == Effective(o) IN
  <<Every(AtRisk(m, "pending", 1, s)), Every(AtRisk(m, "success", 7 * Day, s)),
    Every(AtRisk(m, "failed", Day, s))>>

Figures(rows) == [amount |-> Amount(rows), count |-> Count(rows)]

Age(t) == Now - t.at

Ages(rows) == MapThenSumSet(LAMBDA t : Age(t), rows)
AgesInDays(rows) == MapThenSumSet(LAMBDA t : Age(t) \div Day, rows)

\* Between 0 and 100, from the amount, the count, the age of the pending and of the
\* unreconciled ones and the failed ones.
RiskScore(pending, unreconciled, failed) ==
  LET total == Amount(pending) + Amount(unreconciled) + Amount(failed)
      count == Count(pending) + Count(unreconciled) + Count(failed)
      pendingScore == IF pending = {} THEN 0 ELSE (25 * Ages(pending)) \div (48 * Hour * Count(pending))
      unreconciledScore ==
        IF unreconciled = {} THEN 0 ELSE (10 * AgesInDays(unreconciled)) \div (30 * Count(unreconciled))
  IN Min({100, Min({30, (30 * total) \div 1000000}) + Min({20, count \div 10})
                 + Min({25, pendingScore}) + Min({15, 2 * Count(failed)}) + Min({10, unreconciledScore})})

\* Over the three lists, one after the other.
ByProvider(lists) ==
  [p \in {t.provider : t \in lists[1] \cup lists[2] \cup lists[3]} |->
     LET Of(i) == {t \in lists[i] : t.provider = p} IN
     [amount |-> Amount(Of(1)) + Amount(Of(2)) + Amount(Of(3)),
      count |-> Count(Of(1)) + Count(Of(2)) + Count(Of(3))]]

Mar(g) ==
  [pending |-> Figures(g[1]), unreconciled |-> Figures(g[2]), failed |-> Figures(g[3]),
   total |-> Amount(g[1]) + Amount(g[2]) + Amount(g[3]),
   score |-> RiskScore(g[1], g[2], g[3]),
   by_provider |-> ByProvider(g)]

(* ---- save_daily_snapshot: calculate, look for today's row, update or insert it ---- *)

SnapshotReads(o, s) ==
  MarReads(o, s) \o <<Every({x \in Own(Effective(o), s.money_at_risk) : x.day = Today})>>

Snapshot(id, m, g) ==
  [id |-> id, merchant |-> m, day |-> Today, pending |-> Figures(g[1]).amount,
   unreconciled |-> Figures(g[2]).amount, failed |-> Figures(g[3]).amount,
   total |-> Mar(g).total, score |-> Mar(g).score]

\* Altered form: there is no unique constraint.
TakenUnchecked(new) == {}

\* The rows an insert conflicts with, by the unique constraint on merchant and day.
Taken(new) == {x \in store.money_at_risk : x.merchant = new.merchant /\ x.day = new.day}

Put(id, row) == store' = [store EXCEPT !.money_at_risk = {x \in @ : x.id # id} \cup {row}]

\* The flush and the commit that follows it.  An update writes the columns that differ
\* from the row as it was read; an insert of a second row for a day is refused, and the
\* request fails.
SaveSnapshot(r) ==
  LET g == got[r][1]
      new == Snapshot(r, Effective(op[r]), g)
  IN \/ /\ g[4] = {} /\ Taken(new) = {}
        /\ Put(r, new) /\ Answer(r, "200")
     \/ /\ g[4] = {} /\ Taken(new) # {}
        /\ UNCHANGED store /\ Answer(r, "500")
     \/ \E read \in g[4] : \E row \in store.money_at_risk :
          /\ row.id = read.id
          /\ Put(row.id, [c \in DOMAIN row |-> IF c # "id" /\ new[c] # read[c] THEN new[c] ELSE row[c]])
          /\ Answer(r, "200")

(* ---- get_mar_trend, project_resolution, get_alerts_for_high_mar ---- *)

Since(m, days, s) == {x \in Own(m, s.money_at_risk) : x.day >= Today - days}

TrendReads(o, s) == <<Every({x \in Since(Effective(o), o.days, s) : x.day <= Today})>>

ProjectionReads(o, s) == <<Every(Since(Effective(o), 14, s))>>

ByDay(rows) == Sorted(rows, LAMBDA x, y : x.day < y.day)

Trend(g) == [i \in 1..Len(ByDay(g[1])) |->
               LET x == ByDay(g[1])[i] IN [day |-> x.day, total |-> x.total, score |-> x.score]]

NoProjection == [days |-> None, points |-> <<>>, confidence |-> "low"]

\* The amount falls by the mean of the days that were read; points are the amounts of the
\* days from today on, times the number n of days read, as the mean is drop / n.
Projection(o, g) ==
  LET xs == ByDay(g[1])
      n == Len(xs)
      drop == IF n = 0 THEN 0 ELSE xs[1].total - xs[n].total
      clear == (xs[n].total * n) \div drop
      length == Min({o.days_ahead, IF clear > 0 THEN clear + 1 ELSE o.days_ahead})
  IN IF n = 0 \/ drop <= 0 THEN NoProjection
     ELSE [days |-> IF clear > o.days_ahead THEN None ELSE clear,
           points |-> [d \in 1..length |-> Max({0, xs[n].total * n - drop * (d - 1)})],
           confidence |-> IF n >= 7 THEN "medium" ELSE "low"]

OfDay(m, day, s) == {x \in Own(m, s.money_at_risk) : x.day = day}

MarAlertReads(o, g, s) ==
  IF g # <<>> /\ g[1] = {} THEN <<Every({})>>
  ELSE <<Every(OfDay(Effective(o), Today, s)), Every(OfDay(Effective(o), Today - 1, s))>>

MarAlerts(o, g) ==
  IF g[1] = {} THEN {}
  ELSE LET x == CHOOSE x \in g[1] : TRUE IN
       {a \in {"high_amount", "high_risk_score", "worsening_trend"} :
          CASE a = "high_amount" -> x.total > o.threshold
            [] a = "high_risk_score" -> x.score > o.score_threshold
            [] OTHER -> \E y \in g[2] : 10 * x.total > 12 * y.total}

(* ---- identify_at_risk_transactions ---- *)

\* Without a category no age is asked for: Python's `and` of two conditions is the first
\* one when the first is not true of the column objects, and == on columns is not.
AtRiskTransactions(o, s) ==
  LET m == Effective(o) IN
  CASE o.category = "pending" -> AtRisk(m, "pending", 1, s)
    [] o.category = "unreconciled" -> AtRisk(m, "success", 7 * Day, s)
    [] o.category = "failed" -> AtRisk(m, "failed", Day, s)
    [] OTHER -> In(Own(m, s.transactions), {"pending", "success", "failed"})

AtRiskReads(o, s) == <<Latest(AtRiskTransactions(o, s), o.limit)>>

(* ---- calculate, the older report ---- *)

Within(o, rows) ==
  {t \in rows : (o.from # None => t.at >= o.from) /\ (o.to # None => t.at <= o.to)}

LegacyReads(o, s) ==
  LET m == Effective(o)
      dated == Within(o, Own(m, s.transactions))
  IN <<Every(In(dated, {"failed"})), Every(In(dated, {"pending"})), Every(In(dated, {"success"})),
       Every(In(s.results, {"unmatched", "weak", "ambiguous"})), Every(In(s.results, {"duplicate"})),
       Every({a \in Own(m, s.alerts) : a.kind = "reconciliation_mismatch" /\ a.status = "open"}),
       Largest(In(Own(m, s.incidents), {"open", "acknowledged"}), LAMBDA i : i.amount, 5)>>

\* The total leaves the successful ones out; mismatches, duplicates and disputes are
\* counted and have no amount.
Legacy(g) ==
  [total |-> Amount(g[1]) + Amount(g[2]),
   count |-> Count(g[1]) + Count(g[2]),
   providers |-> [p \in {t.provider : t \in g[1] \cup g[2]} |->
                    Amount({t \in g[1] : t.provider = p}) + Amount({t \in g[2] : t.provider = p})],
   incidents |-> g[7],
   actions |-> {a \in {"failed", "hanging", "mismatch", "duplicate"} :
                  CASE a = "failed" -> Amount(g[1]) > 0
                    [] a = "hanging" -> Amount(g[2]) > 0
                    [] a = "mismatch" -> g[4] # {}
                    [] OTHER -> g[5] # {}}]

(* ---- The routes ---- *)

MarNames == {"current_mar", "mar_breakdown", "save_mar", "mar_trend", "projection", "mar_alerts",
             "at_risk_transactions", "legacy"}

MarReport(o, g, s) ==
  CASE o.name \in {"current_mar", "mar_breakdown"} -> MarReads(o, s)
    [] o.name = "save_mar" -> SnapshotReads(o, s)
    [] o.name = "mar_trend" -> TrendReads(o, s)
    [] o.name = "projection" -> ProjectionReads(o, s)
    [] o.name = "mar_alerts" -> MarAlertReads(o, g, s)
    [] o.name = "at_risk_transactions" -> AtRiskReads(o, s)
    [] OTHER -> LegacyReads(o, s)

------------------------------------------------------------------------------
MarReports == {"current_mar", "mar_breakdown", "save_mar"}

\* What the class says money at risk is.
Exposed(t) ==
  \/ t.status = "pending" /\ Age(t) * 30 >= 30
  \/ t.status = "success" /\ Age(t) >= 7 * 48
  \/ t.status = "failed" /\ Age(t) >= 48

OverProviders(by) == FoldFunction(LAMBDA x, y : x.amount + y, 0, by)

\* The three lists of a money-at-risk report are read one after the other: a transaction
\* of the merchant nobody has changed since is in exactly one of them if it is exposed and
\* in none otherwise, one of another merchant in none; the amounts by provider and those
\* by status sum to the same total, also when a transaction moved between the reads.
UntouchedCountedOnce ==
  \A r \in Requests : Reported(r, MarReports) =>
    LET g == got[r][1]
        figures == Mar(g)
        steady == {t \in store.transactions : t.id \notin touched[r]}
        lists(t) == {i \in 1..3 : t \in g[i]}
    IN /\ \A t \in steady :
            Cardinality(lists(t)) = IF t.merchant = Effective(op[r]) /\ Exposed(t) THEN 1 ELSE 0
       /\ figures.total = figures.pending.amount + figures.unreconciled.amount + figures.failed.amount
       /\ figures.total = OverProviders(figures.by_provider)
       /\ figures.score \in 0..100

\* A merchant has one snapshot for a day, however many save it at the same time, and a
\* save that was answered 200 finds it there.
OneSnapshotPerDay ==
  /\ \A x, y \in store.money_at_risk : x.merchant = y.merchant /\ x.day = y.day => x = y
  /\ \A r \in Requests : op[r] # None /\ op[r].name = "save_mar" /\ answer[r] = "200" =>
       \E x \in store.money_at_risk : x.merchant = Effective(op[r]) /\ x.day = Today

\* A projection that names a day of resolution within its timeline has come within one
\* day's reduction of zero by that day and not before it, and never rises.
ProjectionsReachTheirDay ==
  \A r \in Requests : Reported(r, {"projection"}) =>
    LET p == Projection(op[r], got[r][1])
        xs == ByDay(got[r][1][1])
        drop == xs[1].total - xs[Len(xs)].total
    IN p.days # None =>
         /\ \A d \in 2..Len(p.points) : p.points[d] <= p.points[d - 1]
         /\ p.days < op[r].days_ahead =>
              /\ p.days + 1 \in DOMAIN p.points
              /\ p.points[p.days + 1] < drop
              /\ \A d \in 1..p.days : p.points[d] >= drop

\* The money at risk that is reported is what is there, and what is projected from it.
RiskIsWhole == UntouchedCountedOnce /\ ProjectionsReachTheirDay
==============================================================================
