----------------------------- MODULE ProviderHealth -----------------------------
(***************************************************************************)
(* The health of a provider (services/provider_health.py, routes/          *)
(* provider_health.py): a day's metrics with their scores and outages, and *)
(* the routes that read them.                                              *)
(***************************************************************************)
EXTENDS Reports

\* A settlement has a time and, when the provider has paid it out, the time of that.
Timed(x) == {"at", "settled"} \subseteq DOMAIN x /\ x.at \in Int /\ x.settled \in Int \cup {None}

ASSUME TimesAssumption ==
  /\ None \notin Int
  /\ \A s \in Stores :
       "settlements" \in DOMAIN s => IsFiniteSet(s.settlements) /\ \A x \in s.settlements : Timed(x)
  /\ \A a \in Arrivals : a.table = "settlements" => Timed(a.row)

OfProvider(m, p, rows) == {t \in Own(m, rows) : t.provider = p}

\* The events of the transactions of a provider.
EventsOf(m, p, s) ==
  {e \in s.events : \E t \in OfProvider(m, p, s.transactions) : t.id = e.transaction}

(* ---- The scores, in hundredths of a percent ---- *)

ReliabilityReads(m, p, s) ==
  <<Every({t \in OfProvider(m, p, s.transactions) : t.at >= Now - 7 * Day})>>

Reliability(txs) == IF txs = {} THEN 10000 ELSE Rate(Count(In(txs, {"success"})), Count(txs))

\* Seconds between the row and the settlement.
Lag(x) == 1800 * (x.settled - x.at)

Lags(rows) == MapThenSumSet(LAMBDA x : Lag(x), rows)

\* Above an hour the score jumps to what the line from zero gives.
SettlementLag(rows) ==
  LET known == {x \in rows : x.settled # None}
      lag == Mean(Lags(known), known)
  IN CASE known = {} -> 10000
       [] lag <= 3600 -> 10000
       [] lag >= 86400 -> 0
       [] OTHER -> Max({0, (10000 * 828 - 100 * lag) \div 828})

WebhookFailure(events) ==
  IF events = {} THEN 10000
  ELSE Rate(Count(events) - Count(In(events, {"failed"})), Count(events))

HealthStatus(reliability, webhooks) ==
  IF reliability < 9000 \/ webhooks < 5000 THEN "critical"
  ELSE IF reliability < 9900 \/ webhooks < 9000 THEN "degraded" ELSE "healthy"

(* ---- detect_outage_windows ---- *)

HourOf(t) == t.at \div Hour

NoOutage == [start |-> None, end |-> None]

\* Altered form: an outage that goes on is not closed by a success.
OutageStepOpen(state, hour, txs) ==
  LET failing == \A t \in txs : HourOf(t) = hour => t.status # "success"
  IN IF failing
     THEN [state EXCEPT !.current = [start |-> IF @ = NoOutage THEN hour ELSE @.start, end |-> hour]]
     ELSE state

\* A step of the loop over the hours, in their order: [current, windows].
OutageStep(state, hour, txs) ==
  LET failing == \A t \in txs : HourOf(t) = hour => t.status # "success"
      closed == IF state.current # NoOutage /\ state.current.end - state.current.start >= 1
                THEN {state.current} ELSE {}
  IN IF failing
     THEN [state EXCEPT !.current = [start |-> IF @ = NoOutage THEN hour ELSE @.start, end |-> hour]]
     ELSE [current |-> NoOutage, windows |-> state.windows \cup closed]

\* The outage windows: only hours with transactions are looked at, and a pending one does
\* not succeed either.
OutageWindows(txs) ==
  LET hours == Sorted({HourOf(t) : t \in txs}, <)
      final == FoldLeft(LAMBDA state, hour : OutageStep(state, hour, txs),
                        [current |-> NoOutage, windows |-> {}], hours)
      open == final.current
  IN final.windows \cup IF open # NoOutage /\ open.end - open.start >= 1 THEN {open} ELSE {}

(* ---- calculate_daily_metrics ---- *)

OnDay(day, rows) == {x \in rows : DayOf(x.at) = day}

\* The day's figures, the scores, the outages, the scores again for the status, and the
\* row of the day.
MetricsReads(o, s) ==
  LET m == o.user
      p == o.provider
      settled == {x \in OfProvider(m, p, s.settlements) : x.settled # None}
      scores == ReliabilityReads(m, p, s)
  IN <<Every(OnDay(o.day, OfProvider(m, p, s.transactions))),
       Every({x \in settled : DayOf(x.settled) = o.day}),
       Every(OnDay(o.day, EventsOf(m, p, s)))>>
     \o scores \o <<Every(OfProvider(m, p, s.settlements)), Every(EventsOf(m, p, s)),
       Every({t \in OfProvider(m, p, s.transactions) : t.at >= Now - 30 * Day})>>
     \o scores \o <<Every(EventsOf(m, p, s)),
       Some({x \in OfProvider(m, p, s.health) : x.day = o.day}, 1)>>

Metrics(id, o, g) ==
  [id |-> id, merchant |-> o.user, provider |-> o.provider, day |-> o.day,
   count |-> Count(g[1]), success |-> Count(In(g[1], {"success"})), fail |-> Count(In(g[1], {"failed"})),
   settlements |-> Count(g[2]),
   webhooks |-> Count(g[3]), webhook_fail |-> Count(In(g[3], {"failed"})),
   reliability |-> Reliability(g[4]), lag |-> SettlementLag(g[5]), webhook |-> WebhookFailure(g[6]),
   outages |-> Count(OutageWindows(g[7])),
   status |-> HealthStatus(Reliability(g[8]), WebhookFailure(g[9]))]

\* An update writes the columns that differ from the row as it was read.
PutMetrics(row, read, new) ==
  [c \in DOMAIN row |-> IF c # "id" /\ new[c] # read[c] THEN new[c] ELSE row[c]]

\* The commit of the route; nothing keeps a second row for the day away.
SaveMetrics(r) ==
  LET g == got[r][1]
      new == Metrics(r, op[r], g)
  IN /\ Answer(r, "200")
     /\ \/ g[10] = {} /\ store' = [store EXCEPT !.health = @ \cup {new}]
        \/ \E read \in g[10] : \E row \in store.health :
             /\ row.id = read.id
             /\ store' = [store EXCEPT !.health = (@ \ {row}) \cup {PutMetrics(row, read, new)}]

(* ---- The routes that read ---- *)

HealthSummaryReads(o, s) ==
  <<Every({x \in Own(o.user, s.health) :
             (o.from # None => x.day >= o.from) /\ (o.to # None => x.day <= o.to)})>>

ByDate(x) == x.day

HealthDetailReads(o, s) == <<Largest(OfProvider(o.user, o.provider, s.health), ByDate, 1)>>

HealthHistoryReads(o, s) ==
  <<Largest(OfProvider(o.user, o.provider, s.health), LAMBDA x : 0 - x.day, o.days)>>

HealthNames == {"calculate_health", "health_summary", "health_detail", "health_history"}

HealthReport(o, s) ==
  CASE o.name = "calculate_health" -> MetricsReads(o, s)
    [] o.name = "health_summary" -> HealthSummaryReads(o, s)
    [] o.name = "health_detail" -> HealthDetailReads(o, s)
    [] OTHER -> HealthHistoryReads(o, s)

HealthAnswer(o, g) == IF o.name = "health_detail" /\ g[1] = {} THEN "404" ELSE "200"

------------------------------------------------------------------------------
\* The windows that the loop finds are the outages: the hours with transactions between
\* their ends have no success, the neighbours before and after have one or do not exist,
\* and every two such hours with no success between them are in one.
OutagesAreReal ==
  \A r \in Requests : Reported(r, {"calculate_health"}) =>
    LET txs == got[r][1][7]
        hours == {HourOf(t) : t \in txs}
        good == {HourOf(t) : t \in In(txs, {"success"})}
        windows == OutageWindows(txs)
    IN /\ \A w \in windows :
            /\ {w.start, w.end} \subseteq hours /\ w.start < w.end
            /\ good \cap (w.start..w.end) = {}
            /\ \A h \in hours : h < w.start => \E k \in good : h <= k /\ k < w.start
            /\ \A h \in hours : h > w.end => \E k \in good : w.end < k /\ k <= h
       /\ \A h, k \in hours : h < k /\ good \cap (h..k) = {} =>
            \E w \in windows : w.start <= h /\ k <= w.end

\* Successes and failures are some of the transactions, failed webhooks some of the webhooks.
CountsFit(x) == x.success + x.fail <= x.count /\ x.webhook_fail <= x.webhooks

ScoresFit(x) == InScale(x.reliability) /\ InScale(x.lag) /\ InScale(x.webhook)

\* The status is that of the scores beside it, a week in which less than nine in ten succeed
\* is critical and a provider with neither failures nor pending ones is healthy.
StatusFits(x, week, events) ==
  /\ x.status = HealthStatus(x.reliability, x.webhook)
  /\ 10 * Count(In(week, {"success"})) < 9 * Count(week) => x.status = "critical"
  /\ week = In(week, {"success"}) /\ In(events, {"failed"}) = {} => x.status = "healthy"

\* The figures x of a day fit each other, the rows of the week and the webhooks.
FiguresFit(x, week, events) == CountsFit(x) /\ ScoresFit(x) /\ StatusFits(x, week, events)

\* The figures of a day, its scores and its status are read by ten statements; while
\* nothing changes they fit.
QuietMetricsAgree ==
  \A r \in Requests : Reported(r, {"calculate_health"}) /\ touched[r] = {} =>
    LET o == op[r]
        x == Metrics(r, o, got[r][1])
        week == {t \in OfProvider(o.user, o.provider, store.transactions) : t.at >= Now - 7 * Day}
    IN FiguresFit(x, week, EventsOf(o.user, o.provider, store))

\* A provider's calculated health is that of its rows: its outages and its figures.
HealthIsReal == OutagesAreReal /\ QuietMetricsAgree
==============================================================================
