------------------------------- MODULE Assistant -------------------------------
(***************************************************************************)
(* The assistant (services/ai_assistant.py, routes/ai_assistant.py): it    *)
(* answers a question, by its category, from what it reads.  The text is   *)
(* left out; what it cites, suggests and counts is here.                   *)
(***************************************************************************)
EXTENDS Reports

AssistantNames == {"ai_query", "ai_query_with_safety"}
AssistantRoles == AllowedRoles \cup {"support"}

Categories == {"money_at_risk", "provider_problems", "settlement_mismatch", "what_to_do", "incident_analysis",
               "trend_analysis", "data_health", "general"}

(* ---- The collectors ---- *)

FailedTransactions(m, s) == Latest(In(Own(m, s.transactions), {"failed"}), 10)

Unresolved == {"open", "acknowledged", "investigating"}

OpenIncidents(m, s, n) == Latest(In(Own(m, s.incidents), Unresolved), n)

\* The providers with the most failed transactions.
ProviderFailures(m, s) ==
  LET failed == In(Own(m, s.transactions), {"failed"})
      of(p) == Cardinality({t \in failed : t.provider = p})
  IN Largest({[provider |-> t.provider, failures |-> of(t.provider)] : t \in failed}, LAMBDA x : x.failures, 5)

Mismatches(m, s) ==
  Some({x \in In(s.results, {"unmatched", "weak", "ambiguous"}) : \E run \in Own(m, s.runs) : run.id = x.run}, 10)

RecentJobs(m, s, n) == Latest(Own(m, s.jobs), n)

\* _collect_money_at_risk_totals: three statements.
TotalReads(m, s) ==
  <<Every(In(Own(m, s.transactions), {"failed"})), Every(In(Own(m, s.transactions), {"pending"})),
    Every(In(Own(m, s.alerts), {"open"}))>>

Month == 30 * Day

\* What each category reads, one statement after another.
CategoryReads(category, m, s) ==
  CASE category = "money_at_risk" ->
         TotalReads(m, s) \o <<OpenIncidents(m, s, 10), FailedTransactions(m, s), ProviderFailures(m, s)>>
    [] category = "provider_problems" -> <<ProviderFailures(m, s), RecentJobs(m, s, 5), OpenIncidents(m, s, 10)>>
    [] category = "settlement_mismatch" -> <<Mismatches(m, s), Latest(Own(m, s.entries), 5)>>
    [] category = "what_to_do" ->
         TotalReads(m, s) \o <<OpenIncidents(m, s, 10), ProviderFailures(m, s), Every(Own(m, s.sources))>>
    [] category = "incident_analysis" -> <<OpenIncidents(m, s, 50), ProviderFailures(m, s), RecentJobs(m, s, 10)>>
    [] category = "trend_analysis" ->
         LET recent == {t \in Own(m, s.transactions) : t.at >= Now - Month} IN
         <<Every(recent), Every(recent), Every(In(recent, {"failed"})),
           Every({x \in Own(m, s.settlements) : x.settled >= Now - Month})>>
    [] category = "data_health" -> <<Every(Own(m, s.sources)), RecentJobs(m, s, 10), Every(Own(m, s.accounts))>>
    [] OTHER -> TotalReads(m, s) \o <<OpenIncidents(m, s, 10)>>

\* A question with safety first looks for the latest version of the prompt, and once more
\* before it inserts the first one.
AssistantReads(o, s) ==
  (IF o.name = "ai_query" THEN <<>> ELSE [i \in 1..2 |-> Every({})])
  \o CategoryReads(o.category, Effective(o), s)

(* ---- The replies ---- *)

\* The first n of what a statement returned in the order of its times.
First(n, rows) == LET sorted == Sorted(rows, LAMBDA x, y : x.at > y.at) IN ToSet(SubSeq(sorted, 1, Min({n, Len(sorted)})))

\* In basis points, of six sources of data.
Confidence(points) == Max({0, Min({10000, (20000 * points + 6) \div 12})})

Points(findings) == Cardinality({i \in DOMAIN findings : findings[i]})

Suggest(type, priority, rows) == IF rows = {} THEN {} ELSE {[type |-> type, priority |-> priority, count |-> Count(rows)]}
Advice(type, priority) == {[type |-> type, priority |-> priority, count |-> 0]}

\* Altered form: only critical incidents are severe.
SevereCritical(incidents) == {i \in incidents : i.severity = "critical"}

Severe(incidents) == {i \in incidents : i.severity \in {"critical", "high"}}
FailedJobs(jobs) == In(jobs, {"failed"})

ReplyOnRisk(g) ==
  [cited |-> g[4] \cup First(5, g[5]),
   suggested |-> (IF Amount(g[1]) > 0 THEN {[type |-> "investigate_failed_payments", priority |-> "high", count |-> Count(g[5])]}
                  ELSE {})
                 \cup Suggest("acknowledge_incident", "high", g[4]) \cup Suggest("review_alerts", "medium", g[3]),
   confidence |-> Confidence(Points(<<Amount(g[1]) > 0, Amount(g[2]) > 0, g[4] # {}, g[6] # {}>>))]

ReplyOnProviders(g) ==
  LET failed == FailedJobs(g[2]) IN
  [cited |-> g[3] \cup failed,
   suggested |-> Suggest("retry_sync", "high", failed)
                 \cup IF g[1] = {} THEN {} ELSE Advice("contact_provider", "high"),
   confidence |-> Confidence(Count(g[1]) + Count(failed))]

ReplyOnSettlements(g) ==
  [cited |-> g[1] \cup g[2],
   suggested |-> Suggest("resolve_reconciliation_mismatch", "high", g[1])
                 \cup IF g[2] = {} THEN Advice("upload_bank_statement", "medium") ELSE {},
   confidence |-> Confidence(Count(g[1]) + (IF g[2] = {} THEN 0 ELSE 1))]

ReplyOnToday(g) ==
  LET urgent == Suggest("acknowledge_incident", "critical", Severe(g[4]))
                \cup (IF Amount(g[1]) > 0 THEN Advice("investigate_failed_payments", "high") ELSE {})
                \cup Suggest("fix_data_source", "medium", In(g[6], {"error", "pending_setup"}))
  IN [cited |-> First(3, g[4]),
      suggested |-> IF urgent = {} THEN Advice("review_dashboard", "low") ELSE urgent,
      confidence |-> Confidence(Count(g[4]) + (IF Amount(g[1]) + Amount(g[2]) > 0 THEN 1 ELSE 0))]

ReplyOnIncidents(g) ==
  LET of(severity) == {i \in g[1] : i.severity = severity} IN
  [cited |-> g[1],
   suggested |-> Suggest("escalate_incident", "critical", of("critical"))
                 \cup Suggest("acknowledge_incident", "high", of("high"))
                 \cup Suggest("investigate_sync_failures", "medium", FailedJobs(g[3])),
   confidence |-> Confidence(Count(g[1]) + Count(FailedJobs(g[3])))]

ReplyOnTrends(g) ==
  [cited |-> {},
   suggested |-> (IF Count(g[1]) > 0 /\ 10 * Count(g[3]) > Count(g[1]) THEN Advice("investigate_failed_payments", "high") ELSE {})
                 \cup (IF Amount(g[2]) = 0 /\ Count(g[1]) > 0 THEN Advice("check_providers", "medium") ELSE {}),
   confidence |-> Confidence(Points(<<g[1] # {}, Amount(g[2]) > 0, g[4] # {}>>))]

ReplyOnData(g) ==
  LET failed == FailedJobs(g[2])
      broken == In(g[1], {"error", "pending_setup"})
  IN [cited |-> broken \cup failed,
      suggested |-> Suggest("reconnect_data_source", "high", In(g[1], {"error"}))
                    \cup Suggest("complete_data_source_setup", "medium", In(g[1], {"pending_setup"}))
                    \cup Suggest("retry_sync", "medium", failed)
                    \cup IF g[1] = {} THEN Advice("add_data_source", "high") ELSE {},
      confidence |-> Confidence(Points(<<g[1] # {}, g[3] # {}, broken = {}>>))]

ReplyInGeneral(g) ==
  [cited |-> First(3, g[4]), suggested |-> Advice("review_dashboard", "low"), confidence |-> 5000]

Reply(category, g) ==
  CASE category = "money_at_risk" -> ReplyOnRisk(g)
    [] category = "provider_problems" -> ReplyOnProviders(g)
    [] category = "settlement_mismatch" -> ReplyOnSettlements(g)
    [] category = "what_to_do" -> ReplyOnToday(g)
    [] category = "incident_analysis" -> ReplyOnIncidents(g)
    [] category = "trend_analysis" -> ReplyOnTrends(g)
    [] category = "data_health" -> ReplyOnData(g)
    [] OTHER -> ReplyInGeneral(g)

\* A question with safety stores the version, its reply and the tokens it took in one
\* transaction.  The last insert puts the name of a model into a column of integers,
\* which PostgreSQL refuses: nothing is stored, so that the version is never there.
AssistantAnswer(o) == IF o.name = "ai_query" THEN "200" ELSE "500"

------------------------------------------------------------------------------
\* What a reply may cite, and what is in trouble.
Citable(m) ==
  LET runs == {run.id : run \in Own(m, store.runs)} IN
  Own(m, store.incidents \cup store.transactions \cup store.entries \cup store.jobs \cup store.sources)
  \cup {x \in store.results : x.run \in runs}

Trouble == Unresolved \cup {"failed", "error", "pending_setup", "unmatched", "weak", "ambiguous"}

\* How many incidents the suggestions count.
IncidentsCounted(suggested) ==
  MapThenSumSet(LAMBDA a : a.count, {a \in suggested : a.type \in {"acknowledge_incident", "escalate_incident"}})

\* What r cites exists, is the merchant's and, unless it was changed meanwhile, is in trouble.
CitationsHold(r, m, reply) ==
  /\ \A x \in reply.cited : x.id \in {y.id : y \in Citable(m)}
  /\ \A x \in Still(r, reply.cited) : x \in Citable(m) /\ (x \notin store.entries => x.status \in Trouble)

\* Failed money and a broken source are never without their suggestion, nor a suggestion
\* without them, and every severe incident is counted once, where the statement takes all
\* that are unresolved.
SuggestionsHold(m, category, reply) ==
  LET failed == In(Own(m, store.transactions), {"failed"})
      unresolved == In(Own(m, store.incidents), Unresolved)
      broken == In(Own(m, store.sources), {"error", "pending_setup"})
      some(types) == \E a \in reply.suggested : a.type \in types
  IN /\ category \in {"money_at_risk", "what_to_do"} =>
          (some({"investigate_failed_payments"}) <=> \E t \in failed : t.amount > 0)
     /\ /\ category \in {"what_to_do", "incident_analysis"}
        /\ Cardinality(unresolved) <= (IF category = "what_to_do" THEN 10 ELSE 50)
        => IncidentsCounted(reply.suggested) = Cardinality({i \in unresolved : i.severity \in {"critical", "high"}})
     /\ category = "what_to_do" => reply.suggested # {} /\ (some({"fix_data_source"}) <=> broken # {})
     /\ category = "data_health" =>
          (some({"reconnect_data_source", "complete_data_source_setup"}) <=> broken # {})

\* A reply rests on what is there: its citations hold; every failed or pending transaction
\* that nobody touched is counted once, though three statements count them; and where nothing
\* has changed, its suggestions hold too.
AnswerHolds(r, m, category, g, reply) ==
  /\ CitationsHold(r, m, reply)
  /\ InScale(reply.confidence)
  /\ category \in {"money_at_risk", "what_to_do", "general"} =>
       Still(r, g[1]) \cup Still(r, g[2]) = Still(r, In(Own(m, store.transactions), {"failed", "pending"}))
  /\ touched[r] = {} => SuggestionsHold(m, category, reply)

\* Every answer rests on what is there.
AnswersAreGrounded ==
  \A r \in Requests :
    Reported(r, {"ai_query"}) =>
      LET o == op[r]
          g == got[r][1]
      IN AnswerHolds(r, Effective(o), o.category, g, Reply(o.category, g))
==============================================================================
