-------------------------------- MODULE Timeline --------------------------------
(***************************************************************************)
(* The timeline of a merchant (services/timeline.py, routes/timeline.py).  *)
(***************************************************************************)
EXTENDS Reports

EventTypes == {"transaction_created", "settlement_received", "incident_created",
               "bank_statement_entry_matched", "alert_triggered", "sync_job_completed",
               "sync_job_failed", "reconciliation_run"}

FailedSync == {"failed", "failed_permanent"}

Wanted(o) == IF o.types = {} THEN EventTypes ELSE o.types

\* Rows of a time between the two, if they are given.
Between(o, rows, Time(_)) ==
  {x \in rows : (o.from # None => Time(x) >= o.from) /\ (o.to # None => Time(x) <= o.to)}

Matches(o, rows) ==
  {x \in rows : (o.status # None => x.status = o.status) /\ (o.provider # None => x.provider = o.provider)}

\* The tables of the types that are wanted, in the order they are read in; of each no more
\* than the limit, and only the transactions are ordered.
TimelineReads(o, s) ==
  LET m == Effective(o)
      created(rows) == Between(o, Own(m, rows), LAMBDA x : x.at)
      read(types, query) == IF types \cap Wanted(o) = {} THEN <<>> ELSE <<query>>
      settlements == Between(o, Own(m, s.settlements), LAMBDA x : x.settled)
  IN read({"transaction_created"}, Latest(Matches(o, created(s.transactions)), o.limit))
     \o read({"settlement_received"},
             Some({x \in settlements : o.provider # None => x.provider = o.provider}, o.limit))
     \o read({"incident_created"}, Some(created(s.incidents), o.limit))
     \o read({"bank_statement_entry_matched"}, Some(created(s.entries), o.limit))
     \o read({"alert_triggered"}, Some(created(s.alerts), o.limit))
     \o read({"sync_job_completed", "sync_job_failed"}, Some(created(s.jobs), o.limit))
     \o read({"reconciliation_run"}, Some(created(s.runs), o.limit))

\* A row as the timeline shows it; a sync that has not failed counts as completed.
Entry(x) ==
  [id |-> x.id, time |-> IF x.type = "settlement" THEN x.settled ELSE x.at,
   event |-> CASE x.type = "sync_job" -> IF x.status \in FailedSync THEN "sync_job_failed" ELSE "sync_job_completed"
               [] x.type = "transaction" -> "transaction_created"
               [] x.type = "settlement" -> "settlement_received"
               [] x.type = "incident" -> "incident_created"
               [] x.type = "entry" -> "bank_statement_entry_matched"
               [] x.type = "run" -> "reconciliation_run"
               [] OTHER -> "alert_triggered"]

\* Altered form: of the syncs those are shown too that are not wanted.
EntriesAny(o, g) == {Entry(x) : x \in UNION ToSet(g)}

Entries(o, g) == {e \in {Entry(x) : x \in UNION ToSet(g)} : e.event \in Wanted(o)}

\* The latest first; the page is cut out of what was read.
Page(o, g) ==
  LET all == Sorted(Entries(o, g), LAMBDA x, y : x.time > y.time) IN
  SubSeq(all, o.skip + 1, Min({o.skip + o.limit, Len(all)}))

(* ---- get_transaction_lifecycle ---- *)

LifecycleReads(o, g, s) ==
  <<Every({t \in Own(Effective(o), s.transactions) : t.id = o.id})>>
  \o IF g = <<>> \/ g[1] = {} THEN <<>> ELSE <<Every({e \in s.events : e.transaction = o.id})>>

\* The transaction and its events by their time, the transaction first among equals.
Lifecycle(g) ==
  Sorted(g[1] \cup g[2], LAMBDA x, y : x.at < y.at \/ (x.at = y.at /\ x \in g[1]))

(* ---- get_timeline_summary ---- *)

SummaryOfDaysReads(o, s) ==
  LET m == Effective(o)
      cutoff == Now - o.days * Day
      created(rows) == {x \in Own(m, rows) : x.at >= cutoff}
  IN <<Every(created(s.transactions)), Every({x \in Own(m, s.settlements) : x.settled >= cutoff}),
       Every(created(s.incidents)), Every(created(s.entries)), Every(created(s.alerts)),
       Every(created(s.jobs)), Every(created(s.runs))>>

SummaryOfDays(g) ==
  [transaction_created |-> Count(g[1]), settlement_received |-> Count(g[2]),
   incident_created |-> Count(g[3]), bank_statement_entry_matched |-> Count(g[4]),
   alert_triggered |-> Count(g[5]), sync_job_failed |-> Count(In(g[6], FailedSync)),
   sync_job_completed |-> Count(g[6]) - Count(In(g[6], FailedSync)), reconciliation_run |-> Count(g[7])]

TimelineOperations == {"timeline", "lifecycle", "timeline_summary"}

TimelineReport(o, g, s) ==
  CASE o.name = "timeline" -> TimelineReads(o, s)
    [] o.name = "lifecycle" -> LifecycleReads(o, g, s)
    [] OTHER -> SummaryOfDaysReads(o, s)

TimelineAnswer(o, g) == IF o.name = "lifecycle" /\ g[1] = {} THEN "404" ELSE "200"

------------------------------------------------------------------------------
\* What a timeline should show: the entries of a merchant's rows of the wanted types.
Shown(o) ==
  LET rows == UNION {store[t] : t \in {"transactions", "settlements", "incidents", "entries", "alerts", "jobs", "runs"}}
      entries == {x \in Own(Effective(o), rows) : Entry(x).event \in Wanted(o)}
  IN {Entry(x) : x \in {y \in Between(o, entries, LAMBDA x : Entry(x).time) :
        /\ y.type \in {"transaction", "settlement"} /\ o.provider # None => y.provider = o.provider
        /\ y.type = "transaction" /\ o.status # None => y.status = o.status}}

\* A page is sorted, within its limit, of wanted entries of the merchant within the dates,
\* none of them twice; when no type has more entries than the limit, and nothing changes
\* meanwhile, it is that page of all entries: as many newer ones are left out as it skips.
PagesAreSlices ==
  \A r \in Requests : Reported(r, {"timeline"}) =>
    LET o == op[r]
        page == Page(o, got[r][1])
        small == \A e \in EventTypes : Cardinality({x \in Shown(o) : x.event = e}) <= o.limit
        jobs == Cardinality({x \in Own(Effective(o), store.jobs) : TRUE}) <= o.limit
    IN /\ Len(page) <= o.limit
       /\ \A i, j \in 1..Len(page) : i < j => page[i].time >= page[j].time /\ page[i] # page[j]
       /\ \A e \in ToSet(page) : e.event \in Wanted(o) /\ (e.id \in touched[r] \/ e \in Shown(o))
       /\ touched[r] = {} /\ small /\ jobs =>
            /\ Len(page) = Max({0, Min({o.limit, Cardinality(Shown(o)) - o.skip})})
            /\ \A i \in 1..Len(page) :
                 Cardinality({e \in Shown(o) : e.time > page[i].time}) <= o.skip + i - 1

\* The summary of some days, counted by statements of its own, is that of the timeline of
\* these days, but for what has changed meanwhile.
SummaryMatchesTimeline ==
  \A r \in Requests : Reported(r, {"timeline_summary"}) =>
    LET whole == [merchant |-> Effective(op[r]), types |-> {}, from |-> Now - op[r].days * Day, to |-> None,
                  status |-> None, provider |-> None]
        drift == Count(touched[r])
    IN \A e \in EventTypes :
         SummaryOfDays(got[r][1])[e] - Cardinality({x \in Shown(whole) : x.event = e}) \in (0 - drift)..drift

\* A transaction's lifecycle starts with its creation and goes forward; every event of it
\* that was there is told.
LifecyclesAreWhole ==
  \A r \in Requests : Reported(r, {"lifecycle"}) /\ answer[r] = "200" =>
    LET told == Lifecycle(got[r][1]) IN
    /\ told[1].id = op[r].id
    /\ \A i \in 2..Len(told) : told[i - 1].at <= told[i].at /\ told[i].transaction = op[r].id
    /\ \A e \in store.events : e.transaction = op[r].id /\ e.id \notin touched[r] => e \in ToSet(told)

\* Neither a page, a summary nor a lifecycle leaves out or invents an entry.
TimelinesAreWhole == PagesAreSlices /\ SummaryMatchesTimeline /\ LifecyclesAreWhole
==============================================================================
