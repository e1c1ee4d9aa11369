------------------------------ MODULE AdminConsole ------------------------------
(***************************************************************************)
(* The operations console of the administrators (routes/                   *)
(* admin_operations.py): reports that read the tables as those of Reports  *)
(* do, and posts that leave a row in the audit log and a task in the queue *)
(* of the workers.  A post hands its task to the broker before it commits  *)
(* its audit row.  A worker acknowledges a task when it has run it, so the *)
(* task of a worker that died is delivered again.  Meanwhile others insert *)
(* rows.                                                                   *)
(***************************************************************************)
EXTENDS ProviderHealth

CONSTANTS
  Slots,     \* tasks the workers hold at a time
  MaxLosses  \* how often the worker that holds a task dies

VARIABLE queue  \* the tasks: which request enqueued them, what about, and where they are

consoleVars == <<vars, queue>>

ConsoleTables == {"audit_logs", "ai_responses"}

\* The event is of a transaction that exists: the column is a foreign key.
HasTransaction(e, s) == \E t \in s.transactions : t.id = e.transaction

ASSUME ConsoleAssumption ==
  /\ Slots \in Nat \ {0} /\ MaxLosses \in Nat
  /\ \A s \in Stores :
       /\ ConsoleTables \subseteq DOMAIN s /\ \A table \in DOMAIN s : IsFiniteSet(s[table])
       /\ \A t \in s.transactions : t.at \in Int
       /\ \A e \in s.events : HasTransaction(e, s)
  /\ \A a \in Arrivals :
       /\ a.table = "transactions" => a.row.at \in Int
       /\ a.table = "events" => \A s \in Stores : HasTransaction(a.row, s)

(* ---- What the routes read ---- *)

Lists == {"list_webhooks", "audit_log", "related_records", "ai_by_query"}

\* A negative LIMIT or OFFSET is an error of PostgreSQL's, and nothing is listed.
ASSUME ListAssumption ==
  \A r \in Requests : \A o \in Operations[r] : o.name \in Lists => o.limit \in Nat /\ o.offset \in Nat

\* The kind of task of each post that enqueues one, as the queue status counts them.
TaskKind == [replay_webhook |-> "webhooks", force_sync |-> "sync_jobs", replay_reconciliation |-> "reconciliation"]

Posts == DOMAIN TaskKind \cup {"health_check", "retry_job"}

\* The row a route is about: the table and the column it is looked up by.
Target ==
  [replay_webhook |-> <<"events", "event">>, force_sync |-> <<"accounts", "id">>,
   health_check |-> <<"accounts", "id">>, incident_timeline |-> <<"incidents", "id">>,
   related_records |-> <<"incidents", "id">>, replay_reconciliation |-> <<"runs", "id">>,
   ai_response |-> <<"ai_responses", "id">>]

Targets(o, s) == {x \in s[Target[o.name][1]] : x[Target[o.name][2]] = o.id}

Missing(o, g) == o.name \in DOMAIN Target /\ g # <<>> /\ g[1] = {}

\* The transactions of a merchant have the events a join finds.
Webhooks(o, s) ==
  {e \in s.events : /\ o.merchant # None => \E t \in Own(o.merchant, s.transactions) : t.id = e.transaction
                    /\ o.provider # None => e.provider = o.provider
                    /\ o.status # None => e.status = o.status}

\* Rows whose text contains what was asked for; the merchant asked for is not looked at.
AuditRows(o, s) == {a \in s.audit_logs : a.at >= Now - o.days * Day /\ (o.events # {} => a.event \in o.events)}

ResponsesTo(o, s) == {x \in s.ai_responses : x.query \in o.queries}

\* LIMIT and OFFSET, the latest first.
From(q, offset) == [rows |-> q.rows, order |-> q.order, limit |-> q.limit, offset |-> offset]
Whole(rows) == From(Every(rows), 0)
One(rows) == From(Some(rows, 1), 0)
PageOf(o, rows) == From(Latest(rows, o.limit), o.offset)

Fetched(q) ==
  LET skip == Results([q EXCEPT !.limit = q.offset])
      read == Results([q EXCEPT !.limit = @ + q.offset])
  IN UNION {{upto \ skipped : upto \in {x \in read : skipped \subseteq x}} : skipped \in skip}

\* Two lists count before they fetch the page, two after it.
ListWebhooks(o, s) == <<Whole(Webhooks(o, s)), PageOf(o, Webhooks(o, s))>>
AuditLog(o, s) == <<Whole(AuditRows(o, s)), PageOf(o, AuditRows(o, s))>>
RelatedRecords(o, m, s) == <<PageOf(o, Own(m, s.transactions)), Whole(Own(m, s.transactions))>>
ResponsesByQuery(o, s) == <<PageOf(o, ResponsesTo(o, s)), Whole(ResponsesTo(o, s))>>

\* The status comes from the database; nobody asks the provider.
HealthCheck(m, p, s) ==
  LET reads == ReliabilityReads(m, p, s) \o <<Every(EventsOf(m, p, s))>>
  IN [i \in 1..Len(reads) |-> Whole(reads[i].rows)]

IncidentTimeline(o, m, s) ==
  <<Whole(Own(m, s.transactions)), Whole({a \in s.audit_logs : a.about = o.id})>>

DatabaseStats(s) ==
  LET tables == <<"transactions", "events", "jobs", "incidents", "runs", "audit_logs", "ai_responses">>
  IN [i \in 1..Len(tables) |-> Whole(s[tables[i]])]

\* The statements of a route, of which it has the results g.
ConsoleReads(o, g, s) ==
  LET row == CHOOSE x \in g[1] : TRUE
      looked == IF o.name \in DOMAIN Target THEN <<One(Targets(o, s))>> ELSE <<>>
  IN IF o.name \in DOMAIN Target /\ (g = <<>> \/ g[1] = {}) THEN looked
     ELSE looked \o
       CASE o.name = "health_check" -> HealthCheck(row.merchant, row.provider, s)
       [] o.name = "incident_timeline" -> IncidentTimeline(o, row.merchant, s)
       [] o.name = "related_records" -> RelatedRecords(o, row.merchant, s)
       [] o.name = "list_webhooks" -> ListWebhooks(o, s)
       [] o.name = "audit_log" -> AuditLog(o, s)
       [] o.name = "ai_by_query" -> ResponsesByQuery(o, s)
       [] o.name = "db_stats" -> DatabaseStats(s)
       [] OTHER -> <<>>

\* The transactions an incident's timeline shows, of all of its merchant.
LastTransactions(rows) ==
  LET sorted == Sorted(rows, LAMBDA x, y : x.at < y.at)
  IN ToSet(SubSeq(sorted, Max({1, Len(sorted) - 9}), Len(sorted)))

\* Altered form: those that are active are counted by both loops.
QueueDepthTwice(g) == [kind \in Range(TaskKind) |-> 2 * Count({t \in g[1] : t.kind = kind})]

\* The answer of the queue status: tasks that are active at one moment and reserved at the next.
QueueDepth(g) ==
  [kind \in Range(TaskKind) |-> Count({t \in g[1] : t.kind = kind}) + Count({t \in g[2] : t.kind = kind})]

------------------------------------------------------------------------------
(* The steps of a request. *)

\* Only administrators are let in.
ArriveAtConsole(r) ==
  /\ pc[r] = "idle"
  /\ \E o \in Operations[r] :
       /\ op' = [op EXCEPT ![r] = o]
       /\ IF o.role = "admin"
          THEN pc' = [pc EXCEPT ![r] = IF o.name = "queue_status" THEN "inspect" ELSE "read"] /\ UNCHANGED answer
          ELSE Answer(r, "403")
  /\ UNCHANGED <<store, changes, got, touched, queue>>

ReadNext(r) ==
  /\ pc[r] = "read"
  /\ LET reads == ConsoleReads(op[r], got[r], store)
         n == Len(got[r]) + 1
     IN n <= Len(reads) /\ \E rows \in Fetched(reads[n]) : got' = [got EXCEPT ![r] = Append(@, rows)]
  /\ UNCHANGED <<store, changes, pc, op, touched, answer, queue>>

\* All is read; a post adds its audit row to the session.
HaveRead(r) ==
  /\ pc[r] = "read" /\ Len(got[r]) = Len(ConsoleReads(op[r], got[r], store))
  /\ LET o == op[r] IN
     IF Missing(o, got[r]) THEN Answer(r, "404")
     ELSE /\ pc' = [pc EXCEPT ![r] = CASE o.name \in DOMAIN TaskKind -> "enqueue"
                                       [] o.name \in Posts \ DOMAIN TaskKind -> "commit"
                                       [] OTHER -> "respond"]
          /\ UNCHANGED answer
  /\ UNCHANGED <<store, changes, op, got, touched, queue>>

\* A broker that does not take the task is logged, and the post goes on.
Enqueue(r) ==
  /\ pc[r] = "enqueue"
  /\ \/ queue' = queue \cup {[id |-> r, kind |-> TaskKind[op[r].name], about |-> op[r].id, at |-> "broker", lost |-> 0]}
     \/ UNCHANGED queue
  /\ pc' = [pc EXCEPT ![r] = "commit"]
  /\ UNCHANGED <<store, changes, op, got, touched, answer>>

AuditRow(r) == [id |-> r, event |-> op[r].name, about |-> op[r].id, at |-> Now]

\* Altered form: the row is added after the commit.
CommitAuditEarly(r) ==
  /\ pc[r] = "commit"
  /\ pc' = [pc EXCEPT ![r] = "respond"]
  /\ UNCHANGED <<store, changes, op, got, touched, answer, queue>>

CommitAudit(r) ==
  /\ pc[r] = "commit"
  /\ store' = [store EXCEPT !.audit_logs = @ \cup {AuditRow(r)}]
  /\ Touch({r})
  /\ pc' = [pc EXCEPT ![r] = "respond"]
  /\ UNCHANGED <<changes, op, got, answer, queue>>

\* The workers are asked twice; one that answers late is left out.  An error makes zeros of
\* what was counted.
Inspect(r) ==
  /\ pc[r] = "inspect"
  /\ \/ /\ Len(got[r]) < 2
        /\ LET state == IF got[r] = <<>> THEN "active" ELSE "reserved" IN
           \E heard \in {{t \in queue : t.at = state}, {}} : got' = [got EXCEPT ![r] = Append(@, heard)]
        /\ UNCHANGED pc
     \/ /\ Len(got[r]) < 2
        /\ got' = [got EXCEPT ![r] = <<{}, {}>>]
        /\ UNCHANGED pc
     \/ /\ Len(got[r]) = 2
        /\ pc' = [pc EXCEPT ![r] = "respond"]
        /\ UNCHANGED got
  /\ UNCHANGED <<store, changes, op, touched, answer, queue>>

\* SQLite finds a text in a JSON column; PostgreSQL has no such operator and fails.
RespondFromConsole(r) ==
  /\ pc[r] = "respond"
  /\ \E status \in IF op[r].name = "incident_timeline" THEN {"200", "500"} ELSE {"200"} : Answer(r, status)
  /\ UNCHANGED <<store, changes, op, got, touched, queue>>

\* The database does not answer or the process dies: what is not committed is gone.
Fail(r) ==
  /\ pc[r] \in {"read", "enqueue", "commit"}
  /\ Answer(r, "500")
  /\ UNCHANGED <<store, changes, op, got, touched, queue>>

------------------------------------------------------------------------------
(* The workers.  The tasks themselves log and return. *)

Move(t, to) ==
  /\ queue' = (queue \ {t}) \cup {[t EXCEPT !.at = to]}
  /\ Touch({t.id})
  /\ UNCHANGED <<store, changes, pc, op, got, answer>>

Held == {t \in queue : t.at \in {"reserved", "active"}}

Tasks(r) == {t \in queue : t.id = r}

\* One message for each process of a worker.
Reserve(r) == \E t \in Tasks(r) : t.at = "broker" /\ Cardinality(Held) < Slots /\ Move(t, "reserved")

Start(r) == \E t \in Tasks(r) : t.at = "reserved" /\ Move(t, "active")

\* The task has run and is acknowledged.
Finish(r) == \E t \in Tasks(r) : t.at = "active" /\ Move(t, "done")

\* Altered form: a task is acknowledged when it starts, and is gone with its worker.
LoseStarted(r) ==
  \E t \in Tasks(r) \cap Held :
    /\ t.lost < MaxLosses
    /\ queue' = (queue \ {t}) \cup
                   (IF t.at = "active" THEN {} ELSE {[t EXCEPT !.at = "broker", !.lost = @ + 1]})
    /\ Touch({t.id})
    /\ UNCHANGED <<store, changes, pc, op, got, answer>>

\* Its worker dies: the broker delivers the task again.
Lose(r) ==
  \E t \in Tasks(r) \cap Held :
    /\ t.lost < MaxLosses
    /\ queue' = (queue \ {t}) \cup {[t EXCEPT !.at = "broker", !.lost = @ + 1]}
    /\ Touch({t.id})
    /\ UNCHANGED <<store, changes, pc, op, got, answer>>

------------------------------------------------------------------------------
InitConsole ==
  /\ store \in Stores
  /\ changes = 0
  /\ pc = [r \in Requests |-> "idle"]
  /\ op = [r \in Requests |-> None]
  /\ got = [r \in Requests |-> <<>>]
  /\ touched = [r \in Requests |-> {}]
  /\ answer = [r \in Requests |-> None]
  /\ queue = {}

ConsoleNext ==
  \/ \E r \in Requests :
       \/ ArriveAtConsole(r) \/ ReadNext(r) \/ HaveRead(r) \/ Enqueue(r) \/ CommitAudit(r)
       \/ Inspect(r) \/ RespondFromConsole(r) \/ Fail(r)
       \/ Reserve(r) \/ Start(r) \/ Finish(r) \/ Lose(r)
  \/ CommitRow /\ UNCHANGED queue

\* The workers go on.
Fairness == \A r \in Requests : WF_consoleVars(Reserve(r)) /\ WF_consoleVars(Start(r)) /\ WF_consoleVars(Finish(r))

ConsoleSpec == InitConsole /\ [][ConsoleNext]_consoleVars /\ Fairness

------------------------------------------------------------------------------
ConsoleTypeOK ==
  /\ changes \in 0..MaxChanges
  /\ pc \in [Requests -> {"idle", "read", "enqueue", "commit", "inspect", "respond", "done"}]
  /\ \A r \in Requests :
       /\ op[r] \in Operations[r] \cup {None} /\ (op[r] = None <=> pc[r] = "idle")
       /\ answer[r] \in {None, "200", "403", "404", "500"} /\ (answer[r] # None <=> pc[r] = "done")
  /\ \A t \in queue :
       /\ t.id \in Requests /\ t.kind \in Range(TaskKind) /\ t.lost \in 0..MaxLosses
       /\ t.at \in {"broker", "reserved", "active", "done"}
  /\ Cardinality(Held) <= Slots
  /\ \A t, u \in queue : t.id = u.id => t = u

\* A post that was answered with success has its row in the audit log, and one that was
\* refused, or a report, has none, whatever failed meanwhile and whether or not the broker
\* took the task.  (A post that failed may have left a task without a row.)
AnsweredPostsAreAudited ==
  \A r \in Requests :
    LET mine == {a \in store.audit_logs : a.id = r} IN
    /\ answer[r] = "200" /\ op[r].name \in Posts => mine = {AuditRow(r)}
    /\ answer[r] \in {"403", "404", "500"} \/ (op[r] # None /\ op[r].name \notin Posts) => mine = {}

\* A task in the queue is about a row that exists, and its post was not refused.
TasksHaveTheirTarget ==
  \A t \in queue : Targets(op[t.id], store) # {} /\ answer[t.id] \in {None, "200", "500"}

\* The page and the total of a list are read by two statements: the page has as many rows
\* as the total lets it have, give or take one for each row that came or changed since the
\* request began.
PagesFitTotals ==
  \A r \in Requests : answer[r] = "200" /\ op[r].name \in Lists =>
    LET o == op[r]
        g == IF o.name = "related_records" THEN Tail(got[r]) ELSE got[r]
        read == IF o.name \in {"list_webhooks", "audit_log"} THEN g ELSE Reverse(g)
        room == Max({0, Min({o.limit, Count(read[1]) - o.offset})})
        drift == Count(touched[r])
    IN Count(read[2]) \in (room - drift)..(room + drift)

\* The timeline of an incident shows the latest transactions of its merchant: none it leaves
\* out is later than one it shows, unless it changed meanwhile.
TimelinesShowTheLatest ==
  \A r \in Requests : answer[r] = "200" /\ op[r].name = "incident_timeline" =>
    LET shown == LastTransactions(got[r][2])
        merchant == (CHOOSE i \in got[r][1] : TRUE).merchant
        others == {t \in Own(merchant, store.transactions) :
                     t.id \notin touched[r] \cup {x.id : x \in shown}}
    IN /\ Count(shown) <= 10 /\ \A t \in others, x \in shown : t.at <= x.at
       /\ Count(shown) < 10 => others = {}

\* The queue status counts no task twice unless it moved while the workers were asked.
TasksAreCountedOnce ==
  \A r \in Requests : answer[r] = "200" /\ op[r].name = "queue_status" =>
    \A t \in queue :
      /\ t.id \notin touched[r] => ~(t \in got[r][1] /\ t \in got[r][2])
      /\ QueueDepth(got[r])[t.kind] <= Cardinality({u \in queue : u.kind = t.kind}) + Count(touched[r])

\* Every task that a post enqueued runs in the end, however its workers die.
EnqueuedTasksRun ==
  \A r \in Requests : (Tasks(r) # {}) ~> (\E t \in Tasks(r) : t.at = "done")

\* The posts' two records, their audit rows and their tasks, agree with their answers.
PostsAreAccountedFor == AnsweredPostsAreAudited /\ TasksHaveTheirTarget

\* The reports of the console, each read by several statements, agree with the tables
\* and the queue but for what has changed meanwhile.
ReportsFitTheirTables == ConsoleTypeOK /\ PagesFitTotals /\ TimelinesShowTheLatest /\ TasksAreCountedOnce
==============================================================================
