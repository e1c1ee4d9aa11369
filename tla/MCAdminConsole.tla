---------------------------- MODULE MCAdminConsole ----------------------------
(***************************************************************************)
(* Instances of AdminConsole for TLC.                                      *)
(***************************************************************************)
EXTENDS AdminConsole

CONSTANTS r1, r2

MCNow == 35 * 48 + 24

Tx(id, at) == [id |-> id, merchant |-> "m1", provider |-> "p1", status |-> "success", at |-> at]

Webhook(id, event, at) ==
  [id |-> id, event |-> event, transaction |-> "t1", provider |-> "p1", status |-> "success", at |-> at]

Audit(id, at) == [id |-> id, event |-> "retry_job", about |-> "i1", at |-> at]

Response(id, query, at) == [id |-> id, query |-> query, at |-> at]

\* A few rows of every table, of different moments.
Small ==
  [transactions |-> {Tx("t1", MCNow - 2), Tx("t2", MCNow - 400)},
   events |-> {Webhook("e1", "evt1", MCNow - 9), Webhook("e2", "evt2", MCNow - 9),
               [Webhook("e3", "evt3", MCNow - 7) EXCEPT !.status = "failed"]},
   accounts |-> {[id |-> "acc1", merchant |-> "m1", provider |-> "p1"]},
   incidents |-> {[id |-> "i1", merchant |-> "m1", at |-> MCNow - 3]},
   runs |-> {[id |-> "run1", merchant |-> "m1", at |-> MCNow - 3]},
   jobs |-> {}, audit_logs |-> {Audit("a1", MCNow - 1), Audit("a2", MCNow - 500)},
   ai_responses |-> {Response("x1", "why", MCNow - 1), Response("x2", "why", MCNow - 2)}]

\* Nothing but an incident and more transactions than its timeline shows.
Long ==
  [[t \in DOMAIN Small |-> {}] EXCEPT
     !.incidents = Small.incidents,
     !.transactions = {Tx("t" \o ToString(i), MCNow - i) : i \in 1..11}]

MCStores == {Small, Long}

Ask(name) == [name |-> name, role |-> "admin", id |-> None]

About(name, ids) == {[Ask(name) EXCEPT !.id = i] : i \in ids}

ListOf(limit, offset) == [limit |-> limit, offset |-> offset]

PostOperations ==
  About("replay_webhook", {"evt1", "unknown"}) \cup About("force_sync", {"acc1", "unknown"})
  \cup About("replay_reconciliation", {"run1", "unknown"}) \cup About("health_check", {"acc1", "unknown"})
  \cup About("retry_job", {"job1"}) \cup {[Ask("replay_webhook") EXCEPT !.role = "support"]}

ReportOperations ==
  About("incident_timeline", {"i1", "unknown"}) \cup About("ai_response", {"x1", "unknown"})
  \cup {Ask("queue_status"), Ask("db_stats"), Ask("failed_jobs")}
  \cup {[Ask("related_records") EXCEPT !.id = "i1"] @@ p : p \in {ListOf(1, 0), ListOf(5, 3)}}
  \cup {Ask("list_webhooks") @@ [merchant |-> m, provider |-> "p1", status |-> s] @@ ListOf(2, k) :
          m \in {None, "m1"}, s \in {None, "success"}, k \in {1}}
  \cup {Ask("audit_log") @@ [days |-> 7, events |-> e] @@ ListOf(1, k) : e \in {{}, {"retry_job"}}, k \in {0, 1}}
  \cup {Ask("ai_by_query") @@ [queries |-> q] @@ ListOf(1, 1) : q \in {{}, {"why"}}}

\* The second request is a post.
MCOperations ==
  r1 :> (PostOperations \cup ReportOperations)
  @@ r2 :> (About("force_sync", {"acc1"}) \cup About("retry_job", {"job1"}))

MCArrivals ==
  {[table |-> "transactions", row |-> Tx("t99", MCNow)],
   [table |-> "events", row |-> Webhook("e99", "evt99", MCNow)],
   [table |-> "ai_responses", row |-> Response("x99", "why", MCNow)]}
==============================================================================
