------------------------------- MODULE Ingestion -------------------------------
(***************************************************************************)
(* How a provider's transactions enter the database: webhooks (routes/     *)
(* webhooks.py, services/transaction.py, services/data_source.py) and      *)
(* inline syncs of transactions, settlements, transfers and refunds        *)
(* (routes/provider_sync.py, services/provider_sync.py,                    *)
(* services/settlement.py), in concurrent database transactions.           *)
(* A request takes one step per SQL statement at READ COMMITTED.  What it  *)
(* has written and not committed is in `work`; an update holds its row     *)
(* until the end of the transaction, and another update of it waits.       *)
(***************************************************************************)
EXTENDS Integers, Sequences, FiniteSets, Relation

CONSTANTS
  Requests,         \* HTTP requests
  Merchants,
  Names, Nameless,  \* what the provider calls transactions and settlements; the empty string
  EventNames,       \* the event types of webhook envelopes
  None,
  Inputs,           \* the webhooks and syncs that may arrive
  InitialSources,   \* merchants that already have a webhook data source
  Earlier,          \* transactions recorded before
  EarlierSettlements

VARIABLES
  sources,          \* committed webhook rows of data_sources
  transactions,     \* committed rows of transactions
  settlements,      \* committed rows of settlements
  events,           \* committed rows of transaction_events
  alerts,           \* committed rows of alerts
  jobs,             \* committed rows of provider_sync_jobs
  pc,               \* the statement each request executes next
  input,            \* what each request asks for
  work,             \* what each request has read and written and not committed
  answer            \* how each request was answered

vars == <<sources, transactions, settlements, events, alerts, jobs, pc, input, work, answer>>
tables == <<sources, transactions, settlements, events, alerts, jobs>>

ProviderStatus == {"success", "failed", "abandoned", "pending", "completed"}
TransactionStatus == {"success", "failed", "pending"}

Payload == [id : Names \cup {None}, reference : Names \cup {None}, status : ProviderStatus]

\* The database refuses an unstorable record (an amount beyond its column);
\* normalising an unreadable one raises.
Record == [id : Names \cup {None}, reference : Names \cup {None}, status : ProviderStatus,
           form : {"good", "unreadable", "unstorable"}]

\* merchant is None when no connected account's secret verifies the signature.
WebhookInput == [kind : {"webhook"}, merchant : Merchants \cup {None},
                 event : EventNames, payload : Payload]
SyncInput    == [kind : {"sync"}, type : {"transactions", "settlements", "transfers"},
                 merchant : Merchants, fetched : Seq(Record)]
                \cup [kind : {"sync"}, type : {"refunds"}, merchant : Merchants, fetched : {<<>>}]

\* A row is named by the request that inserts it, if one does, and its reference.
SourceRow == [id : Requests \cup Merchants, merchant : Merchants]
Row == [id : (Requests \cup {None}) \X (Names \cup {Nameless}), merchant : Merchants,
        ref : Names \cup {Nameless}, status : TransactionStatus]

\* Rows that were there before the requests.
EarlierRow == [id : {None} \X Names, merchant : Merchants, ref : Names, status : TransactionStatus]

ASSUME IngestionAssumption ==
  /\ None \notin Names \cup Merchants \cup Requests
  /\ None \notin SourceRow \cup Row
  /\ Nameless \notin Names
  /\ InitialSources \subseteq Merchants
  /\ Earlier \subseteq EarlierRow
  /\ \A t, u \in Earlier : t.id = u.id \/ t.ref = u.ref => t = u
  /\ EarlierSettlements \subseteq EarlierRow
  /\ \A s, t \in EarlierSettlements : s.id = t.id \/ s.ref = t.ref => s = t
  /\ Inputs \subseteq WebhookInput \cup SyncInput

------------------------------------------------------------------------------
(***************************************************************************)
(* Normalisation.  Python's `a or b or c` takes the first that is there.   *)
(***************************************************************************)

Status(s) == CASE s = "success" -> "success"
               [] s \in {"failed", "abandoned"} -> "failed"
               [] OTHER -> "pending"

SettlementStatus(s) ==
  CASE s = "completed" -> "success"
    [] s = "failed" -> "failed"
    [] OTHER -> "pending"

Ref(p) == IF p.id # None THEN p.id ELSE IF p.reference # None THEN p.reference ELSE Nameless

\* A webhook's event is named after its transaction.
EventId(i) == IF i.payload.id # None THEN i.payload.id ELSE i.event

------------------------------------------------------------------------------
Idle == [source |-> None, found |-> None, rows |-> {}, at |-> 1,
         created |-> 0, updated |-> 0, failures |-> 0]

Init ==
  /\ sources = {[id |-> m, merchant |-> m] : m \in InitialSources}
  /\ transactions = Earlier
  /\ settlements = EarlierSettlements
  /\ events = {}
  /\ alerts = {}
  /\ jobs = {}
  /\ pc = [r \in Requests |-> "idle"]
  /\ input = [r \in Requests |-> None]
  /\ work = [r \in Requests |-> Idle]
  /\ answer = [r \in Requests |-> "none"]

Goto(r, statement) == pc' = [pc EXCEPT ![r] = statement] /\ UNCHANGED <<tables, input, answer>>

Continue(r, statement) == Goto(r, statement) /\ UNCHANGED work

\* The transaction is rolled back: whatever r has written is gone.
Refuse(r, status) ==
  /\ pc' = [pc EXCEPT ![r] = "done"]
  /\ work' = [work EXCEPT ![r] = Idle]
  /\ answer' = [answer EXCEPT ![r] = status]
  /\ UNCHANGED <<tables, input>>

IdsOf(rows) == {t.id : t \in rows}

\* The table that r's rows belong to.
Table(r) == IF input[r].kind = "sync" /\ input[r].type = "settlements" THEN "settlements" ELSE "transactions"

Committed(r) == IF Table(r) = "settlements" THEN settlements ELSE transactions

\* The rows r sees: the committed ones, as it has changed them, and its own.
Rows(r) == {t \in Committed(r) : t.id \notin IdsOf(work[r].rows)} \cup work[r].rows

\* The committed rows r has updated, or waits to update.
Holds(r) ==
  (IF work[r].rows = {} THEN {} ELSE {Table(r)} \X (IdsOf(work[r].rows) \cap IdsOf(Committed(r))))
  \cup (IF work[r].source # None THEN {<<"sources", work[r].source.id>>} ELSE {})

Free(r, table, id) == \A q \in Requests \ {r} : <<table, id>> \notin Holds(q)

\* r holds the uncommitted row of a webhook event.
Recording(r, event) ==
  pc[r] = "commit_event" /\ EventId(input[r]) = event

Wants(r) ==
  IF pc[r] \in {"write_source", "write_txn"} /\ work[r].found # None
  THEN {<<IF pc[r] = "write_source" THEN "sources" ELSE Table(r), work[r].found.id>>} ELSE {}

WaitsFor(r, q) ==
  /\ r # q
  /\ \/ Wants(r) \cap Holds(q) # {}
     \/ pc[r] = "insert_event" /\ Recording(q, EventId(input[r]))

Arrive(r) ==
  /\ pc[r] = "idle"
  /\ \E i \in Inputs :
       /\ input' = [input EXCEPT ![r] = i]
       /\ pc' = [pc EXCEPT ![r] = IF i.kind = "webhook" THEN "verify" ELSE "fetch"]
  /\ UNCHANGED <<tables, work, answer>>

------------------------------------------------------------------------------
(***************************************************************************)
(* The webhook route.                                                      *)
(***************************************************************************)
Verify(r) ==
  /\ pc[r] = "verify"
  /\ IF input[r].merchant = None THEN Refuse(r, "403") ELSE Continue(r, "select_source")

\* upsert_webhook_source: scalar_one_or_none raises when it finds two.
SelectSource(r) ==
  LET mine == {s \in sources : s.merchant = input[r].merchant} IN
  /\ pc[r] = "select_source"
  /\ IF Cardinality(mine) > 1
     THEN Refuse(r, "500")
     ELSE /\ Goto(r, "write_source")
          /\ work' = [work EXCEPT ![r].found = IF mine = {} THEN None ELSE CHOOSE s \in mine : TRUE]

\* last_sync_at always changes, so a row found is always updated.
WriteSource(r) ==
  LET found == work[r].found IN
  /\ pc[r] = "write_source"
  /\ found # None => Free(r, "sources", found.id)
  /\ Goto(r, "select_event")
  /\ work' = [work EXCEPT ![r].found = None,
                          ![r].source = IF found # None THEN found
                                        ELSE [id |-> r, merchant |-> input[r].merchant]]

\* Altered forms: an uncommitted event counts; a second delivery is applied again.
SelectEventDirty(r) ==
  /\ pc[r] = "select_event"
  /\ Continue(r, IF \/ \E e \in events : e.id = EventId(input[r])
                   \/ \E q \in Requests : Recording(q, EventId(input[r]))
                 THEN "commit" ELSE "select_txn")

SelectEventAgain(r) ==
  /\ pc[r] = "select_event"
  /\ IF \E e \in events : e.id = EventId(input[r])
     THEN /\ Goto(r, "commit")
          /\ work' = [work EXCEPT ![r].rows =
               {[t EXCEPT !.status = Status(input[r].payload.status)] :
                  t \in {u \in transactions : u.ref = Ref(input[r].payload)}}]
     ELSE Continue(r, "select_txn")

\* process_provider_event: an event already recorded is answered and changes nothing.
SelectEvent(r) ==
  /\ pc[r] = "select_event"
  /\ Continue(r, IF \E e \in events : e.id = EventId(input[r]) THEN "commit" ELSE "select_txn")

\* The event's transaction, whoever its merchant is: .first() takes any match.
SelectTransaction(r) ==
  LET matches == {t \in Rows(r) : t.ref = Ref(input[r].payload)} IN
  /\ pc[r] = "select_txn"
  /\ Goto(r, "write_txn")
  /\ \E t \in (IF matches = {} THEN {None} ELSE matches) :
       work' = [work EXCEPT ![r].found = t]

\* The rows of r after inserting or updating one; the ORM updates a column only
\* when the value differs from the one it read.
Written(r, merchant, ref, status) ==
  LET rows == work[r].rows  found == work[r].found IN
  IF found = None
  THEN rows \cup {[id |-> <<r, ref>>, merchant |-> merchant, ref |-> ref, status |-> status]}
  ELSE IF found.status = status
  THEN rows
  ELSE {t \in rows : t.id # found.id} \cup {[found EXCEPT !.status = status]}

WriteTransaction(r) ==
  LET i == input[r]  found == work[r].found IN
  /\ pc[r] = "write_txn" /\ i.kind = "webhook"
  /\ found # None => Free(r, Table(r), found.id)
  /\ Goto(r, "insert_event")
  /\ work' = [work EXCEPT ![r].rows = Written(r, i.merchant, Ref(i.payload), Status(i.payload.status))]

\* Altered form: a conflict on the provider's event id is ignored.
InsertEventIgnoring(r) ==
  /\ pc[r] = "insert_event"
  /\ \A q \in Requests : ~Recording(q, EventId(input[r]))
  /\ Continue(r, IF \E e \in events : e.id = EventId(input[r]) THEN "commit" ELSE "commit_event")

\* The insert of the event, under the unique index on the provider's event id,
\* and of the alert of a failed one.
InsertEvent(r) ==
  /\ pc[r] = "insert_event"
  /\ IF \E e \in events : e.id = EventId(input[r])
     THEN Refuse(r, "500")
     ELSE /\ \A q \in Requests : ~Recording(q, EventId(input[r]))
          /\ Continue(r, "commit_event")

------------------------------------------------------------------------------
(***************************************************************************)
(* The sync routes: create_job, run_job and the _sync_... of its type, inline.*)
(***************************************************************************)
JobRow(r, status) ==
  [id |-> r, status |-> status, seen |-> Len(input[r].fetched),
   created |-> work[r].created, updated |-> work[r].updated, failed |-> 0,
   failures |-> work[r].failures]

\* The records come, or the adapter fails for good or for now; a fresh job has
\* retries left.
Fetch(r) ==
  /\ pc[r] = "fetch"
  /\ \E s \in {"select_record", "commit_queued", "commit_failed_permanent"} : Continue(r, s)

Current(r) == input[r].fetched[work[r].at]

AtEnd(r) == work[r].at > Len(input[r].fetched)

Skip(r) ==
  /\ Goto(r, "select_record")
  /\ work' = [work EXCEPT ![r].at = @ + 1, ![r].failures = @ + 1]

\* A transfer is read, counted and stored nowhere; no refunds are fetched.
CountTransfer(r) ==
  /\ pc[r] = "select_record" /\ input[r].type \in {"transfers", "refunds"}
  /\ IF AtEnd(r)
     THEN Continue(r, "commit_completed")
     ELSE IF Current(r).form = "unreadable"
     THEN Skip(r)
     ELSE /\ Goto(r, "select_record")
          /\ work' = [work EXCEPT ![r].at = @ + 1, ![r].created = @ + 1]

\* The next record's select by merchant and reference (a provider lists a record
\* once).  A record that cannot be read, or that matches two rows
\* (scalar_one_or_none), is a failure of its own.
SelectRecord(r) ==
  /\ pc[r] = "select_record" /\ input[r].type \in {"transactions", "settlements"}
  /\ IF AtEnd(r)
     THEN Continue(r, "commit_completed")
     ELSE LET matches == {t \in Rows(r) : t.merchant = input[r].merchant /\ t.ref = Ref(Current(r))} IN
          IF Current(r).form = "unreadable" \/ Cardinality(matches) > 1
          THEN Skip(r)
          ELSE /\ Goto(r, "write_txn")
               /\ work' = [work EXCEPT ![r].found =
                             IF matches = {} THEN None ELSE CHOOSE t \in matches : TRUE]

\* The flush of a record.  When it fails the session's transaction is dead: every later
\* statement raises, the commit too, and nothing is kept.
Flush(r, status, created, updated) ==
  LET found == work[r].found IN
  /\ found # None => Free(r, Table(r), found.id)
  /\ Goto(r, "select_record")
  /\ work' = [work EXCEPT
       ![r].rows = Written(r, input[r].merchant, Ref(Current(r)), status),
       ![r].found = None, ![r].at = @ + 1, ![r].created = @ + created, ![r].updated = @ + updated]

\* Altered form: a record found is counted whether it is new or not.
WriteRecordCounting(r) ==
  /\ pc[r] = "write_txn" /\ input[r].kind = "sync" /\ Table(r) = "transactions"
  /\ IF Current(r).form = "unstorable"
     THEN Refuse(r, "500")
     ELSE Flush(r, Status(Current(r).status), 1, IF work[r].found = None THEN 0 ELSE 1)

WriteRecord(r) ==
  /\ pc[r] = "write_txn" /\ input[r].kind = "sync" /\ Table(r) = "transactions"
  /\ IF Current(r).form = "unstorable"
     THEN Refuse(r, "500")
     ELSE IF work[r].found = None
     THEN Flush(r, Status(Current(r).status), 1, 0)
     ELSE Flush(r, Status(Current(r).status), 0, 1)

\* upsert_settlement; the sync counts each as created, also when it is there.
WriteSettlement(r) ==
  /\ pc[r] = "write_txn" /\ input[r].kind = "sync" /\ Table(r) = "settlements"
  /\ IF Current(r).form = "unstorable"
     THEN Refuse(r, "500")
     ELSE Flush(r, SettlementStatus(Current(r).status), 1, 0)

------------------------------------------------------------------------------
(***************************************************************************)
(* The end of a request.                                                   *)
(***************************************************************************)
JobStatus == [commit_queued |-> "queued", commit_failed_permanent |-> "failed_permanent",
              commit_completed |-> "completed"]

EventOf(r) == [id |-> EventId(input[r]), by |-> r, merchant |-> input[r].merchant,
               ref |-> Ref(input[r].payload), status |-> Status(input[r].payload.status)]

\* Everything r wrote becomes visible; its answer may be lost on its way.
Commit(r) ==
  /\ pc[r] \in {"commit", "commit_event"} \cup DOMAIN JobStatus
  /\ sources' = sources \cup (IF work[r].source = None THEN {} ELSE {work[r].source})
  /\ transactions' = IF Table(r) = "transactions" THEN Rows(r) ELSE transactions
  /\ settlements' = IF Table(r) = "settlements" THEN Rows(r) ELSE settlements
  /\ events' = IF pc[r] = "commit_event" THEN events \cup {EventOf(r)} ELSE events
  /\ alerts' = IF pc[r] = "commit_event" /\ EventOf(r).status = "failed"
               THEN alerts \cup {[event |-> EventId(input[r]), merchant |-> input[r].merchant]}
               ELSE alerts
  /\ jobs' = IF pc[r] \in DOMAIN JobStatus
             THEN jobs \cup {JobRow(r, JobStatus[pc[r]])} ELSE jobs
  /\ pc' = [pc EXCEPT ![r] = "done"]
  /\ work' = [work EXCEPT ![r] = Idle]
  /\ \E s \in {"200", "lost"} : answer' = [answer EXCEPT ![r] = s]
  /\ UNCHANGED input

InCycle(r) == TransitiveClosure([p, q \in Requests |-> WaitsFor(p, q)], Requests)[r, r]

\* The database finds a cycle of waiting transactions and kills one of them.
BreakDeadlock(r) ==
  /\ \E q \in Requests : WaitsFor(r, q)
  /\ InCycle(r)
  /\ Refuse(r, "500")

\* The process or its connection dies.
Abort(r) == pc[r] \notin {"idle", "done"} /\ Refuse(r, "lost")

Step(r) ==
  \/ Verify(r) \/ SelectSource(r) \/ WriteSource(r)
  \/ SelectEvent(r) \/ SelectTransaction(r) \/ WriteTransaction(r) \/ InsertEvent(r)
  \/ Fetch(r) \/ CountTransfer(r) \/ SelectRecord(r) \/ WriteRecord(r) \/ WriteSettlement(r)
  \/ Commit(r) \/ BreakDeadlock(r)

Next == \E r \in Requests : Arrive(r) \/ Step(r) \/ Abort(r)

Spec == Init /\ [][Next]_vars

\* The event loop resumes a request when the database answers, and the database
\* answers or breaks the deadlock.  Nothing makes a request arrive or die.
FairSpec == Spec /\ \A r \in Requests : WF_vars(Step(r))

------------------------------------------------------------------------------
(***************************************************************************)
(* Properties.                                                             *)
(***************************************************************************)
\* Every variable has its type.
TypeOK ==
  /\ sources \subseteq SourceRow
  /\ transactions \cup settlements \subseteq Row
  /\ events \subseteq [id : Names \cup EventNames, by : Requests, merchant : Merchants,
                      ref : Names \cup {Nameless}, status : TransactionStatus]
  /\ alerts \subseteq [event : Names \cup EventNames, merchant : Merchants]
  /\ jobs \subseteq [id : Requests, status : {"queued", "completed", "failed_permanent"},
                    seen : Nat, created : Nat, updated : Nat, failed : Nat, failures : Nat]
  /\ pc \in [Requests -> {"idle", "verify", "select_source", "write_source", "select_event",
                         "select_txn", "write_txn", "insert_event", "fetch", "select_record",
                         "commit", "commit_event", "done"} \cup DOMAIN JobStatus]
  /\ answer \in [Requests -> {"none", "200", "403", "500", "lost"}]

\* A row is one row: no two versions of a transaction or a settlement survive
\* concurrent updates.
RowsAreKeyed ==
  /\ \A s, t \in settlements : s.id = t.id => s = t
  /\ \A t, u \in transactions : t.id = u.id => t = u
  /\ \A e, f \in events : e.id = f.id => e = f

\* A webhook answered 200 has its event recorded, and the event's transaction:
\* the provider, who will not send it again, has lost nothing.
AcknowledgedWebhooksAreRecorded ==
  \A r \in Requests : answer[r] = "200" /\ input[r].kind = "webhook" =>
    \E e \in events :
      /\ e.id = EventId(input[r])
      /\ \E t \in transactions : t.ref = e.ref

\* Webhooks of one transaction, delivered together or again, never insert it
\* twice: the one that loses the race for the event rolls its transaction back.
WebhooksInsertOnce ==
  \A t, u \in transactions :
    LET Named(v) == v.id[1] # None /\ input[v.id[1]].kind = "webhook" /\ input[v.id[1]].payload.id # None IN
    Named(t) /\ Named(u) /\ t.ref = u.ref => t = u

\* A merchant that had a webhook source before the requests has no second one.
OneSourceStays ==
  \A s, t \in sources : s.merchant = t.merchant /\ t.merchant \in InitialSources => s = t

\* A settlement that was there before the requests is updated and never stored again.
SettlementsStay ==
  \A s, t \in settlements : s.merchant = t.merchant /\ s.ref = t.ref /\ s.id[1] = None => s = t

\* Nothing is there twice that should not be: rows keep their identity and type,
\* webhooks insert a transaction once, whatever the deliveries that race for it, a
\* merchant that has a webhook source gets no other, nor a settlement a second row.
InsertedOnce == TypeOK /\ RowsAreKeyed /\ WebhooksInsertOnce /\ OneSourceStays /\ SettlementsStay

\* The counts of a completed job account for every record, and every record it
\* says it stored is there, whatever was written meanwhile.
CompletedJobsAreComplete ==
  \A j \in jobs : j.status = "completed" =>
    LET sync == input[j.id]
        table == IF sync.type = "settlements" THEN settlements ELSE transactions
        inserted == Cardinality({t \in table : t.id[1] = j.id})
    IN /\ j.seen = j.created + j.updated + j.failures
       /\ IF sync.type = "transactions" THEN inserted = j.created ELSE inserted <= j.created
       /\ sync.type \in {"transactions", "settlements"} =>
            \A k \in DOMAIN sync.fetched :
              sync.fetched[k].form = "good" =>
                \E t \in table : t.merchant = sync.merchant /\ t.ref = Ref(sync.fetched[k])

\* A webhook is applied once: a request that records no event of its own, and is
\* no sync, changes no transaction and raises no alert.
DuplicatesChangeNothing ==
  [][\A r \in Requests :
       pc[r] # "done" /\ pc'[r] = "done" /\ events' = events /\ input[r].kind = "webhook" =>
         UNCHANGED <<transactions, settlements, alerts>>]_vars

\* Requests that wait for one another's rows are all answered.
EveryRequestEnds ==
  \A r \in Requests : pc[r] # "idle" ~> pc[r] = "done"

------------------------------------------------------------------------------
(***************************************************************************)
(* What documents of the repository say, and the code does not do.         *)
(***************************************************************************)

\* "Provider transaction ID uniqueness check", "Prevents duplicate records in
\* database" (TASK_006_COMPLETION.md:254-255).
OneRowPerTransaction ==
  \A t, u \in transactions : t.merchant = u.merchant /\ t.ref = u.ref => t = u

=============================================================================
