------------------------------- MODULE EventBus -------------------------------
(***************************************************************************)
(* The event bus: callers publish domain events to the database and to a   *)
(* Redis stream, a periodic task is to consume the stream, and operators   *)
(* replay the events of the database, which runs the handlers.  A handler  *)
(* has a session of its own, one transaction for each event; a select of   *)
(* it and the commit with the writes before it are one step each.          *)
(*                                                                         *)
(* The consumer never receives a message: it passes the stream to          *)
(* xreadgroup in the place of the group's name, and the client refuses the *)
(* call.  Only replays run handlers.                                       *)
(***************************************************************************)
EXTENDS Naturals, Sequences, FiniteSets, FiniteSetsExt, TLC

CONSTANTS
  Callers,       \* transactions of services that publish events
  Replays,       \* calls of the replayer
  Merchants,     \* the rows of merchants
  Transactions,  \* the rows of transactions
  Sources,       \* the merchant and the provider of each data source
  Scenes,        \* the events there are at first, and those each caller is to publish
  Operations,    \* what each of them may be asked for
  None

VARIABLES
  clock,          \* counts begins and commits of callers
  todo,           \* the events each caller has left to publish
  stage,          \* the statement each caller executes next
  began,          \* when each caller's transaction began
  flushed,        \* the events each caller has inserted
  domain_events,  \* the committed ones
  stream,         \* the Redis stream: its entries, and whether it and its group exist
  pc, op,         \* of each replay: where it is, what it was asked for,
  chosen, left,   \* the events it selected, those not handled yet,
  current, found, \* the one in a handler, and the rows the handler has found
  audits,         \* the replay and the event of each audit log row of source "event_bus"
  made,           \* the rows handlers inserted into the other tables
  disputed,       \* transactions whose status a handler set to "disputed"
  synced          \* for each data source, the handlings that set last_sync_at and last_success_at

publishing == <<clock, todo, stage, began, flushed, domain_events>>
effects == <<audits, made, disputed, synced>>
replaying == <<pc, op, chosen, left, current, found, effects>>
vars == <<publishing, stream, replaying>>

NoStream == [exists |-> FALSE, group |-> FALSE, entries |-> <<>>]

EventTypes ==
  {"transaction.created", "transaction.updated", "transaction.settled", "settlement.received",
   "settlement.mismatch_detected", "reconciliation.completed", "reconciliation.mismatch",
   "incident.created", "incident.acknowledged", "incident.resolved", "alert.created",
   "alert.resolved", "dispute.created", "provider.sync.completed", "provider.sync.failed",
   "webhook.received", "webhook.processed"}

\* The events of all scenes, stored or to be published.
Drafts ==
  UNION {scene.events \cup UNION {{scene.todo[c][i] : i \in DOMAIN scene.todo[c]} : c \in Callers} :
           scene \in Scenes}

Fields == {"id", "type", "aggregate", "merchant", "provider", "large", "failed", "unmatched",
           "reference", "transaction", "correlation", "at", "kept"}

\* The rows handlers may insert.
Row ==
  [table : {"alerts", "provider_health_metrics", "settlements", "money_at_risk", "incidents",
            "dashboard_snapshots", "notifications"},
   key : {e.provider : e \in Drafts} \cup {e.reference : e \in Drafts} \cup {None, "today"},
   by : Replays \X {e.id : e \in Drafts},
   merchant : {e.merchant : e \in Drafts},
   fail : Nat]

\* The stored events have ids and the times of transactions that did commit; of two
\* of one correlation, each was begun before the other was committed.
ASSUME EventBusAssumption ==
  /\ None \notin Row
  /\ \A s \in Sources : s[2] # None
  /\ \A e \in Drafts : DOMAIN e = Fields /\ e.type \in EventTypes
  /\ \A scene \in Scenes :
       /\ IsFiniteSet(scene.events)
       /\ \A e \in scene.events :
            e.at \in Nat /\ e.kept \in Nat /\ e.at <= e.kept /\ e.kept <= Cardinality(scene.events)
       /\ \A e, f \in scene.events :
            /\ e.id = f.id => e = f
            /\ e # f /\ e.correlation # None /\ e.correlation = f.correlation => e.at < f.kept
       /\ DOMAIN scene.todo = Callers
       /\ \A c \in Callers :
            /\ scene.todo[c] \in Seq(Drafts)
            /\ \A i \in DOMAIN scene.todo[c] :
                 /\ \A e \in scene.events : e.id # scene.todo[c][i].id
                 /\ \A d \in Callers : \A j \in DOMAIN scene.todo[d] :
                      scene.todo[c][i].id = scene.todo[d][j].id => c = d /\ i = j

Init ==
  /\ \E scene \in Scenes : domain_events = scene.events /\ todo = scene.todo
  /\ clock = Cardinality(domain_events) + 1
  /\ stage = [c \in Callers |-> "begin"]
  /\ began = [c \in Callers |-> None]
  /\ flushed = [c \in Callers |-> {}]
  /\ stream = NoStream
  /\ pc = [r \in Replays |-> "idle"]
  /\ op = [r \in Replays |-> None]
  /\ chosen = [r \in Replays |-> {}]
  /\ left = [r \in Replays |-> {}]
  /\ current = [r \in Replays |-> None]
  /\ found = [r \in Replays |-> <<>>]
  /\ audits = {}
  /\ made = {}
  /\ disputed = {}
  /\ synced = [s \in Sources |-> [sync |-> None, success |-> None]]

------------------------------------------------------------------------------
(* Publishing.  The caller begins a transaction, checks the correlation of *)
(* an event that has one, publishes, and commits or not.                   *)

Begin(c) ==
  /\ stage[c] = "begin" /\ todo[c] # <<>>
  /\ began' = [began EXCEPT ![c] = clock]
  /\ clock' = clock + 1
  /\ stage' = [stage EXCEPT ![c] = "check"]
  /\ UNCHANGED <<todo, flushed, domain_events, stream, replaying>>

\* Altered form: nothing looks the correlation up.
check_event_exists_never(c, correlation) == FALSE

check_event_exists(c, correlation) ==
  \E e \in domain_events \cup flushed[c] : correlation # None /\ e.correlation = correlation

Check(c) ==
  /\ stage[c] = "check" /\ todo[c] # <<>>
  /\ IF check_event_exists(c, Head(todo[c]).correlation)
     THEN todo' = [todo EXCEPT ![c] = Tail(@)] /\ UNCHANGED stage
     ELSE stage' = [stage EXCEPT ![c] = "insert"] /\ UNCHANGED todo
  /\ UNCHANGED <<clock, began, flushed, domain_events, stream, replaying>>

\* created_at is the time of the transaction, the same for all events of a caller.
Insert(c) ==
  /\ stage[c] = "insert"
  /\ flushed' = [flushed EXCEPT ![c] = @ \cup {[Head(todo[c]) EXCEPT !.at = began[c]]}]
  /\ stage' = [stage EXCEPT ![c] = "stream"]
  /\ UNCHANGED <<clock, todo, began, domain_events, stream, replaying>>

\* Nothing retries an event that Redis did not take.
PublishToStream(c) ==
  /\ stage[c] = "stream"
  /\ \/ stream' = [stream EXCEPT !.exists = TRUE, !.entries = Append(@, Head(todo[c]).id)]
     \/ UNCHANGED stream
  /\ todo' = [todo EXCEPT ![c] = Tail(@)]
  /\ stage' = [stage EXCEPT ![c] = "check"]
  /\ UNCHANGED <<clock, began, flushed, domain_events, replaying>>

Commit(c) ==
  /\ stage[c] = "check" /\ todo[c] = <<>>
  /\ domain_events' = domain_events \cup {[e EXCEPT !.kept = clock] : e \in flushed[c]}
  /\ clock' = clock + 1
  /\ stage' = [stage EXCEPT ![c] = "done"]
  /\ flushed' = [flushed EXCEPT ![c] = {}]
  /\ UNCHANGED <<todo, began, stream, replaying>>

\* The request fails later on, or its process dies.
Rollback(c) ==
  /\ stage[c] \in {"check", "insert", "stream"}
  /\ stage' = [stage EXCEPT ![c] = "done"]
  /\ flushed' = [flushed EXCEPT ![c] = {}]
  /\ UNCHANGED <<clock, todo, began, domain_events, stream, replaying>>

------------------------------------------------------------------------------
(* The stream.  An `except redis.ResponseError` looks for an attribute the *)
(* client does not have, so a refusal of Redis ends the task instead.      *)

\* Altered form: the refusal is caught.
setup_event_streams_caught ==
  stream' = [exists |-> TRUE, group |-> TRUE, entries |-> <<>>]

\* On a stream with a group it fails before xtrim, without a stream at once;
\* otherwise maxlen = 0 empties the stream.
setup_event_streams ==
  /\ stream.exists
  /\ stream' = IF stream.group THEN stream ELSE [stream EXCEPT !.group = TRUE, !.entries = <<>>]

consume_events ==
  stream' = [stream EXCEPT !.exists = TRUE, !.group = TRUE]

reset_consumer_group ==
  stream' = [stream EXCEPT !.exists = TRUE, !.group = TRUE]

delete_consumer_group ==
  /\ stream.group
  /\ stream' = [stream EXCEPT !.group = FALSE]

\* It is deleted, or its day is over.
purge_stream ==
  /\ stream.exists
  /\ stream' = NoStream

Manage ==
  /\ \/ setup_event_streams
     \/ consume_events
     \/ reset_consumer_group
     \/ delete_consumer_group
     \/ purge_stream
  /\ UNCHANGED <<publishing, replaying>>

------------------------------------------------------------------------------
(* Handlers.                                                               *)

\* What a handler does: the tables it inserts a row into whatever it finds, and the
\* rows it looks for by table and key, and inserts when there are none.
Handling(inserts, looks) == [inserts |-> inserts, looks |-> looks]
AuditOnly == Handling({}, <<>>)

HealthOfToday(provider) ==
  IF provider = None THEN <<>> ELSE <<[table |-> "provider_health_metrics", key |-> provider]>>

handle_transaction_created(e) == Handling(IF e.large THEN {"alerts"} ELSE {}, <<>>)
handle_transaction_updated(e) == IF e.failed THEN Handling({}, HealthOfToday(e.provider)) ELSE AuditOnly
handle_transaction_settled(e) == AuditOnly

handle_settlement_received(e) ==
  Handling({}, <<[table |-> "settlements", key |-> e.reference], [table |-> "money_at_risk", key |-> "today"]>>)

handle_settlement_mismatch_detected(e) == AuditOnly
handle_reconciliation_completed(e) ==
  Handling(IF e.unmatched THEN {"incidents", "dashboard_snapshots"} ELSE {"dashboard_snapshots"}, <<>>)
handle_reconciliation_mismatch(e) == AuditOnly
handle_incident_created(e) == Handling({"notifications"}, <<>>)
handle_incident_acknowledged(e) == AuditOnly
handle_incident_resolved(e) == AuditOnly
handle_alert_created(e) == Handling({"notifications"}, <<>>)
handle_alert_resolved(e) == AuditOnly
handle_dispute_created(e) == AuditOnly
handle_provider_sync_completed(e) == Handling({}, HealthOfToday(e.provider))
handle_provider_sync_failed(e) == AuditOnly
handle_webhook_received(e) == AuditOnly
handle_webhook_processed(e) == AuditOnly

HANDLERS(e) ==
  CASE e.type = "transaction.created" -> handle_transaction_created(e)
    [] e.type = "transaction.updated" -> handle_transaction_updated(e)
    [] e.type = "transaction.settled" -> handle_transaction_settled(e)
    [] e.type = "settlement.received" -> handle_settlement_received(e)
    [] e.type = "settlement.mismatch_detected" -> handle_settlement_mismatch_detected(e)
    [] e.type = "reconciliation.completed" -> handle_reconciliation_completed(e)
    [] e.type = "reconciliation.mismatch" -> handle_reconciliation_mismatch(e)
    [] e.type = "incident.created" -> handle_incident_created(e)
    [] e.type = "incident.acknowledged" -> handle_incident_acknowledged(e)
    [] e.type = "incident.resolved" -> handle_incident_resolved(e)
    [] e.type = "alert.created" -> handle_alert_created(e)
    [] e.type = "alert.resolved" -> handle_alert_resolved(e)
    [] e.type = "dispute.created" -> handle_dispute_created(e)
    [] e.type = "provider.sync.completed" -> handle_provider_sync_completed(e)
    [] e.type = "provider.sync.failed" -> handle_provider_sync_failed(e)
    [] e.type = "webhook.received" -> handle_webhook_received(e)
    [] e.type = "webhook.processed" -> handle_webhook_processed(e)

Inserts(e) == HANDLERS(e).inserts
Looks(e) == HANDLERS(e).looks

Of(merchant, look) ==
  {row \in made : row.merchant = merchant /\ row.table = look.table /\ row.key = look.key}

\* A handler adds a new failure to the count it has read, or inserts a row with it.
Failures(e) == IF e.type = "transaction.updated" THEN 1 ELSE 0

Inserted(r, table, key, fail) ==
  [table |-> table, key |-> key, by |-> <<r, current[r].id>>, merchant |-> current[r].merchant, fail |-> fail]

NewRows(r) ==
  LET e == current[r]
  IN {Inserted(r, t, None, 0) : t \in Inserts(e)}
       \cup {Inserted(r, Looks(e)[i].table, Looks(e)[i].key, Failures(e)) :
               i \in {j \in DOMAIN found[r] : found[r][j] = None}}

\* The foreign keys, and the unique index of money_at_risk.
Refused(r, row) ==
  \/ row.table # "provider_health_metrics" /\ row.merchant \notin Merchants
  \/ row.table = "alerts" /\ current[r].aggregate \notin Transactions
  \/ row.table = "money_at_risk" /\ Of(row.merchant, row) # {}

Counted(r) ==
  {row \in made : Failures(current[r]) = 1 /\ \E i \in DOMAIN found[r] :
     found[r][i] # None /\ row.table = found[r][i].table /\ row.by = found[r][i].by}

\* An UPDATE of one column, from the value that was read.
Recount(r) ==
  (made \ Counted(r)) \cup {[row EXCEPT !.fail = found[r][1].fail + 1] : row \in Counted(r)}

Synced(e, by) ==
  [s \in Sources |->
     IF s # <<e.merchant, e.provider>> THEN synced[s]
     ELSE CASE e.type = "transaction.created" -> [synced[s] EXCEPT !.sync = by]
            [] e.type = "provider.sync.completed" -> [sync |-> by, success |-> by]
            [] OTHER -> synced[s]]

Disputed(e) ==
  IF e.type = "dispute.created" THEN {IF e.transaction # None THEN e.transaction ELSE e.aggregate} ELSE {}

------------------------------------------------------------------------------
(* Replays.                                                                *)

Selected(o) ==
  {e \in domain_events :
     /\ o.types = {} \/ e.type \in o.types
     /\ CASE o.name \in {"merchant", "list_merchant"} -> e.merchant = o.merchant
          [] o.name = "since" -> e.at >= o.since
          [] o.name \in {"aggregate", "list_aggregate"} -> e.aggregate = o.aggregate}

Earliest(events) == {e \in events : \A f \in events : e.at <= f.at}

\* The listings of a merchant's events, the latest first; ties in any order.
Listed(events, limit) ==
  {s \in SUBSET events : /\ Cardinality(s) = Min({limit, Cardinality(events)})
                         /\ \A e \in s, f \in events \ s : e.at >= f.at}

\* The next event by created_at; ties in any order.
Turn(r, remaining) ==
  /\ left' = [left EXCEPT ![r] = remaining]
  /\ found' = [found EXCEPT ![r] = <<>>]
  /\ IF remaining = {}
     THEN pc' = [pc EXCEPT ![r] = "done"] /\ current' = [current EXCEPT ![r] = None]
     ELSE /\ pc' = [pc EXCEPT ![r] = "handle"]
          /\ \E e \in Earliest(remaining) : current' = [current EXCEPT ![r] = e]

Start(r) ==
  /\ pc[r] = "idle"
  /\ \E o \in Operations[r] :
       /\ op' = [op EXCEPT ![r] = o]
       /\ IF o.name \in {"list_merchant", "list_aggregate"}
          THEN /\ \E s \in IF o.name = "list_merchant" THEN Listed(Selected(o), o.limit) ELSE {Selected(o)} :
                    chosen' = [chosen EXCEPT ![r] = s]
               /\ pc' = [pc EXCEPT ![r] = "done"]
               /\ UNCHANGED <<left, current, found>>
          ELSE /\ chosen' = [chosen EXCEPT ![r] = Selected(o)]
               /\ Turn(r, Selected(o))
  /\ UNCHANGED <<publishing, stream, effects>>

\* A select of the handler takes the first of the rows it matches.
Look(r) ==
  /\ pc[r] = "handle" /\ Len(found[r]) < Len(Looks(current[r]))
  /\ LET rows == Of(current[r].merchant, Looks(current[r])[Len(found[r]) + 1]) IN
     \E row \in IF rows = {} THEN {None} ELSE rows : found' = [found EXCEPT ![r] = Append(@, row)]
  /\ UNCHANGED <<publishing, stream, pc, op, chosen, left, current, effects>>

\* Altered form: the audit row has a transaction of its own.
WriteApart(r) ==
  LET e == current[r]
      by == <<r, e.id>>
  IN /\ audits' = audits \cup {by}
     /\ IF \E row \in NewRows(r) : Refused(r, row)
        THEN UNCHANGED <<made, disputed, synced>>
        ELSE /\ made' = Recount(r) \cup NewRows(r)
             /\ disputed' = disputed \cup (Disputed(e) \cap Transactions)
             /\ synced' = Synced(e, by)

\* The handler's writes become visible together, or none of them.
Write(r) ==
  LET e == current[r]
      by == <<r, e.id>>
  IN IF \E row \in NewRows(r) : Refused(r, row)
     THEN UNCHANGED effects
     ELSE /\ audits' = audits \cup {by}
          /\ made' = Recount(r) \cup NewRows(r)
          /\ disputed' = disputed \cup (Disputed(e) \cap Transactions)
          /\ synced' = Synced(e, by)

\* Altered form: a handler that failed is tried again.
RestRetried(r) ==
  IF \E row \in NewRows(r) : Refused(r, row) THEN left[r] ELSE left[r] \ {current[r]}

\* A dead letter is logged and counted like the others.
Rest(r) == left[r] \ {current[r]}

handle_event(r) ==
  /\ pc[r] = "handle" /\ Len(found[r]) = Len(Looks(current[r]))
  /\ Write(r)
  /\ Turn(r, Rest(r))
  /\ UNCHANGED <<publishing, stream, op, chosen>>

\* The process dies; the transaction of the handler is rolled back.
Crash(r) ==
  /\ pc[r] = "handle"
  /\ pc' = [pc EXCEPT ![r] = "crashed"]
  /\ current' = [current EXCEPT ![r] = None]
  /\ found' = [found EXCEPT ![r] = <<>>]
  /\ UNCHANGED <<publishing, stream, op, chosen, left, effects>>

------------------------------------------------------------------------------
Next ==
  \/ \E c \in Callers : Begin(c) \/ Check(c) \/ Insert(c) \/ PublishToStream(c) \/ Commit(c) \/ Rollback(c)
  \/ Manage
  \/ \E r \in Replays : Start(r) \/ Look(r) \/ handle_event(r) \/ Crash(r)

\* A replay that was started runs on; nothing makes callers, operators or Redis act.
Spec == Init /\ [][Next]_vars /\ \A r \in Replays : WF_vars(Look(r) \/ handle_event(r))

------------------------------------------------------------------------------
Rows(table) == {row \in made : row.table = table}

Event(id) == CHOOSE e \in UNION {chosen[r] : r \in Replays} : e.id = id

AuditsOf(Test(_)) == {by \in audits : Test(Event(by[2]))}

\* The types, and what the replayer's own variables say of one another.
TypeOK ==
  /\ clock \in Nat
  /\ stage \in [Callers -> {"begin", "check", "insert", "stream", "done"}]
  /\ \A e \in domain_events : e.type \in EventTypes /\ e.at <= e.kept /\ e.kept < clock
  /\ ~stream.exists => stream = NoStream
  /\ pc \in [Replays -> {"idle", "handle", "done", "crashed"}]
  /\ \A r \in Replays :
       /\ left[r] \subseteq chosen[r] /\ chosen[r] \subseteq domain_events
       /\ IF pc[r] = "handle" THEN current[r] \in left[r] ELSE current[r] = None
  /\ \A row, other \in made : row.table = other.table /\ row.by = other.by => row = other

\* A handler's effects and its audit row are one: every row, dispute and sync time
\* is the work of an audited handling, which did all it does without looking.
EffectsAreAudited ==
  /\ \A row \in made : row.by \in audits
  /\ \A by \in audits : \A t \in Inserts(Event(by[2])) : \E row \in Rows(t) : row.by = by
  /\ \A t \in disputed : \E by \in audits : t \in Disputed(Event(by[2]))
  /\ \A s \in Sources : {synced[s].sync, synced[s].success} \ {None} \subseteq audits

\* Every settlement that was handled is there, under its own reference, and the
\* merchant has money at risk for the day.
SettlementsAreKept ==
  \A by \in audits :
    LET e == Event(by[2]) IN
    e.type = "settlement.received" =>
      /\ \E row \in Rows("settlements") : row.merchant = e.merchant /\ row.key = e.reference
      /\ \E row \in Rows("money_at_risk") : row.merchant = e.merchant

\* Settlements and health rows have no unique constraint, yet a replay by itself
\* never inserts the same one twice.
RepeatsTakeTwoReplays ==
  \A row, other \in Rows("settlements") \cup Rows("provider_health_metrics") :
    /\ row # other /\ row.table = other.table
    /\ row.merchant = other.merchant /\ row.key = other.key
    => row.by[1] # other.by[1]

\* A provider's failures are never counted more often than handled, and exactly as
\* often when one replay handled all of them.
FailuresAreCounted ==
  \A s \in Sources :
    LET Failed(e) == e.type = "transaction.updated" /\ e.failed /\ <<e.merchant, e.provider>> = s
        handled == AuditsOf(Failed)
        rows == {row \in Rows("provider_health_metrics") : <<row.merchant, row.key>> = s}
        count == MapThenSumSet(LAMBDA row : row.fail, rows)
    IN /\ count <= Cardinality(handled)
       /\ Cardinality({by[1] : by \in handled}) <= 1 => count = Cardinality(handled)

\* A replay that ended left out no event of its selection but those whose rows the
\* database refuses: of unknown merchants or transactions, or the day's second
\* money at risk.
DeadLettersHaveCauses ==
  \A r \in Replays : pc[r] = "done" /\ op[r].name \in {"merchant", "since", "aggregate"} =>
    \A e \in chosen[r] : <<r, e.id>> \notin audits =>
      \/ e.merchant \notin Merchants
      \/ e.type = "transaction.created" /\ e.aggregate \notin Transactions
      \/ e.type = "settlement.received" /\ \E row \in Rows("money_at_risk") : row.merchant = e.merchant /\ row.by[1] # r

\* A replay handles no event before one of an earlier transaction.
ReplayedInOrder ==
  \A r \in Replays : \A e \in chosen[r] :
    pc[r] = "handle" /\ <<r, e.id>> \in audits => e.at <= current[r].at

\* A listing leaves out an event later than one of its own only when that event was
\* committed after all of the listing.
ListingsAreLatest ==
  \A r \in Replays : pc[r] = "done" /\ op[r].name = "list_merchant" =>
    \A e \in chosen[r], f \in Selected(op[r]) \ chosen[r] :
      f.at > e.at => \A g \in chosen[r] : f.kept > g.kept

\* Two events of one correlation come from transactions that ran at the same time.
PublishedTwiceOnlyTogether ==
  \A e, f \in domain_events :
    e # f /\ e.correlation # None /\ e.correlation = f.correlation => e.at < f.kept /\ f.at < e.kept

\* Nothing takes entries from a stream that has its group, but its deletion.
GroupedStreamsGrow ==
  [][stream.group /\ stream'.exists =>
       /\ Len(stream.entries) <= Len(stream'.entries)
       /\ SubSeq(stream'.entries, 1, Len(stream.entries)) = stream.entries]_vars

\* Every replay ends, whatever its handlers fail with.
ReplaysEnd == \A r \in Replays : pc[r] = "handle" ~> pc[r] \in {"done", "crashed"}

\* What replays did is what their audit rows say: no effect without one, none lost,
\* repeated or left out by a replay alone.
EffectsFollowAudits ==
  /\ EffectsAreAudited
  /\ SettlementsAreKept
  /\ RepeatsTakeTwoReplays
  /\ FailuresAreCounted
  /\ DeadLettersHaveCauses

\* What is read of the events is in the order in which it was written.
EventsAreInOrder == TypeOK /\ ReplayedInOrder /\ ListingsAreLatest /\ PublishedTwiceOnlyTogether
==============================================================================
