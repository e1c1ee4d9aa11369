---------------------------- MODULE IngestionProofs ----------------------------
(***************************************************************************)
(* Proofs about Ingestion for every set of requests, merchants, names and  *)
(* inputs.  IInv is what holds between the statements of the concurrent    *)
(* transactions: every version of a row, committed or not, stands for one  *)
(* row; an insert follows a select that found none; an event that is being *)
(* inserted is recorded by nobody else.                                    *)
(***************************************************************************)
EXTENDS Ingestion, FiniteSetTheorems, TLAPS

RowsOf(table) == IF table = "settlements" THEN settlements ELSE transactions

EarlierOf(table) == IF table = "settlements" THEN EarlierSettlements ELSE Earlier

Keyed(rows) == \A t, u \in rows : t.id = u.id => t = u

\* A row of this merchant and reference was there before the requests.
WasThere(table, merchant, ref) ==
  \E e \in EarlierOf(table) : e.merchant = merchant /\ e.ref = ref

\* A version of a row has the merchant and the reference the row was inserted
\* with; a request inserts none that was there before.
Genuine(table, t) ==
  /\ t \in Row
  /\ t.id[1] = None =>
       \E e \in EarlierOf(table) : e.id = t.id /\ e.merchant = t.merchant /\ e.ref = t.ref
  /\ t.id[1] # None =>
       /\ pc[t.id[1]] # "idle"
       /\ t.id[2] = t.ref
       /\ t.merchant = input[t.id[1]].merchant
       /\ input[t.id[1]].kind = "webhook" => t.ref = Ref(input[t.id[1]].payload)
       /\ ~WasThere(table, t.merchant, t.ref)

\* The committed rows of a table: one version of each, none lost, and those of
\* a webhook come with its event.
TableInv(table) ==
  /\ \A t \in RowsOf(table) : Genuine(table, t)
  /\ Keyed(RowsOf(table))
  /\ \A e \in EarlierOf(table) : e.id \in IdsOf(RowsOf(table))
  /\ \A t \in RowsOf(table) : t.id[1] # None =>
       /\ pc[t.id[1]] = "done"
       /\ input[t.id[1]].kind = "webhook" =>
            \E e \in events : e.by = t.id[1] /\ e.id = EventId(input[t.id[1]])

EventsInv ==
  /\ \A e, f \in events : e.id = f.id => e = f
  /\ \A e \in events : \E t \in transactions : t.ref = e.ref

\* A merchant of InitialSources has the source it had.
SourcesInv ==
  /\ \A m \in InitialSources : [id |-> m, merchant |-> m] \in sources
  /\ \A s \in sources : s.merchant \in InitialSources => s.id = s.merchant

WebhookStatements ==
  {"verify", "select_source", "write_source", "select_event", "select_txn", "insert_event",
   "commit", "commit_event"}

SyncStatements == {"fetch", "select_record"} \cup DOMAIN JobStatus

Work == [source : SourceRow \cup {None}, found : Row \cup SourceRow \cup {None},
         rows : SUBSET Row, at : Nat \ {0}, created : Nat, updated : Nat, failures : Nat]

WorkTypeOK ==
  /\ input \in [Requests -> Inputs \cup {None}]
  /\ work \in [Requests -> Work]

\* A request is at a statement of its route.
FitsInv(r) ==
  /\ pc[r] # "idle" => input[r] \in Inputs
  /\ pc[r] \in WebhookStatements => input[r].kind = "webhook"
  /\ pc[r] \in WebhookStatements \cup {"write_txn"} /\ pc[r] # "verify" /\ input[r].kind = "webhook" =>
       input[r].merchant # None
  /\ pc[r] \in SyncStatements => input[r].kind = "sync"
  /\ pc[r] \in {"idle", "done"} => work[r] = Idle
  /\ answer[r] # "none" => pc[r] = "done"

\* What r knows of its merchant's source.
SourceInv(r) ==
  /\ work[r].source # None =>
       (work[r].source.merchant \in InitialSources => work[r].source.id = work[r].source.merchant)
  /\ pc[r] = "write_source" =>
       IF work[r].found = None THEN input[r].merchant \notin InitialSources
       ELSE work[r].found \in sources

\* The versions r has written: of rows of its own, and of committed ones.
RowsInv(r) ==
  /\ Keyed(work[r].rows)
  /\ \A t \in work[r].rows :
       /\ Genuine(Table(r), t)
       /\ t.id[1] = r \/ t.id \in IdsOf(Committed(r))

\* The reference r looks for.
Sought(r) == IF input[r].kind = "webhook" THEN Ref(input[r].payload) ELSE Ref(Current(r))

\* What r's select returned still stands when r writes.
FoundInv(r) ==
  LET found == work[r].found IN
  pc[r] = "write_txn" =>
    /\ input[r].kind = "sync" =>
         work[r].at \in DOMAIN input[r].fetched /\ input[r].type \in {"transactions", "settlements"}
    /\ found = None =>
         /\ ~WasThere(Table(r), input[r].merchant, Sought(r))
         /\ \A t \in work[r].rows : t.id # <<r, Sought(r)>>
    /\ found # None =>
         /\ Genuine(Table(r), found)
         /\ found.ref = Sought(r)
         /\ input[r].kind = "sync" => found.merchant = input[r].merchant
         /\ IF found.id[1] = r THEN found \in work[r].rows ELSE found.id \in IdsOf(Committed(r))

\* A webhook writes once its event was not recorded, and commits either its event
\* and the event's transaction or nothing.
WebhookInv(r) ==
  input[r].kind = "webhook" =>
    /\ pc[r] \in {"insert_event", "commit_event"} =>
         \E t \in Rows(r) : t.ref = Ref(input[r].payload)
    /\ pc[r] \notin {"insert_event", "commit_event"} => work[r].rows = {}
    /\ pc[r] = "commit" => \E e \in events : e.id = EventId(input[r])
    /\ pc[r] = "commit_event" => \A e \in events : e.id # EventId(input[r])

RequestInv(r) ==
  FitsInv(r) /\ SourceInv(r) /\ RowsInv(r) /\ FoundInv(r) /\ (pc[r] # "idle" => WebhookInv(r))

\* Two requests never hold the uncommitted row of one event.
EventsAreExclusive ==
  \A q, r \in Requests :
    pc[q] = "commit_event" /\ pc[r] = "commit_event" /\ EventId(input[q]) = EventId(input[r]) => q = r

IInv ==
  /\ TypeOK /\ WorkTypeOK
  /\ TableInv("transactions") /\ TableInv("settlements") /\ EventsInv /\ SourcesInv
  /\ \A r \in Requests : RequestInv(r)
  /\ EventsAreExclusive
  /\ AcknowledgedWebhooksAreRecorded

------------------------------------------------------------------------------
\* The fields of an input of each kind.
LEMMA WebhookFields ==
  ASSUME NEW i \in Inputs, i.kind = "webhook"
  PROVE  /\ i \in WebhookInput
         /\ i.merchant \in Merchants \cup {None}
         /\ Ref(i.payload) \in Names \cup {Nameless}
         /\ Status(i.payload.status) \in TransactionStatus
         /\ EventId(i) \in Names \cup EventNames
<1>1. i \in WebhookInput
  BY IngestionAssumption DEF WebhookInput, SyncInput
<1> QED
  BY <1>1 DEF WebhookInput, Payload, Ref, EventId, Status, TransactionStatus

\* A sync asks for one of the types and has fetched records.
LEMMA SyncFields ==
  ASSUME NEW i \in Inputs, i.kind = "sync"
  PROVE  /\ i.merchant \in Merchants
         /\ i.type \in {"transactions", "settlements", "transfers", "refunds"}
         /\ i.fetched \in Seq(Record)
<1>1. i \in SyncInput
  BY IngestionAssumption DEF WebhookInput, SyncInput
<1>2. <<>> \in Seq(Record)
  OBVIOUS
<1> QED
  BY <1>1, <1>2 DEF SyncInput

\* An input is a webhook or a sync.
LEMMA InputKinds ==
  ASSUME NEW i \in Inputs
  PROVE  i.kind = "webhook" \/ i.kind = "sync"
BY IngestionAssumption DEF WebhookInput, SyncInput

\* A record of the provider normalises to a reference and a status.
LEMMA RecordFields ==
  ASSUME NEW c \in Record
  PROVE  /\ Ref(c) \in Names \cup {Nameless}
         /\ Status(c.status) \in TransactionStatus
         /\ SettlementStatus(c.status) \in TransactionStatus
         /\ c.form \in {"good", "unreadable", "unstorable"}
BY DEF Record, Ref, Status, SettlementStatus, TransactionStatus

\* What was there before the requests is made of rows.
LEMMA EarlierRows ==
  ASSUME NEW table
  PROVE  /\ \A e \in EarlierOf(table) : e \in Row /\ e.id[1] = None
         /\ \A e, f \in EarlierOf(table) : e.id = f.id \/ e.ref = f.ref => e = f
BY IngestionAssumption DEF EarlierOf, EarlierRow, Row

\* Two versions of one row agree on its merchant and its reference.
LEMMA SameRow ==
  ASSUME NEW table, NEW t, NEW u, Genuine(table, t), Genuine(table, u), t.id = u.id
  PROVE  t.merchant = u.merchant /\ t.ref = u.ref
<1>1. CASE t.id[1] = None
  <2>1. PICK e \in EarlierOf(table) : e.id = t.id /\ e.merchant = t.merchant /\ e.ref = t.ref
    BY <1>1 DEF Genuine
  <2>2. PICK f \in EarlierOf(table) : f.id = u.id /\ f.merchant = u.merchant /\ f.ref = u.ref
    BY <1>1 DEF Genuine
  <2> QED
    BY <2>1, <2>2, EarlierRows
<1>2. CASE t.id[1] # None
  BY <1>2 DEF Genuine
<1> QED
  BY <1>1, <1>2

\* What a request sees: each committed row once, in its own version if it has one.
LEMMA RowsSeen ==
  ASSUME NEW r \in Requests, TableInv(Table(r)), RowsInv(r)
  PROVE  /\ Keyed(Rows(r))
         /\ \A t \in Rows(r) : Genuine(Table(r), t)
         /\ IdsOf(Rows(r)) = IdsOf(Committed(r)) \cup IdsOf(work[r].rows)
         /\ \A e \in EarlierOf(Table(r)) :
              \E t \in Rows(r) : t.id = e.id /\ t.merchant = e.merchant /\ t.ref = e.ref
<1> USE DEF RowsInv, Rows
<1>1. Committed(r) = RowsOf(Table(r))
  BY DEF Committed, RowsOf
<1>2. Keyed(Rows(r))
  BY <1>1 DEF TableInv, Keyed, IdsOf
<1>3. \A t \in Rows(r) : Genuine(Table(r), t)
  BY <1>1 DEF TableInv
<1>4. IdsOf(Rows(r)) = IdsOf(Committed(r)) \cup IdsOf(work[r].rows)
  BY DEF IdsOf
<1>5. ASSUME NEW e \in EarlierOf(Table(r))
      PROVE  \E t \in Rows(r) : t.id = e.id /\ t.merchant = e.merchant /\ t.ref = e.ref
  <2>1. PICK t \in Rows(r) : t.id = e.id
    BY <1>1, <1>4 DEF TableInv, IdsOf
  <2>2. e.id[1] = None
    BY EarlierRows
  <2>3. PICK f \in EarlierOf(Table(r)) : f.id = t.id /\ f.merchant = t.merchant /\ f.ref = t.ref
    BY <1>3, <2>1, <2>2 DEF Genuine
  <2> QED
    BY <2>1, <2>3, EarlierRows
<1> QED
  BY <1>2, <1>3, <1>4, <1>5

------------------------------------------------------------------------------
\* A step of r that commits nothing.
LocalStep(r) ==
  /\ UNCHANGED <<tables, input>>
  /\ \A q \in Requests \ {r} : pc'[q] = pc[q] /\ work'[q] = work[q] /\ answer'[q] = answer[q]
  /\ pc[r] \notin {"idle", "done"} /\ pc'[r] # "idle" /\ answer'[r] # "200"
  /\ TypeOK' /\ WorkTypeOK'

\* Between commits a row stays what it is.
LEMMA LocalKeepsGenuine ==
  ASSUME NEW r \in Requests, LocalStep(r), NEW CONSTANT table, NEW CONSTANT t, Genuine(table, t)
  PROVE  Genuine(table, t)'
<1>1. t \in Row /\ t.id[1] \in Requests \cup {None}
  BY DEF Genuine, Row
<1>2. \A q \in Requests : pc[q] # "idle" => pc'[q] # "idle"
  BY DEF LocalStep
<1> QED
  BY <1>1, <1>2 DEF Genuine, LocalStep, WasThere, EarlierOf

\* Nor do the versions a request has written change by themselves.
LEMMA LocalKeepsRows ==
  ASSUME NEW r \in Requests, LocalStep(r), NEW q \in Requests, RowsInv(q), work'[q].rows = work[q].rows
  PROVE  RowsInv(q)' /\ Table(q)' = Table(q) /\ Committed(q)' = Committed(q) /\ Rows(q)' = Rows(q)
<1>1. Table(q)' = Table(q) /\ Committed(q)' = Committed(q)
  BY DEF LocalStep, Table, Committed, tables
<1>2. ASSUME NEW t \in work[q].rows
      PROVE  Genuine(Table(q), t)'
  <2>1. ASSUME NEW CONSTANT table, Genuine(table, t)
        PROVE  Genuine(table, t)'
    BY <2>1, LocalKeepsGenuine
  <2> QED
    BY <1>1, <2>1 DEF RowsInv, Genuine, WasThere, EarlierOf
<1>3. RowsInv(q)'
  BY <1>1, <1>2 DEF RowsInv, Keyed, IdsOf
<1>4. Rows(q)' = Rows(q)
  BY <1>1 DEF Rows
<1> QED
  BY <1>1, <1>3, <1>4

\* A request that is not at a statement is not concerned by another's step.
LEMMA LocalKeepsOthers ==
  ASSUME IInv, NEW r \in Requests, LocalStep(r), NEW q \in Requests, q # r
  PROVE  RequestInv(q)'
<1> USE DEF IInv, RequestInv
<1>1. /\ pc'[q] = pc[q] /\ work'[q] = work[q] /\ answer'[q] = answer[q] /\ input' = input
      /\ sources' = sources /\ events' = events
  BY DEF LocalStep, tables
<1>2. RowsInv(q)' /\ Table(q)' = Table(q) /\ Committed(q)' = Committed(q) /\ Rows(q)' = Rows(q)
  BY <1>1, LocalKeepsRows
<1>3. FitsInv(q)' /\ SourceInv(q)'
  BY <1>1 DEF FitsInv, SourceInv
<1>4. FoundInv(q)'
  <2>1. \A p \in Requests : pc[p] # "idle" => pc'[p] # "idle"
    BY DEF LocalStep
  <2>2. ASSUME Genuine(Table(q), work[q].found)
        PROVE  Genuine(Table(q), work[q].found)'
    <3>1. work[q].found.id[1] \in Requests \cup {None}
      BY <2>2 DEF Genuine, Row
    <3> QED
      BY <1>1, <1>2, <2>1, <2>2, <3>1 DEF Genuine, WasThere, EarlierOf
  <2>3. Sought(q)' = Sought(q)
    BY <1>1 DEF Sought, Current
  <2>4. WasThere(Table(q), input[q].merchant, Sought(q))' = WasThere(Table(q), input[q].merchant, Sought(q))
    BY <1>1, <1>2, <2>3 DEF WasThere, EarlierOf
  <2>5. FoundInv(q) /\ pc[q] = "write_txn"
        => IF work[q].found = None THEN ~WasThere(Table(q), input[q].merchant, Sought(q))'
           ELSE Genuine(Table(q), work[q].found)'
    BY <2>2, <2>4 DEF FoundInv
  <2>6. IdsOf(Committed(q))' = IdsOf(Committed(q))
    BY <1>2 DEF IdsOf
  <2>7. FoundInv(q)
    OBVIOUS
  <2> HIDE DEF IInv, RequestInv
  <2> QED
    BY <1>1, <1>2, <2>3, <2>5, <2>6, <2>7 DEF FoundInv
<1>5. pc[q] # "idle" => WebhookInv(q)'
  BY <1>1, <1>2 DEF WebhookInv
<1> QED
  BY <1>1, <1>2, <1>3, <1>4, <1>5

\* A step that commits nothing keeps the invariant when it suits the request.
LEMMA LocalKeepsIInv ==
  ASSUME IInv, NEW r \in Requests, LocalStep(r), RequestInv(r)',
         pc'[r] = "commit_event" =>
           \A q \in Requests \ {r} : pc[q] = "commit_event" => EventId(input[q]) # EventId(input[r])
  PROVE  IInv'
<1> USE DEF IInv
<1>1. \A q \in Requests : RequestInv(q)'
  BY LocalKeepsOthers
<1>2. UNCHANGED <<sources, transactions, settlements, events, input>>
  BY DEF LocalStep, tables
<1>3. ASSUME NEW CONSTANT table, TableInv(table)
      PROVE  TableInv(table)'
  <2>1. RowsOf(table)' = RowsOf(table) /\ EarlierOf(table)' = EarlierOf(table)
    BY <1>2 DEF RowsOf, EarlierOf
  <2>2. \A t \in RowsOf(table) : Genuine(table, t)'
    BY <1>3, LocalKeepsGenuine DEF TableInv
  <2>3. \A t \in RowsOf(table) : t.id[1] # None => pc'[t.id[1]] = "done"
    <3> SUFFICES ASSUME NEW t \in RowsOf(table), t.id[1] # None
                 PROVE  pc'[t.id[1]] = "done"
      OBVIOUS
    <3>1. t.id[1] \in Requests /\ pc[t.id[1]] = "done"
      BY <1>3 DEF TableInv, Genuine, Row
    <3> QED
      BY <3>1 DEF LocalStep
  <2> QED
    BY <1>2, <1>3, <2>1, <2>2, <2>3 DEF TableInv, IdsOf
<1>4. TableInv("transactions")' /\ TableInv("settlements")'
  BY <1>3
<1>5. EventsInv' /\ SourcesInv'
  BY <1>2 DEF EventsInv, SourcesInv
<1>6. EventsAreExclusive'
  BY <1>2 DEF EventsAreExclusive, LocalStep
<1>7. AcknowledgedWebhooksAreRecorded'
  BY <1>2 DEF AcknowledgedWebhooksAreRecorded, LocalStep
<1> QED
  BY <1>1, <1>4, <1>5, <1>6, <1>7 DEF LocalStep

\* A request is at one of these statements.
Statements == {"idle", "verify", "select_source", "write_source", "select_event",
               "select_txn", "write_txn", "insert_event", "fetch", "select_record",
               "commit", "commit_event", "done"} \cup DOMAIN JobStatus

\* What r has written and not committed becomes w; nobody else's work changes.
WorkBecomes(r, w) ==
  w \in Work /\ work' = [work EXCEPT ![r] = w]

\* Going on to a statement commits nothing.
LEMMA GotoIsLocal ==
  ASSUME IInv, NEW r \in Requests, pc[r] \notin {"idle", "done"},
         NEW s \in Statements \ {"idle"}, Goto(r, s), NEW w, WorkBecomes(r, w)
  PROVE  /\ LocalStep(r)
         /\ pc'[r] = s /\ work'[r] = w /\ answer' = answer /\ answer[r] = "none"
<1>1. TypeOK /\ WorkTypeOK /\ FitsInv(r)
  BY DEF IInv, RequestInv
<1>2. UNCHANGED <<tables, input, answer>> /\ pc' = [pc EXCEPT ![r] = s]
  BY DEF Goto
<1>3. TypeOK'
  BY <1>1, <1>2 DEF TypeOK, tables, Statements
<1>4. WorkTypeOK'
  BY <1>1, <1>2 DEF WorkTypeOK, WorkBecomes
<1>5. pc'[r] = s /\ work'[r] = w /\ answer[r] = "none"
  BY <1>1, <1>2 DEF TypeOK, WorkTypeOK, WorkBecomes, FitsInv
<1>6. \A q \in Requests \ {r} : pc'[q] = pc[q] /\ work'[q] = work[q] /\ answer'[q] = answer[q]
  BY <1>1, <1>2 DEF TypeOK, WorkTypeOK, WorkBecomes
<1> QED
  BY <1>2, <1>3, <1>4, <1>5, <1>6 DEF LocalStep

\* The rows r has written stay, and the next statement suits the request.
LEMMA MoveKeepsIInv ==
  ASSUME IInv, NEW r \in Requests, pc[r] \notin {"idle", "done"},
         NEW s \in Statements \ {"idle", "done", "commit_event"}, Goto(r, s),
         NEW w, WorkBecomes(r, w), w.rows = work[r].rows,
         FitsInv(r)', SourceInv(r)', FoundInv(r)', WebhookInv(r)'
  PROVE  IInv'
<1>1. LocalStep(r) /\ pc'[r] = s /\ work'[r] = w
  BY GotoIsLocal
<1>2. RowsInv(r)'
  BY <1>1, LocalKeepsRows DEF IInv, RequestInv
<1>3. RequestInv(r)'
  BY <1>2 DEF RequestInv
<1> QED
  BY <1>1, <1>3, LocalKeepsIInv

\* A refused request keeps nothing of what it wrote.
LEMMA RefuseKeepsIInv ==
  ASSUME IInv, NEW r \in Requests, pc[r] \notin {"idle", "done"},
         NEW s \in {"403", "500", "lost"}, Refuse(r, s)
  PROVE  IInv'
<1>1. TypeOK /\ WorkTypeOK /\ FitsInv(r)
  BY DEF IInv, RequestInv
<1>2. UNCHANGED <<tables, input>>
  BY DEF Refuse
<1>3. Idle \in Work
  BY DEF Idle, Work
<1>4. pc'[r] = "done" /\ work'[r] = Idle /\ answer'[r] = s
  BY <1>1 DEF Refuse, TypeOK, WorkTypeOK
<1>5. TypeOK' /\ WorkTypeOK'
  BY <1>1, <1>2, <1>3 DEF Refuse, TypeOK, WorkTypeOK, tables
<1>6. LocalStep(r)
  BY <1>1, <1>2, <1>4, <1>5 DEF LocalStep, Refuse, TypeOK, WorkTypeOK
<1>7. work'[r].rows = {} /\ work'[r].source = None
  BY <1>4 DEF Idle
<1>8. FitsInv(r)' /\ SourceInv(r)' /\ FoundInv(r)' /\ WebhookInv(r)'
  BY <1>1, <1>2, <1>4, <1>7 DEF FitsInv, SourceInv, FoundInv, WebhookInv, WebhookStatements, SyncStatements, JobStatus
<1>9. RowsInv(r)'
  BY <1>7 DEF RowsInv, Keyed
<1> QED
  BY <1>4, <1>6, <1>8, <1>9, LocalKeepsIInv DEF RequestInv

\* The same, when nothing is read or written.
LEMMA ContinueKeepsIInv ==
  ASSUME IInv, NEW r \in Requests, pc[r] \notin {"idle", "done"},
         NEW s \in Statements \ {"idle", "done", "write_txn", "write_source", "commit_event"}, Continue(r, s),
         FitsInv(r)', WebhookInv(r)'
  PROVE  IInv'
<1>1. PICK w : w = work[r]
  OBVIOUS
<1>2. WorkBecomes(r, w) /\ w.rows = work[r].rows
  BY <1>1 DEF WorkBecomes, Continue, IInv, WorkTypeOK
<1>3. LocalStep(r) /\ pc'[r] = s /\ work'[r] = work[r]
  BY <1>1, <1>2, GotoIsLocal DEF Continue
<1>4. SourceInv(r)' /\ FoundInv(r)'
  BY <1>3 DEF SourceInv, FoundInv, IInv, RequestInv, Continue
<1> QED
  BY <1>2, <1>4, MoveKeepsIInv DEF Continue

\* A webhook goes on only for a merchant whose secret verifies it.
LEMMA VerifyKeepsIInv ==
  ASSUME IInv, NEW r \in Requests, Verify(r)
  PROVE  IInv'
<1>1. pc[r] = "verify" /\ FitsInv(r) /\ WebhookInv(r)
  BY DEF Verify, IInv, RequestInv
<1>2. CASE Refuse(r, "403")
  BY <1>1, <1>2, RefuseKeepsIInv
<1>3. CASE input[r].merchant # None /\ Continue(r, "select_source")
  <2>1. pc'[r] = "select_source" /\ UNCHANGED <<tables, input, work, answer>>
    BY <1>3 DEF Continue, Goto, IInv, TypeOK
  <2>2. FitsInv(r)' /\ WebhookInv(r)'
    BY <1>1, <1>3, <2>1 DEF FitsInv, WebhookInv, WebhookStatements, SyncStatements, JobStatus
  <2> QED
    BY <1>1, <1>3, <2>2, ContinueKeepsIInv DEF Statements
<1> QED
  BY <1>2, <1>3 DEF Verify

\* The webhook's select finds its merchant's source when there is one.
LEMMA SelectSourceKeepsIInv ==
  ASSUME IInv, NEW r \in Requests, SelectSource(r)
  PROVE  IInv'
<1> DEFINE mine == {s \in sources : s.merchant = input[r].merchant}
<1>1. /\ pc[r] = "select_source" /\ FitsInv(r) /\ WebhookInv(r) /\ SourceInv(r) /\ WorkTypeOK
      /\ TypeOK /\ SourcesInv /\ work[r] \in Work
  BY DEF SelectSource, IInv, RequestInv, WorkTypeOK
<1>2. CASE Refuse(r, "500")
  BY <1>1, <1>2, RefuseKeepsIInv
<1>3. ASSUME Goto(r, "write_source"), NEW f, f = (IF mine = {} THEN None ELSE CHOOSE s \in mine : TRUE),
             work' = [work EXCEPT ![r].found = f]
      PROVE  IInv'
  <2>1. (f = None /\ mine = {}) \/ f \in mine
    BY <1>3
  <2>2. PICK w : w = [work[r] EXCEPT !.found = f]
    OBVIOUS
  <2>3. w \in Work /\ w.rows = work[r].rows /\ w.source = work[r].source /\ w.found = f
    BY <1>1, <2>1, <2>2 DEF Work, TypeOK
  <2>4. WorkBecomes(r, w)
    BY <1>1, <1>3, <2>2, <2>3 DEF WorkBecomes, WorkTypeOK
  <2>5. /\ pc'[r] = "write_source" /\ work'[r] = w /\ answer' = answer /\ answer[r] = "none"
        /\ UNCHANGED <<tables, input>>
    BY <1>1, <1>3, <2>4, GotoIsLocal DEF Statements, Goto
  <2>6. FitsInv(r)' /\ WebhookInv(r)' /\ FoundInv(r)'
    BY <1>1, <2>3, <2>5 DEF FitsInv, WebhookInv, FoundInv, WebhookStatements, SyncStatements, JobStatus
  <2>7. SourceInv(r)'
    <3>1. ASSUME f = None
          PROVE  input[r].merchant \notin InitialSources
      <4>1. mine = {}
        BY <1>1, <2>1, <3>1, IngestionAssumption DEF TypeOK
      <4>2. \A m \in InitialSources : [id |-> m, merchant |-> m] \in sources
        BY <1>1 DEF SourcesInv
      <4>3. input[r].merchant \in InitialSources
            => [id |-> input[r].merchant, merchant |-> input[r].merchant] \in mine
        BY <4>2
      <4> QED
        BY <4>1, <4>3
    <3>2. sources' = sources /\ input' = input
      BY <2>5 DEF tables
    <3>3. f = None \/ f \in sources
      BY <2>1
    <3> HIDE DEF mine
    <3> QED
      BY <1>1, <2>3, <2>5, <3>1, <3>2, <3>3 DEF SourceInv
  <2> QED
    BY <1>1, <1>3, <2>3, <2>4, <2>6, <2>7, MoveKeepsIInv DEF Statements
<1> QED
  BY <1>2, <1>3 DEF SelectSource

\* A source is written for a merchant of InitialSources only over the one it has.
LEMMA WriteSourceKeepsIInv ==
  ASSUME IInv, NEW r \in Requests, WriteSource(r)
  PROVE  IInv'
<1>1. /\ pc[r] = "write_source" /\ FitsInv(r) /\ WebhookInv(r) /\ SourceInv(r) /\ WorkTypeOK
      /\ TypeOK /\ SourcesInv /\ work[r] \in Work
  BY DEF WriteSource, IInv, RequestInv, WorkTypeOK
<1>2. input[r].merchant \in Merchants /\ input[r].kind = "webhook" /\ input[r].merchant # None
  BY <1>1, WebhookFields DEF FitsInv, WebhookStatements
<1>3. PICK src : src = IF work[r].found # None THEN work[r].found ELSE [id |-> r, merchant |-> input[r].merchant]
  OBVIOUS
<1>4. src \in SourceRow /\ (src.merchant \in InitialSources => src.id = src.merchant)
  BY <1>1, <1>2, <1>3 DEF SourceInv, SourcesInv, SourceRow, TypeOK
<1>5. PICK w : w = [work[r] EXCEPT !.found = None, !.source = src]
  OBVIOUS
<1>6. w \in Work /\ w.rows = work[r].rows /\ w.source = src /\ w.found = None
  BY <1>1, <1>4, <1>5 DEF Work
<1>7. Goto(r, "select_event") /\ work' = [work EXCEPT ![r].found = None, ![r].source = src]
  BY <1>3 DEF WriteSource
<1>8. WorkBecomes(r, w)
  BY <1>1, <1>5, <1>6, <1>7 DEF WorkBecomes, WorkTypeOK
<1>9. /\ pc'[r] = "select_event" /\ work'[r] = w /\ answer' = answer /\ answer[r] = "none"
      /\ UNCHANGED <<tables, input>>
  BY <1>1, <1>7, <1>8, GotoIsLocal DEF Statements, Goto
<1>10. FitsInv(r)' /\ WebhookInv(r)' /\ FoundInv(r)' /\ SourceInv(r)'
  BY <1>1, <1>2, <1>4, <1>6, <1>9
     DEF FitsInv, WebhookInv, FoundInv, SourceInv, WebhookStatements, SyncStatements, JobStatus
<1> QED
  BY <1>1, <1>6, <1>7, <1>8, <1>10, MoveKeepsIInv DEF Statements

\* An event already recorded is looked up under the unique index.
LEMMA SelectEventKeepsIInv ==
  ASSUME IInv, NEW r \in Requests, SelectEvent(r)
  PROVE  IInv'
<1>1. pc[r] = "select_event" /\ FitsInv(r) /\ WebhookInv(r)
  BY DEF SelectEvent, IInv, RequestInv
<1>2. ASSUME NEW s \in {"commit", "select_txn"}, Continue(r, s),
             s = "commit" => \E e \in events : e.id = EventId(input[r])
      PROVE  IInv'
  <2>1. pc'[r] = s /\ UNCHANGED <<tables, input, work, answer>>
    BY <1>2 DEF Continue, Goto, IInv, TypeOK
  <2>2. events' = events
    BY <2>1 DEF tables
  <2>3. FitsInv(r)' /\ WebhookInv(r)'
    BY <1>1, <1>2, <2>1, <2>2 DEF FitsInv, WebhookInv, WebhookStatements, SyncStatements, JobStatus
  <2> QED
    BY <1>1, <1>2, <2>3, ContinueKeepsIInv DEF Statements
<1> QED
  BY <1>2 DEF SelectEvent

\* The table a request writes is in order.
LEMMA TablesInv ==
  ASSUME IInv, NEW r \in Requests
  PROVE  TableInv(Table(r)) /\ Committed(r) = RowsOf(Table(r))
BY DEF IInv, Table, Committed, RowsOf

\* A row the request sees that is not its own is committed.
LEMMA SeenRows ==
  ASSUME IInv, NEW r \in Requests, pc[r] \notin {"idle", "done"}, NEW t \in Rows(r)
  PROVE  /\ Genuine(Table(r), t) /\ t \in Row /\ t # None
         /\ IF t.id[1] = r THEN t \in work[r].rows ELSE t.id \in IdsOf(Committed(r))
<1>1. RowsInv(r)
  BY DEF IInv, RequestInv
<1>2. Genuine(Table(r), t) /\ t \in Row /\ t # None
  BY <1>1, RowsSeen, TablesInv, IngestionAssumption DEF Genuine
<1>3. ASSUME t \in Committed(r)
      PROVE  t.id[1] # r /\ t.id \in IdsOf(Committed(r))
  BY <1>3, TablesInv, IngestionAssumption DEF TableInv, IdsOf
<1>4. t \in Committed(r) \/ t \in work[r].rows
  BY DEF Rows
<1> QED
  BY <1>1, <1>2, <1>3, <1>4 DEF RowsInv

\* The select of a webhook's transaction returns any row of its reference.
LEMMA SelectTransactionKeepsIInv ==
  ASSUME IInv, NEW r \in Requests, SelectTransaction(r)
  PROVE  IInv'
<1> DEFINE matches == {t \in Rows(r) : t.ref = Ref(input[r].payload)}
<1>1. /\ pc[r] = "select_txn" /\ FitsInv(r) /\ WebhookInv(r) /\ SourceInv(r) /\ RowsInv(r)
      /\ WorkTypeOK /\ TypeOK /\ work[r] \in Work
  BY DEF SelectTransaction, IInv, RequestInv, WorkTypeOK
<1>2. /\ input[r].kind = "webhook" /\ Table(r) = "transactions" /\ work[r].rows = {}
      /\ Sought(r) = Ref(input[r].payload)
  BY <1>1 DEF FitsInv, WebhookStatements, WebhookInv, Table, Sought
<1>3. PICK f \in (IF matches = {} THEN {None} ELSE matches) : work' = [work EXCEPT ![r].found = f]
  BY DEF SelectTransaction
<1>4. (f = None /\ matches = {}) \/ f \in matches
  BY <1>3
<1>5. f \in matches => f \in Row /\ f # None
  BY <1>1, SeenRows
<1>6. PICK w : w = [work[r] EXCEPT !.found = f]
  OBVIOUS
<1>7. w \in Work /\ w.rows = work[r].rows /\ w.source = work[r].source /\ w.found = f
  BY <1>1, <1>4, <1>5, <1>6 DEF Work
<1>8. Goto(r, "write_txn") /\ WorkBecomes(r, w)
  BY <1>1, <1>3, <1>6, <1>7 DEF WorkBecomes, WorkTypeOK, SelectTransaction
<1>9. /\ pc'[r] = "write_txn" /\ work'[r] = w /\ answer' = answer /\ answer[r] = "none"
      /\ UNCHANGED <<tables, input>> /\ LocalStep(r)
  BY <1>1, <1>8, GotoIsLocal DEF Statements, Goto
<1>10. FitsInv(r)' /\ SourceInv(r)' /\ WebhookInv(r)'
  BY <1>1, <1>2, <1>7, <1>9
     DEF FitsInv, WebhookInv, SourceInv, WebhookStatements, SyncStatements, JobStatus
<1>11. ASSUME f = None
       PROVE  ~WasThere("transactions", input[r].merchant, Sought(r))
  <2>1. matches = {}
    BY <1>4, <1>5, <1>11
  <2>2. \A e \in EarlierOf("transactions") : \E t \in Rows(r) : t.ref = e.ref
    BY <1>1, <1>2, RowsSeen, TablesInv
  <2> QED
    BY <1>2, <2>1, <2>2 DEF WasThere
<1>12. FoundInv(r)'
  <2>1. f # None => /\ Genuine("transactions", f) /\ f.ref = Sought(r)
                    /\ IF f.id[1] = r THEN f \in work[r].rows ELSE f.id \in IdsOf(Committed(r))
    BY <1>1, <1>2, <1>4, SeenRows
  <2>2. f # None => Genuine("transactions", f)'
    BY <1>9, <2>1, LocalKeepsGenuine
  <2>3. /\ Table(r)' = Table(r) /\ Committed(r)' = Committed(r) /\ Sought(r)' = Sought(r)
        /\ input' = input
    BY <1>1, <1>2, <1>7, <1>9, LocalKeepsRows DEF Sought
  <2> HIDE DEF matches
  <2>4. ~WasThere("transactions", input[r].merchant, Sought(r))' \/ f # None
    BY <1>11, <2>3 DEF WasThere, EarlierOf
  <2> QED
    BY <1>2, <1>7, <1>9, <2>1, <2>2, <2>3, <2>4 DEF FoundInv, IdsOf
<1> QED
  BY <1>1, <1>7, <1>8, <1>10, <1>12, MoveKeepsIInv DEF Statements

\* Writing what was sought keeps one version of each row, and of the right
\* merchant and reference.
LEMMA WrittenRows ==
  ASSUME IInv, NEW r \in Requests, pc[r] = "write_txn",
         input[r].merchant \in Merchants, Sought(r) \in Names \cup {Nameless},
         NEW status \in TransactionStatus,
         NEW n, n = Written(r, input[r].merchant, Sought(r), status)
  PROVE  /\ n \subseteq Row
         /\ Keyed(n)
         /\ \A t \in n : Genuine(Table(r), t) /\ (t.id[1] = r \/ t.id \in IdsOf(Committed(r)))
         /\ IdsOf(work[r].rows) \subseteq IdsOf(n)
         /\ \E t \in {u \in Committed(r) : u.id \notin IdsOf(n)} \cup n :
              /\ t.ref = Sought(r)
              /\ input[r].kind = "sync" => t.merchant = input[r].merchant
<1> DEFINE rows == work[r].rows
           found == work[r].found
<1>1. /\ RowsInv(r) /\ FoundInv(r) /\ rows \subseteq Row
  BY DEF IInv, RequestInv, WorkTypeOK, Work
<1>2. CASE found = None
  <2> DEFINE new == [id |-> <<r, Sought(r)>>, merchant |-> input[r].merchant, ref |-> Sought(r),
                     status |-> status]
  <2>1. n = rows \cup {new}
    BY <1>2 DEF Written
  <2>2. r # None
    BY IngestionAssumption
  <2>3. new \in Row /\ Genuine(Table(r), new) /\ new.id[1] = r
    BY <1>1, <1>2, <2>2 DEF FoundInv, Genuine, Row, Sought
  <2>4. Keyed(n)
    BY <1>1, <1>2, <2>1 DEF FoundInv, RowsInv, Keyed
  <2>5. new \in n /\ new.ref = Sought(r) /\ new.merchant = input[r].merchant
    BY <2>1
  <2> HIDE DEF new
  <2> QED
    BY <1>1, <2>1, <2>3, <2>4, <2>5 DEF RowsInv, IdsOf
<1>3. CASE found # None
  <2>1. /\ Genuine(Table(r), found) /\ found.ref = Sought(r) /\ found \in Row
        /\ input[r].kind = "sync" => found.merchant = input[r].merchant
        /\ IF found.id[1] = r THEN found \in rows ELSE found.id \in IdsOf(Committed(r))
    BY <1>1, <1>3 DEF FoundInv, Genuine
  <2>2. CASE found.status = status
    <3>1. n = rows
      BY <1>3, <2>2 DEF Written
    <3>2. PICK t \in Rows(r) : t.id = found.id
      <4>1. found.id \in IdsOf(Rows(r))
        BY <1>1, <2>1, RowsSeen, TablesInv DEF IdsOf
      <4> QED
        BY <4>1 DEF IdsOf
    <3>3. Genuine(Table(r), t)
      BY <1>1, RowsSeen, TablesInv
    <3>4. t.merchant = found.merchant /\ t.ref = found.ref
      BY <2>1, <3>2, <3>3, SameRow
    <3> QED
      BY <1>1, <2>1, <3>1, <3>4 DEF RowsInv, Rows
  <2>3. CASE found.status # status
    <3> DEFINE new == [found EXCEPT !.status = status]
    <3>1. n = {t \in rows : t.id # found.id} \cup {new}
      BY <1>3, <2>3 DEF Written
    <3>2. /\ new.id = found.id /\ new.merchant = found.merchant /\ new.ref = found.ref
          /\ new \in Row
      BY <2>1 DEF Row
    <3>3. Genuine(Table(r), new)
      BY <2>1, <3>2 DEF Genuine
    <3> HIDE DEF new
    <3>4. Keyed(n)
      BY <1>1, <3>1, <3>2 DEF RowsInv, Keyed
    <3>5. IdsOf(rows) \subseteq IdsOf(n)
      BY <3>1, <3>2 DEF IdsOf
    <3> QED
      BY <1>1, <2>1, <3>1, <3>2, <3>3, <3>4, <3>5 DEF RowsInv
  <2> QED
    BY <2>2, <2>3
<1> QED
  BY <1>2, <1>3

\* A request whose rows become n keeps the invariant of its rows.
LEMMA RowsBecome ==
  ASSUME IInv, NEW r \in Requests, LocalStep(r), NEW n, work'[r].rows = n, n \subseteq Row, Keyed(n),
         \A t \in n : Genuine(Table(r), t) /\ (t.id[1] = r \/ t.id \in IdsOf(Committed(r)))
  PROVE  /\ RowsInv(r)' /\ Table(r)' = Table(r) /\ Committed(r)' = Committed(r)
         /\ Rows(r)' = {u \in Committed(r) : u.id \notin IdsOf(n)} \cup n
<1>1. Table(r)' = Table(r) /\ Committed(r)' = Committed(r)
  BY DEF LocalStep, Table, Committed, tables
<1>2. Rows(r)' = {u \in Committed(r) : u.id \notin IdsOf(n)} \cup n
  BY <1>1 DEF Rows
<1>3. ASSUME NEW t \in n
      PROVE  Genuine(Table(r), t)'
  <2>1. \A q \in Requests : pc[q] # "idle" => pc'[q] # "idle"
    BY DEF LocalStep
  <2>2. input' = input /\ t.id[1] \in Requests \cup {None}
    BY DEF LocalStep, Row
  <2> QED
    BY <1>1, <2>1, <2>2 DEF Genuine, WasThere, EarlierOf
<1>4. RowsInv(r)'
  BY <1>1, <1>3 DEF RowsInv, Keyed, IdsOf
<1> QED
  BY <1>1, <1>2, <1>4

\* A webhook writes its transaction, of its own or over the one it found.
LEMMA WriteTransactionKeepsIInv ==
  ASSUME IInv, NEW r \in Requests, WriteTransaction(r)
  PROVE  IInv'
<1>1. /\ pc[r] = "write_txn" /\ input[r].kind = "webhook" /\ FitsInv(r) /\ WebhookInv(r) /\ SourceInv(r)
      /\ WorkTypeOK /\ TypeOK /\ work[r] \in Work
  BY DEF WriteTransaction, IInv, RequestInv, WorkTypeOK
<1>2. /\ input[r] \in Inputs /\ input[r].merchant \in Merchants
      /\ Sought(r) = Ref(input[r].payload) /\ Sought(r) \in Names \cup {Nameless}
      /\ Status(input[r].payload.status) \in TransactionStatus
  BY <1>1, WebhookFields DEF FitsInv, Sought
<1>3. PICK n : n = Written(r, input[r].merchant, Ref(input[r].payload), Status(input[r].payload.status))
  OBVIOUS
<1>4. /\ n \subseteq Row /\ Keyed(n)
      /\ \A t \in n : Genuine(Table(r), t) /\ (t.id[1] = r \/ t.id \in IdsOf(Committed(r)))
      /\ \E t \in {u \in Committed(r) : u.id \notin IdsOf(n)} \cup n : t.ref = Sought(r)
  BY <1>1, <1>2, <1>3, WrittenRows
<1>5. PICK w : w = [work[r] EXCEPT !.rows = n]
  OBVIOUS
<1>6. w \in Work /\ w.rows = n /\ w.source = work[r].source /\ w.found = work[r].found
  BY <1>1, <1>4, <1>5 DEF Work
<1>7. Goto(r, "insert_event") /\ WorkBecomes(r, w)
  BY <1>1, <1>3, <1>5, <1>6 DEF WorkBecomes, WorkTypeOK, WriteTransaction
<1>8. /\ pc'[r] = "insert_event" /\ work'[r] = w /\ answer' = answer /\ answer[r] = "none"
      /\ UNCHANGED <<tables, input>> /\ LocalStep(r)
  BY <1>1, <1>7, GotoIsLocal DEF Statements, Goto
<1>9. RowsInv(r)' /\ Rows(r)' = {u \in Committed(r) : u.id \notin IdsOf(n)} \cup n
  BY <1>4, <1>6, <1>8, RowsBecome
<1>10. WebhookInv(r)'
  BY <1>1, <1>2, <1>4, <1>8, <1>9 DEF WebhookInv
<1>11. FitsInv(r)' /\ SourceInv(r)' /\ FoundInv(r)'
  BY <1>1, <1>2, <1>6, <1>8, IngestionAssumption
     DEF FitsInv, SourceInv, FoundInv, WebhookStatements, SyncStatements, JobStatus
<1> QED
  BY <1>8, <1>9, <1>10, <1>11, LocalKeepsIInv DEF RequestInv

\* The event is inserted when it is neither committed nor held by another request.
LEMMA InsertEventKeepsIInv ==
  ASSUME IInv, NEW r \in Requests, InsertEvent(r)
  PROVE  IInv'
<1>1. /\ pc[r] = "insert_event" /\ FitsInv(r) /\ WebhookInv(r) /\ SourceInv(r) /\ RowsInv(r)
      /\ WorkTypeOK /\ TypeOK /\ work[r] \in Work
  BY DEF InsertEvent, IInv, RequestInv, WorkTypeOK
<1>2. CASE Refuse(r, "500")
  BY <1>1, <1>2, RefuseKeepsIInv
<1>3. CASE /\ \A e \in events : e.id # EventId(input[r])
           /\ \A q \in Requests : ~Recording(q, EventId(input[r]))
           /\ Continue(r, "commit_event")
  <2>1. PICK w : w = work[r]
    OBVIOUS
  <2>2. Goto(r, "commit_event") /\ WorkBecomes(r, w)
    BY <1>1, <1>3, <2>1 DEF WorkBecomes, WorkTypeOK, Continue
  <2>3. /\ pc'[r] = "commit_event" /\ work'[r] = w /\ answer' = answer /\ answer[r] = "none"
        /\ UNCHANGED <<tables, input>> /\ LocalStep(r)
    BY <1>1, <2>2, GotoIsLocal DEF Statements, Goto
  <2>4. RowsInv(r)' /\ Rows(r)' = Rows(r)
    BY <1>1, <2>1, <2>3, LocalKeepsRows
  <2>5. events' = events
    BY <2>3 DEF tables
  <2>6. FitsInv(r)' /\ SourceInv(r)' /\ FoundInv(r)' /\ WebhookInv(r)'
    BY <1>1, <1>3, <2>1, <2>3, <2>4, <2>5
       DEF FitsInv, SourceInv, FoundInv, WebhookInv, WebhookStatements, SyncStatements, JobStatus
  <2>7. \A q \in Requests \ {r} : pc[q] = "commit_event" => EventId(input[q]) # EventId(input[r])
    BY <1>3 DEF Recording
  <2> QED
    BY <2>3, <2>4, <2>6, <2>7, LocalKeepsIInv DEF RequestInv
<1> QED
  BY <1>2, <1>3 DEF InsertEvent

\* A sync that goes on and writes no row keeps the invariant.
LEMMA SyncMoveKeepsIInv ==
  ASSUME IInv, NEW r \in Requests, pc[r] \in SyncStatements,
         NEW s \in SyncStatements, Goto(r, s),
         NEW w, WorkBecomes(r, w), w.rows = work[r].rows, w.source = work[r].source
  PROVE  IInv'
<1>1. FitsInv(r) /\ SourceInv(r) /\ pc[r] \notin {"idle", "done"} /\ input[r].kind = "sync"
  BY DEF IInv, RequestInv, FitsInv, SyncStatements, JobStatus
<1>2. s \in Statements \ {"idle", "done", "commit_event"} /\ s \notin {"write_txn", "write_source"}
  BY DEF Statements, SyncStatements, JobStatus
<1>3. /\ pc'[r] = s /\ work'[r] = w /\ answer' = answer /\ answer[r] = "none"
      /\ UNCHANGED <<tables, input>>
  BY <1>1, <1>2, GotoIsLocal DEF Goto
<1>4. FitsInv(r)' /\ SourceInv(r)' /\ FoundInv(r)' /\ WebhookInv(r)'
  BY <1>1, <1>2, <1>3
     DEF FitsInv, SourceInv, FoundInv, WebhookInv, WebhookStatements, SyncStatements, JobStatus
<1> QED
  BY <1>1, <1>2, <1>4, MoveKeepsIInv

\* The adapter's answer writes nothing.
LEMMA FetchKeepsIInv ==
  ASSUME IInv, NEW r \in Requests, Fetch(r)
  PROVE  IInv'
<1>1. PICK s \in {"select_record", "commit_queued", "commit_failed_permanent"} : Continue(r, s)
  BY DEF Fetch
<1>2. PICK w : w = work[r]
  OBVIOUS
<1>3. Goto(r, s) /\ WorkBecomes(r, w)
  BY <1>1, <1>2 DEF Continue, WorkBecomes, IInv, WorkTypeOK
<1>4. pc[r] \in SyncStatements /\ s \in SyncStatements
  BY DEF Fetch, SyncStatements, JobStatus
<1> QED
  BY <1>2, <1>3, <1>4, SyncMoveKeepsIInv

\* Nor does counting a record, or finding no more of them.
LEMMA SkipKeepsIInv ==
  ASSUME IInv, NEW r \in Requests, pc[r] = "select_record",
         \/ Skip(r)
         \/ Continue(r, "commit_completed")
         \/ /\ Goto(r, "select_record")
            /\ work' = [work EXCEPT ![r].at = @ + 1, ![r].created = @ + 1]
  PROVE  IInv'
<1>1. work[r] \in Work /\ WorkTypeOK
  BY DEF IInv, WorkTypeOK
<1>2. PICK w : work' = [work EXCEPT ![r] = w] /\ w \in Work /\ w.rows = work[r].rows /\ w.source = work[r].source
  <2>1. CASE Skip(r)
    <3> DEFINE v == [work[r] EXCEPT !.at = @ + 1, !.failures = @ + 1]
    <3>1. work' = [work EXCEPT ![r] = v] /\ v \in Work /\ v.rows = work[r].rows /\ v.source = work[r].source
      BY <1>1, <2>1 DEF Skip, Work, WorkTypeOK
    <3> QED
      BY <3>1
  <2>2. CASE Continue(r, "commit_completed")
    <3>1. work' = [work EXCEPT ![r] = work[r]]
      BY <1>1, <2>2 DEF Continue, WorkTypeOK
    <3> QED
      BY <1>1, <3>1
  <2>3. CASE work' = [work EXCEPT ![r].at = @ + 1, ![r].created = @ + 1]
    <3> DEFINE v == [work[r] EXCEPT !.at = @ + 1, !.created = @ + 1]
    <3>1. work' = [work EXCEPT ![r] = v] /\ v \in Work /\ v.rows = work[r].rows /\ v.source = work[r].source
      BY <1>1, <2>3 DEF Work, WorkTypeOK
    <3> QED
      BY <3>1
  <2> QED
    BY <2>1, <2>2, <2>3
<1>3. \E s \in {"select_record", "commit_completed"} : Goto(r, s)
  BY DEF Skip, Continue
<1> QED
  BY <1>2, <1>3, SyncMoveKeepsIInv DEF WorkBecomes, SyncStatements, JobStatus

\* Nor does passing a transfer.
LEMMA CountTransferKeepsIInv ==
  ASSUME IInv, NEW r \in Requests, CountTransfer(r)
  PROVE  IInv'
BY SkipKeepsIInv DEF CountTransfer

\* The record a sync is at is one of those it fetched.
LEMMA CurrentRecord ==
  ASSUME IInv, NEW r \in Requests, input[r] \in Inputs, input[r].kind = "sync",
         ~AtEnd(r) \/ work[r].at \in DOMAIN input[r].fetched
  PROVE  Current(r) \in Record /\ work[r].at \in DOMAIN input[r].fetched
<1>1. work[r].at \in Nat \ {0}
  BY DEF IInv, WorkTypeOK, Work
<1>2. input[r].fetched \in Seq(Record)
  BY SyncFields
<1> QED
  BY <1>1, <1>2 DEF AtEnd, Current

\* A sync's select returns the one row of the record's merchant and reference.
LEMMA SelectRecordKeepsIInv ==
  ASSUME IInv, NEW r \in Requests, SelectRecord(r)
  PROVE  IInv'
<1> DEFINE matches == {t \in Rows(r) : t.merchant = input[r].merchant /\ t.ref = Ref(Current(r))}
<1>1. /\ pc[r] = "select_record" /\ FitsInv(r) /\ WebhookInv(r) /\ SourceInv(r) /\ RowsInv(r)
      /\ WorkTypeOK /\ TypeOK /\ work[r] \in Work
  BY DEF SelectRecord, IInv, RequestInv, WorkTypeOK
<1>2. /\ input[r] \in Inputs /\ input[r].kind = "sync" /\ Sought(r) = Ref(Current(r))
      /\ input[r].type \in {"transactions", "settlements"}
  BY <1>1 DEF FitsInv, SyncStatements, Sought, SelectRecord
<1>3. CASE Continue(r, "commit_completed") \/ Skip(r)
  BY <1>1, <1>3, SkipKeepsIInv
<1>4. ASSUME ~AtEnd(r), Goto(r, "write_txn"), NEW f, f = (IF matches = {} THEN None ELSE CHOOSE t \in matches : TRUE),
             work' = [work EXCEPT ![r].found = f]
      PROVE  IInv'
  <2>1. (f = None /\ matches = {}) \/ f \in matches
    BY <1>4
  <2>2. f \in matches => f \in Row /\ f # None
    BY <1>1, SeenRows
  <2>3. PICK w : w = [work[r] EXCEPT !.found = f]
    OBVIOUS
  <2>4. w \in Work /\ w.rows = work[r].rows /\ w.source = work[r].source /\ w.found = f /\ w.at = work[r].at
    BY <1>1, <2>1, <2>2, <2>3 DEF Work
  <2>5. WorkBecomes(r, w)
    BY <1>1, <1>4, <2>3, <2>4 DEF WorkBecomes, WorkTypeOK
  <2>6. /\ pc'[r] = "write_txn" /\ work'[r] = w /\ answer' = answer /\ answer[r] = "none"
        /\ UNCHANGED <<tables, input>> /\ LocalStep(r)
    BY <1>1, <1>4, <2>5, GotoIsLocal DEF Statements, Goto
  <2>7. FitsInv(r)' /\ SourceInv(r)' /\ WebhookInv(r)'
    BY <1>1, <1>2, <2>4, <2>6
       DEF FitsInv, WebhookInv, SourceInv, WebhookStatements, SyncStatements, JobStatus
  <2>8. ASSUME f = None
        PROVE  ~WasThere(Table(r), input[r].merchant, Sought(r))
    <3>1. matches = {}
      BY <2>1, <2>2, <2>8
    <3>2. \A e \in EarlierOf(Table(r)) : \E t \in Rows(r) : t.merchant = e.merchant /\ t.ref = e.ref
      BY <1>1, RowsSeen, TablesInv
    <3> QED
      BY <1>2, <3>1, <3>2 DEF WasThere
  <2>9. ASSUME f = None, NEW t \in work[r].rows
        PROVE  t.id # <<r, Sought(r)>>
    <3>1. Genuine(Table(r), t) /\ t \in Rows(r)
      BY <1>1 DEF RowsInv, Rows
    <3>2. t.id = <<r, Sought(r)>> => t.merchant = input[r].merchant /\ t.ref = Sought(r)
      BY <3>1, IngestionAssumption DEF Genuine
    <3> QED
      BY <1>2, <2>1, <2>2, <2>9, <3>1, <3>2
  <2>10. f # None => /\ Genuine(Table(r), f) /\ f.ref = Sought(r) /\ f.merchant = input[r].merchant
                     /\ IF f.id[1] = r THEN f \in work[r].rows ELSE f.id \in IdsOf(Committed(r))
    BY <1>1, <1>2, <2>1, SeenRows
  <2>11. /\ Table(r)' = Table(r) /\ Committed(r)' = Committed(r) /\ Sought(r)' = Sought(r)
         /\ input' = input
    BY <1>1, <1>2, <2>4, <2>6, LocalKeepsRows DEF Sought, Current
  <2>12. f # None => Genuine(Table(r), f)'
    <3>1. \A q \in Requests : pc[q] # "idle" => pc'[q] # "idle"
      BY <2>6 DEF LocalStep
    <3>2. f # None => f.id[1] \in Requests \cup {None}
      BY <2>1, <2>2 DEF Row
    <3> HIDE DEF matches
    <3> QED
      BY <2>10, <2>11, <3>1, <3>2 DEF Genuine, WasThere, EarlierOf
  <2>13. work[r].at \in DOMAIN input[r].fetched
    BY <1>2, <1>4, CurrentRecord
  <2>14. FoundInv(r)'
    <3> HIDE DEF matches
    <3>1. ~WasThere(Table(r), input[r].merchant, Sought(r))' \/ f # None
      BY <2>8, <2>11 DEF WasThere, EarlierOf
    <3> QED
      BY <1>2, <2>4, <2>6, <2>9, <2>10, <2>11, <2>12, <2>13, <3>1 DEF FoundInv, IdsOf
  <2> QED
    BY <1>1, <1>4, <2>4, <2>5, <2>7, <2>14, MoveKeepsIInv DEF Statements
<1> QED
  BY <1>3, <1>4 DEF SelectRecord

\* A flush writes the record over the row found, or inserts it.
LEMMA FlushKeepsIInv ==
  ASSUME IInv, NEW r \in Requests, pc[r] = "write_txn", input[r].kind = "sync",
         NEW status \in TransactionStatus, NEW created \in Nat, NEW updated \in Nat,
         Flush(r, status, created, updated)
  PROVE  IInv'
<1>1. /\ FitsInv(r) /\ SourceInv(r) /\ FoundInv(r) /\ WorkTypeOK /\ TypeOK /\ work[r] \in Work
  BY DEF IInv, RequestInv, WorkTypeOK
<1>2. /\ input[r] \in Inputs /\ input[r].merchant \in Merchants /\ Sought(r) = Ref(Current(r))
      /\ Sought(r) \in Names \cup {Nameless}
  BY <1>1, SyncFields, CurrentRecord, RecordFields DEF FitsInv, FoundInv, Sought
<1>3. PICK n : n = Written(r, input[r].merchant, Ref(Current(r)), status)
  OBVIOUS
<1>4. /\ n \subseteq Row /\ Keyed(n)
      /\ \A t \in n : Genuine(Table(r), t) /\ (t.id[1] = r \/ t.id \in IdsOf(Committed(r)))
  BY <1>2, <1>3, WrittenRows
<1>5. PICK w : w = [work[r] EXCEPT !.rows = n, !.found = None, !.at = @ + 1,
                                   !.created = @ + created, !.updated = @ + updated]
  OBVIOUS
<1>6. w \in Work /\ w.rows = n /\ w.source = work[r].source
  <2>1. /\ work[r].at + 1 \in Nat \ {0} /\ work[r].created + created \in Nat
        /\ work[r].updated + updated \in Nat
    BY <1>1 DEF Work
  <2> QED
    BY <1>1, <1>4, <1>5, <2>1 DEF Work
<1>7. Goto(r, "select_record") /\ WorkBecomes(r, w)
  BY <1>1, <1>3, <1>5, <1>6 DEF WorkBecomes, WorkTypeOK, Flush
<1>8. /\ pc'[r] = "select_record" /\ work'[r] = w /\ answer' = answer /\ answer[r] = "none"
      /\ UNCHANGED <<tables, input>> /\ LocalStep(r)
  BY <1>1, <1>7, GotoIsLocal DEF Statements, Goto
<1>9. RowsInv(r)'
  BY <1>4, <1>6, <1>8, RowsBecome
<1>10. FitsInv(r)' /\ SourceInv(r)' /\ FoundInv(r)' /\ WebhookInv(r)'
  BY <1>1, <1>2, <1>6, <1>8
     DEF FitsInv, SourceInv, FoundInv, WebhookInv, WebhookStatements, SyncStatements, JobStatus
<1> QED
  BY <1>8, <1>9, <1>10, LocalKeepsIInv DEF RequestInv

\* A sync writes a record by a flush, or is refused.
LEMMA WriteRecordKeepsIInv ==
  ASSUME IInv, NEW r \in Requests, WriteRecord(r) \/ WriteSettlement(r)
  PROVE  IInv'
<1>1. /\ pc[r] = "write_txn" /\ input[r].kind = "sync" /\ FitsInv(r) /\ FoundInv(r)
  BY DEF WriteRecord, WriteSettlement, IInv, RequestInv
<1>2. Current(r) \in Record
  BY <1>1, CurrentRecord DEF FitsInv, FoundInv
<1>3. Status(Current(r).status) \in TransactionStatus /\ SettlementStatus(Current(r).status) \in TransactionStatus
  BY <1>2, RecordFields
<1>4. CASE Refuse(r, "500")
  BY <1>1, <1>4, RefuseKeepsIInv
<1>5. ASSUME NEW status \in TransactionStatus, NEW created \in Nat, NEW updated \in Nat,
             Flush(r, status, created, updated)
      PROVE  IInv'
  BY <1>1, <1>5, FlushKeepsIInv
<1>6. 0 \in Nat /\ 1 \in Nat
  OBVIOUS
<1>7. ASSUME WriteRecord(r)
      PROVE  IInv'
  BY <1>3, <1>4, <1>5, <1>6, <1>7 DEF WriteRecord
<1>8. ASSUME WriteSettlement(r)
      PROVE  IInv'
  BY <1>3, <1>4, <1>5, <1>6, <1>8 DEF WriteSettlement
<1> QED
  BY <1>7, <1>8

\* A request that arrives has read and written nothing.
LEMMA ArriveKeepsIInv ==
  ASSUME IInv, NEW r \in Requests, Arrive(r)
  PROVE  IInv'
<1>1. /\ pc[r] = "idle" /\ TypeOK /\ WorkTypeOK /\ FitsInv(r) /\ work[r] = Idle /\ answer[r] = "none"
  BY DEF Arrive, IInv, RequestInv, FitsInv
<1>2. PICK i \in Inputs :
        /\ input' = [input EXCEPT ![r] = i]
        /\ pc' = [pc EXCEPT ![r] = IF i.kind = "webhook" THEN "verify" ELSE "fetch"]
  BY DEF Arrive
<1>3. UNCHANGED <<sources, transactions, settlements, events, alerts, jobs, work, answer>>
  BY DEF Arrive, tables
<1>4. /\ input'[r] = i
      /\ \/ i.kind = "webhook" /\ pc'[r] = "verify"
         \/ i.kind = "sync" /\ pc'[r] = "fetch"
      /\ \A q \in Requests \ {r} : input'[q] = input[q] /\ pc'[q] = pc[q]
  BY <1>1, <1>2, InputKinds DEF TypeOK, WorkTypeOK
<1>5. TypeOK' /\ WorkTypeOK'
  BY <1>1, <1>2, <1>3 DEF TypeOK, WorkTypeOK
<1>6. ASSUME NEW CONSTANT table, NEW CONSTANT t, Genuine(table, t)
      PROVE  Genuine(table, t)'
  <2>1. t.id[1] # None => t.id[1] \in Requests \ {r}
    BY <1>1, <1>6 DEF Genuine, Row
  <2> QED
    BY <1>4, <1>6, <2>1 DEF Genuine, WasThere, EarlierOf
<1>7. ASSUME NEW CONSTANT table, TableInv(table)
      PROVE  TableInv(table)'
  <2>1. RowsOf(table)' = RowsOf(table) /\ EarlierOf(table)' = EarlierOf(table) /\ events' = events
    BY <1>3 DEF RowsOf, EarlierOf
  <2>2. \A t \in RowsOf(table) : Genuine(table, t)'
    BY <1>6, <1>7 DEF TableInv
  <2>3. \A t \in RowsOf(table) : t.id[1] # None => t.id[1] \in Requests \ {r}
    BY <1>1, <1>7 DEF TableInv, Genuine, Row
  <2> QED
    BY <1>4, <1>7, <2>1, <2>2, <2>3 DEF TableInv, IdsOf, EventId
<1>8. EventsInv' /\ SourcesInv'
  BY <1>3 DEF IInv, EventsInv, SourcesInv
<1>9. RequestInv(r)'
  <2>1. work'[r] = Idle /\ Idle.rows = {} /\ Idle.source = None
    BY <1>1, <1>3 DEF Idle
  <2>2. FitsInv(r)' /\ SourceInv(r)' /\ FoundInv(r)' /\ WebhookInv(r)'
    BY <1>1, <1>3, <1>4, <2>1
       DEF FitsInv, SourceInv, FoundInv, WebhookInv, WebhookStatements, SyncStatements, JobStatus
  <2>3. RowsInv(r)'
    BY <2>1 DEF RowsInv, Keyed
  <2> QED
    BY <2>2, <2>3 DEF RequestInv
<1>10. ASSUME NEW q \in Requests, q # r
       PROVE  RequestInv(q)'
  <2>1. RequestInv(q) /\ work'[q] = work[q] /\ input'[q] = input[q] /\ pc'[q] = pc[q] /\ answer'[q] = answer[q]
    BY <1>3, <1>4, <1>10 DEF IInv
  <2>2. Table(q)' = Table(q) /\ Committed(q)' = Committed(q) /\ Sought(q)' = Sought(q) /\ events' = events
        /\ sources' = sources
    BY <1>3, <2>1 DEF Table, Committed, Sought, Current
  <2>3. FitsInv(q)' /\ SourceInv(q)'
    BY <2>1, <2>2 DEF RequestInv, FitsInv, SourceInv
  <2>4. ASSUME NEW t \in work[q].rows
        PROVE  Genuine(Table(q), t)'
    <3>1. Genuine(Table(q), t)
      BY <2>1 DEF RequestInv, RowsInv
    <3>2. t.id[1] # None => t.id[1] \in Requests \ {r}
      BY <1>1, <3>1 DEF Genuine, Row
    <3> QED
      BY <1>4, <2>2, <3>1, <3>2 DEF Genuine, WasThere, EarlierOf
  <2>5. RowsInv(q)'
    BY <2>1, <2>2, <2>4 DEF RequestInv, RowsInv, Keyed, IdsOf
  <2>6. Rows(q)' = Rows(q)
    BY <2>1, <2>2 DEF Rows
  <2>7. pc[q] # "idle" => WebhookInv(q)'
    BY <2>1, <2>2, <2>6 DEF RequestInv, WebhookInv
  <2>8. ASSUME Genuine(Table(q), work[q].found)
        PROVE  Genuine(Table(q), work[q].found)'
    <3>1. work[q].found.id[1] # None => work[q].found.id[1] \in Requests \ {r}
      BY <1>1, <2>8 DEF Genuine, Row
    <3> QED
      BY <1>4, <2>1, <2>2, <2>8, <3>1 DEF Genuine, WasThere, EarlierOf
  <2>9. WasThere(Table(q), input[q].merchant, Sought(q))' = WasThere(Table(q), input[q].merchant, Sought(q))
    BY <2>1, <2>2 DEF WasThere, EarlierOf
  <2>10. FoundInv(q) /\ pc[q] = "write_txn"
         => IF work[q].found = None THEN ~WasThere(Table(q), input[q].merchant, Sought(q))'
            ELSE Genuine(Table(q), work[q].found)'
    BY <2>8, <2>9 DEF FoundInv
  <2>11. IdsOf(Committed(q))' = IdsOf(Committed(q)) /\ FoundInv(q)
    BY <2>1, <2>2 DEF IdsOf, RequestInv
  <2>12. FoundInv(q)'
    BY <2>1, <2>2, <2>10, <2>11 DEF FoundInv
  <2> QED
    BY <2>1, <2>3, <2>5, <2>7, <2>12 DEF RequestInv
<1>11. EventsAreExclusive'
  BY <1>4 DEF IInv, EventsAreExclusive, EventId
<1>12. AcknowledgedWebhooksAreRecorded'
  BY <1>1, <1>3, <1>4 DEF IInv, AcknowledgedWebhooksAreRecorded, EventId
<1>13. TableInv("transactions")' /\ TableInv("settlements")'
  BY <1>7 DEF IInv
<1> QED
  BY <1>5, <1>8, <1>9, <1>10, <1>11, <1>12, <1>13 DEF IInv

------------------------------------------------------------------------------
\* What a commit does to the tables: r's table takes r's rows, every row stays,
\* and a new one is r's.
CommitsRows(r) ==
  \A table \in {"transactions", "settlements"} :
    /\ \A t \in RowsOf(table)' : Genuine(table, t)'
    /\ Keyed(RowsOf(table)')
    /\ \A t \in RowsOf(table) :
         \E u \in RowsOf(table)' : u.id = t.id /\ u.merchant = t.merchant /\ u.ref = t.ref
    /\ \A t \in RowsOf(table)' :
         IF t.id[1] = r THEN table = Table(r) /\ t \in work[r].rows
         ELSE t.id \in IdsOf(RowsOf(table))

\* The state in which a request commits.
LEMMA CommitFacts ==
  ASSUME IInv, NEW r \in Requests, Commit(r)
  PROVE  /\ pc[r] \notin {"idle", "done"} /\ input' = input
         /\ input[r] \in Inputs /\ RequestInv(r) /\ answer[r] = "none"
         /\ work[r] \in Work
         /\ \A q \in Requests \ {r} : pc'[q] = pc[q] /\ work'[q] = work[q] /\ answer'[q] = answer[q]
         /\ pc'[r] = "done" /\ work'[r] = Idle /\ answer'[r] \in {"200", "lost"}
         /\ input[r].kind = "webhook" => pc[r] \in {"commit", "commit_event"} /\ Table(r) = "transactions"
         /\ input[r].kind = "sync" => pc[r] \in DOMAIN JobStatus
<1>1. /\ TypeOK /\ WorkTypeOK /\ RequestInv(r)
  BY DEF IInv
<1>2. pc[r] \in {"commit", "commit_event"} \cup DOMAIN JobStatus
  BY DEF Commit
<1>3. /\ pc' = [pc EXCEPT ![r] = "done"] /\ work' = [work EXCEPT ![r] = Idle] /\ input' = input
      /\ \E s \in {"200", "lost"} : answer' = [answer EXCEPT ![r] = s]
  BY DEF Commit
<1>4. pc[r] \notin {"idle", "done"} /\ input[r] \in Inputs /\ answer[r] = "none"
  BY <1>1, <1>2 DEF RequestInv, FitsInv, JobStatus, TypeOK
<1>5. /\ input[r].kind = "webhook" => pc[r] \in {"commit", "commit_event"} /\ Table(r) = "transactions"
      /\ input[r].kind = "sync" => pc[r] \in DOMAIN JobStatus
  BY <1>1, <1>2 DEF RequestInv, FitsInv, SyncStatements, WebhookStatements, Table
<1>6. /\ \A q \in Requests \ {r} : pc'[q] = pc[q] /\ work'[q] = work[q] /\ answer'[q] = answer[q]
      /\ pc'[r] = "done" /\ work'[r] = Idle /\ answer'[r] \in {"200", "lost"}
  BY <1>1, <1>3 DEF TypeOK, WorkTypeOK
<1> QED
  BY <1>1, <1>3, <1>4, <1>5, <1>6 DEF WorkTypeOK

\* A committed row was genuine before.
LEMMA CommitKeepsGenuine ==
  ASSUME IInv, NEW r \in Requests, Commit(r), NEW CONSTANT table, NEW CONSTANT t, Genuine(table, t)
  PROVE  Genuine(table, t)'
<1>1. t.id[1] \in Requests \cup {None}
  BY DEF Genuine, Row
<1>2. \A q \in Requests : pc[q] # "idle" => pc'[q] # "idle"
  BY CommitFacts
<1> QED
  BY <1>1, <1>2, CommitFacts DEF Genuine, WasThere, EarlierOf

\* What a request's commit makes of the tables of rows.
LEMMA CommitWritesRows ==
  ASSUME IInv, NEW r \in Requests, Commit(r)
  PROVE  CommitsRows(r)
<1> SUFFICES ASSUME NEW table \in {"transactions", "settlements"}
             PROVE  /\ \A t \in RowsOf(table)' : Genuine(table, t)'
                    /\ Keyed(RowsOf(table)')
                    /\ \A t \in RowsOf(table) :
                         \E u \in RowsOf(table)' : u.id = t.id /\ u.merchant = t.merchant /\ u.ref = t.ref
                    /\ \A t \in RowsOf(table)' :
                         IF t.id[1] = r THEN table = Table(r) /\ t \in work[r].rows
                         ELSE t.id \in IdsOf(RowsOf(table))
  BY DEF CommitsRows
<1>1. TableInv(table) /\ RowsInv(r) /\ pc[r] # "done"
  BY CommitFacts DEF IInv, RequestInv
<1>2. \A t \in RowsOf(table) : t.id[1] # r
  BY <1>1, IngestionAssumption DEF TableInv
<1>3. CASE table = Table(r)
  <2>1. RowsOf(table)' = Rows(r) /\ RowsOf(table) = Committed(r)
    BY <1>3, TablesInv DEF Commit, RowsOf, Table
  <2>2. /\ Keyed(Rows(r)) /\ \A t \in Rows(r) : Genuine(table, t)
        /\ IdsOf(Rows(r)) = IdsOf(Committed(r)) \cup IdsOf(work[r].rows)
    BY <1>1, <1>3, RowsSeen
  <2>3. \A t \in Rows(r) : Genuine(table, t)'
    BY <2>2, CommitKeepsGenuine
  <2>4. ASSUME NEW t \in RowsOf(table)
        PROVE  \E u \in Rows(r) : u.id = t.id /\ u.merchant = t.merchant /\ u.ref = t.ref
    <3>1. PICK u \in Rows(r) : u.id = t.id
      BY <2>1, <2>2 DEF IdsOf
    <3>2. Genuine(table, t)
      BY <1>1 DEF TableInv
    <3> QED
      BY <2>2, <3>1, <3>2, SameRow
  <2>5. ASSUME NEW t \in Rows(r)
        PROVE  IF t.id[1] = r THEN t \in work[r].rows ELSE t.id \in IdsOf(RowsOf(table))
    BY <2>1, CommitFacts, SeenRows
  <2> QED
    BY <1>3, <2>1, <2>2, <2>3, <2>4, <2>5
<1>4. CASE table # Table(r)
  <2>1. RowsOf(table)' = RowsOf(table)
    BY <1>4 DEF Commit, RowsOf, Table
  <2>2. \A t \in RowsOf(table) : Genuine(table, t)'
    BY <1>1, CommitKeepsGenuine DEF TableInv
  <2> QED
    BY <1>1, <1>2, <2>1, <2>2 DEF TableInv, IdsOf
<1> QED
  BY <1>3, <1>4

\* What a commit does to the events: it adds r's, or none.
LEMMA CommitEvents ==
  ASSUME IInv, NEW r \in Requests, Commit(r)
  PROVE  /\ EventsInv'
         /\ events \subseteq events'
         /\ \A e \in events' \ events : pc[r] = "commit_event" /\ e = EventOf(r)
         /\ pc[r] = "commit_event" => EventOf(r) \in events' /\ EventOf(r) \notin events
<1>1. EventsInv /\ CommitsRows(r) /\ input[r] \in Inputs /\ RequestInv(r)
  BY CommitWritesRows, CommitFacts DEF IInv
<1>2. /\ events' = IF pc[r] = "commit_event" THEN events \cup {EventOf(r)} ELSE events
      /\ EventOf(r).id = EventId(input[r]) /\ EventOf(r).ref = Ref(input[r].payload)
  BY DEF Commit, EventOf
<1>3. pc[r] = "commit_event" =>
        /\ input[r].kind = "webhook" /\ Table(r) = "transactions"
        /\ \A e \in events : e.id # EventId(input[r])
        /\ \E t \in Rows(r) : t.ref = Ref(input[r].payload)
  BY <1>1 DEF RequestInv, FitsInv, WebhookInv, WebhookStatements, Table
<1>4. \A e \in events : \E t \in transactions' : t.ref = e.ref
  BY <1>1 DEF EventsInv, CommitsRows, RowsOf
<1>5. pc[r] = "commit_event" => \E t \in transactions' : t.ref = Ref(input[r].payload)
  BY <1>3 DEF Commit
<1>6. EventsInv'
  BY <1>1, <1>2, <1>3, <1>4, <1>5 DEF EventsInv
<1> QED
  BY <1>2, <1>3, <1>6

\* The committed rows stay one version each, with the events of webhooks.
LEMMA CommitKeepsTables ==
  ASSUME IInv, NEW r \in Requests, Commit(r)
  PROVE  TableInv("transactions")' /\ TableInv("settlements")' /\ SourcesInv'
<1>1. ASSUME NEW CONSTANT table \in {"transactions", "settlements"}
      PROVE  TableInv(table)'
  <2>1. TableInv(table) /\ CommitsRows(r)
    BY CommitWritesRows DEF IInv
  <2>2. \A e \in EarlierOf(table) : e.id \in IdsOf(RowsOf(table)')
    BY <2>1 DEF TableInv, CommitsRows, IdsOf
  <2>3. ASSUME NEW t \in RowsOf(table)', t.id[1] # None
        PROVE  /\ pc'[t.id[1]] = "done"
               /\ input'[t.id[1]].kind = "webhook" =>
                    \E e \in events' : e.by = t.id[1] /\ e.id = EventId(input'[t.id[1]])
    <3>1. CASE t.id[1] = r
      <4>1. t \in work[r].rows /\ RequestInv(r)
        BY <2>1, <3>1, CommitFacts DEF CommitsRows
      <4>2. input[r].kind = "webhook" => pc[r] = "commit_event"
        BY <4>1, CommitFacts DEF RequestInv, WebhookInv
      <4>3. EventOf(r).by = r /\ EventOf(r).id = EventId(input[r])
        BY DEF EventOf
      <4> QED
        BY <3>1, <4>2, <4>3, CommitFacts, CommitEvents
    <3>2. CASE t.id[1] # r
      <4>1. PICK u \in RowsOf(table) : u.id = t.id
        BY <2>1, <3>2 DEF CommitsRows, IdsOf
      <4>2. t.id[1] \in Requests
        BY <2>1, <2>3, <4>1 DEF TableInv, Genuine, Row
      <4> QED
        BY <2>1, <2>3, <3>2, <4>1, <4>2, CommitFacts, CommitEvents DEF TableInv
    <3> QED
      BY <3>1, <3>2
  <2> QED
    BY <2>1, <2>2, <2>3 DEF TableInv, CommitsRows, EarlierOf, IdsOf, EventId
<1>2. SourcesInv'
  BY CommitFacts DEF IInv, SourcesInv, RequestInv, SourceInv, Commit
<1> QED
  BY <1>1, <1>2

\* A commit leaves what another request has read and written standing.
LEMMA CommitKeepsOthers ==
  ASSUME IInv, NEW r \in Requests, Commit(r), NEW q \in Requests, q # r
  PROVE  RequestInv(q)'
<1>1. /\ RequestInv(q) /\ work'[q] = work[q] /\ input' = input /\ pc'[q] = pc[q] /\ answer'[q] = answer[q]
      /\ TypeOK /\ WorkTypeOK /\ CommitsRows(r)
  BY CommitFacts, CommitWritesRows DEF IInv
<1>2. /\ Table(q)' = Table(q) /\ Sought(q)' = Sought(q)
      /\ Table(q) \in {"transactions", "settlements"}
      /\ Committed(q) = RowsOf(Table(q)) /\ Committed(q)' = RowsOf(Table(q))'
      /\ sources \subseteq sources'
  BY <1>1 DEF Table, Committed, RowsOf, Sought, Current, Commit
<1>3. \A t \in Committed(q) : \E u \in Committed(q)' : u.id = t.id /\ u.merchant = t.merchant /\ u.ref = t.ref
  BY <1>1, <1>2 DEF CommitsRows, RowsOf
<1>4. IdsOf(Committed(q)) \subseteq IdsOf(Committed(q))'
  BY <1>3 DEF IdsOf
<1>5. FitsInv(q)' /\ SourceInv(q)'
  BY <1>1, <1>2 DEF RequestInv, FitsInv, SourceInv
<1>6. RowsInv(q)'
  <2>1. ASSUME NEW t \in work[q].rows
        PROVE  Genuine(Table(q), t)'
    <3>1. Genuine(Table(q), t)
      BY <1>1 DEF RequestInv, RowsInv
    <3>2. t.id[1] \in Requests \cup {None}
      BY <3>1 DEF Genuine, Row
    <3>3. \A p \in Requests : pc[p] # "idle" => pc'[p] # "idle"
      BY CommitFacts
    <3> QED
      BY <1>1, <1>2, <3>1, <3>2, <3>3 DEF Genuine, WasThere, EarlierOf
  <2> QED
    BY <1>1, <1>2, <1>4, <2>1 DEF RequestInv, RowsInv, Keyed
<1>7. FoundInv(q)'
  <2>1. ASSUME Genuine(Table(q), work[q].found)
        PROVE  Genuine(Table(q), work[q].found)'
    <3>1. work[q].found.id[1] \in Requests \cup {None}
      BY <2>1 DEF Genuine, Row
    <3>2. \A p \in Requests : pc[p] # "idle" => pc'[p] # "idle"
      BY CommitFacts
    <3> QED
      BY <1>1, <1>2, <2>1, <3>1, <3>2 DEF Genuine, WasThere, EarlierOf
  <2>2. WasThere(Table(q), input[q].merchant, Sought(q))' = WasThere(Table(q), input[q].merchant, Sought(q))
    BY <1>1, <1>2 DEF WasThere, EarlierOf
  <2>3. FoundInv(q) /\ pc[q] = "write_txn"
        => IF work[q].found = None THEN ~WasThere(Table(q), input[q].merchant, Sought(q))'
           ELSE Genuine(Table(q), work[q].found)'
    BY <2>1, <2>2 DEF FoundInv
  <2>4. FoundInv(q)
    BY <1>1 DEF RequestInv
  <2> QED
    BY <1>1, <1>2, <1>4, <2>3, <2>4 DEF FoundInv
<1>8. ASSUME pc[q] # "idle", input[q].kind = "webhook"
      PROVE  WebhookInv(q)'
  <2>1. WebhookInv(q)
    BY <1>1, <1>8 DEF RequestInv
  <2>2. ASSUME NEW t \in Rows(q)
        PROVE  \E u \in Rows(q)' : u.ref = t.ref
    BY <1>1, <1>3 DEF Rows
  <2>3. pc[q] = "commit_event" => \A e \in events' : e.id # EventId(input[q])
    <3> SUFFICES ASSUME pc[q] = "commit_event", NEW e \in events'
                 PROVE  e.id # EventId(input[q])
      OBVIOUS
    <3>1. CASE e \in events
      BY <1>8, <2>1, <3>1 DEF WebhookInv
    <3>2. CASE e \notin events
      <4>1. pc[r] = "commit_event" /\ e.id = EventId(input[r])
        <5>1. pc[r] = "commit_event" /\ e = EventOf(r)
          BY <3>2, CommitEvents
        <5>2. EventOf(r).id = EventId(input[r])
          BY DEF EventOf
        <5> QED
          BY <5>1, <5>2
      <4>2. EventsAreExclusive
        BY DEF IInv
      <4>3. pc[q] = "commit_event" /\ pc[r] = "commit_event" /\ q # r
        BY <4>1
      <4>4. EventId(input[q]) # EventId(input[r])
        BY <4>2, <4>3 DEF EventsAreExclusive
      <4> QED
        BY <4>1, <4>4
    <3> QED
      BY <3>1, <3>2
  <2>4. events \subseteq events'
    BY CommitEvents
  <2> QED
    BY <1>1, <1>8, <2>1, <2>2, <2>3, <2>4 DEF WebhookInv, EventId
<1>9. pc[q] # "idle" => WebhookInv(q)'
  BY <1>1, <1>8 DEF WebhookInv
<1> QED
  BY <1>1, <1>5, <1>6, <1>7, <1>9 DEF RequestInv

\* A commit keeps the types.
LEMMA CommitKeepsTypes ==
  ASSUME IInv, NEW r \in Requests, Commit(r)
  PROVE  TypeOK' /\ WorkTypeOK'
<1>1. /\ TypeOK /\ WorkTypeOK /\ work[r] \in Work /\ input[r] \in Inputs /\ input' = input /\ RequestInv(r)
      /\ CommitsRows(r)
  BY CommitFacts, CommitWritesRows DEF IInv
<1>2. /\ pc' = [pc EXCEPT ![r] = "done"] /\ work' = [work EXCEPT ![r] = Idle]
      /\ \E s \in {"200", "lost"} : answer' = [answer EXCEPT ![r] = s]
  BY DEF Commit
<1>3. Idle \in Work
  BY DEF Idle, Work
<1>4. WorkTypeOK'
  BY <1>1, <1>2, <1>3 DEF WorkTypeOK
<1>5. sources' \subseteq SourceRow
  BY <1>1 DEF Commit, TypeOK, Work
<1>6. transactions' \cup settlements' \subseteq Row
  BY <1>1 DEF CommitsRows, Genuine, RowsOf
<1>7. pc[r] = "commit_event" =>
        /\ input[r].kind = "webhook" /\ input[r].merchant \in Merchants
        /\ Ref(input[r].payload) \in Names \cup {Nameless} /\ EventId(input[r]) \in Names \cup EventNames
        /\ Status(input[r].payload.status) \in TransactionStatus
  BY <1>1, WebhookFields DEF RequestInv, FitsInv, WebhookStatements
<1>8. events' \subseteq [id : Names \cup EventNames, by : Requests, merchant : Merchants,
                        ref : Names \cup {Nameless}, status : TransactionStatus]
  BY <1>1, <1>7 DEF Commit, EventOf, TypeOK
<1>9. alerts' \subseteq [event : Names \cup EventNames, merchant : Merchants]
  BY <1>1, <1>7 DEF Commit, TypeOK
<1>10. jobs' \subseteq [id : Requests, status : {"queued", "completed", "failed_permanent"},
                       seen : Nat, created : Nat, updated : Nat, failed : Nat, failures : Nat]
  <2>1. CASE pc[r] \in DOMAIN JobStatus
    <3>1. input[r].fetched \in Seq(Record)
      BY <1>1, <2>1, SyncFields DEF RequestInv, FitsInv, SyncStatements
    <3>2. Len(input[r].fetched) \in Nat
      BY <3>1
    <3>3. JobStatus[pc[r]] \in {"queued", "completed", "failed_permanent"}
      BY <2>1 DEF JobStatus
    <3>4. jobs' = jobs \cup {JobRow(r, JobStatus[pc[r]])}
      BY <2>1 DEF Commit
    <3>5. JobRow(r, JobStatus[pc[r]]) \in
            [id : Requests, status : {"queued", "completed", "failed_permanent"},
             seen : Nat, created : Nat, updated : Nat, failed : Nat, failures : Nat]
      BY <1>1, <3>2, <3>3 DEF JobRow, Work
    <3> QED
      BY <1>1, <3>4, <3>5 DEF TypeOK
  <2>2. CASE pc[r] \notin DOMAIN JobStatus
    BY <1>1, <2>2 DEF Commit, TypeOK
  <2> QED
    BY <2>1, <2>2
<1>11. /\ pc' \in [Requests -> Statements]
       /\ answer' \in [Requests -> {"none", "200", "403", "500", "lost"}]
  BY <1>1, <1>2 DEF TypeOK, Statements
<1> QED
  BY <1>4, <1>5, <1>6, <1>8, <1>9, <1>10, <1>11 DEF TypeOK, Statements

\* A commit keeps the invariant.
LEMMA CommitKeepsIInv ==
  ASSUME IInv, NEW r \in Requests, Commit(r)
  PROVE  IInv'
<1>1. TypeOK' /\ WorkTypeOK' /\ TableInv("transactions")' /\ TableInv("settlements")' /\ EventsInv' /\ SourcesInv'
  BY CommitKeepsTypes, CommitKeepsTables, CommitEvents
<1>2. RequestInv(r)'
  <2>1. pc'[r] = "done" /\ work'[r] = Idle /\ input'[r] = input[r] /\ input[r] \in Inputs
    BY CommitFacts
  <2>2. work'[r].rows = {} /\ work'[r].source = None
    BY <2>1 DEF Idle
  <2>3. FitsInv(r)' /\ SourceInv(r)' /\ FoundInv(r)' /\ WebhookInv(r)'
    BY <2>1, <2>2 DEF FitsInv, SourceInv, FoundInv, WebhookInv, WebhookStatements, SyncStatements, JobStatus
  <2>4. RowsInv(r)'
    BY <2>2 DEF RowsInv, Keyed
  <2> QED
    BY <2>3, <2>4 DEF RequestInv
<1>3. \A q \in Requests : RequestInv(q)'
  BY <1>2, CommitKeepsOthers
<1>4. EventsAreExclusive'
  <2>1. \A q \in Requests : pc'[q] = "commit_event" => pc[q] = "commit_event"
    BY CommitFacts
  <2>2. input' = input /\ EventsAreExclusive
    BY CommitFacts DEF IInv
  <2> QED
    BY <2>1, <2>2 DEF EventsAreExclusive
<1>5. AcknowledgedWebhooksAreRecorded'
  <2> SUFFICES ASSUME NEW q \in Requests, answer'[q] = "200", input'[q].kind = "webhook"
               PROVE  \E e \in events' : e.id = EventId(input'[q])
    BY <1>1 DEF AcknowledgedWebhooksAreRecorded, EventsInv
  <2>1. CASE q = r
    <3>1. /\ input[r].kind = "webhook" /\ input'[r] = input[r] /\ WebhookInv(r)
          /\ pc[r] \in {"commit", "commit_event"}
      BY <2>1, CommitFacts DEF RequestInv
    <3>2. EventOf(r).id = EventId(input[r])
      BY DEF EventOf
    <3> QED
      BY <2>1, <3>1, <3>2, CommitEvents DEF WebhookInv
  <2>2. CASE q # r
    <3>1. answer[q] = "200" /\ input[q].kind = "webhook" /\ input'[q] = input[q]
      BY <2>2, CommitFacts
    <3>2. AcknowledgedWebhooksAreRecorded /\ events \subseteq events'
      BY CommitEvents DEF IInv
    <3> QED
      BY <3>1, <3>2 DEF AcknowledgedWebhooksAreRecorded
  <2> QED
    BY <2>1, <2>2
<1> QED
  BY <1>1, <1>3, <1>4, <1>5 DEF IInv

------------------------------------------------------------------------------
\* The invariant holds of the first state.
LEMMA InitIInv == Init => IInv
<1> SUFFICES ASSUME Init
             PROVE  IInv
  OBVIOUS
<1> USE DEF Init
<1>1. Idle \in Work /\ Idle.rows = {} /\ Idle.source = None
  BY DEF Idle, Work
<1>2. TypeOK /\ WorkTypeOK
  BY <1>1, IngestionAssumption DEF TypeOK, WorkTypeOK, SourceRow, EarlierRow, Row
<1>3. ASSUME NEW table
      PROVE  TableInv(table)
  <2>1. RowsOf(table) = EarlierOf(table)
    BY DEF RowsOf, EarlierOf
  <2>2. \A t \in EarlierOf(table) : Genuine(table, t)
    BY EarlierRows DEF Genuine
  <2> QED
    BY <2>1, <2>2, EarlierRows DEF TableInv, Keyed, IdsOf
<1>4. EventsInv /\ SourcesInv /\ EventsAreExclusive /\ AcknowledgedWebhooksAreRecorded
  BY DEF EventsInv, SourcesInv, EventsAreExclusive, AcknowledgedWebhooksAreRecorded
<1>5. ASSUME NEW r \in Requests
      PROVE  RequestInv(r)
  BY <1>1 DEF RequestInv, FitsInv, SourceInv, RowsInv, FoundInv, Keyed, WebhookStatements, SyncStatements, JobStatus
<1> QED
  BY <1>2, <1>3, <1>4, <1>5 DEF IInv

\* Every step keeps it.
LEMMA NextIInv == IInv /\ [Next]_vars => IInv'
<1> SUFFICES ASSUME IInv, [Next]_vars
             PROVE  IInv'
  OBVIOUS
<1>1. ASSUME NEW r \in Requests, Arrive(r)
      PROVE  IInv'
  BY <1>1, ArriveKeepsIInv
<1>2. ASSUME NEW r \in Requests, Step(r)
      PROVE  IInv'
  <2>1. CASE BreakDeadlock(r)
    <3>1. Refuse(r, "500") /\ \E q \in Requests : WaitsFor(r, q)
      BY <2>1 DEF BreakDeadlock
    <3>2. pc[r] \notin {"idle", "done"}
      BY <3>1 DEF WaitsFor, Wants
    <3> QED
      BY <3>1, <3>2, RefuseKeepsIInv
  <2>2. CASE Verify(r) \/ SelectSource(r) \/ WriteSource(r)
    BY <2>2, VerifyKeepsIInv, SelectSourceKeepsIInv, WriteSourceKeepsIInv
  <2>3. CASE SelectEvent(r) \/ SelectTransaction(r) \/ WriteTransaction(r) \/ InsertEvent(r)
    BY <2>3, SelectEventKeepsIInv, SelectTransactionKeepsIInv, WriteTransactionKeepsIInv, InsertEventKeepsIInv
  <2>4. CASE Fetch(r) \/ CountTransfer(r) \/ SelectRecord(r) \/ WriteRecord(r) \/ WriteSettlement(r)
    BY <2>4, FetchKeepsIInv, CountTransferKeepsIInv, SelectRecordKeepsIInv, WriteRecordKeepsIInv
  <2>5. CASE Commit(r)
    BY <2>5, CommitKeepsIInv
  <2> QED
    BY <1>2, <2>1, <2>2, <2>3, <2>4, <2>5 DEF Step
<1>3. ASSUME NEW r \in Requests, Abort(r)
      PROVE  IInv'
  BY <1>3, RefuseKeepsIInv DEF Abort
<1>4. CASE UNCHANGED vars
  <2> USE <1>4 DEF vars
  <2>1. TypeOK' /\ WorkTypeOK'
    BY DEF IInv, TypeOK, WorkTypeOK
  <2>2. ASSUME NEW CONSTANT table
        PROVE  TableInv(table)' = TableInv(table)
    BY DEF TableInv, Genuine, WasThere, RowsOf, EarlierOf, IdsOf, Keyed
  <2>3. ASSUME NEW r \in Requests
        PROVE  RequestInv(r)'
    <3>1. RequestInv(r)
      BY DEF IInv
    <3>2. FitsInv(r)' /\ SourceInv(r)'
      BY <3>1 DEF RequestInv, FitsInv, SourceInv
    <3>3. /\ Table(r)' = Table(r) /\ Committed(r)' = Committed(r) /\ Sought(r)' = Sought(r)
          /\ Rows(r)' = Rows(r)
      BY DEF Table, Committed, Sought, Current, Rows
    <3>4. RowsInv(r)'
      BY <3>1, <3>3 DEF RequestInv, RowsInv, Genuine, WasThere, EarlierOf, Keyed, IdsOf
    <3>5. FoundInv(r)'
      BY <3>1, <3>3 DEF RequestInv, FoundInv, Genuine, WasThere, EarlierOf, IdsOf
    <3>6. pc[r] # "idle" => WebhookInv(r)'
      BY <3>1, <3>3 DEF RequestInv, WebhookInv
    <3> QED
      BY <3>2, <3>4, <3>5, <3>6 DEF RequestInv
  <2>4. EventsInv' /\ SourcesInv' /\ EventsAreExclusive' /\ AcknowledgedWebhooksAreRecorded'
    BY DEF IInv, EventsInv, SourcesInv, EventsAreExclusive, AcknowledgedWebhooksAreRecorded
  <2> QED
    BY <2>1, <2>2, <2>3, <2>4 DEF IInv
<1> QED
  BY <1>1, <1>2, <1>3, <1>4 DEF Next

\* The invariant holds in every state.
LEMMA InvariantHolds == Spec => []IInv
<1>1. Init => IInv
  BY InitIInv
<1>2. IInv /\ [Next]_vars => IInv'
  BY NextIInv
<1> QED
  BY <1>1, <1>2, PTL DEF Spec

\* Whatever the deliveries that race for it and the syncs next to them: rows keep
\* their identity, the webhooks of a transaction insert it once, a merchant that
\* had a webhook source gets no other, a settlement that was there no second row.
THEOREM NothingIsInsertedTwice == Spec => []InsertedOnce
<1> SUFFICES ASSUME IInv
             PROVE  InsertedOnce
  BY InvariantHolds, PTL
<1>1. TypeOK /\ TableInv("transactions") /\ TableInv("settlements") /\ EventsInv /\ SourcesInv
  BY DEF IInv
<1>2. RowsAreKeyed
  BY <1>1 DEF RowsAreKeyed, TableInv, EventsInv, RowsOf, Keyed
<1>3. WebhooksInsertOnce
  <2> DEFINE Named(v) == /\ v.id[1] # None /\ input[v.id[1]].kind = "webhook"
                         /\ input[v.id[1]].payload.id # None
  <2> SUFFICES ASSUME NEW t \in transactions, NEW u \in transactions, Named(t), Named(u), t.ref = u.ref
               PROVE  t = u
    BY DEF WebhooksInsertOnce
  <2>1. ASSUME NEW v \in transactions, Named(v)
        PROVE  /\ v.id = <<v.id[1], v.ref>>
               /\ \E e \in events : e.by = v.id[1] /\ e.id = v.ref
    <3>1. Genuine("transactions", v) /\ v \in Row
      BY <1>1 DEF TableInv, RowsOf, Genuine
    <3>2. v.ref = Ref(input[v.id[1]].payload)
      BY <2>1, <3>1 DEF Genuine
    <3>3. EventId(input[v.id[1]]) = Ref(input[v.id[1]].payload)
      BY <2>1 DEF EventId, Ref
    <3>4. v.id = <<v.id[1], v.ref>>
      BY <2>1, <3>1 DEF Genuine, Row
    <3>5. \E e \in events : e.by = v.id[1] /\ e.id = EventId(input[v.id[1]])
      BY <1>1, <2>1 DEF TableInv, RowsOf
    <3> QED
      BY <3>2, <3>3, <3>4, <3>5
  <2>2. t.id = u.id
    BY <1>1, <2>1 DEF EventsInv
  <2> QED
    BY <1>1, <2>2 DEF TableInv, Keyed, RowsOf
<1>4. OneSourceStays
  BY <1>1 DEF SourcesInv, OneSourceStays, TypeOK, SourceRow
<1>5. SettlementsStay
  <2> SUFFICES ASSUME NEW s \in settlements, NEW t \in settlements,
                      s.merchant = t.merchant, s.ref = t.ref, s.id[1] = None
               PROVE  s = t
    BY DEF SettlementsStay
  <2>1. Genuine("settlements", s) /\ Genuine("settlements", t)
    BY <1>1 DEF TableInv, RowsOf
  <2>2. PICK e \in EarlierOf("settlements") : e.id = s.id /\ e.merchant = s.merchant /\ e.ref = s.ref
    BY <2>1 DEF Genuine
  <2>3. t.id[1] = None
    BY <2>1, <2>2 DEF Genuine, WasThere
  <2>4. PICK f \in EarlierOf("settlements") : f.id = t.id /\ f.merchant = t.merchant /\ f.ref = t.ref
    BY <2>1, <2>3 DEF Genuine
  <2>5. s.id = t.id
    BY <2>2, <2>4, EarlierRows
  <2> QED
    BY <1>1, <2>5 DEF TableInv, Keyed, RowsOf
<1> QED
  BY <1>1, <1>2, <1>3, <1>4, <1>5 DEF InsertedOnce

\* A webhook answered 200 has its event recorded and the event's transaction.
THEOREM AcknowledgedAreRecorded == Spec => []AcknowledgedWebhooksAreRecorded
<1>1. IInv => AcknowledgedWebhooksAreRecorded
  BY DEF IInv
<1> QED
  BY <1>1, InvariantHolds, PTL

\* A webhook that ends without an event of its own has changed no transaction and
\* no settlement and raised no alert.
THEOREM DuplicatesAreHarmless == Spec => DuplicatesChangeNothing
<1> DEFINE Harmless ==
      \A r \in Requests :
        pc[r] # "done" /\ pc'[r] = "done" /\ events' = events /\ input[r].kind = "webhook" =>
          UNCHANGED <<transactions, settlements, alerts>>
<1>1. ASSUME IInv, [Next]_vars
      PROVE  [Harmless]_vars
  <2> SUFFICES ASSUME Next, NEW r \in Requests, pc[r] # "done", pc'[r] = "done",
                      events' = events, input[r].kind = "webhook"
               PROVE  UNCHANGED <<transactions, settlements, alerts>>
    BY <1>1
  <2>1. PICK q \in Requests : Arrive(q) \/ Step(q) \/ Abort(q)
    BY DEF Next
  <2>2. ASSUME UNCHANGED tables
        PROVE  UNCHANGED <<transactions, settlements, alerts>>
    BY <2>2 DEF tables
  <2>3. CASE Commit(q)
    <3>1. q = r /\ RequestInv(r) /\ Table(r) = "transactions" /\ pc[r] \in {"commit", "commit_event"}
      BY <1>1, <2>3, CommitFacts
    <3>2. pc[r] = "commit"
      BY <1>1, <2>3, <3>1, CommitEvents
    <3>3. work[r].rows = {}
      BY <3>1, <3>2 DEF RequestInv, WebhookInv
    <3>4. Rows(r) = transactions
      BY <3>1, <3>3 DEF Rows, IdsOf, Committed
    <3> QED
      BY <2>3, <3>1, <3>2, <3>4 DEF Commit
  <2>4. Commit(q) \/ UNCHANGED tables
    BY <2>1 DEF Arrive, Abort, Refuse, Step, Verify, SelectSource, WriteSource, SelectEvent, SelectTransaction,
         WriteTransaction, InsertEvent, Fetch, CountTransfer, SelectRecord, WriteRecord, WriteSettlement,
         BreakDeadlock, Continue, Goto, Skip, Flush
  <2> QED
    BY <2>2, <2>3, <2>4
<1>2. IInv /\ [Next]_vars => [Harmless]_vars
  BY <1>1
<1> QED
  BY <1>2, InvariantHolds, PTL DEF Spec, DuplicatesChangeNothing

------------------------------------------------------------------------------
(***************************************************************************)
(* The counts of a sync.                                                   *)
(***************************************************************************)
\* The rows that r has inserted, by their ids.
OwnIds(rows, r) == IdsOf({t \in rows : t.id[1] = r})

\* The k-th record that r's sync fetched has its row.
Stored(rows, r, k) ==
  \E t \in rows : t.merchant = input[r].merchant /\ t.ref = Ref(input[r].fetched[k])

Stores(r) == input[r].type \in {"transactions", "settlements"}

\* The counts of a running sync account for the records before the current one,
\* and what it counts as stored is among the rows it sees.
SyncInv(r) ==
  LET w == work[r]  own == OwnIds(work[r].rows, r) IN
  pc[r] \notin {"idle", "done"} /\ input[r].kind = "sync" =>
    /\ w.at = 1 + w.created + w.updated + w.failures
    /\ w.at <= Len(input[r].fetched) + 1
    /\ pc[r] = "commit_completed" => w.at = Len(input[r].fetched) + 1
    /\ IsFiniteSet(own)
    /\ Cardinality(own) <= w.created
    /\ input[r].type = "transactions" => Cardinality(own) = w.created
    /\ Stores(r) =>
         \A k \in 1..(w.at - 1) : input[r].fetched[k].form = "good" => Stored(Rows(r), r, k)

\* A job is that of a sync that has ended, and a completed one is complete.
JobInv(j) ==
  LET rows == RowsOf(Table(j.id))  own == OwnIds(rows, j.id) IN
  /\ pc[j.id] = "done" /\ input[j.id].kind = "sync"
  /\ j.status = "completed" =>
       /\ j.seen = j.created + j.updated + j.failures
       /\ IsFiniteSet(own)
       /\ Cardinality(own) <= j.created
       /\ input[j.id].type = "transactions" => Cardinality(own) = j.created
       /\ Stores(j.id) =>
            \A k \in DOMAIN input[j.id].fetched :
              input[j.id].fetched[k].form = "good" => Stored(rows, j.id, k)

CountInv ==
  /\ \A r \in Requests : SyncInv(r)
  /\ \A j \in jobs : JobInv(j)

\* As many rows as ids, when each id has one row.
LEMMA KeyedCardinality ==
  ASSUME NEW S, Keyed(S), IsFiniteSet(IdsOf(S))
  PROVE  Cardinality(S) = Cardinality(IdsOf(S))
<1> DEFINE row == [i \in IdsOf(S) |-> CHOOSE t \in S : t.id = i]
<1>1. \A i \in IdsOf(S) : row[i] \in S /\ row[i].id = i
  BY DEF IdsOf
<1>2. row \in [IdsOf(S) -> S]
  BY <1>1
<1>3. \A t \in S : t.id \in IdsOf(S) /\ row[t.id] = t
  BY <1>1 DEF Keyed, IdsOf
<1> HIDE DEF row
<1>4. row \in Bijection(IdsOf(S), S)
  BY <1>1, <1>2, <1>3 DEF Bijection, Injection, IsInjective, Surjection
<1>5. ExistsBijection(IdsOf(S), S)
  BY <1>4 DEF ExistsBijection
<1> QED
  BY <1>5, FS_Bijection

\* Every step is an arrival, a commit, or commits nothing.
LEMMA StepKinds ==
  ASSUME IInv, IInv', NEW q \in Requests, Step(q) \/ Abort(q)
  PROVE  LocalStep(q) \/ Commit(q)
<1> SUFFICES ASSUME ~Commit(q)
             PROVE  LocalStep(q)
  OBVIOUS
<1>1. TypeOK /\ WorkTypeOK /\ TypeOK' /\ WorkTypeOK' /\ FitsInv(q)
  BY DEF IInv, RequestInv
<1>2. pc[q] \notin {"idle", "done"}
  <2>1. (\E p \in Requests : WaitsFor(q, p)) => pc[q] \notin {"idle", "done"}
    BY DEF WaitsFor, Wants
  <2> QED
    BY <2>1 DEF Step, Abort, Verify, SelectSource, WriteSource, SelectEvent, SelectTransaction,
         WriteTransaction, InsertEvent, Fetch, CountTransfer, SelectRecord, WriteRecord, WriteSettlement,
         BreakDeadlock
<1> DEFINE Moves == \/ \E s \in Statements \ {"idle"} : Goto(q, s)
                    \/ \E s \in {"403", "500", "lost"} : Refuse(q, s)
           Others == \A p \in Requests \ {q} : work'[p] = work[p]
<1>3. Moves /\ Others
  <2> USE <1>1 DEF Statements, WorkTypeOK
  <2>1. ASSUME Verify(q) \/ SelectSource(q) \/ WriteSource(q)
        PROVE  Moves /\ Others
    BY <2>1 DEF Verify, SelectSource, WriteSource, Continue, Goto, Refuse
  <2>2. ASSUME SelectEvent(q) \/ SelectTransaction(q) \/ WriteTransaction(q) \/ InsertEvent(q)
        PROVE  Moves /\ Others
    BY <2>2 DEF SelectEvent, SelectTransaction, WriteTransaction, InsertEvent, Continue, Goto, Refuse
  <2>3. ASSUME Fetch(q) \/ CountTransfer(q) \/ SelectRecord(q)
        PROVE  Moves /\ Others
    BY <2>3 DEF Fetch, CountTransfer, SelectRecord, Continue, Skip, Goto, JobStatus
  <2>4. ASSUME WriteRecord(q) \/ WriteSettlement(q)
        PROVE  Moves /\ Others
    BY <2>4 DEF WriteRecord, WriteSettlement, Flush, Goto, Refuse
  <2>5. ASSUME BreakDeadlock(q) \/ Abort(q)
        PROVE  Moves /\ Others
    BY <2>5 DEF BreakDeadlock, Abort, Refuse
  <2> QED
    BY <2>1, <2>2, <2>3, <2>4, <2>5 DEF Step
<1>4. /\ UNCHANGED <<tables, input>>
      /\ \A p \in Requests \ {q} : pc'[p] = pc[p] /\ work'[p] = work[p] /\ answer'[p] = answer[p]
  BY <1>1, <1>3 DEF Goto, Refuse, TypeOK
<1>5. pc'[q] # "idle" /\ answer'[q] # "200"
  BY <1>1, <1>2, <1>3 DEF Goto, Refuse, TypeOK, FitsInv
<1> QED
  BY <1>1, <1>2, <1>3, <1>4, <1>5 DEF LocalStep

\* A sync that another request's step does not concern keeps its counts, and what
\* it has stored.
LEMMA OthersKeepCounts ==
  ASSUME IInv, IInv', NEW q \in Requests, Arrive(q) \/ LocalStep(q) \/ Commit(q),
         NEW r \in Requests, r # q, SyncInv(r)
  PROVE  SyncInv(r)'
<1> SUFFICES ASSUME pc'[r] \notin {"idle", "done"}, input'[r].kind = "sync"
             PROVE  SyncInv(r)'
  BY DEF SyncInv
<1>1. pc'[r] = pc[r] /\ work'[r] = work[r] /\ input'[r] = input[r]
  BY CommitFacts DEF Arrive, LocalStep, tables, IInv, TypeOK, WorkTypeOK
<1>2. ASSUME NEW k, Stored(Rows(r), r, k)
      PROVE  Stored(Rows(r), r, k)'
  <2>1. PICK t \in Rows(r) : t.merchant = input[r].merchant /\ t.ref = Ref(input[r].fetched[k])
    BY <1>2 DEF Stored
  <2>2. Table(r)' = Table(r) /\ Table(r) \in {"transactions", "settlements"} /\ Committed(r) = RowsOf(Table(r))
        /\ Committed(r)' = RowsOf(Table(r))'
    BY <1>1 DEF Table, Committed, RowsOf
  <2>3. PICK u \in Rows(r)' : u.merchant = t.merchant /\ u.ref = t.ref
    <3>1. CASE UNCHANGED tables
      <4>1. Rows(r)' = Rows(r)
        BY <1>1, <2>2, <3>1 DEF Rows, Committed, tables
      <4> QED
        BY <4>1
    <3>2. CASE Commit(q)
      BY <1>1, <2>2, <3>2, CommitWritesRows DEF CommitsRows, Rows
    <3> QED
      BY <3>1, <3>2 DEF Arrive, LocalStep
  <2> QED
    BY <1>1, <2>1, <2>3 DEF Stored
<1> QED
  BY <1>1, <1>2 DEF SyncInv, Stores

\* A job stays complete.
LEMMA JobsStay ==
  ASSUME IInv, IInv', NEW q \in Requests, Arrive(q) \/ LocalStep(q) \/ Commit(q),
         NEW j \in jobs, JobInv(j)
  PROVE  JobInv(j)'
<1> DEFINE r == j.id
<1>1. r \in Requests /\ pc[r] = "done"
  BY DEF JobInv, IInv, TypeOK
<1>2. q # r
  BY <1>1, CommitFacts DEF Arrive, LocalStep
<1>3. pc'[r] = pc[r] /\ input'[r] = input[r] /\ Table(r)' = Table(r)
  BY <1>1, <1>2, CommitFacts DEF Arrive, LocalStep, tables, IInv, TypeOK, WorkTypeOK, Table
<1> DEFINE old == RowsOf(Table(r))
           new == RowsOf(Table(r))'
<1>4. /\ \A t \in old : \E u \in new : u.id = t.id /\ u.merchant = t.merchant /\ u.ref = t.ref
      /\ \A t \in new : t.id[1] # q => t.id \in IdsOf(old)
  <2>1. CASE UNCHANGED tables
    <3>1. new = old
      BY <1>3, <2>1 DEF RowsOf, tables
    <3> QED
      BY <3>1 DEF IdsOf
  <2>2. CASE Commit(q)
    <3>1. Table(r) \in {"transactions", "settlements"}
      BY DEF Table
    <3> QED
      BY <1>3, <2>2, <3>1, CommitWritesRows DEF CommitsRows, RowsOf
  <2> QED
    BY <2>1, <2>2 DEF Arrive, LocalStep
<1>5. OwnIds(new, r) = OwnIds(old, r)
  BY <1>1, <1>2, <1>4 DEF OwnIds, IdsOf
<1>6. ASSUME NEW k, Stored(old, r, k)
      PROVE  Stored(old, r, k)'
  BY <1>3, <1>4, <1>6 DEF Stored
<1>7. OwnIds(old, r)' = OwnIds(old, r)
  BY <1>5 DEF OwnIds, IdsOf
<1> HIDE DEF r, old, new
<1> QED
  BY <1>3, <1>6, <1>7 DEF JobInv, Stores, r, old

\* A sync that writes no row keeps its counts when it counts the record it passes,
\* and passes one without storing it only when it is not good or is there.
LEMMA AdvanceKeepsCounts ==
  ASSUME IInv, IInv', NEW r \in Requests, LocalStep(r), SyncInv(r), input[r].kind = "sync",
         work'[r].rows = work[r].rows,
         NEW c \in Nat, NEW f \in Nat, c + f <= 1,
         /\ work'[r].at = work[r].at + c + f
         /\ work'[r].created = work[r].created + c
         /\ work'[r].updated = work[r].updated
         /\ work'[r].failures = work[r].failures + f,
         pc'[r] = "commit_completed" => work'[r].at = Len(input[r].fetched) + 1,
         c + f = 1 => work[r].at <= Len(input[r].fetched),
         c = 1 => input[r].type # "transactions",
         c + f = 1 /\ Stores(r) =>
           \/ input[r].fetched[work[r].at].form # "good"
           \/ Stored(Rows(r), r, work[r].at)
  PROVE  SyncInv(r)'
<1>1. /\ work[r] \in Work /\ RowsInv(r) /\ input' = input /\ pc[r] \notin {"idle", "done"} /\ input[r] \in Inputs
  BY DEF IInv, WorkTypeOK, RequestInv, FitsInv, LocalStep
<1>2. Rows(r)' = Rows(r)
  BY <1>1, LocalKeepsRows
<1>3. OwnIds(work[r].rows, r)' = OwnIds(work[r].rows, r)
  BY DEF OwnIds, IdsOf
<1>4. Len(input[r].fetched) \in Nat
  BY <1>1, SyncFields
<1>5. /\ IsFiniteSet(OwnIds(work[r].rows, r)) /\ Cardinality(OwnIds(work[r].rows, r)) \in Nat
  BY <1>1, FS_CardinalityType DEF SyncInv
<1>6. /\ work[r].at \in Nat /\ work[r].created \in Nat /\ work[r].updated \in Nat /\ work[r].failures \in Nat
  BY <1>1 DEF Work
<1>7. ASSUME Stores(r), NEW k \in 1..(work'[r].at - 1), input[r].fetched[k].form = "good"
      PROVE  Stored(Rows(r), r, k)'
  <2>1. Stored(Rows(r), r, k)
    <3>1. CASE k \in 1..(work[r].at - 1)
      BY <1>1, <1>7, <3>1 DEF SyncInv
    <3>2. CASE k \notin 1..(work[r].at - 1)
      BY <1>6, <1>7, <3>2, SMTT(30)
    <3> QED
      BY <3>1, <3>2
  <2> QED
    BY <1>1, <1>2, <2>1 DEF Stored
<1>8. Stores(r)' = Stores(r)
  BY <1>1 DEF Stores
<1>9. /\ work'[r].at = 1 + work'[r].created + work'[r].updated + work'[r].failures
      /\ work'[r].at <= Len(input[r].fetched) + 1
      /\ Cardinality(OwnIds(work[r].rows, r)) <= work'[r].created
      /\ input[r].type = "transactions" => Cardinality(OwnIds(work[r].rows, r)) = work'[r].created
  <2>1. /\ work[r].at = 1 + work[r].created + work[r].updated + work[r].failures
        /\ work[r].at <= Len(input[r].fetched) + 1
        /\ Cardinality(OwnIds(work[r].rows, r)) <= work[r].created
        /\ input[r].type = "transactions" => Cardinality(OwnIds(work[r].rows, r)) = work[r].created
    BY <1>1 DEF SyncInv
  <2>2. c + f = 0 \/ c + f = 1
    OBVIOUS
  <2>4. /\ work'[r].at = 1 + work'[r].created + work'[r].updated + work'[r].failures
        /\ work'[r].at <= Len(input[r].fetched) + 1
    <3>1. PICK at \in Nat, created \in Nat, updated \in Nat, failures \in Nat, len \in Nat :
            /\ at = work[r].at /\ created = work[r].created /\ updated = work[r].updated
            /\ failures = work[r].failures /\ len = Len(input[r].fetched)
      BY <1>4, <1>6
    <3>2. PICK at1, created1, updated1, failures1 :
            /\ at1 = work'[r].at /\ created1 = work'[r].created /\ updated1 = work'[r].updated
            /\ failures1 = work'[r].failures
      OBVIOUS
    <3>3. at = 1 + created + updated + failures /\ at <= len + 1 /\ (c + f = 1 => at <= len)
      BY <2>1, <3>1
    <3>4. at1 = at + c + f /\ created1 = created + c /\ updated1 = updated /\ failures1 = failures + f
      BY <3>1, <3>2
    <3>5. at1 = 1 + created1 + updated1 + failures1 /\ at1 <= len + 1
      BY <2>2, <3>3, <3>4
    <3> QED
      BY <3>1, <3>2, <3>5
  <2>3. PICK own \in Nat, created \in Nat :
          own = Cardinality(OwnIds(work[r].rows, r)) /\ created = work[r].created
    BY <1>5, <1>6
  <2>5. own <= created + c /\ (c = 0 => created + c = created)
    BY <2>1, <2>3
  <2>6. input[r].type = "transactions" => c = 0 /\ own = created
    BY <2>1, <2>2, <2>3
  <2> QED
    BY <2>3, <2>4, <2>5, <2>6
<1>10. pc'[r] = "commit_completed" => work'[r].at = Len(input'[r].fetched) + 1
  BY <1>1
<1>11. Stores(r)' =>
         \A k \in 1..(work'[r].at - 1) : input'[r].fetched[k].form = "good" => Stored(Rows(r), r, k)'
  BY <1>1, <1>7, <1>8
<1> QED
  BY <1>1, <1>3, <1>5, <1>9, <1>10, <1>11 DEF SyncInv

\* A statement of a sync that writes no row keeps its counts.
LEMMA ReadingKeepsCounts ==
  ASSUME IInv, IInv', NEW r \in Requests, LocalStep(r), SyncInv(r), input[r].kind = "sync",
         Fetch(r) \/ CountTransfer(r) \/ SelectRecord(r)
  PROVE  SyncInv(r)'
<1> DEFINE Keeps(c, f) ==
      /\ work'[r].rows = work[r].rows
      /\ work'[r].at = work[r].at + c + f
      /\ work'[r].created = work[r].created + c
      /\ work'[r].updated = work[r].updated
      /\ work'[r].failures = work[r].failures + f
<1>1. /\ WorkTypeOK /\ TypeOK /\ work[r] \in Work /\ RowsInv(r) /\ FitsInv(r) /\ pc[r] \notin {"idle", "done"}
      /\ input[r] \in Inputs
  BY DEF IInv, WorkTypeOK, RequestInv, FitsInv, LocalStep
<1>2. Len(input[r].fetched) \in Nat /\ 0 \in Nat /\ 1 \in Nat
  BY <1>1, SyncFields
<1>3. work[r].at \in Nat /\ work[r].created \in Nat /\ work[r].updated \in Nat /\ work[r].failures \in Nat
  BY <1>1 DEF Work
<1>4. ASSUME NEW s, Continue(r, s), s # "commit_completed" \/ (AtEnd(r) /\ s = "commit_completed")
      PROVE  SyncInv(r)'
  <2>1. Keeps(0, 0)
    BY <1>1, <1>3, <1>4 DEF Continue
  <2>2. pc'[r] = s
    BY <1>1, <1>4 DEF Continue, Goto, TypeOK
  <2>3. pc'[r] = "commit_completed" => work'[r].at = Len(input[r].fetched) + 1
    BY <1>1, <1>2, <1>3, <1>4, <2>1, <2>2 DEF AtEnd, SyncInv
  <2> QED
    BY <1>2, <2>1, <2>3, AdvanceKeepsCounts
<1>5. ASSUME ~AtEnd(r), pc[r] = "select_record", Skip(r),
             Stores(r) => Current(r).form # "good" \/ Stored(Rows(r), r, work[r].at)
      PROVE  SyncInv(r)'
  <2>1. Keeps(0, 1) /\ pc'[r] = "select_record"
    BY <1>1, <1>3, <1>5 DEF Skip, Goto, TypeOK, WorkTypeOK, Work
  <2>2. work[r].at <= Len(input[r].fetched)
    BY <1>2, <1>3, <1>5 DEF AtEnd
  <2> QED
    BY <1>2, <1>5, <2>1, <2>2, AdvanceKeepsCounts DEF Current
<1>6. ASSUME ~AtEnd(r), input[r].type \notin {"transactions", "settlements"}, Goto(r, "select_record"),
             work' = [work EXCEPT ![r].at = @ + 1, ![r].created = @ + 1]
      PROVE  SyncInv(r)'
  <2>1. Keeps(1, 0) /\ pc'[r] = "select_record"
    BY <1>1, <1>3, <1>6 DEF Goto, TypeOK, WorkTypeOK, Work
  <2>2. work[r].at <= Len(input[r].fetched)
    BY <1>2, <1>3, <1>6 DEF AtEnd
  <2>3. ~Stores(r) /\ input[r].type # "transactions"
    BY <1>6 DEF Stores
  <2> QED
    BY <1>2, <2>1, <2>2, <2>3, AdvanceKeepsCounts
<1>7. ASSUME NEW f, Goto(r, "write_txn"), work' = [work EXCEPT ![r].found = f]
      PROVE  SyncInv(r)'
  <2>1. Keeps(0, 0) /\ pc'[r] = "write_txn"
    BY <1>1, <1>3, <1>7 DEF Goto, TypeOK, WorkTypeOK, Work
  <2> QED
    BY <1>2, <2>1, AdvanceKeepsCounts
<1>8. CASE Fetch(r)
  BY <1>4, <1>8 DEF Fetch
<1>9. CASE CountTransfer(r)
  <2>1. input[r].type \notin {"transactions", "settlements"} /\ pc[r] = "select_record"
    BY <1>9 DEF CountTransfer
  <2> QED
    BY <1>4, <1>5, <1>6, <1>9, <2>1 DEF CountTransfer, Stores
<1>10. CASE SelectRecord(r)
  <2> DEFINE matches == {t \in Rows(r) : t.merchant = input[r].merchant /\ t.ref = Ref(Current(r))}
  <2>1. Cardinality(matches) > 1 => Stored(Rows(r), r, work[r].at)
    <3>1. Cardinality({}) = 0
      BY FS_EmptySet
    <3>2. Cardinality(matches) > 1 => matches # {}
      BY <3>1
    <3> QED
      BY <3>2 DEF Stored, Current
  <2>2. \/ Continue(r, "commit_completed") /\ AtEnd(r)
        \/ ~AtEnd(r) /\ pc[r] = "select_record" /\ Skip(r)
           /\ (Current(r).form = "unreadable" \/ Cardinality(matches) > 1)
        \/ \E f : Goto(r, "write_txn") /\ work' = [work EXCEPT ![r].found = f]
    BY <1>10 DEF SelectRecord
  <2> HIDE DEF matches
  <2> QED
    BY <1>4, <1>5, <1>7, <2>1, <2>2
<1> QED
  BY <1>8, <1>9, <1>10

\* Writing what was sought adds the one row of its own that it inserts, if it
\* does, and loses none.
LEMMA WrittenIds ==
  ASSUME IInv, NEW r \in Requests, pc[r] = "write_txn",
         input[r].merchant \in Merchants, Sought(r) \in Names \cup {Nameless},
         NEW status \in TransactionStatus,
         NEW n, n = Written(r, input[r].merchant, Sought(r), status)
  PROVE  /\ work[r].found = None =>
              /\ OwnIds(n, r) = OwnIds(work[r].rows, r) \cup {<<r, Sought(r)>>}
              /\ <<r, Sought(r)>> \notin OwnIds(work[r].rows, r)
         /\ work[r].found # None => OwnIds(n, r) = OwnIds(work[r].rows, r)
<1> DEFINE rows == work[r].rows
           found == work[r].found
<1>1. RowsInv(r) /\ FoundInv(r)
  BY DEF IInv, RequestInv
<1>3. ASSUME found = None
      PROVE  /\ OwnIds(n, r) = OwnIds(rows, r) \cup {<<r, Sought(r)>>}
             /\ <<r, Sought(r)>> \notin OwnIds(rows, r)
  <2>1. PICK new : new = [id |-> <<r, Sought(r)>>, merchant |-> input[r].merchant, ref |-> Sought(r),
                          status |-> status]
    OBVIOUS
  <2>2. \A t \in rows : t.id # <<r, Sought(r)>>
    BY <1>1, <1>3 DEF FoundInv
  <2>3. n = rows \cup {new} /\ new.id = <<r, Sought(r)>> /\ new.id[1] = r
    BY <1>3, <2>1 DEF Written
  <2>4. {t \in n : t.id[1] = r} = {t \in rows : t.id[1] = r} \cup {new}
    BY <2>3
  <2>5. OwnIds(n, r) = OwnIds(rows, r) \cup {new.id}
    <3>1. \A S, x : {t.id : t \in S \cup {x}} = {t.id : t \in S} \cup {x.id}
      OBVIOUS
    <3> QED
      BY <2>4, <3>1 DEF OwnIds, IdsOf
  <2>6. <<r, Sought(r)>> \notin OwnIds(rows, r)
    BY <2>2 DEF OwnIds, IdsOf
  <2> QED
    BY <2>3, <2>5, <2>6
<1>4. ASSUME found # None
      PROVE  OwnIds(n, r) = OwnIds(rows, r)
  <2>1. found \in Row /\ (found.id[1] = r => found \in rows)
    BY <1>1, <1>4 DEF FoundInv, Genuine
  <2>2. CASE found.status = status
    BY <1>4, <2>2 DEF Written
  <2>3. CASE found.status # status
    <3> DEFINE new == [found EXCEPT !.status = status]
    <3>1. n = {t \in rows : t.id # found.id} \cup {new} /\ new.id = found.id
      BY <1>4, <2>1, <2>3 DEF Written, Row
    <3> HIDE DEF new
    <3> QED
      BY <2>1, <3>1 DEF OwnIds, IdsOf
  <2> QED
    BY <2>2, <2>3
<1> QED
  BY <1>3, <1>4

\* It loses no row that r sees.
LEMMA WrittenKeepsRows ==
  ASSUME IInv, NEW r \in Requests, pc[r] = "write_txn",
         input[r].merchant \in Merchants, Sought(r) \in Names \cup {Nameless},
         NEW status \in TransactionStatus,
         NEW n, n = Written(r, input[r].merchant, Sought(r), status),
         NEW t \in Rows(r)
  PROVE  \E u : /\ (u \in Committed(r) /\ u.id \notin IdsOf(n)) \/ u \in n
                /\ u.merchant = t.merchant /\ u.ref = t.ref
<1> DEFINE rows == work[r].rows
<1>1. RowsInv(r)
  BY DEF IInv, RequestInv
<1>2. IdsOf(rows) \subseteq IdsOf(n) /\ \A u \in n : Genuine(Table(r), u)
  BY WrittenRows
<1>3. Genuine(Table(r), t)
  BY <1>1, RowsSeen, TablesInv
<1>4. CASE t.id \in IdsOf(n)
  <2>1. PICK u \in n : u.id = t.id
    BY <1>4 DEF IdsOf
  <2>2. Genuine(Table(r), u)
    BY <1>2, <2>1
  <2>3. u.merchant = t.merchant /\ u.ref = t.ref
    BY <1>3, <2>1, <2>2, SameRow
  <2> QED
    BY <2>1, <2>3
<1>5. CASE t.id \notin IdsOf(n)
  <2>1. t \in Committed(r)
    BY <1>2, <1>5 DEF Rows, IdsOf
  <2> QED
    BY <1>5, <2>1
<1> QED
  BY <1>4, <1>5

\* Writing a record accounts for it, and it is there.
LEMMA FlushKeepsCounts ==
  ASSUME IInv, IInv', NEW r \in Requests, LocalStep(r), SyncInv(r), pc[r] = "write_txn",
         input[r].kind = "sync", NEW status \in TransactionStatus,
         NEW created \in Nat, NEW updated \in Nat, created + updated = 1,
         work[r].found = None => created = 1,
         work[r].found # None /\ input[r].type = "transactions" => created = 0,
         Flush(r, status, created, updated)
  PROVE  SyncInv(r)'
<1>1. /\ FitsInv(r) /\ FoundInv(r) /\ RowsInv(r) /\ WorkTypeOK /\ TypeOK /\ work[r] \in Work
      /\ input' = input /\ UNCHANGED tables
  BY DEF IInv, RequestInv, WorkTypeOK, LocalStep
<1>2. /\ input[r] \in Inputs /\ input[r].merchant \in Merchants /\ Sought(r) = Ref(Current(r))
      /\ Sought(r) \in Names \cup {Nameless} /\ input[r].fetched \in Seq(Record)
  BY <1>1, SyncFields, CurrentRecord, RecordFields DEF FitsInv, FoundInv, Sought
<1>3. PICK n : n = Written(r, input[r].merchant, Sought(r), status)
  OBVIOUS
<1>4. /\ n \subseteq Row /\ Keyed(n)
      /\ \A t \in n : Genuine(Table(r), t) /\ (t.id[1] = r \/ t.id \in IdsOf(Committed(r)))
      /\ \E t \in {u \in Committed(r) : u.id \notin IdsOf(n)} \cup n :
           t.ref = Sought(r) /\ t.merchant = input[r].merchant
  BY <1>1, <1>2, <1>3, WrittenRows
<1>5. /\ work'[r].rows = n
      /\ work'[r].at = work[r].at + 1
      /\ work'[r].created = work[r].created + created
      /\ work'[r].updated = work[r].updated + updated
      /\ work'[r].failures = work[r].failures
      /\ pc'[r] = "select_record"
  <2>1. n = Written(r, input[r].merchant, Ref(Current(r)), status)
    BY <1>2, <1>3
  <2>2. PICK w : w = [work[r] EXCEPT !.rows = n, !.found = None, !.at = @ + 1,
                                     !.created = @ + created, !.updated = @ + updated]
    OBVIOUS
  <2>3. work' = [work EXCEPT ![r] = w]
    BY <1>1, <2>1, <2>2 DEF Flush, WorkTypeOK
  <2>4. /\ w.rows = n /\ w.at = work[r].at + 1 /\ w.created = work[r].created + created
        /\ w.updated = work[r].updated + updated /\ w.failures = work[r].failures
    BY <1>1, <2>2 DEF Work
  <2>5. work'[r] = w /\ pc'[r] = "select_record"
    BY <1>1, <2>3 DEF Flush, Goto, TypeOK, WorkTypeOK
  <2> QED
    BY <2>4, <2>5
<1>6. Rows(r)' = {u \in Committed(r) : u.id \notin IdsOf(n)} \cup n
  <2>1. Table(r)' = Table(r) /\ Committed(r)' = Committed(r)
    BY <1>1 DEF Table, Committed, tables
  <2> QED
    BY <1>5, <2>1 DEF Rows
<1>7. /\ work[r].at \in Nat /\ work[r].created \in Nat /\ work[r].updated \in Nat /\ work[r].failures \in Nat
      /\ Len(input[r].fetched) \in Nat /\ work[r].at \in 1..Len(input[r].fetched)
  BY <1>1, <1>2 DEF Work, FoundInv
<1>8. /\ work[r].at = 1 + work[r].created + work[r].updated + work[r].failures
      /\ IsFiniteSet(OwnIds(work[r].rows, r))
      /\ Cardinality(OwnIds(work[r].rows, r)) <= work[r].created
      /\ input[r].type = "transactions" => Cardinality(OwnIds(work[r].rows, r)) = work[r].created
      /\ Stores(r) =>
           \A k \in 1..(work[r].at - 1) : input[r].fetched[k].form = "good" => Stored(Rows(r), r, k)
  BY <1>1 DEF SyncInv
<1>9. /\ work'[r].at = 1 + work'[r].created + work'[r].updated + work'[r].failures
      /\ work'[r].at <= Len(input[r].fetched) + 1
  <2>1. PICK at \in Nat, c \in Nat, u \in Nat, f \in Nat, len \in Nat :
          /\ at = work[r].at /\ c = work[r].created /\ u = work[r].updated /\ f = work[r].failures
          /\ len = Len(input[r].fetched)
    BY <1>7
  <2>2. at = 1 + c + u + f /\ at <= len
    BY <1>7, <1>8, <2>1
  <2>3. at + 1 = 1 + (c + created) + (u + updated) + f /\ at + 1 <= len + 1
    BY <2>2
  <2> QED
    BY <1>5, <2>1, <2>3
<1>10. OwnIds(work[r].rows, r)' = OwnIds(n, r)
  BY <1>5 DEF OwnIds, IdsOf
<1>11. /\ IsFiniteSet(OwnIds(n, r))
       /\ Cardinality(OwnIds(n, r)) <= work'[r].created
       /\ input[r].type = "transactions" => Cardinality(OwnIds(n, r)) = work'[r].created
  <2> DEFINE own == OwnIds(work[r].rows, r)
  <2>1. Cardinality(own) \in Nat
    BY <1>8, FS_CardinalityType
  <2>2. CASE work[r].found = None
    <3>1. OwnIds(n, r) = own \cup {<<r, Sought(r)>>} /\ <<r, Sought(r)>> \notin own
      BY <1>2, <1>3, <2>2, WrittenIds
    <3>2. IsFiniteSet(OwnIds(n, r)) /\ Cardinality(OwnIds(n, r)) = Cardinality(own) + 1
      BY <1>8, <3>1, FS_AddElement
    <3>3. work'[r].created = work[r].created + 1
      BY <1>5, <2>2
    <3> HIDE DEF own
    <3> QED
      BY <1>7, <1>8, <2>1, <3>2, <3>3 DEF own
  <2>3. CASE work[r].found # None
    <3>1. OwnIds(n, r) = own
      BY <1>2, <1>3, <2>3, WrittenIds
    <3>2. input[r].type = "transactions" => work'[r].created = work[r].created
      BY <1>5, <1>7, <2>3
    <3>3. work[r].created <= work'[r].created
      BY <1>5, <1>7
    <3>4. work'[r].created \in Nat
      BY <1>5, <1>7
    <3> QED
      BY <1>7, <1>8, <2>1, <3>1, <3>2, <3>3, <3>4
  <2> QED
    BY <2>2, <2>3
<1>12. ASSUME Stores(r), NEW k \in 1..work[r].at, input[r].fetched[k].form = "good"
       PROVE  Stored(Rows(r), r, k)'
  <2>1. \E u \in Rows(r)' : u.merchant = input[r].merchant /\ u.ref = Ref(input[r].fetched[k])
    <3>1. CASE k = work[r].at
      BY <1>2, <1>4, <1>6, <3>1 DEF Current
    <3>2. CASE k # work[r].at
      <4>1. k \in 1..(work[r].at - 1)
        BY <1>7, <1>12, <3>2
      <4>2. PICK t \in Rows(r) : t.merchant = input[r].merchant /\ t.ref = Ref(input[r].fetched[k])
        BY <1>8, <1>12, <4>1 DEF Stored
      <4>3. PICK u : /\ (u \in Committed(r) /\ u.id \notin IdsOf(n)) \/ u \in n
                     /\ u.merchant = t.merchant /\ u.ref = t.ref
        BY <1>2, <1>3, <4>2, WrittenKeepsRows
      <4> QED
        BY <1>6, <4>2, <4>3
    <3> QED
      BY <3>1, <3>2
  <2> QED
    BY <1>1, <2>1 DEF Stored
<1>13. work'[r].at - 1 = work[r].at /\ Stores(r)' = Stores(r)
  BY <1>1, <1>5, <1>7 DEF Stores
<1> QED
  BY <1>1, <1>5, <1>9, <1>10, <1>11, <1>12, <1>13 DEF SyncInv

\* The step of a sync that commits nothing keeps its counts.
LEMMA OwnStepKeepsCounts ==
  ASSUME IInv, IInv', NEW r \in Requests, LocalStep(r), Step(r) \/ Abort(r), SyncInv(r)
  PROVE  SyncInv(r)'
<1> SUFFICES ASSUME pc'[r] \notin {"idle", "done"}, input'[r].kind = "sync"
             PROVE  SyncInv(r)'
  BY DEF SyncInv
<1>1. /\ pc[r] \notin {"idle", "done"} /\ input' = input /\ input[r].kind = "sync"
      /\ FitsInv(r) /\ FoundInv(r) /\ TypeOK /\ TypeOK'
  BY DEF IInv, RequestInv, LocalStep
<1>2. pc[r] \notin WebhookStatements
  BY <1>1 DEF FitsInv
<1>3. \A s : ~Refuse(r, s)
  BY <1>1 DEF Refuse, TypeOK
<1>4. ~Commit(r)
  BY <1>1 DEF Commit, TypeOK
<1>5. Fetch(r) \/ CountTransfer(r) \/ SelectRecord(r) \/ WriteRecord(r) \/ WriteSettlement(r)
  BY <1>1, <1>2, <1>3, <1>4
     DEF Step, Abort, WebhookStatements, Verify, SelectSource, WriteSource, SelectEvent, SelectTransaction,
         WriteTransaction, InsertEvent, BreakDeadlock
<1>6. ASSUME pc[r] = "write_txn"
      PROVE  Status(Current(r).status) \in TransactionStatus /\ SettlementStatus(Current(r).status) \in TransactionStatus
  BY <1>1, <1>6, CurrentRecord, RecordFields DEF FitsInv, FoundInv
<1>7. 0 \in Nat /\ 1 \in Nat /\ 0 + 1 = 1 /\ 1 + 0 = 1
  OBVIOUS
<1>8. CASE WriteRecord(r)
  <2>1. pc[r] = "write_txn"
    BY <1>8 DEF WriteRecord
  <2>2. \/ work[r].found = None /\ Flush(r, Status(Current(r).status), 1, 0)
        \/ work[r].found # None /\ Flush(r, Status(Current(r).status), 0, 1)
    BY <1>3, <1>8 DEF WriteRecord
  <2> QED
    BY <1>1, <1>6, <1>7, <2>1, <2>2, FlushKeepsCounts
<1>9. CASE WriteSettlement(r)
  <2>1. pc[r] = "write_txn" /\ input[r].type # "transactions"
    BY <1>9 DEF WriteSettlement, Table
  <2>2. Flush(r, SettlementStatus(Current(r).status), 1, 0)
    BY <1>3, <1>9 DEF WriteSettlement
  <2> QED
    BY <1>1, <1>6, <1>7, <2>1, <2>2, FlushKeepsCounts
<1> QED
  BY <1>1, <1>5, <1>8, <1>9, ReadingKeepsCounts

\* A sync that arrives has counted and stored nothing.
LEMMA ArrivalHasNoCounts ==
  ASSUME IInv, IInv', NEW r \in Requests, Arrive(r)
  PROVE  SyncInv(r)'
<1> SUFFICES ASSUME input'[r].kind = "sync"
             PROVE  SyncInv(r)'
  BY DEF SyncInv
<1>1. pc[r] = "idle" /\ work' = work /\ FitsInv(r) /\ FitsInv(r)' /\ TypeOK /\ pc'[r] \in {"verify", "fetch"}
  BY DEF Arrive, IInv, RequestInv, TypeOK
<1>2. work'[r] = Idle
  BY <1>1 DEF FitsInv
<1>3. input'[r] \in Inputs
  BY <1>1 DEF FitsInv
<1>4. Len(input'[r].fetched) \in Nat
  <2>1. \A i \in Inputs : i.kind = "sync" => Len(i.fetched) \in Nat
    BY SyncFields
  <2> QED
    BY <1>3, <2>1
<1>5. /\ work'[r].at = 1 /\ work'[r].created = 0 /\ work'[r].updated = 0 /\ work'[r].failures = 0
      /\ work'[r].rows = {}
  BY <1>2 DEF Idle
<1>6. OwnIds(work[r].rows, r)' = {}
  BY <1>5 DEF OwnIds, IdsOf
<1>7. IsFiniteSet({}) /\ Cardinality({}) = 0
  BY FS_EmptySet
<1>8. \A k \in 1..(work'[r].at - 1) : FALSE
  BY <1>5
<1>9. pc'[r] # "commit_completed"
  BY <1>1
<1>10. /\ work'[r].at = 1 + work'[r].created + work'[r].updated + work'[r].failures
       /\ work'[r].at <= Len(input'[r].fetched) + 1
  BY <1>4, <1>5
<1>11. /\ IsFiniteSet(OwnIds(work[r].rows, r)')
       /\ Cardinality(OwnIds(work[r].rows, r)') <= work'[r].created
       /\ Cardinality(OwnIds(work[r].rows, r)') = work'[r].created
  BY <1>5, <1>6, <1>7
<1> QED
  BY <1>8, <1>9, <1>10, <1>11 DEF SyncInv

\* The job a sync commits is that of its counts and of the rows it wrote.
LEMMA CommitCompletesJob ==
  ASSUME IInv, IInv', NEW r \in Requests, Commit(r), SyncInv(r), pc[r] \in DOMAIN JobStatus,
         NEW j, j = JobRow(r, JobStatus[pc[r]])
  PROVE  JobInv(j)'
<1>1. /\ input' = input /\ input[r] \in Inputs /\ pc'[r] = "done" /\ input[r].kind = "sync" /\ work[r] \in Work
      /\ RowsInv(r)
  <2>1. RequestInv(r) /\ pc[r] \in SyncStatements
    BY CommitFacts DEF SyncStatements
  <2> QED
    BY <2>1, CommitFacts DEF RequestInv, FitsInv
<1>2. j.id = r /\ j.status = JobStatus[pc[r]]
  BY DEF JobRow
<1>15. PICK new : new = Rows(r)
  OBVIOUS
<1>3. Table(r)' = Table(r) /\ Table(r) \in {"transactions", "settlements"} /\ RowsOf(Table(r))' = new
  BY <1>1, <1>15 DEF Table, RowsOf, Commit
<1>4. \A t \in new : t.id[1] = r => t \in work[r].rows
  BY <1>3, CommitWritesRows DEF CommitsRows
<1>5. \A t \in work[r].rows : t \in new
  BY <1>15 DEF Rows
<1>6. OwnIds(new, r) = OwnIds(work[r].rows, r)
  BY <1>4, <1>5 DEF OwnIds, IdsOf
<1>7. ASSUME j.status = "completed"
      PROVE  pc[r] = "commit_completed"
  BY <1>2, <1>7 DEF JobStatus
<1>8. ASSUME j.status = "completed"
      PROVE  /\ work[r].at = 1 + work[r].created + work[r].updated + work[r].failures
             /\ work[r].at = Len(input[r].fetched) + 1
             /\ IsFiniteSet(OwnIds(work[r].rows, r))
             /\ Cardinality(OwnIds(work[r].rows, r)) <= work[r].created
             /\ input[r].type = "transactions" => Cardinality(OwnIds(work[r].rows, r)) = work[r].created
             /\ Stores(r) =>
                  \A k \in 1..(work[r].at - 1) : input[r].fetched[k].form = "good" => Stored(Rows(r), r, k)
  BY <1>1, <1>7, <1>8 DEF SyncInv, JobStatus
<1>9. /\ input[r].fetched \in Seq(Record) /\ Len(input[r].fetched) \in Nat
      /\ DOMAIN input[r].fetched = 1..Len(input[r].fetched)
  <2>1. input[r].fetched \in Seq(Record)
    BY <1>1, SyncFields
  <2> QED
    BY <2>1
<1>10. ASSUME j.status = "completed"
       PROVE  j.seen = j.created + j.updated + j.failures
  <2>1. PICK c \in Nat, u \in Nat, f \in Nat, len \in Nat :
          c = work[r].created /\ u = work[r].updated /\ f = work[r].failures /\ len = Len(input[r].fetched)
    BY <1>1, <1>9 DEF Work
  <2>2. 1 + c + u + f = len + 1
    BY <1>8, <1>10, <2>1
  <2>3. len = c + u + f
    BY <2>2
  <2> QED
    BY <2>1, <2>3 DEF JobRow
<1>11. ASSUME j.status = "completed", Stores(r), NEW k \in DOMAIN input[r].fetched, input[r].fetched[k].form = "good"
       PROVE  Stored(new, r, k)'
  <2>1. k \in 1..(work[r].at - 1)
    BY <1>8, <1>9, <1>11
  <2>2. Stored(Rows(r), r, k)
    BY <1>8, <1>11, <2>1
  <2> QED
    BY <1>1, <1>15, <2>2 DEF Stored
<1>12. Stores(r)' = Stores(r) /\ j.created = work[r].created
  BY <1>1 DEF Stores, JobRow
<1>13. OwnIds(RowsOf(Table(r)), r)' = OwnIds(work[r].rows, r)
  BY <1>3, <1>6 DEF OwnIds, IdsOf
<1>14. \A k : Stored(RowsOf(Table(r)), r, k)' <=> Stored(new, r, k)'
  BY <1>3 DEF Stored
<1> QED
  BY <1>1, <1>2, <1>8, <1>10, <1>11, <1>12, <1>13, <1>14 DEF JobInv

\* Every step keeps the counts.
LEMMA NextCountInv == IInv /\ IInv' /\ CountInv /\ [Next]_vars => CountInv'
<1> SUFFICES ASSUME IInv, IInv', CountInv, [Next]_vars
             PROVE  CountInv'
  OBVIOUS
<1>1. CASE UNCHANGED vars
  <2>1. UNCHANGED <<sources, transactions, settlements, events, alerts, jobs, pc, input, work, answer>>
    BY <1>1 DEF vars
  <2>2. \A r \in Requests : SyncInv(r)' = SyncInv(r)
    BY <2>1 DEF SyncInv, OwnIds, IdsOf, Stores, Stored, Rows, Committed, Table
  <2>3. \A j \in jobs : JobInv(j)' = JobInv(j)
    BY <2>1 DEF JobInv, OwnIds, IdsOf, Stores, Stored, RowsOf, Table
  <2> QED
    BY <2>1, <2>2, <2>3 DEF CountInv
<1>2. ASSUME NEW q \in Requests, Arrive(q) \/ Step(q) \/ Abort(q)
      PROVE  CountInv'
  <2>1. Arrive(q) \/ LocalStep(q) \/ Commit(q)
    BY <1>2, StepKinds
  <2>2. ASSUME NEW r \in Requests
        PROVE  SyncInv(r)'
    <3>1. SyncInv(r) /\ SyncInv(q)
      BY DEF CountInv
    <3>2. CASE r # q
      BY <2>1, <3>1, <3>2, OthersKeepCounts
    <3>3. CASE r = q /\ Arrive(q)
      BY <3>3, ArrivalHasNoCounts
    <3>4. CASE r = q /\ Commit(q)
      <4>1. pc'[q] = "done"
        BY <3>4, CommitFacts
      <4> QED
        BY <3>4, <4>1 DEF SyncInv
    <3>5. CASE r = q /\ LocalStep(q) /\ ~Arrive(q)
      BY <1>2, <3>1, <3>5, OwnStepKeepsCounts
    <3> QED
      BY <2>1, <3>2, <3>3, <3>4, <3>5
  <2>3. ASSUME NEW j \in jobs'
        PROVE  JobInv(j)'
    <3>1. CASE j \in jobs
      BY <2>1, <3>1, JobsStay DEF CountInv
    <3>2. CASE j \notin jobs
      <4>1. Commit(q) /\ pc[q] \in DOMAIN JobStatus /\ j = JobRow(q, JobStatus[pc[q]])
        BY <2>1, <2>3, <3>2 DEF Arrive, LocalStep, tables, Commit
      <4> QED
        BY <4>1, CommitCompletesJob DEF CountInv
    <3> QED
      BY <3>1, <3>2
  <2> QED
    BY <2>2, <2>3 DEF CountInv
<1> QED
  BY <1>1, <1>2 DEF Next

\* The counts of the syncs, running and ended, are invariant.
LEMMA CountsHold == Spec => []CountInv
<1>1. Init => CountInv
  BY DEF Init, CountInv, SyncInv
<1> QED
  BY <1>1, NextCountInv, InvariantHolds, PTL DEF Spec

\* A completed job accounts for every record, and every good record that it says
\* it stored is a row, whatever the other requests wrote: run_job's counts and
\* the flushes of its records agree.
THEOREM CompletedJobsHold == Spec => []CompletedJobsAreComplete
<1>1. ASSUME IInv, CountInv
      PROVE  CompletedJobsAreComplete
  <2> SUFFICES ASSUME NEW j \in jobs, j.status = "completed"
               PROVE  LET sync == input[j.id]
                          table == RowsOf(Table(j.id))
                          inserted == Cardinality({t \in table : t.id[1] = j.id})
                      IN /\ j.seen = j.created + j.updated + j.failures
                         /\ IF sync.type = "transactions" THEN inserted = j.created ELSE inserted <= j.created
                         /\ sync.type \in {"transactions", "settlements"} =>
                              \A k \in DOMAIN sync.fetched :
                                sync.fetched[k].form = "good" =>
                                  \E t \in table : t.merchant = sync.merchant /\ t.ref = Ref(sync.fetched[k])
    <3>1. \A j \in jobs : j.status = "completed" => input[j.id].kind = "sync"
      BY <1>1 DEF CountInv, JobInv
    <3>2. \A j \in jobs : j.status = "completed" =>
            RowsOf(Table(j.id)) = IF input[j.id].type = "settlements" THEN settlements ELSE transactions
      BY <3>1 DEF RowsOf, Table
    <3> QED
      BY <3>2 DEF CompletedJobsAreComplete
  <2> DEFINE table == RowsOf(Table(j.id))
             own == {t \in table : t.id[1] = j.id}
  <2>1. JobInv(j)
    BY <1>1 DEF CountInv
  <2>2. Keyed(own)
    <3>1. Table(j.id) \in {"transactions", "settlements"}
      BY DEF Table
    <3>2. Keyed(table)
      BY <1>1, <3>1 DEF IInv, TableInv
    <3> QED
      BY <3>2 DEF Keyed
  <2>3. OwnIds(table, j.id) = IdsOf(own) /\ IsFiniteSet(IdsOf(own))
    BY <2>1 DEF JobInv, OwnIds
  <2>4. Cardinality(own) = Cardinality(IdsOf(own))
    BY <2>2, <2>3, KeyedCardinality
  <2>5. /\ j.seen = j.created + j.updated + j.failures
        /\ Cardinality(own) <= j.created
        /\ input[j.id].type = "transactions" => Cardinality(own) = j.created
        /\ Stores(j.id) =>
             \A k \in DOMAIN input[j.id].fetched :
               input[j.id].fetched[k].form = "good" => Stored(table, j.id, k)
    BY <2>1, <2>3, <2>4 DEF JobInv
  <2> QED
    BY <2>5 DEF Stores, Stored
<1> QED
  BY <1>1, InvariantHolds, CountsHold, PTL

==============================================================================
