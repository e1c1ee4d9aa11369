----------------------------- MODULE ReportsProofs -----------------------------
(***************************************************************************)
(* Proofs about the reports and the operations console, for any tables,    *)
(* requests and changes by others: a post's audit row and its task agree   *)
(* with its answer, the reports that write give no row twice, what the     *)
(* console reads by several statements fits its tables and its queue,      *)
(* payment graphs hang together, money at risk is counted once, the        *)
(* outages and the health of a provider are those of its rows, and the     *)
(* lists of work and the assistant's replies follow their cause.           *)
(***************************************************************************)
EXTENDS Reporting, AdminConsole, CollectionLemmas

(***************************************************************************)
(* Statements and what a request reads of them.                            *)
(***************************************************************************)

\* What a query without an order returns is some of its rows.
LEMMA ResultsAreRows ==
  ASSUME NEW q, NEW taken \in Results(q)
  PROVE  taken \subseteq q.rows
  BY DEF Results, kSubset

\* All rows are taken where there is no limit.
LEMMA EveryRow ==
  ASSUME NEW rows, IsFiniteSet(rows), NEW taken \in Results(Every(rows))
  PROVE  taken = rows
  <1>1. PICK q : q = Every(rows)
    OBVIOUS
  <1>2. q.rows = rows /\ q.limit = Cardinality(rows) /\ Cardinality(rows) \in Nat
    BY <1>1, FS_CardinalityType DEF Every
  <1>3. Results(q) = {rows}
    BY <1>2 DEF Results
  <1>4. QED BY <1>1, <1>3

\* The page that is fetched is some of the rows.
LEMMA FetchedAreRows ==
  ASSUME NEW q, NEW rows \in Fetched(q), "rows" \in DOMAIN q, "limit" \in DOMAIN q
  PROVE  rows \subseteq q.rows
  <1>1. PICK upto \in Results([q EXCEPT !.limit = @ + q.offset]) : \E skipped : rows = upto \ skipped
    BY DEF Fetched
  <1>2. upto \subseteq [q EXCEPT !.limit = @ + q.offset].rows
    BY <1>1, ResultsAreRows
  <1>3. [q EXCEPT !.limit = @ + q.offset].rows = q.rows
    OBVIOUS
  <1>4. QED BY <1>1, <1>2, <1>3

\* A statement that looks up one row.
LEMMA OneHasItsRows ==
  ASSUME NEW rows
  PROVE  One(rows).rows = rows /\ "rows" \in DOMAIN One(rows) /\ "limit" \in DOMAIN One(rows)
  BY DEF One, From, Some, Every

\* The first statement of a route that is about a row looks that row up.
LEMMA FirstStatement ==
  ASSUME NEW o, NEW s, o.name \in DOMAIN Target
  PROVE  ConsoleReads(o, <<>>, s) = <<One(Targets(o, s))>>
  BY DEF ConsoleReads

\* What it has read of its target exists, and rows of the tables do not go away.
LEMMA TargetTables ==
  ASSUME NEW o, o.name \in DOMAIN Target
  PROVE  Target[o.name][1] \in Tables \cup ConsoleTables
  BY DEF Target, Tables, ConsoleTables

(***************************************************************************)
(* The console: the invariant of its posts.                                *)
(***************************************************************************)

StoreOK == Database(store) /\ ConsoleTables \subseteq DOMAIN store

Steps == {"idle", "read", "enqueue", "commit", "inspect", "respond", "done"}

ControlOK ==
  /\ changes \in 0..MaxChanges
  /\ pc \in [Requests -> Steps]
  /\ op = [r \in Requests |-> op[r]] /\ got = [r \in Requests |-> got[r]]
  /\ answer \in [Requests -> {None, "200", "403", "404", "500"}]


RequestOK(r) ==
  /\ op[r] \in Operations[r] \cup {None}
  /\ op[r] = None <=> pc[r] = "idle"
  /\ answer[r] # None <=> pc[r] = "done"
  /\ \E S : got[r] \in Seq(S)
  /\ pc[r] = "inspect" => op[r].name = "queue_status"
  /\ pc[r] = "idle" => got[r] = <<>>
  /\ op[r] # None /\ op[r].name \in DOMAIN Target /\ got[r] # <<>> => got[r][1] \subseteq Targets(op[r], store)
  /\ pc[r] = "enqueue" => op[r].name \in DOMAIN TaskKind /\ Targets(op[r], store) # {}
  /\ pc[r] = "commit" => op[r].name \in Posts

Mine(r) == {a \in store.audit_logs : a.id = r}

Audited(r) == op[r] # None /\ op[r].name \in Posts /\ (pc[r] = "respond" \/ answer[r] = "200")

AuditOK(r) == (Audited(r) => Mine(r) = {AuditRow(r)}) /\ (~Audited(r) => Mine(r) = {})

TaskOK(t) ==
  /\ t = [id |-> t.id, kind |-> t.kind, about |-> t.about, at |-> t.at, lost |-> t.lost]
  /\ t.id \in Requests /\ t.kind \in Range(TaskKind) /\ t.lost \in 0..MaxLosses
  /\ t.at \in {"broker", "reserved", "active", "done"}
  /\ pc[t.id] \in {"commit", "respond", "done"} /\ answer[t.id] \in {None, "200", "500"}
  /\ op[t.id] # None /\ op[t.id].name \in DOMAIN TaskKind /\ Targets(op[t.id], store) # {}

QueueOK ==
  /\ IsFiniteSet(queue) /\ Cardinality(Held) <= Slots
  /\ \A t \in queue : TaskOK(t)
  /\ \A t, u \in queue : t.id = u.id => t = u

ConsoleInv ==
  StoreOK /\ ControlOK /\ QueueOK /\ \A r \in Requests : RequestOK(r) /\ AuditOK(r)

Kept(q) == pc'[q] = pc[q] /\ op'[q] = op[q] /\ got'[q] = got[q] /\ answer'[q] = answer[q]

\* The tables lose nothing.
Grown == \A o : o.name \in DOMAIN Target => Targets(o, store) \subseteq Targets(o, store')

LEMMA UnchangedStoreGrows ==
  ASSUME store' = store
  PROVE  Grown
  BY DEF Grown

\* A row that is inserted.
LEMMA InsertionGrows ==
  ASSUME StoreOK, NEW table, NEW x, IsRow(x), store' = [store EXCEPT ![table] = @ \cup {x}],
         table \in DOMAIN store => \A y \in store[table] : y.id # x.id
  PROVE  /\ StoreOK' /\ Grown
         /\ DOMAIN store' = DOMAIN store
         /\ \A t \in DOMAIN store : t # table => store'[t] = store[t]
         /\ table \in DOMAIN store => store'[table] = store[table] \cup {x}
  <1>1. /\ DOMAIN store' = DOMAIN store
        /\ \A t \in DOMAIN store : t # table => store'[t] = store[t]
        /\ table \in DOMAIN store => store'[table] = store[table] \cup {x}
        /\ store' = [t \in DOMAIN store' |-> store'[t]]
    BY DEF StoreOK, Database
  <1>2. \A t \in DOMAIN store : store[t] \subseteq store'[t]
    BY <1>1
  <1>3. ASSUME NEW t \in DOMAIN store
        PROVE  (\A y \in store'[t] : IsRow(y)) /\ \A y, z \in store'[t] : y.id = z.id => y = z
    BY <1>1 DEF StoreOK, Database
  <1>4. Database(store')
    BY <1>1, <1>3 DEF StoreOK, Database
  <1>5. StoreOK'
    BY <1>1, <1>4 DEF StoreOK
  <1>6. ASSUME NEW o, o.name \in DOMAIN Target
        PROVE  Targets(o, store) \subseteq Targets(o, store')
    <2>1. Target[o.name][1] \in DOMAIN store
      BY <1>6, TargetTables DEF StoreOK, Database
    <2>2. QED BY <1>2, <2>1 DEF Targets
  <1>7. QED BY <1>1, <1>5, <1>6 DEF Grown

\* A request that takes no step keeps its part of the invariant, and its task does.
LEMMA KeptRequest ==
  ASSUME NEW q \in Requests, RequestOK(q), Kept(q), Grown
  PROVE  RequestOK(q)'
  <1>1. op[q].name \in DOMAIN Target => Targets(op[q], store) \subseteq Targets(op[q], store')
    BY DEF Grown
  <1>2. op[q].name \in DOMAIN TaskKind => op[q].name \in DOMAIN Target
    BY DEF TaskKind, Target
  <1>3. QED BY <1>1, <1>2 DEF RequestOK, Kept

LEMMA KeptAudit ==
  ASSUME NEW q \in Requests, AuditOK(q), pc'[q] = pc[q], op'[q] = op[q], answer'[q] = answer[q], Mine(q)' = Mine(q)
  PROVE  AuditOK(q)'
  BY DEF AuditOK, Audited, AuditRow

LEMMA KeptTask ==
  ASSUME NEW t, TaskOK(t), op'[t.id] = op[t.id], Grown,
         pc'[t.id] \in {"commit", "respond", "done"}, answer'[t.id] \in {None, "200", "500"}
  PROVE  TaskOK(t)'
  <1>1. op[t.id].name \in DOMAIN TaskKind => op[t.id].name \in DOMAIN Target
    BY DEF TaskKind, Target
  <1>2. QED BY <1>1 DEF TaskOK, Grown

\* A step of one request that leaves the tables and the queue alone.
LEMMA LocalStep ==
  ASSUME ConsoleInv, NEW r \in Requests, store' = store, queue' = queue, ControlOK',
         \A q \in Requests : q # r => Kept(q),
         RequestOK(r)', AuditOK(r)',
         pc[r] \in {"commit", "respond", "done"} =>
           pc'[r] \in {"commit", "respond", "done"} /\ op'[r] = op[r] /\ answer'[r] \in {None, "200", "500"}
  PROVE  ConsoleInv'
  <1>1. Grown
    BY UnchangedStoreGrows
  <1>2. ASSUME NEW q \in Requests
        PROVE  RequestOK(q)' /\ AuditOK(q)'
    <2>1. CASE q = r
      BY <2>1
    <2>2. CASE q # r
      <3>1. Kept(q) /\ RequestOK(q) /\ AuditOK(q)
        BY <2>2 DEF ConsoleInv
      <3>2. Mine(q)' = Mine(q)
        BY DEF Mine
      <3>3. QED BY <1>1, <3>1, <3>2, KeptRequest, KeptAudit DEF Kept
    <2>3. QED BY <2>1, <2>2
  <1>3. ASSUME NEW t \in queue
        PROVE  TaskOK(t)'
    <2>1. TaskOK(t) /\ t.id \in Requests
      BY DEF ConsoleInv, QueueOK, TaskOK
    <2>2. /\ op'[t.id] = op[t.id] /\ pc'[t.id] \in {"commit", "respond", "done"}
          /\ answer'[t.id] \in {None, "200", "500"}
      <3>1. pc[t.id] \in {"commit", "respond", "done"} /\ answer[t.id] \in {None, "200", "500"}
        BY <2>1 DEF TaskOK
      <3>2. QED BY <2>1, <3>1 DEF Kept
    <2>3. QED BY <1>1, <2>1, <2>2, KeptTask
  <1>4. QueueOK'
    BY <1>3 DEF ConsoleInv, QueueOK, Held
  <1>5. StoreOK'
    BY DEF ConsoleInv, StoreOK
  <1>6. QED BY <1>2, <1>4, <1>5 DEF ConsoleInv

\* The parts of the invariant, for a request in its state.
LEMMA PartsOf ==
  ASSUME ConsoleInv, NEW r \in Requests
  PROVE  /\ ControlOK /\ RequestOK(r) /\ AuditOK(r) /\ StoreOK /\ QueueOK
         /\ pc[r] \in Steps /\ answer[r] \in {None, "200", "403", "404", "500"}
         /\ None \notin {"200", "400", "403", "404", "500"} /\ None \notin Operations[r]
  BY DatabaseAssumption DEF ConsoleInv, ControlOK

\* Who is not let in is refused, and leaves nothing.
LEMMA ArriveKeeps ==
  ASSUME ConsoleInv, NEW r \in Requests, ArriveAtConsole(r)
  PROVE  ConsoleInv'
  <1>0. /\ ControlOK /\ RequestOK(r) /\ AuditOK(r)
        /\ None \notin {"200", "400", "403", "404", "500"} /\ None \notin Operations[r]
    BY PartsOf
  <1>1. PICK o \in Operations[r] :
          /\ op' = [op EXCEPT ![r] = o]
          /\ IF o.role = "admin"
             THEN pc' = [pc EXCEPT ![r] = IF o.name = "queue_status" THEN "inspect" ELSE "read"] /\ UNCHANGED answer
             ELSE Answer(r, "403")
    BY DEF ArriveAtConsole
  <1>2. /\ pc[r] = "idle" /\ answer[r] = None /\ got[r] = <<>> /\ op[r] = None
        /\ store' = store /\ queue' = queue /\ changes' = changes /\ got' = got
    BY <1>0 DEF ArriveAtConsole, RequestOK
  <1>3. /\ op' = [op EXCEPT ![r] = o] /\ op'[r] = o
        /\ \/ pc' = [pc EXCEPT ![r] = "inspect"] /\ answer' = answer /\ o.name = "queue_status"
           \/ pc' = [pc EXCEPT ![r] = "read"] /\ answer' = answer
           \/ pc' = [pc EXCEPT ![r] = "done"] /\ answer' = [answer EXCEPT ![r] = "403"]
    BY <1>0, <1>1 DEF Answer, ControlOK
  <1>4. ControlOK'
    BY <1>0, <1>2, <1>3 DEF ControlOK, Steps
  <1>5. \A q \in Requests : q # r => Kept(q)
    BY <1>0, <1>2, <1>3 DEF ControlOK, Kept
  <1>6. RequestOK(r)'
    BY <1>0, <1>2, <1>3 DEF ControlOK, RequestOK
  <1>7. AuditOK(r)'
    <2>1. ~Audited(r) /\ ~Audited(r)'
      BY <1>0, <1>2, <1>3 DEF Audited, ControlOK
    <2>2. Mine(r)' = Mine(r)
      BY <1>2 DEF Mine
    <2>3. QED BY <1>0, <2>1, <2>2 DEF AuditOK
  <1>8. QED BY <1>2, <1>4, <1>5, <1>6, <1>7, LocalStep

\* What it reads first are rows of its target.
LEMMA ReadKeeps ==
  ASSUME ConsoleInv, NEW r \in Requests, ReadNext(r)
  PROVE  ConsoleInv'
  <1>0. ControlOK /\ RequestOK(r) /\ AuditOK(r)
    BY PartsOf
  <1>1. PICK n, rows :
          /\ n = Len(got[r]) + 1 /\ n <= Len(ConsoleReads(op[r], got[r], store))
          /\ rows \in Fetched(ConsoleReads(op[r], got[r], store)[n])
          /\ got' = [got EXCEPT ![r] = Append(@, rows)]
    BY DEF ReadNext
  <1>2. pc[r] = "read" /\ UNCHANGED <<store, pc, op, answer, queue, changes>>
    BY DEF ReadNext
  <1>3. PICK S : got[r] \in Seq(S)
    BY <1>0 DEF RequestOK
  <1>4. /\ got'[r] = Append(got[r], rows) /\ got' = [q \in Requests |-> got'[q]]
        /\ \A q \in Requests : q # r => got'[q] = got[q]
    BY <1>0, <1>1 DEF ControlOK
  <1>5. got'[r] \in Seq(S \cup {rows}) /\ got'[r][1] = IF got[r] = <<>> THEN rows ELSE got[r][1]
    BY <1>3, <1>4
  <1>6. ASSUME op[r].name \in DOMAIN Target
        PROVE  got'[r][1] \subseteq Targets(op[r], store)
    <2>1. CASE got[r] = <<>>
      <3>1. n = 1 /\ ConsoleReads(op[r], got[r], store) = <<One(Targets(op[r], store))>>
        BY <1>1, <1>6, <2>1, FirstStatement
      <3>2. rows \in Fetched(One(Targets(op[r], store)))
        BY <1>1, <3>1
      <3>3. rows \subseteq Targets(op[r], store)
        BY <3>2, OneHasItsRows, FetchedAreRows
      <3>4. QED BY <1>5, <2>1, <3>3
    <2>2. CASE got[r] # <<>>
      BY <1>0, <1>2, <1>5, <1>6, <2>2 DEF RequestOK
    <2>3. QED BY <2>1, <2>2
  <1>7. RequestOK(r)'
    BY <1>0, <1>2, <1>5, <1>6 DEF RequestOK
  <1>8. AuditOK(r)'
    BY <1>0, <1>2, KeptAudit DEF Mine
  <1>9. ControlOK'
    BY <1>0, <1>2, <1>4 DEF ControlOK
  <1>10. QED BY <1>2, <1>4, <1>7, <1>8, <1>9, LocalStep DEF Kept

\* Only what has found its target enqueues a task.
LEMMA HaveReadKeeps ==
  ASSUME ConsoleInv, NEW r \in Requests, HaveRead(r)
  PROVE  ConsoleInv'
  <1>0. /\ ControlOK /\ RequestOK(r) /\ AuditOK(r)
        /\ None \notin {"200", "400", "403", "404", "500"}
    BY PartsOf
  <1>1. /\ pc[r] = "read" /\ op[r] # None /\ answer[r] = None /\ store' = store /\ queue' = queue /\ changes' = changes
        /\ op' = op /\ got' = got /\ Len(got[r]) = Len(ConsoleReads(op[r], got[r], store))
    BY <1>0 DEF HaveRead, RequestOK
  <1>2. \/ pc' = [pc EXCEPT ![r] = "done"] /\ answer' = [answer EXCEPT ![r] = "404"]
        \/ /\ pc' = [pc EXCEPT ![r] = "enqueue"] /\ answer' = answer
           /\ op[r].name \in DOMAIN TaskKind /\ ~Missing(op[r], got[r])
        \/ pc' = [pc EXCEPT ![r] = "commit"] /\ answer' = answer /\ op[r].name \in Posts
        \/ pc' = [pc EXCEPT ![r] = "respond"] /\ answer' = answer /\ op[r].name \notin Posts
    BY DEF HaveRead, Answer, Posts
  <1>3. ASSUME op[r].name \in DOMAIN TaskKind, ~Missing(op[r], got[r])
        PROVE  Targets(op[r], store) # {}
    <2>1. op[r].name \in DOMAIN Target
      BY <1>3 DEF TaskKind, Target
    <2>2. got[r] # <<>>
      <3>1. SUFFICES ASSUME got[r] = <<>> PROVE FALSE
        OBVIOUS
      <3>2. Len(<<>>) = Len(<<One(Targets(op[r], store))>>)
        BY <1>1, <2>1, <3>1, FirstStatement
      <3>3. QED BY <3>2
    <2>3. got[r][1] # {}
      BY <1>3, <2>1, <2>2 DEF Missing
    <2>4. got[r][1] \subseteq Targets(op[r], store)
      BY <1>0, <1>1, <2>1, <2>2 DEF RequestOK
    <2>5. QED BY <2>3, <2>4
  <1>4. ControlOK'
    BY <1>0, <1>1, <1>2 DEF ControlOK, Steps
  <1>5. RequestOK(r)'
    BY <1>0, <1>1, <1>2, <1>3 DEF ControlOK, RequestOK
  <1>6. AuditOK(r)'
    <2>1. ~Audited(r) /\ ~Audited(r)'
      BY <1>0, <1>1, <1>2 DEF Audited, ControlOK
    <2>2. Mine(r)' = Mine(r)
      BY <1>1 DEF Mine
    <2>3. QED BY <1>0, <2>1, <2>2 DEF AuditOK
  <1>7. \A q \in Requests : q # r => Kept(q)
    BY <1>0, <1>1, <1>2 DEF ControlOK, Kept
  <1>8. QED BY <1>1, <1>4, <1>5, <1>6, <1>7, LocalStep

\* The workers are asked by requests that are no posts.
LEMMA InspectKeeps ==
  ASSUME ConsoleInv, NEW r \in Requests, Inspect(r)
  PROVE  ConsoleInv'
  <1>0. ControlOK /\ RequestOK(r) /\ AuditOK(r)
    BY PartsOf
  <1>1. /\ pc[r] = "inspect" /\ op[r] # None /\ answer[r] = None /\ op[r].name = "queue_status"
        /\ UNCHANGED <<store, op, answer, queue, changes>>
    BY <1>0 DEF Inspect, RequestOK
  <1>2. PICK S : got[r] \in Seq(S)
    BY <1>0 DEF RequestOK
  <1>3. \/ \E heard : got' = [got EXCEPT ![r] = Append(@, heard)] /\ pc' = pc
        \/ got' = [got EXCEPT ![r] = <<{}, {}>>] /\ pc' = pc
        \/ got' = got /\ pc' = [pc EXCEPT ![r] = "respond"]
    BY DEF Inspect
  <1>4. /\ pc'[r] \in {"inspect", "respond"} /\ \A q \in Requests : q # r => pc'[q] = pc[q] /\ got'[q] = got[q]
        /\ pc' \in [Requests -> Steps] /\ got' = [q \in Requests |-> got'[q]]
    BY <1>0, <1>1, <1>3 DEF ControlOK, Steps
  <1>5. \E T : got'[r] \in Seq(T)
    <2>1. CASE \E heard : got' = [got EXCEPT ![r] = Append(@, heard)]
      <3>1. PICK heard : got' = [got EXCEPT ![r] = Append(@, heard)]
        BY <2>1
      <3>2. got'[r] = Append(got[r], heard)
        BY <1>0, <3>1 DEF ControlOK
      <3>3. got'[r] \in Seq(S \cup {heard})
        BY <1>2, <3>2
      <3>4. QED BY <3>3
    <2>2. CASE got' = [got EXCEPT ![r] = <<{}, {}>>]
      <3>1. got'[r] \in Seq({{}})
        BY <1>0, <2>2 DEF ControlOK
      <3>2. QED BY <3>1
    <2>3. CASE got' = got
      BY <1>2, <2>3
    <2>4. QED BY <1>3, <2>1, <2>2, <2>3
  <1>6. op[r].name \notin DOMAIN Target /\ op[r].name \notin Posts
    BY <1>1 DEF Target, Posts, TaskKind
  <1>7. RequestOK(r)'
    BY <1>0, <1>1, <1>4, <1>5, <1>6 DEF RequestOK
  <1>8. AuditOK(r)'
    BY <1>0, <1>1, <1>6 DEF AuditOK, Audited, Mine
  <1>9. ControlOK'
    BY <1>0, <1>1, <1>4 DEF ControlOK
  <1>10. QED BY <1>1, <1>4, <1>7, <1>8, <1>9, LocalStep DEF Kept

\* A post that responds has committed, and succeeds.
LEMMA RespondKeeps ==
  ASSUME ConsoleInv, NEW r \in Requests, RespondFromConsole(r)
  PROVE  ConsoleInv'
  <1>0. /\ ControlOK /\ RequestOK(r) /\ AuditOK(r)
        /\ None \notin {"200", "400", "403", "404", "500"}
    BY PartsOf
  <1>1. PICK status \in {"200", "500"} : Answer(r, status) /\ (op[r].name \in Posts => status = "200")
    BY DEF RespondFromConsole, Posts, TaskKind
  <1>2. /\ pc[r] = "respond" /\ op[r] # None /\ answer[r] = None /\ UNCHANGED <<store, op, got, queue, changes>>
        /\ pc' = [pc EXCEPT ![r] = "done"] /\ answer' = [answer EXCEPT ![r] = status]
    BY <1>0, <1>1 DEF RespondFromConsole, RequestOK, Answer
  <1>3. ControlOK'
    BY <1>0, <1>2 DEF ControlOK, Steps
  <1>4. RequestOK(r)'
    BY <1>0, <1>2 DEF ControlOK, RequestOK
  <1>5. AuditOK(r)'
    <2>1. Audited(r) <=> Audited(r)'
      BY <1>0, <1>1, <1>2 DEF Audited, ControlOK
    <2>2. Mine(r)' = Mine(r) /\ AuditRow(r)' = AuditRow(r)
      BY <1>2 DEF Mine, AuditRow
    <2>3. QED BY <1>0, <2>1, <2>2 DEF AuditOK
  <1>6. \A q \in Requests : q # r => Kept(q)
    BY <1>0, <1>2 DEF ControlOK, Kept
  <1>7. pc'[r] = "done" /\ op'[r] = op[r] /\ answer'[r] = status
    BY <1>0, <1>2 DEF ControlOK
  <1>8. QED BY <1>2, <1>3, <1>4, <1>5, <1>6, <1>7, LocalStep

\* One that fails has committed nothing; its task may be in the queue.
LEMMA FailKeeps ==
  ASSUME ConsoleInv, NEW r \in Requests, Fail(r)
  PROVE  ConsoleInv'
  <1>0. /\ ControlOK /\ RequestOK(r) /\ AuditOK(r)
        /\ None \notin {"200", "400", "403", "404", "500"}
    BY PartsOf
  <1>1. /\ pc[r] \in {"read", "enqueue", "commit"} /\ op[r] # None /\ answer[r] = None
        /\ UNCHANGED <<store, op, got, queue, changes>>
        /\ pc' = [pc EXCEPT ![r] = "done"] /\ answer' = [answer EXCEPT ![r] = "500"]
    BY <1>0 DEF Fail, RequestOK, Answer
  <1>2. ControlOK'
    BY <1>0, <1>1 DEF ControlOK, Steps
  <1>3. RequestOK(r)'
    BY <1>0, <1>1 DEF ControlOK, RequestOK
  <1>4. AuditOK(r)'
    <2>1. ~Audited(r) /\ ~Audited(r)'
      BY <1>0, <1>1 DEF Audited, ControlOK
    <2>2. Mine(r)' = Mine(r)
      BY <1>1 DEF Mine
    <2>3. QED BY <1>0, <2>1, <2>2 DEF AuditOK
  <1>5. \A q \in Requests : q # r => Kept(q)
    BY <1>0, <1>1 DEF ControlOK, Kept
  <1>6. pc'[r] = "done" /\ op'[r] = op[r] /\ answer'[r] = "500"
    BY <1>0, <1>1 DEF ControlOK
  <1>7. QED BY <1>1, <1>2, <1>3, <1>4, <1>5, <1>6, LocalStep

\* A step that leaves the tables alone and the queue in order, with the tasks of those that
\* take no step.
LEMMA QueueStep ==
  ASSUME ConsoleInv, NEW r \in Requests, store' = store, ControlOK', QueueOK',
         \A q \in Requests : q # r => Kept(q),
         RequestOK(r)', AuditOK(r)'
  PROVE  ConsoleInv'
  <1>1. Grown
    BY UnchangedStoreGrows
  <1>2. ASSUME NEW q \in Requests
        PROVE  RequestOK(q)' /\ AuditOK(q)'
    <2>1. CASE q = r
      BY <2>1
    <2>2. CASE q # r
      <3>1. Kept(q) /\ RequestOK(q) /\ AuditOK(q)
        BY <2>2 DEF ConsoleInv
      <3>2. Mine(q)' = Mine(q)
        BY DEF Mine
      <3>3. QED BY <1>1, <3>1, <3>2, KeptRequest, KeptAudit DEF Kept
    <2>3. QED BY <2>1, <2>2
  <1>3. StoreOK'
    BY DEF ConsoleInv, StoreOK
  <1>4. QED BY <1>2, <1>3 DEF ConsoleInv

\* The post's task is the only one of its request, and waits at the broker.
LEMMA EnqueueKeeps ==
  ASSUME ConsoleInv, NEW r \in Requests, Enqueue(r)
  PROVE  ConsoleInv'
  <1>0. ControlOK /\ RequestOK(r) /\ AuditOK(r) /\ QueueOK
    BY PartsOf
  <1>1. /\ pc[r] = "enqueue" /\ op[r] # None /\ answer[r] = None
        /\ op[r].name \in DOMAIN TaskKind /\ Targets(op[r], store) # {}
        /\ UNCHANGED <<store, op, got, answer, changes>> /\ pc' = [pc EXCEPT ![r] = "commit"]
    BY <1>0 DEF Enqueue, RequestOK
  <1>2. PICK kind, about : kind = TaskKind[op[r].name] /\ about = op[r].id
    OBVIOUS
  <1> DEFINE new == [id |-> r, kind |-> kind, about |-> about, at |-> "broker", lost |-> 0]
  <1>3. queue' = queue \cup {new} \/ queue' = queue
    BY <1>2 DEF Enqueue
  <1>4. ControlOK'
    BY <1>0, <1>1 DEF ControlOK, Steps
  <1>5. pc'[r] = "commit" /\ \A q \in Requests : q # r => Kept(q)
    BY <1>0, <1>1 DEF ControlOK, Kept
  <1>6. RequestOK(r)'
    BY <1>0, <1>1, <1>5 DEF RequestOK, Posts
  <1>7. AuditOK(r)'
    <2>1. ~Audited(r) /\ ~Audited(r)'
      BY <1>0, <1>1, <1>5, DatabaseAssumption DEF Audited
    <2>2. Mine(r)' = Mine(r)
      BY <1>1 DEF Mine
    <2>3. QED BY <1>0, <2>1, <2>2 DEF AuditOK
  <1>8. QueueOK'
    <2>1. \A t \in queue : TaskOK(t) /\ t.id \in Requests /\ t.id # r
      BY <1>0, <1>1 DEF QueueOK, TaskOK
    <2>2. ASSUME NEW t \in queue
          PROVE  TaskOK(t)'
      <3>1. op'[t.id] = op[t.id] /\ pc'[t.id] = pc[t.id] /\ answer'[t.id] = answer[t.id]
        BY <1>5, <2>1 DEF Kept
      <3>2. pc[t.id] \in {"commit", "respond", "done"} /\ answer[t.id] \in {None, "200", "500"}
        BY <2>1 DEF TaskOK
      <3>3. Grown
        BY <1>1, UnchangedStoreGrows
      <3>4. QED BY <2>1, <3>1, <3>2, <3>3, KeptTask
    <2>3. TaskOK(new)'
      <3>1. kind \in Range(TaskKind) /\ 0 \in 0..MaxLosses
        BY <1>1, <1>2, ConsoleAssumption DEF Range
      <3>2. QED BY <1>1, <1>5, <3>1 DEF TaskOK
    <2>4. \A t, u \in queue \cup {new} : t.id = u.id => t = u
      BY <1>0, <2>1 DEF QueueOK
    <2>5. {t \in queue \cup {new} : t.at \in {"reserved", "active"}} = Held
      BY DEF Held
    <2>6. IsFiniteSet(queue \cup {new})
      BY <1>0, FS_AddElement DEF QueueOK
    <2>7. CASE queue' = queue
      BY <1>0, <2>2, <2>7 DEF QueueOK, Held
    <2>8. CASE queue' = queue \cup {new}
      <3>1. Held' = Held
        BY <2>5, <2>8 DEF Held
      <3>2. QED BY <1>0, <2>2, <2>3, <2>4, <2>6, <2>8, <3>1 DEF QueueOK
    <2>9. QED BY <1>3, <2>7, <2>8
  <1>9. QED BY <1>1, <1>4, <1>5, <1>6, <1>7, <1>8, QueueStep

\* The row of the audit log is the only one of its post.
LEMMA CommitAuditKeeps ==
  ASSUME ConsoleInv, NEW r \in Requests, CommitAudit(r)
  PROVE  ConsoleInv'
  <1>0. ControlOK /\ RequestOK(r) /\ AuditOK(r) /\ QueueOK /\ StoreOK
    BY PartsOf
  <1>1. /\ pc[r] = "commit" /\ op[r] # None /\ answer[r] = None /\ op[r].name \in Posts
        /\ UNCHANGED <<op, got, answer, changes, queue>> /\ pc' = [pc EXCEPT ![r] = "respond"]
    BY <1>0 DEF CommitAudit, RequestOK
  <1>2. PICK row : row = AuditRow(r) /\ IsRow(row) /\ row.id = r
    <2>1. PICK event, about : AuditRow(r) = [id |-> r, event |-> event, about |-> about, at |-> Now]
      BY DEF AuditRow
    <2>2. IsRow([id |-> r, event |-> event, about |-> about, at |-> Now])
      BY DEF IsRow
    <2>3. QED BY <2>1, <2>2
  <1>3. Mine(r) = {}
    BY <1>0, <1>1, DatabaseAssumption DEF AuditOK, Audited
  <1>4. store' = [store EXCEPT !["audit_logs"] = @ \cup {row}] /\ "audit_logs" \in DOMAIN store
    BY <1>0, <1>2 DEF CommitAudit, StoreOK, ConsoleTables
  <1>5. \A y \in store["audit_logs"] : y.id # row.id
    BY <1>2, <1>3 DEF Mine
  <1>6. StoreOK' /\ Grown /\ store'["audit_logs"] = store["audit_logs"] \cup {row}
    BY <1>0, <1>2, <1>4, <1>5, InsertionGrows
  <1>7. ControlOK'
    BY <1>0, <1>1 DEF ControlOK, Steps
  <1>8. pc'[r] = "respond" /\ \A q \in Requests : q # r => Kept(q)
    BY <1>0, <1>1 DEF ControlOK, Kept
  <1>9. \A q \in Requests : Mine(q)' = IF q = r THEN {row} ELSE Mine(q)
    BY <1>2, <1>3, <1>6 DEF Mine
  <1>10. RequestOK(r)'
    <2>1. op[r].name \in DOMAIN Target => Targets(op[r], store) \subseteq Targets(op[r], store')
      BY <1>6 DEF Grown
    <2>2. QED BY <1>0, <1>1, <1>8, <2>1 DEF RequestOK
  <1>11. AuditOK(r)'
    <2>1. AuditRow(r)' = row /\ Mine(r)' = {row} /\ Audited(r)'
      BY <1>1, <1>2, <1>8, <1>9 DEF AuditRow, Audited
    <2>2. QED BY <2>1 DEF AuditOK
  <1>12. ASSUME NEW q \in Requests
         PROVE  RequestOK(q)' /\ AuditOK(q)'
    <2>1. CASE q # r
      <3>1. Kept(q) /\ RequestOK(q) /\ AuditOK(q) /\ Mine(q)' = Mine(q)
        BY <1>8, <1>9, <2>1 DEF ConsoleInv
      <3>2. QED BY <1>6, <3>1, KeptRequest, KeptAudit DEF Kept
    <2>2. QED BY <1>10, <1>11, <2>1
  <1>13. QueueOK'
    <2>1. ASSUME NEW t \in queue
          PROVE  TaskOK(t)'
      <3>1. TaskOK(t) /\ t.id \in Requests
        BY <1>0 DEF QueueOK, TaskOK
      <3>2. /\ op'[t.id] = op[t.id] /\ pc'[t.id] \in {"commit", "respond", "done"}
            /\ answer'[t.id] \in {None, "200", "500"}
        BY <1>1, <1>8, <3>1 DEF TaskOK, Kept
      <3>3. QED BY <1>6, <3>1, <3>2, KeptTask
    <2>2. QED BY <1>0, <1>1, <2>1 DEF QueueOK, Held
  <1>14. QED BY <1>6, <1>7, <1>12, <1>13 DEF ConsoleInv

\* The task t goes to another place, by a worker or by the broker.
LEMMA MoveKeeps ==
  ASSUME ConsoleInv, NEW t \in queue, NEW to \in {"broker", "reserved", "active", "done"}, NEW lost \in 0..MaxLosses,
         NEW new, new = [t EXCEPT !.at = to, !.lost = lost],
         queue' = (queue \ {t}) \cup {new},
         to \in {"reserved", "active"} => t \in Held \/ Cardinality(Held) < Slots,
         UNCHANGED <<store, changes, pc, op, got, answer>>
  PROVE  ConsoleInv'
  <1>0. StoreOK /\ ControlOK /\ QueueOK /\ TaskOK(t) /\ t.id \in Requests
    BY DEF ConsoleInv, QueueOK, TaskOK
  <1>1. /\ new = [id |-> t.id, kind |-> t.kind, about |-> t.about, at |-> to, lost |-> lost]
        /\ new.id = t.id /\ new.kind = t.kind /\ new.at = to /\ new.lost = lost /\ new.about = t.about
    <2>1. t = [id |-> t.id, kind |-> t.kind, about |-> t.about, at |-> t.at, lost |-> t.lost]
      BY <1>0 DEF TaskOK
    <2>2. PICK i, k, a, p, l : t = [id |-> i, kind |-> k, about |-> a, at |-> p, lost |-> l]
      BY <2>1
    <2>3. new = [id |-> i, kind |-> k, about |-> a, at |-> to, lost |-> lost]
      BY <2>2
    <2>4. QED BY <2>2, <2>3
  <1>2. TaskOK(new)'
    BY <1>0, <1>1 DEF TaskOK
  <1>3. \A u \in queue : TaskOK(u)'
    BY <1>0 DEF QueueOK, TaskOK
  <1>4. \A u, v \in queue' : u.id = v.id => u = v
    <2>1. (\A u, v \in queue : u.id = v.id => u = v) /\ new.id = t.id /\ t \in queue /\ queue' = (queue \ {t}) \cup {new}
      BY <1>0, <1>1 DEF QueueOK
    <2>2. QED BY ONLY <2>1
  <1>5. IsFiniteSet(queue')
    BY <1>0, FS_RemoveElement, FS_AddElement DEF QueueOK
  <1>6. IsFiniteSet(Held) /\ Cardinality(Held) \in Nat /\ Held \subseteq queue
    BY <1>0, FS_Subset, FS_CardinalityType DEF QueueOK, Held
  <1>7. Cardinality(Held') <= Slots
    <2>1. CASE to \in {"reserved", "active"}
      <3>1. Held' = (Held \ {t}) \cup {new}
        BY <1>1, <2>1 DEF Held
      <3>2. IsFiniteSet(Held \ {t}) /\ Cardinality(Held \ {t}) = IF t \in Held THEN Cardinality(Held) - 1 ELSE Cardinality(Held)
        BY <1>6, FS_RemoveElement
      <3>3. Cardinality(Held') <= Cardinality(Held \ {t}) + 1
        <4>1. Cardinality((Held \ {t}) \cup {new}) = IF new \in Held \ {t} THEN Cardinality(Held \ {t}) ELSE Cardinality(Held \ {t}) + 1
          BY <3>2, FS_AddElement
        <4>2. QED BY <1>6, <3>1, <3>2, <4>1
      <3>4. Cardinality(Held) <= Slots /\ Slots \in Nat /\ (t \in Held \/ Cardinality(Held) < Slots)
        BY <1>0, <2>1, ConsoleAssumption DEF QueueOK
      <3>5. Cardinality(Held') \in Nat
        BY <3>1, <3>2, FS_AddElement, FS_CardinalityType
      <3>6. QED BY <1>6, <3>2, <3>3, <3>4, <3>5
    <2>2. CASE to \notin {"reserved", "active"}
      <3>1. Held' \subseteq Held
        BY <1>1, <2>2 DEF Held
      <3>2. Cardinality(Held') \in Nat /\ Cardinality(Held') <= Cardinality(Held)
        BY <1>6, <3>1, FS_Subset, FS_CardinalityType
      <3>3. QED BY <1>0, <1>6, <3>2, ConsoleAssumption DEF QueueOK
    <2>3. QED BY <2>1, <2>2
  <1>8. QueueOK'
    BY <1>2, <1>3, <1>4, <1>5, <1>7 DEF QueueOK
  <1>9. \A q \in Requests : RequestOK(q)' /\ AuditOK(q)'
    BY DEF ConsoleInv, RequestOK, AuditOK, Audited, Mine, AuditRow
  <1>10. StoreOK' /\ ControlOK'
    BY <1>0 DEF StoreOK, ControlOK
  <1>11. QED BY <1>8, <1>9, <1>10 DEF ConsoleInv

\* A worker takes no more than its slots hold, runs what it took, and acknowledges it or dies.
LEMMA WorkersKeep ==
  ASSUME ConsoleInv, NEW r \in Requests, Reserve(r) \/ Start(r) \/ Finish(r) \/ Lose(r)
  PROVE  ConsoleInv'
  <1>0. \A t \in Tasks(r) : t \in queue /\ TaskOK(t)
    BY DEF Tasks, ConsoleInv, QueueOK
  <1>1. ASSUME NEW t \in queue, TaskOK(t), NEW to
        PROVE  [t EXCEPT !.at = to] = [t EXCEPT !.at = to, !.lost = t.lost] /\ t.lost \in 0..MaxLosses
    <2>1. t = [id |-> t.id, kind |-> t.kind, about |-> t.about, at |-> t.at, lost |-> t.lost] /\ t.lost \in 0..MaxLosses
      BY <1>1 DEF TaskOK
    <2>2. PICK i, k, a, p, l : t = [id |-> i, kind |-> k, about |-> a, at |-> p, lost |-> l]
      BY <2>1
    <2>3. QED BY <2>1, <2>2
  <1>2. CASE Reserve(r)
    <2>1. PICK t \in Tasks(r) : Cardinality(Held) < Slots /\ Move(t, "reserved")
      BY <1>2 DEF Reserve
    <2>2. QED BY <1>0, <1>1, <2>1, MoveKeeps DEF Move
  <1>3. CASE Start(r)
    <2>1. PICK t \in Tasks(r) : t.at = "reserved" /\ Move(t, "active")
      BY <1>3 DEF Start
    <2>2. t \in Held
      BY <1>0, <2>1 DEF Held
    <2>3. QED BY <1>0, <1>1, <2>1, <2>2, MoveKeeps DEF Move
  <1>4. CASE Finish(r)
    <2>1. PICK t \in Tasks(r) : Move(t, "done")
      BY <1>4 DEF Finish
    <2>2. QED BY <1>0, <1>1, <2>1, MoveKeeps DEF Move
  <1>5. CASE Lose(r)
    <2>1. PICK t \in Tasks(r) :
            /\ t.lost < MaxLosses
            /\ queue' = (queue \ {t}) \cup {[t EXCEPT !.at = "broker", !.lost = @ + 1]}
            /\ UNCHANGED <<store, changes, pc, op, got, answer>>
      BY <1>5 DEF Lose
    <2>2. t.lost \in 0..MaxLosses /\ t \in queue
      BY <1>0, <2>1 DEF TaskOK
    <2>3. PICK lost : lost = t.lost + 1
      OBVIOUS
    <2>4. lost \in 0..MaxLosses
      BY <2>1, <2>2, <2>3, ConsoleAssumption
    <2>5. queue' = (queue \ {t}) \cup {[t EXCEPT !.at = "broker", !.lost = lost]}
      BY <2>1, <2>3
    <2>6. QED BY <2>1, <2>2, <2>4, <2>5, MoveKeeps
  <1>6. QED BY <1>2, <1>3, <1>4, <1>5

\* The row that another request commits is none of a post.
LEMMA CommitRowKeeps ==
  ASSUME ConsoleInv, CommitRow, UNCHANGED queue
  PROVE  ConsoleInv'
  <1>0. StoreOK /\ ControlOK /\ QueueOK
    BY DEF ConsoleInv
  <1>1. PICK a \in Arrivals :
          /\ a.row.id \notin {t.id : t \in store[a.table]}
          /\ store' = [store EXCEPT ![a.table] = @ \cup {a.row}]
          /\ Change(a.row.id)
    BY DEF CommitRow
  <1>2. PICK table, row :
          /\ IsRow(row) /\ row.id \notin Requests /\ \A y \in store[table] : y.id # row.id
          /\ store' = [store EXCEPT ![table] = @ \cup {row}]
    BY <1>1, DatabaseAssumption
  <1>3. UNCHANGED <<pc, op, got, answer, queue>> /\ changes < MaxChanges /\ changes' = changes + 1
    BY <1>1 DEF Change
  <1>4. /\ StoreOK' /\ Grown /\ DOMAIN store' = DOMAIN store
        /\ \A t \in DOMAIN store : t # table => store'[t] = store[t]
        /\ table \in DOMAIN store => store'[table] = store[table] \cup {row}
    BY <1>0, <1>2, InsertionGrows
  <1>5. ControlOK'
    BY <1>0, <1>3, ReportsAssumption DEF ControlOK
  <1>6. ASSUME NEW q \in Requests
        PROVE  RequestOK(q)' /\ AuditOK(q)'
    <2>1. Kept(q) /\ RequestOK(q) /\ AuditOK(q)
      BY <1>3 DEF ConsoleInv, Kept
    <2>2. "audit_logs" \in DOMAIN store
      BY <1>0 DEF StoreOK, ConsoleTables
    <2>3. Mine(q)' = Mine(q)
      BY <1>2, <1>4, <2>2 DEF Mine
    <2>4. QED BY <1>4, <2>1, <2>3, KeptRequest, KeptAudit DEF Kept
  <1>7. QueueOK'
    <2>1. ASSUME NEW t \in queue
          PROVE  TaskOK(t)'
      <3>1. TaskOK(t)
        BY <1>0 DEF QueueOK
      <3>2. /\ op'[t.id] = op[t.id] /\ pc'[t.id] \in {"commit", "respond", "done"}
            /\ answer'[t.id] \in {None, "200", "500"}
        BY <1>3, <3>1 DEF TaskOK
      <3>3. QED BY <1>4, <3>1, <3>2, KeptTask
    <2>2. QED BY <1>0, <1>3, <2>1 DEF QueueOK, Held
  <1>8. QED BY <1>4, <1>5, <1>6, <1>7 DEF ConsoleInv

LEMMA ConsoleInitInv ==
  ASSUME InitConsole
  PROVE  ConsoleInv
  <1>1. StoreOK /\ \A a \in store.audit_logs : a.id \notin Requests
    BY DatabaseAssumption, ConsoleAssumption DEF InitConsole, StoreOK, ConsoleTables
  <1>2. ControlOK
    BY ReportsAssumption DEF InitConsole, ControlOK, Steps
  <1>3. QueueOK
    <2>1. queue = {} /\ Held = {}
      BY DEF InitConsole, Held
    <2>2. QED BY <2>1, FS_EmptySet, ConsoleAssumption DEF QueueOK
  <1>4. ASSUME NEW r \in Requests
        PROVE  RequestOK(r) /\ AuditOK(r)
    <2>1. pc[r] = "idle" /\ op[r] = None /\ got[r] = <<>> /\ answer[r] = None
      BY DEF InitConsole
    <2>2. got[r] \in Seq({})
      BY <2>1
    <2>3. QED BY <1>1, <2>1, <2>2 DEF RequestOK, AuditOK, Audited, Mine
  <1>5. QED BY <1>1, <1>2, <1>3, <1>4 DEF ConsoleInv

LEMMA ConsoleNextInv ==
  ASSUME ConsoleInv, [ConsoleNext]_consoleVars
  PROVE  ConsoleInv'
  <1>1. CASE UNCHANGED consoleVars
    <2>1. UNCHANGED <<store, changes, pc, op, got, answer, queue>>
      BY <1>1 DEF consoleVars, vars
    <2>2. StoreOK' /\ ControlOK'
      BY <2>1 DEF ConsoleInv, StoreOK, ControlOK
    <2>3. QueueOK'
      BY <2>1 DEF ConsoleInv, QueueOK, TaskOK, Held
    <2>4. \A r \in Requests : RequestOK(r)' /\ AuditOK(r)'
      BY <2>1 DEF ConsoleInv, RequestOK, AuditOK, Audited, Mine, AuditRow
    <2>5. QED BY <2>2, <2>3, <2>4 DEF ConsoleInv
  <1>2. CASE CommitRow /\ UNCHANGED queue
    BY <1>2, CommitRowKeeps
  <1>3. CASE \E r \in Requests :
               \/ ArriveAtConsole(r) \/ ReadNext(r) \/ HaveRead(r) \/ Enqueue(r) \/ CommitAudit(r)
               \/ Inspect(r) \/ RespondFromConsole(r) \/ Fail(r)
               \/ Reserve(r) \/ Start(r) \/ Finish(r) \/ Lose(r)
    BY <1>3, ArriveKeeps, ReadKeeps, HaveReadKeeps, EnqueueKeeps, CommitAuditKeeps, InspectKeeps, RespondKeeps,
       FailKeeps, WorkersKeep
  <1>4. QED BY <1>1, <1>2, <1>3 DEF ConsoleNext

\* A post that succeeded has its row in the audit log, one that was refused has none, and a
\* task is about a row that exists: for any number of requests, workers' slots and losses.
THEOREM PostsAgree == ConsoleSpec => []PostsAreAccountedFor
  <1>1. ConsoleInv => PostsAreAccountedFor
    <2>1. SUFFICES ASSUME ConsoleInv PROVE PostsAreAccountedFor
      OBVIOUS
    <2>2. AnsweredPostsAreAudited
      <3>1. ASSUME NEW r \in Requests
            PROVE  /\ answer[r] = "200" /\ op[r].name \in Posts => Mine(r) = {AuditRow(r)}
                   /\ answer[r] \in {"403", "404", "500"} \/ (op[r] # None /\ op[r].name \notin Posts) => Mine(r) = {}
        <4>1. RequestOK(r) /\ AuditOK(r) /\ None \notin {"200", "400", "403", "404", "500"}
          BY <2>1, PartsOf
        <4>2. QED BY <4>1 DEF RequestOK, AuditOK, Audited
      <3>2. QED BY <3>1 DEF AnsweredPostsAreAudited, Mine
    <2>3. TasksHaveTheirTarget
      BY <2>1 DEF ConsoleInv, QueueOK, TaskOK, TasksHaveTheirTarget
    <2>4. QED BY <2>2, <2>3 DEF PostsAreAccountedFor
  <1>2. QED BY <1>1, ConsoleInitInv, ConsoleNextInv, PTL DEF ConsoleSpec

(***************************************************************************)
(* The reports: the invariant of those that write.                         *)
(***************************************************************************)

Snapshots == store.money_at_risk

SnapshotsOK ==
  /\ Database(store) /\ "money_at_risk" \in DOMAIN store
  /\ \A x \in Snapshots : {"merchant", "day"} \subseteq DOMAIN x
  /\ \A x, y \in Snapshots : x.merchant = y.merchant /\ x.day = y.day => x = y

ReportControlOK ==
  /\ changes \in 0..MaxChanges
  /\ pc \in [Requests -> {"idle", "read", "save", "respond", "done"}]
  /\ op = [r \in Requests |-> op[r]] /\ got = [r \in Requests |-> got[r]]
  /\ answer \in [Requests -> {None, "200", "400", "403", "404", "500"}]

ReportOK(r) ==
  /\ op[r] \in Operations[r] \cup {None}
  /\ op[r] = None <=> pc[r] = "idle"
  /\ answer[r] # None <=> pc[r] = "done"
  /\ got[r] = <<>> => pc[r] \in {"idle", "done"} /\ answer[r] \notin {"200", "404", "500"}
  /\ pc[r] = "idle" => got[r] = <<>>
  /\ \E S : got[r] \in Seq(Seq(S))
  /\ pc[r] = "save" => op[r].name \in {"save_mar", "calculate_health"}
  /\ pc[r] = "respond" => op[r].name # "save_mar"

\* No table has a row of r before r saves.
Unwritten(r) == pc[r] # "done" => \A table \in DOMAIN store : \A x \in store[table] : x.id # r

\* There is a snapshot of the merchant for today, with this identity.
Stored(id, m) == \E x \in Snapshots : x.id = id /\ x.merchant = m /\ x.day = Today

\* What a save has read of today's snapshot is still there, and what it has saved is.
SaveOK(r) ==
  /\ op[r] # None /\ op[r].name = "save_mar" /\ pc[r] \in {"read", "save"} =>
       /\ Len(got[r]) = 1 /\ (pc[r] = "save" => Len(got[r][1]) = 4)
       /\ Len(got[r][1]) >= 4 =>
            \A x \in got[r][1][4] : Stored(x.id, Effective(op[r])) /\ x.merchant = Effective(op[r]) /\ x.day = Today
  /\ op[r] # None /\ op[r].name = "save_mar" /\ answer[r] = "200" => \E id : Stored(id, Effective(op[r]))

ReportingInv ==
  SnapshotsOK /\ ReportControlOK /\ \A r \in Requests : ReportOK(r) /\ Unwritten(r) /\ SaveOK(r)

\* The rows of the tables keep their identity, merchant and day, and those that are new are
\* of no request but r.
Continued(r) ==
  /\ \A x \in Snapshots : \E y \in Snapshots' : y.id = x.id /\ y.merchant = x.merchant /\ y.day = x.day
  /\ DOMAIN store' = DOMAIN store
  /\ \A table \in DOMAIN store : \A y \in store'[table] :
       (\E x \in store[table] : x.id = y.id) \/ y.id \notin Requests \ {r}

LEMMA KeptReport ==
  ASSUME NEW q \in Requests, NEW r, q # r, Kept(q), Continued(r), ReportOK(q), Unwritten(q), SaveOK(q)
  PROVE  ReportOK(q)' /\ Unwritten(q)' /\ SaveOK(q)'
  <1>1. ReportOK(q)'
    BY DEF ReportOK, Kept
  <1>2. Unwritten(q)'
    BY DEF Unwritten, Kept, Continued
  <1>3. \A id, m : Stored(id, m) => Stored(id, m)'
    BY DEF Stored, Continued
  <1>4. SaveOK(q)'
    BY <1>3 DEF SaveOK, Kept
  <1>5. QED BY <1>1, <1>2, <1>4

\* A step of r, next to which the others stay as they are.
LEMMA ReportStep ==
  ASSUME ReportingInv, NEW r \in Requests, Continued(r), SnapshotsOK', ReportControlOK',
         \A q \in Requests : q # r => Kept(q),
         ReportOK(r)', Unwritten(r)', SaveOK(r)'
  PROVE  ReportingInv'
  <1>1. ASSUME NEW q \in Requests
        PROVE  ReportOK(q)' /\ Unwritten(q)' /\ SaveOK(q)'
    <2>1. CASE q = r
      BY <2>1
    <2>2. CASE q # r
      <3>1. Kept(q) /\ ReportOK(q) /\ Unwritten(q) /\ SaveOK(q)
        BY <2>2 DEF ReportingInv
      <3>2. QED BY <2>2, <3>1, KeptReport
    <2>3. QED BY <2>1, <2>2
  <1>2. QED BY <1>1 DEF ReportingInv

LEMMA SameTables ==
  ASSUME store' = store, SnapshotsOK, NEW r
  PROVE  Continued(r) /\ SnapshotsOK'
  BY DEF Continued, SnapshotsOK, Snapshots

LEMMA ReportParts ==
  ASSUME ReportingInv, NEW r \in Requests
  PROVE  /\ SnapshotsOK /\ ReportControlOK /\ ReportOK(r) /\ Unwritten(r) /\ SaveOK(r)
         /\ None \notin {"200", "400", "403", "404", "500"} /\ None \notin Operations[r]
  BY DatabaseAssumption DEF ReportingInv

\* Whoever is not let in is told so.
LEMMA RefusalStatus ==
  ASSUME NEW o
  PROVE  Refused(o) \in {None, "400", "403"}
  <1>1. ASSUME NEW roles
        PROVE  Refusal(o, roles) \in {None, "400", "403"}
    BY DEF Refusal
  <1>2. PICK refusal \in {None, "400", "403"} :
          refusal = Refusal(o, CASE o.name \in GraphNames -> GraphRoles
                                 [] o.name \in AssistantNames -> AssistantRoles
                                 [] OTHER -> AllowedRoles)
    BY <1>1
  <1>3. \E unknown \in BOOLEAN :
          Refused(o) = IF o.name \in HealthNames THEN None
                       ELSE IF refusal # None THEN refusal
                       ELSE IF unknown THEN "400" ELSE None
    BY <1>2 DEF Refused
  <1>4. QED BY <1>2, <1>3

\* A report is answered with success, with what it misses, or with an error.
LEMMA AnswerStatus ==
  ASSUME NEW o, NEW parts, NEW g, NEW status,
         status = CASE o.name \in GraphNames -> GraphAnswer(o, g)
                    [] o.name \in TimelineOperations -> TimelineAnswer(o, g)
                    [] o.name \in HealthNames -> HealthAnswer(o, g)
                    [] o.name \in DashboardNames -> DashboardAnswer(o, parts)
                    [] o.name \in AssistantNames -> AssistantAnswer(o)
                    [] OTHER -> "200"
  PROVE  status \in {"200", "404", "500"} /\ (o.name \in GraphNames => status = GraphAnswer(o, g))
  <1>1. /\ GraphAnswer(o, g) \in {"200", "404"} /\ TimelineAnswer(o, g) \in {"200", "404"}
        /\ HealthAnswer(o, g) \in {"200", "404"} /\ DashboardAnswer(o, parts) \in {"200", "500"}
        /\ AssistantAnswer(o) \in {"200", "500"}
    BY DEF GraphAnswer, TimelineAnswer, HealthAnswer, DashboardAnswer, AssistantAnswer
  <1>2. PICK a, b, c, d, e : /\ a = GraphAnswer(o, g) /\ b = TimelineAnswer(o, g) /\ c = HealthAnswer(o, g)
                             /\ d = DashboardAnswer(o, parts) /\ e = AssistantAnswer(o)
    OBVIOUS
  <1>3. status = CASE o.name \in GraphNames -> a
                   [] o.name \in TimelineOperations -> b
                   [] o.name \in HealthNames -> c
                   [] o.name \in DashboardNames -> d
                   [] o.name \in AssistantNames -> e
                   [] OTHER -> "200"
    BY <1>2
  <1>4. status \in {"200", "404", "500"}
    <2>1. PICK name : name = o.name
      OBVIOUS
    <2>2. QED BY <1>1, <1>2, <1>3, <2>1
  <1>5. o.name \in GraphNames => status = a
    BY <1>3 DEF GraphNames, TimelineOperations, HealthNames, DashboardNames, AssistantNames
  <1>6. QED BY <1>2, <1>4, <1>5

\* A request that is let in begins with nothing read.
LEMMA ReportArrives ==
  ASSUME ReportingInv, NEW r \in Requests, Arrive(r)
  PROVE  ReportingInv'
  <1>0. /\ SnapshotsOK /\ ReportControlOK /\ ReportOK(r) /\ Unwritten(r) /\ SaveOK(r)
        /\ None \notin {"200", "400", "403", "404", "500"} /\ None \notin Operations[r]
    BY ReportParts
  <1>1. PICK o \in Operations[r] :
          /\ op' = [op EXCEPT ![r] = o]
          /\ IF Refused(o) = None
             THEN /\ got' = [got EXCEPT ![r] = <<<<>>>>]
                  /\ pc' = [pc EXCEPT ![r] = "read"]
                  /\ UNCHANGED answer
             ELSE Answer(r, Refused(o)) /\ UNCHANGED got
    BY DEF Arrive
  <1>2. /\ pc[r] = "idle" /\ answer[r] = None /\ got[r] = <<>> /\ op[r] = None
        /\ store' = store /\ changes' = changes
    BY <1>0 DEF Arrive, ReportOK
  <1>3. \/ got' = [got EXCEPT ![r] = <<<<>>>>] /\ pc' = [pc EXCEPT ![r] = "read"] /\ answer' = answer
        \/ \E refusal \in {"400", "403"} :
             got' = got /\ pc' = [pc EXCEPT ![r] = "done"] /\ answer' = [answer EXCEPT ![r] = refusal]
    BY <1>1, RefusalStatus DEF Answer
  <1>4. op' = [op EXCEPT ![r] = o] /\ op'[r] = o
    BY <1>0, <1>1 DEF ReportControlOK
  <1>5. ReportControlOK'
    <2>1. changes' \in 0..MaxChanges
      BY ONLY <1>0, <1>2 DEF ReportControlOK
    <2>2. pc' \in [Requests -> {"idle", "read", "save", "respond", "done"}]
      BY ONLY <1>0, <1>3 DEF ReportControlOK
    <2>3. op' = [q \in Requests |-> op'[q]] /\ got' = [q \in Requests |-> got'[q]]
      BY ONLY <1>0, <1>3, <1>4 DEF ReportControlOK
    <2>4. answer' \in [Requests -> {None, "200", "400", "403", "404", "500"}]
      BY ONLY <1>0, <1>3 DEF ReportControlOK
    <2>5. QED BY ONLY <2>1, <2>2, <2>3, <2>4 DEF ReportControlOK
  <1>6. \A q \in Requests : q # r => Kept(q)
    BY <1>0, <1>3, <1>4 DEF ReportControlOK, Kept
  <1>7. \/ got'[r] = <<<<>>>> /\ pc'[r] = "read" /\ answer'[r] = None
        \/ got'[r] = <<>> /\ pc'[r] = "done" /\ answer'[r] \in {"400", "403"}
    BY <1>0, <1>2, <1>3 DEF ReportControlOK
  <1>8. ReportOK(r)'
    <2>1. \E S : got'[r] \in Seq(Seq(S))
      <3>1. <<<<>>>> \in Seq(Seq({})) /\ <<>> \in Seq(Seq({}))
        OBVIOUS
      <3>2. QED BY <1>7, <3>1
    <2>2. got'[r] = <<>> => pc'[r] \in {"idle", "done"} /\ answer'[r] \notin {"200", "404", "500"}
      BY <1>7
    <2>3. QED BY <1>0, <1>4, <1>7, <2>1, <2>2 DEF ReportOK
  <1>9. Unwritten(r)'
    BY <1>0, <1>2 DEF Unwritten
  <1>10. SaveOK(r)'
    <2>1. pc'[r] # "save" /\ answer'[r] # "200"
      BY <1>0, <1>7
    <2>2. pc'[r] = "read" => Len(got'[r]) = 1 /\ Len(got'[r][1]) = 0
      <3>1. PICK nothing : nothing = <<>>
        OBVIOUS
      <3>2. Len(<<nothing>>) = 1 /\ <<nothing>>[1] = nothing /\ Len(nothing) = 0
        BY <3>1
      <3>3. pc'[r] = "read" => got'[r] = <<nothing>>
        BY <1>7, <3>1
      <3>4. QED BY <3>2, <3>3
    <2>3. QED BY <2>1, <2>2 DEF SaveOK
  <1>11. QED BY <1>0, <1>2, <1>5, <1>6, <1>8, <1>9, <1>10, SameTables, ReportStep

\* The statements of a save: three of the money at risk, and today's snapshot.
LEMMA SaveStatements ==
  ASSUME NEW o, NEW g, NEW s, o.name = "save_mar"
  PROVE  /\ Parts(o) = <<"save_mar">>
         /\ Len(Queries("save_mar", o, g, s)) = 4
         /\ Queries("save_mar", o, g, s)[4].rows = {x \in s.money_at_risk : x.merchant = Effective(o) /\ x.day = Today}
  <1>1. Parts(o) = <<"save_mar">>
    BY DEF Parts, DashboardNames
  <1>2. Queries("save_mar", o, g, s) = MarReport(o, g, s)
    BY DEF Queries, MarNames, HealthNames, DashboardNames, GraphNames, TimelineOperations, AssistantNames
  <1>3. MarReport(o, g, s) = SnapshotReads(o, s)
    BY DEF MarReport
  <1>4. PICK a, b, c : MarReads(o, s) = <<a, b, c>>
    BY DEF MarReads
  <1>5. PICK d : d = Every({x \in Own(Effective(o), s.money_at_risk) : x.day = Today})
    OBVIOUS
  <1>6. SnapshotReads(o, s) = <<a, b, c>> \o <<d>>
    BY <1>4, <1>5 DEF SnapshotReads
  <1>7. Len(<<a, b, c>> \o <<d>>) = 4 /\ (<<a, b, c>> \o <<d>>)[4] = d
    <2>1. Len(<<a, b, c>> \o <<d>>) = 4
      OBVIOUS
    <2>2. (<<a, b, c>> \o <<d>>)[4] = d
      OBVIOUS
    <2>3. QED BY <2>1, <2>2
  <1>8. d.rows = {x \in s.money_at_risk : x.merchant = Effective(o) /\ x.day = Today}
    <2>1. PICK m, rows : m = Effective(o) /\ rows = {x \in Own(m, s.money_at_risk) : x.day = Today} /\ d = Every(rows)
      BY <1>5
    <2>2. d.rows = rows
      BY ONLY <2>1 DEF Every
    <2>3. QED BY <2>1, <2>2 DEF Own
  <1>9. QED BY <1>1, <1>2, <1>3, <1>6, <1>7, <1>8

\* A statement of a save finds today's snapshot, if there is one.
LEMMA ReportReads ==
  ASSUME ReportingInv, NEW r \in Requests, Read(r)
  PROVE  ReportingInv'
  <1>0. /\ SnapshotsOK /\ ReportControlOK /\ ReportOK(r) /\ Unwritten(r) /\ SaveOK(r)
        /\ None \notin {"200", "400", "403", "404", "500"}
    BY ReportParts
  <1>1. /\ pc[r] = "read" /\ op[r] # None /\ answer[r] = None /\ got[r] # <<>>
        /\ UNCHANGED <<store, changes, pc, op, answer>>
    BY <1>0 DEF Read, ReportOK
  <1>2. PICK S : got[r] \in Seq(Seq(S))
    BY <1>0 DEF ReportOK
  <1>3. PICK i, n, result :
          /\ i = Len(got[r]) /\ n = Len(got[r][i]) + 1
          /\ n <= Len(Statements(r)) /\ result \in Results(Statements(r)[n])
          /\ got' = [got EXCEPT ![r][i] = Append(@, result)]
    BY DEF Read
  <1>4. i \in Nat \ {0} /\ i \in DOMAIN got[r] /\ got[r][i] \in Seq(S) /\ Len(got[r][i]) \in Nat
    BY <1>1, <1>2, <1>3
  <1>5. /\ got'[r] = [got[r] EXCEPT ![i] = Append(got[r][i], result)]
        /\ got' = [q \in Requests |-> got'[q]] /\ \A q \in Requests : q # r => got'[q] = got[q]
    BY <1>0, <1>3 DEF ReportControlOK
  <1>6. Append(got[r][i], result) \in Seq(S \cup {result})
    BY <1>4
  <1>7. got'[r] \in Seq(Seq(S \cup {result})) /\ got'[r] # <<>> /\ Len(got'[r]) = Len(got[r])
        /\ got'[r][i] = Append(got[r][i], result)
    <2>1. got[r] \in Seq(Seq(S \cup {result}))
      BY <1>2
    <2>2. QED BY <1>1, <1>4, <1>5, <1>6, <2>1
  <1>8. ReportControlOK'
    BY <1>0, <1>1, <1>5 DEF ReportControlOK
  <1>9. ReportOK(r)'
    BY <1>0, <1>1, <1>7 DEF ReportOK
  <1>10. Unwritten(r)'
    BY <1>0, <1>1 DEF Unwritten
  <1>11. SaveOK(r)'
    <2>1. SUFFICES ASSUME op[r].name = "save_mar"
                   PROVE  /\ Len(got'[r]) = 1
                          /\ Len(got'[r][1]) >= 4 =>
                               \A x \in got'[r][1][4] :
                                 Stored(x.id, Effective(op[r])) /\ x.merchant = Effective(op[r]) /\ x.day = Today
      BY <1>0, <1>1 DEF SaveOK, Stored, Snapshots
    <2>2. Len(got[r]) = 1 /\ i = 1 /\ Len(got'[r]) = 1
      BY <1>0, <1>1, <1>3, <1>7, <2>1 DEF SaveOK
    <2>3. Statements(r) = Queries("save_mar", op[r], got[r][1], store)
      BY <2>1, <2>2, SaveStatements DEF Statements
    <2>4. Len(got'[r][1]) = n /\ n \in Nat /\ got'[r][1][n] = result
      BY <1>3, <1>4, <1>7, <2>2
    <2>5. n <= 4
      <3>1. Len(Queries("save_mar", op[r], got[r][1], store)) = 4
        BY <2>1, SaveStatements
      <3>2. QED BY <1>3, <2>3, <3>1
    <2>6. n = 4 => result \subseteq {x \in store.money_at_risk : x.merchant = Effective(op[r]) /\ x.day = Today}
      BY <1>3, <2>1, <2>3, SaveStatements, ResultsAreRows
    <2>7. QED BY <2>2, <2>4, <2>5, <2>6 DEF Stored, Snapshots
  <1>12. \A q \in Requests : q # r => Kept(q)
    BY <1>1, <1>5 DEF Kept
  <1>13. QED BY <1>0, <1>1, <1>8, <1>9, <1>10, <1>11, <1>12, SameTables, ReportStep

\* A save has read all its four statements when it saves.
LEMMA ReportProceeds ==
  ASSUME ReportingInv, NEW r \in Requests, Proceed(r)
  PROVE  ReportingInv'
  <1>0. /\ SnapshotsOK /\ ReportControlOK /\ ReportOK(r) /\ Unwritten(r) /\ SaveOK(r)
        /\ None \notin {"200", "400", "403", "404", "500"}
    BY ReportParts
  <1>1. /\ pc[r] = "read" /\ op[r] # None /\ answer[r] = None /\ got[r] # <<>>
        /\ UNCHANGED <<store, changes, op, answer>>
        /\ Len(got[r][Len(got[r])]) = Len(Statements(r))
    BY <1>0 DEF Proceed, ReportOK
  <1>2. PICK S : got[r] \in Seq(Seq(S))
    BY <1>0 DEF ReportOK
  <1>3. \/ /\ Len(got[r]) < Len(Parts(op[r]))
           /\ got' = [got EXCEPT ![r] = Append(@, <<>>)] /\ pc' = pc
        \/ /\ got' = got
           /\ \/ pc' = [pc EXCEPT ![r] = "save"] /\ op[r].name \in {"save_mar", "calculate_health"}
              \/ pc' = [pc EXCEPT ![r] = "respond"] /\ op[r].name \notin {"save_mar", "calculate_health"}
    BY DEF Proceed
  <1>4. ReportControlOK'
    BY <1>0, <1>1, <1>3 DEF ReportControlOK
  <1>5. \A q \in Requests : q # r => Kept(q)
    BY <1>0, <1>1, <1>3 DEF ReportControlOK, Kept
  <1>6. \/ /\ Len(got[r]) < Len(Parts(op[r]))
           /\ got'[r] = Append(got[r], <<>>) /\ pc'[r] = "read"
        \/ got'[r] = got[r] /\ pc'[r] = "save" /\ op[r].name \in {"save_mar", "calculate_health"}
        \/ got'[r] = got[r] /\ pc'[r] = "respond" /\ op[r].name # "save_mar"
    BY <1>0, <1>1, <1>3 DEF ReportControlOK
  <1>7. got'[r] \in Seq(Seq(S)) /\ got'[r] # <<>>
    <2>1. <<>> \in Seq(S)
      OBVIOUS
    <2>2. PICK T, nothing : T = Seq(S) /\ nothing = <<>> /\ nothing \in T /\ got[r] \in Seq(T)
      BY <1>2, <2>1
    <2>3. Append(got[r], nothing) \in Seq(T) /\ Len(Append(got[r], nothing)) = Len(got[r]) + 1 /\ Len(got[r]) \in Nat
      BY <2>2
    <2>4. Append(got[r], nothing) # <<>>
      BY <2>3
    <2>5. QED BY <1>1, <1>6, <2>2, <2>3, <2>4
  <1>8. ReportOK(r)'
    BY <1>0, <1>1, <1>6, <1>7 DEF ReportOK
  <1>9. Unwritten(r)'
    BY <1>0, <1>1 DEF Unwritten
  <1>10. SaveOK(r)'
    <2>1. CASE op[r].name # "save_mar"
      BY <1>1, <2>1 DEF SaveOK
    <2>2. CASE op[r].name = "save_mar"
      <3>1. Len(got[r]) = 1
        BY <1>0, <1>1, <2>2 DEF SaveOK
      <3>2. Parts(op[r]) = <<"save_mar">> /\ Len(Queries("save_mar", op[r], got[r][1], store)) = 4
        BY <2>2, SaveStatements
      <3>3. Statements(r) = Queries("save_mar", op[r], got[r][1], store)
        BY <3>1, <3>2 DEF Statements
      <3>4. Len(got[r][1]) = 4
        BY <1>1, <3>1, <3>2, <3>3
      <3>5. got'[r] = got[r] /\ pc'[r] = "save"
        <4>1. Len(Parts(op[r])) = 1
          BY <3>2
        <4>2. QED BY <1>6, <2>2, <3>1, <4>1
      <3>6. QED BY <1>0, <1>1, <2>2, <3>1, <3>4, <3>5 DEF SaveOK, Stored, Snapshots
    <2>3. QED BY <2>1, <2>2
  <1>11. QED BY <1>0, <1>1, <1>4, <1>5, <1>8, <1>9, <1>10, SameTables, ReportStep

\* What is answered without a save.
LEMMA ReportResponds ==
  ASSUME ReportingInv, NEW r \in Requests, Respond(r)
  PROVE  ReportingInv'
  <1>0. /\ SnapshotsOK /\ ReportControlOK /\ ReportOK(r) /\ Unwritten(r) /\ SaveOK(r)
        /\ None \notin {"200", "400", "403", "404", "500"}
    BY ReportParts
  <1>1. \E status \in {"200", "404", "500"} : Answer(r, status)
    BY AnswerStatus DEF Respond
  <1>2. PICK status \in {"200", "404", "500"} : Answer(r, status)
    BY <1>1
  <1>3. /\ pc[r] = "respond" /\ op[r] # None /\ answer[r] = None /\ got[r] # <<>> /\ op[r].name # "save_mar"
        /\ UNCHANGED <<store, changes, op, got>>
        /\ pc' = [pc EXCEPT ![r] = "done"] /\ answer' = [answer EXCEPT ![r] = status]
    BY <1>0, <1>2 DEF Respond, ReportOK, Answer
  <1>4. ReportControlOK'
    BY <1>0, <1>3 DEF ReportControlOK
  <1>5. /\ pc'[r] = "done" /\ answer'[r] = status
        /\ \A q \in Requests : q # r => Kept(q)
    BY <1>0, <1>3 DEF ReportControlOK, Kept
  <1>6. ReportOK(r)'
    BY <1>0, <1>3, <1>5 DEF ReportOK
  <1>7. Unwritten(r)'
    BY <1>5 DEF Unwritten
  <1>8. SaveOK(r)'
    BY <1>3 DEF SaveOK
  <1>9. QED BY <1>0, <1>3, <1>4, <1>5, <1>6, <1>7, <1>8, SameTables, ReportStep

(* What the saves and the others write. *)

\* A table that is replaced.
LEMMA ReplacedTable ==
  ASSUME Database(store), NEW table, NEW rows, store' = [store EXCEPT ![table] = rows],
         \A x \in rows : IsRow(x), \A x, y \in rows : x.id = y.id => x = y
  PROVE  /\ Database(store') /\ DOMAIN store' = DOMAIN store
         /\ \A t \in DOMAIN store : store'[t] = IF t = table THEN rows ELSE store[t]
  <1>1. /\ DOMAIN store' = DOMAIN store
        /\ \A t \in DOMAIN store : store'[t] = IF t = table THEN rows ELSE store[t]
        /\ store' = [t \in DOMAIN store' |-> store'[t]]
    BY DEF Database
  <1>2. ASSUME NEW t \in DOMAIN store
        PROVE  (\A x \in store'[t] : IsRow(x)) /\ \A x, y \in store'[t] : x.id = y.id => x = y
    BY <1>1 DEF Database
  <1>3. QED BY <1>1, <1>2 DEF Database

\* A table other than that of the snapshots.
LEMMA OtherTable ==
  ASSUME SnapshotsOK, NEW r, NEW table, table # "money_at_risk", NEW rows, store' = [store EXCEPT ![table] = rows],
         \A x \in rows : IsRow(x), \A x, y \in rows : x.id = y.id => x = y,
         table \in DOMAIN store =>
           \A y \in rows : (\E x \in store[table] : x.id = y.id) \/ y.id \notin Requests \ {r}
  PROVE  SnapshotsOK' /\ Continued(r) /\ Snapshots' = Snapshots
  <1>1. /\ Database(store') /\ DOMAIN store' = DOMAIN store
        /\ \A t \in DOMAIN store : store'[t] = IF t = table THEN rows ELSE store[t]
    BY ReplacedTable DEF SnapshotsOK
  <1>2. Snapshots' = Snapshots
    BY <1>1 DEF SnapshotsOK, Snapshots
  <1>3. SnapshotsOK'
    BY <1>1, <1>2 DEF SnapshotsOK
  <1>4. Continued(r)
    BY <1>1, <1>2 DEF Continued
  <1>5. QED BY <1>2, <1>3, <1>4

\* What another request commits, and the new status of a transaction.
LEMMA OthersCommit ==
  ASSUME ReportingInv, CommitRow \/ ChangeStatus
  PROVE  ReportingInv'
  <1>0. SnapshotsOK /\ ReportControlOK
    BY DEF ReportingInv
  <1>1. /\ UNCHANGED <<pc, op, got, answer>> /\ changes < MaxChanges /\ changes' = changes + 1
    BY DEF CommitRow, ChangeStatus, Change
  <1>2. PICK none : none \notin Requests
    BY NoSetContainsEverything
  <1>3. SnapshotsOK' /\ Continued(none)
    <2>1. CASE CommitRow
      <3>1. PICK a \in Arrivals :
              /\ a.row.id \notin {t.id : t \in store[a.table]}
              /\ store' = [store EXCEPT ![a.table] = @ \cup {a.row}]
        BY <2>1 DEF CommitRow
      <3>2. PICK table, row :
              /\ table # "money_at_risk" /\ IsRow(row) /\ row.id \notin Requests
              /\ \A y \in store[table] : y.id # row.id
              /\ store' = [store EXCEPT ![table] = @ \cup {row}]
        BY <3>1, DatabaseAssumption, SnapshotsAssumption
      <3>3. CASE table \notin DOMAIN store
        <4>1. store' = store
          BY <1>0, <3>2, <3>3 DEF SnapshotsOK, Database
        <4>2. QED BY <1>0, <4>1, SameTables
      <3>4. CASE table \in DOMAIN store
        <4>1. PICK rows : rows = store[table] \cup {row} /\ store' = [store EXCEPT ![table] = rows]
          BY <3>2
        <4>2. (\A x \in rows : IsRow(x)) /\ \A x, y \in rows : x.id = y.id => x = y
          BY <1>0, <3>2, <3>4, <4>1 DEF SnapshotsOK, Database
        <4>3. \A y \in rows : (\E x \in store[table] : x.id = y.id) \/ y.id \notin Requests \ {none}
          BY <3>2, <4>1
        <4>4. table # "money_at_risk" /\ store' = [store EXCEPT ![table] = rows]
          BY <3>2, <4>1
        <4>5. QED BY <1>0, <4>2, <4>3, <4>4, OtherTable
      <3>5. QED BY <3>3, <3>4
    <2>2. CASE ChangeStatus
      <3>1. PICK t \in store.transactions : \E status :
              store' = [store EXCEPT !.transactions = (@ \ {t}) \cup {[t EXCEPT !.status = status]}]
        BY <2>2 DEF ChangeStatus
      <3>2. PICK new, status : /\ new = [t EXCEPT !.status = status]
                               /\ store' = [store EXCEPT !.transactions = (@ \ {t}) \cup {[t EXCEPT !.status = status]}]
        BY <3>1
      <3>3. "transactions" \in DOMAIN store /\ IsRow(t)
        BY <1>0 DEF SnapshotsOK, Database, Tables
      <3>4. IsRow(new) /\ new.id = t.id
        BY <3>2, <3>3 DEF IsRow
      <3>5. PICK rows : /\ rows = (store["transactions"] \ {t}) \cup {new}
                        /\ store' = [store EXCEPT !["transactions"] = rows]
        BY <3>2
      <3>6. (\A x \in rows : IsRow(x)) /\ \A x, y \in rows : x.id = y.id => x = y
        BY <1>0, <3>3, <3>4, <3>5 DEF SnapshotsOK, Database
      <3>7. \A y \in rows : \E x \in store["transactions"] : x.id = y.id
        BY <3>4, <3>5
      <3>8. PICK table : table = "transactions"
        OBVIOUS
      <3>9. SnapshotsOK' /\ Continued(none)
        <4>1. table # "money_at_risk" /\ store' = [store EXCEPT ![table] = rows]
          BY <3>5, <3>8
        <4>2. \A y \in rows : (\E x \in store[table] : x.id = y.id) \/ y.id \notin Requests \ {none}
          BY <3>7, <3>8
        <4>3. QED BY <1>0, <3>6, <4>1, <4>2, OtherTable
      <3>10. QED BY <3>9
    <2>3. QED BY <2>1, <2>2
  <1>4. ASSUME NEW q \in Requests
        PROVE  ReportOK(q)' /\ Unwritten(q)' /\ SaveOK(q)'
    <2>1. Kept(q) /\ ReportOK(q) /\ Unwritten(q) /\ SaveOK(q) /\ q # none
      BY <1>1, <1>2 DEF ReportingInv, Kept
    <2>2. QED BY <1>3, <2>1, KeptReport
  <1>5. ReportControlOK'
    BY <1>0, <1>1, ReportsAssumption DEF ReportControlOK
  <1>6. QED BY <1>3, <1>4, <1>5 DEF ReportingInv

\* A save that has ended.
LEMMA SaveEnds ==
  ASSUME ReportingInv, NEW r \in Requests, pc[r] = "save", NEW status \in {"200", "500"}, Answer(r, status),
         UNCHANGED <<changes, op, got>>, SnapshotsOK', Continued(r),
         op[r].name = "save_mar" /\ status = "200" => \E id : Stored(id, Effective(op[r]))'
  PROVE  ReportingInv'
  <1>0. /\ ReportControlOK /\ ReportOK(r)
        /\ None \notin {"200", "400", "403", "404", "500"}
    BY ReportParts
  <1>1. /\ op[r] # None /\ answer[r] = None /\ got[r] # <<>>
        /\ pc' = [pc EXCEPT ![r] = "done"] /\ answer' = [answer EXCEPT ![r] = status]
    BY <1>0 DEF ReportOK, Answer
  <1>2. ReportControlOK'
    BY <1>0, <1>1 DEF ReportControlOK
  <1>3. /\ pc'[r] = "done" /\ answer'[r] = status
        /\ \A q \in Requests : q # r => Kept(q)
    BY <1>0, <1>1 DEF ReportControlOK, Kept
  <1>4. ReportOK(r)'
    BY <1>0, <1>1, <1>3 DEF ReportOK
  <1>5. Unwritten(r)'
    BY <1>3 DEF Unwritten
  <1>6. SaveOK(r)'
    BY <1>3 DEF SaveOK
  <1>7. QED BY <1>2, <1>3, <1>4, <1>5, <1>6, ReportStep

\* A row of metrics that is updated keeps its identity.
LEMMA PutKeepsIdentity ==
  ASSUME NEW row, IsRow(row), NEW read, NEW new
  PROVE  IsRow(PutMetrics(row, read, new)) /\ PutMetrics(row, read, new).id = row.id
  BY DEF IsRow, PutMetrics

\* The metrics of a day are a row of the request's own, or in the place of another.
LEMMA MetricsAreSaved ==
  ASSUME ReportingInv, NEW r \in Requests, pc[r] = "save", op[r].name # "save_mar", SaveMetrics(r),
         UNCHANGED <<changes, op, got>>
  PROVE  ReportingInv'
  <1>0. SnapshotsOK /\ Unwritten(r)
    BY ReportParts
  <1>1. PICK new, found :
          /\ new.id = r /\ IsRow(new)
          /\ Answer(r, "200")
          /\ \/ store' = [store EXCEPT !.health = @ \cup {new}]
             \/ \E read \in found : \E row \in store.health :
                  store' = [store EXCEPT !.health = (@ \ {row}) \cup {PutMetrics(row, read, new)}]
    <2>1. PICK new : new = Metrics(r, op[r], got[r][1])
      OBVIOUS
    <2>2. new.id = r /\ IsRow(new)
      BY <2>1 DEF Metrics, IsRow
    <2>3. QED BY <2>1, <2>2 DEF SaveMetrics
  <1>2. SnapshotsOK' /\ Continued(r)
    <2>1. CASE "health" \notin DOMAIN store
      <3>1. store' = store
        BY <1>0, <1>1, <2>1 DEF SnapshotsOK, Database
      <3>2. QED BY <1>0, <3>1, SameTables
    <2>2. CASE "health" \in DOMAIN store
      <3>1. PICK table : table = "health" /\ table # "money_at_risk"
        OBVIOUS
      <3>2. /\ table \in DOMAIN store /\ \A x \in store[table] : IsRow(x) /\ x.id # r
            /\ \A x, y \in store[table] : x.id = y.id => x = y
        BY <1>0, <2>2, <3>1 DEF SnapshotsOK, Database, Unwritten
      <3>3. CASE store' = [store EXCEPT !.health = @ \cup {new}]
        <4>1. PICK rows : rows = store[table] \cup {new} /\ store' = [store EXCEPT ![table] = rows]
          BY <3>1, <3>3
        <4>2. (\A x \in rows : IsRow(x)) /\ \A x, y \in rows : x.id = y.id => x = y
          BY <1>1, <3>2, <4>1
        <4>3. \A y \in rows : (\E x \in store[table] : x.id = y.id) \/ y.id \notin Requests \ {r}
          BY <1>1, <4>1
        <4>4. table # "money_at_risk" /\ store' = [store EXCEPT ![table] = rows]
          BY <3>1, <4>1
        <4>5. QED BY <1>0, <4>2, <4>3, <4>4, OtherTable
      <3>4. CASE \E read \in found : \E row \in store.health :
                   store' = [store EXCEPT !.health = (@ \ {row}) \cup {PutMetrics(row, read, new)}]
        <4>1. PICK read \in found, row \in store[table] :
                store' = [store EXCEPT ![table] = (@ \ {row}) \cup {PutMetrics(row, read, new)}]
          BY <3>1, <3>4
        <4>2. PICK put : put = PutMetrics(row, read, new) /\ IsRow(put) /\ put.id = row.id
          BY <3>2, PutKeepsIdentity
        <4>3. PICK rows : rows = (store[table] \ {row}) \cup {put} /\ store' = [store EXCEPT ![table] = rows]
          BY <4>1, <4>2
        <4>4. (\A x \in rows : IsRow(x)) /\ \A x, y \in rows : x.id = y.id => x = y
          BY <3>2, <4>2, <4>3
        <4>5. \A y \in rows : (\E x \in store[table] : x.id = y.id) \/ y.id \notin Requests \ {r}
          BY <4>2, <4>3
        <4>6. table # "money_at_risk" /\ store' = [store EXCEPT ![table] = rows]
          BY <3>1, <4>3
        <4>7. QED BY <1>0, <4>4, <4>5, <4>6, OtherTable
      <3>5. QED BY <1>1, <3>3, <3>4
    <2>3. QED BY <2>1, <2>2
  <1>3. PICK status : status = "200" /\ status \in {"200", "500"} /\ Answer(r, status)
    BY <1>1
  <1>4. QED BY <1>2, <1>3, SaveEnds

\* A snapshot of the request, where there is none of its merchant for today.
LEMMA SnapshotIsInserted ==
  ASSUME SnapshotsOK, NEW r \in Requests, Unwritten(r), pc[r] # "done",
         NEW new, IsRow(new), new.id = r, {"merchant", "day"} \subseteq DOMAIN new,
         Taken(new) = {}, Put(r, new)
  PROVE  SnapshotsOK' /\ Continued(r) /\ new \in Snapshots'
  <1>1. PICK table : table = "money_at_risk" /\ table \in DOMAIN store
    BY DEF SnapshotsOK
  <1>2. /\ \A x \in store[table] : IsRow(x) /\ x.id # r /\ {"merchant", "day"} \subseteq DOMAIN x
        /\ \A x, y \in store[table] : x.id = y.id => x = y
        /\ \A x, y \in store[table] : x.merchant = y.merchant /\ x.day = y.day => x = y
    BY <1>1 DEF SnapshotsOK, Database, Unwritten, Snapshots
  <1>3. PICK rows : rows = store[table] \cup {new} /\ store' = [store EXCEPT ![table] = rows]
    <2>1. {x \in store[table] : x.id # r} = store[table]
      BY <1>2
    <2>2. QED BY <1>1, <2>1 DEF Put
  <1>4. \A x \in store[table] : ~(x.merchant = new.merchant /\ x.day = new.day)
    BY <1>1 DEF Taken
  <1>5. /\ \A x \in rows : IsRow(x) /\ {"merchant", "day"} \subseteq DOMAIN x
        /\ \A x, y \in rows : x.id = y.id => x = y
        /\ \A x, y \in rows : x.merchant = y.merchant /\ x.day = y.day => x = y
    BY <1>2, <1>3, <1>4
  <1>6. /\ Database(store') /\ DOMAIN store' = DOMAIN store
        /\ \A t \in DOMAIN store : store'[t] = IF t = table THEN rows ELSE store[t]
    BY <1>3, <1>5, ReplacedTable DEF SnapshotsOK
  <1>7. Snapshots' = rows /\ Snapshots = store[table]
    BY <1>1, <1>6 DEF Snapshots
  <1>8. SnapshotsOK'
    BY <1>1, <1>5, <1>6, <1>7 DEF SnapshotsOK
  <1>9. Continued(r)
    <2>1. \A y \in rows : (\E x \in store[table] : x.id = y.id) \/ y.id \notin Requests \ {r}
      BY <1>3
    <2>2. \A x \in store[table] : \E y \in rows : y.id = x.id /\ y.merchant = x.merchant /\ y.day = x.day
      BY <1>3
    <2>3. QED BY <1>6, <1>7, <2>1, <2>2 DEF Continued
  <1>10. QED BY <1>3, <1>7, <1>8, <1>9

\* A snapshot that is written over, by one with the same identity, merchant and day.
LEMMA SnapshotIsReplaced ==
  ASSUME SnapshotsOK, NEW r, NEW row \in Snapshots, NEW put, IsRow(put), put.id = row.id,
         {"merchant", "day"} \subseteq DOMAIN put, put.merchant = row.merchant, put.day = row.day,
         Put(row.id, put)
  PROVE  SnapshotsOK' /\ Continued(r) /\ put \in Snapshots'
  <1>1. PICK table : table = "money_at_risk" /\ table \in DOMAIN store
    BY DEF SnapshotsOK
  <1>2. /\ \A x \in store[table] : IsRow(x) /\ {"merchant", "day"} \subseteq DOMAIN x
        /\ \A x, y \in store[table] : x.id = y.id => x = y
        /\ \A x, y \in store[table] : x.merchant = y.merchant /\ x.day = y.day => x = y
        /\ row \in store[table] /\ Snapshots = store[table]
    BY <1>1 DEF SnapshotsOK, Database, Snapshots
  <1>3. PICK rows : rows = {x \in store[table] : x.id # row.id} \cup {put} /\ store' = [store EXCEPT ![table] = rows]
    BY <1>1 DEF Put
  <1>4. \A x \in rows : x = put \/ (x \in store[table] /\ x.id # row.id /\ x # row)
    BY <1>3
  <1>5. /\ \A x \in rows : IsRow(x) /\ {"merchant", "day"} \subseteq DOMAIN x
        /\ \A x, y \in rows : x.id = y.id => x = y
        /\ \A x, y \in rows : x.merchant = y.merchant /\ x.day = y.day => x = y
    BY <1>2, <1>4
  <1>6. /\ Database(store') /\ DOMAIN store' = DOMAIN store
        /\ \A t \in DOMAIN store : store'[t] = IF t = table THEN rows ELSE store[t]
    <2>1. Database(store) /\ store' = [store EXCEPT ![table] = rows]
      BY <1>3 DEF SnapshotsOK
    <2>2. (\A x \in rows : IsRow(x)) /\ \A x, y \in rows : x.id = y.id => x = y
      BY <1>5
    <2>3. QED BY ONLY <2>1, <2>2, ReplacedTable
  <1>7. Snapshots' = rows
    BY <1>1, <1>6 DEF Snapshots
  <1>8. SnapshotsOK'
    BY <1>1, <1>5, <1>6, <1>7 DEF SnapshotsOK
  <1>9. Continued(r)
    <2>1. \A y \in rows : \E x \in store[table] : x.id = y.id
      BY <1>2, <1>4
    <2>2. \A x \in store[table] : \E y \in rows : y.id = x.id /\ y.merchant = x.merchant /\ y.day = x.day
      <3>1. SUFFICES ASSUME NEW x \in store[table]
                     PROVE  \E y \in rows : y.id = x.id /\ y.merchant = x.merchant /\ y.day = x.day
        OBVIOUS
      <3>2. CASE x.id = row.id
        <4>1. x = row /\ put \in rows
          BY <1>2, <1>3, <3>2
        <4>2. QED BY <4>1
      <3>3. CASE x.id # row.id
        BY <1>3, <3>3
      <3>4. QED BY <3>2, <3>3
    <2>3. QED BY <1>2, <1>6, <1>7, <2>1, <2>2 DEF Continued
  <1>10. QED BY <1>3, <1>7, <1>8, <1>9

\* A save keeps one snapshot of the merchant for the day, and leaves one.
LEMMA SnapshotIsSaved ==
  ASSUME ReportingInv, NEW r \in Requests, pc[r] = "save", op[r].name = "save_mar", SaveSnapshot(r),
         UNCHANGED <<changes, op, got>>
  PROVE  ReportingInv'
  <1>0. SnapshotsOK /\ ReportOK(r) /\ Unwritten(r) /\ SaveOK(r)
    BY ReportParts
  <1>1. PICK m, g : m = Effective(op[r]) /\ g = got[r][1]
    OBVIOUS
  <1>2. \A x \in g[4] : Stored(x.id, m) /\ x.merchant = m /\ x.day = Today
    BY <1>0, <1>1 DEF SaveOK, ReportOK
  <1>3. PICK new :
          /\ new.id = r /\ new.merchant = m /\ new.day = Today /\ IsRow(new) /\ {"merchant", "day"} \subseteq DOMAIN new
          /\ \/ /\ Taken(new) = {} /\ Put(r, new) /\ Answer(r, "200")
             \/ UNCHANGED store /\ Answer(r, "500")
             \/ \E read \in g[4] : \E row \in Snapshots :
                  /\ row.id = read.id
                  /\ Put(row.id, [c \in DOMAIN row |-> IF c # "id" /\ new[c] # read[c] THEN new[c] ELSE row[c]])
                  /\ Answer(r, "200")
    <2>1. PICK new : new = Snapshot(r, m, g)
      OBVIOUS
    <2>2. new.id = r /\ new.merchant = m /\ new.day = Today /\ IsRow(new) /\ {"merchant", "day"} \subseteq DOMAIN new
      BY <2>1 DEF Snapshot, IsRow
    <2>3. \/ g[4] = {} /\ Taken(new) = {} /\ Put(r, new) /\ Answer(r, "200")
          \/ g[4] = {} /\ Taken(new) # {} /\ UNCHANGED store /\ Answer(r, "500")
          \/ \E read \in g[4] : \E row \in store.money_at_risk :
               /\ row.id = read.id
               /\ Put(row.id, [c \in DOMAIN row |-> IF c # "id" /\ new[c] # read[c] THEN new[c] ELSE row[c]])
               /\ Answer(r, "200")
      <3>1. new = Snapshot(r, Effective(op[r]), got[r][1]) /\ g = got[r][1]
        BY <1>1, <2>1
      <3>2. QED BY ONLY <3>1, SaveSnapshot(r) DEF SaveSnapshot
    <2>4. QED BY <2>2, <2>3 DEF Snapshots
  <1>5. CASE Taken(new) = {} /\ Put(r, new) /\ Answer(r, "200")
    <2>1. SnapshotsOK' /\ Continued(r) /\ new \in Snapshots'
      BY <1>0, <1>3, <1>5, SnapshotIsInserted
    <2>2. \E id : Stored(id, Effective(op[r]))'
      BY <1>1, <1>3, <2>1 DEF Stored
    <2>3. PICK status : status = "200" /\ status \in {"200", "500"} /\ Answer(r, status)
      BY <1>5
    <2>4. op[r].name = "save_mar" /\ status = "200" => \E id : Stored(id, Effective(op[r]))'
      BY <2>2
    <2>5. QED BY <2>1, <2>3, <2>4, SaveEnds
  <1>6. CASE UNCHANGED store /\ Answer(r, "500")
    <2>1. SnapshotsOK' /\ Continued(r)
      BY <1>0, <1>6, SameTables
    <2>2. PICK status : status = "500" /\ status # "200" /\ status \in {"200", "500"} /\ Answer(r, status)
      BY <1>6
    <2>3. QED BY <2>1, <2>2, SaveEnds
  <1>7. CASE \E read \in g[4] : \E row \in Snapshots :
               /\ row.id = read.id
               /\ Put(row.id, [c \in DOMAIN row |-> IF c # "id" /\ new[c] # read[c] THEN new[c] ELSE row[c]])
               /\ Answer(r, "200")
    <2>1. PICK read \in g[4], row \in Snapshots :
            /\ row.id = read.id
            /\ Put(row.id, [c \in DOMAIN row |-> IF c # "id" /\ new[c] # read[c] THEN new[c] ELSE row[c]])
            /\ Answer(r, "200")
      BY <1>7
    <2>2. IsRow(row) /\ {"merchant", "day"} \subseteq DOMAIN row
      BY <1>0 DEF SnapshotsOK, Database, Snapshots
    <2>3. row.merchant = m /\ row.day = Today /\ read.merchant = m /\ read.day = Today
      <3>1. \A x, y \in Snapshots : x.id = y.id => x = y
        BY <1>0 DEF SnapshotsOK, Database, Snapshots
      <3>2. PICK x \in Snapshots : x.id = read.id /\ x.merchant = m /\ x.day = Today
        BY <1>2, <2>1 DEF Stored
      <3>3. QED BY <1>2, <2>1, <3>1, <3>2
    <2>4. PICK put : put = [c \in DOMAIN row |-> IF c # "id" /\ new[c] # read[c] THEN new[c] ELSE row[c]]
      OBVIOUS
    <2>5. /\ IsRow(put) /\ put.id = row.id /\ {"merchant", "day"} \subseteq DOMAIN put
          /\ put.merchant = row.merchant /\ put.day = row.day
      BY <1>3, <2>2, <2>3, <2>4 DEF IsRow
    <2>6. Put(row.id, put)
      BY <2>1, <2>4
    <2>7. SnapshotsOK' /\ Continued(r) /\ put \in Snapshots'
      BY <1>0, <2>5, <2>6, SnapshotIsReplaced
    <2>8. \E id : Stored(id, Effective(op[r]))'
      BY <1>1, <2>3, <2>5, <2>7 DEF Stored
    <2>9. PICK status : status = "200" /\ status \in {"200", "500"} /\ Answer(r, status)
      BY <2>1
    <2>10. QED BY <2>7, <2>8, <2>9, SaveEnds
  <1>8. QED BY <1>3, <1>5, <1>6, <1>7

LEMMA ReportingInitInv ==
  ASSUME Init
  PROVE  ReportingInv
  <1>1. SnapshotsOK /\ \A table \in DOMAIN store : \A x \in store[table] : x.id \notin Requests
    BY DatabaseAssumption, SnapshotsAssumption DEF Init, SnapshotsOK, Snapshots
  <1>2. ReportControlOK
    BY ReportsAssumption DEF Init, ReportControlOK
  <1>3. ASSUME NEW r \in Requests
        PROVE  ReportOK(r) /\ Unwritten(r) /\ SaveOK(r)
    <2>1. pc[r] = "idle" /\ op[r] = None /\ got[r] = <<>> /\ answer[r] = None
      BY DEF Init
    <2>2. got[r] \in Seq(Seq({}))
      BY <2>1
    <2>3. QED BY <1>1, <2>1, <2>2, DatabaseAssumption DEF ReportOK, Unwritten, SaveOK
  <1>4. QED BY <1>1, <1>2, <1>3 DEF ReportingInv

LEMMA ReportingNextInv ==
  ASSUME ReportingInv, [Next]_vars
  PROVE  ReportingInv'
  <1>1. CASE UNCHANGED vars
    <2>1. UNCHANGED <<store, changes, pc, op, got, answer>>
      BY <1>1 DEF vars
    <2>2. SnapshotsOK' /\ ReportControlOK'
      BY <2>1 DEF ReportingInv, SnapshotsOK, Snapshots, ReportControlOK
    <2>3. \A r \in Requests : ReportOK(r)' /\ Unwritten(r)' /\ SaveOK(r)'
      BY <2>1 DEF ReportingInv, ReportOK, Unwritten, SaveOK, Stored, Snapshots
    <2>4. QED BY <2>2, <2>3 DEF ReportingInv
  <1>2. CASE CommitRow \/ ChangeStatus
    BY <1>2, OthersCommit
  <1>3. ASSUME NEW r \in Requests, Save(r)
        PROVE  ReportingInv'
    <2>1. pc[r] = "save" /\ UNCHANGED <<changes, op, got>>
      BY <1>3 DEF Save
    <2>2. CASE op[r].name = "save_mar"
      BY <1>3, <2>1, <2>2, SnapshotIsSaved DEF Save
    <2>3. CASE op[r].name # "save_mar"
      BY <1>3, <2>1, <2>3, MetricsAreSaved DEF Save
    <2>4. QED BY <2>2, <2>3
  <1>4. CASE \E r \in Requests : Arrive(r) \/ Read(r) \/ Proceed(r) \/ Save(r) \/ Respond(r)
    BY <1>3, <1>4, ReportArrives, ReportReads, ReportProceeds, ReportResponds
  <1>5. QED BY <1>1, <1>2, <1>4 DEF Next

\* No report writes a row twice: whatever the others commit and however many requests save
\* at a time, a merchant has one snapshot for a day, and whoever was told that it was saved
\* finds it.
THEOREM SnapshotsAreUnique == Spec => []RowsAreUnique
  <1>1. ReportingInv => RowsAreUnique
    <2>1. SUFFICES ASSUME ReportingInv PROVE RowsAreUnique
      OBVIOUS
    <2>2. SnapshotsOK /\ ReportControlOK /\ \A r \in Requests : ReportOK(r) /\ SaveOK(r)
      BY <2>1 DEF ReportingInv
    <2>3. TypeOK
      <3>1. \A r \in Requests :
              /\ op[r] \in Operations[r] \cup {None} /\ (op[r] = None <=> pc[r] = "idle")
              /\ answer[r] \in {None, "200", "400", "403", "404", "500"} /\ (answer[r] # None <=> pc[r] = "done")
              /\ got[r] = <<>> => pc[r] \in {"idle", "done"} /\ answer[r] \notin {"200", "404", "500"}
        BY <2>2 DEF ReportOK, ReportControlOK
      <3>2. \A table \in DOMAIN store : \A x, y \in store[table] : x.id = y.id => x = y
        BY <2>2 DEF SnapshotsOK, Database
      <3>3. QED BY <2>2, <3>1, <3>2 DEF TypeOK, ReportControlOK
    <2>4. OneSnapshotPerDay
      BY <2>2 DEF OneSnapshotPerDay, SnapshotsOK, Snapshots, SaveOK, Stored
    <2>5. QED BY <2>3, <2>4 DEF RowsAreUnique
  <1>2. QED BY <1>1, ReportingInitInv, ReportingNextInv, PTL DEF Spec

(***************************************************************************)
(* How many rows a page has.                                               *)
(***************************************************************************)

\* Of n rows, those after the first k, and no more than l.
PageSize(l, k, n) == IF n <= k THEN 0 ELSE IF n - k <= l THEN n - k ELSE l

Upto(j, n) == IF n <= j THEN n ELSE j

LEMMA PageOfUpto ==
  ASSUME NEW l \in Nat, NEW k \in Nat, NEW n \in Nat
  PROVE  /\ PageSize(l, k, n) \in Nat
         /\ Upto(l + k, n) - Upto(k, n) = PageSize(l, k, n)
         /\ Upto(k, n) <= Upto(l + k, n)
  BY DEF PageSize, Upto

\* Two numbers of rows have pages no further apart.
LEMMA PagesAreNear ==
  ASSUME NEW l \in Nat, NEW k \in Nat, NEW n \in Nat, NEW m \in Nat, NEW d \in Nat, n <= m + d, m <= n + d
  PROVE  PageSize(l, k, n) \in (PageSize(l, k, m) - d)..(PageSize(l, k, m) + d)
  BY DEF PageSize

LEMMA RoomIsPageSize ==
  ASSUME NEW l \in Nat, NEW k \in Nat, NEW n \in Nat
  PROVE  Max({0, Min({l, n - k})}) = PageSize(l, k, n)
  <1>1. PICK j \in Int : j = n - k
    OBVIOUS
  <1>2. Min({l, j}) = IF l <= j THEN l ELSE j
    BY MinOfTwo
  <1>3. PICK i \in Int : i = Min({l, j})
    BY <1>2
  <1>4. Max({0, i}) = IF 0 >= i THEN 0 ELSE i
    BY MaxOfTwo
  <1>5. QED BY <1>1, <1>2, <1>3, <1>4 DEF PageSize

\* The results of a query of finitely many rows.
LEMMA ResultsSize ==
  ASSUME NEW q, IsFiniteSet(q.rows), q.limit \in Nat, NEW taken \in Results(q)
  PROVE  /\ taken \subseteq q.rows /\ IsFiniteSet(taken)
         /\ Cardinality(q.rows) \in Nat
         /\ Cardinality(taken) = Upto(q.limit, Cardinality(q.rows))
         /\ Cardinality(q.rows) <= q.limit => taken = q.rows
  <1>1. Cardinality(q.rows) \in Nat
    BY FS_CardinalityType
  <1>2. CASE Cardinality(q.rows) <= q.limit
    <2>1. taken = q.rows
      BY <1>2 DEF Results
    <2>2. QED BY <1>1, <1>2, <2>1 DEF Upto
  <1>3. CASE ~(Cardinality(q.rows) <= q.limit)
    <2>1. taken \subseteq q.rows /\ Cardinality(taken) = q.limit
      BY <1>3 DEF Results, kSubset
    <2>2. QED BY <1>1, <1>3, <2>1, FS_Subset DEF Upto
  <1>4. QED BY <1>2, <1>3

\* A page has as many rows as there is room for; without an offset, and with the limit of
\* all rows, it has them all.
LEMMA FetchedSize ==
  ASSUME NEW rows, NEW order, NEW l \in Nat, NEW k \in Nat, IsFiniteSet(rows),
         NEW q, q = [rows |-> rows, order |-> order, limit |-> l, offset |-> k],
         NEW page \in Fetched(q)
  PROVE  /\ page \subseteq rows /\ IsFiniteSet(page)
         /\ Cardinality(page) = PageSize(l, k, Cardinality(rows))
         /\ l = Cardinality(rows) /\ k = 0 => page = rows
  <1> DEFINE first == [rows |-> rows, order |-> order, limit |-> k, offset |-> k]
             all == [rows |-> rows, order |-> order, limit |-> l + k, offset |-> k]
  <1>1. [q EXCEPT !.limit = q.offset] = first /\ [q EXCEPT !.limit = @ + q.offset] = all
    OBVIOUS
  <1>2. PICK skipped \in Results(first) : \E upto \in Results(all) : skipped \subseteq upto /\ page = upto \ skipped
    BY <1>1 DEF Fetched
  <1>3. PICK upto \in Results(all) : skipped \subseteq upto /\ page = upto \ skipped
    BY <1>2
  <1>4. first.rows = rows /\ first.limit = k /\ all.rows = rows /\ all.limit = l + k /\ l + k \in Nat
    OBVIOUS
  <1> HIDE DEF first, all
  <1>5. PICK n \in Nat : n = Cardinality(rows)
    BY FS_CardinalityType
  <1>6. Cardinality(skipped) = Upto(k, n) /\ IsFiniteSet(skipped)
    BY <1>2, <1>4, <1>5, ResultsSize
  <1>7. upto \subseteq rows /\ IsFiniteSet(upto) /\ Cardinality(upto) = Upto(l + k, n) /\ (n <= l + k => upto = rows)
    BY <1>3, <1>4, <1>5, ResultsSize
  <1>8. IsFiniteSet(page) /\ Cardinality(page) = Cardinality(upto) - Cardinality(skipped)
    <2>1. IsFiniteSet(page) /\ page \cap skipped = {} /\ upto = page \cup skipped
      BY <1>3, <1>7, FS_Subset
    <2>2. Cardinality(upto) = Cardinality(page) + Cardinality(skipped)
      BY <1>6, <2>1, DisjointUnion
    <2>3. Cardinality(page) \in Nat /\ Cardinality(skipped) \in Nat
      BY <1>6, <2>1, FS_CardinalityType
    <2>4. QED BY <2>1, <2>2, <2>3
  <1>9. Cardinality(page) = PageSize(l, k, n)
    BY <1>6, <1>7, <1>8, PageOfUpto
  <1>10. ASSUME l = n, k = 0
         PROVE  page = rows
    <2>1. Cardinality(skipped) = 0
      BY <1>6, <1>10 DEF Upto
    <2>2. skipped = {}
      BY <1>6, <2>1, FS_EmptySet
    <2>3. QED BY <1>3, <1>7, <1>10, <2>2
  <1>11. QED BY <1>3, <1>5, <1>7, <1>8, <1>9, <1>10

LEMMA WholeIsAll ==
  ASSUME NEW rows, IsFiniteSet(rows), NEW page \in Fetched(Whole(rows))
  PROVE  page = rows
  <1>1. PICK order : Whole(rows) = [rows |-> rows, order |-> order, limit |-> Cardinality(rows), offset |-> 0]
    BY DEF Whole, From, Every
  <1>2. PICK n \in Nat : n = Cardinality(rows)
    BY FS_CardinalityType
  <1>3. PICK q : q = [rows |-> rows, order |-> order, limit |-> n, offset |-> 0] /\ page \in Fetched(q)
    BY <1>1, <1>2
  <1>4. QED BY <1>2, <1>3, FetchedSize

LEMMA PageIsSome ==
  ASSUME NEW o, NEW rows, IsFiniteSet(rows), o.limit \in Nat, o.offset \in Nat, NEW page \in Fetched(PageOf(o, rows))
  PROVE  /\ page \subseteq rows /\ IsFiniteSet(page)
         /\ Cardinality(page) = PageSize(o.limit, o.offset, Cardinality(rows))
  <1>1. PICK l \in Nat : l = o.limit
    OBVIOUS
  <1>2. PICK k \in Nat : k = o.offset
    OBVIOUS
  <1>3. PICK order : PageOf(o, rows) = [rows |-> rows, order |-> order, limit |-> l, offset |-> k]
    BY <1>1, <1>2 DEF PageOf, From, Latest, Largest
  <1>4. PICK q : q = [rows |-> rows, order |-> order, limit |-> l, offset |-> k] /\ page \in Fetched(q)
    BY <1>3
  <1>5. QED BY <1>1, <1>2, <1>4, FetchedSize

(***************************************************************************)
(* The console: the invariant of its reports.                              *)
(***************************************************************************)

\* Lists and the timeline of an incident: what rows they are about, and which of their
\* statements counts or lists them all and which one fetches a page.
Listed == Lists \cup {"incident_timeline"}
LooksUp == {"related_records", "incident_timeline"}

RowsAt(o, m, s) ==
  IF o.name = "list_webhooks" THEN Webhooks(o, s)
  ELSE IF o.name = "audit_log" THEN AuditRows(o, s)
  ELSE IF o.name = "ai_by_query" THEN ResponsesTo(o, s)
  ELSE Own(m, s.transactions)

CountAt(name) == IF name \in {"list_webhooks", "audit_log"} THEN 1 ELSE IF name = "related_records" THEN 3 ELSE 2
PageAt(name) == IF name = "ai_by_query" THEN 1 ELSE 2
Needed(name) == IF name \in LooksUp THEN 3 ELSE 2

Merchant(g) == (CHOOSE x \in g[1] : TRUE).merchant

LEMMA ListStatements ==
  ASSUME NEW o, NEW g, NEW s, o.name \in Listed, o.name \in LooksUp => g # <<>> /\ g[1] # {}
  PROVE  /\ Len(ConsoleReads(o, g, s)) = Needed(o.name)
         /\ ConsoleReads(o, g, s)[CountAt(o.name)] = Whole(RowsAt(o, Merchant(g), s))
         /\ o.name \in Lists => ConsoleReads(o, g, s)[PageAt(o.name)] = PageOf(o, RowsAt(o, Merchant(g), s))
  <1>2. CASE o.name = "list_webhooks"
    <2>1. PICK b, c : b = Whole(Webhooks(o, s)) /\ c = PageOf(o, Webhooks(o, s))
      OBVIOUS
    <2>2. ConsoleReads(o, g, s) = <<>> \o <<b, c>>
      BY <1>2, <2>1 DEF ConsoleReads, Target, ListWebhooks
    <2>3. /\ RowsAt(o, Merchant(g), s) = Webhooks(o, s)
          /\ CountAt(o.name) = 1 /\ PageAt(o.name) = 2 /\ Needed(o.name) = 2
      BY <1>2 DEF RowsAt, CountAt, PageAt, Needed, LooksUp
    <2>4. QED BY PairAfter, <2>1, <2>2, <2>3
  <1>3. CASE o.name = "audit_log"
    <2>1. PICK b, c : b = Whole(AuditRows(o, s)) /\ c = PageOf(o, AuditRows(o, s))
      OBVIOUS
    <2>2. ConsoleReads(o, g, s) = <<>> \o <<b, c>>
      BY <1>3, <2>1 DEF ConsoleReads, Target, AuditLog
    <2>3. /\ RowsAt(o, Merchant(g), s) = AuditRows(o, s)
          /\ CountAt(o.name) = 1 /\ PageAt(o.name) = 2 /\ Needed(o.name) = 2
      BY <1>3 DEF RowsAt, CountAt, PageAt, Needed, LooksUp
    <2>4. QED BY PairAfter, <2>1, <2>2, <2>3
  <1>4. CASE o.name = "ai_by_query"
    <2>1. PICK b, c : b = PageOf(o, ResponsesTo(o, s)) /\ c = Whole(ResponsesTo(o, s))
      OBVIOUS
    <2>2. ConsoleReads(o, g, s) = <<>> \o <<b, c>>
      BY <1>4, <2>1 DEF ConsoleReads, Target, ResponsesByQuery
    <2>3. /\ RowsAt(o, Merchant(g), s) = ResponsesTo(o, s)
          /\ CountAt(o.name) = 2 /\ PageAt(o.name) = 1 /\ Needed(o.name) = 2
      BY <1>4 DEF RowsAt, CountAt, PageAt, Needed, LooksUp
    <2>4. QED BY PairAfter, <2>1, <2>2, <2>3
  <1>5. CASE o.name = "related_records"
    <2>1. PICK a, b, c, m : /\ a = One(Targets(o, s)) /\ m = Merchant(g)
                            /\ b = PageOf(o, Own(m, s.transactions)) /\ c = Whole(Own(m, s.transactions))
      OBVIOUS
    <2>2. ConsoleReads(o, g, s) = <<a>> \o <<b, c>>
      BY <1>5, <2>1 DEF ConsoleReads, Target, RelatedRecords, LooksUp, Merchant
    <2>3. /\ RowsAt(o, Merchant(g), s) = Own(m, s.transactions)
          /\ CountAt(o.name) = 3 /\ PageAt(o.name) = 2 /\ Needed(o.name) = 3
      BY <1>5, <2>1 DEF RowsAt, CountAt, PageAt, Needed, LooksUp
    <2>4. QED BY PairAfter, <2>1, <2>2, <2>3
  <1>6. CASE o.name = "incident_timeline"
    <2>1. PICK a, b, c, m : /\ a = One(Targets(o, s)) /\ m = Merchant(g) /\ b = Whole(Own(m, s.transactions))
                            /\ c = Whole({x \in s.audit_logs : x.about = o.id})
      OBVIOUS
    <2>2. ConsoleReads(o, g, s) = <<a>> \o <<b, c>>
      BY <1>6, <2>1 DEF ConsoleReads, Target, IncidentTimeline, LooksUp, Merchant
    <2>3. /\ RowsAt(o, Merchant(g), s) = Own(m, s.transactions)
          /\ CountAt(o.name) = 2 /\ Needed(o.name) = 3 /\ o.name \notin Lists
      BY <1>6, <2>1 DEF RowsAt, CountAt, Needed, LooksUp, Lists
    <2>4. QED BY PairAfter, <2>1, <2>2, <2>3
  <1>7. QED BY <1>2, <1>3, <1>4, <1>5, <1>6 DEF Listed, Lists

\* The tables are finite, and an event's transaction exists.
TablesOK ==
  /\ \A table \in DOMAIN store : IsFiniteSet(store[table])
  /\ \A t \in store.transactions : t.at \in Int
  /\ \A e \in store.events : HasTransaction(e, store)
  /\ \A a \in Arrivals : a.table = "events" => HasTransaction(a.row, store)

TouchedOK == touched = [r \in Requests |-> touched[r]] /\ \A r \in Requests : IsFiniteSet(touched[r])

\* Rows that were all there were when r read them: what has come since is touched.
SeenAs(r, rows) ==
  LET now == RowsAt(op[r], Merchant(got[r]), store)
  IN rows \subseteq now /\ \A x \in now \ rows : x.id \in touched[r]

\* What a list or a timeline has read.
ListOK(r) ==
  op[r].name \in Listed =>
    /\ op[r].name \in LooksUp /\ Len(got[r]) > 1 => got[r][1] # {}
    /\ Len(got[r]) >= CountAt(op[r].name) => SeenAs(r, got[r][CountAt(op[r].name)])
    /\ op[r].name \in Lists /\ Len(got[r]) >= PageAt(op[r].name) =>
         LET page == got[r][PageAt(op[r].name)] IN
         \E rows : SeenAs(r, rows) /\ Cardinality(page) = PageSize(op[r].limit, op[r].offset, Cardinality(rows))

\* A task that the workers reported when r asked is still in the queue, and touched if it has moved.
HeardOK(r, heard, state) ==
  /\ IsFiniteSet(heard) /\ \A t, u \in heard : t.id = u.id => t = u
  /\ \A t \in heard : t.at = state /\ \E u \in queue : u.id = t.id /\ u.kind = t.kind /\ (u = t \/ t.id \in touched[r])

StatusOK(r) ==
  op[r].name = "queue_status" =>
    /\ Len(got[r]) >= 1 => HeardOK(r, got[r][1], "active")
    /\ Len(got[r]) >= 2 => HeardOK(r, got[r][2], "reserved")

\* What is answered has been read to its end.
CompleteOK(r) ==
  /\ pc[r] = "respond" \/ answer[r] = "200" =>
       /\ op[r].name \in Listed => Len(got[r]) = Needed(op[r].name)
       /\ op[r].name = "queue_status" => Len(got[r]) = 2
  /\ op[r].name = "queue_status" => pc[r] # "read"

FitOK(r) == op[r] # None => ListOK(r) /\ StatusOK(r) /\ CompleteOK(r)

FitInv == ConsoleInv /\ TablesOK /\ TouchedOK /\ \A r \in Requests : FitOK(r)

\* Others' steps: what r's statements are about loses nothing, and what comes or moves is touched.
Drift(r) ==
  /\ touched[r] \subseteq touched'[r]
  /\ \A m : /\ RowsAt(op[r], m, store) \subseteq RowsAt(op[r], m, store')
            /\ \A x \in RowsAt(op[r], m, store') \ RowsAt(op[r], m, store) : x.id \in touched'[r]
  /\ \A t \in queue : \E u \in queue' : u.id = t.id /\ u.kind = t.kind /\ (u = t \/ t.id \in touched'[r])

\* What r has read stays what it was, but for what is touched.
LEMMA SeenStays ==
  ASSUME NEW r, NEW rows, Drift(r), op'[r] = op[r], got'[r] = got[r], SeenAs(r, rows)
  PROVE  SeenAs(r, rows)'
  <1>1. PICK m : m = Merchant(got[r])
    OBVIOUS
  <1>2. PICK now, then : now = RowsAt(op[r], m, store) /\ then = RowsAt(op[r], m, store')
    OBVIOUS
  <1>3. /\ touched[r] \subseteq touched'[r] /\ now \subseteq then
        /\ \A x \in then \ now : x.id \in touched'[r]
    BY <1>2 DEF Drift
  <1>4. rows \subseteq now /\ \A x \in now \ rows : x.id \in touched[r]
    BY <1>1, <1>2 DEF SeenAs
  <1>5. rows \subseteq then /\ \A x \in then \ rows : x.id \in touched'[r]
    BY ONLY <1>3, <1>4
  <1>6. Merchant(got[r])' = m
    BY <1>1 DEF Merchant
  <1>7. QED BY <1>2, <1>5, <1>6 DEF SeenAs

LEMMA ReadsStay ==
  ASSUME NEW r, Drift(r), op'[r] = op[r], got'[r] = got[r], ListOK(r), StatusOK(r)
  PROVE  ListOK(r)' /\ StatusOK(r)'
  <1>1. ListOK(r)'
    <2>1. SUFFICES ASSUME op[r].name \in Listed
                   PROVE  ListOK(r)'
      BY DEF ListOK
    <2>2. Len(got[r]) >= CountAt(op[r].name) => SeenAs(r, got[r][CountAt(op[r].name)])'
      <3>1. SUFFICES ASSUME Len(got[r]) >= CountAt(op[r].name)
                     PROVE  SeenAs(r, got[r][CountAt(op[r].name)])'
        OBVIOUS
      <3>2. PICK rows : rows = got[r][CountAt(op[r].name)]
        OBVIOUS
      <3>3. SeenAs(r, rows)
        BY <2>1, <3>1, <3>2 DEF ListOK
      <3>4. SeenAs(r, rows)'
        BY <3>3, SeenStays
      <3>5. QED BY <3>2, <3>4 DEF SeenAs
    <2>3. ASSUME op[r].name \in Lists, Len(got[r]) >= PageAt(op[r].name)
          PROVE  LET page == got[r][PageAt(op[r].name)] IN
                 \E rows : SeenAs(r, rows)' /\ Cardinality(page) = PageSize(op[r].limit, op[r].offset, Cardinality(rows))
      <3>1. PICK page : page = got[r][PageAt(op[r].name)]
        OBVIOUS
      <3>2. PICK rows : SeenAs(r, rows) /\ Cardinality(page) = PageSize(op[r].limit, op[r].offset, Cardinality(rows))
        BY <2>1, <2>3, <3>1 DEF ListOK
      <3>3. SeenAs(r, rows)'
        BY <3>2, SeenStays
      <3>4. QED BY <3>1, <3>2, <3>3
    <2>4. op[r].name \in LooksUp /\ Len(got[r]) > 1 => got[r][1] # {}
      BY <2>1 DEF ListOK
    <2>5. QED BY <2>2, <2>3, <2>4 DEF ListOK
  <1>2. StatusOK(r)'
    <2>1. ASSUME NEW heard, NEW state, HeardOK(r, heard, state)
          PROVE  HeardOK(r, heard, state)'
      <3>1. ASSUME NEW t \in heard
            PROVE  t.at = state /\ \E u \in queue' : u.id = t.id /\ u.kind = t.kind /\ (u = t \/ t.id \in touched'[r])
        <4>1. PICK u \in queue : u.id = t.id /\ u.kind = t.kind /\ (u = t \/ t.id \in touched[r])
          BY <2>1 DEF HeardOK
        <4>2. PICK v \in queue' : v.id = u.id /\ v.kind = u.kind /\ (v = u \/ u.id \in touched'[r])
          BY DEF Drift
        <4>3. v.id = t.id /\ v.kind = t.kind /\ (v = t \/ t.id \in touched'[r])
          BY <4>1, <4>2 DEF Drift
        <4>4. t.at = state
          BY <2>1 DEF HeardOK
        <4>5. QED BY <4>3, <4>4
      <3>2. QED BY <2>1, <3>1 DEF HeardOK
    <2>2. QED BY <2>1 DEF StatusOK
  <1>3. QED BY <1>1, <1>2

\* What the steps of others leave to a request.
LEMMA OtherFits ==
  ASSUME FitInv, NEW q \in Requests, Kept(q), op[q] = None \/ Drift(q)
  PROVE  FitOK(q)'
  <1>1. CASE op[q] # None
    <2>1. Drift(q) /\ ListOK(q) /\ StatusOK(q) /\ CompleteOK(q)
      BY <1>1 DEF FitInv, FitOK
    <2>2. ListOK(q)' /\ StatusOK(q)'
      BY <2>1, ReadsStay DEF Kept
    <2>3. CompleteOK(q)'
      BY <2>1 DEF CompleteOK, Kept
    <2>4. QED BY <2>2, <2>3 DEF FitOK
  <1>2. CASE op[q] = None
    BY <1>2 DEF FitOK, Kept
  <1>3. QED BY <1>1, <1>2

LEMMA OthersFit ==
  ASSUME FitInv, ConsoleInv', TablesOK', TouchedOK', NEW r \in Requests, FitOK(r)',
         \A q \in Requests : q # r => Kept(q) /\ (op[q] = None \/ Drift(q))
  PROVE  FitInv'
  <1>1. ASSUME NEW q \in Requests, q # r
        PROVE  FitOK(q)'
    BY <1>1, OtherFits
  <1>2. QED BY <1>1 DEF FitInv

\* A step that leaves the tables alone and takes no task from the queue.
LEMMA NothingDrifts ==
  ASSUME FitInv, store' = store, touched' = touched, queue \subseteq queue'
  PROVE  TablesOK' /\ TouchedOK' /\ \A q \in Requests : op'[q] = op[q] => Drift(q)
  <1>1. TablesOK' /\ TouchedOK'
    BY DEF FitInv, TablesOK, TouchedOK
  <1>2. QED BY <1>1 DEF Drift

\* A step of r after which it has read the same.
LEMMA LocalFit ==
  ASSUME FitInv, ConsoleInv', NEW r \in Requests, store' = store, touched' = touched, queue \subseteq queue',
         \A q \in Requests : q # r => Kept(q),
         op'[r] = op[r], got'[r] = got[r], op[r] # None => CompleteOK(r)'
  PROVE  FitInv'
  <1>1. TablesOK' /\ TouchedOK' /\ \A q \in Requests : op'[q] = op[q] => Drift(q)
    BY NothingDrifts
  <1>2. \A q \in Requests : q # r => Kept(q) /\ Drift(q)
    BY <1>1 DEF Kept
  <1>3. FitOK(r)'
    <2>1. SUFFICES ASSUME op[r] # None
                   PROVE  FitOK(r)'
      BY DEF FitOK
    <2>2. ListOK(r) /\ StatusOK(r) /\ Drift(r)
      BY <1>1, <2>1 DEF FitInv, FitOK
    <2>3. ListOK(r)' /\ StatusOK(r)'
      BY <2>2, ReadsStay
    <2>4. QED BY <2>1, <2>3 DEF FitOK
  <1>4. QED BY <1>1, <1>2, <1>3, OthersFit

\* Nothing has been read when a request arrives.
LEMMA ArriveFits ==
  ASSUME FitInv, NEW r \in Requests, ArriveAtConsole(r)
  PROVE  FitInv'
  <1>0. /\ ControlOK /\ RequestOK(r) /\ ConsoleInv
        /\ None \notin {"200", "400", "403", "404", "500"} /\ None \notin Operations[r]
    BY PartsOf DEF FitInv
  <1>1. ConsoleInv'
    BY <1>0, ArriveKeeps
  <1>2. PICK o \in Operations[r] :
          /\ op' = [op EXCEPT ![r] = o]
          /\ IF o.role = "admin"
             THEN pc' = [pc EXCEPT ![r] = IF o.name = "queue_status" THEN "inspect" ELSE "read"] /\ UNCHANGED answer
             ELSE Answer(r, "403")
    BY DEF ArriveAtConsole
  <1>3. /\ pc[r] = "idle" /\ answer[r] = None /\ got[r] = <<>> /\ op[r] = None
        /\ store' = store /\ queue' = queue /\ touched' = touched /\ got' = got
    BY <1>0 DEF ArriveAtConsole, RequestOK
  <1>4. /\ op' = [op EXCEPT ![r] = o] /\ op'[r] = o
        /\ \/ pc' = [pc EXCEPT ![r] = "inspect"] /\ answer' = answer
           \/ pc' = [pc EXCEPT ![r] = "read"] /\ answer' = answer /\ o.name # "queue_status"
           \/ pc' = [pc EXCEPT ![r] = "done"] /\ answer' = [answer EXCEPT ![r] = "403"]
    BY <1>0, <1>2 DEF Answer, ControlOK
  <1>5. \A q \in Requests : q # r => Kept(q)
    BY <1>0, <1>3, <1>4 DEF ControlOK, Kept
  <1>6. TablesOK' /\ TouchedOK' /\ \A q \in Requests : op'[q] = op[q] => Drift(q)
    BY <1>3, NothingDrifts
  <1>7. FitOK(r)'
    <2>1. got'[r] = <<>> /\ Len(<<>>) = 0
      BY <1>3
    <2>2. CountAt(o.name) \in 1..3 /\ PageAt(o.name) \in 1..2
      BY DEF CountAt, PageAt
    <2>3. ListOK(r)' /\ StatusOK(r)'
      BY <1>4, <2>1, <2>2 DEF ListOK, StatusOK
    <2>4. pc'[r] # "respond" /\ answer'[r] # "200" /\ (o.name = "queue_status" => pc'[r] # "read")
      BY <1>0, <1>3, <1>4 DEF ControlOK
    <2>5. CompleteOK(r)'
      BY <1>4, <2>4 DEF CompleteOK
    <2>6. QED BY <2>3, <2>5 DEF FitOK
  <1>8. \A q \in Requests : q # r => Kept(q) /\ Drift(q)
    BY <1>5, <1>6 DEF Kept
  <1>9. QED BY <1>1, <1>6, <1>7, <1>8, OthersFit

\* The post's task joins the queue.
LEMMA EnqueueFits ==
  ASSUME FitInv, NEW r \in Requests, Enqueue(r)
  PROVE  FitInv'
  <1>0. ControlOK /\ RequestOK(r) /\ ConsoleInv
    BY PartsOf DEF FitInv
  <1>1. ConsoleInv'
    BY <1>0, EnqueueKeeps
  <1>2. /\ pc[r] = "enqueue" /\ UNCHANGED <<store, op, got, touched, answer>> /\ queue \subseteq queue'
        /\ pc' = [pc EXCEPT ![r] = "commit"] /\ answer[r] = None
    BY <1>0 DEF Enqueue, RequestOK
  <1>3. pc'[r] = "commit" /\ answer'[r] = None /\ \A q \in Requests : q # r => Kept(q)
    BY <1>0, <1>2 DEF ControlOK, Kept
  <1>4. CompleteOK(r)'
    BY <1>3, DatabaseAssumption DEF CompleteOK
  <1>5. QED BY <1>1, <1>2, <1>3, <1>4, LocalFit

\* A request that fails is not answered with success.
LEMMA FailFits ==
  ASSUME FitInv, NEW r \in Requests, Fail(r)
  PROVE  FitInv'
  <1>0. ControlOK /\ RequestOK(r) /\ ConsoleInv
    BY PartsOf DEF FitInv
  <1>1. ConsoleInv'
    BY <1>0, FailKeeps
  <1>2. /\ UNCHANGED <<store, op, got, touched, queue>>
        /\ pc' = [pc EXCEPT ![r] = "done"] /\ answer' = [answer EXCEPT ![r] = "500"]
    BY DEF Fail, Answer
  <1>3. pc'[r] = "done" /\ answer'[r] = "500" /\ \A q \in Requests : q # r => Kept(q)
    BY <1>0, <1>2 DEF ControlOK, Kept
  <1>4. CompleteOK(r)'
    BY <1>3 DEF CompleteOK
  <1>5. QED BY <1>1, <1>2, <1>3, <1>4, LocalFit

LEMMA RespondFits ==
  ASSUME FitInv, NEW r \in Requests, RespondFromConsole(r)
  PROVE  FitInv'
  <1>0. ControlOK /\ RequestOK(r) /\ ConsoleInv
    BY PartsOf DEF FitInv
  <1>1. ConsoleInv'
    BY <1>0, RespondKeeps
  <1>2. PICK status : /\ pc[r] = "respond" /\ UNCHANGED <<store, op, got, touched, queue>>
                      /\ pc' = [pc EXCEPT ![r] = "done"] /\ answer' = [answer EXCEPT ![r] = status]
    BY DEF RespondFromConsole, Answer
  <1>3. pc'[r] = "done" /\ op[r] # None /\ \A q \in Requests : q # r => Kept(q)
    BY <1>0, <1>2 DEF ControlOK, RequestOK, Kept
  <1>4. CompleteOK(r)
    BY <1>3 DEF FitInv, FitOK
  <1>5. CompleteOK(r)'
    BY <1>2, <1>3, <1>4 DEF CompleteOK
  <1>6. QED BY <1>1, <1>2, <1>3, <1>5, LocalFit

\* A list or a timeline responds when all its statements have been executed.
LEMMA HaveReadFits ==
  ASSUME FitInv, NEW r \in Requests, HaveRead(r)
  PROVE  FitInv'
  <1>0. /\ ControlOK /\ RequestOK(r) /\ ConsoleInv
        /\ None \notin {"200", "400", "403", "404", "500"}
    BY PartsOf DEF FitInv
  <1>1. ConsoleInv'
    BY <1>0, HaveReadKeeps
  <1>2. /\ pc[r] = "read" /\ op[r] # None /\ answer[r] = None /\ UNCHANGED <<store, op, got, touched, queue>>
        /\ Len(got[r]) = Len(ConsoleReads(op[r], got[r], store))
    BY <1>0 DEF HaveRead, RequestOK
  <1>3. \/ pc' = [pc EXCEPT ![r] = "done"] /\ answer' = [answer EXCEPT ![r] = "404"]
        \/ pc' = [pc EXCEPT ![r] = "enqueue"] /\ answer' = answer
        \/ pc' = [pc EXCEPT ![r] = "commit"] /\ answer' = answer
        \/ pc' = [pc EXCEPT ![r] = "respond"] /\ answer' = answer /\ ~Missing(op[r], got[r])
    BY DEF HaveRead, Answer
  <1>4. \A q \in Requests : q # r => Kept(q)
    BY <1>0, <1>2, <1>3 DEF ControlOK, Kept
  <1>5. /\ pc'[r] \in {"done", "enqueue", "commit", "respond"} /\ answer'[r] # "200"
        /\ pc'[r] = "respond" => ~Missing(op[r], got[r])
    BY <1>0, <1>2, <1>3 DEF ControlOK
  <1>6. op[r].name # "queue_status"
    BY <1>2 DEF FitInv, FitOK, CompleteOK
  <1>7. ASSUME op[r].name \in Listed, ~Missing(op[r], got[r])
        PROVE  Len(got[r]) = Needed(op[r].name)
    <2>1. ASSUME op[r].name \in LooksUp
          PROVE  got[r] # <<>> /\ got[r][1] # {}
      <3>1. op[r].name \in DOMAIN Target
        BY <2>1 DEF LooksUp, Target
      <3>2. got[r] # <<>>
        <4>1. SUFFICES ASSUME got[r] = <<>> PROVE FALSE
          OBVIOUS
        <4>2. Len(<<>>) = Len(<<One(Targets(op[r], store))>>)
          BY <1>2, <3>1, <4>1, FirstStatement
        <4>3. QED BY <4>2
      <3>3. QED BY <1>7, <3>1, <3>2 DEF Missing
    <2>2. QED BY <1>2, <1>7, <2>1, ListStatements
  <1>8. CompleteOK(r)'
    BY <1>2, <1>5, <1>6, <1>7 DEF CompleteOK
  <1>9. QED BY <1>1, <1>2, <1>4, <1>8, LocalFit

\* The tables a list reads are finite.
LEMMA RowsAreFinite ==
  ASSUME StoreOK, TablesOK, NEW o, NEW m, o.name \in Listed
  PROVE  IsFiniteSet(RowsAt(o, m, store))
  <1>1. {"transactions", "events", "audit_logs", "ai_responses"} \subseteq DOMAIN store
    BY DEF StoreOK, Database, Tables, ConsoleTables
  <1>2. IsFiniteSet(store.transactions) /\ IsFiniteSet(store.events) /\ IsFiniteSet(store.audit_logs) /\ IsFiniteSet(store.ai_responses)
    BY <1>1 DEF TablesOK
  <1>3. /\ Webhooks(o, store) \subseteq store.events /\ AuditRows(o, store) \subseteq store.audit_logs
        /\ ResponsesTo(o, store) \subseteq store.ai_responses /\ Own(m, store.transactions) \subseteq store.transactions
    BY DEF Webhooks, AuditRows, ResponsesTo, Own
  <1>4. /\ IsFiniteSet(Webhooks(o, store)) /\ IsFiniteSet(AuditRows(o, store))
        /\ IsFiniteSet(ResponsesTo(o, store)) /\ IsFiniteSet(Own(m, store.transactions))
    BY <1>2, <1>3, FS_Subset
  <1>5. QED BY <1>4 DEF RowsAt

\* What a route has read does not say whose rows it is about unless it looks that up.
LEMMA MerchantOfLookUp ==
  ASSUME NEW o, NEW m, NEW n, NEW s, o.name \in Listed \ LooksUp
  PROVE  RowsAt(o, m, s) = RowsAt(o, n, s)
  BY DEF RowsAt, Listed, LooksUp, Lists

\* The statement that counts the rows, or fetches a page of them, sees those there are.
LEMMA ReadFits ==
  ASSUME FitInv, NEW r \in Requests, ReadNext(r)
  PROVE  FitInv'
  <1>0. /\ ControlOK /\ RequestOK(r) /\ ConsoleInv /\ StoreOK /\ TablesOK
        /\ None \notin {"200", "400", "403", "404", "500"} /\ None \notin Operations[r]
    BY PartsOf DEF FitInv
  <1>1. ConsoleInv'
    BY <1>0, ReadKeeps
  <1>2. PICK n, rows :
          /\ n = Len(got[r]) + 1 /\ n <= Len(ConsoleReads(op[r], got[r], store))
          /\ rows \in Fetched(ConsoleReads(op[r], got[r], store)[n])
          /\ got' = [got EXCEPT ![r] = Append(@, rows)]
    BY DEF ReadNext
  <1>3. /\ pc[r] = "read" /\ op[r] # None /\ op[r] \in Operations[r] /\ answer[r] = None
        /\ UNCHANGED <<store, pc, op, touched, answer, queue>>
    BY <1>0 DEF ReadNext, RequestOK
  <1>4. PICK S : got[r] \in Seq(S)
    BY <1>0 DEF RequestOK
  <1>5. /\ got'[r] = Append(got[r], rows) /\ \A q \in Requests : q # r => Kept(q)
    BY <1>0, <1>2, <1>3 DEF ControlOK, Kept
  <1>6. TablesOK' /\ TouchedOK' /\ \A q \in Requests : op'[q] = op[q] => Drift(q)
    BY <1>3, NothingDrifts
  <1>7. op[r].name # "queue_status" /\ ListOK(r) /\ CompleteOK(r)'
    <2>1. ListOK(r) /\ CompleteOK(r)
      BY <1>3 DEF FitInv, FitOK
    <2>2. op[r].name # "queue_status"
      BY <1>3, <2>1 DEF CompleteOK
    <2>3. pc'[r] = "read" /\ answer'[r] = None /\ op'[r] = op[r]
      BY <1>3
    <2>4. QED BY <1>0, <2>1, <2>2, <2>3 DEF CompleteOK
  <1>8. StatusOK(r)'
    BY <1>3, <1>7 DEF StatusOK
  <1>9. ListOK(r)'
    <2>1. SUFFICES ASSUME op[r].name \in Listed
                   PROVE  ListOK(r)'
      BY <1>3 DEF ListOK
    <2>2. PICK o, g : o = op[r] /\ g = got[r]
      OBVIOUS
    <2>3. PICK h : h = Append(g, rows)
      OBVIOUS
    <2>4. /\ o.name \in Listed /\ o \in Operations[r] /\ op'[r] = o /\ got'[r] = h
           /\ store' = store /\ touched' = touched
      BY <1>3, <1>5, <2>2, <2>1, <2>3
    <2>5. /\ Len(g) \in Nat /\ Len(h) = n /\ h[n] = rows /\ (\A i \in 1..Len(g) : h[i] = g[i])
          /\ (g = <<>> <=> Len(g) = 0) /\ n = Len(g) + 1 /\ n \in Nat
      BY <1>2, <1>4, <2>2, <2>3, AppendKeeps
    <2>6. /\ CountAt(o.name) \in 1..3 /\ PageAt(o.name) \in 1..2
          /\ o.name \in LooksUp => CountAt(o.name) > 1 /\ PageAt(o.name) > 1
      BY DEF CountAt, PageAt, LooksUp
    <2>7. CASE o.name \in LooksUp /\ n = 1
      <3>1. ~(Len(h) >= CountAt(o.name)) /\ ~(Len(h) >= PageAt(o.name)) /\ ~(Len(h) > 1)
        BY <2>5, <2>6, <2>7
      <3>2. QED BY <2>4, <3>1 DEF ListOK
    <2>8. CASE ~(o.name \in LooksUp /\ n = 1)
      <3>0. PICK T : T = RowsAt(o, Merchant(g), store)
        OBVIOUS
      <3>1. o.name \in LooksUp => g # <<>> /\ g[1] # {} /\ h[1] = g[1]
        <4>1. SUFFICES ASSUME o.name \in LooksUp PROVE g # <<>> /\ g[1] # {} /\ h[1] = g[1]
          OBVIOUS
        <4>2. g # <<>> /\ h[1] = g[1] /\ n > 1
          BY <2>5, <2>8, <4>1
        <4>3. SUFFICES ASSUME g[1] = {} PROVE FALSE
          BY <4>2
        <4>4. ConsoleReads(o, g, store) = <<One(Targets(o, store))>>
          BY <4>1, <4>3 DEF ConsoleReads, LooksUp, Target
        <4>5. QED BY <1>2, <2>2, <4>2, <4>4
      <3>2. RowsAt(o, Merchant(h), store) = T
        <4>1. CASE o.name \in LooksUp
          BY <3>0, <3>1, <4>1 DEF Merchant
        <4>2. CASE o.name \notin LooksUp
          BY <2>4, <3>0, <4>2, MerchantOfLookUp
        <4>3. QED BY <4>1, <4>2
      <3>3. IsFiniteSet(T)
        BY <1>0, <2>4, <3>0, RowsAreFinite
      <3>4. /\ rows \in Fetched(ConsoleReads(o, g, store)[n])
            /\ ConsoleReads(o, g, store)[CountAt(o.name)] = Whole(T)
            /\ o.name \in Lists => ConsoleReads(o, g, store)[PageAt(o.name)] = PageOf(o, T)
        BY <1>2, <2>2, <2>4, <3>0, <3>1, ListStatements
      <3>5. ASSUME NEW x
            PROVE  SeenAs(r, x) <=> x \subseteq T /\ \A y \in T \ x : y.id \in touched[r]
        BY <2>2, <3>0 DEF SeenAs
      <3>6. ASSUME NEW x
            PROVE  SeenAs(r, x)' <=> x \subseteq T /\ \A y \in T \ x : y.id \in touched[r]
        <4>1. RowsAt(op'[r], Merchant(got'[r]), store') = T /\ touched'[r] = touched[r]
          BY <2>4, <3>2
        <4>2. QED BY <4>1 DEF SeenAs
      <3>7. ASSUME Len(h) >= CountAt(o.name), NEW x, x = h[CountAt(o.name)]
            PROVE  SeenAs(r, x)'
        <4>1. CASE CountAt(o.name) = n
          <5>1. x = T
            BY <2>5, <3>3, <3>4, <3>7, <4>1, WholeIsAll
          <5>2. QED BY <3>6, <5>1
        <4>2. CASE CountAt(o.name) # n
          <5>1. Len(g) >= CountAt(o.name) /\ x = g[CountAt(o.name)]
            BY <2>5, <2>6, <3>7, <4>2
          <5>2. SeenAs(r, x)
            BY <1>7, <2>2, <2>1, <5>1 DEF ListOK
          <5>3. QED BY <3>5, <3>6, <5>2
        <4>3. QED BY <4>1, <4>2
      <3>8. ASSUME o.name \in Lists, Len(h) >= PageAt(o.name), NEW page, page = h[PageAt(o.name)]
            PROVE  \E seen : SeenAs(r, seen)' /\ Cardinality(page) = PageSize(o.limit, o.offset, Cardinality(seen))
        <4>1. CASE PageAt(o.name) = n
          <5>1. o.limit \in Nat /\ o.offset \in Nat
            BY <2>4, <3>8, ListAssumption
          <5>2. page \in Fetched(PageOf(o, T))
            BY <2>5, <3>4, <3>8, <4>1
          <5>3. Cardinality(page) = PageSize(o.limit, o.offset, Cardinality(T))
            BY <3>3, <5>1, <5>2, PageIsSome
          <5>4. SeenAs(r, T)'
            BY <3>6
          <5>5. QED BY <5>3, <5>4
        <4>2. CASE PageAt(o.name) # n
          <5>1. Len(g) >= PageAt(o.name) /\ page = g[PageAt(o.name)]
            BY <2>5, <2>6, <3>8, <4>2
          <5>2. PICK seen : SeenAs(r, seen) /\ Cardinality(page) = PageSize(o.limit, o.offset, Cardinality(seen))
            BY <1>7, <2>2, <2>1, <3>8, <5>1 DEF ListOK
          <5>3. SeenAs(r, seen)'
            BY <3>5, <3>6, <5>2
          <5>4. QED BY <5>2, <5>3
        <4>3. QED BY <4>1, <4>2
      <3>9. QED BY <2>4, <3>1, <3>7, <3>8 DEF ListOK
    <2>9. QED BY <2>7, <2>8
  <1>10. FitOK(r)'
    BY <1>7, <1>8, <1>9 DEF FitOK
  <1>11. \A q \in Requests : q # r => Kept(q) /\ Drift(q)
    BY <1>5, <1>6 DEF Kept
  <1>12. QED BY <1>1, <1>6, <1>10, <1>11, OthersFit

\* What the workers report when they are asked are tasks of the queue.
LEMMA HeardNow ==
  ASSUME QueueOK, NEW r, NEW state, NEW heard, heard \in {{t \in queue : t.at = state}, {}}, queue' = queue
  PROVE  HeardOK(r, heard, state)'
  <1>1. heard \subseteq {t \in queue : t.at = state}
    OBVIOUS
  <1>2. IsFiniteSet(heard) /\ \A t, u \in heard : t.id = u.id => t = u
    <2>1. IsFiniteSet(queue) /\ \A t, u \in queue : t.id = u.id => t = u
      BY DEF QueueOK
    <2>2. heard \subseteq queue
      BY <1>1
    <2>3. QED BY <2>1, <2>2, FS_Subset
  <1>3. \A t \in heard : t.at = state /\ t \in queue'
    BY <1>1
  <1>4. QED BY <1>2, <1>3 DEF HeardOK

\* The workers are asked for what is active, then for what is reserved.
LEMMA InspectFits ==
  ASSUME FitInv, NEW r \in Requests, Inspect(r)
  PROVE  FitInv'
  <1>0. /\ ControlOK /\ RequestOK(r) /\ ConsoleInv /\ QueueOK
        /\ None \notin {"200", "400", "403", "404", "500"}
    BY PartsOf DEF FitInv
  <1>1. ConsoleInv'
    BY <1>0, InspectKeeps
  <1>2. /\ pc[r] = "inspect" /\ op[r] # None /\ op[r].name = "queue_status" /\ answer[r] = None
        /\ UNCHANGED <<store, op, touched, answer, queue>>
    BY <1>0 DEF Inspect, RequestOK
  <1>3. PICK g : g = got[r]
    OBVIOUS
  <1>4. PICK S : g \in Seq(S)
    BY <1>0, <1>3 DEF RequestOK
  <1>5. StatusOK(r)
    BY <1>2 DEF FitInv, FitOK
  <1>6. \/ \E state, heard : /\ Len(g) < 2 /\ (g = <<>> => state = "active") /\ (g # <<>> => state = "reserved")
                             /\ heard \in {{t \in queue : t.at = state}, {}}
                             /\ got' = [got EXCEPT ![r] = Append(g, heard)] /\ pc' = pc
        \/ got' = [got EXCEPT ![r] = <<{}, {}>>] /\ pc' = pc
        \/ got' = got /\ pc' = [pc EXCEPT ![r] = "respond"] /\ Len(g) = 2
    BY <1>3 DEF Inspect
  <1>7. \A q \in Requests : q # r => Kept(q)
    BY <1>0, <1>2, <1>6 DEF ControlOK, Kept
  <1>8. TablesOK' /\ TouchedOK' /\ \A q \in Requests : op'[q] = op[q] => Drift(q)
    BY <1>2, NothingDrifts
  <1>9. CompleteOK(r)'
    <2>1. op'[r] = op[r] /\ op[r].name \notin Listed /\ answer'[r] = None
      BY <1>2 DEF Listed, Lists
    <2>2. pc'[r] = "inspect" \/ (pc'[r] = "respond" /\ got'[r] = g /\ Len(g) = 2)
      BY <1>0, <1>2, <1>3, <1>6 DEF ControlOK
    <2>3. QED BY <1>0, <1>2, <2>1, <2>2 DEF CompleteOK
  <1>10. StatusOK(r)'
    <2>1. CASE got' = got
      <3>1. ASSUME NEW heard, NEW state, HeardOK(r, heard, state)
            PROVE  HeardOK(r, heard, state)'
        BY <1>2, <3>1 DEF HeardOK
      <3>2. QED BY <1>2, <1>5, <2>1, <3>1 DEF StatusOK
    <2>2. CASE got' = [got EXCEPT ![r] = <<{}, {}>>]
      <3>1. got'[r] = <<{}, {}>> /\ got'[r][1] = {} /\ got'[r][2] = {}
        BY <1>0, <2>2 DEF ControlOK
      <3>2. HeardOK(r, {}, "active")' /\ HeardOK(r, {}, "reserved")'
        BY <1>0, <1>2, HeardNow
      <3>3. QED BY <1>2, <3>1, <3>2 DEF StatusOK
    <2>3. CASE \E state, heard : /\ Len(g) < 2 /\ (g = <<>> => state = "active") /\ (g # <<>> => state = "reserved")
                                 /\ heard \in {{t \in queue : t.at = state}, {}}
                                 /\ got' = [got EXCEPT ![r] = Append(g, heard)] /\ pc' = pc
      <3>1. PICK state, heard : /\ Len(g) < 2 /\ (g = <<>> => state = "active") /\ (g # <<>> => state = "reserved")
                                /\ heard \in {{t \in queue : t.at = state}, {}}
                                /\ got' = [got EXCEPT ![r] = Append(g, heard)] /\ pc' = pc
        BY <2>3
      <3>2. HeardOK(r, heard, state)'
        BY <1>0, <1>2, <3>1, HeardNow
      <3>3. PICK h : h = Append(g, heard)
        OBVIOUS
      <3>4. got'[r] = h
        BY <1>0, <3>1, <3>3 DEF ControlOK
      <3>5. /\ Len(g) \in Nat /\ Len(h) = Len(g) + 1 /\ h[Len(g) + 1] = heard
            /\ (\A i \in 1..Len(g) : h[i] = g[i]) /\ (g = <<>> <=> Len(g) = 0)
        BY <1>4, <3>3, AppendKeeps
      <3>6. CASE g = <<>>
        <4>1. Len(h) = 1 /\ h[1] = heard /\ state = "active"
          BY <3>1, <3>5, <3>6
        <4>2. QED BY <1>2, <3>2, <3>4, <4>1 DEF StatusOK
      <3>7. CASE g # <<>>
        <4>1. Len(g) = 1 /\ h[1] = g[1] /\ h[2] = heard /\ state = "reserved"
          <5>0. PICK n : n = Len(g)
            OBVIOUS
          <5>1. Len(g) = 1 /\ state = "reserved"
            <6>1. n \in Nat /\ n # 0 /\ n < 2
              BY ONLY <3>1, <3>5, <3>7, <5>0
            <6>2. n = 1
              BY ONLY <6>1
            <6>3. QED BY ONLY <3>1, <3>7, <5>0, <6>2
          <5>2. h[1] = g[1] /\ h[2] = heard
            BY ONLY <3>5, <5>1
          <5>3. QED BY <5>1, <5>2
        <4>2. PICK first : first = g[1]
          OBVIOUS
        <4>3. HeardOK(r, first, "active")
          BY <1>2, <1>3, <1>5, <4>1, <4>2 DEF StatusOK
        <4>4. HeardOK(r, first, "active")'
          BY <1>2, <4>3 DEF HeardOK
        <4>5. got'[r][1] = first /\ got'[r][2] = heard
          BY <3>4, <4>1, <4>2
        <4>6. QED BY <3>2, <4>1, <4>4, <4>5 DEF StatusOK
      <3>8. QED BY <3>6, <3>7
    <2>4. QED BY <1>6, <2>1, <2>2, <2>3
  <1>11. ListOK(r)'
    BY <1>2 DEF ListOK, Listed, Lists
  <1>12. FitOK(r)'
    BY <1>9, <1>10, <1>11 DEF FitOK
  <1>13. \A q \in Requests : q # r => Kept(q) /\ Drift(q)
    BY <1>7, <1>8 DEF Kept
  <1>14. QED BY <1>1, <1>8, <1>12, <1>13, OthersFit

\* What has changed is touched, for all requests that have begun.
LEMMA TouchesAll ==
  ASSUME FitInv, NEW ids, IsFiniteSet(ids), Touch(ids)
  PROVE  /\ TouchedOK'
         /\ \A q \in Requests : touched[q] \subseteq touched'[q] /\ (op[q] # None => ids \subseteq touched'[q])
  <1>1. \A q \in Requests : touched'[q] = IF pc[q] = "idle" THEN touched[q] ELSE touched[q] \cup ids
    BY DEF Touch
  <1>2. ASSUME NEW q \in Requests
        PROVE  IsFiniteSet(touched[q]) /\ IsFiniteSet(touched[q] \cup ids)
    <2>1. IsFiniteSet(touched[q])
      BY DEF FitInv, TouchedOK
    <2>2. QED BY <2>1, FS_Union
  <1>3. \A q \in Requests : IsFiniteSet(touched'[q])
    BY <1>1, <1>2
  <1>4. \A q \in Requests : op[q] # None => pc[q] # "idle"
    BY DEF FitInv, ConsoleInv, RequestOK
  <1>5. QED BY <1>1, <1>3, <1>4 DEF TouchedOK, Touch

\* A task moves, with its request and its kind.
LEMMA MovedFits ==
  ASSUME FitInv, ConsoleInv', NEW t \in queue, NEW new, new.id = t.id, new.kind = t.kind,
         queue' = (queue \ {t}) \cup {new}, Touch({t.id}),
         UNCHANGED <<store, pc, op, got, answer>>
  PROVE  FitInv'
  <1>1. IsFiniteSet({t.id})
    BY FS_Singleton
  <1>2. /\ TouchedOK'
        /\ \A q \in Requests : touched[q] \subseteq touched'[q] /\ (op[q] # None => t.id \in touched'[q])
    BY <1>1, TouchesAll
  <1>3. TablesOK'
    BY DEF FitInv, TablesOK
  <1>4. ASSUME NEW q \in Requests, op[q] # None
        PROVE  Drift(q)
    <2>1. \A u \in queue : \E v \in queue' : v.id = u.id /\ v.kind = u.kind /\ (v = u \/ u.id \in touched'[q])
      BY <1>2, <1>4
    <2>2. QED BY <1>2, <2>1 DEF Drift
  <1>5. \A q \in Requests : FitOK(q)'
    BY <1>4, OtherFits DEF Kept
  <1>6. QED BY <1>2, <1>3, <1>5 DEF FitInv

LEMMA WorkersFit ==
  ASSUME FitInv, NEW r \in Requests, Reserve(r) \/ Start(r) \/ Finish(r) \/ Lose(r)
  PROVE  FitInv'
  <1>1. ConsoleInv /\ ConsoleInv'
    BY WorkersKeep DEF FitInv
  <1>2. ASSUME NEW t \in queue, NEW to, NEW lost
        PROVE  /\ [t EXCEPT !.at = to].id = t.id /\ [t EXCEPT !.at = to].kind = t.kind
               /\ [t EXCEPT !.at = to, !.lost = lost].id = t.id /\ [t EXCEPT !.at = to, !.lost = lost].kind = t.kind
    <2>1. t = [id |-> t.id, kind |-> t.kind, about |-> t.about, at |-> t.at, lost |-> t.lost]
      BY <1>1 DEF ConsoleInv, QueueOK, TaskOK
    <2>2. PICK i, k, a, p, l : t = [id |-> i, kind |-> k, about |-> a, at |-> p, lost |-> l]
      BY <2>1
    <2>3. QED BY <2>2
  <1>3. PICK t \in queue :
          \/ \E to : Move(t, to)
          \/ /\ queue' = (queue \ {t}) \cup {[t EXCEPT !.at = "broker", !.lost = @ + 1]} /\ Touch({t.id})
             /\ UNCHANGED <<store, changes, pc, op, got, answer>>
    BY DEF Reserve, Start, Finish, Lose, Tasks
  <1>4. CASE \E to : Move(t, to)
    <2>1. PICK to : Move(t, to)
      BY <1>4
    <2>2. PICK new : new = [t EXCEPT !.at = to]
      OBVIOUS
    <2>3. QED BY <1>1, <1>2, <2>1, <2>2, MovedFits DEF Move
  <1>5. CASE /\ queue' = (queue \ {t}) \cup {[t EXCEPT !.at = "broker", !.lost = @ + 1]} /\ Touch({t.id})
             /\ UNCHANGED <<store, changes, pc, op, got, answer>>
    <2>1. PICK lost : lost = t.lost + 1
      OBVIOUS
    <2>2. PICK new : new = [t EXCEPT !.at = "broker", !.lost = lost]
      OBVIOUS
    <2>3. queue' = (queue \ {t}) \cup {new}
      BY <1>5, <2>1, <2>2
    <2>4. new.id = t.id /\ new.kind = t.kind
      BY <1>2, <2>2
    <2>5. QED BY <1>1, <1>5, <2>3, <2>4, MovedFits
  <1>6. QED BY <1>3, <1>4, <1>5

\* A row that is inserted is all that comes to the rows of a list.
LEMMA InsertionShows ==
  ASSUME StoreOK, TablesOK, NEW table, NEW x, IsRow(x), store' = [store EXCEPT ![table] = @ \cup {x}],
         table \in DOMAIN store => \A y \in store[table] : y.id # x.id,
         table = "transactions" => x.at \in Int, table = "events" => HasTransaction(x, store)
  PROVE  /\ TablesOK'
         /\ \A o, m : /\ RowsAt(o, m, store) \subseteq RowsAt(o, m, store')
                      /\ \A y \in RowsAt(o, m, store') \ RowsAt(o, m, store) : y.id = x.id
  <1>1. /\ DOMAIN store' = DOMAIN store
        /\ \A t \in DOMAIN store : t # table => store'[t] = store[t]
        /\ table \in DOMAIN store => store'[table] = store[table] \cup {x}
    BY InsertionGrows
  <1>2. {"transactions", "events", "audit_logs", "ai_responses"} \subseteq DOMAIN store
    BY DEF StoreOK, Database, Tables, ConsoleTables
  <1>3. PICK s, u : s = store /\ u = store'
    OBVIOUS
  <1>4. \A t \in {"transactions", "events", "audit_logs", "ai_responses"} :
          /\ t = table => u[t] = s[t] \cup {x} /\ \A y \in s[t] : y.id # x.id
          /\ t # table => u[t] = s[t]
    BY <1>1, <1>2, <1>3
  <1>5. TablesOK'
    <2>1. \A t \in DOMAIN store : IsFiniteSet(store'[t])
      <3>1. SUFFICES ASSUME NEW t \in DOMAIN store PROVE IsFiniteSet(store'[t])
        OBVIOUS
      <3>2. IsFiniteSet(store[t])
        BY DEF TablesOK
      <3>3. QED BY <1>1, <3>2, FS_AddElement
    <2>2. \A t \in u.transactions : t.at \in Int
      BY <1>3, <1>4 DEF TablesOK
    <2>3. \A e : HasTransaction(e, s) => HasTransaction(e, u)
      BY <1>4 DEF HasTransaction
    <2>4. \A e \in u.events : HasTransaction(e, u)
      BY <1>3, <1>4, <2>3 DEF TablesOK
    <2>5. \A a \in Arrivals : a.table = "events" => HasTransaction(a.row, u)
      BY <1>3, <2>3 DEF TablesOK
    <2>6. QED BY <1>1, <1>3, <2>1, <2>2, <2>4, <2>5 DEF TablesOK
  <1>6. ASSUME NEW o, NEW m
        PROVE  /\ RowsAt(o, m, s) \subseteq RowsAt(o, m, u)
               /\ \A y \in RowsAt(o, m, u) \ RowsAt(o, m, s) : y = x
    <2>1. Own(m, s.transactions) \subseteq Own(m, u.transactions)
          /\ \A y \in Own(m, u.transactions) \ Own(m, s.transactions) : y = x
      BY <1>4 DEF Own
    <2>2. AuditRows(o, s) \subseteq AuditRows(o, u) /\ \A y \in AuditRows(o, u) \ AuditRows(o, s) : y = x
      BY <1>4 DEF AuditRows
    <2>3. ResponsesTo(o, s) \subseteq ResponsesTo(o, u) /\ \A y \in ResponsesTo(o, u) \ ResponsesTo(o, s) : y = x
      BY <1>4 DEF ResponsesTo
    <2>4. Webhooks(o, s) \subseteq Webhooks(o, u) /\ \A y \in Webhooks(o, u) \ Webhooks(o, s) : y = x
      <3>1. CASE table = "transactions"
        <4>1. u.events = s.events /\ u.transactions = s.transactions \cup {x} /\ \A y \in s.transactions : y.id # x.id
          BY <1>4, <3>1
        <4>2. ASSUME NEW e \in s.events, NEW k
              PROVE  (\E t \in Own(k, u.transactions) : t.id = e.transaction) <=> \E t \in Own(k, s.transactions) : t.id = e.transaction
          <5>1. \E t \in s.transactions : t.id = e.transaction
            BY <1>3 DEF TablesOK, HasTransaction
          <5>2. x.id # e.transaction
            BY <4>1, <5>1
          <5>3. QED BY <4>1, <5>2 DEF Own
        <4>3. Webhooks(o, u) = Webhooks(o, s)
          BY <4>1, <4>2 DEF Webhooks
        <4>4. QED BY <4>3
      <3>2. CASE table # "transactions"
        <4>1. u.transactions = s.transactions /\ s.events \subseteq u.events /\ u.events \subseteq s.events \cup {x}
          BY <1>4, <3>2
        <4>2. QED BY <4>1 DEF Webhooks
      <3>3. QED BY <3>1, <3>2
    <2>5. QED BY <2>1, <2>2, <2>3, <2>4 DEF RowsAt
  <1>7. QED BY <1>3, <1>5, <1>6

\* A row that is committed comes to the lists of all that have begun.
LEMMA InsertionDrifts ==
  ASSUME FitInv, NEW table, NEW x, IsRow(x), store' = [store EXCEPT ![table] = @ \cup {x}],
         table \in DOMAIN store => \A y \in store[table] : y.id # x.id,
         table = "transactions" => x.at \in Int, table = "events" => HasTransaction(x, store),
         Touch({x.id}), op' = op, queue' = queue
  PROVE  TablesOK' /\ TouchedOK' /\ \A q \in Requests : op[q] = None \/ Drift(q)
  <1>1. StoreOK /\ TablesOK
    BY DEF FitInv, ConsoleInv
  <1>2. /\ TablesOK'
        /\ \A o, m : /\ RowsAt(o, m, store) \subseteq RowsAt(o, m, store')
                     /\ \A y \in RowsAt(o, m, store') \ RowsAt(o, m, store) : y.id = x.id
    BY <1>1, InsertionShows
  <1>3. IsFiniteSet({x.id})
    BY FS_Singleton
  <1>4. /\ TouchedOK'
        /\ \A q \in Requests : touched[q] \subseteq touched'[q] /\ (op[q] # None => x.id \in touched'[q])
    BY <1>3, TouchesAll
  <1>5. ASSUME NEW q \in Requests, op[q] # None
        PROVE  Drift(q)
    <2>1. x.id \in touched'[q] /\ touched[q] \subseteq touched'[q]
      BY <1>4, <1>5
    <2>2. QED BY <1>2, <2>1 DEF Drift
  <1>6. QED BY <1>2, <1>4, <1>5

\* The row of the audit log comes to the searches of the audit log.
LEMMA CommitAuditFits ==
  ASSUME FitInv, NEW r \in Requests, CommitAudit(r)
  PROVE  FitInv'
  <1>0. ControlOK /\ RequestOK(r) /\ AuditOK(r) /\ StoreOK /\ ConsoleInv
    BY PartsOf DEF FitInv
  <1>1. ConsoleInv'
    BY <1>0, CommitAuditKeeps
  <1>2. /\ pc[r] = "commit" /\ op[r] # None /\ answer[r] = None /\ op[r].name \in Posts
        /\ UNCHANGED <<op, got, answer, queue>> /\ pc' = [pc EXCEPT ![r] = "respond"] /\ Touch({r})
    BY <1>0 DEF CommitAudit, RequestOK
  <1>3. PICK row : row = AuditRow(r) /\ IsRow(row) /\ row.id = r
    <2>1. PICK event, about : AuditRow(r) = [id |-> r, event |-> event, about |-> about, at |-> Now]
      BY DEF AuditRow
    <2>2. IsRow([id |-> r, event |-> event, about |-> about, at |-> Now])
      BY DEF IsRow
    <2>3. QED BY <2>1, <2>2
  <1>4. Mine(r) = {}
    BY <1>0, <1>2, DatabaseAssumption DEF AuditOK, Audited
  <1>5. store' = [store EXCEPT !["audit_logs"] = @ \cup {row}]
    BY <1>3 DEF CommitAudit
  <1>6. \A y \in store["audit_logs"] : y.id # row.id
    BY <1>3, <1>4 DEF Mine
  <1>7. TablesOK' /\ TouchedOK' /\ \A q \in Requests : op[q] = None \/ Drift(q)
    <2>1. PICK table : table = "audit_logs"
      OBVIOUS
    <2>2. /\ IsRow(row) /\ store' = [store EXCEPT ![table] = @ \cup {row}] /\ Touch({row.id}) /\ op' = op /\ queue' = queue
          /\ table \in DOMAIN store => \A y \in store[table] : y.id # row.id
          /\ table # "transactions" /\ table # "events"
      BY <1>2, <1>3, <1>5, <1>6, <2>1
    <2>3. QED BY <2>2, InsertionDrifts
  <1>8. \A q \in Requests : q # r => Kept(q)
    BY <1>0, <1>2 DEF ControlOK, Kept
  <1>9. FitOK(r)'
    <2>1. ListOK(r)' /\ StatusOK(r)'
      <3>1. ListOK(r) /\ StatusOK(r) /\ Drift(r)
        BY <1>2, <1>7 DEF FitInv, FitOK
      <3>2. QED BY <1>2, <3>1, ReadsStay
    <2>2. op[r].name \notin Listed /\ op[r].name # "queue_status"
      BY <1>2 DEF Posts, TaskKind, Listed, Lists
    <2>3. CompleteOK(r)'
      BY <1>2, <2>2 DEF CompleteOK
    <2>4. QED BY <2>1, <2>3 DEF FitOK
  <1>10. QED BY <1>1, <1>7, <1>8, <1>9, OthersFit

LEMMA CommitRowFits ==
  ASSUME FitInv, CommitRow, UNCHANGED queue
  PROVE  FitInv'
  <1>1. ConsoleInv'
    BY CommitRowKeeps DEF FitInv
  <1>2. PICK a \in Arrivals :
          /\ a.row.id \notin {t.id : t \in store[a.table]}
          /\ store' = [store EXCEPT ![a.table] = @ \cup {a.row}]
          /\ Change(a.row.id)
    BY DEF CommitRow
  <1>3. /\ a.table = "transactions" => a.row.at \in Int
        /\ a.table = "events" => HasTransaction(a.row, store)
    BY ConsoleAssumption DEF FitInv, TablesOK
  <1>4. PICK table, row :
          /\ IsRow(row) /\ \A y \in store[table] : y.id # row.id
          /\ store' = [store EXCEPT ![table] = @ \cup {row}] /\ Change(row.id)
          /\ table = "transactions" => row.at \in Int
          /\ table = "events" => HasTransaction(row, store)
    BY <1>2, <1>3, DatabaseAssumption
  <1>5. UNCHANGED <<pc, op, got, answer, queue>> /\ Touch({row.id})
    BY <1>4 DEF Change
  <1>6. TablesOK' /\ TouchedOK' /\ \A q \in Requests : op[q] = None \/ Drift(q)
    BY <1>4, <1>5, InsertionDrifts
  <1>7. \A q \in Requests : FitOK(q)'
    BY <1>5, <1>6, OtherFits DEF Kept
  <1>8. QED BY <1>1, <1>6, <1>7 DEF FitInv

LEMMA FitInitInv ==
  ASSUME InitConsole
  PROVE  FitInv
  <1>1. ConsoleInv
    BY ConsoleInitInv
  <1>2. TablesOK
    <2>1. store \in Stores
      BY DEF InitConsole
    <2>2. QED BY <2>1, ConsoleAssumption DEF TablesOK
  <1>3. TouchedOK
    BY FS_EmptySet DEF InitConsole, TouchedOK
  <1>4. \A r \in Requests : FitOK(r)
    BY DEF InitConsole, FitOK
  <1>5. QED BY <1>1, <1>2, <1>3, <1>4 DEF FitInv

LEMMA FitNextInv ==
  ASSUME FitInv, [ConsoleNext]_consoleVars
  PROVE  FitInv'
  <1>1. CASE UNCHANGED consoleVars
    <2>1. UNCHANGED <<store, changes, pc, op, got, touched, answer, queue>>
      BY <1>1 DEF consoleVars, vars
    <2>2. ConsoleInv'
      BY ConsoleNextInv DEF FitInv
    <2>3. TablesOK' /\ TouchedOK' /\ \A q \in Requests : op'[q] = op[q] => Drift(q)
      BY <2>1, NothingDrifts
    <2>4. \A q \in Requests : FitOK(q)'
      BY <2>1, <2>3, OtherFits DEF Kept
    <2>5. QED BY <2>2, <2>3, <2>4 DEF FitInv
  <1>2. CASE CommitRow /\ UNCHANGED queue
    BY <1>2, CommitRowFits
  <1>3. CASE \E r \in Requests :
               \/ ArriveAtConsole(r) \/ ReadNext(r) \/ HaveRead(r) \/ Enqueue(r) \/ CommitAudit(r)
               \/ Inspect(r) \/ RespondFromConsole(r) \/ Fail(r)
               \/ Reserve(r) \/ Start(r) \/ Finish(r) \/ Lose(r)
    BY <1>3, ArriveFits, ReadFits, HaveReadFits, EnqueueFits, CommitAuditFits, InspectFits, RespondFits,
       FailFits, WorkersFit
  <1>4. QED BY <1>1, <1>2, <1>3 DEF ConsoleNext

(***************************************************************************)
(* Rows in the order of their time.                                        *)
(***************************************************************************)

\* q has the rows of s, each once, the earliest first.
InOrder(q, s) ==
  /\ q \in Seq(s) /\ Len(q) = Cardinality(s)
  /\ \A x \in s : \E i \in 1..Len(q) : q[i] = x
  /\ \A i, j \in 1..Len(q) : i <= j => q[i].at <= q[j].at

\* The sort inserts the rows in whatever order CHOOSE takes them.
LEMMA SortedByInsertion ==
  ASSUME NEW S, IsFiniteSet(S), NEW before
  PROVE  \E h : Sorts(h, before, S) /\ SortedBy(S, before) = h[S]
  <1>1. SortedBy(S, before) = InsertedIn(S, before)
    BY DEF SortedBy, InsertedIn
  <1>2. QED BY <1>1, InsertedOneByOne

LEMMA SortedInOrder ==
  ASSUME NEW S, IsFiniteSet(S), NEW before, NEW key, OrderedBy(before, key, S)
  PROVE  InOrderOf(SortedBy(S, before), S, key)
  BY SortedByInsertion, SortIsInOrder

LEMMA SortedSequence ==
  ASSUME NEW S, IsFiniteSet(S), NEW before
  PROVE  SortedBy(S, before) \in Seq(S)
  BY SortedByInsertion, SortIsSequence

LEMMA SortedByTime ==
  ASSUME NEW rows, IsFiniteSet(rows), \A t \in rows : t.at \in Int
  PROVE  InOrder(Sorted(rows, LAMBDA x, y : x.at < y.at), rows)
  <1>1. PICK before, key : before = {c \in rows \X rows : c[1].at < c[2].at} /\ key = [t \in rows |-> t.at]
    OBVIOUS
  <1>2. PICK sorted : sorted = SortedBy(rows, before)
    OBVIOUS
  <1>3. Sorted(rows, LAMBDA x, y : x.at < y.at) = sorted
    BY <1>1, <1>2 DEF Sorted
  <1>4. \A x \in rows : key[x] = x.at
    BY <1>1
  <1>5. OrderedBy(before, key, rows)
    <2>1. key \in [rows -> Int] /\ \A x, y \in rows : <<x, y>> \in before <=> key[x] < key[y]
      BY <1>1
    <2>2. QED BY <2>1 DEF OrderedBy
  <1>9. InOrderOf(sorted, rows, key)
    BY <1>2, <1>5, SortedInOrder
  <1>10. InOrder(sorted, rows)
    <2>1. PICK q, n : q = sorted /\ n = Len(q)
      OBVIOUS
    <2>2. /\ q \in Seq(rows) /\ n = Cardinality(rows) /\ n \in Nat /\ DOMAIN q = 1..n
          /\ \A x \in rows : \E i \in 1..n : q[i] = x
          /\ \A i, j \in 1..n : i < j => key[q[i]] <= key[q[j]]
      BY <1>9, <2>1 DEF InOrderOf
    <2>3. \A i \in 1..n : q[i] \in rows /\ key[q[i]] = q[i].at /\ q[i].at \in Int
      BY <1>4, <2>2
    <2>4. ASSUME NEW i \in 1..n, NEW j \in 1..n, i <= j
          PROVE  q[i].at <= q[j].at
      <3>1. CASE i < j
        BY <2>2, <2>3, <3>1
      <3>2. CASE i = j
        BY <2>3, <3>2
      <3>3. QED BY <2>2, <2>4, <3>1, <3>2
    <2>5. QED BY <2>1, <2>2, <2>4 DEF InOrder
  <1>11. QED BY <1>3, <1>10

(***************************************************************************)
(* The console: what the invariant says of the answers.                    *)
(***************************************************************************)

LEMMA AnsweredReads ==
  ASSUME FitInv, NEW r \in Requests, answer[r] = "200"
  PROVE  /\ op[r] # None /\ op[r] \in Operations[r] /\ ListOK(r) /\ StatusOK(r)
         /\ \E S : got[r] \in Seq(S)
         /\ op[r].name \in Listed => Len(got[r]) = Needed(op[r].name)
         /\ op[r].name = "queue_status" => Len(got[r]) = 2
         /\ IsFiniteSet(touched[r]) /\ Cardinality(touched[r]) \in Nat
  <1>1. RequestOK(r) /\ None \notin {"200", "400", "403", "404", "500"} /\ FitOK(r)
    BY PartsOf DEF FitInv
  <1>2. op[r] # None /\ op[r] \in Operations[r] /\ \E S : got[r] \in Seq(S)
    BY <1>1 DEF RequestOK
  <1>3. IsFiniteSet(touched[r]) /\ Cardinality(touched[r]) \in Nat
    BY FS_CardinalityType DEF FitInv, TouchedOK
  <1>4. QED BY <1>1, <1>2, <1>3 DEF FitOK, CompleteOK

\* What a list has seen is less than what there is by no more than what is touched.
LEMMA SeenCounts ==
  ASSUME FitInv, NEW r \in Requests, op[r].name \in Listed, NEW rows, SeenAs(r, rows),
         NEW now, now = RowsAt(op[r], Merchant(got[r]), store)
  PROVE  /\ IsFiniteSet(now) /\ IsFiniteSet(rows) /\ Cardinality(now) \in Nat /\ Cardinality(rows) \in Nat
         /\ Cardinality(rows) <= Cardinality(now) /\ Cardinality(now) <= Cardinality(rows) + Cardinality(touched[r])
  <1>1. StoreOK /\ TablesOK /\ IsFiniteSet(touched[r])
    BY DEF FitInv, ConsoleInv, TouchedOK
  <1>2. IsFiniteSet(now)
    BY <1>1, RowsAreFinite
  <1>3. rows \subseteq now /\ \A x \in now \ rows : x.id \in touched[r]
    BY DEF SeenAs
  <1>4. \A x, y \in now : x.id = y.id => x = y
    <2>1. {"transactions", "events", "audit_logs", "ai_responses"} \subseteq DOMAIN store
      BY <1>1 DEF StoreOK, Database, Tables, ConsoleTables
    <2>2. \A table \in {"transactions", "events", "audit_logs", "ai_responses"} :
            \A x, y \in store[table] : x.id = y.id => x = y
      BY <1>1, <2>1 DEF StoreOK, Database
    <2>3. \E table \in {"transactions", "events", "audit_logs", "ai_responses"} : now \subseteq store[table]
      BY DEF RowsAt, Webhooks, AuditRows, ResponsesTo, Own
    <2>4. QED BY <2>2, <2>3
  <1>5. PICK new : new = now \ rows
    OBVIOUS
  <1>6. IsFiniteSet(new) /\ IsFiniteSet(rows) /\ rows \cap new = {} /\ now = rows \cup new
    BY <1>2, <1>3, <1>5, FS_Subset
  <1>7. Cardinality(new) <= Cardinality(touched[r])
    <2>1. PICK f : f = [x \in new |-> x.id]
      OBVIOUS
    <2>2. DOMAIN f = new /\ \A x, y \in new : f[x] = f[y] => x = y
      BY <1>4, <1>5, <2>1
    <2>3. {f[x] : x \in new} \subseteq touched[r]
      BY <1>3, <1>5, <2>1
    <2>4. Cardinality({f[x] : x \in new}) = Cardinality(new)
      BY <1>6, <2>2, CountedByImage
    <2>5. Cardinality({f[x] : x \in new}) <= Cardinality(touched[r])
      BY <1>1, <2>3, FS_Subset
    <2>6. QED BY <2>4, <2>5
  <1>8. Cardinality(now) = Cardinality(rows) + Cardinality(new)
    BY <1>6, DisjointUnion
  <1>9. /\ Cardinality(now) \in Nat /\ Cardinality(rows) \in Nat /\ Cardinality(new) \in Nat
        /\ Cardinality(touched[r]) \in Nat
    BY <1>1, <1>2, <1>6, FS_CardinalityType
  <1>10. QED BY <1>2, <1>6, <1>7, <1>8, <1>9

\* What a list has read, as the route puts it.
PutInOrder(name, h, g, read) ==
  /\ (\E S : h \in Seq(S)) /\ Len(h) = Needed(name)
  /\ g = IF name = "related_records" THEN Tail(h) ELSE h
  /\ read = IF name \in {"list_webhooks", "audit_log"} THEN g ELSE Reverse(g)

\* The count and the page among what a list has read.
LEMMA CountAndPage ==
  ASSUME NEW name \in Lists, NEW h, NEW g, NEW read, PutInOrder(name, h, g, read)
  PROVE  read[1] = h[CountAt(name)] /\ read[2] = h[PageAt(name)]
  <1>0. PICK S : /\ h \in Seq(S) /\ Len(h) = Needed(name)
                 /\ g = IF name = "related_records" THEN Tail(h) ELSE h
                 /\ read = IF name \in {"list_webhooks", "audit_log"} THEN g ELSE Reverse(g)
    BY DEF PutInOrder
  <1>1. CASE name \in {"list_webhooks", "audit_log"}
    BY <1>0, <1>1 DEF CountAt, PageAt
  <1>2. CASE name = "related_records"
    <2>1. Len(h) = 3
      BY <1>0, <1>2 DEF Needed, LooksUp
    <2>2. Len(Tail(h)) = 2 /\ Tail(h)[1] = h[2] /\ Tail(h)[2] = h[3]
      <3>1. h \in Seq(S) /\ Len(h) = 3
        BY <1>0, <2>1
      <3>2. h # <<>>
        BY ONLY <3>1, EmptySeq
      <3>3. PICK tail : tail = Tail(h)
        OBVIOUS
      <3>4. Len(tail) = 2 /\ \A i \in 1..Len(tail) : tail[i] = h[i + 1]
        BY ONLY <3>1, <3>2, <3>3, HeadTailProperties
      <3>5. 1 \in 1..Len(tail) /\ 2 \in 1..Len(tail) /\ 1 + 1 = 2 /\ 2 + 1 = 3
        BY ONLY <3>4
      <3>6. QED BY ONLY <3>3, <3>4, <3>5
    <2>3. g = Tail(h)
      BY <1>0, <1>2
    <2>4. Len(g) = 2 /\ g[1] = h[2] /\ g[2] = h[3]
      BY <2>2, <2>3
    <2>5. read = Reverse(g)
      BY <1>0, <1>2
    <2>6. read[1] = g[2] /\ read[2] = g[1]
      BY <1>0, <2>4, <2>5, TwoReversed
    <2>7. QED BY <1>2, <2>4, <2>6 DEF CountAt, PageAt
  <1>3. CASE name = "ai_by_query"
    <2>1. g = h /\ Len(g) = 2
      BY <1>0, <1>3 DEF Needed, LooksUp
    <2>2. read = Reverse(g)
      BY <1>0, <1>3
    <2>3. read[1] = g[2] /\ read[2] = g[1]
      BY <1>0, <2>1, <2>2, TwoReversed
    <2>4. QED BY <1>3, <2>1, <2>3 DEF CountAt, PageAt
  <1>4. QED BY <1>1, <1>2, <1>3 DEF Lists

LEMMA PagesFit ==
  ASSUME FitInv
  PROVE  PagesFitTotals
  <1> SUFFICES ASSUME NEW r \in Requests, answer[r] = "200", op[r].name \in Lists,
                      NEW g, g = IF op[r].name = "related_records" THEN Tail(got[r]) ELSE got[r],
                      NEW read, read = IF op[r].name \in {"list_webhooks", "audit_log"} THEN g ELSE Reverse(g)
               PROVE  LET room == Max({0, Min({op[r].limit, Count(read[1]) - op[r].offset})})
                          drift == Count(touched[r])
                      IN Count(read[2]) \in (room - drift)..(room + drift)
    BY DEF PagesFitTotals
  <1>1. /\ op[r] \in Operations[r] /\ ListOK(r) /\ op[r].name \in Listed
        /\ \E S : got[r] \in Seq(S)
        /\ Len(got[r]) = Needed(op[r].name) /\ Cardinality(touched[r]) \in Nat
    BY AnsweredReads DEF Listed
  <1>2. read[1] = got[r][CountAt(op[r].name)] /\ read[2] = got[r][PageAt(op[r].name)]
    <2>1. PICK name, h : name \in Lists /\ name = op[r].name /\ h = got[r]
      OBVIOUS
    <2>2. PutInOrder(name, h, g, read)
      BY <1>1, <2>1 DEF PutInOrder
    <2>3. read[1] = h[CountAt(name)] /\ read[2] = h[PageAt(name)]
      BY ONLY <2>1, <2>2, CountAndPage
    <2>4. QED BY <2>1, <2>3
  <1>3. Len(got[r]) >= CountAt(op[r].name) /\ Len(got[r]) >= PageAt(op[r].name)
    BY <1>1 DEF Needed, CountAt, PageAt, LooksUp
  <1>4. SeenAs(r, read[1])
    BY <1>1, <1>2, <1>3 DEF ListOK
  <1>5. PICK rows : SeenAs(r, rows) /\ Cardinality(read[2]) = PageSize(op[r].limit, op[r].offset, Cardinality(rows))
    BY <1>1, <1>2, <1>3 DEF ListOK
  <1>6. PICK l \in Nat : l = op[r].limit
    BY <1>1, ListAssumption
  <1>7. PICK k \in Nat : k = op[r].offset
    BY <1>1, ListAssumption
  <1>8. PICK d \in Nat : d = Cardinality(touched[r])
    BY <1>1
  <1>9. PICK now : now = RowsAt(op[r], Merchant(got[r]), store)
    OBVIOUS
  <1>10. /\ Cardinality(now) \in Nat /\ Cardinality(read[1]) \in Nat
         /\ Cardinality(read[1]) <= Cardinality(now) /\ Cardinality(now) <= Cardinality(read[1]) + d
    BY <1>1, <1>4, <1>8, <1>9, SeenCounts
  <1>11. /\ Cardinality(rows) \in Nat
         /\ Cardinality(rows) <= Cardinality(now) /\ Cardinality(now) <= Cardinality(rows) + d
    BY <1>1, <1>5, <1>8, <1>9, SeenCounts
  <1>12. PICK n \in Nat, m \in Nat : n = Cardinality(rows) /\ m = Cardinality(read[1])
    BY <1>10, <1>11
  <1>13. n <= m + d /\ m <= n + d
    BY <1>10, <1>11, <1>12
  <1>14. PageSize(l, k, n) \in (PageSize(l, k, m) - d)..(PageSize(l, k, m) + d)
    BY <1>13, PagesAreNear
  <1>15. Max({0, Min({l, m - k})}) = PageSize(l, k, m)
    BY RoomIsPageSize
  <1>16. QED BY <1>5, <1>6, <1>7, <1>8, <1>12, <1>14, <1>15 DEF Count

Of(tasks, kind) == Cardinality({t \in tasks : t.kind = kind})

\* The tasks of two reports of the workers are of the queue, and one in both has moved between them.
LEMMA KindsCounted ==
  ASSUME FitInv, NEW r \in Requests, NEW a, HeardOK(r, a, "active"), NEW b, HeardOK(r, b, "reserved"),
         IsFiniteSet(touched[r]), NEW kind
  PROVE  Of(a, kind) + Of(b, kind) <= Of(queue, kind) + Cardinality(touched[r])
  <1>1. PICK A, B, Q : /\ A = {t \in a : t.kind = kind} /\ B = {t \in b : t.kind = kind}
                       /\ Q = {u \in queue : u.kind = kind}
    OBVIOUS
  <1>2. IsFiniteSet(queue) /\ \A t, u \in queue : t.id = u.id => t = u
    BY DEF FitInv, ConsoleInv, QueueOK
  <1>3. IsFiniteSet(A) /\ IsFiniteSet(B) /\ IsFiniteSet(Q)
    BY <1>1, <1>2, FS_Subset DEF HeardOK
  <1>4. PICK f, g, h : f = [t \in A |-> t.id] /\ g = [t \in B |-> t.id] /\ h = [u \in Q |-> u.id]
    OBVIOUS
  <1>5. PICK IA, IB, IQ : IA = {f[t] : t \in A} /\ IB = {g[t] : t \in B} /\ IQ = {h[u] : u \in Q}
    OBVIOUS
  <1>6. Cardinality(IA) = Cardinality(A) /\ IsFiniteSet(IA)
    <2>1. DOMAIN f = A /\ \A x, y \in A : f[x] = f[y] => x = y
      BY <1>1, <1>4 DEF HeardOK
    <2>2. QED BY <1>3, <1>5, <2>1, CountedByImage, FiniteImage
  <1>7. Cardinality(IB) = Cardinality(B) /\ IsFiniteSet(IB)
    <2>1. DOMAIN g = B /\ \A x, y \in B : g[x] = g[y] => x = y
      BY <1>1, <1>4 DEF HeardOK
    <2>2. QED BY <1>3, <1>5, <2>1, CountedByImage, FiniteImage
  <1>8. Cardinality(IQ) = Cardinality(Q) /\ IsFiniteSet(IQ)
    <2>1. DOMAIN h = Q /\ \A x, y \in Q : h[x] = h[y] => x = y
      BY <1>1, <1>2, <1>4
    <2>2. QED BY <1>3, <1>5, <2>1, CountedByImage, FiniteImage
  <1>9. IA \subseteq IQ /\ IB \subseteq IQ
    <2>1. ASSUME NEW t \in A PROVE f[t] \in IQ
      <3>1. PICK u \in queue : u.id = t.id /\ u.kind = t.kind
        BY <1>1, <2>1 DEF HeardOK
      <3>2. u \in Q /\ h[u] = f[t]
        BY <1>1, <1>4, <2>1, <3>1
      <3>3. QED BY <1>5, <3>2
    <2>2. ASSUME NEW t \in B PROVE g[t] \in IQ
      <3>1. PICK u \in queue : u.id = t.id /\ u.kind = t.kind
        BY <1>1, <2>2 DEF HeardOK
      <3>2. u \in Q /\ h[u] = g[t]
        BY <1>1, <1>4, <2>2, <3>1
      <3>3. QED BY <1>5, <3>2
    <2>3. QED BY <1>5, <2>1, <2>2
  <1>10. IA \cap IB \subseteq touched[r]
    <2>1. SUFFICES ASSUME NEW x \in A, NEW y \in B, f[x] = g[y], f[x] \notin touched[r] PROVE FALSE
      BY <1>5
    <2>2. x \in a /\ y \in b /\ x.id = y.id /\ x.id \notin touched[r]
      BY <1>1, <1>4, <2>1
    <2>3. x.at = "active" /\ \E u \in queue : u.id = x.id /\ (u = x \/ x.id \in touched[r])
      BY <2>2 DEF HeardOK
    <2>4. y.at = "reserved" /\ \E u \in queue : u.id = y.id /\ (u = y \/ y.id \in touched[r])
      BY <2>2 DEF HeardOK
    <2>5. x \in queue /\ y \in queue
      BY <2>2, <2>3, <2>4
    <2>6. QED BY <1>2, <2>2, <2>3, <2>4, <2>5
  <1>11. /\ Cardinality(IA \cup IB) = Cardinality(IA) + Cardinality(IB) - Cardinality(IA \cap IB)
         /\ IsFiniteSet(IA \cup IB) /\ IsFiniteSet(IA \cap IB)
    BY <1>6, <1>7, FS_Union, FS_Intersection
  <1>12. Cardinality(IA \cup IB) <= Cardinality(IQ)
    <2>1. IA \cup IB \subseteq IQ
      BY <1>9
    <2>2. QED BY <1>8, <2>1, FS_Subset
  <1>13. Cardinality(IA \cap IB) <= Cardinality(touched[r])
    BY <1>10, FS_Subset
  <1>14. /\ Cardinality(IA) \in Nat /\ Cardinality(IB) \in Nat /\ Cardinality(IQ) \in Nat
         /\ Cardinality(IA \cup IB) \in Nat /\ Cardinality(IA \cap IB) \in Nat /\ Cardinality(touched[r]) \in Nat
    BY <1>6, <1>7, <1>8, <1>11, FS_CardinalityType
  <1>15. Cardinality(IA) + Cardinality(IB) <= Cardinality(IQ) + Cardinality(touched[r])
    BY <1>11, <1>12, <1>13, <1>14
  <1>16. QED BY <1>1, <1>6, <1>7, <1>8, <1>15 DEF Of

LEMMA TasksCounted ==
  ASSUME FitInv
  PROVE  TasksAreCountedOnce
  <1>1. SUFFICES ASSUME NEW r \in Requests, answer[r] = "200", op[r].name = "queue_status", NEW t \in queue
                 PROVE  /\ t.id \notin touched[r] => ~(t \in got[r][1] /\ t \in got[r][2])
                        /\ QueueDepth(got[r])[t.kind] <= Of(queue, t.kind) + Count(touched[r])
    BY DEF TasksAreCountedOnce, Of
  <1>2. Len(got[r]) = 2 /\ StatusOK(r) /\ IsFiniteSet(touched[r])
    BY <1>1, AnsweredReads
  <1>3. HeardOK(r, got[r][1], "active") /\ HeardOK(r, got[r][2], "reserved")
    BY <1>1, <1>2 DEF StatusOK
  <1>4. ~(t \in got[r][1] /\ t \in got[r][2])
    BY <1>3 DEF HeardOK
  <1>5. t.kind \in Range(TaskKind)
    BY <1>1 DEF FitInv, ConsoleInv, QueueOK, TaskOK
  <1>6. QueueDepth(got[r])[t.kind] = Of(got[r][1], t.kind) + Of(got[r][2], t.kind)
    BY <1>5 DEF QueueDepth, Count, Of
  <1>7. Of(got[r][1], t.kind) + Of(got[r][2], t.kind) <= Of(queue, t.kind) + Cardinality(touched[r])
    BY <1>2, <1>3, KindsCounted
  <1>8. QED BY <1>4, <1>6, <1>7 DEF Count

\* At most ten rows of W, all of them if they are fewer, and none left out is later than one of them.
LatestOf(shown, W) ==
  /\ shown \subseteq W /\ Cardinality(shown) <= 10
  /\ Cardinality(shown) < 10 => shown = W
  /\ \A t \in W \ shown, x \in shown : t.at <= x.at

\* The last ten, or all, of rows in order.
LEMMA LastOnesShown ==
  ASSUME NEW W, IsFiniteSet(W), \A t \in W : t.at \in Int
  PROVE  LatestOf(LastTransactions(W), W)
  <1>1. PICK q : q = Sorted(W, LAMBDA x, y : x.at < y.at)
    OBVIOUS
  <1>2. InOrder(q, W)
    <2>1. InOrder(Sorted(W, LAMBDA x, y : x.at < y.at), W)
      BY SortedByTime
    <2>2. QED BY <1>1, <2>1
  <1>3. PICK n \in Nat : n = Cardinality(W) /\ n = Len(q)
    BY <1>2, FS_CardinalityType DEF InOrder
  <1>4. /\ \A i \in 1..n : q[i] \in W
        /\ \A x \in W : \E i \in 1..n : q[i] = x
        /\ \A i, j \in 1..n : i <= j => q[i].at <= q[j].at
    BY <1>2, <1>3 DEF InOrder
  <1>5. PICK f \in Nat : f = Max({1, n - 9}) /\ f = IF 1 >= n - 9 THEN 1 ELSE n - 9
    BY MaxOfTwo
  <1>6. PICK shown : shown = LastTransactions(W)
    OBVIOUS
  <1>7. shown = {q[i] : i \in f..n}
    <2>1. PICK p : p = SubSeq(q, f, n)
      OBVIOUS
    <2>2. /\ p \in Seq(W) /\ Len(p) = IF f <= n THEN n - f + 1 ELSE 0
          /\ \A i \in 1..(n - f + 1) : p[i] = q[f + i - 1]
      <3>1. \A i \in f..n : q[i] \in W
        BY <1>4, <1>5
      <3>2. f \in Int /\ n \in Int
        OBVIOUS
      <3>3. QED BY ONLY <2>1, <3>1, <3>2, SubSeqProperties
    <2>3. shown = {p[i] : i \in DOMAIN p}
      BY <1>1, <1>3, <1>5, <1>6, <2>1 DEF LastTransactions, ToSet
    <2>4. DOMAIN p = 1..(n - f + 1)
      BY <1>5, <2>2
    <2>5. \A i \in 1..(n - f + 1) : f + i - 1 \in f..n /\ p[i] = q[f + i - 1]
      BY <2>2
    <2>6. \A j \in f..n : j - f + 1 \in 1..(n - f + 1) /\ p[j - f + 1] = q[j]
      <3>1. SUFFICES ASSUME NEW j \in f..n PROVE j - f + 1 \in 1..(n - f + 1) /\ p[j - f + 1] = q[j]
        OBVIOUS
      <3>2. PICK i : i = j - f + 1
        OBVIOUS
      <3>3. i \in 1..(n - f + 1) /\ f + i - 1 = j
        BY <3>2
      <3>4. p[i] = q[f + i - 1]
        BY ONLY <2>2, <3>3
      <3>5. QED BY ONLY <3>2, <3>3, <3>4
    <2>7. shown = {p[i] : i \in 1..(n - f + 1)}
      BY ONLY <2>3, <2>4
    <2>8. {p[i] : i \in 1..(n - f + 1)} \subseteq {q[i] : i \in f..n}
      BY ONLY <2>5
    <2>9. {q[i] : i \in f..n} \subseteq {p[i] : i \in 1..(n - f + 1)}
      BY ONLY <2>6
    <2>10. QED BY ONLY <2>7, <2>8, <2>9
  <1>8. shown \subseteq W
    BY <1>4, <1>5, <1>7
  <1>9. PICK before : before = {q[i] : i \in 1..(f - 1)}
    OBVIOUS
  <1>10. W = shown \cup before
    <2>1. \A i \in 1..n : i \in f..n \/ i \in 1..(f - 1)
      OBVIOUS
    <2>2. \A i \in 1..(f - 1) : i \in 1..n
      BY <1>5
    <2>3. W \subseteq shown \cup before
      BY <1>4, <1>7, <1>9, <2>1
    <2>4. before \subseteq W
      BY <1>4, <1>9, <2>2
    <2>5. QED BY <1>8, <2>3, <2>4
  <1>11. IsFiniteSet(shown) /\ Cardinality(shown) <= IF f > n THEN 0 ELSE n - f + 1
    <2>1. IsFiniteSet(f..n) /\ Cardinality(f..n) = IF f > n THEN 0 ELSE n - f + 1
      <3>1. f \in Int /\ n \in Int
        OBVIOUS
      <3>2. QED BY ONLY <3>1, FS_Interval
    <2>2. PICK T, g : T = f..n /\ g = [i \in T |-> q[i]]
      OBVIOUS
    <2>3. IsFiniteSet(T) /\ DOMAIN g = T /\ shown = {g[i] : i \in T}
      BY <1>7, <2>1, <2>2
    <2>4. IsFiniteSet({g[i] : i \in T}) /\ Cardinality({g[i] : i \in T}) <= Cardinality(T)
      BY ONLY <2>3, FiniteImage, ImageIsNoLarger
    <2>5. QED BY <2>1, <2>2, <2>3, <2>4
  <1>12. IsFiniteSet(before) /\ Cardinality(before) <= f - 1
    <2>1. PICK k \in Nat : k = f - 1
      BY <1>5
    <2>2. IsFiniteSet(1..k) /\ Cardinality(1..k) = k
      <3>1. 1 \in Int /\ k \in Int
        OBVIOUS
      <3>2. IsFiniteSet(1..k) /\ Cardinality(1..k) = IF 1 > k THEN 0 ELSE k - 1 + 1
        BY ONLY <3>1, FS_Interval
      <3>3. (IF 1 > k THEN 0 ELSE k - 1 + 1) = k
        OBVIOUS
      <3>4. QED BY ONLY <3>2, <3>3
    <2>3. PICK T, g : T = 1..k /\ g = [i \in T |-> q[i]]
      OBVIOUS
    <2>4. IsFiniteSet(T) /\ DOMAIN g = T /\ before = {g[i] : i \in T}
      BY <1>9, <2>1, <2>2, <2>3
    <2>5. IsFiniteSet({g[i] : i \in T}) /\ Cardinality({g[i] : i \in T}) <= Cardinality(T)
      BY ONLY <2>4, FiniteImage, ImageIsNoLarger
    <2>6. QED BY <2>1, <2>2, <2>3, <2>4, <2>5
  <1>13. Cardinality(shown) \in Nat /\ Cardinality(before) \in Nat /\ Cardinality(shown \cap before) \in Nat
    BY <1>11, <1>12, FS_Intersection, FS_CardinalityType
  <1>14. n = Cardinality(shown) + Cardinality(before) - Cardinality(shown \cap before)
    BY <1>3, <1>10, <1>11, <1>12, FS_Union
  <1>15. Cardinality(shown) <= 10
    BY <1>5, <1>11, <1>13
  <1>16. Cardinality(shown) < 10 => shown = W
    <2>1. SUFFICES ASSUME Cardinality(shown) < 10 PROVE before = {}
      BY <1>10
    <2>2. f = 1
      BY <1>5, <1>12, <1>13, <1>14, <2>1
    <2>3. QED BY <1>9, <2>2
  <1>17. \A t \in W \ shown, x \in shown : t.at <= x.at
    <2>1. SUFFICES ASSUME NEW i \in 1..(f - 1), NEW j \in f..n PROVE q[i].at <= q[j].at
      BY <1>7, <1>9, <1>10
    <2>2. i \in 1..n /\ j \in 1..n /\ i <= j
      BY <1>5
    <2>3. QED BY <1>4, <2>2
  <1>18. LatestOf(shown, W)
    BY <1>8, <1>15, <1>16, <1>17 DEF LatestOf
  <1>19. QED BY <1>6, <1>18

LEMMA TimelinesFit ==
  ASSUME FitInv
  PROVE  TimelinesShowTheLatest
  <1>1. SUFFICES ASSUME NEW r \in Requests, answer[r] = "200", op[r].name = "incident_timeline",
                        NEW others, others = {t \in Own(Merchant(got[r]), store.transactions) :
                                  t.id \notin touched[r] \cup {x.id : x \in LastTransactions(got[r][2])}}
                 PROVE  /\ Count(LastTransactions(got[r][2])) <= 10
                        /\ \A t \in others, x \in LastTransactions(got[r][2]) : t.at <= x.at
                        /\ Count(LastTransactions(got[r][2])) < 10 => others = {}
    BY DEF TimelinesShowTheLatest, Merchant
  <1>2. PICK W, shown, own : /\ W = got[r][2] /\ shown = LastTransactions(W)
                             /\ own = Own(Merchant(got[r]), store.transactions)
    OBVIOUS
  <1>3. op[r] # None /\ ListOK(r) /\ Len(got[r]) = 3
    BY <1>1, AnsweredReads DEF Listed, Needed, LooksUp
  <1>4. RowsAt(op[r], Merchant(got[r]), store) = own
    BY <1>1, <1>2 DEF RowsAt
  <1>5. W \subseteq own /\ \A x \in own \ W : x.id \in touched[r]
    BY <1>1, <1>2, <1>3, <1>4 DEF ListOK, Listed, CountAt, SeenAs
  <1>6. IsFiniteSet(W) /\ \A t \in W : t.at \in Int
    <2>1. IsFiniteSet(own)
      BY <1>1, <1>4, RowsAreFinite DEF FitInv, ConsoleInv, Listed
    <2>2. \A t \in own : t.at \in Int
      BY <1>2 DEF FitInv, TablesOK, Own
    <2>3. QED BY <1>5, <2>1, <2>2, FS_Subset
  <1>7. LatestOf(shown, W)
    BY <1>2, <1>6, LastOnesShown
  <1>8. others \subseteq W \ shown
    BY <1>1, <1>2, <1>5
  <1>9. QED BY <1>2, <1>7, <1>8 DEF LatestOf, Count

\* The invariant of the posts has the types.
LEMMA ConsoleTypes ==
  ASSUME ConsoleInv
  PROVE  ConsoleTypeOK
  <1>1. pc \in [Requests -> Steps] /\ answer \in [Requests -> {None, "200", "403", "404", "500"}]
    BY DEF ConsoleInv, ControlOK
  <1>2. \A r \in Requests : RequestOK(r)
    BY DEF ConsoleInv
  <1>3. \A r \in Requests :
          /\ op[r] \in Operations[r] \cup {None} /\ (op[r] = None <=> pc[r] = "idle")
          /\ answer[r] \in {None, "200", "403", "404", "500"} /\ (answer[r] # None <=> pc[r] = "done")
    BY <1>1, <1>2 DEF RequestOK
  <1>4. /\ Cardinality(Held) <= Slots /\ \A t, u \in queue : t.id = u.id => t = u
        /\ \A t \in queue : TaskOK(t)
    BY DEF ConsoleInv, QueueOK
  <1>5. \A t \in queue : /\ t.id \in Requests /\ t.kind \in Range(TaskKind) /\ t.lost \in 0..MaxLosses
                         /\ t.at \in {"broker", "reserved", "active", "done"}
    BY <1>4 DEF TaskOK
  <1>6. QED BY <1>1, <1>3, <1>4, <1>5 DEF ConsoleTypeOK, Steps, ConsoleInv, ControlOK

\* The reports of the console (admin_operations.py), each read by several statements while
\* others insert rows, posts commit and tasks move: the page of a list has the rows its total
\* lets it have, the timeline of an incident shows the latest transactions of its merchant,
\* and no task is counted twice, give or take what has changed since the request began.
THEOREM ReportsFit == ConsoleSpec => []ReportsFitTheirTables
  <1>1. InitConsole => FitInv
    BY FitInitInv
  <1>2. FitInv /\ [ConsoleNext]_consoleVars => FitInv'
    BY FitNextInv
  <1>3. FitInv => ReportsFitTheirTables
    <2>1. FitInv => ConsoleInv
      BY DEF FitInv
    <2>2. QED BY <2>1, ConsoleTypes, PagesFit, TimelinesFit, TasksCounted DEF ReportsFitTheirTables
  <1>4. QED BY <1>1, <1>2, <1>3, PTL DEF ConsoleSpec

(***************************************************************************)
(* Money at risk: the sums and the score of lists of transactions.         *)
(***************************************************************************)

\* The sum of the amounts.
LEMMA AmountIsSum ==
  ASSUME NEW S, IsFiniteSet(S), NEW f \in [S -> Int], f = [t \in S |-> t.amount]
  PROVE  \E g : SumsOf(g, f, S) /\ Amount(S) = g[S]
  <1>1. Amount(S) = AmountsOf(S)
    BY DEF Amount, AmountsOf
  <1>2. QED BY <1>1, AmountsAreSums

LEMMA AmountIsNatural ==
  ASSUME NEW S, IsFiniteSet(S), \A t \in S : Priced(t)
  PROVE  Amount(S) \in Nat
  <1>1. PICK f : f = [t \in S |-> t.amount]
    OBVIOUS
  <1>2. f \in [S -> Nat] /\ f \in [S -> Int]
    BY <1>1 DEF Priced
  <1>3. PICK g : SumsOf(g, f, S) /\ Amount(S) = g[S]
    BY <1>1, <1>2, AmountIsSum
  <1>4. QED BY <1>2, <1>3, SumsAreNaturals

\* The hours of the pending ones and the days of the unreconciled ones.
LEMMA AgesAreNatural ==
  ASSUME NEW S, IsFiniteSet(S), \A t \in S : Priced(t) /\ t.at <= Now
  PROVE  Ages(S) \in Nat /\ AgesInDays(S) \in Nat
  <1> DEFINE P(g) == g = [s \in SUBSET S |->
                            IF s = {} THEN 0
                            ELSE Age(CHOOSE x \in s : TRUE) + g[s \ {CHOOSE x \in s : TRUE}]]
             Q(g) == g = [s \in SUBSET S |->
                            IF s = {} THEN 0
                            ELSE (Age(CHOOSE x \in s : TRUE) \div Day) + g[s \ {CHOOSE x \in s : TRUE}]]
  <1>1. Ages(S) = (CHOOSE g : P(g))[S]
    BY DEF Ages, MapThenSumSet, MapThenFoldSet
  <1>2. AgesInDays(S) = (CHOOSE g : Q(g))[S]
    BY DEF AgesInDays, MapThenSumSet, MapThenFoldSet
  <1>3. PICK hours, days : hours = [t \in S |-> Age(t)] /\ days = [t \in S |-> Age(t) \div Day]
    OBVIOUS
  <1>4. \A t \in S : Age(t) \in Nat /\ Age(t) \div Day \in Nat
    <2>1. SUFFICES ASSUME NEW t \in S PROVE Age(t) \in Nat /\ Age(t) \div Day \in Nat
      OBVIOUS
    <2>2. PICK n : n = Now - t.at
      OBVIOUS
    <2>3. n \in Nat
      BY <2>2, ReportsAssumption DEF Priced
    <2>4. n \div 48 \in Nat
      BY ONLY <2>3
    <2>5. Age(t) = n /\ Day = 48
      BY <2>2 DEF Age, Day, Hour
    <2>6. QED BY <2>3, <2>4, <2>5
  <1>5. hours \in [S -> Nat] /\ days \in [S -> Nat] /\ hours \in [S -> Int] /\ days \in [S -> Int]
    BY <1>3, <1>4
  <1>6. \A s \in SUBSET S : s # {} => (CHOOSE x \in s : TRUE) \in S
    OBVIOUS
  <1>7. ASSUME NEW g PROVE (P(g) <=> SumsOf(g, hours, S)) /\ (Q(g) <=> SumsOf(g, days, S))
    <2>1. \A s \in SUBSET S : s # {} => /\ hours[CHOOSE x \in s : TRUE] = Age(CHOOSE x \in s : TRUE)
                                       /\ days[CHOOSE x \in s : TRUE] = Age(CHOOSE x \in s : TRUE) \div Day
      BY <1>3, <1>6
    <2>2. \A s \in SUBSET S : Plus(hours, g, s) =
            IF s = {} THEN 0 ELSE Age(CHOOSE x \in s : TRUE) + g[s \ {CHOOSE x \in s : TRUE}]
      BY <2>1 DEF Plus
    <2>3. \A s \in SUBSET S : Plus(days, g, s) =
            IF s = {} THEN 0 ELSE (Age(CHOOSE x \in s : TRUE) \div Day) + g[s \ {CHOOSE x \in s : TRUE}]
      BY <2>1 DEF Plus
    <2>4. QED BY <2>2, <2>3 DEF SumsOf
  <1> HIDE DEF P, Q
  <1>8. (\E g : P(g)) /\ \E g : Q(g)
    BY <1>5, <1>7, SumsExist
  <1>9. SumsOf((CHOOSE g : P(g)), hours, S) /\ SumsOf((CHOOSE g : Q(g)), days, S)
    BY <1>7, <1>8
  <1>10. (CHOOSE g : P(g))[S] \in Nat /\ (CHOOSE g : Q(g))[S] \in Nat
    BY <1>5, <1>9, SumsAreNaturals
  <1>11. QED BY <1>1, <1>2, <1>10

\* Each of the five parts is within its bound, and the bounds add up to 100.
LEMMA ScoreIsBounded ==
  ASSUME NEW pending, IsFiniteSet(pending), NEW unreconciled, IsFiniteSet(unreconciled),
         NEW failed, IsFiniteSet(failed),
         \A t \in pending \cup unreconciled \cup failed : Priced(t) /\ t.at <= Now
  PROVE  RiskScore(pending, unreconciled, failed) \in 0..100
  <1>1. PICK total : total = Amount(pending) + Amount(unreconciled) + Amount(failed)
    OBVIOUS
  <1>2. PICK n, m, k : n = Count(pending) /\ m = Count(unreconciled) /\ k = Count(failed)
    OBVIOUS
  <1>3. PICK hours, days : hours = Ages(pending) /\ days = AgesInDays(unreconciled)
    OBVIOUS
  <1>5. total \in Nat
    <2>1. Amount(pending) \in Nat /\ Amount(unreconciled) \in Nat /\ Amount(failed) \in Nat
      BY AmountIsNatural
    <2>2. QED BY <1>1, <2>1
  <1>6. n \in Nat /\ m \in Nat /\ k \in Nat /\ (pending # {} => n > 0) /\ (unreconciled # {} => m > 0)
    BY <1>2, FS_CardinalityType, FS_EmptySet DEF Count
  <1>7. hours \in Nat /\ days \in Nat
    BY <1>3, AgesAreNatural
  <1>8. PICK older : older = (IF pending = {} THEN 0 ELSE (25 * hours) \div (48 * Hour * n))
    OBVIOUS
  <1>9. PICK late : late = (IF unreconciled = {} THEN 0 ELSE (10 * days) \div (30 * m))
    OBVIOUS
  <1>10. older \in Nat
    <2>1. CASE pending = {}
      BY <1>8, <2>1
    <2>2. CASE pending # {}
      <3>1. PICK x, y : x = 25 * hours /\ y = 48 * Hour * n
        OBVIOUS
      <3>2. Hour = 2 /\ n \in Nat /\ n > 0
        BY <1>6, <2>2 DEF Hour
      <3>3. x \in Nat /\ y \in Nat /\ y > 0
        BY ONLY <1>7, <3>1, <3>2
      <3>4. x \div y \in Nat
        BY ONLY <3>3
      <3>5. QED BY <1>8, <2>2, <3>1, <3>4
    <2>3. QED BY <2>1, <2>2
  <1>11. late \in Nat
    <2>1. CASE unreconciled = {}
      BY <1>9, <2>1
    <2>2. CASE unreconciled # {}
      <3>1. PICK x, y : x = 10 * days /\ y = 30 * m
        OBVIOUS
      <3>2. m \in Nat /\ m > 0
        BY <1>6, <2>2
      <3>3. x \in Nat /\ y \in Nat /\ y > 0
        BY ONLY <1>7, <3>1, <3>2
      <3>4. x \div y \in Nat
        BY ONLY <3>3
      <3>5. QED BY <1>9, <2>2, <3>1, <3>4
    <2>3. QED BY <2>1, <2>2
  <1>12. PICK a, b : a = (30 * total) \div 1000000 /\ b = (n + m + k) \div 10
    OBVIOUS
  <1>13. a \in Nat /\ b \in Nat /\ 2 * k \in Nat
    BY ONLY <1>5, <1>6, <1>12
  <1>14. PICK p, q, s, t, u : /\ p = Min({30, a}) /\ q = Min({20, b}) /\ s = Min({25, older})
                              /\ t = Min({15, 2 * k}) /\ u = Min({10, late})
    OBVIOUS
  <1>15. 30 \in Nat /\ 20 \in Nat /\ 25 \in Nat /\ 15 \in Nat /\ 10 \in Nat /\ 100 \in Nat
    OBVIOUS
  <1>16. Min({30, a}) \in 0..30 /\ Min({20, b}) \in 0..20 /\ Min({15, 2 * k}) \in 0..15
    BY ONLY <1>13, <1>15, WithinBound
  <1>17. Min({25, older}) \in 0..25 /\ Min({10, late}) \in 0..10
    BY ONLY <1>10, <1>11, <1>15, WithinBound
  <1>18. PICK sum : sum = p + q + s + t + u
    OBVIOUS
  <1>19. sum \in Nat
    BY ONLY <1>14, <1>16, <1>17, <1>18
  <1>20. Min({100, sum}) \in 0..100
    BY ONLY <1>15, <1>19, WithinBound
  <1>21. RiskScore(pending, unreconciled, failed) = Min({100, sum})
    BY ONLY <1>1, <1>2, <1>3, <1>8, <1>9, <1>12, <1>14, <1>18 DEF RiskScore
  <1>22. QED BY ONLY <1>20, <1>21

\* The amounts by provider are added up.
LEMMA FoldIsSum ==
  ASSUME NEW by, NEW S, S = DOMAIN by, IsFiniteSet(S), NEW f \in [S -> Int], \A p \in S : f[p] = by[p].amount
  PROVE  \E g : SumsOf(g, f, S) /\ OverProviders(by) = g[S]
  <1>1. OverProviders(by) = AmountsOver(by)
    BY DEF OverProviders, AmountsOver
  <1>2. QED BY <1>1, AmountsOverAreSums

\* The amounts of the groups add up to the amount of all.
LEMMA GroupsAddUp ==
  ASSUME NEW A, IsFiniteSet(A), \A t \in A : Priced(t), NEW P, IsFiniteSet(P), \A t \in A : t.provider \in P,
         NEW k, k = [p \in P |-> Amount({t \in A : t.provider = p})]
  PROVE  k \in [P -> Int] /\ \A h : SumsOf(h, k, P) => h[P] = Amount(A)
  <1>1. PICK f, by : f = [t \in A |-> t.amount] /\ by = [t \in A |-> t.provider]
    OBVIOUS
  <1>2. f \in [A -> Int]
    BY <1>1 DEF Priced
  <1>3. PICK g : SumsOf(g, f, A) /\ Amount(A) = g[A]
    BY <1>1, <1>2, AmountIsSum
  <1>4. ASSUME NEW p \in P
        PROVE  k[p] = g[Share(by, p)] /\ k[p] \in Int
    <2>1. PICK T : T = {t \in A : t.provider = p}
      OBVIOUS
    <2>2. T \in SUBSET A /\ IsFiniteSet(T) /\ T = Share(by, p)
      BY <1>1, <2>1, FS_Subset DEF Share
    <2>3. PICK e : e = [t \in T |-> t.amount]
      OBVIOUS
    <2>4. e \in [T -> Int] /\ \A t \in T : e[t] = f[t]
      BY <1>1, <2>2, <2>3 DEF Priced
    <2>5. PICK h : SumsOf(h, e, T) /\ Amount(T) = h[T]
      BY <2>2, <2>3, <2>4, AmountIsSum
    <2>6. h[T] = g[T]
      BY <1>2, <1>3, <2>2, <2>4, <2>5, SumOfPart
    <2>7. g[T] \in Int
      BY <1>2, <1>3, <2>2, SumsAreIntegers
    <2>8. k[p] = Amount(T)
      BY <2>1
    <2>9. QED BY <2>2, <2>5, <2>6, <2>7, <2>8
  <1>5. k \in [P -> Int]
    BY <1>4
  <1>6. ASSUME NEW h, SumsOf(h, k, P)
        PROVE  h[P] = Amount(A)
    <2>1. by \in [A -> P] /\ \A p \in P : k[p] = g[Share(by, p)]
      BY <1>1, <1>4
    <2>2. /\ IsFiniteSet(A) /\ f \in [A -> Int] /\ SumsOf(g, f, A)
          /\ IsFiniteSet(P) /\ k \in [P -> Int] /\ SumsOf(h, k, P)
      BY <1>2, <1>3, <1>5, <1>6
    <2>4. h[P] = g[A]
      BY ONLY <2>1, <2>2, SumOfGroups
    <2>5. QED BY <1>3, <2>4
  <1>7. QED BY <1>5, <1>6

LEMMA ProvidersAddUp ==
  ASSUME NEW A, IsFiniteSet(A), NEW B, IsFiniteSet(B), NEW C, IsFiniteSet(C),
         \A t \in A \cup B \cup C : Priced(t),
         NEW lists, lists[1] = A, lists[2] = B, lists[3] = C
  PROVE  OverProviders(ByProvider(lists)) = Amount(A) + Amount(B) + Amount(C)
  <1>1. PICK P, by : P = {t.provider : t \in A \cup B \cup C} /\ by = ByProvider(lists)
    OBVIOUS
  <1>2. PICK a, b, c : /\ a = [p \in P |-> Amount({t \in A : t.provider = p})]
                       /\ b = [p \in P |-> Amount({t \in B : t.provider = p})]
                       /\ c = [p \in P |-> Amount({t \in C : t.provider = p})]
    OBVIOUS
  <1>3. IsFiniteSet(P)
    BY <1>1, FewProviders
  <1>4. \A t \in A \cup B \cup C : t.provider \in P
    BY <1>1
  <1>5. /\ a \in [P -> Int] /\ \A h : SumsOf(h, a, P) => h[P] = Amount(A)
        /\ b \in [P -> Int] /\ \A h : SumsOf(h, b, P) => h[P] = Amount(B)
        /\ c \in [P -> Int] /\ \A h : SumsOf(h, c, P) => h[P] = Amount(C)
    <2>1. a \in [P -> Int] /\ \A h : SumsOf(h, a, P) => h[P] = Amount(A)
      BY <1>2, <1>3, <1>4, GroupsAddUp
    <2>2. b \in [P -> Int] /\ \A h : SumsOf(h, b, P) => h[P] = Amount(B)
      BY <1>2, <1>3, <1>4, GroupsAddUp
    <2>3. c \in [P -> Int] /\ \A h : SumsOf(h, c, P) => h[P] = Amount(C)
      BY <1>2, <1>3, <1>4, GroupsAddUp
    <2>4. QED BY <2>1, <2>2, <2>3
  <1>6. DOMAIN by = P /\ \A p \in P : by[p].amount = a[p] + b[p] + c[p]
    <2>1. by = [p \in P |->
                  [amount |-> Amount({t \in A : t.provider = p}) + Amount({t \in B : t.provider = p})
                                + Amount({t \in C : t.provider = p}),
                   count |-> Count({t \in A : t.provider = p}) + Count({t \in B : t.provider = p})
                               + Count({t \in C : t.provider = p})]]
      BY <1>1 DEF ByProvider
    <2>2. QED BY ONLY <1>2, <2>1
  <1>7. PICK f : f = [p \in P |-> by[p].amount]
    OBVIOUS
  <1>8. f \in [P -> Int] /\ \A p \in P : f[p] = a[p] + b[p] + c[p]
    BY <1>5, <1>6, <1>7
  <1>9. PICK g : SumsOf(g, f, P) /\ OverProviders(by) = g[P]
    <2>1. P = DOMAIN by /\ IsFiniteSet(P) /\ f \in [P -> Int] /\ \A p \in P : f[p] = by[p].amount
      BY ONLY <1>3, <1>6, <1>7, <1>8
    <2>2. \E g : SumsOf(g, f, P) /\ OverProviders(by) = g[P]
      BY ONLY <2>1, FoldIsSum
    <2>3. QED BY <2>2
  <1>10. PICK ha, hb, hc : SumsOf(ha, a, P) /\ SumsOf(hb, b, P) /\ SumsOf(hc, c, P)
    <2>1. /\ \E h : SumsOf(h, a, P)
          /\ \E h : SumsOf(h, b, P)
          /\ \E h : SumsOf(h, c, P)
      BY <1>3, <1>5, SumsExist
    <2>2. QED BY ONLY <2>1
  <1>11. g[P] = ha[P] + hb[P] + hc[P]
    <2>1. /\ a \in [P -> Int] /\ b \in [P -> Int] /\ c \in [P -> Int] /\ f \in [P -> Int] /\ IsFiniteSet(P)
          /\ SumsOf(g, f, P) /\ \A p \in P : f[p] = a[p] + b[p] + c[p]
      BY <1>3, <1>5, <1>8, <1>9
    <2>2. QED BY ONLY <1>10, <2>1, SumOfThree
  <1>12. ha[P] = Amount(A) /\ hb[P] = Amount(B) /\ hc[P] = Amount(C)
    BY <1>5, <1>10
  <1>13. QED BY <1>1, <1>9, <1>11, <1>12

(***************************************************************************)
(* The reports: the invariant of what they have read.                      *)
(***************************************************************************)

\* The tables that reports write.
Written == {"money_at_risk", "health"}

\* Snapshots and their totals.
Totalled(rows) == IsFiniteSet(rows) /\ \A x \in rows : "total" \in DOMAIN x /\ x.total \in Nat

\* Tables have an end and rows an identity; the times and amounts that the money at risk is
\* calculated from, what it has been, and the times that the health of a provider is calculated
\* from.
Valued(s) ==
  /\ \A table \in OwnedTables \cup HangingTables : IsFiniteSet(s[table]) /\ \A x \in s[table] : x.id # None
  /\ \A t \in s.transactions : Priced(t)
  /\ "money_at_risk" \in DOMAIN s /\ Totalled(s.money_at_risk)
  /\ IsFiniteSet(s.settlements) /\ \A x \in s.settlements : Timed(x)

\* The columns and identities that the graphs rely on, and these.
Typed(s) ==
  /\ Database(s) /\ OwnedTables \cup HangingTables \subseteq DOMAIN s
  /\ IsFiniteSet(s.transactions) /\ IsFiniteSet(s.events) /\ IsFiniteSet(s.results)
  /\ \A table \in OwnedTables : \A x \in s[table] : "merchant" \in DOMAIN x
  /\ \A table \in HangingTables : \A x \in s[table] : "merchant" \notin DOMAIN x
  /\ \A table \in HangingTables \cup {"transactions"} : Ids(s[table]) \subseteq Names(table)
  /\ Valued(s)

\* Two versions of a transaction: others overwrite its status only.
Versions(t, u) == DOMAIN u = DOMAIN t /\ \A column \in DOMAIN t \ {"status"} : u[column] = t[column]

\* The tables a were what b is now, but for rows whose identity is touched.
Precedes(a, b, ids) ==
  /\ DOMAIN b = DOMAIN a
  /\ \A table \in DOMAIN a \ (Written \cup {"transactions"}) :
       a[table] \subseteq b[table] /\ \A x \in b[table] \ a[table] : x.id \in ids
  /\ \A t \in a.transactions : \E u \in b.transactions : Versions(t, u) /\ (u = t \/ t.id \in ids)
  /\ \A u \in b.transactions \ a.transactions : u.id \in ids

\* The tables were s at some time since r began.
Lately(s, r) == Typed(s) /\ Precedes(s, store, touched[r])

\* The j-th statement of part i of r's report, of which it has read g, over the tables s.
Asked(r, i, g, s) == Queries(Parts(op[r])[i], op[r], g, s)

SeenAt(r, i, j) ==
  \E s : LET g == SubSeq(got[r][i], 1, j - 1) IN
         Lately(s, r) /\ j <= Len(Asked(r, i, g, s)) /\ got[r][i][j] \in Results(Asked(r, i, g, s)[j])

PartRead(r, i) == \E s : Lately(s, r) /\ Len(got[r][i]) = Len(Asked(r, i, got[r][i], s))

\* What r has read is what there was when it read it, and what is answered is read to its end.
HistoryOK(r) ==
  got[r] # <<>> =>
    /\ Len(got[r]) <= Len(Parts(op[r]))
    /\ \A i \in 1..Len(got[r]) : \A j \in 1..Len(got[r][i]) : SeenAt(r, i, j)
    /\ \A i \in 1..(Len(got[r]) - 1) : PartRead(r, i)
    /\ pc[r] # "read" => Len(got[r]) = Len(Parts(op[r])) /\ PartRead(r, Len(got[r]))
    /\ answer[r] = "200" /\ op[r].name \in GraphNames => GraphAnswer(op[r], got[r][1]) = "200"

HistoryInv == ReportingInv /\ Typed(store) /\ \A r \in Requests : HistoryOK(r)

\* What a step does to the tables of a report that has begun.
Moves(r) == Precedes(store, store', touched'[r]) /\ touched[r] \subseteq touched'[r]

LEMMA PrecedesItself ==
  ASSUME NEW s, NEW ids
  PROVE  Precedes(s, s, ids)
  <1>1. \A t \in s.transactions : Versions(t, t)
    BY DEF Versions
  <1>2. QED BY <1>1 DEF Precedes

LEMMA PrecedesOn ==
  ASSUME NEW a, Typed(a), NEW b, NEW c, NEW before, NEW ids, before \subseteq ids,
         Precedes(a, b, before), Precedes(b, c, ids)
  PROVE  Precedes(a, c, ids)
  <1>1. DOMAIN b = DOMAIN a /\ DOMAIN c = DOMAIN a
    BY DEF Precedes
  <1>2. ASSUME NEW table \in DOMAIN a \ (Written \cup {"transactions"})
        PROVE  a[table] \subseteq c[table] /\ \A x \in c[table] \ a[table] : x.id \in ids
    BY <1>1, <1>2 DEF Precedes
  <1>3. ASSUME NEW t \in a.transactions
        PROVE  \E u \in c.transactions : Versions(t, u) /\ (u = t \/ t.id \in ids)
    <2>1. PICK v \in b.transactions : Versions(t, v) /\ (v = t \/ t.id \in before)
      BY <1>3 DEF Precedes
    <2>2. PICK u \in c.transactions : Versions(v, u) /\ (u = v \/ v.id \in ids)
      BY <2>1 DEF Precedes
    <2>3. "id" \in DOMAIN t /\ "id" # "status"
      BY <1>3 DEF Typed, Database, IsRow, Tables
    <2>4. v.id = t.id
      BY <2>1, <2>3 DEF Versions
    <2>5. Versions(t, u)
      BY <2>1, <2>2 DEF Versions
    <2>6. QED BY <2>1, <2>2, <2>4, <2>5
  <1>4. \A u \in c.transactions \ a.transactions : u.id \in ids
    BY DEF Precedes
  <1>5. QED BY <1>1, <1>2, <1>3, <1>4 DEF Precedes

LEMMA LatelyStays ==
  ASSUME NEW s, NEW r, Lately(s, r), Moves(r)
  PROVE  Lately(s, r)'
  <1>1. Typed(s) /\ Precedes(s, store, touched[r]) /\ Precedes(store, store', touched'[r]) /\ touched[r] \subseteq touched'[r]
    BY DEF Lately, Moves
  <1>2. Precedes(s, store', touched'[r])
    BY ONLY <1>1, PrecedesOn
  <1>3. QED BY <1>1, <1>2 DEF Lately

\* What r has read stays what there was when it read it.
LEMMA PastStays ==
  ASSUME NEW r, op'[r] = op[r], Moves(r), NEW i, NEW k, got'[r][k] = got[r][i], Parts(op[r])[k] = Parts(op[r])[i]
  PROVE  (PartRead(r, i) => PartRead(r, k)') /\ \A j : SeenAt(r, i, j) => SeenAt(r, k, j)'
  <1>1. ASSUME NEW g, NEW s PROVE Asked(r, k, g, s)' = Asked(r, i, g, s)
    BY DEF Asked
  <1>2. ASSUME NEW j, SeenAt(r, i, j) PROVE SeenAt(r, k, j)'
    <2>1. PICK s, g : /\ g = SubSeq(got[r][i], 1, j - 1) /\ Lately(s, r) /\ j <= Len(Asked(r, i, g, s))
                      /\ got[r][i][j] \in Results(Asked(r, i, g, s)[j])
      BY <1>2 DEF SeenAt
    <2>2. Lately(s, r)'
      BY <2>1, LatelyStays
    <2>3. Asked(r, k, g, s)' = Asked(r, i, g, s)
      BY <1>1
    <2>4. QED BY <2>1, <2>2, <2>3 DEF SeenAt
  <1>3. ASSUME PartRead(r, i) PROVE PartRead(r, k)'
    <2>1. PICK s, g : g = got[r][i] /\ Lately(s, r) /\ Len(g) = Len(Asked(r, i, g, s))
      BY <1>3 DEF PartRead
    <2>2. Lately(s, r)'
      BY <2>1, LatelyStays
    <2>3. Asked(r, k, g, s)' = Asked(r, i, g, s)
      BY <1>1
    <2>4. QED BY <2>1, <2>2, <2>3 DEF PartRead
  <1>4. QED BY <1>2, <1>3

\* Another's step leaves what r has read.
LEMMA KeptHistory ==
  ASSUME NEW r, HistoryOK(r), Kept(r), Moves(r)
  PROVE  HistoryOK(r)'
  <1>1. op'[r] = op[r] /\ got'[r] = got[r] /\ pc'[r] = pc[r] /\ answer'[r] = answer[r]
    BY DEF Kept
  <1>2. \A i : (PartRead(r, i) => PartRead(r, i)') /\ \A j : SeenAt(r, i, j) => SeenAt(r, i, j)'
    BY <1>1, PastStays
  <1>3. QED BY <1>1, <1>2 DEF HistoryOK

LEMMA HistoryStep ==
  ASSUME HistoryInv, ReportingInv', Typed(store)', NEW r, \A q \in Requests : q # r => Kept(q),
         \A q \in Requests : pc[q] # "idle" => Moves(q), r \in Requests => HistoryOK(r)'
  PROVE  HistoryInv'
  <1>1. ASSUME NEW q \in Requests, q # r
        PROVE  HistoryOK(q)'
    <2>1. Kept(q) /\ HistoryOK(q) /\ ReportOK(q)
      BY <1>1 DEF HistoryInv, ReportingInv
    <2>2. CASE pc[q] = "idle"
      BY <2>1, <2>2 DEF HistoryOK, ReportOK, Kept
    <2>3. CASE pc[q] # "idle"
      BY <2>1, <2>3, KeptHistory
    <2>4. QED BY <2>2, <2>3
  <1>2. QED BY <1>1 DEF HistoryInv

\* A step that leaves the tables.
LEMMA NothingMoves ==
  ASSUME store' = store, touched' = touched, Typed(store)
  PROVE  Typed(store)' /\ \A q : Moves(q)
  BY PrecedesItself DEF Moves

\* Every report has a part.
LEMMA ReportsHaveParts ==
  ASSUME NEW o
  PROVE  Len(Parts(o)) \in Nat \ {0}
  <1>1. CASE o.name \notin DashboardNames
    BY <1>1 DEF Parts
  <1>2. CASE o.name \in DashboardNames
    <2>1. PICK period : period = o.period
      OBVIOUS
    <2>2. \/ DashboardParts(o) = <<"core", "core", "failures", "health", "health", "activities", "anomalies", "alerts">>
          \/ DashboardParts(o) = <<period, "today", "week", "month", "year">>
          \/ DashboardParts(o) = <<"health">>
          \/ DashboardParts(o) = <<"core", "core", "failures", "health">>
          \/ DashboardParts(o) = <<"activities">>
          \/ DashboardParts(o) = <<"core", "failures", "health">>
          \/ DashboardParts(o) = <<"core", "core", "failures", "health", "anomalies">>
          \/ DashboardParts(o) = <<"mission">>
      BY <1>2, <2>1 DEF DashboardParts, DashboardNames
    <2>4. Len(<<period, "today", "week", "month", "year">>) = 5
      OBVIOUS
    <2>5. Parts(o) = DashboardParts(o)
      BY <1>2 DEF Parts
    <2>6. /\ Len(<<"core", "core", "failures", "health", "health", "activities", "anomalies", "alerts">>) = 8
          /\ Len(<<"health">>) = 1 /\ Len(<<"core", "core", "failures", "health">>) = 4 /\ Len(<<"activities">>) = 1
          /\ Len(<<"core", "failures", "health">>) = 3 /\ Len(<<"mission">>) = 1
          /\ Len(<<"core", "core", "failures", "health", "anomalies">>) = 5
      OBVIOUS
    <2>7. PICK parts : parts = DashboardParts(o)
      OBVIOUS
    <2>8. Len(parts) \in {1, 3, 4, 5, 8}
      BY <2>2, <2>4, <2>6, <2>7
    <2>9. QED BY <2>5, <2>7, <2>8
  <1>3. QED BY <1>1, <1>2

LEMMA ArriveHistory ==
  ASSUME HistoryInv, NEW r \in Requests, Arrive(r)
  PROVE  HistoryInv'
  <1>1. ReportingInv'
    BY ReportArrives DEF HistoryInv
  <1>2. store' = store /\ touched' = touched /\ Typed(store)
    BY DEF Arrive, HistoryInv
  <1>3. Typed(store)' /\ \A q : Moves(q)
    BY <1>2, NothingMoves
  <1>4. ReportControlOK /\ ReportOK(r) /\ None \notin {"200", "400", "403", "404", "500"}
    BY ReportParts DEF HistoryInv
  <1>5. PICK o : /\ op' = [op EXCEPT ![r] = o]
                 /\ \/ /\ got' = [got EXCEPT ![r] = <<<<>>>>] /\ pc' = [pc EXCEPT ![r] = "read"]
                       /\ UNCHANGED answer
                    \/ Answer(r, Refused(o)) /\ UNCHANGED got
    BY DEF Arrive
  <1>6. \A q \in Requests : q # r => Kept(q)
    BY <1>4, <1>5 DEF ReportControlOK, Kept, Answer
  <1>7. pc[r] = "idle" /\ got[r] = <<>> /\ answer[r] = None
    BY <1>4 DEF Arrive, ReportOK
  <1>8. got'[r] = <<>> \/ (got'[r] = <<<<>>>> /\ pc'[r] = "read" /\ answer'[r] = None)
    BY <1>4, <1>5, <1>7 DEF ReportControlOK
  <1>9. HistoryOK(r)'
    <2>1. CASE got'[r] = <<>>
      BY <2>1 DEF HistoryOK
    <2>2. CASE got'[r] = <<<<>>>> /\ pc'[r] = "read" /\ answer'[r] = None
      <3>1. PICK nothing : nothing = <<>> /\ got'[r] = <<nothing>>
        BY <2>2
      <3>2. Len(<<nothing>>) = 1 /\ <<nothing>>[1] = nothing /\ Len(nothing) = 0
        BY ONLY <3>1
      <3>3. Len(got'[r]) = 1 /\ Len(got'[r][1]) = 0
        BY <3>1, <3>2
      <3>4. Len(Parts(op[r]))' \in Nat \ {0}
        BY ReportsHaveParts
      <3>5. QED BY <1>4, <2>2, <3>3, <3>4 DEF HistoryOK
    <2>3. QED BY <1>8, <2>1, <2>2
  <1>10. QED BY <1>1, <1>3, <1>6, <1>9, HistoryStep

\* What the tables are now.
LEMMA LatelyNow ==
  ASSUME NEW r, Typed(store)
  PROVE  Lately(store, r)
  BY PrecedesItself DEF Lately

LEMMA ReadHistory ==
  ASSUME HistoryInv, NEW r \in Requests, Read(r)
  PROVE  HistoryInv'
  <1>1. ReportingInv'
    BY ReportReads DEF HistoryInv
  <1>2. store' = store /\ touched' = touched /\ Typed(store)
    BY DEF Read, HistoryInv
  <1>3. Typed(store)' /\ \A q : Moves(q)
    BY <1>2, NothingMoves
  <1>4. ReportControlOK /\ ReportOK(r) /\ HistoryOK(r) /\ None \notin {"200", "400", "403", "404", "500"}
    BY ReportParts DEF HistoryInv
  <1>5. /\ pc[r] = "read" /\ op[r] # None /\ answer[r] = None /\ got[r] # <<>>
        /\ UNCHANGED <<store, changes, pc, op, answer>>
    BY <1>4 DEF Read, ReportOK
  <1>6. PICK S : got[r] \in Seq(Seq(S))
    BY <1>4 DEF ReportOK
  <1>7. PICK i, n, result :
          /\ i = Len(got[r]) /\ n = Len(got[r][i]) + 1
          /\ n <= Len(Statements(r)) /\ result \in Results(Statements(r)[n])
          /\ got' = [got EXCEPT ![r][i] = Append(@, result)]
    BY DEF Read
  <1>8. PICK g : g = got[r][i]
    OBVIOUS
  <1>9. i \in Nat \ {0} /\ i \in DOMAIN got[r] /\ g \in Seq(S) /\ Len(g) \in Nat
    BY <1>5, <1>6, <1>7, <1>8
  <1>10. /\ got'[r] = [got[r] EXCEPT ![i] = Append(g, result)]
         /\ \A q \in Requests : q # r => got'[q] = got[q]
    BY <1>4, <1>7, <1>8 DEF ReportControlOK
  <1>11. /\ Len(got'[r]) = i /\ got'[r][i] = Append(g, result)
         /\ \A k \in 1..i : k # i => got'[r][k] = got[r][k]
    <2>1. PICK T, parts, new, now : parts = got[r] /\ parts \in Seq(T) /\ new = Append(g, result)
                                    /\ now = got'[r] /\ now = [parts EXCEPT ![i] = new]
      BY <1>6, <1>10
    <2>2. i \in Nat \ {0} /\ i = Len(parts) /\ DOMAIN parts = 1..i
      BY <1>7, <1>9, <2>1
    <2>3. DOMAIN now = 1..i /\ now[i] = new /\ \A k \in 1..i : k # i => now[k] = parts[k]
      BY <2>1, <2>2
    <2>4. Len(now) = i
      BY ONLY <2>2, <2>3
    <2>5. QED BY <2>1, <2>3, <2>4
  <1>12. \A q \in Requests : q # r => Kept(q)
    BY <1>5, <1>10 DEF Kept
  <1>13. /\ Len(got[r]) <= Len(Parts(op[r]))
         /\ \A k \in 1..i : \A j \in 1..Len(got[r][k]) : SeenAt(r, k, j)
         /\ \A k \in 1..(i - 1) : PartRead(r, k)
    BY <1>4, <1>5, <1>7 DEF HistoryOK
  <1>14. ASSUME NEW k, NEW h, NEW s PROVE Asked(r, k, h, s)' = Asked(r, k, h, s)
    BY <1>5 DEF Asked
  <1>15. ASSUME NEW s, Lately(s, r) PROVE Lately(s, r)'
    BY <1>3, <1>15, LatelyStays
  <1>16. ASSUME NEW k \in 1..i, k # i
         PROVE  (PartRead(r, k) => PartRead(r, k)') /\ \A j : SeenAt(r, k, j) => SeenAt(r, k, j)'
    BY <1>3, <1>5, <1>11, <1>16, PastStays
  <1>17. ASSUME NEW j \in 1..Len(got'[r][i])
         PROVE  SeenAt(r, i, j)'
    <2>1. PICK T : g \in Seq(T) /\ result \in T
      <3>1. g \in Seq(S \cup {result})
        BY <1>9
      <3>2. QED BY <3>1
    <2>2. j \in 1..(Len(g) + 1) /\ SubSeq(got'[r][i], 1, j - 1) = SubSeq(g, 1, j - 1)
      <3>1. Len(Append(g, result)) = Len(g) + 1
        BY <2>1
      <3>2. j \in 1..(Len(g) + 1)
        BY <1>11, <3>1
      <3>3. SubSeq(Append(g, result), 1, j - 1) = SubSeq(g, 1, j - 1)
        BY ONLY <2>1, <3>2, PrefixStays
      <3>4. QED BY <1>11, <3>2, <3>3
    <2>3. CASE j # Len(g) + 1
      <3>1. j \in 1..Len(g) /\ got'[r][i][j] = g[j]
        BY <1>9, <1>11, <2>1, <2>2, <2>3
      <3>2. SeenAt(r, i, j)
        BY <1>8, <1>9, <1>13, <3>1
      <3>3. QED BY <1>8, <1>14, <1>15, <2>2, <3>1, <3>2 DEF SeenAt
    <2>4. CASE j = Len(g) + 1
      <3>1. got'[r][i][j] = result /\ j = n
        BY <1>7, <1>8, <1>9, <1>11, <2>1, <2>4
      <3>2. SubSeq(g, 1, j - 1) = g
        BY <1>9, <2>4, WholePrefix
      <3>3. Statements(r) = Asked(r, i, g, store)
        BY <1>7, <1>8 DEF Statements, Asked
      <3>4. Lately(store, r)
        BY <1>2, LatelyNow
      <3>5. PICK s : s = store
        OBVIOUS
      <3>6. Lately(s, r)' /\ Asked(r, i, g, s)' = Statements(r)
        BY <1>14, <1>15, <3>3, <3>4, <3>5
      <3>7. QED BY <1>7, <2>2, <3>1, <3>2, <3>6 DEF SeenAt
    <2>5. QED BY <2>3, <2>4
  <1>18. HistoryOK(r)'
    <2>1. \A k \in 1..i : \A j \in 1..Len(got'[r][k]) : SeenAt(r, k, j)'
      BY <1>11, <1>13, <1>16, <1>17
    <2>2. \A k \in 1..(i - 1) : PartRead(r, k)'
      BY <1>9, <1>13, <1>16
    <2>3. Len(got'[r]) <= Len(Parts(op'[r]))
      BY <1>5, <1>7, <1>11, <1>13
    <2>4. pc'[r] = "read" /\ answer'[r] # "200"
      BY <1>4, <1>5
    <2>5. QED BY <1>11, <2>1, <2>2, <2>3, <2>4 DEF HistoryOK
  <1>19. QED BY <1>1, <1>3, <1>12, <1>18, HistoryStep

LEMMA ProceedHistory ==
  ASSUME HistoryInv, NEW r \in Requests, Proceed(r)
  PROVE  HistoryInv'
  <1>1. ReportingInv'
    BY ReportProceeds DEF HistoryInv
  <1>2. store' = store /\ touched' = touched /\ Typed(store)
    BY DEF Proceed, HistoryInv
  <1>3. Typed(store)' /\ \A q : Moves(q)
    BY <1>2, NothingMoves
  <1>4. ReportControlOK /\ ReportOK(r) /\ HistoryOK(r) /\ None \notin {"200", "400", "403", "404", "500"}
    BY ReportParts DEF HistoryInv
  <1>5. /\ pc[r] = "read" /\ op[r] # None /\ answer[r] = None /\ got[r] # <<>>
        /\ UNCHANGED <<store, changes, op, answer>>
        /\ Len(got[r][Len(got[r])]) = Len(Statements(r))
    BY <1>4 DEF Proceed, ReportOK
  <1>6. PICK S, n : got[r] \in Seq(Seq(S)) /\ n = Len(got[r]) /\ n \in Nat \ {0}
    <2>1. PICK S, T : T = Seq(S) /\ got[r] \in Seq(Seq(S)) /\ got[r] \in Seq(T)
      BY <1>4 DEF ReportOK
    <2>2. Len(got[r]) \in Nat \ {0}
      BY <1>5, <2>1
    <2>3. QED BY <2>1, <2>2
  <1>7. /\ Len(got[r]) <= Len(Parts(op[r]))
        /\ \A k \in 1..n : \A j \in 1..Len(got[r][k]) : SeenAt(r, k, j)
        /\ \A k \in 1..(n - 1) : PartRead(r, k)
    BY <1>4, <1>5, <1>6 DEF HistoryOK
  <1>8. PartRead(r, n)
    <2>1. Statements(r) = Asked(r, n, got[r][n], store)
      BY <1>6 DEF Statements, Asked
    <2>2. QED BY <1>2, <1>5, <1>6, <2>1, LatelyNow DEF PartRead
  <1>9. \/ /\ Len(got[r]) < Len(Parts(op[r]))
           /\ got' = [got EXCEPT ![r] = Append(@, <<>>)] /\ pc' = pc
        \/ /\ ~(Len(got[r]) < Len(Parts(op[r]))) /\ got' = got
           /\ \E next \in {"save", "respond"} : pc' = [pc EXCEPT ![r] = next]
    BY DEF Proceed
  <1>10. \A q \in Requests : q # r => Kept(q)
    BY <1>4, <1>5, <1>9 DEF ReportControlOK, Kept
  <1>11. Len(Parts(op[r])) \in Nat
    BY ReportsHaveParts
  <1>12. answer'[r] # "200"
    BY <1>4, <1>5
  <1>13. CASE /\ Len(got[r]) < Len(Parts(op[r]))
              /\ got' = [got EXCEPT ![r] = Append(@, <<>>)] /\ pc' = pc
    <2>1. PICK nothing, T : nothing = <<>> /\ nothing \in T /\ got[r] \in Seq(T)
      <3>1. <<>> \in Seq(S) /\ got[r] \in Seq(Seq(S))
        BY <1>6
      <3>2. QED BY <3>1
    <2>2. got'[r] = Append(got[r], nothing) /\ pc'[r] = "read"
      BY <1>4, <1>5, <1>13, <2>1 DEF ReportControlOK
    <2>3. /\ Len(got'[r]) = n + 1 /\ got'[r][n + 1] = nothing
          /\ \A k \in 1..n : got'[r][k] = got[r][k]
      BY <1>6, <2>1, <2>2
    <2>4. Len(nothing) = 0
      BY <2>1
    <2>5. ASSUME NEW k \in 1..n
          PROVE  PartRead(r, k)' /\ \A j \in 1..Len(got'[r][k]) : SeenAt(r, k, j)'
      <3>1. PartRead(r, k) /\ \A j \in 1..Len(got[r][k]) : SeenAt(r, k, j)
        BY <1>6, <1>7, <1>8
      <3>2. (PartRead(r, k) => PartRead(r, k)') /\ \A j : SeenAt(r, k, j) => SeenAt(r, k, j)'
        BY <1>3, <1>5, <2>3, PastStays
      <3>3. QED BY <2>3, <3>1, <3>2
    <2>6. HistoryOK(r)'
      <3>1. Len(got'[r]) <= Len(Parts(op'[r]))
        BY <1>5, <1>6, <1>11, <1>13, <2>3
      <3>2. \A k \in 1..(n + 1) : \A j \in 1..Len(got'[r][k]) : SeenAt(r, k, j)'
        BY <1>6, <2>3, <2>4, <2>5
      <3>3. \A k \in 1..n : PartRead(r, k)'
        BY <2>5
      <3>4. (n + 1) - 1 = n
        BY <1>6
      <3>5. QED BY <1>12, <2>2, <2>3, <3>1, <3>2, <3>3, <3>4 DEF HistoryOK
    <2>7. QED BY <1>1, <1>3, <1>10, <2>6, HistoryStep
  <1>14. CASE /\ ~(Len(got[r]) < Len(Parts(op[r]))) /\ got' = got
              /\ \E next \in {"save", "respond"} : pc' = [pc EXCEPT ![r] = next]
    <2>1. Len(Parts(op[r])) = n
      BY <1>6, <1>7, <1>11, <1>14
    <2>2. \A k : (PartRead(r, k) => PartRead(r, k)') /\ \A j : SeenAt(r, k, j) => SeenAt(r, k, j)'
      BY <1>3, <1>5, <1>14, PastStays
    <2>3. HistoryOK(r)'
      BY <1>5, <1>6, <1>7, <1>8, <1>12, <1>14, <2>1, <2>2 DEF HistoryOK
    <2>4. QED BY <1>1, <1>3, <1>10, <2>3, HistoryStep
  <1>15. QED BY <1>9, <1>13, <1>14

LEMMA RespondHistory ==
  ASSUME HistoryInv, NEW r \in Requests, Respond(r)
  PROVE  HistoryInv'
  <1>1. ReportingInv'
    BY ReportResponds DEF HistoryInv
  <1>2. store' = store /\ touched' = touched /\ Typed(store)
    BY DEF Respond, HistoryInv
  <1>3. Typed(store)' /\ \A q : Moves(q)
    BY <1>2, NothingMoves
  <1>4. ReportControlOK /\ ReportOK(r) /\ HistoryOK(r) /\ None \notin {"200", "400", "403", "404", "500"}
    BY ReportParts DEF HistoryInv
  <1>5. PICK status : /\ Answer(r, status)
                      /\ op[r].name \in GraphNames => status = GraphAnswer(op[r], got[r][1])
    BY AnswerStatus DEF Respond
  <1>6. /\ pc[r] = "respond" /\ op' = op /\ got' = got
        /\ pc' = [pc EXCEPT ![r] = "done"] /\ answer' = [answer EXCEPT ![r] = status]
    BY <1>5 DEF Respond, Answer
  <1>7. \A q \in Requests : q # r => Kept(q)
    BY <1>4, <1>6 DEF ReportControlOK, Kept
  <1>8. answer'[r] = status /\ pc'[r] = "done"
    BY <1>4, <1>6 DEF ReportControlOK
  <1>9. \A k : (PartRead(r, k) => PartRead(r, k)') /\ \A j : SeenAt(r, k, j) => SeenAt(r, k, j)'
    BY <1>3, <1>6, PastStays
  <1>10. HistoryOK(r)'
    BY <1>4, <1>5, <1>6, <1>8, <1>9 DEF HistoryOK
  <1>11. QED BY <1>1, <1>3, <1>7, <1>10, HistoryStep

\* What r has read for a report of one part.
Seen(r, o, g) ==
  /\ \E S : g \in Seq(S)
  /\ \A j \in 1..Len(g) : \E s, h :
       /\ Lately(s, r) /\ h = SubSeq(g, 1, j - 1)
       /\ j <= Len(Queries(o.name, o, h, s)) /\ g[j] \in Results(Queries(o.name, o, h, s)[j])
  /\ \E s : Lately(s, r) /\ Len(g) = Len(Queries(o.name, o, g, s))

LEMMA OnePart ==
  ASSUME NEW r, HistoryOK(r), ReportOK(r), pc[r] \in {"respond", "save", "done"}, got[r] # <<>>,
         NEW o, o = op[r], o.name \notin DashboardNames, NEW g, g = got[r][1]
  PROVE  Seen(r, o, g) /\ o \in Operations[r]
  <1>1. Parts(o) = <<o.name>> /\ Len(<<o.name>>) = 1 /\ <<o.name>>[1] = o.name
    BY DEF Parts
  <1>2. Len(got[r]) = 1 /\ \E S : g \in Seq(S)
    <2>1. PICK S, T, parts : parts = got[r] /\ T = Seq(S) /\ parts \in Seq(T)
      BY DEF ReportOK
    <2>2. PICK n : n = Len(parts)
      OBVIOUS
    <2>3. n \in Nat \ {0}
      BY <2>1, <2>2
    <2>4. Len(parts) = 1
      <3>1. n <= 1
        BY <1>1, <2>1, <2>2 DEF HistoryOK
      <3>2. QED BY ONLY <2>2, <2>3, <3>1
    <2>5. parts[1] \in T
      BY <2>1, <2>4
    <2>6. QED BY <2>1, <2>4, <2>5
  <1>3. ASSUME NEW h, NEW s PROVE Asked(r, 1, h, s) = Queries(o.name, o, h, s)
    BY <1>1 DEF Asked
  <1>4. (\A j \in 1..Len(g) : SeenAt(r, 1, j)) /\ PartRead(r, 1)
    BY <1>2 DEF HistoryOK
  <1>5. ASSUME NEW j \in 1..Len(g)
        PROVE  \E s, h : /\ Lately(s, r) /\ h = SubSeq(g, 1, j - 1)
                         /\ j <= Len(Queries(o.name, o, h, s)) /\ g[j] \in Results(Queries(o.name, o, h, s)[j])
    <2>1. PICK s, h : /\ h = SubSeq(got[r][1], 1, j - 1) /\ Lately(s, r)
                      /\ j <= Len(Asked(r, 1, h, s)) /\ got[r][1][j] \in Results(Asked(r, 1, h, s)[j])
      BY <1>4, <1>5 DEF SeenAt
    <2>2. Asked(r, 1, h, s) = Queries(o.name, o, h, s)
      BY <1>3
    <2>3. QED BY <2>1, <2>2
  <1>6. \E s : Lately(s, r) /\ Len(g) = Len(Queries(o.name, o, g, s))
    BY <1>3, <1>4 DEF PartRead
  <1>7. Seen(r, o, g)
    BY <1>2, <1>5, <1>6 DEF Seen
  <1>8. o \in Operations[r]
    BY DEF ReportOK
  <1>9. QED BY <1>7, <1>8

\* The statements of a money-at-risk report.
LEMMA RiskStatements ==
  ASSUME NEW o, o.name \in MarReports, NEW h, NEW s, NEW q, q = Queries(o.name, o, h, s),
         NEW m, m = Effective(o)
  PROVE  /\ Len(q) \in Nat /\ Len(q) >= 3
         /\ q[1] = Every(AtRisk(m, "pending", 1, s)) /\ q[2] = Every(AtRisk(m, "success", 7 * Day, s))
         /\ q[3] = Every(AtRisk(m, "failed", Day, s))
  <1>1. PICK a, b, c : /\ a = Every(AtRisk(m, "pending", 1, s)) /\ b = Every(AtRisk(m, "success", 7 * Day, s))
                       /\ c = Every(AtRisk(m, "failed", Day, s))
    OBVIOUS
  <1>2. q = MarReport(o, h, s)
    <2>1. o.name \in {"current_mar", "mar_breakdown", "save_mar"}
      BY DEF MarReports
    <2>2. QED BY <2>1 DEF Queries, MarNames, HealthNames, DashboardNames, GraphNames, TimelineOperations, AssistantNames
  <1>3. MarReads(o, s) = <<a, b, c>>
    BY <1>1 DEF MarReads
  <1>4. CASE o.name \in {"current_mar", "mar_breakdown"}
    <2>1. q = <<a, b, c>>
      BY <1>2, <1>3, <1>4 DEF MarReport
    <2>2. QED BY <1>1, <2>1
  <1>5. CASE o.name = "save_mar"
    <2>1. PICK d : d = Every({x \in Own(m, s.money_at_risk) : x.day = Today})
      OBVIOUS
    <2>2. q = <<a, b, c>> \o <<d>>
      BY <1>2, <1>3, <1>5, <2>1 DEF MarReport, SnapshotReads
    <2>3. Len(q) = 4 /\ q[1] = a /\ q[2] = b /\ q[3] = c
      BY ONLY <2>2
    <2>4. QED BY <1>1, <2>3
  <1>6. QED BY <1>4, <1>5 DEF MarReports

\* The three lists, each of what there was lately.
RiskRead(r, m, g) ==
  /\ \E s : Lately(s, r) /\ g[1] = AtRisk(m, "pending", 1, s)
  /\ \E s : Lately(s, r) /\ g[2] = AtRisk(m, "success", 7 * Day, s)
  /\ \E s : Lately(s, r) /\ g[3] = AtRisk(m, "failed", Day, s)

LEMMA RiskIsRead ==
  ASSUME NEW r, NEW o, NEW g, Seen(r, o, g), o.name \in MarReports, NEW m, m = Effective(o)
  PROVE  RiskRead(r, m, g)
  <1>1. ASSUME NEW s, Lately(s, r), NEW status, NEW age
        PROVE  IsFiniteSet(AtRisk(m, status, age, s))
    <2>1. IsFiniteSet(s.transactions)
      BY <1>1 DEF Lately, Typed
    <2>2. AtRisk(m, status, age, s) \subseteq s.transactions
      BY DEF AtRisk, Own
    <2>3. QED BY <2>1, <2>2, FS_Subset
  <1>2. PICK n : n = Len(g)
    OBVIOUS
  <1>3. n \in Nat /\ n >= 3
    <2>1. PICK s : Lately(s, r) /\ Len(g) = Len(Queries(o.name, o, g, s))
      BY DEF Seen
    <2>2. QED BY <1>2, <2>1, RiskStatements
  <1>4. 1 \in 1..n /\ 2 \in 1..n /\ 3 \in 1..n
    BY ONLY <1>3
  <1>5. \A j \in 1..n : \E s, h : Lately(s, r) /\ g[j] \in Results(Queries(o.name, o, h, s)[j])
    BY <1>2 DEF Seen
  <1>6. \E s : Lately(s, r) /\ g[1] = AtRisk(m, "pending", 1, s)
    <2>1. PICK s, h : Lately(s, r) /\ g[1] \in Results(Queries(o.name, o, h, s)[1])
      BY <1>4, <1>5
    <2>2. Queries(o.name, o, h, s)[1] = Every(AtRisk(m, "pending", 1, s))
      BY RiskStatements
    <2>3. QED BY <1>1, <2>1, <2>2, EveryRow
  <1>7. \E s : Lately(s, r) /\ g[2] = AtRisk(m, "success", 7 * Day, s)
    <2>1. PICK s, h : Lately(s, r) /\ g[2] \in Results(Queries(o.name, o, h, s)[2])
      BY <1>4, <1>5
    <2>2. Queries(o.name, o, h, s)[2] = Every(AtRisk(m, "success", 7 * Day, s))
      BY RiskStatements
    <2>3. QED BY <1>1, <2>1, <2>2, EveryRow
  <1>8. \E s : Lately(s, r) /\ g[3] = AtRisk(m, "failed", Day, s)
    <2>1. PICK s, h : Lately(s, r) /\ g[3] \in Results(Queries(o.name, o, h, s)[3])
      BY <1>4, <1>5
    <2>2. Queries(o.name, o, h, s)[3] = Every(AtRisk(m, "failed", Day, s))
      BY RiskStatements
    <2>3. QED BY <1>1, <2>1, <2>2, EveryRow
  <1>9. QED BY <1>6, <1>7, <1>8 DEF RiskRead

\* A list is finite, of transactions that have an amount and began before now.
Counted(rows) == IsFiniteSet(rows) /\ \A t \in rows : Priced(t) /\ t.at <= Now

LEMMA RiskIsCounted ==
  ASSUME NEW r, NEW m, NEW g, RiskRead(r, m, g)
  PROVE  Counted(g[1]) /\ Counted(g[2]) /\ Counted(g[3])
  <1>1. ASSUME NEW s, Lately(s, r), NEW status, NEW age \in Nat, NEW rows, rows = AtRisk(m, status, age, s)
        PROVE  Counted(rows)
    <2>1. IsFiniteSet(s.transactions) /\ \A t \in s.transactions : Priced(t)
      BY <1>1 DEF Lately, Typed, Valued
    <2>2. rows \subseteq s.transactions /\ \A t \in rows : t.at <= Now - age
      BY <1>1 DEF AtRisk, Own
    <2>3. IsFiniteSet(rows)
      BY <2>1, <2>2, FS_Subset
    <2>4. ASSUME NEW t \in rows PROVE Priced(t) /\ t.at <= Now
      <3>1. PICK n : n = t.at
        OBVIOUS
      <3>2. Priced(t) /\ n \in Int /\ n <= Now - age /\ Now \in Nat
        BY <2>1, <2>2, <3>1, ReportsAssumption DEF Priced
      <3>3. n <= Now
        BY ONLY <3>2, age \in Nat
      <3>4. QED BY <3>1, <3>2, <3>3
    <2>5. QED BY <2>3, <2>4 DEF Counted
  <1>2. 1 \in Nat /\ Day \in Nat /\ 7 * Day \in Nat
    BY DEF Day, Hour
  <1>3. QED BY <1>1, <1>2 DEF RiskRead

LEMMA TotalIsNatural ==
  ASSUME NEW g, Counted(g[1]), Counted(g[2]), Counted(g[3])
  PROVE  Mar(g).total \in Nat
  <1>1. Amount(g[1]) \in Nat /\ Amount(g[2]) \in Nat /\ Amount(g[3]) \in Nat
    BY AmountIsNatural DEF Counted
  <1>2. Mar(g).total = Amount(g[1]) + Amount(g[2]) + Amount(g[3])
    BY DEF Mar
  <1>3. QED BY <1>1, <1>2

\* A total that is saved is a sum of amounts.
LEMMA SavedTotals ==
  ASSUME HistoryInv, NEW r \in Requests, pc[r] = "save", op[r].name = "save_mar", SaveSnapshot(r)
  PROVE  Totalled(store'.money_at_risk)
  <1>1. PICK o, m, g, new : o = op[r] /\ m = Effective(o) /\ g = got[r][1] /\ new = Snapshot(r, m, g)
    OBVIOUS
  <1>2. HistoryOK(r) /\ ReportOK(r) /\ Typed(store)
    BY DEF HistoryInv, ReportingInv
  <1>3. Totalled(store.money_at_risk) /\ "money_at_risk" \in DOMAIN store /\ store = [table \in DOMAIN store |-> store[table]]
    BY <1>2 DEF Typed, Valued, Database
  <1>4. Seen(r, o, g)
    <2>1. got[r] # <<>>
      BY <1>2 DEF ReportOK
    <2>2. o.name \notin DashboardNames
      BY <1>1 DEF DashboardNames
    <2>3. QED BY <1>1, <1>2, <2>1, <2>2, OnePart
  <1>5. RiskRead(r, m, g)
    BY <1>1, <1>4, RiskIsRead DEF MarReports
  <1>6. Mar(g).total \in Nat
    BY <1>5, RiskIsCounted, TotalIsNatural
  <1>7. "total" \in DOMAIN new /\ new.total \in Nat
    BY <1>1, <1>6 DEF Snapshot
  <1>8. ASSUME NEW id, NEW row, Put(id, row), "total" \in DOMAIN row, row.total \in Nat
        PROVE  Totalled(store'.money_at_risk)
    <2>1. PICK old, rest : old = store.money_at_risk /\ rest = {x \in old : x.id # id}
      OBVIOUS
    <2>2. store'.money_at_risk = rest \cup {row}
      BY <1>3, <1>8, <2>1 DEF Put
    <2>3. IsFiniteSet(rest) /\ rest \subseteq old
      BY <1>3, <2>1, FS_Subset DEF Totalled
    <2>4. IsFiniteSet(rest \cup {row})
      BY <2>3, FS_AddElement
    <2>5. \A x \in rest \cup {row} : "total" \in DOMAIN x /\ x.total \in Nat
      BY <1>3, <1>8, <2>1, <2>3 DEF Totalled
    <2>6. QED BY <2>2, <2>4, <2>5 DEF Totalled
  <1>9. CASE UNCHANGED store
    BY <1>3, <1>9
  <1>10. CASE Put(r, new)
    BY <1>7, <1>8, <1>10
  <1>11. CASE \E read \in g[4] : \E row \in store.money_at_risk :
                Put(row.id, [c \in DOMAIN row |-> IF c # "id" /\ new[c] # read[c] THEN new[c] ELSE row[c]])
    <2>1. PICK read \in g[4], row \in store.money_at_risk :
            Put(row.id, [c \in DOMAIN row |-> IF c # "id" /\ new[c] # read[c] THEN new[c] ELSE row[c]])
      BY <1>11
    <2>2. PICK put : put = [c \in DOMAIN row |-> IF c # "id" /\ new[c] # read[c] THEN new[c] ELSE row[c]]
      OBVIOUS
    <2>3. "total" \in DOMAIN row /\ row.total \in Nat
      BY <1>3 DEF Totalled
    <2>4. "total" \in DOMAIN put /\ put.total \in {new.total, row.total}
      BY <2>2, <2>3
    <2>5. put.total \in Nat
      BY <1>7, <2>3, <2>4
    <2>6. Put(row.id, put)
      BY <2>1, <2>2
    <2>7. QED BY <1>8, <2>4, <2>5, <2>6
  <1>12. QED BY <1>1, <1>9, <1>10, <1>11 DEF SaveSnapshot

\* The rows that a report writes are of tables that the graphs do not read.
LEMMA OnlyWritten ==
  ASSUME Typed(store), Database(store'), Totalled(store'.money_at_risk), NEW rows, NEW table \in Written,
         store' = store \/ store' = [store EXCEPT ![table] = rows]
  PROVE  Typed(store)' /\ \A ids : Precedes(store, store', ids)
  <1>1. DOMAIN store' = DOMAIN store /\ \A t \in DOMAIN store \ Written : store'[t] = store[t]
    BY DEF Typed, Database
  <1>2. OwnedTables \cap Written = {} /\ HangingTables \cap Written = {} /\ "transactions" \notin Written
        /\ "transactions" \in OwnedTables /\ "events" \in HangingTables /\ "results" \in HangingTables
    BY DEF OwnedTables, HangingTables, Written
  <1>3. OwnedTables \cup HangingTables \subseteq DOMAIN store
    BY DEF Typed
  <1>4. \A t \in OwnedTables \cup HangingTables : store'[t] = store[t]
    BY <1>1, <1>2, <1>3
  <1>5. /\ store'["transactions"] = store["transactions"] /\ store'["events"] = store["events"]
        /\ store'["results"] = store["results"] /\ store'["settlements"] = store["settlements"]
    BY <1>2, <1>4 DEF OwnedTables
  <1>6. Typed(store)'
    <2>1. Valued(store')
      BY <1>1, <1>4, <1>5 DEF Typed, Valued
    <2>2. QED BY <1>1, <1>2, <1>3, <1>4, <1>5, <2>1 DEF Typed, Ids, Names
  <1>7. ASSUME NEW ids PROVE Precedes(store, store', ids)
    <2>1. \A t \in store.transactions : Versions(t, t)
      BY DEF Versions
    <2>2. QED BY <1>1, <1>5, <2>1 DEF Precedes
  <1>8. QED BY <1>6, <1>7

LEMMA SaveHistory ==
  ASSUME HistoryInv, NEW r \in Requests, Save(r), ReportingInv'
  PROVE  HistoryInv'
  <1>1. ReportControlOK /\ ReportOK(r) /\ HistoryOK(r) /\ Typed(store) /\ Database(store')
    BY ReportParts DEF HistoryInv, ReportingInv, SnapshotsOK
  <1>2. /\ pc[r] = "save" /\ Touch({r}) /\ UNCHANGED <<changes, op, got>>
        /\ (op[r].name = "save_mar" /\ SaveSnapshot(r)) \/ SaveMetrics(r)
    BY DEF Save
  <1>3. PICK status, table :
          /\ table \in Written /\ Answer(r, status) /\ Totalled(store'.money_at_risk)
          /\ store' = store \/ \E rows : store' = [store EXCEPT ![table] = rows]
    <2>0. Totalled(store.money_at_risk) /\ store = [t \in DOMAIN store |-> store[t]]
      BY <1>1 DEF Typed, Valued, Database
    <2>1. CASE op[r].name = "save_mar" /\ SaveSnapshot(r)
      <3>1. PICK table : table = "money_at_risk" /\ table \in Written
        BY DEF Written
      <3>2. \E status : /\ Answer(r, status)
                        /\ store' = store \/ \E rows : store' = [store EXCEPT ![table] = rows]
        BY <2>1, <3>1 DEF SaveSnapshot, Put
      <3>3. Totalled(store'.money_at_risk)
        BY <1>2, <2>1, SavedTotals
      <3>4. QED BY <3>1, <3>2, <3>3
    <2>2. CASE SaveMetrics(r)
      <3>1. PICK table : table = "health" /\ table \in Written
        BY DEF Written
      <3>2. \E status : /\ Answer(r, status)
                        /\ store' = store \/ \E rows : store' = [store EXCEPT ![table] = rows]
        BY <2>2, <3>1 DEF SaveMetrics
      <3>3. store'.money_at_risk = store.money_at_risk
        <4>1. PICK risks : risks = "money_at_risk" /\ risks \in DOMAIN store /\ risks # table
          BY <1>1, <3>1 DEF Typed, Valued
        <4>2. store'[risks] = store[risks]
          BY <2>0, <3>2, <4>1
        <4>3. QED BY <4>1, <4>2
      <3>4. QED BY <2>0, <3>1, <3>2, <3>3
    <2>3. QED BY <1>2, <2>1, <2>2
  <1>4. Typed(store)' /\ \A ids : Precedes(store, store', ids)
    BY <1>1, <1>3, OnlyWritten
  <1>5. ASSUME NEW q \in Requests, pc[q] # "idle" PROVE Moves(q)
    BY <1>2, <1>4, <1>5 DEF Moves, Touch
  <1>6. /\ pc' = [pc EXCEPT ![r] = "done"] /\ answer' = [answer EXCEPT ![r] = status]
    BY <1>3 DEF Answer
  <1>7. \A q \in Requests : q # r => Kept(q)
    BY <1>1, <1>2, <1>6 DEF ReportControlOK, Kept
  <1>8. pc'[r] = "done" /\ op[r].name \notin GraphNames
    <2>1. op[r].name \in {"save_mar", "calculate_health"}
      BY <1>1, <1>2 DEF ReportOK
    <2>2. QED BY <1>1, <1>6, <2>1 DEF ReportControlOK, GraphNames
  <1>9. \A k : (PartRead(r, k) => PartRead(r, k)') /\ \A j : SeenAt(r, k, j) => SeenAt(r, k, j)'
    BY <1>2, <1>5, PastStays
  <1>10. HistoryOK(r)'
    BY <1>1, <1>2, <1>8, <1>9 DEF HistoryOK
  <1>11. QED BY <1>4, <1>5, <1>7, <1>10, HistoryStep

\* What others commit, as the graphs see it.
LEMMA OthersMove ==
  ASSUME HistoryInv, CommitRow \/ ChangeStatus, Database(store')
  PROVE  Typed(store)' /\ \E id : Touch({id}) /\ Precedes(store, store', {id})
  <1>1. Typed(store)
    BY DEF HistoryInv
  <1>2. PICK transactions, events, results, settlements :
          /\ transactions = "transactions" /\ events = "events" /\ results = "results"
          /\ settlements = "settlements"
    OBVIOUS
  <1>3. /\ {transactions, events, results, settlements} \subseteq OwnedTables \cup HangingTables
        /\ OwnedTables \cup HangingTables \subseteq DOMAIN store /\ \A x \in store[settlements] : Timed(x)
    BY <1>1, <1>2 DEF Typed, Valued, OwnedTables, HangingTables
  <1>9. \A table \in OwnedTables \cup HangingTables :
          IsFiniteSet(store[table]) /\ \A x \in store[table] : x.id # None
    BY <1>1 DEF Typed, Valued
  <1>4. CASE CommitRow
    <2>1. PICK table, row :
            /\ table \in OwnedTables => "merchant" \in DOMAIN row
            /\ table \in HangingTables => "merchant" \notin DOMAIN row
            /\ table # "money_at_risk" /\ (table = "transactions" => Priced(row))
            /\ table = "settlements" => Timed(row)
            /\ row.id # None
            /\ row.id \in Names(table) /\ Touch({row.id}) /\ row.id \notin {t.id : t \in store[table]}
            /\ store' = [store EXCEPT ![table] = @ \cup {row}]
      <3>1. PICK arrival \in Arrivals :
              /\ arrival.row.id \notin {t.id : t \in store[arrival.table]}
              /\ store' = [store EXCEPT ![arrival.table] = @ \cup {arrival.row}]
              /\ Touch({arrival.row.id})
        BY <1>4 DEF CommitRow, Change
      <3>2. arrival.row.id \in Names(arrival.table)
        <4>1. PICK table, those, others :
                /\ table = arrival.table /\ those = {b \in Arrivals : b.table = table}
                /\ others = UNION {Ids(s[table]) : s \in Stores}
          OBVIOUS
        <4>2. Names(table) = others \cup {b.row.id : b \in those} /\ arrival \in those
          BY <3>1, <4>1 DEF Names
        <4>3. QED BY <4>1, <4>2
      <3>3. /\ arrival.table \in OwnedTables => "merchant" \in DOMAIN arrival.row
            /\ arrival.table \in HangingTables => "merchant" \notin DOMAIN arrival.row
            /\ arrival.table # "money_at_risk" /\ (arrival.table = "transactions" => Priced(arrival.row))
            /\ arrival.table = "settlements" => Timed(arrival.row)
            /\ arrival.row.id # None
        <4>1. arrival.row.id # None
          BY <3>1, DatabaseAssumption
        <4>2. QED BY <3>1, <4>1, GraphAssumption, SnapshotsAssumption, AmountsAssumption, TimesAssumption
      <3>4. PICK table, row : table = arrival.table /\ row = arrival.row
        OBVIOUS
      <3>5. QED BY <3>1, <3>2, <3>3, <3>4
    <2>2. DOMAIN store' = DOMAIN store /\ \A t \in DOMAIN store : store'[t] = IF t = table THEN store[t] \cup {row} ELSE store[t]
      BY <1>1, <2>1 DEF Typed, Database
    <2>3. Typed(store)'
      <3>1. ASSUME NEW t \in OwnedTables \cup HangingTables
            PROVE  IsFiniteSet(store'[t]) /\ \A x \in store'[t] : x.id # None
        <4>1. IsFiniteSet(store[t] \cup {row})
          BY <1>9, FS_AddElement
        <4>2. QED BY <1>3, <1>9, <2>1, <2>2, <4>1
      <3>2. \A t \in OwnedTables : \A x \in store'[t] : "merchant" \in DOMAIN x
        BY <1>1, <1>3, <2>1, <2>2 DEF Typed
      <3>3. \A t \in HangingTables : \A x \in store'[t] : "merchant" \notin DOMAIN x
        BY <1>1, <1>3, <2>1, <2>2 DEF Typed
      <3>4. \A t \in HangingTables \cup {transactions} : Ids(store'[t]) \subseteq Names(t)
        BY <1>1, <1>2, <1>3, <2>1, <2>2 DEF Typed, Ids
      <3>5. Names(transactions)' = Names(transactions) /\ \A t : Names(t)' = Names(t)
        BY DEF Names
      <3>6. Valued(store')
        <4>1. \A u \in store'[transactions] : Priced(u)
          BY <1>1, <1>2, <1>3, <2>1, <2>2 DEF Typed, Valued
        <4>2. "money_at_risk" \in DOMAIN store' /\ Totalled(store'.money_at_risk)
          BY <1>1, <2>1, <2>2 DEF Typed, Valued
        <4>3. \A x \in store'[settlements] : Timed(x)
          BY <1>2, <1>3, <2>1, <2>2
        <4>4. QED BY <1>2, <1>3, <3>1, <4>1, <4>2, <4>3 DEF Valued
      <3>7. QED BY <1>2, <1>3, <2>2, <3>1, <3>2, <3>3, <3>4, <3>5, <3>6 DEF Typed, Ids
    <2>4. \A t \in DOMAIN store : store[t] \subseteq store'[t] /\ \A x \in store'[t] \ store[t] : x.id \in {row.id}
      BY <2>1, <2>2
    <2>5. \A t : Versions(t, t)
      BY DEF Versions
    <2>6. Precedes(store, store', {row.id})
      BY <1>2, <1>3, <2>2, <2>4, <2>5 DEF Precedes
    <2>7. QED BY <2>1, <2>3, <2>6
  <1>5. CASE ChangeStatus
    <2>1. PICK t, status, new :
            /\ t \in store[transactions] /\ new = [t EXCEPT !.status = status] /\ Touch({t.id})
            /\ store' = [store EXCEPT ![transactions] = (@ \ {t}) \cup {new}]
      BY <1>2, <1>5 DEF ChangeStatus, Change
    <2>2. /\ DOMAIN store' = DOMAIN store /\ store'[transactions] = (store[transactions] \ {t}) \cup {new}
          /\ \A table \in DOMAIN store : table # transactions => store'[table] = store[table]
      BY <1>1, <1>3, <2>1 DEF Typed, Database
    <2>3. DOMAIN new = DOMAIN t /\ \A column \in DOMAIN t \ {"status"} : new[column] = t[column]
      BY <2>1
    <2>4. new.id = t.id /\ ("merchant" \in DOMAIN t)
      <3>1. "id" \in DOMAIN t /\ transactions \in OwnedTables
        BY <1>1, <1>2, <2>1 DEF Typed, Database, IsRow, Tables, OwnedTables
      <3>2. QED BY <1>1, <2>1, <2>3, <3>1 DEF Typed
    <2>5. Typed(store)'
      <3>1. ASSUME NEW table \in OwnedTables \cup HangingTables
            PROVE  IsFiniteSet(store'[table]) /\ \A x \in store'[table] : x.id # None
        <4>1. IsFiniteSet((store[transactions] \ {t}) \cup {new})
          BY <1>3, <1>9, FS_RemoveElement, FS_AddElement
        <4>2. QED BY <1>3, <1>9, <2>1, <2>2, <2>4, <4>1
      <3>2. \A table \in OwnedTables : \A x \in store'[table] : "merchant" \in DOMAIN x
        BY <1>1, <1>3, <2>2, <2>3, <2>4 DEF Typed
      <3>3. \A table \in HangingTables : store'[table] = store[table]
        BY <1>2, <1>3, <2>2 DEF HangingTables
      <3>4. Ids(store'[transactions]) \subseteq Ids(store[transactions])
        BY <2>1, <2>2, <2>4 DEF Ids
      <3>5. \A table : Names(table)' = Names(table)
        BY DEF Names
      <3>6. \A table \in HangingTables \cup {transactions} : Ids(store'[table]) \subseteq Names(table)
        BY <1>1, <1>2, <3>3, <3>4 DEF Typed, Ids
      <3>7. Valued(store')
        <4>1. (\A u \in store[transactions] : Priced(u)) /\ Priced(new)
          BY <1>1, <1>2, <2>1, <2>3 DEF Typed, Valued, Priced
        <4>2. store'.money_at_risk = store.money_at_risk /\ "money_at_risk" \in DOMAIN store'
          BY <1>1, <1>2, <2>2 DEF Typed, Valued
        <4>3. \A u \in store'[transactions] : Priced(u)
          BY <2>2, <4>1
        <4>4. store'[settlements] = store[settlements]
          BY <1>2, <1>3, <2>2
        <4>5. QED BY <1>1, <1>2, <1>3, <3>1, <4>2, <4>3, <4>4 DEF Typed, Valued
      <3>8. QED BY <1>1, <1>2, <1>3, <2>2, <3>1, <3>2, <3>3, <3>5, <3>6, <3>7 DEF Typed, Ids
    <2>6. Precedes(store, store', {t.id})
      <3>1. \A u \in store[transactions] : \E v \in store'[transactions] : Versions(u, v) /\ (v = u \/ u.id \in {t.id})
        BY <2>1, <2>2, <2>3 DEF Versions
      <3>2. \A u \in store'[transactions] \ store[transactions] : u.id \in {t.id}
        BY <2>1, <2>2, <2>4
      <3>3. QED BY <1>2, <2>2, <3>1, <3>2 DEF Precedes
    <2>7. QED BY <2>1, <2>5, <2>6
  <1>6. QED BY <1>4, <1>5

LEMMA OthersHistory ==
  ASSUME HistoryInv, CommitRow \/ ChangeStatus
  PROVE  HistoryInv'
  <1>1. ReportingInv' /\ Database(store')
    BY OthersCommit DEF HistoryInv, ReportingInv, SnapshotsOK
  <1>2. Typed(store)' /\ UNCHANGED <<pc, op, got, answer>>
    BY <1>1, OthersMove DEF CommitRow, ChangeStatus, Change
  <1>3. PICK id : Touch({id}) /\ Precedes(store, store', {id})
    BY <1>1, OthersMove
  <1>4. ASSUME NEW q \in Requests, pc[q] # "idle"
        PROVE  Moves(q)
    <2>1. touched'[q] = touched[q] \cup {id}
      BY <1>3, <1>4 DEF Touch
    <2>2. QED BY <1>3, <2>1 DEF Moves, Precedes
  <1>5. PICK none : none \notin Requests
    BY NoSetContainsEverything
  <1>6. \A q \in Requests : Kept(q)
    BY <1>2 DEF Kept
  <1>7. QED BY <1>1, <1>2, <1>4, <1>5, <1>6, HistoryStep

LEMMA HistoryInitInv ==
  ASSUME Init
  PROVE  HistoryInv
  <1>1. ReportingInv
    BY ReportingInitInv
  <1>2. Typed(store)
    <2>1. PICK s \in Stores : s = store
      BY DEF Init
    <2>2. \A table : Ids(s[table]) \subseteq Names(table)
      BY <2>1 DEF Names
    <2>3. /\ Database(s) /\ OwnedTables \cup HangingTables \subseteq DOMAIN s
          /\ \A table \in OwnedTables \cup HangingTables : IsFiniteSet(s[table])
          /\ \A table \in OwnedTables : \A x \in s[table] : "merchant" \in DOMAIN x
          /\ \A table \in HangingTables : \A x \in s[table] : "merchant" \notin DOMAIN x
      BY <2>1, GraphAssumption, DatabaseAssumption
    <2>6. IsFiniteSet(s.transactions) /\ IsFiniteSet(s.events) /\ IsFiniteSet(s.results)
      <3>1. "transactions" \in OwnedTables /\ "events" \in HangingTables /\ "results" \in HangingTables
        BY DEF OwnedTables, HangingTables
      <3>2. QED BY <2>3, <3>1
    <2>4. Valued(s)
      <3>1. "settlements" \in DOMAIN s
        BY <2>3 DEF OwnedTables
      <3>2. \A table \in DOMAIN s : \A x \in s[table] : x.id # None
        BY <2>1, DatabaseAssumption
      <3>3. QED BY <2>1, <2>3, <3>1, <3>2, SnapshotsAssumption, AmountsAssumption, TimesAssumption DEF Valued, Totalled
    <2>5. Typed(s)
      BY <2>2, <2>3, <2>4, <2>6 DEF Typed
    <2>7. QED BY <2>1, <2>5
  <1>3. \A r \in Requests : got[r] = <<>>
    BY DEF Init
  <1>4. QED BY <1>1, <1>2, <1>3 DEF HistoryInv, HistoryOK

LEMMA HistoryNextInv ==
  ASSUME HistoryInv, [Next]_vars
  PROVE  HistoryInv'
  <1>1. ReportingInv'
    BY ReportingNextInv DEF HistoryInv
  <1>2. CASE UNCHANGED vars
    <2>1. UNCHANGED <<store, touched, pc, op, got, answer>>
      BY <1>2 DEF vars
    <2>2. Typed(store)' /\ \A q : Moves(q)
      BY <2>1, NothingMoves DEF HistoryInv
    <2>3. PICK none : none \notin Requests
      BY NoSetContainsEverything
    <2>4. \A q \in Requests : Kept(q)
      BY <2>1 DEF Kept
    <2>5. QED BY <1>1, <2>2, <2>3, <2>4, HistoryStep
  <1>3. CASE CommitRow \/ ChangeStatus
    BY <1>3, OthersHistory
  <1>4. CASE \E r \in Requests : Arrive(r) \/ Read(r) \/ Proceed(r) \/ Save(r) \/ Respond(r)
    BY <1>1, <1>4, ArriveHistory, ReadHistory, ProceedHistory, SaveHistory, RespondHistory
  <1>5. QED BY <1>2, <1>3, <1>4 DEF Next

(***************************************************************************)
(* The payment graphs.                                                     *)
(***************************************************************************)

\* A graph in which every row has an edge to the root.
LEMMA StarIsConnected ==
  ASSUME NEW graph, \A e \in graph.edges : \E x \in graph.rows : {e[1], e[2]} = {graph.root, x.id},
         \A x \in graph.rows : \E e \in graph.edges : {e[1], e[2]} = {graph.root, x.id}
  PROVE  Connected(graph) /\ \A x \in graph.rows : {graph.root, x.id} \in Links(graph)
  <1>1. \A pair \in Links(graph) : \E x \in graph.rows : pair = {graph.root, x.id}
    BY DEF Links
  <1>2. ASSUME NEW x \in graph.rows
        PROVE  {graph.root, x.id} \in Links(graph) /\ x.id \in Nodes(graph)
    BY DEF Links, Nodes, Ids
  <1>3. graph.root \in Nodes(graph) /\ \A n \in Nodes(graph) : n = graph.root \/ \E x \in graph.rows : n = x.id
    BY DEF Nodes, Ids
  <1>4. UNION Links(graph) \subseteq Nodes(graph)
    BY <1>1, <1>2, <1>3
  <1>5. \A n \in Nodes(graph) \ {graph.root} : graph.root \in Neighbours(n, graph)
    <2>1. SUFFICES ASSUME NEW x \in graph.rows
                   PROVE  graph.root \in Neighbours(x.id, graph)
      BY <1>3
    <2>2. {x.id, graph.root} = {graph.root, x.id}
      OBVIOUS
    <2>3. {x.id, graph.root} \in Links(graph)
      BY <1>2, <2>2
    <2>4. QED BY <1>3, <2>3 DEF Neighbours
  <1>6. QED BY <1>2, <1>4, <1>5 DEF Connected

LEMMA StarEdges ==
  ASSUME NEW root, NEW lists
  PROVE  /\ Connected(Star(root, lists))
         /\ \A x \in UNION ToSet(lists) : {root, x.id} \in Links(Star(root, lists))
  <1>1. PICK rows, graph : rows = UNION ToSet(lists) /\ graph = Star(root, lists)
    OBVIOUS
  <1>2. graph.root = root /\ graph.rows = rows /\ graph.edges = {<<root, id>> : id \in Ids(rows)}
    BY <1>1 DEF Star
  <1>3. \A e \in graph.edges : \E x \in graph.rows : {e[1], e[2]} = {graph.root, x.id}
    BY <1>2 DEF Ids
  <1>4. ASSUME NEW x \in graph.rows
        PROVE  \E e \in graph.edges : {e[1], e[2]} = {graph.root, x.id}
    <2>1. <<root, x.id>> \in graph.edges
      BY <1>2 DEF Ids
    <2>2. <<root, x.id>>[1] = root /\ <<root, x.id>>[2] = x.id
      OBVIOUS
    <2>3. QED BY <1>2, <2>1, <2>2
  <1>5. Connected(graph) /\ \A x \in graph.rows : {graph.root, x.id} \in Links(graph)
    BY <1>3, <1>4, StarIsConnected
  <1>6. QED BY <1>1, <1>2, <1>5

\* An alert points to its incident, the incident to the others.
LEMMA IncidentEdges ==
  ASSUME NEW o, NEW g, NEW rows
  PROVE  Connected(IncidentGraph(o, g, rows))
  <1>1. PICK alerts, graph : alerts = (IF Len(g) = 3 THEN Ids(g[2]) ELSE {}) /\ graph = IncidentGraph(o, g, rows)
    OBVIOUS
  <1>2. /\ graph.root = o.id /\ graph.rows = rows
        /\ graph.edges = {IF id \in alerts THEN <<id, o.id>> ELSE <<o.id, id>> : id \in Ids(rows)}
    BY <1>1 DEF IncidentGraph
  <1>3. \A e \in graph.edges : \E x \in graph.rows : {e[1], e[2]} = {graph.root, x.id}
    BY <1>2 DEF Ids
  <1>4. ASSUME NEW x \in graph.rows
        PROVE  \E e \in graph.edges : {e[1], e[2]} = {graph.root, x.id}
    <2>1. (IF x.id \in alerts THEN <<x.id, o.id>> ELSE <<o.id, x.id>>) \in graph.edges
      BY <1>2 DEF Ids
    <2>2. /\ <<o.id, x.id>>[1] = o.id /\ <<o.id, x.id>>[2] = x.id
          /\ <<x.id, o.id>>[1] = x.id /\ <<x.id, o.id>>[2] = o.id
      OBVIOUS
    <2>3. QED BY <1>2, <2>1, <2>2
  <1>5. QED BY <1>1, <1>3, <1>4, StarIsConnected

\* The transactions of a customer hang on it, and what is of a transaction on that.
LEMMA CustomerEdges ==
  ASSUME NEW o, NEW g, NEW rows, g[1] \subseteq rows, \A x \in rows \ g[1] : x.transaction \in Ids(g[1]),
         NEW graph, graph = CustomerGraph(o, g, rows)
  PROVE  /\ Connected(graph)
         /\ \A x \in rows \ g[1] : {x.transaction, x.id} \in Links(graph)
         /\ \A pair \in Links(graph) : \/ \E t \in g[1] : pair = {o.id, t.id}
                                       \/ \E x \in rows \ g[1] : pair = {x.transaction, x.id}
  <1>1. PICK first : first = g[1]
    OBVIOUS
  <1>2. /\ graph.root = o.id /\ graph.rows = rows
        /\ graph.edges = {<<o.id, id>> : id \in Ids(first)} \cup {<<x.transaction, x.id>> : x \in rows \ first}
    BY <1>1 DEF CustomerGraph
  <1>3. ASSUME NEW pair \in Links(graph)
        PROVE  \/ \E t \in first : pair = {o.id, t.id}
               \/ \E x \in rows \ first : pair = {x.transaction, x.id}
    <2>1. PICK e \in graph.edges : pair = {e[1], e[2]}
      BY DEF Links
    <2>2. CASE \E id \in Ids(first) : e = <<o.id, id>>
      BY <2>1, <2>2 DEF Ids
    <2>3. CASE \E x \in rows \ first : e = <<x.transaction, x.id>>
      BY <2>1, <2>3
    <2>4. QED BY <1>2, <2>2, <2>3
  <1>4. ASSUME NEW t \in first
        PROVE  {o.id, t.id} \in Links(graph)
    <2>1. PICK e : e = <<o.id, t.id>> /\ e \in graph.edges
      BY <1>2 DEF Ids
    <2>2. e[1] = o.id /\ e[2] = t.id
      BY <2>1
    <2>3. QED BY <2>1, <2>2 DEF Links
  <1>5. ASSUME NEW x \in rows \ first
        PROVE  {x.transaction, x.id} \in Links(graph)
    <2>1. PICK e : e = <<x.transaction, x.id>> /\ e \in graph.edges
      BY <1>2
    <2>2. e[1] = x.transaction /\ e[2] = x.id
      BY <2>1
    <2>3. QED BY <2>1, <2>2 DEF Links
  <1>6. /\ \A x \in rows : x.id \in Nodes(graph)
        /\ o.id \in Nodes(graph) /\ \A n \in Nodes(graph) : n = o.id \/ \E x \in rows : n = x.id
    BY <1>2 DEF Nodes, Ids
  <1>7. \A x \in rows \ first : \E t \in first : x.transaction = t.id
    BY <1>1 DEF Ids
  <1>8. UNION Links(graph) \subseteq Nodes(graph)
    BY <1>1, <1>3, <1>6, <1>7
  <1>9. ASSUME NEW t \in first
        PROVE  o.id \in Neighbours(t.id, graph)
    <2>1. {t.id, o.id} = {o.id, t.id}
      OBVIOUS
    <2>2. {t.id, o.id} \in Links(graph)
      BY <1>4, <2>1
    <2>3. QED BY <1>6, <2>2 DEF Neighbours
  <1>10. ASSUME NEW x \in rows \ first
         PROVE  \E k \in Neighbours(x.id, graph) : o.id \in Neighbours(k, graph)
    <2>1. PICK t \in first : x.transaction = t.id
      BY <1>7
    <2>2. {x.id, x.transaction} = {x.transaction, x.id}
      OBVIOUS
    <2>3. {x.id, x.transaction} \in Links(graph)
      BY <1>5, <2>2
    <2>4. t.id \in Neighbours(x.id, graph)
      BY <1>1, <1>6, <2>1, <2>3 DEF Neighbours
    <2>5. QED BY <1>9, <2>4
  <1>11. ASSUME NEW n \in Nodes(graph) \ {graph.root}
         PROVE  graph.root \in Neighbours(n, graph) \cup UNION {Neighbours(k, graph) : k \in Neighbours(n, graph)}
    <2>1. PICK x \in rows : n = x.id
      BY <1>2, <1>6, <1>11
    <2>2. PICK root, near : root = graph.root /\ root = o.id /\ near = Neighbours(n, graph)
      BY <1>2
    <2>3. root \in near \/ \E k \in near : root \in Neighbours(k, graph)
      BY <1>9, <1>10, <2>1, <2>2
    <2>4. root \in near \cup UNION {Neighbours(k, graph) : k \in near}
      BY <2>3
    <2>5. QED BY <2>2, <2>4
  <1>12. Connected(graph)
    BY ONLY <1>8, <1>11 DEF Connected
  <1>13. QED BY <1>1, <1>3, <1>5, <1>12

\* The transactions of a merchant that there are now.
Known(id, m) == \E t \in store.transactions : t.id = id /\ t.merchant = m

\* A row of the merchant, or of one of these transactions.
RowOf(x, m, ids) ==
  IF "merchant" \in DOMAIN x THEN x.merchant = m
  ELSE x.transaction \in ids /\ Known(x.transaction, m) /\ (x \in store.events \/ x \in store.results)

\* A statement that finds such rows.
FromTables(q, m, ids, s) ==
  \/ \E table \in OwnedTables : q.rows \subseteq Own(m, s[table])
  \/ \E table \in HangingTables : q.rows \subseteq OfTransactions(ids, s[table])

\* What r has read for the graph that it answers.
GraphSeen(r, o, g) ==
  /\ \E S : g \in Seq(S)
  /\ \A j \in 1..Len(g) : \E s, h :
       /\ Lately(s, r) /\ h = SubSeq(g, 1, j - 1)
       /\ j <= Len(GraphReads(o, h, s)) /\ g[j] \in Results(GraphReads(o, h, s)[j])
  /\ \E s : Lately(s, r) /\ Len(g) = Len(GraphReads(o, g, s))

LEMMA GraphIsSeen ==
  ASSUME HistoryInv, NEW r \in Requests, Reported(r, GraphNames), answer[r] = "200"
  PROVE  /\ GraphSeen(r, op[r], got[r][1]) /\ GraphAnswer(op[r], got[r][1]) = "200"
         /\ op[r] \in Operations[r] /\ op[r].name \in GraphNames
  <1>1. HistoryOK(r) /\ ReportOK(r) /\ pc[r] \in {"respond", "save", "done"} /\ got[r] # <<>> /\ op[r].name \in GraphNames
    BY DEF HistoryInv, ReportingInv, Reported
  <1>2. PICK o, g : o = op[r] /\ g = got[r][1]
    OBVIOUS
  <1>3. Seen(r, o, g) /\ o \in Operations[r]
    <2>1. o.name \notin DashboardNames
      BY <1>1, <1>2 DEF GraphNames, DashboardNames
    <2>2. QED BY <1>1, <1>2, <2>1, OnePart
  <1>4. ASSUME NEW h, NEW s PROVE Queries(o.name, o, h, s) = GraphReads(o, h, s)
    <2>1. o.name \notin MarNames /\ o.name \notin HealthNames /\ o.name \notin DashboardNames /\ o.name \in GraphNames
      BY <1>1, <1>2 DEF GraphNames, MarNames, HealthNames, DashboardNames
    <2>2. QED BY <2>1 DEF Queries, MarNames, HealthNames, DashboardNames, GraphNames, TimelineOperations, AssistantNames
  <1>5. GraphSeen(r, o, g)
    BY <1>3, <1>4 DEF Seen, GraphSeen
  <1>6. GraphAnswer(o, g) = "200"
    BY <1>1, <1>2 DEF HistoryOK
  <1>7. QED BY <1>1, <1>2, <1>3, <1>5, <1>6

\* Transactions keep their merchant.
LEMMA KnownSince ==
  ASSUME NEW r, NEW s, Lately(s, r), NEW m, NEW t \in Own(m, s.transactions)
  PROVE  Known(t.id, m) /\ "merchant" \in DOMAIN t /\ t.merchant = m /\ t.id \in Names("transactions")
  <1>1. Typed(s) /\ Precedes(s, store, touched[r]) /\ t \in s.transactions /\ t.merchant = m
    BY DEF Lately, Own
  <1>2. PICK u \in store.transactions : Versions(t, u)
    BY <1>1 DEF Precedes
  <1>3. {"id", "merchant"} \subseteq DOMAIN t
    BY <1>1 DEF Typed, Database, IsRow, Tables, OwnedTables
  <1>4. u.id = t.id /\ u.merchant = m
    BY <1>1, <1>2, <1>3 DEF Versions
  <1>5. t.id \in Names("transactions")
    BY <1>1 DEF Typed, Ids
  <1>6. QED BY <1>1, <1>2, <1>3, <1>4, <1>5 DEF Known

\* Events and results stay as they are.
LEMMA HangingSince ==
  ASSUME NEW r, NEW s, Lately(s, r), NEW table \in HangingTables
  PROVE  /\ \A x \in s[table] : "merchant" \notin DOMAIN x /\ x \in store[table] /\ x.id \in Names(table)
         /\ touched[r] = {} => store[table] = s[table]
         /\ IsFiniteSet(s[table])
  <1>1. Typed(s) /\ Precedes(s, store, touched[r]) /\ table \in {"events", "results"}
    BY DEF Lately, HangingTables
  <1>2. table \in DOMAIN s \ (Written \cup {"transactions"})
    BY <1>1 DEF Typed, Written
  <1>3. s[table] \subseteq store[table] /\ \A x \in store[table] \ s[table] : x.id \in touched[r]
    BY <1>1, <1>2 DEF Precedes
  <1>4. \A x \in s[table] : "merchant" \notin DOMAIN x /\ x.id \in Names(table)
    BY <1>1 DEF Typed, Ids
  <1>5. IsFiniteSet(s[table])
    BY <1>1 DEF Typed
  <1>6. QED BY <1>3, <1>4, <1>5

\* A row of a statement's result is of the merchant, or of one of the transactions.
LEMMA RowsFound ==
  ASSUME NEW r, NEW s, Lately(s, r), NEW q, NEW m, NEW ids, FromTables(q, m, ids, s), \A id \in ids : Known(id, m),
         NEW taken \in Results(q), NEW x \in taken
  PROVE  RowOf(x, m, ids)
  <1>1. x \in q.rows
    BY ResultsAreRows
  <1>2. CASE \E table \in OwnedTables : q.rows \subseteq Own(m, s[table])
    <2>1. PICK table \in OwnedTables : x \in Own(m, s[table])
      BY <1>1, <1>2
    <2>2. "merchant" \in DOMAIN x /\ x.merchant = m
      BY <2>1 DEF Own, Lately, Typed
    <2>3. QED BY <2>2 DEF RowOf
  <1>3. CASE \E table \in HangingTables : q.rows \subseteq OfTransactions(ids, s[table])
    <2>1. PICK table \in HangingTables : x \in OfTransactions(ids, s[table])
      BY <1>1, <1>3
    <2>2. x \in s[table] /\ x.transaction \in ids /\ table \in {"events", "results"}
      BY <2>1 DEF OfTransactions, HangingTables
    <2>3. "merchant" \notin DOMAIN x /\ x \in store[table]
      BY <2>1, <2>2, HangingSince
    <2>4. QED BY <2>2, <2>3 DEF RowOf
  <1>4. QED BY <1>2, <1>3 DEF FromTables

\* What is read for a root comes after it, and only if there is one.
LEMMA RootedReads ==
  ASSUME NEW h, NEW root, NEW S, NEW others \in Seq(S), NEW q, q = Rooted(h, root, others)
  PROVE  /\ Len(q) \in Nat \ {0} /\ q[1] = Every(root)
         /\ Len(q) <= 1 + Len(others) /\ \A i \in 1..(Len(q) - 1) : q[1 + i] = others[i]
         /\ h # <<>> /\ h[1] # {} => Len(q) = 1 + Len(others)
  <1>1. PICK first : first = <<Every(root)>>
    OBVIOUS
  <1>2. PICK rest : rest = IF h = <<>> \/ h[1] = {} THEN <<>> ELSE others
    OBVIOUS
  <1>3. PICK T : T = S \cup {Every(root)}
    OBVIOUS
  <1>4. first \in Seq(T) /\ Len(first) = 1 /\ first[1] = Every(root)
    BY <1>1, <1>3
  <1>5. others \in Seq(T) /\ rest \in Seq(T) /\ Len(others) \in Nat
    BY <1>2, <1>3
  <1>6. q = first \o rest
    BY <1>1, <1>2 DEF Rooted
  <1>7. /\ Len(q) = 1 + Len(rest)
        /\ \A i \in 1..Len(q) : q[i] = IF i <= 1 THEN first[i] ELSE rest[i - 1]
    <2>1. /\ Len(q) = Len(first) + Len(rest)
          /\ \A i \in 1..(Len(first) + Len(rest)) :
               q[i] = IF i <= Len(first) THEN first[i] ELSE rest[i - Len(first)]
      BY ONLY <1>4, <1>5, <1>6, ConcatProperties
    <2>2. QED BY ONLY <1>4, <2>1
  <1>8. Len(rest) \in Nat /\ (rest = others \/ Len(rest) = 0)
    BY <1>2, <1>5
  <1>9. h # <<>> /\ h[1] # {} => rest = others
    BY <1>2
  <1>10. Len(q) \in Nat \ {0} /\ q[1] = Every(root)
    BY ONLY <1>4, <1>7, <1>8
  <1>11. \A i \in 1..(Len(q) - 1) : 1 + i \in 1..Len(q) /\ q[1 + i] = rest[i] /\ rest = others
    <2>1. SUFFICES ASSUME NEW i \in 1..(Len(q) - 1)
                   PROVE  1 + i \in 1..Len(q) /\ q[1 + i] = rest[i] /\ rest = others
      OBVIOUS
    <2>2. PICK n, k : n = Len(rest) /\ k = 1 + i
      OBVIOUS
    <2>3. i \in 1..n /\ n \in Nat
      BY ONLY <1>7, <1>8, <2>1, <2>2
    <2>4. k \in 1..Len(q) /\ ~(k <= 1) /\ k - 1 = i /\ n # 0
      BY ONLY <1>7, <2>2, <2>3
    <2>5. q[k] = rest[k - 1]
      BY ONLY <1>7, <2>4
    <2>6. QED BY ONLY <1>8, <2>2, <2>4, <2>5
  <1>12. Len(q) <= 1 + Len(others)
    BY ONLY <1>5, <1>7, <1>8
  <1>13. QED BY ONLY <1>7, <1>9, <1>10, <1>11, <1>12

LEMMA RowsOfStatements ==
  ASSUME NEW rows, NEW n
  PROVE  /\ Every(rows).rows = rows /\ Some(rows, n).rows = rows /\ Latest(rows, n).rows = rows
         /\ Largest(rows, LAMBDA x : x.settled, n).rows = rows
  BY DEF Every, Some, Latest, Largest

\* The statements for a root find rows of the merchant, if those after it do.
LEMMA FromRooted ==
  ASSUME NEW h, NEW m, NEW ids, NEW s, NEW table \in OwnedTables, NEW root, root \subseteq Own(m, s[table]),
         NEW S, NEW others \in Seq(S), \A z \in S : FromTables(z, m, ids, s),
         NEW q, q = Rooted(h, root, others), NEW j \in 1..Len(q)
  PROVE  FromTables(q[j], m, ids, s)
  <1>1. /\ Len(q) \in Nat \ {0} /\ q[1] = Every(root)
        /\ Len(q) <= 1 + Len(others) /\ \A i \in 1..(Len(q) - 1) : q[1 + i] = others[i]
    BY RootedReads
  <1>2. CASE j = 1
    <2>1. q[j].rows = root
      BY <1>1, <1>2, RowsOfStatements
    <2>2. QED BY <2>1 DEF FromTables
  <1>3. CASE j # 1
    <2>1. PICK i, n, k : i = j - 1 /\ n = Len(q) /\ k = Len(others)
      OBVIOUS
    <2>2. k \in Nat
      BY <2>1
    <2>3. i \in 1..(n - 1) /\ i \in 1..k /\ 1 + i = j
      BY ONLY <1>1, <1>3, <2>1, <2>2, j \in 1..Len(q)
    <2>4. q[j] = others[i]
      BY ONLY <1>1, <2>1, <2>3
    <2>5. others[i] \in S
      BY <2>1, <2>3
    <2>6. QED BY <2>4, <2>5
  <1>4. QED BY <1>2, <1>3

\* The transactions that a graph is about, of those it has read.
About(o, g) ==
  CASE o.name = "transaction_graph" -> {o.id}
    [] o.name = "settlement_graph" -> IF Len(g) >= 2 THEN Ids(g[2]) ELSE {}
    [] o.name = "customer_graph" -> Ids(g[1])
    [] OTHER -> {}

\* A statement of the graph finds rows of its merchant or of those transactions.
StatementFinds(o, g, h, s, j) == FromTables(GraphReads(o, h, s)[j], Effective(o), About(o, g), s)

LEMMA TransactionFinds ==
  ASSUME NEW o, o.name = "transaction_graph", NEW g, NEW h, NEW s, NEW j \in 1..Len(GraphReads(o, h, s))
  PROVE  StatementFinds(o, g, h, s, j)
  <1>1. PICK m, ids : m = Effective(o) /\ ids = {o.id}
    OBVIOUS
  <1>2. PICK t : t = TheRow(h[1])
    OBVIOUS
  <1>0. PICK C, D : /\ C = {e \in Own(m, s.entries) : t.amount \in {e.credit, e.debit}}
                    /\ D = {x \in Own(m, s.settlements) : x.provider = t.provider}
    OBVIOUS
  <1>3. PICK a, b, c, d : /\ a = Every(OfTransactions(ids, s.events)) /\ b = Every(OfTransactions(ids, s.results))
                          /\ c = Some(C, 5) /\ d = Some(D, 3)
    OBVIOUS
  <1>4. PICK root : root = ById(o.id, m, s.transactions)
    OBVIOUS
  <1>5. PICK q, others, T : q = GraphReads(o, h, s) /\ others = <<a, b, c, d>> /\ T = {a, b, c, d}
    OBVIOUS
  <1>6. q = Rooted(h, root, others) /\ j \in 1..Len(q)
    BY <1>0, <1>1, <1>2, <1>3, <1>4, <1>5 DEF GraphReads, TransactionGraphReads
  <1>7. FromTables(a, m, ids, s) /\ FromTables(b, m, ids, s)
    <2>1. a.rows = OfTransactions(ids, s.events) /\ b.rows = OfTransactions(ids, s.results)
      BY <1>3, RowsOfStatements
    <2>2. QED BY <2>1 DEF FromTables, HangingTables
  <1>8. FromTables(c, m, ids, s) /\ FromTables(d, m, ids, s)
    <2>1. c.rows = C /\ d.rows = D
      BY <1>3, RowsOfStatements
    <2>2. c.rows \subseteq Own(m, s["entries"]) /\ d.rows \subseteq Own(m, s["settlements"])
      BY <1>0, <2>1
    <2>3. QED BY <2>2 DEF FromTables, OwnedTables
  <1>9. others \in Seq(T) /\ \A z \in T : FromTables(z, m, ids, s)
    BY <1>5, <1>7, <1>8
  <1>10. root \subseteq Own(m, s["transactions"]) /\ "transactions" \in OwnedTables
    BY <1>4 DEF ById, OwnedTables
  <1>11. FromTables(q[j], m, ids, s)
    BY ONLY <1>6, <1>9, <1>10, FromRooted
  <1>12. About(o, g) = ids
    BY <1>1 DEF About
  <1>13. QED BY <1>1, <1>5, <1>11, <1>12 DEF StatementFinds

LEMMA IncidentFinds ==
  ASSUME NEW o, o.name = "incident_graph", NEW g, NEW h, NEW s, NEW j \in 1..Len(GraphReads(o, h, s))
  PROVE  StatementFinds(o, g, h, s, j)
  <1>1. PICK m : m = Effective(o)
    OBVIOUS
  <1>0. PICK A, B, none : /\ A = {x \in Own(m, s.alerts) : x.metadata} /\ none = {}
                          /\ B = In(Own(m, s.jobs), {"failed", "failed_permanent"})
    OBVIOUS
  <1>2. PICK a, b, T : a = Some(A, 10) /\ b = Some(B, 5) /\ T = {a, b}
    OBVIOUS
  <1>3. PICK root, q : root = ById(o.id, m, s.incidents) /\ q = GraphReads(o, h, s)
    OBVIOUS
  <1>4. PICK before, others : /\ before = (IF TheRow(h[1]).provider = None THEN <<>> ELSE <<a>>)
                              /\ others = before \o <<b>>
    OBVIOUS
  <1>5. q = Rooted(h, root, others) /\ j \in 1..Len(q)
    BY <1>0, <1>1, <1>2, <1>3, <1>4 DEF GraphReads, IncidentGraphReads
  <1>6. before \in Seq(T) /\ <<b>> \in Seq(T)
    <2>1. <<>> \in Seq(T) /\ <<a>> \in Seq(T) /\ <<b>> \in Seq(T)
      BY <1>2
    <2>2. QED BY ONLY <1>4, <2>1
  <1>7. others \in Seq(T)
    BY ONLY <1>4, <1>6, ConcatProperties
  <1>8. \A z \in T : FromTables(z, m, none, s)
    <2>1. a.rows = A /\ b.rows = B
      BY <1>2, RowsOfStatements
    <2>2. a.rows \subseteq Own(m, s["alerts"]) /\ b.rows \subseteq Own(m, s["jobs"])
      BY <1>0, <2>1 DEF In
    <2>3. QED BY <1>2, <2>2 DEF FromTables, OwnedTables
  <1>9. root \subseteq Own(m, s["incidents"]) /\ "incidents" \in OwnedTables
    BY <1>3 DEF ById, OwnedTables
  <1>10. FromTables(q[j], m, none, s)
    BY ONLY <1>5, <1>7, <1>8, <1>9, FromRooted
  <1>11. About(o, g) = none
    BY <1>0 DEF About
  <1>12. QED BY <1>1, <1>3, <1>10, <1>11 DEF StatementFinds

LEMMA SettlementFinds ==
  ASSUME NEW o, o.name = "settlement_graph", NEW S, NEW g \in Seq(S), NEW n \in 1..Len(g), NEW h, h = SubSeq(g, 1, n - 1),
         NEW s, NEW j \in 1..Len(GraphReads(o, h, s))
  PROVE  StatementFinds(o, g, h, s, j)
  <1>1. PICK m, ids : m = Effective(o) /\ ids = About(o, g)
    OBVIOUS
  <1>2. PICK root, q : root = ById(o.id, m, s.settlements) /\ q = GraphReads(o, h, s)
    OBVIOUS
  <1>3. PICK x : x = TheRow(h[1])
    OBVIOUS
  <1>0. PICK A : A = {t \in Own(m, s.transactions) :
                        t.provider = x.provider /\ t.at \in (x.settled - Day)..(x.settled + Day)}
    OBVIOUS
  <1>4. PICK a, b : /\ a = Some(A, 15)
                    /\ b = Some(OfTransactions(Ids(h[2]), s.results), 15)
    OBVIOUS
  <1>5. PICK more, others : more = (IF Len(h) < 2 \/ h[2] = {} THEN <<>> ELSE <<b>>) /\ others = <<a>> \o more
    OBVIOUS
  <1>6. q = Rooted(h, root, others) /\ j \in 1..Len(q)
    BY <1>0, <1>1, <1>2, <1>3, <1>4, <1>5 DEF GraphReads, SettlementGraphReads
  <1>7. PICK T : T = IF Len(h) < 2 THEN {a} ELSE {a, b}
    OBVIOUS
  <1>8. <<a>> \in Seq(T) /\ more \in Seq(T)
    <2>1. a \in T /\ (b \in T \/ Len(h) < 2)
      BY <1>7
    <2>2. <<>> \in Seq(T) /\ <<a>> \in Seq(T)
      BY <2>1
    <2>3. Len(h) < 2 \/ <<b>> \in Seq(T)
      BY <2>1
    <2>4. QED BY ONLY <1>5, <2>2, <2>3
  <1>9. others \in Seq(T)
    BY ONLY <1>5, <1>8, ConcatProperties
  <1>10. FromTables(a, m, ids, s)
    <2>1. a.rows = A
      BY <1>4, RowsOfStatements
    <2>2. a.rows \subseteq Own(m, s["transactions"])
      BY <1>0, <2>1
    <2>3. QED BY <2>2 DEF FromTables, OwnedTables
  <1>11. Len(h) >= 2 => FromTables(b, m, ids, s)
    <2>1. Len(h) = n - 1 /\ (n >= 3 => h[2] = g[2])
      BY ReadBefore
    <2>2. Len(h) >= 2 => Len(g) >= 2 /\ h[2] = g[2]
      BY <2>1
    <2>3. Len(h) >= 2 => ids = Ids(h[2])
      BY <1>1, <2>2 DEF About
    <2>4. b.rows = OfTransactions(Ids(h[2]), s.results)
      BY <1>4, RowsOfStatements
    <2>5. QED BY <2>3, <2>4 DEF FromTables, HangingTables
  <1>12. Len(h) \in Nat
    BY ReadBefore
  <1>13. \A z \in T : FromTables(z, m, ids, s)
    BY <1>7, <1>10, <1>11, <1>12
  <1>14. root \subseteq Own(m, s["settlements"]) /\ "settlements" \in OwnedTables
    BY <1>2 DEF ById, OwnedTables
  <1>15. FromTables(q[j], m, ids, s)
    BY ONLY <1>6, <1>9, <1>13, <1>14, FromRooted
  <1>16. QED BY <1>1, <1>2, <1>15 DEF StatementFinds

\* The statements for a customer: after the first, two for each of its transactions.
ForCustomer(o, s, txs, q) ==
  /\ Len(txs) \in Nat /\ Len(q) = 1 + 2 * Len(txs)
  /\ q[1] = Some({t \in Own(Effective(o), s.transactions) : t.email = o.id}, 20)
  /\ \A i \in 1..(2 * Len(txs)) :
       q[1 + i] = Every(OfTransactions({txs[(i + 1) \div 2].id}, IF i % 2 = 1 THEN s.events ELSE s.results))

LEMMA CustomerReads ==
  ASSUME NEW o, o.name = "customer_graph", NEW h, h # <<>> => IsFiniteSet(h[1]), NEW s,
         NEW txs, txs = (IF h = <<>> THEN <<>> ELSE SetToSeq(h[1])), NEW q, q = GraphReads(o, h, s)
  PROVE  ForCustomer(o, s, txs, q)
  <1>1. Len(txs) \in Nat
    <2>1. CASE h = <<>>
      BY <2>1
    <2>2. CASE h # <<>>
      BY <2>2, AllInSequence
    <2>3. QED BY <2>1, <2>2
  <1>2. PICK a, k, f : /\ a = Some({t \in Own(Effective(o), s.transactions) : t.email = o.id}, 20)
                       /\ k = 2 * Len(txs)
                       /\ f = [i \in 1..k |-> Every(OfTransactions({txs[(i + 1) \div 2].id},
                                                                   IF i % 2 = 1 THEN s.events ELSE s.results))]
    OBVIOUS
  <1>3. q = <<a>> \o f
    BY <1>2 DEF GraphReads, CustomerGraphReads
  <1>4. k \in Nat
    BY ONLY <1>1, <1>2
  <1>5. PICK T : T = {a} \cup {f[i] : i \in 1..k}
    OBVIOUS
  <1>6. f \in Seq(T) /\ Len(f) = k
    <2>1. f = [i \in 1..k |-> f[i]]
      BY <1>2
    <2>2. QED BY ONLY <1>4, <1>5, <2>1
  <1>7. <<a>> \in Seq(T) /\ Len(<<a>>) = 1 /\ <<a>>[1] = a
    BY <1>5
  <1>8. /\ Len(q) = Len(<<a>>) + Len(f)
        /\ \A i \in 1..(Len(<<a>>) + Len(f)) : q[i] = IF i <= Len(<<a>>) THEN <<a>>[i] ELSE f[i - Len(<<a>>)]
    BY ONLY <1>3, <1>6, <1>7, ConcatProperties
  <1>9. Len(q) = 1 + k /\ \A i \in 1..(1 + k) : q[i] = IF i <= 1 THEN a ELSE f[i - 1]
    <2>1. PICK one : one = <<a>>
      OBVIOUS
    <2>2. QED BY ONLY <1>6, <1>7, <1>8
  <1>10. q[1] = a /\ \A i \in 1..k : q[1 + i] = f[i]
    <2>1. q[1] = a
      BY ONLY <1>4, <1>9
    <2>2. ASSUME NEW i \in 1..k
          PROVE  q[1 + i] = f[i]
      <3>1. PICK j : j = 1 + i
        OBVIOUS
      <3>2. j \in 1..(1 + k) /\ ~(j <= 1) /\ j - 1 = i
        BY ONLY <1>4, <2>2, <3>1
      <3>3. q[j] = f[j - 1]
        BY ONLY <1>9, <3>2
      <3>4. QED BY ONLY <3>1, <3>2, <3>3
    <2>3. QED BY <2>1, <2>2
  <1>11. QED BY <1>1, <1>2, <1>9, <1>10 DEF ForCustomer

LEMMA CustomerFinds ==
  ASSUME NEW o, o.name = "customer_graph", NEW S, NEW g \in Seq(S), IsFiniteSet(g[1]),
         NEW n \in 1..Len(g), NEW h, h = SubSeq(g, 1, n - 1),
         NEW s, NEW j \in 1..Len(GraphReads(o, h, s))
  PROVE  /\ StatementFinds(o, g, h, s, j)
         /\ j # 1 => \E table \in HangingTables : GraphReads(o, h, s)[j].rows \subseteq OfTransactions(Ids(g[1]), s[table])
  <1>1. PICK m, ids, q : m = Effective(o) /\ ids = Ids(g[1]) /\ q = GraphReads(o, h, s)
    OBVIOUS
  <1>2. PICK txs : txs = (IF h = <<>> THEN <<>> ELSE SetToSeq(h[1]))
    OBVIOUS
  <1>3. h # <<>> => h[1] = g[1]
    <2>1. h = <<>> <=> n = 1
      BY ReadBefore
    <2>2. n >= 2 => h[1] = g[1]
      BY ReadBefore
    <2>3. QED BY <2>1, <2>2
  <1>4. /\ Len(txs) \in Nat /\ Len(q) = 1 + 2 * Len(txs)
        /\ q[1] = Some({t \in Own(m, s.transactions) : t.email = o.id}, 20)
        /\ \A i \in 1..(2 * Len(txs)) :
             q[1 + i] = Every(OfTransactions({txs[(i + 1) \div 2].id}, IF i % 2 = 1 THEN s.events ELSE s.results))
    <2>1. o.name = "customer_graph" /\ (h # <<>> => IsFiniteSet(h[1])) /\ q = GraphReads(o, h, s)
      BY <1>1, <1>3
    <2>2. ForCustomer(o, s, txs, q)
      BY ONLY <1>2, <2>1, CustomerReads
    <2>3. m = Effective(o)
      BY ONLY <1>1
    <2>4. QED BY ONLY <2>2, <2>3 DEF ForCustomer
  <1>5. CASE j = 1
    <2>1. PICK A : A = {t \in Own(m, s.transactions) : t.email = o.id}
      OBVIOUS
    <2>2. q[j].rows = A
      <3>1. q[1] = Some(A, 20)
        BY ONLY <1>4, <2>1
      <3>2. PICK first : first = Some(A, 20)
        OBVIOUS
      <3>3. first.rows = A
        BY ONLY <3>2, RowsOfStatements
      <3>4. QED BY ONLY <1>5, <3>1, <3>2, <3>3
    <2>3. q[j].rows \subseteq Own(m, s["transactions"])
      BY <2>1, <2>2
    <2>4. QED BY <1>1, <1>5, <2>3 DEF StatementFinds, FromTables, OwnedTables
  <1>6. CASE j # 1
    <2>1. PICK i, k, c : i = j - 1 /\ k = (i + 1) \div 2 /\ c = Len(txs)
      OBVIOUS
    <2>2. c \in Nat /\ i \in 1..(2 * c) /\ 1 + i = j
      BY <1>1, <1>4, <1>6, <2>1
    <2>3. k \in 1..c
      BY ONLY <2>1, <2>2
    <2>4. PICK rows, table : /\ table = (IF i % 2 = 1 THEN "events" ELSE "results")
                             /\ rows = OfTransactions({txs[k].id}, IF i % 2 = 1 THEN s.events ELSE s.results)
      OBVIOUS
    <2>5. q[j] = Every(rows)
      BY <1>4, <2>1, <2>2, <2>4
    <2>6. q[j].rows = rows
      BY <2>5, RowsOfStatements
    <2>7. txs[k] \in g[1]
      <3>1. h # <<>>
        <4>1. h = <<>> => c = 0
          BY <1>2, <2>1
        <4>2. QED BY ONLY <2>2, <2>3, <4>1
      <3>2. txs = SetToSeq(g[1])
        BY <1>2, <1>3, <3>1
      <3>3. txs \in Seq(g[1])
        BY <3>2, AllInSequence
      <3>4. QED BY <2>1, <2>3, <3>3
    <2>8. txs[k].id \in ids
      BY <1>1, <2>7 DEF Ids
    <2>9. table \in HangingTables /\ rows \subseteq OfTransactions(ids, s[table])
      BY <2>4, <2>8 DEF OfTransactions, HangingTables
    <2>10. FromTables(q[j], m, ids, s)
      BY <2>6, <2>9 DEF FromTables
    <2>11. About(o, g) = ids
      BY <1>1 DEF About
    <2>12. StatementFinds(o, g, h, s, j)
      BY <1>1, <2>10, <2>11 DEF StatementFinds
    <2>13. QED BY <1>1, <2>6, <2>9, <2>12
  <1>7. QED BY <1>5, <1>6

LEMMA MerchantFinds ==
  ASSUME NEW o, o.name \in OfMerchant, o.merchant # None, NEW g, NEW h, NEW s, NEW j \in 1..Len(GraphReads(o, h, s))
  PROVE  StatementFinds(o, g, h, s, j)
  <1>1. PICK m, ids, q : m = Effective(o) /\ ids = About(o, g) /\ q = GraphReads(o, h, s)
    OBVIOUS
  <1>2. m = o.merchant /\ j \in 1..Len(q)
    BY <1>1 DEF Effective
  <1>4. {"transactions", "settlements", "incidents", "accounts", "sources", "alerts"} \subseteq OwnedTables
    BY DEF OwnedTables
  <1>6. PICK t, e, i, a, c, l : /\ t = Own(m, s.transactions) /\ e = Own(m, s.settlements) /\ i = Own(m, s.incidents)
                                /\ a = Own(m, s.accounts) /\ c = Own(m, s.sources) /\ l = Own(m, s.alerts)
    OBVIOUS
  <1>7. PICK open : open = In(i, {"open"})
    OBVIOUS
  <1>8. open \subseteq i
    BY <1>7 DEF In
  <1>9. CASE o.name = "overview_graph"
    <2>1. q = <<Some(t, 20), Some(e, 10), Some(i, 5), Some(a, 10), Some(c, 10)>>
      BY <1>1, <1>2, <1>6, <1>9 DEF GraphReads, OverviewReads
    <2>2. j \in 1..5
      BY <1>2, <2>1
    <2>3. /\ q[1].rows = t /\ q[2].rows = e /\ q[3].rows = i /\ q[4].rows = a /\ q[5].rows = c
      BY <2>1, RowsOfStatements
    <2>4. \E table \in OwnedTables : q[j].rows \subseteq Own(m, s[table])
      BY <1>4, <1>6, <2>2, <2>3
    <2>5. QED BY <1>1, <2>4 DEF StatementFinds, FromTables
  <1>10. CASE o.name = "network_graph"
    <2>1. q = <<Some(a, 10), Some(c, 10), Latest(t, 15), Largest(e, LAMBDA x : x.settled, 10), Some(open, 5), Some(l, 5)>>
      BY <1>1, <1>2, <1>6, <1>7, <1>10 DEF GraphReads, NetworkReads
    <2>2. j \in 1..6
      BY <1>2, <2>1
    <2>3. /\ q[1].rows = a /\ q[2].rows = c /\ q[3].rows = t /\ q[4].rows = e /\ q[5].rows = open /\ q[6].rows = l
      BY <2>1, RowsOfStatements
    <2>4. \E table \in OwnedTables : q[j].rows \subseteq Own(m, s[table])
      BY <1>4, <1>6, <1>8, <2>2, <2>3
    <2>5. QED BY <1>1, <2>4 DEF StatementFinds, FromTables
  <1>11. QED BY <1>9, <1>10 DEF OfMerchant

LEMMA GraphFinds ==
  ASSUME NEW o, o.name \in GraphNames, o.name \in OfMerchant => o.merchant # None,
         NEW S, NEW g \in Seq(S), o.name = "customer_graph" => IsFiniteSet(g[1]),
         NEW n \in 1..Len(g), NEW h, h = SubSeq(g, 1, n - 1), NEW s, NEW j \in 1..Len(GraphReads(o, h, s))
  PROVE  StatementFinds(o, g, h, s, j)
  <1>1. CASE o.name = "transaction_graph"
    BY <1>1, TransactionFinds
  <1>2. CASE o.name = "incident_graph"
    BY <1>2, IncidentFinds
  <1>3. CASE o.name = "settlement_graph"
    BY <1>3, SettlementFinds
  <1>4. CASE o.name = "customer_graph"
    BY <1>4, CustomerFinds
  <1>5. CASE o.name \in OfMerchant
    BY <1>5, MerchantFinds
  <1>6. QED BY <1>1, <1>2, <1>3, <1>4, <1>5 DEF GraphNames, OfMerchant

\* The statement that a graph begins with.
LEMMA GraphBegins ==
  ASSUME NEW o, o.name \in GraphNames, NEW h, h = <<>>, NEW s, NEW q, q = GraphReads(o, h, s)
  PROVE  /\ Len(q) \in Nat \ {0}
         /\ o.name = "transaction_graph" => q[1].rows = ById(o.id, Effective(o), s.transactions)
         /\ o.name = "customer_graph" => q[1].rows \subseteq Own(Effective(o), s.transactions)
  <1>1. ASSUME NEW root, NEW others, q = Rooted(h, root, others)
        PROVE  Len(q) = 1 /\ q[1].rows = root
    <2>1. q = <<Every(root)>> \o <<>>
      BY <1>1 DEF Rooted
    <2>2. PICK a : a = Every(root)
      OBVIOUS
    <2>3. q = <<a>>
      BY ONLY <2>1, <2>2
    <2>4. a.rows = root
      BY ONLY <2>2, RowsOfStatements
    <2>5. Len(q) = 1 /\ q[1] = a
      BY ONLY <2>3
    <2>6. QED BY ONLY <2>4, <2>5
  <1>2. PICK m : m = Effective(o)
    OBVIOUS
  <1>3. CASE o.name = "transaction_graph"
    <2>1. \E others : q = Rooted(h, ById(o.id, m, s.transactions), others)
      BY <1>2, <1>3 DEF GraphReads, TransactionGraphReads
    <2>2. QED BY <1>1, <1>2, <1>3, <2>1
  <1>4. CASE o.name = "incident_graph"
    <2>1. \E others : q = Rooted(h, ById(o.id, m, s.incidents), others)
      BY <1>2, <1>4 DEF GraphReads, IncidentGraphReads
    <2>2. QED BY <1>1, <1>4, <2>1
  <1>5. CASE o.name = "settlement_graph"
    <2>1. \E others : q = Rooted(h, ById(o.id, m, s.settlements), others)
      BY <1>2, <1>5 DEF GraphReads, SettlementGraphReads
    <2>2. QED BY <1>1, <1>5, <2>1
  <1>6. CASE o.name = "customer_graph"
    <2>1. PICK txs : txs = (IF h = <<>> THEN <<>> ELSE SetToSeq(h[1]))
      OBVIOUS
    <2>2. ForCustomer(o, s, txs, q)
      BY <1>6, <2>1, CustomerReads
    <2>3. PICK A : A = {t \in Own(m, s.transactions) : t.email = o.id}
      OBVIOUS
    <2>4. q[1] = Some(A, 20) /\ Len(q) \in Nat \ {0}
      BY <1>2, <2>2, <2>3 DEF ForCustomer
    <2>5. q[1].rows = A
      <3>1. PICK first : first = Some(A, 20)
        OBVIOUS
      <3>2. first.rows = A
        BY ONLY <3>1, RowsOfStatements
      <3>3. QED BY ONLY <2>4, <3>1, <3>2
    <2>6. A \subseteq Own(m, s.transactions)
      BY ONLY <2>3
    <2>7. QED BY <1>2, <1>6, <2>4, <2>5, <2>6
  <1>7. CASE o.name = "overview_graph"
    <2>1. Len(q) = 5
      BY <1>7 DEF GraphReads, OverviewReads
    <2>2. Len(q) \in Nat \ {0}
      BY ONLY <2>1
    <2>3. QED BY <1>7, <2>2
  <1>8. CASE o.name = "network_graph"
    <2>1. Len(q) = 6
      BY <1>8 DEF GraphReads, NetworkReads
    <2>2. Len(q) \in Nat \ {0}
      BY ONLY <2>1
    <2>3. QED BY <1>8, <2>2
  <1>9. QED BY <1>3, <1>4, <1>5, <1>6, <1>7, <1>8 DEF GraphNames

\* The second statement for a settlement finds transactions.
LEMMA SettlementSecond ==
  ASSUME NEW o, o.name = "settlement_graph", NEW h, NEW s, NEW q, q = GraphReads(o, h, s), 2 <= Len(q)
  PROVE  q[2].rows \subseteq Own(Effective(o), s.transactions)
  <1>1. PICK m, root : m = Effective(o) /\ root = ById(o.id, m, s.settlements)
    OBVIOUS
  <1>2. PICK x : x = TheRow(h[1])
    OBVIOUS
  <1>3. PICK A : A = {t \in Own(m, s.transactions) :
                        t.provider = x.provider /\ t.at \in (x.settled - Day)..(x.settled + Day)}
    OBVIOUS
  <1>4. PICK a, b, T : a = Some(A, 15) /\ b = Some(OfTransactions(Ids(h[2]), s.results), 15) /\ T = {a, b}
    OBVIOUS
  <1>5. PICK more, others : more = (IF Len(h) < 2 \/ h[2] = {} THEN <<>> ELSE <<b>>) /\ others = <<a>> \o more
    OBVIOUS
  <1>6. q = Rooted(h, root, others)
    BY <1>1, <1>2, <1>3, <1>4, <1>5 DEF GraphReads, SettlementGraphReads
  <1>7. <<a>> \in Seq(T) /\ more \in Seq(T) /\ Len(<<a>>) = 1 /\ <<a>>[1] = a
    <2>1. <<>> \in Seq(T) /\ <<a>> \in Seq(T) /\ <<b>> \in Seq(T)
      BY <1>4
    <2>2. QED BY ONLY <1>5, <2>1
  <1>8. others \in Seq(T) /\ others[1] = a
    <2>1. others \in Seq(T)
      BY ONLY <1>5, <1>7, ConcatProperties
    <2>2. \A i \in 1..(Len(<<a>>) + Len(more)) : others[i] = IF i <= Len(<<a>>) THEN <<a>>[i] ELSE more[i - Len(<<a>>)]
      BY ONLY <1>5, <1>7, ConcatProperties
    <2>3. Len(more) \in Nat
      BY ONLY <1>7
    <2>4. 1 \in 1..(Len(<<a>>) + Len(more)) /\ 1 <= Len(<<a>>)
      BY ONLY <1>7, <2>3
    <2>5. QED BY ONLY <1>7, <2>1, <2>2, <2>4
  <1>9. \A i \in 1..(Len(q) - 1) : q[1 + i] = others[i]
    BY ONLY <1>6, <1>8, RootedReads
  <1>10. Len(q) \in Nat
    BY ONLY <1>6, <1>8, RootedReads
  <1>11. 1 \in 1..(Len(q) - 1) /\ 1 + 1 = 2
    BY <1>10
  <1>12. q[2] = a
    BY ONLY <1>8, <1>9, <1>11
  <1>13. q[2].rows = A
    <2>1. a = Some(A, 15)
      BY ONLY <1>4
    <2>2. a.rows = A
      BY ONLY <2>1, RowsOfStatements
    <2>3. QED BY ONLY <1>12, <2>2
  <1>14. QED BY <1>1, <1>3, <1>13

\* The j-th statement of a graph, when it was read.
LEMMA StatementSeen ==
  ASSUME NEW r, NEW o, o.name \in GraphNames, NEW g, GraphSeen(r, o, g), NEW j \in 1..Len(g)
  PROVE  \E s, h : /\ Lately(s, r) /\ h = SubSeq(g, 1, j - 1)
                   /\ j \in 1..Len(GraphReads(o, h, s)) /\ g[j] \in Results(GraphReads(o, h, s)[j])
  <1>1. PICK s, h : /\ Lately(s, r) /\ h = SubSeq(g, 1, j - 1)
                    /\ j <= Len(GraphReads(o, h, s)) /\ g[j] \in Results(GraphReads(o, h, s)[j])
    BY DEF GraphSeen
  <1>2. PICK n, k : n = Len(g) /\ k = Len(GraphReads(o, h, s))
    OBVIOUS
  <1>3. n \in Nat
    BY <1>2 DEF GraphSeen
  <1>4. j \in 1..n /\ j <= k
    BY <1>1, <1>2
  <1>5. j \in 1..k
    BY ONLY <1>3, <1>4
  <1>6. QED BY <1>1, <1>2, <1>5

\* Rows of transactions of the merchant.
LEMMA TransactionsKnown ==
  ASSUME NEW r, NEW s, Lately(s, r), NEW m, NEW q, q.rows \subseteq Own(m, s.transactions), NEW taken \in Results(q)
  PROVE  /\ IsFiniteSet(taken)
         /\ \A t \in taken : Known(t.id, m) /\ "merchant" \in DOMAIN t /\ t.merchant = m /\ t.id \in Names("transactions")
  <1>1. taken \subseteq Own(m, s.transactions)
    BY ResultsAreRows
  <1>2. taken \subseteq s.transactions /\ IsFiniteSet(s.transactions)
    BY <1>1 DEF Own, Lately, Typed
  <1>3. IsFiniteSet(taken)
    BY ONLY <1>2, FS_Subset
  <1>4. QED BY <1>1, <1>3, KnownSince

\* A request that a graph may be for.
Graphs(o) == o.name \in GraphNames /\ (o.name \in OfMerchant => o.merchant # None)

\* What a graph that is answered begins with.
LEMMA GraphHasRoot ==
  ASSUME NEW r, NEW o, Graphs(o), NEW g, GraphSeen(r, o, g), GraphAnswer(o, g) = "200"
  PROVE  /\ Len(g) \in Nat \ {0}
         /\ o.name \notin OfMerchant => g[1] # {}
         /\ o.name = "transaction_graph" => Known(o.id, Effective(o))
         /\ o.name = "customer_graph" =>
              /\ IsFiniteSet(g[1])
              /\ \A t \in g[1] : /\ Known(t.id, Effective(o)) /\ t.id \in Names("transactions")
                                 /\ "merchant" \in DOMAIN t /\ t.merchant = Effective(o)
  <1>1. o.name \in GraphNames
    BY DEF Graphs
  <1>2. PICK S : g \in Seq(S)
    BY DEF GraphSeen
  <1>3. Len(g) \in Nat \ {0}
    <2>1. CASE g = <<>>
      <3>1. PICK s : Len(g) = Len(GraphReads(o, g, s))
        BY DEF GraphSeen
      <3>2. PICK q : q = GraphReads(o, g, s)
        OBVIOUS
      <3>3. Len(q) \in Nat \ {0}
        BY <1>1, <2>1, <3>2, GraphBegins
      <3>4. QED BY <3>1, <3>2, <3>3
    <2>2. CASE g # <<>>
      BY ONLY <1>2, <2>2, EmptySeq
    <2>3. QED BY <2>1, <2>2
  <1>4. 1 \in 1..Len(g)
    BY <1>3
  <1>5. PICK s, h : /\ Lately(s, r) /\ h = SubSeq(g, 1, 1 - 1) /\ g[1] \in Results(GraphReads(o, h, s)[1])
    BY <1>1, <1>4, StatementSeen
  <1>6. h = <<>>
    BY <1>2, <1>4, <1>5, ReadBefore
  <1>7. PICK q, m : q = GraphReads(o, h, s) /\ m = Effective(o)
    OBVIOUS
  <1>8. /\ o.name = "transaction_graph" => q[1].rows = ById(o.id, m, s.transactions)
        /\ o.name = "customer_graph" => q[1].rows \subseteq Own(m, s.transactions)
    BY <1>1, <1>6, <1>7, GraphBegins
  <1>9. g[1] \in Results(q[1])
    BY <1>5, <1>7
  <1>10. o.name \notin OfMerchant => g[1] # {}
    BY DEF GraphAnswer
  <1>11. CASE o.name = "transaction_graph"
    <2>1. q[1].rows \subseteq Own(m, s.transactions)
      BY <1>8, <1>11 DEF ById
    <2>2. \A t \in g[1] : Known(t.id, m)
      BY ONLY <1>5, <1>9, <2>1, TransactionsKnown
    <2>3. PICK t : t \in g[1]
      BY <1>10, <1>11 DEF OfMerchant
    <2>4. t \in q[1].rows
      BY <1>9, <2>3, ResultsAreRows
    <2>5. t.id = o.id
      BY <1>8, <1>11, <2>4 DEF ById
    <2>6. QED BY <1>3, <1>7, <1>10, <1>11, <2>2, <2>3, <2>5
  <1>12. CASE o.name = "customer_graph"
    <2>1. q[1].rows \subseteq Own(m, s.transactions)
      BY <1>8, <1>12
    <2>2. /\ IsFiniteSet(g[1])
          /\ \A t \in g[1] : Known(t.id, m) /\ "merchant" \in DOMAIN t /\ t.merchant = m /\ t.id \in Names("transactions")
      BY ONLY <1>5, <1>9, <2>1, TransactionsKnown
    <2>3. QED BY <1>3, <1>7, <1>10, <1>12, <2>2
  <1>13. QED BY <1>3, <1>10, <1>11, <1>12

\* The transactions a graph is about are the merchant's.
LEMMA AboutIsKnown ==
  ASSUME NEW r, NEW o, Graphs(o), NEW g, GraphSeen(r, o, g), GraphAnswer(o, g) = "200", NEW id \in About(o, g)
  PROVE  Known(id, Effective(o))
  <1>1. o.name \in GraphNames
    BY DEF Graphs
  <1>2. CASE o.name = "transaction_graph"
    BY <1>2, GraphHasRoot DEF About
  <1>3. CASE o.name = "customer_graph"
    <2>1. PICK t \in g[1] : t.id = id
      BY <1>3 DEF About, Ids
    <2>2. QED BY <1>3, <2>1, GraphHasRoot
  <1>4. CASE o.name = "settlement_graph"
    <2>0. PICK n : n = Len(g)
      OBVIOUS
    <2>1. n >= 2 /\ id \in Ids(g[2])
      BY <1>4, <2>0 DEF About
    <2>2. 2 \in 1..Len(g)
      <3>1. n \in Nat
        BY <2>0, GraphHasRoot
      <3>2. QED BY ONLY <2>0, <2>1, <3>1
    <2>3. PICK s, h : /\ Lately(s, r) /\ 2 \in 1..Len(GraphReads(o, h, s))
                      /\ g[2] \in Results(GraphReads(o, h, s)[2])
      <3>1. \E s, h : /\ Lately(s, r) /\ h = SubSeq(g, 1, 2 - 1)
                      /\ 2 \in 1..Len(GraphReads(o, h, s)) /\ g[2] \in Results(GraphReads(o, h, s)[2])
        BY <1>1, <2>2, StatementSeen
      <3>2. QED BY <3>1
    <2>4. PICK q, m : q = GraphReads(o, h, s) /\ m = Effective(o)
      OBVIOUS
    <2>5. q[2].rows \subseteq Own(m, s.transactions)
      <3>1. PICK k : k = Len(q)
        OBVIOUS
      <3>2. 2 \in 1..k
        BY <2>3, <2>4, <3>1
      <3>3. 2 <= Len(q)
        BY ONLY <3>1, <3>2
      <3>4. q[2].rows \subseteq Own(Effective(o), s.transactions)
        BY <1>4, <2>4, <3>3, SettlementSecond
      <3>5. QED BY <2>4, <3>4
    <2>6. g[2] \in Results(q[2])
      BY <2>3, <2>4
    <2>7. \A t \in g[2] : Known(t.id, m)
      <3>1. PICK taken, z : taken = g[2] /\ z = q[2]
        OBVIOUS
      <3>2. Lately(s, r) /\ taken \in Results(z) /\ z.rows \subseteq Own(m, s.transactions)
        BY <2>3, <2>5, <2>6, <3>1
      <3>3. \A t \in taken : Known(t.id, m)
        BY ONLY <3>2, TransactionsKnown
      <3>4. QED BY ONLY <3>1, <3>3
    <2>8. QED BY <2>1, <2>4, <2>7 DEF Ids
  <1>5. QED BY <1>2, <1>3, <1>4 DEF About

\* All the rows that a graph has read are of its merchant or of those transactions.
LEMMA GraphRows ==
  ASSUME NEW r, NEW o, Graphs(o), NEW g, GraphSeen(r, o, g), GraphAnswer(o, g) = "200",
         NEW j \in 1..Len(g), NEW x \in g[j]
  PROVE  RowOf(x, Effective(o), About(o, g))
  <1>1. o.name \in GraphNames /\ (o.name \in OfMerchant => o.merchant # None)
    BY DEF Graphs
  <1>2. PICK S : g \in Seq(S)
    BY DEF GraphSeen
  <1>3. o.name = "customer_graph" => IsFiniteSet(g[1])
    BY GraphHasRoot
  <1>4. PICK s, h : /\ Lately(s, r) /\ h = SubSeq(g, 1, j - 1)
                    /\ j \in 1..Len(GraphReads(o, h, s)) /\ g[j] \in Results(GraphReads(o, h, s)[j])
    BY <1>1, StatementSeen
  <1>5. StatementFinds(o, g, h, s, j)
    BY <1>1, <1>2, <1>3, <1>4, GraphFinds
  <1>6. PICK q, m, ids, taken : q = GraphReads(o, h, s)[j] /\ m = Effective(o) /\ ids = About(o, g) /\ taken = g[j]
    OBVIOUS
  <1>7. FromTables(q, m, ids, s) /\ taken \in Results(q) /\ x \in taken
    BY <1>4, <1>5, <1>6 DEF StatementFinds
  <1>8. \A id \in ids : Known(id, m)
    BY <1>6, AboutIsKnown
  <1>9. RowOf(x, m, ids)
    BY ONLY <1>4, <1>7, <1>8, RowsFound
  <1>10. QED BY <1>6, <1>9

\* A row of a graph belongs there if it is found by its merchant, or hangs on something.
LEMMA HangingBelongs ==
  ASSUME NEW x, NEW m, NEW ids, RowOf(x, m, ids), NEW graph,
         "merchant" \in DOMAIN x \/ {x.transaction, x.id} \in Links(graph) \/ {graph.root, x.id} \in Links(graph)
  PROVE  Belongs(x, m, graph)
  BY DEF RowOf, Known, Belongs

\* The graph hangs together, and its rows are the merchant's.
GraphHolds(o, g) ==
  LET graph == Graph(o, g) IN Connected(graph) /\ \A x \in graph.rows : Belongs(x, Effective(o), graph)

LEMMA StarHolds ==
  ASSUME NEW r, NEW o, Graphs(o), o.name \notin {"customer_graph", "incident_graph"},
         NEW g, GraphSeen(r, o, g), GraphAnswer(o, g) = "200"
  PROVE  GraphHolds(o, g)
  <1>1. PICK S : g \in Seq(S)
    BY DEF GraphSeen
  <1>2. Len(g) \in Nat \ {0} /\ g # <<>>
    <2>1. Len(g) \in Nat \ {0}
      BY GraphHasRoot
    <2>2. QED BY ONLY <1>1, <2>1, EmptySeq
  <1>3. PICK root, lists : /\ root = (IF o.name \in OfMerchant THEN o.merchant ELSE o.id)
                           /\ lists = (IF o.name \in OfMerchant THEN g ELSE Tail(g))
    OBVIOUS
  <1>4. PICK graph, m, ids : graph = Graph(o, g) /\ m = Effective(o) /\ ids = About(o, g)
    OBVIOUS
  <1>5. graph = Star(root, lists)
    BY <1>3, <1>4 DEF Graph
  <1>6. graph.rows = UNION ToSet(lists) /\ graph.root = root
    BY <1>5 DEF Star
  <1>7. Connected(graph) /\ \A x \in graph.rows : {root, x.id} \in Links(graph)
    BY ONLY <1>5, <1>6, StarEdges
  <1>8. ASSUME NEW x \in graph.rows
        PROVE  \E j \in 1..Len(g) : x \in g[j]
    <2>1. CASE o.name \in OfMerchant
      <3>1. PICK i \in DOMAIN g : x \in g[i]
        BY <1>3, <1>6, <2>1 DEF ToSet
      <3>2. DOMAIN g = 1..Len(g)
        BY ONLY <1>1
      <3>3. QED BY ONLY <3>1, <3>2
    <2>2. CASE o.name \notin OfMerchant
      <3>1. x \in UNION ToSet(Tail(g))
        BY <1>3, <1>6, <2>2
      <3>2. PICK j \in 2..Len(g) : x \in g[j]
        BY ONLY <1>1, <1>2, <3>1, TailRows
      <3>3. j \in 1..Len(g)
        BY ONLY <1>2, <3>2
      <3>4. QED BY ONLY <3>2, <3>3
    <2>3. QED BY <2>1, <2>2
  <1>9. ASSUME NEW x \in graph.rows
        PROVE  Belongs(x, m, graph)
    <2>1. PICK j \in 1..Len(g) : x \in g[j]
      BY <1>8
    <2>2. RowOf(x, m, ids)
      BY <1>4, <2>1, GraphRows
    <2>3. {graph.root, x.id} \in Links(graph)
      BY <1>6, <1>7
    <2>4. QED BY <2>2, <2>3, HangingBelongs
  <1>10. QED BY <1>4, <1>7, <1>9 DEF GraphHolds

LEMMA IncidentHolds ==
  ASSUME NEW r, NEW o, Graphs(o), o.name = "incident_graph", NEW g, GraphSeen(r, o, g), GraphAnswer(o, g) = "200"
  PROVE  GraphHolds(o, g)
  <1>1. PICK S : g \in Seq(S)
    BY DEF GraphSeen
  <1>2. Len(g) \in Nat \ {0} /\ g # <<>>
    <2>1. Len(g) \in Nat \ {0}
      BY GraphHasRoot
    <2>2. QED BY ONLY <1>1, <2>1, EmptySeq
  <1>3. PICK graph, m, rows : graph = Graph(o, g) /\ m = Effective(o) /\ rows = UNION ToSet(Tail(g))
    OBVIOUS
  <1>4. graph = IncidentGraph(o, g, rows)
    <2>1. o.name \notin OfMerchant
      BY DEF OfMerchant
    <2>2. QED BY <1>3, <2>1 DEF Graph
  <1>5. graph.rows = rows
    BY <1>4 DEF IncidentGraph
  <1>6. Connected(graph)
    <2>1. Connected(IncidentGraph(o, g, rows))
      BY IncidentEdges
    <2>2. QED BY ONLY <1>4, <2>1
  <1>7. ASSUME NEW x \in graph.rows
        PROVE  Belongs(x, m, graph)
    <2>1. x \in UNION ToSet(Tail(g))
      BY <1>3, <1>5
    <2>2. PICK j \in 2..Len(g) : x \in g[j]
      BY ONLY <1>1, <1>2, <2>1, TailRows
    <2>3. j \in 1..Len(g)
      BY ONLY <1>2, <2>2
    <2>4. PICK ids : ids = About(o, g)
      OBVIOUS
    <2>5. RowOf(x, m, ids) /\ ids = {}
      BY <1>3, <2>2, <2>3, <2>4, GraphRows DEF About
    <2>6. "merchant" \in DOMAIN x
      BY <2>5 DEF RowOf
    <2>7. QED BY <2>5, <2>6, HangingBelongs
  <1>8. QED BY <1>3, <1>6, <1>7 DEF GraphHolds

\* An event or a result of one of these transactions.
HangsOn(x, ids) ==
  /\ "merchant" \notin DOMAIN x /\ x.transaction \in ids
  /\ \E table \in HangingTables : x \in store[table] /\ x.id \in Names(table)

\* What is read after its transactions hangs on them.
LEMMA CustomerRest ==
  ASSUME NEW r, NEW o, Graphs(o), o.name = "customer_graph", NEW g, GraphSeen(r, o, g), GraphAnswer(o, g) = "200",
         NEW j \in 2..Len(g), NEW x \in g[j]
  PROVE  HangsOn(x, Ids(g[1]))
  <1>1. o.name \in GraphNames
    BY DEF Graphs
  <1>2. PICK S : g \in Seq(S)
    BY DEF GraphSeen
  <1>3. IsFiniteSet(g[1])
    BY GraphHasRoot
  <1>4. j \in 1..Len(g) /\ j # 1
    <2>1. PICK n : n = Len(g)
      OBVIOUS
    <2>2. n \in Nat /\ j \in 2..n
      BY <1>2, <2>1
    <2>3. j \in 1..n /\ j # 1
      BY ONLY <2>2
    <2>4. QED BY <2>1, <2>3
  <1>5. PICK s, h : /\ Lately(s, r) /\ h = SubSeq(g, 1, j - 1)
                    /\ j \in 1..Len(GraphReads(o, h, s)) /\ g[j] \in Results(GraphReads(o, h, s)[j])
    BY <1>1, <1>4, StatementSeen
  <1>6. PICK q, ids : q = GraphReads(o, h, s)[j] /\ ids = Ids(g[1])
    OBVIOUS
  <1>7. PICK table \in HangingTables : q.rows \subseteq OfTransactions(ids, s[table])
    BY <1>2, <1>3, <1>4, <1>5, <1>6, CustomerFinds
  <1>8. x \in q.rows
    BY <1>5, <1>6, ResultsAreRows
  <1>9. x \in s[table] /\ x.transaction \in ids
    BY <1>7, <1>8 DEF OfTransactions
  <1>10. "merchant" \notin DOMAIN x /\ x \in store[table] /\ x.id \in Names(table)
    BY <1>5, <1>7, <1>9, HangingSince
  <1>11. QED BY <1>6, <1>7, <1>9, <1>10 DEF HangsOn

\* Two rows of events or results with the same identity are the same.
LEMMA HangingUnique ==
  ASSUME Typed(store), NEW ids, NEW x, HangsOn(x, ids), NEW y, HangsOn(y, ids), x.id = y.id
  PROVE  x = y
  <1>1. PICK a \in HangingTables : x \in store[a] /\ x.id \in Names(a)
    BY DEF HangsOn
  <1>2. PICK b \in HangingTables : y \in store[b] /\ y.id \in Names(b)
    BY DEF HangsOn
  <1>3. a = b
    <2>1. a # b => Names(a) \cap Names(b) = {}
      BY GraphAssumption
    <2>2. QED BY <1>1, <1>2, <2>1
  <1>4. a \in DOMAIN store
    BY DEF Typed
  <1>5. QED BY <1>1, <1>2, <1>3, <1>4 DEF Typed, Database

LEMMA CustomerHolds ==
  ASSUME HistoryInv, NEW r \in Requests, NEW o \in Operations[r], Graphs(o), o.name = "customer_graph",
         NEW g, GraphSeen(r, o, g), GraphAnswer(o, g) = "200"
  PROVE  /\ GraphHolds(o, g)
         /\ \A x \in Graph(o, g).rows \ g[1] : Neighbours(x.id, Graph(o, g)) = {x.transaction}
  <1>1. PICK S : g \in Seq(S)
    BY DEF GraphSeen
  <1>2. Len(g) \in Nat \ {0} /\ g # <<>>
    <2>1. Len(g) \in Nat \ {0}
      BY GraphHasRoot
    <2>2. QED BY ONLY <1>1, <2>1, EmptySeq
  <1>3. PICK first, rest, ids : first = g[1] /\ rest = UNION ToSet(Tail(g)) /\ ids = Ids(first)
    OBVIOUS
  <1>4. PICK m, rows, graph : m = Effective(o) /\ rows = first \cup rest /\ graph = Graph(o, g)
    OBVIOUS
  <1>5. graph = CustomerGraph(o, g, rows)
    <2>1. o.name \notin OfMerchant
      BY DEF OfMerchant
    <2>2. QED BY <1>3, <1>4, <2>1 DEF Graph
  <1>6. graph.rows = rows /\ graph.root = o.id
    BY <1>5 DEF CustomerGraph
  <1>7. ASSUME NEW x \in rest
        PROVE  HangsOn(x, ids)
    <2>1. PICK j \in 2..Len(g) : x \in g[j]
      BY ONLY <1>1, <1>2, <1>3, TailRows
    <2>2. QED BY <1>3, <2>1, CustomerRest
  <1>8. \A t \in first : t.id \in Names("transactions") /\ "merchant" \in DOMAIN t /\ t.merchant = m
    BY <1>3, <1>4, GraphHasRoot
  <1>9. \A x \in rows \ first : HangsOn(x, ids) /\ x.transaction \in ids
    BY <1>4, <1>7 DEF HangsOn
  <1>10. /\ Connected(graph)
         /\ \A x \in rows \ first : {x.transaction, x.id} \in Links(graph)
         /\ \A pair \in Links(graph) : \/ \E t \in first : pair = {o.id, t.id}
                                       \/ \E x \in rows \ first : pair = {x.transaction, x.id}
    <2>1. g[1] \subseteq rows /\ \A x \in rows \ g[1] : x.transaction \in Ids(g[1])
      BY <1>3, <1>4, <1>9
    <2>2. /\ Connected(graph)
          /\ \A x \in rows \ g[1] : {x.transaction, x.id} \in Links(graph)
          /\ \A pair \in Links(graph) : \/ \E t \in g[1] : pair = {o.id, t.id}
                                        \/ \E x \in rows \ g[1] : pair = {x.transaction, x.id}
      BY ONLY <1>5, <2>1, CustomerEdges
    <2>3. QED BY ONLY <1>3, <2>2
  <1>11. ASSUME NEW x \in rows
         PROVE  Belongs(x, m, graph)
    <2>1. CASE x \in first
      BY <1>8, <2>1 DEF Belongs
    <2>2. CASE x \notin first
      <3>1. x.transaction \in ids /\ "merchant" \notin DOMAIN x
        BY <1>9, <2>2 DEF HangsOn
      <3>2. Known(x.transaction, m)
        BY <1>3, <1>4, <3>1, AboutIsKnown DEF About
      <3>3. {x.transaction, x.id} \in Links(graph)
        BY <1>10, <2>2
      <3>4. QED BY <3>1, <3>2, <3>3 DEF Belongs, Known
    <2>3. QED BY <2>1, <2>2
  <1>12. GraphHolds(o, g)
    BY <1>4, <1>6, <1>10, <1>11 DEF GraphHolds
  <1>13. Typed(store)
    BY DEF HistoryInv
  <1>14. \A x \in rows \ first : x.id # o.id /\ x.id \notin ids
    <2>1. SUFFICES ASSUME NEW x \in rows \ first
                   PROVE  x.id # o.id /\ x.id \notin ids
      OBVIOUS
    <2>2. PICK table \in HangingTables : x.id \in Names(table)
      BY <1>9 DEF HangsOn
    <2>3. Names(table) \cap Names("transactions") = {}
      BY <2>2, GraphAssumption DEF HangingTables
    <2>4. o.id \notin Names(table)
      BY <2>2, GraphAssumption
    <2>5. \A id \in ids : id \in Names("transactions")
      BY <1>3, <1>8 DEF Ids
    <2>6. QED BY <2>2, <2>3, <2>4, <2>5
  <1>15. ASSUME NEW x \in rows \ first
         PROVE  Neighbours(x.id, graph) = {x.transaction}
    <2>1. x.transaction \in Neighbours(x.id, graph)
      <3>1. PICK t \in first : t.id = x.transaction
        BY <1>3, <1>9 DEF Ids
      <3>2. x.transaction \in Nodes(graph)
        BY <1>4, <1>6, <3>1 DEF Nodes, Ids
      <3>3. {x.id, x.transaction} = {x.transaction, x.id}
        OBVIOUS
      <3>4. {x.id, x.transaction} \in Links(graph)
        BY <1>10, <3>3
      <3>5. QED BY <3>2, <3>4 DEF Neighbours
    <2>2. ASSUME NEW k \in Neighbours(x.id, graph)
          PROVE  k = x.transaction
      <3>1. {x.id, k} \in Links(graph)
        BY DEF Neighbours
      <3>2. CASE \E t \in first : {x.id, k} = {o.id, t.id}
        <4>1. PICK t \in first : {x.id, k} = {o.id, t.id}
          BY <3>2
        <4>2. x.id = o.id \/ x.id = t.id
          BY <4>1
        <4>3. t.id \in ids
          BY <1>3 DEF Ids
        <4>4. QED BY <1>14, <4>2, <4>3
      <3>3. CASE \E y \in rows \ first : {x.id, k} = {y.transaction, y.id}
        <4>1. PICK y \in rows \ first : {x.id, k} = {y.transaction, y.id}
          BY <3>3
        <4>2. x.id = y.transaction \/ x.id = y.id
          BY <4>1
        <4>3. x.id # y.transaction
          BY <1>9, <1>14
        <4>4. x = y
          BY <1>9, <1>13, <4>2, <4>3, HangingUnique
        <4>5. {x.id, k} = {x.transaction, x.id}
          BY <4>1, <4>4
        <4>6. QED BY <4>5
      <3>4. QED BY <1>10, <3>1, <3>2, <3>3
    <2>3. QED BY <2>1, <2>2
  <1>16. QED BY <1>3, <1>4, <1>6, <1>12, <1>15

\* All the rows of these transactions, if nothing changed.
LEMMA WholeTable ==
  ASSUME NEW r, NEW s, Lately(s, r), touched[r] = {}, NEW table \in HangingTables, NEW ids,
         NEW rows, rows = OfTransactions(ids, s[table]), NEW taken \in Results(Every(rows))
  PROVE  taken = OfTransactions(ids, store[table])
  <1>1. store[table] = s[table] /\ IsFiniteSet(s[table])
    BY HangingSince
  <1>2. rows \subseteq s[table]
    BY DEF OfTransactions
  <1>3. IsFiniteSet(rows)
    BY ONLY <1>1, <1>2, FS_Subset
  <1>4. taken = rows
    BY <1>3, EveryRow
  <1>5. QED BY <1>1, <1>4

\* The statements for a transaction: the second and the third take all its events and results.
LEMMA TransactionReads ==
  ASSUME NEW o, o.name = "transaction_graph", NEW h, NEW s, NEW q, q = GraphReads(o, h, s)
  PROVE  /\ h # <<>> /\ h[1] # {} => Len(q) = 5
         /\ Len(q) \in Nat
         /\ Len(q) >= 2 => q[2] = Every(OfTransactions({o.id}, s.events))
         /\ Len(q) >= 3 => q[3] = Every(OfTransactions({o.id}, s.results))
  <1>1. PICK m, ids : m = Effective(o) /\ ids = {o.id}
    OBVIOUS
  <1>2. PICK t : t = TheRow(h[1])
    OBVIOUS
  <1>3. PICK C, D : /\ C = {e \in Own(m, s.entries) : t.amount \in {e.credit, e.debit}}
                    /\ D = {x \in Own(m, s.settlements) : x.provider = t.provider}
    OBVIOUS
  <1>4. PICK a, b, c, d : /\ a = Every(OfTransactions(ids, s.events)) /\ b = Every(OfTransactions(ids, s.results))
                          /\ c = Some(C, 5) /\ d = Some(D, 3)
    OBVIOUS
  <1>5. PICK root, others, T : root = ById(o.id, m, s.transactions) /\ others = <<a, b, c, d>> /\ T = {a, b, c, d}
    OBVIOUS
  <1>6. q = Rooted(h, root, others)
    BY <1>1, <1>2, <1>3, <1>4, <1>5 DEF GraphReads, TransactionGraphReads
  <1>7. others \in Seq(T)
    BY <1>5
  <1>8. Len(others) = 4 /\ others[1] = a /\ others[2] = b
    BY ONLY <1>5
  <1>9. PICK n : n = Len(q)
    OBVIOUS
  <1>10. /\ n \in Nat /\ \A i \in 1..(n - 1) : q[1 + i] = others[i]
         /\ h # <<>> /\ h[1] # {} => n = 5
    <2>1. /\ Len(q) \in Nat \ {0} /\ \A i \in 1..(Len(q) - 1) : q[1 + i] = others[i]
          /\ h # <<>> /\ h[1] # {} => Len(q) = 1 + Len(others)
      BY ONLY <1>6, <1>7, RootedReads
    <2>2. QED BY ONLY <1>8, <1>9, <2>1
  <1>11. n >= 2 => q[2] = a
    <2>1. n >= 2 => 1 \in 1..(n - 1) /\ 1 + 1 = 2
      BY ONLY <1>10
    <2>2. QED BY ONLY <1>8, <1>10, <2>1
  <1>12. n >= 3 => q[3] = b
    <2>1. n >= 3 => 2 \in 1..(n - 1) /\ 1 + 2 = 3
      BY ONLY <1>10
    <2>2. QED BY ONLY <1>8, <1>10, <2>1
  <1>13. QED BY <1>1, <1>4, <1>9, <1>10, <1>11, <1>12

\* No event or result of the transaction is left out, if nothing changed.
LEMMA TransactionIsWhole ==
  ASSUME NEW r, touched[r] = {}, NEW o, Graphs(o), o.name = "transaction_graph",
         NEW g, GraphSeen(r, o, g), GraphAnswer(o, g) = "200"
  PROVE  Ids(OfTransactions({o.id}, store.events \cup store.results)) \subseteq Nodes(Graph(o, g))
  <1>1. o.name \in GraphNames
    BY DEF Graphs
  <1>2. PICK S : g \in Seq(S)
    BY DEF GraphSeen
  <1>3. g # <<>> /\ g[1] # {}
    <2>1. Len(g) \in Nat \ {0} /\ g[1] # {}
      BY GraphHasRoot DEF OfMerchant
    <2>2. QED BY ONLY <1>2, <2>1, EmptySeq
  <1>4. Len(g) = 5
    <2>1. PICK s : Len(g) = Len(GraphReads(o, g, s))
      BY DEF GraphSeen
    <2>2. PICK q : q = GraphReads(o, g, s)
      OBVIOUS
    <2>3. Len(q) = 5
      BY <1>3, <2>2, TransactionReads
    <2>4. QED BY <2>1, <2>2, <2>3
  <1>5. PICK ids : ids = {o.id}
    OBVIOUS
  <1>6. g[2] = OfTransactions(ids, store["events"])
    <2>1. 2 \in 1..Len(g)
      BY <1>4
    <2>2. PICK s, h : /\ Lately(s, r) /\ 2 \in 1..Len(GraphReads(o, h, s)) /\ g[2] \in Results(GraphReads(o, h, s)[2])
      <3>1. \E s, h : /\ Lately(s, r) /\ h = SubSeq(g, 1, 2 - 1)
                      /\ 2 \in 1..Len(GraphReads(o, h, s)) /\ g[2] \in Results(GraphReads(o, h, s)[2])
        BY <1>1, <2>1, StatementSeen
      <3>2. QED BY <3>1
    <2>3. PICK q, n : q = GraphReads(o, h, s) /\ n = Len(q)
      OBVIOUS
    <2>4. n \in Nat /\ (n >= 2 => q[2] = Every(OfTransactions(ids, s["events"])))
      <3>1. n \in Nat /\ (n >= 2 => q[2] = Every(OfTransactions({o.id}, s.events)))
        BY <2>3, TransactionReads
      <3>2. QED BY ONLY <1>5, <3>1
    <2>5. 2 \in 1..n
      BY <2>2, <2>3
    <2>6. n >= 2
      BY ONLY <2>4, <2>5
    <2>7. PICK rows, taken : rows = OfTransactions(ids, s["events"]) /\ taken = g[2]
      OBVIOUS
    <2>8. taken \in Results(Every(rows)) /\ Lately(s, r) /\ touched[r] = {} /\ "events" \in HangingTables
      BY <2>2, <2>3, <2>4, <2>6, <2>7 DEF HangingTables
    <2>9. taken = OfTransactions(ids, store["events"])
      BY ONLY <2>7, <2>8, WholeTable
    <2>10. QED BY <2>7, <2>9
  <1>7. g[3] = OfTransactions(ids, store["results"])
    <2>1. 3 \in 1..Len(g)
      BY <1>4
    <2>2. PICK s, h : /\ Lately(s, r) /\ 3 \in 1..Len(GraphReads(o, h, s)) /\ g[3] \in Results(GraphReads(o, h, s)[3])
      <3>1. \E s, h : /\ Lately(s, r) /\ h = SubSeq(g, 1, 3 - 1)
                      /\ 3 \in 1..Len(GraphReads(o, h, s)) /\ g[3] \in Results(GraphReads(o, h, s)[3])
        BY <1>1, <2>1, StatementSeen
      <3>2. QED BY <3>1
    <2>3. PICK q, n : q = GraphReads(o, h, s) /\ n = Len(q)
      OBVIOUS
    <2>4. n \in Nat /\ (n >= 3 => q[3] = Every(OfTransactions(ids, s["results"])))
      <3>1. n \in Nat /\ (n >= 3 => q[3] = Every(OfTransactions({o.id}, s.results)))
        BY <2>3, TransactionReads
      <3>2. QED BY ONLY <1>5, <3>1
    <2>5. 3 \in 1..n
      BY <2>2, <2>3
    <2>6. n >= 3
      BY ONLY <2>4, <2>5
    <2>7. PICK rows, taken : rows = OfTransactions(ids, s["results"]) /\ taken = g[3]
      OBVIOUS
    <2>8. taken \in Results(Every(rows)) /\ Lately(s, r) /\ touched[r] = {} /\ "results" \in HangingTables
      BY <2>2, <2>3, <2>4, <2>6, <2>7 DEF HangingTables
    <2>9. taken = OfTransactions(ids, store["results"])
      BY ONLY <2>7, <2>8, WholeTable
    <2>10. QED BY <2>7, <2>9
  <1>8. ASSUME NEW x \in OfTransactions(ids, store.events \cup store.results)
        PROVE  x.id \in Nodes(Graph(o, g))
    <2>1. \E j \in 2..Len(g) : x \in g[j]
      <3>1. 2 \in 2..Len(g) /\ 3 \in 2..Len(g)
        BY ONLY <1>4
      <3>2. x \in g[2] \/ x \in g[3]
        BY <1>6, <1>7 DEF OfTransactions
      <3>3. QED BY <3>1, <3>2
    <2>2. PICK lists : lists = Tail(g)
      OBVIOUS
    <2>3. x \in UNION ToSet(lists)
      BY ONLY <1>2, <1>3, <2>1, <2>2, TailRows
    <2>4. Graph(o, g) = Star(o.id, lists)
      BY <2>2 DEF Graph, OfMerchant
    <2>5. x \in Graph(o, g).rows
      BY <2>3, <2>4 DEF Star
    <2>6. QED BY <2>5 DEF Nodes, Ids
  <1>9. QED BY <1>5, <1>8 DEF Ids

\* No event or result of a transaction of the customer is left out, if nothing changed.
LEMMA CustomerIsWhole ==
  ASSUME NEW r, touched[r] = {}, NEW o, Graphs(o), o.name = "customer_graph",
         NEW g, GraphSeen(r, o, g), GraphAnswer(o, g) = "200"
  PROVE  Ids(OfTransactions(Ids(g[1]), store.events \cup store.results)) \subseteq Nodes(Graph(o, g))
  <1>1. o.name \in GraphNames
    BY DEF Graphs
  <1>2. PICK S : g \in Seq(S)
    BY DEF GraphSeen
  <1>3. g # <<>> /\ IsFiniteSet(g[1])
    <2>1. Len(g) \in Nat \ {0} /\ IsFiniteSet(g[1])
      BY GraphHasRoot
    <2>2. QED BY ONLY <1>2, <2>1, EmptySeq
  <1>4. PICK first, txs, c : first = g[1] /\ txs = SetToSeq(first) /\ c = Len(txs)
    OBVIOUS
  <1>5. c \in Nat /\ \A t \in first : \E k \in 1..c : txs[k] = t
    <2>1. IsFiniteSet(first) /\ txs = SetToSeq(first)
      BY <1>3, <1>4
    <2>2. Len(txs) \in Nat /\ \A t \in first : \E k \in 1..Len(txs) : txs[k] = t
      BY ONLY <2>1, AllInSequence
    <2>3. QED BY ONLY <1>4, <2>2
  <1>6. Len(g) = 1 + 2 * c
    <2>1. PICK s : Len(g) = Len(GraphReads(o, g, s))
      BY DEF GraphSeen
    <2>2. PICK q : q = GraphReads(o, g, s)
      OBVIOUS
    <2>3. txs = IF g = <<>> THEN <<>> ELSE SetToSeq(g[1])
      BY <1>3, <1>4
    <2>4. ForCustomer(o, s, txs, q)
      BY <1>3, <2>2, <2>3, CustomerReads
    <2>5. QED BY <1>4, <2>1, <2>2, <2>4 DEF ForCustomer
  <1>7. ASSUME NEW table \in HangingTables, NEW k \in 1..c, NEW x \in store[table], x.transaction = txs[k].id
        PROVE  \E j \in 2..Len(g) : x \in g[j]
    <2>1. PICK i, j : i = (IF table = "events" THEN 2 * k - 1 ELSE 2 * k) /\ j = 1 + i
      OBVIOUS
    <2>2. /\ i \in 1..(2 * c) /\ (i + 1) \div 2 = k /\ (i % 2 = 1 <=> table = "events")
          /\ j \in 2..(1 + 2 * c) /\ j \in 1..(1 + 2 * c)
      BY ONLY <1>5, <1>7, <2>1
    <2>3. j \in 1..Len(g) /\ j \in 2..Len(g) /\ j >= 2
      BY ONLY <1>5, <1>6, <2>2
    <2>4. PICK s, h : /\ Lately(s, r) /\ h = SubSeq(g, 1, j - 1)
                      /\ j \in 1..Len(GraphReads(o, h, s)) /\ g[j] \in Results(GraphReads(o, h, s)[j])
      BY <1>1, <2>3, StatementSeen
    <2>5. h # <<>> /\ h[1] = first
      <3>1. (h = <<>> <=> j = 1) /\ (j >= 2 => h[1] = g[1])
        BY ONLY <1>2, <2>3, <2>4, ReadBefore
      <3>2. j # 1
        BY ONLY <2>2
      <3>3. QED BY ONLY <1>4, <2>3, <3>1, <3>2
    <2>6. PICK q, taken : q = GraphReads(o, h, s) /\ taken = g[j]
      OBVIOUS
    <2>7. txs = IF h = <<>> THEN <<>> ELSE SetToSeq(h[1])
      BY <1>4, <2>5
    <2>8. ForCustomer(o, s, txs, q)
      BY <1>3, <1>4, <2>5, <2>6, <2>7, CustomerReads
    <2>9. PICK ids, rows : ids = {txs[k].id} /\ rows = OfTransactions(ids, s[table])
      OBVIOUS
    <2>10. (IF i % 2 = 1 THEN s.events ELSE s.results) = s[table]
      BY <1>7, <2>2 DEF HangingTables
    <2>11. q[1 + i] = Every(OfTransactions({txs[(i + 1) \div 2].id}, IF i % 2 = 1 THEN s.events ELSE s.results))
      BY <1>4, <2>2, <2>8 DEF ForCustomer
    <2>12. q[j] = Every(rows)
      BY ONLY <2>1, <2>2, <2>9, <2>10, <2>11
    <2>13. taken \in Results(Every(rows)) /\ Lately(s, r) /\ touched[r] = {} /\ table \in HangingTables
      BY <1>7, <2>4, <2>6, <2>12
    <2>14. taken = OfTransactions(ids, store[table])
      BY ONLY <2>9, <2>13, WholeTable
    <2>15. x \in taken
      BY <1>7, <2>9, <2>14 DEF OfTransactions
    <2>16. QED BY <2>3, <2>6, <2>15
  <1>8. ASSUME NEW x \in OfTransactions(Ids(first), store.events \cup store.results)
        PROVE  x.id \in Nodes(Graph(o, g))
    <2>1. PICK table \in HangingTables : x \in store[table]
      BY <1>8 DEF OfTransactions, HangingTables
    <2>2. PICK t \in first : x.transaction = t.id
      BY <1>8 DEF OfTransactions, Ids
    <2>3. PICK k \in 1..c : txs[k] = t
      BY <1>5
    <2>4. \E j \in 2..Len(g) : x \in g[j]
      BY <1>7, <2>1, <2>2, <2>3
    <2>5. PICK rest, rows : rest = UNION ToSet(Tail(g)) /\ rows = g[1] \cup rest
      OBVIOUS
    <2>6. x \in rest
      BY ONLY <1>2, <1>3, <2>4, <2>5, TailRows
    <2>7. Graph(o, g) = CustomerGraph(o, g, rows)
      BY <2>5 DEF Graph, OfMerchant
    <2>8. x \in Graph(o, g).rows
      BY <2>5, <2>6, <2>7 DEF CustomerGraph
    <2>9. QED BY <2>8 DEF Nodes, Ids
  <1>9. QED BY <1>4, <1>8 DEF Ids

LEMMA GraphsHang ==
  ASSUME HistoryInv
  PROVE  GraphsHangTogether
  <1>1. SUFFICES ASSUME NEW r \in Requests, Reported(r, GraphNames), answer[r] = "200"
                 PROVE  LET o == op[r]
                            first == got[r][1][1]
                            graph == Graph(o, got[r][1])
                            about == IF o.name = "customer_graph" THEN Ids(first) ELSE {o.id}
                        IN /\ Connected(graph)
                           /\ \A x \in graph.rows : Belongs(x, Effective(o), graph)
                           /\ o.name \in {"transaction_graph", "customer_graph"} /\ touched[r] = {} =>
                                Ids(OfTransactions(about, store.events \cup store.results)) \subseteq Nodes(graph)
                           /\ o.name = "customer_graph" =>
                                \A x \in graph.rows \ first : Neighbours(x.id, graph) = {x.transaction}
    BY DEF GraphsHangTogether
  <1>2. PICK o, g : o = op[r] /\ g = got[r][1]
    OBVIOUS
  <1>3. GraphSeen(r, o, g) /\ GraphAnswer(o, g) = "200" /\ o \in Operations[r] /\ o.name \in GraphNames
    BY <1>1, <1>2, GraphIsSeen
  <1>4. Graphs(o)
    BY <1>3, GraphAssumption DEF Graphs
  <1>5. PICK graph : graph = Graph(o, g)
    OBVIOUS
  <1>6. GraphHolds(o, g)
    BY <1>3, <1>4, StarHolds, IncidentHolds, CustomerHolds
  <1>7. Connected(graph) /\ \A x \in graph.rows : Belongs(x, Effective(o), graph)
    BY <1>5, <1>6 DEF GraphHolds
  <1>8. o.name = "transaction_graph" /\ touched[r] = {} =>
          Ids(OfTransactions({o.id}, store.events \cup store.results)) \subseteq Nodes(graph)
    BY <1>3, <1>4, <1>5, TransactionIsWhole
  <1>9. o.name = "customer_graph" /\ touched[r] = {} =>
          Ids(OfTransactions(Ids(g[1]), store.events \cup store.results)) \subseteq Nodes(graph)
    BY <1>3, <1>4, <1>5, CustomerIsWhole
  <1>10. o.name = "customer_graph" => \A x \in graph.rows \ g[1] : Neighbours(x.id, graph) = {x.transaction}
    BY <1>3, <1>4, <1>5, CustomerHolds
  <1>11. QED BY ONLY <1>2, <1>5, <1>7, <1>8, <1>9, <1>10

\* Every graph that was answered hangs together, for any database, any requests and whatever
\* the others commit while its statements are read: its edges join its nodes and lead to the
\* root, its rows are of its merchant, and none is left out that was there all the time.
THEOREM GraphsAreWhole == Spec => []GraphsHangTogether
  <1>1. Init => HistoryInv
    BY HistoryInitInv
  <1>2. HistoryInv /\ [Next]_vars => HistoryInv'
    BY HistoryNextInv
  <1>3. HistoryInv => GraphsHangTogether
    BY GraphsHang
  <1>4. QED BY <1>1, <1>2, <1>3, PTL DEF Spec

(***************************************************************************)
(* Money at risk: what the reports of it show.                             *)
(***************************************************************************)

\* A transaction that nobody has changed since was there, as it is, whenever r has read.
LEMMA UntouchedWasThere ==
  ASSUME NEW r, NEW s, Lately(s, r), NEW t \in store.transactions, t.id \notin touched[r]
  PROVE  t \in s.transactions
  BY DEF Lately, Precedes

\* It is exposed for one reason, by its status and its age.
LEMMA ExposedOnce ==
  ASSUME NEW t, Priced(t)
  PROVE  Exposed(t) <=> \/ t.status = "pending" /\ t.at <= Now - 1
                        \/ t.status = "success" /\ t.at <= Now - 7 * Day
                        \/ t.status = "failed" /\ t.at <= Now - Day
  <1>1. PICK n, a : n = t.at /\ a = Age(t)
    OBVIOUS
  <1>2. n \in Int /\ Now \in Int /\ a = Now - n /\ Day = 48
    BY <1>1, ReportsAssumption DEF Priced, Age, Day, Hour
  <1>3. (a * 30 >= 30 <=> n <= Now - 1) /\ (a >= 7 * 48 <=> n <= Now - 7 * Day) /\ (a >= 48 <=> n <= Now - Day)
    BY ONLY <1>2
  <1>4. QED BY <1>1, <1>3 DEF Exposed

LEMMA ListedOnce ==
  ASSUME NEW r, NEW m, NEW g, RiskRead(r, m, g), NEW t \in store.transactions, t.id \notin touched[r], Priced(t)
  PROVE  Cardinality({i \in 1..3 : t \in g[i]}) = IF t.merchant = m /\ Exposed(t) THEN 1 ELSE 0
  <1>1. ASSUME NEW s, Lately(s, r), NEW status, NEW age
        PROVE  t \in AtRisk(m, status, age, s) <=> t.merchant = m /\ t.status = status /\ t.at <= Now - age
    <2>1. t \in s.transactions
      BY <1>1, UntouchedWasThere
    <2>2. QED BY <2>1 DEF AtRisk, Own
  <1>2. /\ t \in g[1] <=> t.merchant = m /\ t.status = "pending" /\ t.at <= Now - 1
        /\ t \in g[2] <=> t.merchant = m /\ t.status = "success" /\ t.at <= Now - 7 * Day
        /\ t \in g[3] <=> t.merchant = m /\ t.status = "failed" /\ t.at <= Now - Day
    BY <1>1 DEF RiskRead
  <1>3. PICK lists : lists = {i \in 1..3 : t \in g[i]}
    OBVIOUS
  <1>4. \A i : i \in 1..3 <=> i \in {1, 2, 3}
    OBVIOUS
  <1>5. \A i : i \in lists <=> i \in {1, 2, 3} /\ t \in g[i]
    BY <1>3, <1>4
  <1>6. CASE t.merchant = m /\ Exposed(t)
    <2>1. PICK i \in {1, 2, 3} : t \in g[i] /\ \A j \in {1, 2, 3} : t \in g[j] => j = i
      <3>1. CASE t \in g[1]
        BY <1>2, <3>1
      <3>2. CASE t \in g[2]
        BY <1>2, <3>2
      <3>3. CASE t \in g[3]
        BY <1>2, <3>3
      <3>4. t \in g[1] \/ t \in g[2] \/ t \in g[3]
        BY <1>2, <1>6, ExposedOnce
      <3>5. QED BY <3>1, <3>2, <3>3, <3>4
    <2>2. lists = {i}
      BY <1>5, <2>1
    <2>3. Cardinality({i}) = 1
      BY FS_Singleton
    <2>4. QED BY <1>3, <1>6, <2>2, <2>3
  <1>7. CASE ~(t.merchant = m /\ Exposed(t))
    <2>1. t \notin g[1] /\ t \notin g[2] /\ t \notin g[3]
      BY <1>2, <1>7, ExposedOnce
    <2>2. lists = {}
      BY <1>5, <2>1
    <2>3. Cardinality({}) = 0
      BY FS_EmptySet
    <2>4. QED BY <1>3, <1>7, <2>2, <2>3
  <1>8. QED BY <1>6, <1>7

\* The figures of three lists agree with each other.
LEMMA FiguresAddUp ==
  ASSUME NEW g, Counted(g[1]), Counted(g[2]), Counted(g[3]), NEW figures, figures = Mar(g)
  PROVE  /\ figures.total = figures.pending.amount + figures.unreconciled.amount + figures.failed.amount
         /\ figures.total = OverProviders(figures.by_provider)
         /\ figures.score \in 0..100
  <1>1. PICK a, b, c, by : a = g[1] /\ b = g[2] /\ c = g[3] /\ by = ByProvider(g)
    OBVIOUS
  <1>2. /\ IsFiniteSet(a) /\ IsFiniteSet(b) /\ IsFiniteSet(c)
        /\ \A t \in a \cup b \cup c : Priced(t) /\ t.at <= Now
    BY <1>1 DEF Counted
  <1>3. /\ figures.total = Amount(a) + Amount(b) + Amount(c) /\ figures.by_provider = by
        /\ figures.score = RiskScore(a, b, c)
        /\ figures.pending.amount = Amount(a) /\ figures.unreconciled.amount = Amount(b)
        /\ figures.failed.amount = Amount(c)
    BY <1>1 DEF Mar, Figures
  <1>4. OverProviders(by) = Amount(a) + Amount(b) + Amount(c)
    BY <1>1, <1>2, ProvidersAddUp
  <1>5. RiskScore(a, b, c) \in 0..100
    BY ONLY <1>2, ScoreIsBounded
  <1>6. QED BY <1>3, <1>4, <1>5

LEMMA RiskCounted ==
  ASSUME HistoryInv
  PROVE  UntouchedCountedOnce
  <1>1. SUFFICES ASSUME NEW r \in Requests, Reported(r, MarReports), NEW g, g = got[r][1], NEW figures, figures = Mar(g)
                 PROVE  /\ \A t \in {t \in store.transactions : t.id \notin touched[r]} :
                             Cardinality({i \in 1..3 : t \in g[i]})
                               = IF t.merchant = Effective(op[r]) /\ Exposed(t) THEN 1 ELSE 0
                        /\ figures.total = figures.pending.amount + figures.unreconciled.amount + figures.failed.amount
                        /\ figures.total = OverProviders(figures.by_provider)
                        /\ figures.score \in 0..100
    BY DEF UntouchedCountedOnce
  <1>2. HistoryOK(r) /\ ReportOK(r) /\ Typed(store)
    BY DEF HistoryInv, ReportingInv
  <1>3. PICK o, m : o = op[r] /\ m = Effective(o)
    OBVIOUS
  <1>4. pc[r] \in {"respond", "save", "done"} /\ got[r] # <<>> /\ o.name \in MarReports
    BY <1>1, <1>3 DEF Reported
  <1>5. Seen(r, o, g)
    <2>1. o.name \notin DashboardNames
      BY <1>4 DEF MarReports, DashboardNames
    <2>2. QED BY <1>1, <1>2, <1>3, <1>4, <2>1, OnePart
  <1>6. RiskRead(r, m, g)
    BY <1>3, <1>4, <1>5, RiskIsRead
  <1>7. \A t \in store.transactions : Priced(t)
    BY <1>2 DEF Typed, Valued
  <1>8. \A t \in {t \in store.transactions : t.id \notin touched[r]} :
          Cardinality({i \in 1..3 : t \in g[i]}) = IF t.merchant = m /\ Exposed(t) THEN 1 ELSE 0
    BY <1>6, <1>7, ListedOnce
  <1>9. Counted(g[1]) /\ Counted(g[2]) /\ Counted(g[3])
    BY <1>6, RiskIsCounted
  <1>10. /\ figures.total = figures.pending.amount + figures.unreconciled.amount + figures.failed.amount
         /\ figures.total = OverProviders(figures.by_provider)
         /\ figures.score \in 0..100
    BY <1>1, <1>9, FiguresAddUp
  <1>11. QED BY <1>3, <1>8, <1>10

\* The snapshots by day, in whatever order CHOOSE takes them, are those snapshots.
LEMMA DaysInSequence ==
  ASSUME NEW rows, IsFiniteSet(rows)
  PROVE  ByDay(rows) \in Seq(rows)
  <1>1. PICK before : before = {c \in rows \X rows : c[1].day < c[2].day}
    OBVIOUS
  <1>2. ByDay(rows) = SortedBy(rows, before)
    BY <1>1 DEF ByDay, Sorted
  <1>3. QED BY <1>2, SortedSequence

\* A projection of rows with totals that names a day.
LEMMA ProjectionReaches ==
  ASSUME NEW o, o.days_ahead \in Nat, NEW g, Totalled(g[1]), NEW p, p = Projection(o, g), p.days # None,
         NEW xs, xs = ByDay(g[1]), NEW drop, drop = xs[1].total - xs[Len(xs)].total
  PROVE  /\ \A d \in 2..Len(p.points) : p.points[d] <= p.points[d - 1]
         /\ p.days < o.days_ahead =>
              /\ p.days + 1 \in DOMAIN p.points
              /\ p.points[p.days + 1] < drop
              /\ \A d \in 1..p.days : p.points[d] >= drop
  <1>1. PICK n, ahead : n = Len(xs) /\ ahead = o.days_ahead
    OBVIOUS
  <1>2. xs \in Seq(g[1]) /\ \A x \in g[1] : x.total \in Nat
    BY DaysInSequence DEF Totalled
  <1>3. n \in Nat /\ ahead \in Nat
    BY <1>1, <1>2
  <1>4. PICK fallen : fallen = (IF n = 0 THEN 0 ELSE xs[1].total - xs[n].total)
    OBVIOUS
  <1>5. PICK clear : clear = (xs[n].total * n) \div fallen
    OBVIOUS
  <1>6. PICK length : length = Min({ahead, IF clear > 0 THEN clear + 1 ELSE ahead})
    OBVIOUS
  <1>7. PICK points : points = [d \in 1..length |-> Max({0, xs[n].total * n - fallen * (d - 1)})]
    OBVIOUS
  <1>8. p = IF n = 0 \/ fallen <= 0 THEN NoProjection
            ELSE [days |-> IF clear > ahead THEN None ELSE clear, points |-> points,
                  confidence |-> IF n >= 7 THEN "medium" ELSE "low"]
    BY <1>1, <1>4, <1>5, <1>6, <1>7 DEF Projection
  <1>9. ~(n = 0 \/ fallen <= 0)
    <2>1. NoProjection.days = None
      BY DEF NoProjection
    <2>2. QED BY <1>8, <2>1
  <1>10. p.points = points /\ ~(clear > ahead) /\ p.days = clear
    <2>1. p = [days |-> IF clear > ahead THEN None ELSE clear, points |-> points,
               confidence |-> IF n >= 7 THEN "medium" ELSE "low"]
      BY ONLY <1>8, <1>9
    <2>2. p.points = points /\ p.days = IF clear > ahead THEN None ELSE clear
      BY ONLY <2>1
    <2>3. QED BY <2>2
  <1>11. PICK first, last : first = xs[1].total /\ last = xs[n].total
    OBVIOUS
  <1>12. first \in Nat /\ last \in Nat
    <2>1. n \in 1..Len(xs) /\ 1 \in 1..Len(xs)
      BY <1>1, <1>3, <1>9
    <2>2. xs[1] \in g[1] /\ xs[n] \in g[1]
      BY ONLY <1>2, <2>1
    <2>3. QED BY <1>2, <1>11, <2>2
  <1>13. fallen = drop /\ fallen \in Nat /\ fallen > 0
    <2>1. fallen = first - last
      BY <1>4, <1>9, <1>11
    <2>2. QED BY <1>1, <1>9, <1>11, <1>12, <2>1
  <1>14. PICK total : total = last * n /\ total \in Nat
    BY <1>3, <1>12
  <1>15. clear = total \div fallen
    BY <1>5, <1>11, <1>14
  <1>16. clear \in Nat
    BY ONLY <1>13, <1>14, <1>15, FloorLaw
  <1>17. PICK other : other = (IF clear > 0 THEN clear + 1 ELSE ahead)
    OBVIOUS
  <1>18. other \in Nat
    BY ONLY <1>3, <1>16, <1>17
  <1>19. length \in {ahead, other} /\ length <= ahead /\ length <= other
    <2>1. length = Min({ahead, other}) /\ ahead \in Int /\ other \in Int
      BY <1>3, <1>6, <1>17, <1>18
    <2>2. QED BY ONLY <2>1, SmallerOfTwo
  <1>20. length \in Nat
    BY ONLY <1>3, <1>18, <1>19
  <1>21. points = PointsOf(total, fallen, length)
    BY <1>7, <1>11, <1>14 DEF PointsOf
  <1>22. Len(points) = length /\ LineFallsOn(points, length, fallen, clear)
    BY ONLY <1>13, <1>14, <1>15, <1>20, <1>21, LineFalls
  <1>23. clear < ahead => clear + 1 \in 1..length /\ \A d \in 1..clear : d \in 1..length /\ d <= clear
    BY ONLY <1>3, <1>16, <1>17, <1>19, <1>20
  <1>24. QED BY <1>1, <1>10, <1>13, <1>22, <1>23 DEF LineFallsOn

LEMMA ProjectionsReach ==
  ASSUME HistoryInv
  PROVE  ProjectionsReachTheirDay
  <1>1. SUFFICES ASSUME NEW r \in Requests, Reported(r, {"projection"}), NEW p, p = Projection(op[r], got[r][1]),
                        NEW xs, xs = ByDay(got[r][1][1]), NEW drop, drop = xs[1].total - xs[Len(xs)].total,
                        p.days # None
                 PROVE  /\ \A d \in 2..Len(p.points) : p.points[d] <= p.points[d - 1]
                        /\ p.days < op[r].days_ahead =>
                             /\ p.days + 1 \in DOMAIN p.points
                             /\ p.points[p.days + 1] < drop
                             /\ \A d \in 1..p.days : p.points[d] >= drop
    BY DEF ProjectionsReachTheirDay
  <1>2. HistoryOK(r) /\ ReportOK(r)
    BY DEF HistoryInv, ReportingInv
  <1>3. PICK o, g, m : o = op[r] /\ g = got[r][1] /\ m = Effective(o)
    OBVIOUS
  <1>4. pc[r] \in {"respond", "save", "done"} /\ got[r] # <<>> /\ o.name = "projection"
    BY <1>1, <1>3 DEF Reported
  <1>5. Seen(r, o, g) /\ o \in Operations[r]
    <2>1. o.name \notin DashboardNames
      BY <1>4 DEF DashboardNames
    <2>2. QED BY <1>2, <1>3, <1>4, <2>1, OnePart
  <1>6. o.days_ahead \in Nat
    BY <1>4, <1>5, AmountsAssumption
  <1>7. ASSUME NEW h, NEW s
        PROVE  Queries(o.name, o, h, s) = <<Every(Since(m, 14, s))>>
    <2>1. Queries(o.name, o, h, s) = MarReport(o, h, s)
      BY <1>4 DEF Queries, MarNames, HealthNames, DashboardNames, GraphNames, TimelineOperations, AssistantNames
    <2>2. MarReport(o, h, s) = ProjectionReads(o, s)
      BY <1>4 DEF MarReport
    <2>3. QED BY <1>3, <2>1, <2>2 DEF ProjectionReads
  <1>8. Len(g) = 1
    <2>1. PICK s : Len(g) = Len(Queries(o.name, o, g, s))
      BY <1>5 DEF Seen
    <2>2. QED BY <1>7, <2>1
  <1>9. PICK s, h : Lately(s, r) /\ g[1] \in Results(Queries(o.name, o, h, s)[1])
    <2>1. 1 \in 1..Len(g)
      BY <1>8
    <2>2. QED BY <1>5, <2>1 DEF Seen
  <1>10. g[1] \in Results(Every(Since(m, 14, s)))
    BY <1>7, <1>9
  <1>11. Totalled(s.money_at_risk)
    BY <1>9 DEF Lately, Typed, Valued
  <1>12. Since(m, 14, s) \subseteq s.money_at_risk
    BY DEF Since, Own
  <1>13. IsFiniteSet(Since(m, 14, s))
    BY <1>11, <1>12, FS_Subset DEF Totalled
  <1>14. g[1] = Since(m, 14, s)
    BY <1>10, <1>13, EveryRow
  <1>15. Totalled(g[1])
    BY <1>11, <1>12, <1>13, <1>14 DEF Totalled
  <1>16. QED BY <1>1, <1>3, <1>6, <1>15, ProjectionReaches

\* The money at risk that is reported is what is there, and what is projected from it
\* (calculate_mar_for_merchant, save_daily_snapshot and project_resolution of
\* services/money_at_risk.py): while webhooks change transactions between its three
\* statements, a report has each transaction nobody has touched in exactly the one list it
\* belongs in, figures that add up by status and by provider, a score between 0 and 100;
\* and a projection comes within a day's reduction of zero on the day it names.
THEOREM RiskIsProved == Spec => []RiskIsWhole
  <1>1. Init => HistoryInv
    BY HistoryInitInv
  <1>2. HistoryInv /\ [Next]_vars => HistoryInv'
    BY HistoryNextInv
  <1>3. HistoryInv => RiskIsWhole
    BY RiskCounted, ProjectionsReach DEF RiskIsWhole
  <1>4. QED BY <1>1, <1>2, <1>3, PTL DEF Spec

(***************************************************************************)
(* Provider health: the loop over the hours finds the outages.             *)
(***************************************************************************)

LEMMA SortedNumbers ==
  ASSUME NEW S, IsFiniteSet(S), S \subseteq Int
  PROVE  InOrderOf(Sorted(S, <), S, [x \in S |-> x])
  <1>1. PICK before, key : before = {c \in S \X S : c[1] < c[2]} /\ key = [x \in S |-> x]
    OBVIOUS
  <1>2. Sorted(S, <) = SortedBy(S, before)
    BY <1>1 DEF Sorted
  <1>3. OrderedBy(before, key, S)
    <2>1. key \in [S -> Int] /\ \A x, y \in S : <<x, y>> \in before <=> key[x] < key[y]
      BY <1>1
    <2>2. QED BY <2>1 DEF OrderedBy
  <1>4. InOrderOf(SortedBy(S, before), S, key)
    BY <1>3, SortedInOrder
  <1>5. QED BY <1>1, <1>2, <1>4

\* An outage among the hours P, of which those of G have a success: none between its ends, and
\* one between each hour before it and its start.
OutageOf(w, P, G) ==
  /\ w.start \in P /\ w.end \in P /\ w.start <= w.end
  /\ \A g \in G : ~(w.start <= g /\ g <= w.end)
  /\ \A h \in P : h < w.start => \E g \in G : h <= g /\ g < w.start

\* It is over: one between its end and each hour after it, of which there is one.
Ended(w, P, G) ==
  /\ OutageOf(w, P, G) /\ w.start < w.end
  /\ \A h \in P : h > w.end => \E g \in G : w.end < g /\ g <= h
  /\ \E g \in G : g \in P /\ w.end < g

\* Two hours with no success between them.
Silent(h, k, G) == \A g \in G : ~(h <= g /\ g <= k)

\* What the loop has when it has gone through the hours P.
Scanned(state, P, G) ==
  /\ state.current # NoOutage => OutageOf(state.current, P, G) /\ \A h \in P : h <= state.current.end
  /\ state.current = NoOutage => \A h \in P : \E g \in G : g \in P /\ h <= g
  /\ \A w \in state.windows : Ended(w, P, G)
  /\ \A h, k \in P : h < k /\ Silent(h, k, G) =>
       \/ \E w \in state.windows : w.start <= h /\ k <= w.end
       \/ state.current # NoOutage /\ state.current.start <= h /\ k <= state.current.end

\* A failing hour begins an outage or is the end of the one that is going on.
Failing(state, x) ==
  [current |-> [start |-> IF state.current = NoOutage THEN x ELSE state.current.start, end |-> x],
   windows |-> state.windows]

\* An hour with a success ends it; it is kept if it was longer than an hour.
Closed(state) ==
  IF state.current # NoOutage /\ state.current.end - state.current.start >= 1 THEN {state.current} ELSE {}

Succeeding(state) == [current |-> NoOutage, windows |-> state.windows \cup Closed(state)]

LEMMA FailingScanned ==
  ASSUME NEW P \in SUBSET Int, NEW G \in SUBSET Int, NEW x \in Int \ G, \A h \in P : h < x,
         \A g \in G : g \in P \/ g >= x, NEW state, Scanned(state, P, G), None \notin Int
  PROVE  Scanned(Failing(state, x), P \cup {x}, G)
  <1> DEFINE next == Failing(state, x)
             Q == P \cup {x}
  <1>1. PICK start : start = IF state.current = NoOutage THEN x ELSE state.current.start
    OBVIOUS
  <1>2. /\ next.windows = state.windows /\ next.current = [start |-> start, end |-> x]
        /\ next.current.start = start /\ next.current.end = x
    BY <1>1 DEF Failing
  <1>3. next.current # NoOutage
    BY <1>2 DEF NoOutage
  <1> HIDE DEF next
  <1>4. \A g \in G : g \in P \/ g > x
    OBVIOUS
  <1>5. start \in Q /\ start <= x /\ \A g \in G : ~(start <= g /\ g <= x)
    <2>1. CASE state.current = NoOutage
      <3>1. start = x
        BY <1>1, <2>1
      <3>2. QED BY <3>1
    <2>2. CASE state.current # NoOutage
      <3>1. PICK end : end = state.current.end
        OBVIOUS
      <3>2. /\ start \in P /\ end \in P /\ \A g \in G : ~(start <= g /\ g <= end)
            /\ \A h \in P : h <= end
        BY <1>1, <2>2, <3>1 DEF Scanned, OutageOf
      <3>3. ASSUME NEW g \in G, start <= g, g <= x PROVE FALSE
        <4>1. g \in P
          BY <1>4, <3>3
        <4>2. QED BY <3>2, <3>3, <4>1
      <3>4. QED BY <3>2, <3>3
    <2>3. QED BY <2>1, <2>2
  <1>6. ASSUME NEW h \in Q, h < start
        PROVE  \E g \in G : h <= g /\ g < start
    <2>0. h \in P
      BY <1>5, <1>6
    <2>1. CASE state.current = NoOutage
      <3>1. PICK g \in G : g \in P /\ h <= g
        BY <2>0, <2>1 DEF Scanned
      <3>2. start = x /\ g < x
        BY <1>1, <2>1, <3>1
      <3>3. QED BY <3>1, <3>2
    <2>2. CASE state.current # NoOutage
      BY <1>1, <1>6, <2>0, <2>2 DEF Scanned, OutageOf
    <2>3. QED BY <2>1, <2>2
  <1>7. OutageOf(next.current, Q, G)
    BY <1>2, <1>5, <1>6 DEF OutageOf
  <1>8. \A h \in Q : h <= x
    OBVIOUS
  <1>9. ASSUME NEW w \in state.windows PROVE Ended(w, Q, G)
    <2>1. Ended(w, P, G)
      BY DEF Scanned
    <2>2. PICK a, b : a = w.start /\ b = w.end
      OBVIOUS
    <2>3. /\ a \in P /\ b \in P /\ a < b /\ a <= b /\ \A g \in G : ~(a <= g /\ g <= b)
          /\ \A h \in P : h < a => \E g \in G : h <= g /\ g < a
          /\ \A h \in P : h > b => \E g \in G : b < g /\ g <= h
      BY <2>1, <2>2 DEF Ended, OutageOf
    <2>4. PICK g \in G : g \in P /\ b < g
      BY <2>1, <2>2 DEF Ended
    <2>5. \A h \in Q : h < a => \E f \in G : h <= f /\ f < a
      BY <2>3
    <2>6. \A h \in Q : h > b => \E f \in G : b < f /\ f <= h
      <3>1. g <= x
        <4>1. g < x /\ g \in Int /\ x \in Int
          BY <2>4
        <4>2. QED BY ONLY <4>1
      <3>2. \A h \in P : h > b => \E f \in G : b < f /\ f <= h
        BY <2>3
      <3>3. \E f \in G : b < f /\ f <= x
        BY <2>4, <3>1
      <3>4. QED BY <3>2, <3>3
    <2>7. QED BY <2>2, <2>3, <2>4, <2>5, <2>6 DEF Ended, OutageOf
  <1>10. ASSUME NEW h \in Q, NEW k \in Q, h < k, Silent(h, k, G)
         PROVE  \/ \E w \in state.windows : w.start <= h /\ k <= w.end
                \/ start <= h /\ k <= x
    <2>0. h \in P /\ k <= x
      BY <1>10
    <2>1. CASE k \in P
      <3>1. \/ \E w \in state.windows : w.start <= h /\ k <= w.end
            \/ state.current # NoOutage /\ state.current.start <= h /\ k <= state.current.end
        BY <1>10, <2>0, <2>1 DEF Scanned
      <3>2. state.current # NoOutage => state.current.start = start
        BY <1>1
      <3>3. QED BY <2>0, <3>1, <3>2
    <2>2. CASE k = x
      <3>1. start <= h
        <4>1. CASE state.current = NoOutage
          <5>1. PICK g \in G : g \in P /\ h <= g
            BY <2>0, <4>1 DEF Scanned
          <5>2. g <= k
            BY <2>2, <5>1
          <5>3. QED BY <1>10, <5>1, <5>2 DEF Silent
        <4>2. CASE state.current # NoOutage
          <5>1. h < start => \E g \in G : h <= g /\ g < start
            BY <1>6
          <5>2. ASSUME NEW g \in G, h <= g, g < start PROVE FALSE
            <6>1. g <= k
              BY <1>5, <2>2, <5>2
            <6>2. QED BY <1>10, <5>2, <6>1 DEF Silent
          <5>3. ~(h < start)
            BY <5>1, <5>2
          <5>4. start \in Int /\ h \in Int
            BY <1>5
          <5>5. QED BY ONLY <5>3, <5>4
        <4>3. QED BY <4>1, <4>2
      <3>2. QED BY <2>0, <3>1
    <2>3. QED BY <2>1, <2>2
  <1>11. QED BY <1>2, <1>3, <1>7, <1>8, <1>9, <1>10 DEF Scanned, next

LEMMA SucceedingScanned ==
  ASSUME NEW P \in SUBSET Int, NEW G \in SUBSET Int, NEW x \in G, \A h \in P : h < x,
         \A g \in G : g \in P \/ g >= x, NEW state, Scanned(state, P, G)
  PROVE  Scanned(Succeeding(state), P \cup {x}, G)
  <1> DEFINE next == Succeeding(state)
             Q == P \cup {x}
  <1>1. next.current = NoOutage /\ next.windows = state.windows \cup Closed(state)
    BY DEF Succeeding
  <1> HIDE DEF next
  <1>2. \A h \in Q : \E g \in G : g \in Q /\ h <= g
    <2>1. \A h \in Q : x \in G /\ x \in Q /\ h <= x
      OBVIOUS
    <2>2. QED BY <2>1
  <1>3. ASSUME NEW w \in state.windows PROVE Ended(w, Q, G)
    <2>1. Ended(w, P, G)
      BY DEF Scanned
    <2>2. PICK a, b : a = w.start /\ b = w.end
      OBVIOUS
    <2>3. /\ a \in P /\ b \in P /\ a < b /\ a <= b /\ \A g \in G : ~(a <= g /\ g <= b)
          /\ \A h \in P : h < a => \E g \in G : h <= g /\ g < a
          /\ \A h \in P : h > b => \E g \in G : b < g /\ g <= h
      BY <2>1, <2>2 DEF Ended, OutageOf
    <2>4. a < x /\ b < x
      BY <2>3
    <2>5. \A h \in Q : h < a => \E f \in G : h <= f /\ f < a
      BY <2>3, <2>4
    <2>6. \A h \in Q : h > b => \E f \in G : b < f /\ f <= h
      <3>1. \A h \in P : h > b => \E f \in G : b < f /\ f <= h
        BY <2>3
      <3>2. \E f \in G : b < f /\ f <= x
        BY <2>4
      <3>3. QED BY <3>1, <3>2
    <2>7. \E g \in G : g \in Q /\ b < g
      BY <2>4
    <2>8. QED BY <2>2, <2>3, <2>5, <2>6, <2>7 DEF Ended, OutageOf
  <1>4. ASSUME NEW w \in Closed(state) PROVE Ended(w, Q, G)
    <2>1. PICK a, b : a = w.start /\ b = w.end
      OBVIOUS
    <2>2. w = state.current /\ state.current # NoOutage /\ b - a >= 1
      BY <2>1 DEF Closed
    <2>3. /\ a \in P /\ b \in P /\ \A g \in G : ~(a <= g /\ g <= b)
          /\ \A h \in P : h < a => \E g \in G : h <= g /\ g < a
          /\ \A h \in P : h <= b
      BY <2>1, <2>2 DEF Scanned, OutageOf
    <2>4. a < b /\ a <= b /\ b < x /\ a < x
      BY <2>2, <2>3
    <2>5. \A h \in Q : h < a => \E f \in G : h <= f /\ f < a
      BY <2>3, <2>4
    <2>6. \A h \in Q : h > b => \E f \in G : b < f /\ f <= h
      <3>1. \A h \in P : ~(h > b)
        BY <2>3
      <3>2. \E f \in G : b < f /\ f <= x
        BY <2>4
      <3>3. QED BY <3>1, <3>2
    <2>7. \E g \in G : g \in Q /\ b < g
      BY <2>4
    <2>8. QED BY <2>1, <2>3, <2>4, <2>5, <2>6, <2>7 DEF Ended, OutageOf
  <1>5. ASSUME NEW h \in Q, NEW k \in Q, h < k, Silent(h, k, G)
        PROVE  \E w \in next.windows : w.start <= h /\ k <= w.end
    <2>1. h \in P /\ k \in P
      <3>1. k # x
        <4>1. h <= k
          BY <1>5
        <4>2. k = x => h <= x /\ x <= k
          BY <4>1
        <4>3. QED BY <1>5, <4>2 DEF Silent
      <3>2. k \in P /\ k < x
        BY <3>1
      <3>3. h # x
        BY <1>5, <3>2
      <3>4. QED BY <3>2, <3>3
    <2>2. CASE \E w \in state.windows : w.start <= h /\ k <= w.end
      BY <1>1, <2>2
    <2>3. CASE state.current # NoOutage /\ state.current.start <= h /\ k <= state.current.end
      <3>1. PICK a, b : a = state.current.start /\ b = state.current.end
        OBVIOUS
      <3>2. a \in P /\ b \in P
        BY <2>3, <3>1 DEF Scanned, OutageOf
      <3>3. a \in Int /\ b \in Int /\ h \in Int /\ k \in Int /\ a <= h /\ k <= b
        BY <2>1, <2>3, <3>1, <3>2
      <3>4. b - a >= 1
        BY ONLY <1>5, <3>3
      <3>5. state.current \in next.windows
        BY <1>1, <2>3, <3>1, <3>4 DEF Closed
      <3>6. QED BY <2>3, <3>5
    <2>4. QED BY <1>5, <2>1, <2>2, <2>3 DEF Scanned
  <1>6. \A w \in next.windows : Ended(w, Q, G)
    BY <1>1, <1>3, <1>4
  <1>7. QED BY <1>1, <1>2, <1>5, <1>6 DEF Scanned, next

\* The outage windows are the outages.
OutagesOf(windows, hours, good) ==
  /\ \A w \in windows :
       /\ {w.start, w.end} \subseteq hours /\ w.start < w.end
       /\ good \cap (w.start..w.end) = {}
       /\ \A h \in hours : h < w.start => \E k \in good : h <= k /\ k < w.start
       /\ \A h \in hours : h > w.end => \E k \in good : w.end < k /\ k <= h
  /\ \A h, k \in hours : h < k /\ good \cap (h..k) = {} =>
       \E w \in windows : w.start <= h /\ k <= w.end

\* Where the loop has ended, the outage that goes on is one as well.
LEMMA ScannedAll ==
  ASSUME NEW P \in SUBSET Int, NEW G \in SUBSET P, NEW state, Scanned(state, P, G),
         NEW windows, windows = state.windows \cup Closed(state)
  PROVE  OutagesOf(windows, P, G)
  <1>1. ASSUME NEW w \in windows
        PROVE  /\ OutageOf(w, P, G) /\ w.start < w.end
               /\ \A h \in P : h > w.end => \E k \in G : w.end < k /\ k <= h
    <2>1. CASE w \in state.windows
      BY <2>1 DEF Scanned, Ended
    <2>2. CASE w \in Closed(state)
      <3>1. PICK a, b : a = w.start /\ b = w.end
        OBVIOUS
      <3>2. w = state.current /\ state.current # NoOutage /\ b - a >= 1
        BY <2>2, <3>1 DEF Closed
      <3>3. OutageOf(w, P, G) /\ \A h \in P : h <= b
        BY <3>1, <3>2 DEF Scanned
      <3>4. a \in Int /\ b \in Int
        BY <3>1, <3>3 DEF OutageOf
      <3>5. a < b /\ \A h \in P : ~(h > b)
        BY <3>2, <3>3, <3>4
      <3>6. QED BY <3>1, <3>3, <3>5
    <2>3. QED BY <2>1, <2>2
  <1>2. ASSUME NEW w \in windows
        PROVE  /\ {w.start, w.end} \subseteq P /\ w.start < w.end
               /\ G \cap (w.start..w.end) = {}
               /\ \A h \in P : h < w.start => \E k \in G : h <= k /\ k < w.start
    <2>1. PICK a, b : a = w.start /\ b = w.end
      OBVIOUS
    <2>2. /\ a \in P /\ b \in P /\ a < b /\ \A g \in G : ~(a <= g /\ g <= b)
          /\ \A h \in P : h < a => \E k \in G : h <= k /\ k < a
      BY <1>1, <2>1 DEF OutageOf
    <2>3. \A g \in G : g \notin a..b
      BY <2>2
    <2>4. QED BY <2>1, <2>2, <2>3
  <1>3. ASSUME NEW h \in P, NEW k \in P, h < k, G \cap (h..k) = {}
        PROVE  \E w \in windows : w.start <= h /\ k <= w.end
    <2>1. ASSUME NEW g \in G PROVE ~(h <= g /\ g <= k)
      <3>1. g \notin h..k /\ g \in Int /\ h \in Int /\ k \in Int
        BY <1>3
      <3>2. QED BY ONLY <3>1
    <2>2. Silent(h, k, G)
      BY <2>1 DEF Silent
    <2>3. CASE \E w \in state.windows : w.start <= h /\ k <= w.end
      BY <2>3
    <2>4. CASE state.current # NoOutage /\ state.current.start <= h /\ k <= state.current.end
      <3>1. PICK a, b : a = state.current.start /\ b = state.current.end
        OBVIOUS
      <3>2. a \in P /\ b \in P
        BY <2>4, <3>1 DEF Scanned, OutageOf
      <3>3. a \in Int /\ b \in Int /\ h \in Int /\ k \in Int /\ a <= h /\ k <= b
        BY <2>4, <3>1, <3>2
      <3>4. b - a >= 1
        BY ONLY <1>3, <3>3
      <3>5. state.current \in windows
        BY <2>4, <3>1, <3>4 DEF Closed
      <3>6. QED BY <2>4, <3>5
    <2>5. QED BY <1>3, <2>2, <2>3, <2>4 DEF Scanned
  <1>4. QED BY <1>1, <1>2, <1>3 DEF OutagesOf

\* The loop from an hour to the next.
States(H) == [current : [start : H, end : H] \cup {NoOutage}, windows : SUBSET [start : H, end : H]]

Succeeds(txs) == {HourOf(t) : t \in In(txs, {"success"})}

LEMMA HourIsStepped ==
  ASSUME NEW txs, NEW H, NEW x \in H, NEW state \in States(H), None \notin H
  PROVE  /\ OutageStep(state, x, txs) = IF x \notin Succeeds(txs) THEN Failing(state, x) ELSE Succeeding(state)
         /\ OutageStep(state, x, txs) \in States(H)
  <1>1. PICK c, ws : state = [current |-> c, windows |-> ws] /\ c \in [start : H, end : H] \cup {NoOutage}
                     /\ ws \in SUBSET [start : H, end : H]
    BY DEF States
  <1>2. state.current = c /\ state.windows = ws
    BY <1>1
  <1>3. (\A t \in txs : HourOf(t) = x => t.status # "success") <=> x \notin Succeeds(txs)
    BY DEF Succeeds, In
  <1>4. PICK w : w = [start |-> IF c = NoOutage THEN x ELSE c.start, end |-> x]
    OBVIOUS
  <1>5. w \in [start : H, end : H]
    <2>1. c # NoOutage => c.start \in H
      BY <1>1
    <2>2. QED BY <1>4, <2>1
  <1>6. CASE x \notin Succeeds(txs)
    <2>1. OutageStep(state, x, txs) = [state EXCEPT !.current = w]
      BY <1>2, <1>3, <1>4, <1>6 DEF OutageStep
    <2>2. [state EXCEPT !.current = w] = [current |-> w, windows |-> ws]
      BY <1>1
    <2>3. Failing(state, x) = [current |-> w, windows |-> ws]
      BY <1>2, <1>4 DEF Failing
    <2>4. [current |-> w, windows |-> ws] \in States(H)
      BY <1>1, <1>5 DEF States
    <2>5. QED BY <1>6, <2>1, <2>2, <2>3, <2>4
  <1>7. CASE ~(x \notin Succeeds(txs))
    <2>1. OutageStep(state, x, txs) = Succeeding(state)
      BY <1>3, <1>7 DEF OutageStep, Succeeding, Closed
    <2>2. Closed(state) \subseteq [start : H, end : H]
      BY <1>1, <1>2 DEF Closed
    <2>3. ws \cup Closed(state) \in SUBSET [start : H, end : H]
      BY <1>1, <2>2
    <2>4. Succeeding(state) = [current |-> NoOutage, windows |-> ws \cup Closed(state)]
      BY <1>2 DEF Succeeding
    <2>5. [current |-> NoOutage, windows |-> ws \cup Closed(state)] \in States(H)
      BY <2>3 DEF States
    <2>6. QED BY <1>7, <2>1, <2>4, <2>5
  <1>8. QED BY <1>6, <1>7

Past(q, k) == {q[i] : i \in 1..k}

HoursInOrder(H) == Sorted(H, <)

Loop(txs, base, q) == FoldLeft(LAMBDA state, hour : OutageStep(state, hour, txs), base, q)

LEMMA HoursSorted ==
  ASSUME NEW H, IsFiniteSet(H), H \subseteq Int, NEW key, key = [x \in H |-> x]
  PROVE  InOrderOf(HoursInOrder(H), H, key)
  BY SortedNumbers DEF HoursInOrder

\* The loop over the hours in their order.
LEMMA HoursAreScanned ==
  ASSUME NEW txs, NEW H, IsFiniteSet(H), H \subseteq Int, None \notin Int, NEW G, G = Succeeds(txs), G \subseteq H,
         NEW q, q = HoursInOrder(H), NEW base, base = [current |-> NoOutage, windows |-> {}]
  PROVE  Scanned(Loop(txs, base, q), H, G)
  <1> DEFINE P(g) == g = [T \in SUBSET DOMAIN q |->
                            IF T = {} THEN base ELSE OutageStep(g[T \ {Max(T)}], q[Max(T)], txs)]
             F == [c \in (1..Len(q)) \X States(H) |-> OutageStep(c[2], q[c[1]], txs)]
  <1>1. Loop(txs, base, q) = (CHOOSE g : P(g))[DOMAIN q]
    BY DEF Loop, FoldLeft, MapThenFoldSet
  <1>2. PICK n \in Nat : /\ n = Len(q) /\ DOMAIN q = 1..n /\ \A i \in 1..n : q[i] \in H
                         /\ \A x \in H : \E i \in 1..n : q[i] = x
                         /\ \A i, j \in 1..n : i < j => q[i] < q[j]
    <2>1. PICK key : key = [x \in H |-> x]
      OBVIOUS
    <2>2. InOrderOf(q, H, key) /\ \A x \in H : key[x] = x
      BY <2>1, HoursSorted
    <2>3. PICK n : n = Len(q)
      OBVIOUS
    <2>4. /\ n \in Nat /\ DOMAIN q = 1..n /\ \A i \in 1..n : q[i] \in H
          /\ \A x \in H : \E i \in 1..n : q[i] = x
          /\ \A i, j \in 1..n : i < j => q[i] # q[j] /\ key[q[i]] <= key[q[j]]
      BY <2>2, <2>3 DEF InOrderOf
    <2>5. ASSUME NEW i \in 1..n, NEW j \in 1..n, i < j PROVE q[i] < q[j]
      <3>1. q[i] # q[j] /\ q[i] <= q[j] /\ q[i] \in Int /\ q[j] \in Int
        BY <2>2, <2>4, <2>5
      <3>2. QED BY ONLY <3>1
    <2>6. QED BY <2>3, <2>4, <2>5
  <1>3. PICK X : X = States(H)
    OBVIOUS
  <1>4. base \in X
    BY <1>3 DEF States
  <1>5. ASSUME NEW i \in 1..n, NEW state \in X
        PROVE  OutageStep(state, q[i], txs) \in X
    <2>1. q[i] \in H /\ None \notin H /\ state \in States(H)
      BY <1>2, <1>3
    <2>2. QED BY ONLY <1>3, <2>1, HourIsStepped
  <1>6. PICK g \in [SUBSET (1..n) -> X] : LeftFolds(g, F, base, n)
    <2>1. F \in [(1..n) \X X -> X]
      <3>1. \A c \in (1..n) \X X : c[1] \in 1..n /\ c[2] \in X
        OBVIOUS
      <3>2. QED BY <1>2, <1>3, <1>5, <3>1
    <2> HIDE DEF F
    <2>2. QED BY ONLY <1>4, <2>1, n \in Nat, LeftFoldsExist
  <1>7. P(g)
    <2>1. ASSUME NEW T \in SUBSET (1..n)
          PROVE  g[T] = IF T = {} THEN base ELSE OutageStep(g[T \ {Max(T)}], q[Max(T)], txs)
      <3>1. CASE T = {}
        BY <1>6, <3>1 DEF LeftFolds
      <3>2. CASE T # {}
        <4>1. PICK m : m = Max(T)
          OBVIOUS
        <4>2. m \in 1..n
          BY <3>2, <4>1, LastOfSome
        <4>3. PICK state : state = g[T \ {m}] /\ state \in X
          BY <1>6, <4>2
        <4>4. g[T] = F[<<m, state>>]
          <5> HIDE DEF F
          <5>1. QED BY <1>6, <3>2, <4>1, <4>3 DEF LeftFolds
        <4>5. F[<<m, state>>] = OutageStep(state, q[m], txs)
          BY <1>2, <1>3, <4>2, <4>3
        <4> HIDE DEF F
        <4>6. QED BY <3>2, <4>1, <4>3, <4>4, <4>5
      <3>3. QED BY <3>1, <3>2
    <2>2. PICK f : f = [T \in SUBSET (1..n) |->
                         IF T = {} THEN base ELSE OutageStep(g[T \ {Max(T)}], q[Max(T)], txs)]
      OBVIOUS
    <2>3. g = f
      <3>1. g \in [SUBSET (1..n) -> X]
        BY ONLY <1>6
      <3>2. DOMAIN f = SUBSET (1..n) /\ \A T \in SUBSET (1..n) : f[T] = g[T]
        BY ONLY <2>1, <2>2
      <3>3. f = [T \in SUBSET (1..n) |-> f[T]]
        BY ONLY <2>2
      <3>4. QED BY ONLY <3>1, <3>2, <3>3
    <2>4. DOMAIN q = 1..n
      BY ONLY <1>2
    <2>5. QED BY ONLY <2>2, <2>3, <2>4
  <1> HIDE DEF F
  <1>8. PICK h : P(h) /\ Loop(txs, base, q) = h[1..n]
    <2> HIDE DEF P
    <2>1. QED BY <1>1, <1>2, <1>7
  <1>9. \A T \in SUBSET (1..n) : h[T] = IF T = {} THEN base ELSE OutageStep(h[T \ {Max(T)}], q[Max(T)], txs)
    <2>1. PICK D : D = SUBSET DOMAIN q /\ D = SUBSET (1..n)
      BY ONLY <1>2
    <2>2. PICK f : f = [T \in D |-> IF T = {} THEN base ELSE OutageStep(h[T \ {Max(T)}], q[Max(T)], txs)]
      OBVIOUS
    <2>3. \A T \in D : f[T] = IF T = {} THEN base ELSE OutageStep(h[T \ {Max(T)}], q[Max(T)], txs)
      BY ONLY <2>2
    <2>4. h = f
      BY ONLY <1>8, <2>1, <2>2
    <2>5. QED BY ONLY <2>1, <2>3, <2>4
  <1> HIDE DEF P
  <1> DEFINE Right(k) == h[1..k] \in X /\ Scanned(h[1..k], Past(q, k), G)
             Reached == {k \in Nat : k <= n => Right(k)}
  <1>10. 0 \in Reached
    <2>1. 1..0 = {} /\ h[{}] = base /\ Past(q, 0) = {}
      <3>1. 1..0 = {}
        OBVIOUS
      <3>2. {} \in SUBSET (1..n)
        OBVIOUS
      <3>3. h[{}] = base
        BY <1>9, <3>2
      <3>4. Past(q, 0) = {}
        BY ONLY <3>1 DEF Past
      <3>5. QED BY <3>1, <3>3, <3>4
    <2>2. Scanned(base, {}, G)
      BY DEF Scanned
    <2>3. Right(0)
      BY <1>4, <2>1, <2>2
    <2> HIDE DEF Right
    <2>4. QED BY <2>3
  <1>11. \A k \in Nat : k \in Reached => k + 1 \in Reached
    <2> SUFFICES ASSUME NEW k \in Nat, k \in Reached PROVE k + 1 \in Reached
      <3> HIDE DEF Reached
      <3>1. QED OBVIOUS
    <2>0. k + 1 \in Nat
      OBVIOUS
    <2>1. SUFFICES ASSUME k + 1 <= n PROVE Right(k + 1)
      <3> HIDE DEF Right
      <3>1. QED BY <2>0
    <2>2. Right(k)
      <3> HIDE DEF Right
      <3>1. k <= n
        BY <2>1
      <3>2. QED BY <3>1
    <2>3. PICK state, x, past : state = h[1..k] /\ x = q[k + 1] /\ past = Past(q, k)
      OBVIOUS
    <2>4. state \in X /\ Scanned(state, past, G)
      BY <2>2, <2>3
    <2>5. k + 1 \in 1..n /\ \A i \in 1..k : i \in 1..n /\ i < k + 1
      BY <2>1
    <2>6. h[1..(k + 1)] = OutageStep(state, x, txs)
      <3>1. PICK T, m : T = 1..(k + 1) /\ m = k + 1
        OBVIOUS
      <3>2. T \in SUBSET (1..n) /\ m \in T
        BY <2>1, <3>1
      <3>3. Max(T) = m /\ T \ {m} = 1..k
        BY <3>1, LastOfFirst
      <3>4. h[T] = OutageStep(h[T \ {Max(T)}], q[Max(T)], txs)
        BY <1>9, <3>2
      <3>5. QED BY <2>3, <3>1, <3>3, <3>4
    <2>7. x \in H /\ x \in Int /\ past \subseteq Int /\ \A y \in past : y < x
      <3>1. x \in H
        BY <1>2, <2>3, <2>5
      <3>2. ASSUME NEW y \in past PROVE y \in H /\ y < x
        <4>1. PICK i \in 1..k : y = q[i]
          BY <2>3, <3>2 DEF Past
        <4>2. QED BY <1>2, <2>3, <2>5, <4>1
      <3>3. QED BY <3>1, <3>2
    <2>8. \A y \in G : y \in past \/ y >= x
      <3>1. SUFFICES ASSUME NEW y \in G PROVE y \in past \/ y >= x
        OBVIOUS
      <3>2. PICK i \in 1..n : q[i] = y
        BY <1>2
      <3>3. CASE i \in 1..k
        BY <2>3, <3>2, <3>3 DEF Past
      <3>4. CASE i = k + 1
        BY <2>3, <2>7, <3>2, <3>4
      <3>5. CASE k + 1 < i
        <4>1. x < y /\ y \in Int
          BY <1>2, <2>3, <2>5, <3>2, <3>5
        <4>2. QED BY ONLY <2>7, <4>1
      <3>6. QED BY <3>3, <3>4, <3>5
    <2>9. Past(q, k + 1) = past \cup {x}
      <3>1. \A i : i \in 1..(k + 1) <=> i \in 1..k \/ i = k + 1
        OBVIOUS
      <3>2. QED BY <2>3, <3>1 DEF Past
    <2>10. OutageStep(state, x, txs) \in X
      BY <1>5, <2>3, <2>4, <2>5
    <2>11. OutageStep(state, x, txs) = IF x \notin G THEN Failing(state, x) ELSE Succeeding(state)
      <3>1. x \in H /\ None \notin H /\ state \in States(H)
        BY <1>3, <2>4, <2>7
      <3>2. OutageStep(state, x, txs) = IF x \notin Succeeds(txs) THEN Failing(state, x) ELSE Succeeding(state)
        BY ONLY <3>1, HourIsStepped
      <3>3. QED BY <3>2
    <2>12. G \in SUBSET Int /\ past \in SUBSET Int
      BY <2>7
    <2>13. Scanned(OutageStep(state, x, txs), past \cup {x}, G)
      <3>1. CASE x \notin G
        <4>1. Scanned(Failing(state, x), past \cup {x}, G)
          BY <2>4, <2>7, <2>8, <2>12, <3>1, FailingScanned
        <4>2. QED BY <2>11, <3>1, <4>1
      <3>2. CASE x \in G
        <4>1. Scanned(Succeeding(state), past \cup {x}, G)
          BY <2>4, <2>7, <2>8, <2>12, <3>2, SucceedingScanned
        <4>2. QED BY <2>11, <3>2, <4>1
      <3>3. QED BY <3>1, <3>2
    <2>14. QED BY <2>6, <2>9, <2>10, <2>13
  <1>12. Nat \subseteq Reached
    <2> HIDE DEF Reached
    <2>1. QED BY <1>10, <1>11, SetInduction
  <1>13. Right(n)
    <2> HIDE DEF Right
    <2>1. n \in Reached
      BY <1>12
    <2>2. QED BY <2>1
  <1>14. Past(q, n) = H
    <2>1. ASSUME NEW x PROVE x \in Past(q, n) <=> \E i \in 1..n : q[i] = x
      BY DEF Past
    <2>2. ASSUME NEW x PROVE x \in H <=> \E i \in 1..n : q[i] = x
      BY <1>2
    <2>3. QED BY <2>1, <2>2
  <1>15. QED BY <1>8, <1>13, <1>14

LEMMA OutagesFound ==
  ASSUME NEW txs, IsFiniteSet(txs), \A t \in txs : t.at \in Int, None \notin Int,
         NEW H, H = {HourOf(t) : t \in txs}
  PROVE  OutagesOf(OutageWindows(txs), H, Succeeds(txs))
  <1>1. IsFiniteSet(H)
    <2>1. PICK f : f = [t \in txs |-> HourOf(t)]
      OBVIOUS
    <2>2. H = {f[t] : t \in txs} /\ DOMAIN f = txs
      BY <2>1
    <2>3. IsFiniteSet({f[t] : t \in txs})
      BY <2>2, FiniteImage
    <2>4. QED BY <2>2, <2>3
  <1>2. H \subseteq Int
    BY DEF HourOf, Hour
  <1>3. PICK G : G = Succeeds(txs)
    OBVIOUS
  <1>4. G \subseteq H
    BY <1>3 DEF Succeeds, In
  <1>5. PICK q, base : q = HoursInOrder(H) /\ base = [current |-> NoOutage, windows |-> {}]
    OBVIOUS
  <1>6. PICK final : final = Loop(txs, base, q)
    OBVIOUS
  <1>7. Scanned(final, H, G)
    BY <1>1, <1>2, <1>3, <1>4, <1>5, <1>6, HoursAreScanned
  <1>8. OutageWindows(txs) = final.windows \cup Closed(final)
    BY <1>5, <1>6 DEF OutageWindows, Closed, Loop, HoursInOrder, NoOutage
  <1>9. PICK windows : windows = final.windows \cup Closed(final)
    OBVIOUS
  <1>10. H \in SUBSET Int /\ G \in SUBSET H
    BY <1>2, <1>4
  <1>11. OutagesOf(windows, H, G)
    BY ONLY <1>7, <1>9, <1>10, ScannedAll
  <1>12. QED BY <1>3, <1>8, <1>9, <1>11

(***************************************************************************)
(* Provider health: the figures of a day, its scores and its status.       *)
(***************************************************************************)

\* The rows of the statements that the figures and scores are made of; the last statement
\* looks the day's row up.
HealthRows(o, s) ==
  LET txs == OfProvider(o.user, o.provider, s.transactions)
      settlements == OfProvider(o.user, o.provider, s.settlements)
      events == EventsOf(o.user, o.provider, s)
      week == {t \in txs : t.at >= Now - 7 * Day}
  IN <<OnDay(o.day, txs), {x \in {y \in settlements : y.settled # None} : DayOf(x.settled) = o.day},
       OnDay(o.day, events), week, settlements, events, {t \in txs : t.at >= Now - 30 * Day}, week, events>>

LEMMA HealthStatements ==
  ASSUME NEW o, o.name = "calculate_health", NEW h, NEW s, NEW q, q = Queries(o.name, o, h, s)
  PROVE  Len(q) = 10 /\ \A j \in 1..9 : q[j] = Every(HealthRows(o, s)[j])
  <1>1. PICK txs, settlements, events, week, month :
          /\ txs = OfProvider(o.user, o.provider, s.transactions)
          /\ settlements = OfProvider(o.user, o.provider, s.settlements)
          /\ events = EventsOf(o.user, o.provider, s)
          /\ week = {t \in txs : t.at >= Now - 7 * Day} /\ month = {t \in txs : t.at >= Now - 30 * Day}
    OBVIOUS
  <1>2. PICK a, b, c : /\ a = OnDay(o.day, txs) /\ c = OnDay(o.day, events)
                       /\ b = {x \in {y \in settlements : y.settled # None} : DayOf(x.settled) = o.day}
    OBVIOUS
  <1>3. PICK row : row = Some({x \in OfProvider(o.user, o.provider, s.health) : x.day = o.day}, 1)
    OBVIOUS
  <1>4. PICK qa, qb, qc, qw, qx, qe, qm :
          /\ qa = Every(a) /\ qb = Every(b) /\ qc = Every(c) /\ qw = Every(week) /\ qx = Every(settlements)
          /\ qe = Every(events) /\ qm = Every(month)
    OBVIOUS
  <1>5. q = MetricsReads(o, s)
    BY DEF Queries, HealthReport, MarNames, HealthNames, DashboardNames, GraphNames, TimelineOperations, AssistantNames
  <1>6. q = <<qa, qb, qc>> \o <<qw>> \o <<qx, qe, qm>> \o <<qw>> \o <<qe, row>>
    BY <1>1, <1>2, <1>3, <1>4, <1>5 DEF MetricsReads, ReliabilityReads
  <1>7. PICK S, u, v, w, x, y :
          /\ S = {qa, qb, qc, qw, qx, qe, qm, row}
          /\ u = <<qa, qb, qc>> /\ v = <<qw>> /\ w = <<qx, qe, qm>> /\ x = <<qw>> /\ y = <<qe, row>>
    OBVIOUS
  <1>8. u \in Seq(S) /\ v \in Seq(S) /\ w \in Seq(S) /\ x \in Seq(S) /\ y \in Seq(S)
    BY <1>7
  <1>9. Len(u) = 3 /\ Len(v) = 1 /\ Len(w) = 3 /\ Len(x) = 1 /\ Len(y) = 2
    BY <1>7
  <1>10. PICK uv, uvw, uvwx : uv = u \o v /\ uvw = uv \o w /\ uvwx = uvw \o x
    OBVIOUS
  <1>11. q = uvwx \o y
    BY ONLY <1>6, <1>7, <1>10
  <1>12. Len(q) = 10 /\ q[1] = qa /\ q[2] = qb /\ q[3] = qc /\ q[4] = qw /\ q[5] = qx /\ q[6] = qe
         /\ q[7] = qm /\ q[8] = qw /\ q[9] = qe
    <2>1. uv \in Seq(S) /\ Joins(uv, u, v, 3, 1)
      BY <1>8, <1>9, <1>10, Joined
    <2>2. uvw \in Seq(S) /\ Joins(uvw, uv, w, 4, 3)
      <3>1. Len(uv) = 4
        BY <2>1 DEF Joins
      <3>2. QED BY <1>8, <1>9, <1>10, <2>1, <3>1, Joined
    <2>3. uvwx \in Seq(S) /\ Joins(uvwx, uvw, x, 7, 1)
      <3>1. Len(uvw) = 7
        BY <2>2 DEF Joins
      <3>2. QED BY <1>8, <1>9, <1>10, <2>2, <3>1, Joined
    <2>4. Joins(q, uvwx, y, 8, 2)
      <3>1. Len(uvwx) = 8
        BY <2>3 DEF Joins
      <3>2. QED BY <1>8, <1>9, <1>11, <2>3, <3>1, Joined
    <2>5. /\ q[1] = u[1] /\ q[2] = u[2] /\ q[3] = u[3] /\ q[4] = v[1] /\ q[5] = w[1] /\ q[6] = w[2] /\ q[7] = w[3]
          /\ q[8] = x[1] /\ q[9] = y[1] /\ Len(q) = 10
      <3>1. uv[1] = u[1] /\ uv[2] = u[2] /\ uv[3] = u[3] /\ uv[3 + 1] = v[1]
        BY ONLY <2>1 DEF Joins
      <3>2. /\ uvw[1] = uv[1] /\ uvw[2] = uv[2] /\ uvw[3] = uv[3] /\ uvw[4] = uv[4]
            /\ uvw[4 + 1] = w[1] /\ uvw[4 + 2] = w[2] /\ uvw[4 + 3] = w[3]
        BY ONLY <2>2 DEF Joins
      <3>3. (\A i \in 1..7 : uvwx[i] = uvw[i]) /\ uvwx[7 + 1] = x[1]
        BY ONLY <2>3 DEF Joins
      <3>4. (\A i \in 1..8 : q[i] = uvwx[i]) /\ q[8 + 1] = y[1] /\ Len(q) = 10
        BY ONLY <2>4 DEF Joins
      <3>5. QED BY ONLY <3>1, <3>2, <3>3, <3>4
    <2>6. u[1] = qa /\ u[2] = qb /\ u[3] = qc /\ v[1] = qw /\ w[1] = qx /\ w[2] = qe /\ w[3] = qm /\ x[1] = qw /\ y[1] = qe
      BY ONLY <1>7
    <2>7. QED BY ONLY <2>5, <2>6
  <1>13. PICK rows : rows = HealthRows(o, s)
    OBVIOUS
  <1>14. rows = <<a, b, c, week, settlements, events, month, week, events>>
    BY <1>1, <1>2, <1>13 DEF HealthRows
  <1>15. rows[1] = a /\ rows[2] = b /\ rows[3] = c /\ rows[4] = week /\ rows[5] = settlements
         /\ rows[6] = events /\ rows[7] = month /\ rows[8] = week /\ rows[9] = events
    BY ONLY <1>14
  <1>16. ASSUME NEW j \in 1..9 PROVE q[j] = Every(rows[j])
    <2>1. j \in {1, 2, 3, 4, 5, 6, 7, 8, 9}
      OBVIOUS
    <2>2. QED BY <1>4, <1>12, <1>15, <2>1
  <1>17. QED BY <1>12, <1>13, <1>16

\* They are finite.
LEMMA HealthRowsFinite ==
  ASSUME NEW o, NEW s, Typed(s), NEW j \in 1..9
  PROVE  IsFiniteSet(HealthRows(o, s)[j])
  <1>1. PICK rows : rows = HealthRows(o, s)
    OBVIOUS
  <1>2. rows[j] \subseteq s.transactions \/ rows[j] \subseteq s.settlements \/ rows[j] \subseteq s.events
    <2>1. PICK txs, settlements, events, week, month :
            /\ txs = OfProvider(o.user, o.provider, s.transactions)
            /\ settlements = OfProvider(o.user, o.provider, s.settlements)
            /\ events = EventsOf(o.user, o.provider, s)
            /\ week = {t \in txs : t.at >= Now - 7 * Day} /\ month = {t \in txs : t.at >= Now - 30 * Day}
      OBVIOUS
    <2>2. PICK a, b, c : /\ a = OnDay(o.day, txs) /\ c = OnDay(o.day, events)
                         /\ b = {x \in {y \in settlements : y.settled # None} : DayOf(x.settled) = o.day}
      OBVIOUS
    <2>3. rows = <<a, b, c, week, settlements, events, month, week, events>>
      BY <1>1, <2>1, <2>2 DEF HealthRows
    <2>4. rows[j] \in {a, b, c, week, settlements, events, month}
      <3>1. j \in {1, 2, 3, 4, 5, 6, 7, 8, 9}
        OBVIOUS
      <3>2. /\ rows[1] = a /\ rows[2] = b /\ rows[3] = c /\ rows[4] = week /\ rows[5] = settlements
            /\ rows[6] = events /\ rows[7] = month /\ rows[8] = week /\ rows[9] = events
        BY ONLY <2>3
      <3>3. QED BY ONLY <3>1, <3>2
    <2>5. txs \subseteq s.transactions /\ settlements \subseteq s.settlements /\ events \subseteq s.events
      BY <2>1 DEF OfProvider, Own, EventsOf
    <2>6. a \subseteq txs /\ week \subseteq txs /\ month \subseteq txs /\ b \subseteq settlements /\ c \subseteq events
      BY <2>1, <2>2 DEF OnDay
    <2>7. QED BY <2>4, <2>5, <2>6
  <1>3. IsFiniteSet(s.transactions) /\ IsFiniteSet(s.settlements) /\ IsFiniteSet(s.events)
    BY DEF Typed, Valued
  <1>4. IsFiniteSet(rows[j])
    BY <1>2, <1>3, FS_Subset
  <1>5. QED BY <1>1, <1>4

LEMMA HealthIsRead ==
  ASSUME NEW r, NEW o, NEW g, Seen(r, o, g), o.name = "calculate_health", NEW j \in 1..9
  PROVE  \E s : Lately(s, r) /\ g[j] = HealthRows(o, s)[j]
  <1>1. Len(g) = 10
    <2>1. PICK s : Lately(s, r) /\ Len(g) = Len(Queries(o.name, o, g, s))
      BY DEF Seen
    <2>2. Len(Queries(o.name, o, g, s)) = 10
      BY HealthStatements
    <2>3. QED BY ONLY <2>1, <2>2
  <1>2. j \in 1..Len(g)
    BY <1>1
  <1>3. PICK s, h : Lately(s, r) /\ g[j] \in Results(Queries(o.name, o, h, s)[j])
    BY <1>2 DEF Seen
  <1>4. Queries(o.name, o, h, s)[j] = Every(HealthRows(o, s)[j])
    BY HealthStatements
  <1>5. IsFiniteSet(HealthRows(o, s)[j])
    BY <1>3, HealthRowsFinite DEF Lately
  <1>6. g[j] = HealthRows(o, s)[j]
    BY <1>3, <1>4, <1>5, EveryRow
  <1>7. QED BY <1>3, <1>6

\* The windows of a report are the outages of the transactions it has read.
LEMMA OutagesAreFound ==
  ASSUME HistoryInv
  PROVE  OutagesAreReal
  <1>1. ASSUME NEW r \in Requests, Reported(r, {"calculate_health"}), NEW txs, txs = got[r][1][7],
               NEW hours, hours = {HourOf(t) : t \in txs}
        PROVE  OutagesOf(OutageWindows(txs), hours, Succeeds(txs))
    <2>1. HistoryOK(r) /\ ReportOK(r)
      BY DEF HistoryInv, ReportingInv
    <2>2. PICK o, g : o = op[r] /\ g = got[r][1]
      OBVIOUS
    <2>3. pc[r] \in {"respond", "save", "done"} /\ got[r] # <<>> /\ o.name = "calculate_health"
      BY <1>1, <2>2 DEF Reported
    <2>4. Seen(r, o, g)
      <3>1. o.name \notin DashboardNames
        BY <2>3 DEF DashboardNames
      <3>2. QED BY <2>1, <2>2, <2>3, <3>1, OnePart
    <2>5. 7 \in 1..9
      OBVIOUS
    <2>6. PICK s : Lately(s, r) /\ txs = HealthRows(o, s)[7]
      BY <1>1, <2>2, <2>3, <2>4, <2>5, HealthIsRead
    <2>7. IsFiniteSet(txs) /\ txs \subseteq s.transactions
      <3>1. IsFiniteSet(txs)
        BY <2>5, <2>6, HealthRowsFinite DEF Lately
      <3>2. PICK all, month : /\ all = OfProvider(o.user, o.provider, s.transactions)
                              /\ month = {t \in all : t.at >= Now - 30 * Day}
        OBVIOUS
      <3>3. HealthRows(o, s)[7] = month
        BY <3>2 DEF HealthRows
      <3>4. month \subseteq s.transactions
        BY <3>2 DEF OfProvider, Own
      <3>5. QED BY <2>6, <3>1, <3>3, <3>4
    <2>8. \A t \in txs : t.at \in Int
      BY <2>6, <2>7 DEF Lately, Typed, Valued, Priced
    <2>9. None \notin Int
      BY TimesAssumption
    <2>10. QED BY <1>1, <2>7, <2>8, <2>9, OutagesFound
  <1>2. ASSUME NEW r \in Requests, Reported(r, {"calculate_health"})
        PROVE  LET txs == got[r][1][7]
                   hours == {HourOf(t) : t \in txs}
                   good == {HourOf(t) : t \in In(txs, {"success"})}
                   windows == OutageWindows(txs)
               IN OutagesOf(windows, hours, good)
    BY <1>1, <1>2 DEF Succeeds
  <1>3. QED BY ONLY <1>2 DEF OutagesAreReal, OutagesOf

\* Where nothing has changed, a report has read what is there.
LEMMA NothingHasChanged ==
  ASSUME NEW r, NEW s, Lately(s, r), touched[r] = {}
  PROVE  /\ s.transactions = store.transactions /\ s.events = store.events /\ s.settlements = store.settlements
         /\ s.incidents = store.incidents /\ s.sources = store.sources
  <1>1. Typed(s) /\ Precedes(s, store, {})
    BY DEF Lately
  <1>2. s.transactions = store.transactions
    <2>1. s.transactions \subseteq store.transactions
      BY <1>1 DEF Precedes
    <2>2. store.transactions \subseteq s.transactions
      BY <1>1 DEF Precedes
    <2>3. QED BY <2>1, <2>2
  <1>3. ASSUME NEW table \in DOMAIN s, table \notin Written, table # "transactions" PROVE s[table] = store[table]
    BY <1>1, <1>3 DEF Precedes
  <1>4. {"events", "settlements", "incidents", "sources"} \subseteq DOMAIN s
    BY <1>1 DEF Typed, OwnedTables, HangingTables
  <1>5. /\ s["events"] = store["events"] /\ s["settlements"] = store["settlements"]
        /\ s["incidents"] = store["incidents"] /\ s["sources"] = store["sources"]
    BY <1>3, <1>4 DEF Written
  <1>6. QED BY <1>2, <1>5

LEMMA QuietRows ==
  ASSUME NEW r, NEW o, NEW g, Seen(r, o, g), o.name = "calculate_health", touched[r] = {}
  PROVE  \A j \in 1..9 : g[j] = HealthRows(o, store)[j]
  <1>1. ASSUME NEW j \in 1..9 PROVE g[j] = HealthRows(o, store)[j]
    <2>1. PICK s : Lately(s, r) /\ g[j] = HealthRows(o, s)[j]
      BY HealthIsRead
    <2>2. s.transactions = store.transactions /\ s.events = store.events /\ s.settlements = store.settlements
      BY <2>1, NothingHasChanged
    <2>3. HealthRows(o, s) = HealthRows(o, store)
      BY <2>2 DEF HealthRows, EventsOf
    <2>4. QED BY <2>1, <2>3
  <1>2. QED BY <1>1

\* A part of a whole, in hundredths of a percent.
RateOf(c, a, b) ==
  InScale(c) /\ (10 * a < 9 * b => c < 9000) /\ (b # 0 /\ a = b => c = 10000)

LEMMA RateFits ==
  ASSUME NEW a \in Nat, NEW b \in Nat, a <= b, NEW c, c = Rate(a, b)
  PROVE  RateOf(c, a, b)
  <1>1. CASE b = 0
    <2>1. c = 0 /\ ~(10 * a < 9 * b)
      BY <1>1 DEF Rate
    <2>2. QED BY <1>1, <2>1 DEF RateOf, InScale
  <1>2. CASE b # 0
    <2>1. PICK k : k = 10000 * a
      OBVIOUS
    <2>2. k \in Nat /\ b > 0 /\ c = k \div b
      BY <1>2, <2>1 DEF Rate
    <2>3. c \in Nat /\ b * c <= k /\ k - b * c < b
      BY <2>2, FloorLaw
    <2>4. PICK bc : bc = b * c
      OBVIOUS
    <2>5. bc \in Int /\ bc <= 10000 * a /\ 10000 * a - bc < b
      BY <2>1, <2>3, <2>4
    <2>6. c <= 10000
      <3>1. SUFFICES ASSUME 10001 <= c PROVE FALSE
        BY <2>3
      <3>2. b * 10001 <= bc
        BY <2>3, <2>4, <3>1, ProductGrows
      <3>3. QED BY ONLY <2>2, <2>5, <3>2, a \in Nat, b \in Nat, a <= b
    <2>7. ASSUME 10 * a < 9 * b PROVE c < 9000
      <3>1. SUFFICES ASSUME 9000 <= c PROVE FALSE
        BY <2>3
      <3>2. b * 9000 <= bc
        BY <2>3, <2>4, <3>1, ProductGrows
      <3>3. QED BY ONLY <2>5, <2>7, <3>2, a \in Nat, b \in Nat
    <2>8. ASSUME a = b PROVE c = 10000
      <3>1. SUFFICES ASSUME c <= 9999 PROVE FALSE
        BY <2>3, <2>6
      <3>2. bc <= b * 9999
        BY <2>3, <2>4, <3>1, ProductGrows
      <3>3. QED BY ONLY <2>5, <2>8, <3>2, a \in Nat, b \in Nat
    <2>9. InScale(c)
      BY ONLY <2>3, <2>6 DEF InScale
    <2>10. QED BY <2>7, <2>8, <2>9 DEF RateOf
  <1>3. QED BY <1>1, <1>2

\* Those in a status are some of the rows, and those in two statuses no more than all.
LEMMA CountsOfStatus ==
  ASSUME NEW rows, IsFiniteSet(rows), NEW S, NEW T, S \cap T = {}
  PROVE  /\ Count(rows) \in Nat /\ Count(In(rows, S)) \in Nat /\ Count(In(rows, T)) \in Nat
         /\ Count(In(rows, S)) + Count(In(rows, T)) <= Count(rows)
  <1>1. PICK A, B, n : A = In(rows, S) /\ B = In(rows, T) /\ n = Cardinality(A \cup B)
    OBVIOUS
  <1>2. A \subseteq rows /\ B \subseteq rows /\ A \cap B = {}
    BY <1>1 DEF In
  <1>3. IsFiniteSet(A) /\ IsFiniteSet(B) /\ Cardinality(A) \in Nat /\ Cardinality(B) \in Nat /\ Cardinality(rows) \in Nat
    BY <1>2, FS_Subset, FS_CardinalityType
  <1>4. n = Cardinality(A) + Cardinality(B)
    <2>1. Cardinality(A \cap B) = 0
      BY <1>2, FS_EmptySet
    <2>2. n = Cardinality(A) + Cardinality(B) - Cardinality(A \cap B)
      BY <1>1, <1>3, FS_Union
    <2>3. QED BY <1>3, <2>1, <2>2
  <1>5. n <= Cardinality(rows)
    <2>1. A \cup B \subseteq rows
      BY <1>2
    <2>2. QED BY <1>1, <2>1, FS_Subset
  <1>6. QED BY <1>1, <1>3, <1>4, <1>5 DEF Count

\* What the share of successes says of the rows.
ReliabilityOf(c, rows) ==
  /\ InScale(c)
  /\ 10 * Count(In(rows, {"success"})) < 9 * Count(rows) => c < 9000
  /\ rows = In(rows, {"success"}) => c = 10000

LEMMA ReliabilityFits ==
  ASSUME NEW rows, IsFiniteSet(rows), NEW c, c = Reliability(rows)
  PROVE  ReliabilityOf(c, rows)
  <1>1. PICK good, a, b : good = In(rows, {"success"}) /\ a = Count(good) /\ b = Count(rows)
    OBVIOUS
  <1>2. a \in Nat /\ b \in Nat /\ a <= b
    <2>1. Count(In(rows, {"success"})) + Count(In(rows, {})) <= Count(rows) /\ Count(In(rows, {"success"})) \in Nat
          /\ Count(In(rows, {})) \in Nat /\ Count(rows) \in Nat
      BY CountsOfStatus
    <2>2. QED BY <1>1, <2>1
  <1>3. rows = {} <=> b = 0
    BY <1>1, FS_EmptySet DEF Count
  <1>4. CASE rows = {}
    <2>1. c = 10000 /\ b = 0
      BY <1>3, <1>4 DEF Reliability
    <2>2. ~(10 * a < 9 * b)
      BY <1>2, <2>1
    <2>3. InScale(c)
      BY ONLY <2>1 DEF InScale
    <2>4. QED BY ONLY <1>1, <2>1, <2>2, <2>3 DEF ReliabilityOf
  <1>5. CASE rows # {}
    <2>1. c = Rate(a, b)
      BY <1>1, <1>5 DEF Reliability
    <2>2. RateOf(c, a, b)
      BY <1>2, <2>1, RateFits
    <2>3. rows = good => a = b
      BY <1>1
    <2>4. InScale(c) /\ (10 * a < 9 * b => c < 9000) /\ (rows = good => c = 10000)
      BY ONLY <1>3, <1>5, <2>2, <2>3 DEF RateOf
    <2>5. QED BY ONLY <1>1, <2>4 DEF ReliabilityOf
  <1>6. QED BY ONLY <1>4, <1>5

\* What the share of webhooks that did not fail says of them.
WebhooksOf(c, rows) == InScale(c) /\ (In(rows, {"failed"}) = {} => c = 10000)

LEMMA WebhookFailureFits ==
  ASSUME NEW rows, IsFiniteSet(rows), NEW c, c = WebhookFailure(rows)
  PROVE  WebhooksOf(c, rows)
  <1>1. PICK bad, a, b : bad = In(rows, {"failed"}) /\ a = Count(bad) /\ b = Count(rows)
    OBVIOUS
  <1>2. a \in Nat /\ b \in Nat /\ a <= b
    <2>1. Count(In(rows, {"failed"})) + Count(In(rows, {})) <= Count(rows) /\ Count(In(rows, {"failed"})) \in Nat
          /\ Count(In(rows, {})) \in Nat /\ Count(rows) \in Nat
      BY CountsOfStatus
    <2>2. QED BY <1>1, <2>1
  <1>3. rows = {} <=> b = 0
    BY <1>1, FS_EmptySet DEF Count
  <1>4. CASE rows = {}
    <2>1. c = 10000
      BY <1>4 DEF WebhookFailure
    <2>2. InScale(c)
      BY ONLY <2>1 DEF InScale
    <2>3. QED BY ONLY <2>1, <2>2 DEF WebhooksOf
  <1>5. CASE rows # {}
    <2>1. PICK d : d = b - a
      OBVIOUS
    <2>2. d \in Nat /\ d <= b
      BY <1>2, <2>1
    <2>3. c = Rate(d, b)
      BY <1>1, <1>5, <2>1 DEF WebhookFailure
    <2>4. RateOf(c, d, b)
      BY <1>2, <2>2, <2>3, RateFits
    <2>5. bad = {} => d = b
      <3>1. bad = {} => a = 0
        BY <1>1, FS_EmptySet DEF Count
      <3>2. QED BY <1>2, <2>1, <3>1
    <2>6. InScale(c) /\ (bad = {} => c = 10000)
      BY ONLY <1>3, <1>5, <2>4, <2>5 DEF RateOf
    <2>7. QED BY ONLY <1>1, <2>6 DEF WebhooksOf
  <1>6. QED BY ONLY <1>4, <1>5

LEMMA LagsAreIntegers ==
  ASSUME NEW S, IsFiniteSet(S), \A x \in S : x.settled \in Int /\ x.at \in Int
  PROVE  Lags(S) \in Int
  <1> DEFINE P(g) == g = [s \in SUBSET S |->
                            IF s = {} THEN 0
                            ELSE Lag(CHOOSE x \in s : TRUE) + g[s \ {CHOOSE x \in s : TRUE}]]
  <1>1. Lags(S) = (CHOOSE g : P(g))[S]
    BY DEF Lags, MapThenSumSet, MapThenFoldSet
  <1>2. PICK f : f = [x \in S |-> Lag(x)]
    OBVIOUS
  <1>3. f \in [S -> Int]
    BY <1>2 DEF Lag
  <1>4. \A s \in SUBSET S : s # {} => (CHOOSE x \in s : TRUE) \in S
    OBVIOUS
  <1>5. ASSUME NEW g PROVE P(g) <=> SumsOf(g, f, S)
    <2>1. \A s \in SUBSET S : s # {} => f[CHOOSE x \in s : TRUE] = Lag(CHOOSE x \in s : TRUE)
      BY <1>2, <1>4
    <2>2. \A s \in SUBSET S : Plus(f, g, s) =
            IF s = {} THEN 0 ELSE Lag(CHOOSE x \in s : TRUE) + g[s \ {CHOOSE x \in s : TRUE}]
      BY <2>1 DEF Plus
    <2>3. QED BY <2>2 DEF SumsOf
  <1> HIDE DEF P
  <1>6. \E g : P(g)
    BY <1>3, <1>5, SumsExist
  <1>7. SumsOf((CHOOSE g : P(g)), f, S)
    BY <1>5, <1>6
  <1>8. (CHOOSE g : P(g))[S] \in Int
    BY <1>3, <1>7, SumsAreIntegers
  <1>9. QED BY <1>1, <1>8

LEMMA SettlementLagFits ==
  ASSUME NEW rows, IsFiniteSet(rows), \A x \in rows : Timed(x), None \notin Int
  PROVE  InScale(SettlementLag(rows))
  <1>1. PICK known, lag : /\ known = {x \in rows : x.settled # None}
                          /\ lag = Mean(Lags(known), known)
    OBVIOUS
  <1>2. PICK d : d = (10000 * 828 - 100 * lag) \div 828
    OBVIOUS
  <1> DEFINE m == Max({0, d})
  <1>3. SettlementLag(rows) \in {0, 10000} \/ (~(lag <= 3600) /\ SettlementLag(rows) = m)
    <2>1. PICK last : last = m
      OBVIOUS
    <2>2. SettlementLag(rows) = CASE known = {} -> 10000
                                  [] lag <= 3600 -> 10000
                                  [] lag >= 86400 -> 0
                                  [] OTHER -> last
      BY <1>1, <1>2, <2>1 DEF SettlementLag
    <2>3. SettlementLag(rows) \in {0, 10000} \/ (~(lag <= 3600) /\ SettlementLag(rows) = last)
      BY ONLY <2>2
    <2>4. QED BY ONLY <2>1, <2>3
  <1>4. IsFiniteSet(known) /\ \A x \in known : x.settled \in Int /\ x.at \in Int
    <2>1. known \subseteq rows
      BY <1>1
    <2>2. IsFiniteSet(known)
      BY <2>1, FS_Subset
    <2>3. QED BY <1>1, <2>1, <2>2 DEF Timed
  <1>5. lag \in Int
    <2>1. PICK sum, n : sum = Lags(known) /\ n = Cardinality(known)
      OBVIOUS
    <2>2. sum \in Int /\ n \in Nat
      BY <1>4, <2>1, LagsAreIntegers, FS_CardinalityType
    <2>3. known # {} => n > 0
      BY <1>4, <2>1, <2>2, FS_EmptySet
    <2>4. n > 0 => sum \div n \in Int
      BY ONLY <2>2
    <2>5. lag = IF known = {} THEN 0 ELSE sum \div n
      BY <1>1, <2>1 DEF Mean
    <2>6. QED BY ONLY <2>3, <2>4, <2>5
  <1>6. ASSUME ~(lag <= 3600) PROVE InScale(m)
    <2>1. PICK k : k = 10000 * 828 - 100 * lag
      OBVIOUS
    <2>2. k \in Int /\ k <= 10000 * 828
      BY ONLY <1>5, <1>6, <2>1
    <2>3. d \in Int /\ d <= 10000
      BY ONLY <1>2, <2>1, <2>2
    <2>4. PICK larger : larger = m
      OBVIOUS
    <2>5. larger \in {0, d} /\ larger >= 0
      BY ONLY <2>3, <2>4, 0 \in Int, LargerOfTwo
    <2>6. larger \in 0..10000
      BY ONLY <2>3, <2>5
    <2>7. InScale(larger)
      BY ONLY <2>6 DEF InScale
    <2>8. QED BY ONLY <2>4, <2>7
  <1>7. InScale(0) /\ InScale(10000)
    BY ONLY TRUE DEF InScale
  <1>8. QED BY ONLY <1>3, <1>6, <1>7

\* The figures calculated of rows fit them.
LEMMA FiguresOfRows ==
  ASSUME NEW id, NEW o, NEW g, NEW week, NEW events, NEW x, x = Metrics(id, o, g),
         g[4] = week /\ g[8] = week, g[6] = events /\ g[9] = events, None \notin Int,
         \A j \in 1..9 : IsFiniteSet(g[j]), \A y \in g[5] : Timed(y)
  PROVE  FiguresFit(x, week, events)
  <1>1. IsFiniteSet(g[1]) /\ IsFiniteSet(g[3]) /\ IsFiniteSet(week) /\ IsFiniteSet(g[5]) /\ IsFiniteSet(events)
    <2>1. 1 \in 1..9 /\ 3 \in 1..9 /\ 4 \in 1..9 /\ 5 \in 1..9 /\ 6 \in 1..9
      OBVIOUS
    <2>2. IsFiniteSet(g[1]) /\ IsFiniteSet(g[3]) /\ IsFiniteSet(g[4]) /\ IsFiniteSet(g[5]) /\ IsFiniteSet(g[6])
      BY <2>1
    <2>3. QED BY <2>2
  <1>2. PICK reliability, webhook : reliability = Reliability(week) /\ webhook = WebhookFailure(events)
    OBVIOUS
  <1>3. /\ x.count = Count(g[1]) /\ x.success = Count(In(g[1], {"success"})) /\ x.fail = Count(In(g[1], {"failed"}))
        /\ x.webhooks = Count(g[3]) /\ x.webhook_fail = Count(In(g[3], {"failed"}))
        /\ x.reliability = reliability /\ x.lag = SettlementLag(g[5]) /\ x.webhook = webhook
        /\ x.status = HealthStatus(reliability, webhook)
    BY <1>2 DEF Metrics
  <1>4. x.success + x.fail <= x.count
    <2>1. {"success"} \cap {"failed"} = {}
      OBVIOUS
    <2>2. Count(In(g[1], {"success"})) + Count(In(g[1], {"failed"})) <= Count(g[1])
      BY <1>1, <2>1, CountsOfStatus
    <2>3. QED BY <1>3, <2>2
  <1>5. x.webhook_fail <= x.webhooks
    <2>1. PICK a, b, c : a = Count(In(g[3], {"failed"})) /\ b = Count(In(g[3], {})) /\ c = Count(g[3])
      OBVIOUS
    <2>2. a \in Nat /\ b \in Nat /\ c \in Nat /\ a + b <= c
      BY <1>1, <2>1, CountsOfStatus
    <2>3. a <= c
      BY ONLY <2>2
    <2>4. QED BY <1>3, <2>1, <2>3
  <1>6. ReliabilityOf(reliability, week)
    BY ONLY <1>1, <1>2, ReliabilityFits
  <1>7. WebhooksOf(webhook, events)
    BY ONLY <1>1, <1>2, WebhookFailureFits
  <1>8. InScale(x.lag)
    <2>1. PICK rows : rows = g[5]
      OBVIOUS
    <2>2. IsFiniteSet(rows) /\ (\A y \in rows : Timed(y)) /\ None \notin Int
      BY <1>1, <2>1
    <2>3. InScale(SettlementLag(rows))
      BY ONLY <2>2, SettlementLagFits
    <2>4. x.lag = SettlementLag(rows)
      BY ONLY <1>3, <2>1
    <2>5. QED BY ONLY <2>3, <2>4
  <1>9. reliability < 9000 => HealthStatus(reliability, webhook) = "critical"
    BY DEF HealthStatus
  <1>10. reliability = 10000 /\ webhook = 10000 => HealthStatus(reliability, webhook) = "healthy"
    BY DEF HealthStatus
  <1>11. CountsFit(x)
    BY ONLY <1>4, <1>5 DEF CountsFit
  <1>12. ScoresFit(x)
    <2>1. InScale(reliability)
      BY ONLY <1>6 DEF ReliabilityOf
    <2>2. InScale(webhook)
      BY ONLY <1>7 DEF WebhooksOf
    <2>3. x.reliability = reliability /\ x.webhook = webhook
      BY ONLY <1>3
    <2>4. QED BY ONLY <1>8, <2>1, <2>2, <2>3 DEF ScoresFit
  <1>13. StatusFits(x, week, events)
    <2>1. PICK a, b : a = Count(In(week, {"success"})) /\ b = Count(week)
      OBVIOUS
    <2>2. 10 * a < 9 * b => x.status = "critical"
      BY ONLY <1>3, <1>6, <1>9, <2>1 DEF ReliabilityOf
    <2>3. week = In(week, {"success"}) /\ In(events, {"failed"}) = {} => x.status = "healthy"
      BY ONLY <1>3, <1>6, <1>7, <1>10 DEF ReliabilityOf, WebhooksOf
    <2>4. x.status = HealthStatus(x.reliability, x.webhook)
      BY ONLY <1>3
    <2>5. QED BY ONLY <2>1, <2>2, <2>3, <2>4 DEF StatusFits
  <1>14. QED BY ONLY <1>11, <1>12, <1>13 DEF FiguresFit

LEMMA MetricsAgree ==
  ASSUME HistoryInv
  PROVE  QuietMetricsAgree
  <1>1. ASSUME NEW r \in Requests, Reported(r, {"calculate_health"}), touched[r] = {}
        PROVE  LET o == op[r]
                   x == Metrics(r, o, got[r][1])
                   week == {t \in OfProvider(o.user, o.provider, store.transactions) : t.at >= Now - 7 * Day}
               IN FiguresFit(x, week, EventsOf(o.user, o.provider, store))
    <2>1. HistoryOK(r) /\ ReportOK(r) /\ Typed(store)
      BY DEF HistoryInv, ReportingInv
    <2>2. PICK o, g, x, week, events, settlements :
            /\ o = op[r] /\ g = got[r][1] /\ x = Metrics(r, o, g)
            /\ week = {t \in OfProvider(o.user, o.provider, store.transactions) : t.at >= Now - 7 * Day}
            /\ events = EventsOf(o.user, o.provider, store)
            /\ settlements = OfProvider(o.user, o.provider, store.settlements)
      OBVIOUS
    <2>3. pc[r] \in {"respond", "save", "done"} /\ got[r] # <<>> /\ o.name = "calculate_health"
      BY <1>1, <2>2 DEF Reported
    <2>4. Seen(r, o, g)
      <3>1. o.name \notin DashboardNames
        BY <2>3 DEF DashboardNames
      <3>2. QED BY <2>1, <2>2, <2>3, <3>1, OnePart
    <2>5. \A j \in 1..9 : g[j] = HealthRows(o, store)[j]
      BY <1>1, <2>3, <2>4, QuietRows
    <2>6. g[4] = week /\ g[5] = settlements /\ g[6] = events /\ g[8] = week /\ g[9] = events
      <3>1. PICK a, b, c, d : HealthRows(o, store) = <<a, b, c, week, settlements, events, d, week, events>>
        BY <2>2 DEF HealthRows
      <3>2. PICK rows : rows = HealthRows(o, store)
        OBVIOUS
      <3>3. rows[4] = week /\ rows[5] = settlements /\ rows[6] = events /\ rows[8] = week /\ rows[9] = events
        BY ONLY <3>1, <3>2
      <3>4. 4 \in 1..9 /\ 5 \in 1..9 /\ 6 \in 1..9 /\ 8 \in 1..9 /\ 9 \in 1..9
        OBVIOUS
      <3>5. QED BY <2>5, <3>2, <3>3, <3>4
    <2>7. \A j \in 1..9 : IsFiniteSet(g[j])
      BY <2>1, <2>5, HealthRowsFinite
    <2>8. \A y \in g[5] : Timed(y)
      <3>1. settlements \subseteq store.settlements
        BY <2>2 DEF OfProvider, Own
      <3>2. QED BY <2>1, <2>6, <3>1 DEF Typed, Valued
    <2>9. None \notin Int
      BY TimesAssumption
    <2>10. FiguresFit(x, week, events)
      BY <2>2, <2>6, <2>7, <2>8, <2>9, FiguresOfRows
    <2>11. QED BY <2>2, <2>10
  <1>2. QED BY ONLY <1>1 DEF QuietMetricsAgree

\* The health of a provider that is calculated is real (detect_outage_windows and
\* calculate_daily_metrics of services/provider_health.py): while webhooks change transactions
\* between its ten statements, the windows that the loop over the hours finds are the outages of
\* the transactions it has read, each as long as it can be and none left out; and where nothing
\* has changed its figures and scores are within their bounds, its status is that of its scores,
\* a week in which less than nine in ten succeed is critical and one with neither failures nor
\* pending transactions, and no failed webhook, is healthy.
THEOREM HealthIsProved == Spec => []HealthIsReal
  <1>1. Init => HistoryInv
    BY HistoryInitInv
  <1>2. HistoryInv /\ [Next]_vars => HistoryInv'
    BY HistoryNextInv
  <1>3. HistoryInv => HealthIsReal
    BY OutagesAreFound, MetricsAgree DEF HealthIsReal
  <1>4. QED BY <1>1, <1>2, <1>3, PTL DEF Spec

(***************************************************************************)
(* The action centre: its list and its cause.                              *)
(***************************************************************************)

\* The rows of a table, other than the transactions, stay, and those that nobody has inserted
\* since were there whenever r has read.
LEMMA TableStays ==
  ASSUME NEW r, NEW s, Lately(s, r), NEW table \in OwnedTables \cup HangingTables, table # "transactions"
  PROVE  /\ s[table] \subseteq store[table] /\ IsFiniteSet(s[table])
         /\ \A x \in store[table] : x.id \notin touched[r] => x \in s[table]
  <1>1. table \in DOMAIN s /\ table \notin Written /\ IsFiniteSet(s[table])
    <2>1. OwnedTables \cup HangingTables \subseteq DOMAIN s /\ IsFiniteSet(s[table])
      BY DEF Lately, Typed, Valued
    <2>2. (OwnedTables \cup HangingTables) \cap Written = {}
      BY DEF OwnedTables, HangingTables, Written
    <2>3. QED BY <2>1, <2>2
  <1>2. /\ s[table] \subseteq store[table]
        /\ \A x \in store[table] \ s[table] : x.id \in touched[r]
    <2>1. Precedes(s, store, touched[r]) /\ table \in DOMAIN s \ (Written \cup {"transactions"})
      BY <1>1 DEF Lately
    <2>2. QED BY ONLY <2>1 DEF Precedes
  <1>3. QED BY <1>1, <1>2

\* The action of an incident.
ActionOn(i) == [type |-> "acknowledge_incident", priority |-> IF Urgent(i) THEN 1 ELSE 3, count |-> 1, about |-> i.id]

\* What is there to do, of these rows.
Does(actions, type) == \E a \in actions : a.type = type
ActionsFit(actions, g) ==
  /\ IsFiniteSet(actions)
  /\ \A a \in actions : /\ a.priority \in {1, 2, 3, 5}
                        /\ a.about = None \/ \E i \in g[4] : a = ActionOn(i)
                        /\ a.type = "investigate_failed_payment" => a.priority = 1
  /\ Does(actions, "investigate_failed_payment") <=> g[1] # {}
  /\ Does(actions, "follow_up_pending_payment") <=> g[9] # {}
  /\ Does(actions, "upload_bank_statement") <=> g[2] = {}
  /\ Does(actions, "process_bank_statement") <=> g[2] # {}

\* At most one action, of this type and priority.
OneAction(actions, type, priority) ==
  \A a \in actions : a.type = type /\ a.priority = priority /\ a.about = None

LEMMA OneActionWhen ==
  ASSUME NEW rows, NEW type, NEW priority, NEW actions,
         actions = IF rows = {} THEN {} ELSE {Action(type, priority, Count(rows))}
  PROVE  OneAction(actions, type, priority) /\ IsFiniteSet(actions) /\ (Does(actions, type) <=> rows # {})
  <1>1. PICK a : a = Action(type, priority, Count(rows))
    OBVIOUS
  <1>2. a.type = type /\ a.priority = priority /\ a.about = None
    BY <1>1 DEF Action
  <1>3. IsFiniteSet({}) /\ IsFiniteSet({a})
    BY FS_EmptySet, FS_Singleton
  <1>4. QED BY <1>1, <1>2, <1>3 DEF OneAction, Does

LEMMA ActionsAre ==
  ASSUME NEW g, IsFiniteSet(g[4])
  PROVE  ActionsFit(Actions(g), g)
  <1>1. PICK A1, A2, B2 :
          /\ A1 = (IF g[1] = {} THEN {} ELSE {Action("investigate_failed_payment", 1, Count(g[1]))})
          /\ A2 = (IF g[2] = {} THEN {} ELSE {Action("process_bank_statement", 2, Count(g[2]))})
          /\ B2 = {Action("upload_bank_statement", 5, 0)}
    OBVIOUS
  <1>23. PICK A4 :
          A4 = {[Action("acknowledge_incident", IF Urgent(i) THEN 1 ELSE 3, 1) EXCEPT !.about = i.id] : i \in g[4]}
    OBVIOUS
  <1>24. PICK A3, A5, A6 :
          /\ A3 = (IF g[3] = {} THEN {} ELSE {Action("resolve_unmatched_settlement", 2, Count(g[3]))})
          /\ A5 = (IF g[5] = {} THEN {} ELSE {Action("open_dispute", 2, Count(g[5]))})
          /\ A6 = (IF g[6] = {} THEN {} ELSE {Action("check_provider_sync_failure", 2, Count(g[6]))})
    OBVIOUS
  <1>25. PICK A7, A8, A9 :
          /\ A7 = (IF g[7] = {} THEN {} ELSE {Action("verify_bank_account", 3, Count(g[7]))})
          /\ A8 = (IF g[8] = {} THEN {} ELSE {Action("reconnect_data_source", 2, Count(g[8]))})
          /\ A9 = (IF g[9] = {} THEN {} ELSE {Action("follow_up_pending_payment", 2, Count(g[9]))})
    OBVIOUS
  <1>2. PICK C2 : C2 = IF g[2] = {} THEN B2 ELSE A2
    OBVIOUS
  <1>3. PICK all : all = Actions(g)
    OBVIOUS
  <1>4. all = A1 \cup C2 \cup A3 \cup A4 \cup A5 \cup A6 \cup A7 \cup A8 \cup A9
    BY <1>1, <1>2, <1>3, <1>23, <1>24, <1>25 DEF Actions
  <1>5. /\ OneAction(A1, "investigate_failed_payment", 1) /\ IsFiniteSet(A1)
        /\ Does(A1, "investigate_failed_payment") <=> g[1] # {}
    BY <1>1, OneActionWhen
  <1>6. /\ OneAction(A2, "process_bank_statement", 2) /\ IsFiniteSet(A2)
        /\ Does(A2, "process_bank_statement") <=> g[2] # {}
    BY <1>1, OneActionWhen
  <1>7. OneAction(A3, "resolve_unmatched_settlement", 2) /\ IsFiniteSet(A3)
    BY <1>24, OneActionWhen
  <1>8. OneAction(A5, "open_dispute", 2) /\ IsFiniteSet(A5)
    BY <1>24, OneActionWhen
  <1>9. OneAction(A6, "check_provider_sync_failure", 2) /\ IsFiniteSet(A6)
    BY <1>24, OneActionWhen
  <1>10. OneAction(A7, "verify_bank_account", 3) /\ IsFiniteSet(A7)
    BY <1>25, OneActionWhen
  <1>11. OneAction(A8, "reconnect_data_source", 2) /\ IsFiniteSet(A8)
    BY <1>25, OneActionWhen
  <1>12. /\ OneAction(A9, "follow_up_pending_payment", 2) /\ IsFiniteSet(A9)
         /\ Does(A9, "follow_up_pending_payment") <=> g[9] # {}
    BY <1>25, OneActionWhen
  <1>13. OneAction(B2, "upload_bank_statement", 5) /\ IsFiniteSet(B2) /\ Does(B2, "upload_bank_statement")
    <2>1. PICK a : a = Action("upload_bank_statement", 5, 0)
      OBVIOUS
    <2>2. a.type = "upload_bank_statement" /\ a.priority = 5 /\ a.about = None
      BY <2>1 DEF Action
    <2>3. IsFiniteSet({a})
      BY FS_Singleton
    <2>4. QED BY <1>1, <2>1, <2>2, <2>3 DEF OneAction, Does
  <1>14. (\A a \in A4 : \E i \in g[4] : a = ActionOn(i)) /\ IsFiniteSet(A4)
    <2>1. ASSUME NEW i \in g[4]
          PROVE  [Action("acknowledge_incident", IF Urgent(i) THEN 1 ELSE 3, 1) EXCEPT !.about = i.id] = ActionOn(i)
      <3>1. PICK p : p = IF Urgent(i) THEN 1 ELSE 3
        OBVIOUS
      <3>2. [Action("acknowledge_incident", p, 1) EXCEPT !.about = i.id]
              = [type |-> "acknowledge_incident", priority |-> p, count |-> 1, about |-> i.id]
        BY DEF Action
      <3>3. QED BY <3>1, <3>2 DEF ActionOn
    <2>2. A4 = {ActionOn(i) : i \in g[4]}
      BY <1>23, <2>1
    <2>3. PICK S, f : S = g[4] /\ f = [i \in S |-> ActionOn(i)]
      OBVIOUS
    <2>4. A4 = {f[i] : i \in S} /\ IsFiniteSet(S) /\ DOMAIN f = S
      BY <2>2, <2>3
    <2>5. IsFiniteSet(A4)
      BY <2>4, FiniteImage
    <2>6. QED BY <2>2, <2>5
  <1>15. \A a \in A4 : a.type = "acknowledge_incident" /\ a.priority \in {1, 3}
    BY <1>14 DEF ActionOn
  <1>16. IsFiniteSet(all)
    <2>1. IsFiniteSet(C2)
      BY <1>2, <1>6, <1>13
    <2>2. QED BY <1>4, <1>5, <1>7, <1>8, <1>9, <1>10, <1>11, <1>12, <1>14, <2>1, FS_Union
  <1>17. \A a \in all : /\ a.priority \in {1, 2, 3, 5}
                        /\ a.about = None \/ \E i \in g[4] : a = ActionOn(i)
                        /\ a.type = "investigate_failed_payment" => a.priority = 1
    BY ONLY <1>2, <1>4, <1>5, <1>6, <1>7, <1>8, <1>9, <1>10, <1>11, <1>12, <1>13, <1>14, <1>15 DEF OneAction
  <1>18. Does(all, "investigate_failed_payment") <=> g[1] # {}
    <2>1. Does(all, "investigate_failed_payment") <=> Does(A1, "investigate_failed_payment")
      BY ONLY <1>2, <1>4, <1>5, <1>6, <1>7, <1>8, <1>9, <1>10, <1>11, <1>12, <1>13, <1>15 DEF OneAction, Does
    <2>2. QED BY <1>5, <2>1
  <1>19. Does(all, "follow_up_pending_payment") <=> g[9] # {}
    <2>1. Does(all, "follow_up_pending_payment") <=> Does(A9, "follow_up_pending_payment")
      BY ONLY <1>2, <1>4, <1>5, <1>6, <1>7, <1>8, <1>9, <1>10, <1>11, <1>12, <1>13, <1>15 DEF OneAction, Does
    <2>2. QED BY <1>12, <2>1
  <1>20. Does(all, "upload_bank_statement") <=> g[2] = {}
    <2>1. Does(all, "upload_bank_statement") <=> Does(C2, "upload_bank_statement")
      BY ONLY <1>2, <1>4, <1>5, <1>6, <1>7, <1>8, <1>9, <1>10, <1>11, <1>12, <1>13, <1>15 DEF OneAction, Does
    <2>2. Does(C2, "upload_bank_statement") <=> g[2] = {}
      BY ONLY <1>2, <1>6, <1>13 DEF OneAction, Does
    <2>3. QED BY <2>1, <2>2
  <1>21. Does(all, "process_bank_statement") <=> g[2] # {}
    <2>1. Does(all, "process_bank_statement") <=> Does(C2, "process_bank_statement")
      BY ONLY <1>2, <1>4, <1>5, <1>6, <1>7, <1>8, <1>9, <1>10, <1>11, <1>12, <1>13, <1>15 DEF OneAction, Does
    <2>2. Does(C2, "process_bank_statement") <=> g[2] # {}
      BY ONLY <1>2, <1>6, <1>13 DEF OneAction, Does
    <2>3. QED BY <2>1, <2>2
  <1>22. QED BY <1>3, <1>16, <1>17, <1>18, <1>19, <1>20, <1>21 DEF ActionsFit

LEMMA ListIsSorted ==
  ASSUME NEW g, ActionsFit(Actions(g), g)
  PROVE  ListFits(ActionList(g), Actions(g))
  <1>1. PICK S : S = Actions(g)
    OBVIOUS
  <1>2. IsFiniteSet(S) /\ \A a \in S : a.priority \in Int
    BY <1>1 DEF ActionsFit
  <1>3. PICK before, key : before = {c \in S \X S : c[1].priority < c[2].priority} /\ key = [a \in S |-> a.priority]
    OBVIOUS
  <1>4. ActionList(g) = SortedBy(S, before)
    BY <1>1, <1>3 DEF ActionList, Sorted
  <1>5. OrderedBy(before, key, S)
    <2>1. key \in [S -> Int] /\ \A x, y \in S : <<x, y>> \in before <=> key[x] < key[y]
      BY <1>2, <1>3
    <2>2. QED BY <2>1 DEF OrderedBy
  <1>6. PICK q, n : q = SortedBy(S, before) /\ n = Len(q)
    OBVIOUS
  <1>7. InOrderOf(q, S, key)
    BY <1>2, <1>5, <1>6, SortedInOrder
  <1>8. /\ q \in Seq(S) /\ n = Cardinality(S) /\ n \in Nat /\ DOMAIN q = 1..n
        /\ \A x \in S : \E i \in 1..n : q[i] = x
        /\ \A i, j \in 1..n : i < j => key[q[i]] <= key[q[j]]
    BY <1>6, <1>7 DEF InOrderOf
  <1>9. \A i \in 1..n : q[i] \in S /\ key[q[i]] = q[i].priority
    BY <1>3, <1>8
  <1>10. ToSet(q) = S
    <2>1. ToSet(q) = {q[i] : i \in 1..n}
      BY <1>8 DEF ToSet
    <2>2. QED BY <1>8, <1>9, <2>1
  <1>11. ListFits(q, S)
    BY <1>6, <1>8, <1>9, <1>10 DEF ListFits
  <1>12. QED BY <1>1, <1>4, <1>6, <1>11

\* The statements of the action centre.
OldPending(m, s) == {t \in In(Own(m, s.transactions), {"pending"}) : t.at < Now - 2 * Hour}
WorkQueries(q, m, s) ==
  /\ Len(q) = 9
  /\ q[1] = Every(In(Own(m, s.transactions), {"failed"}))
  /\ q[4].rows = In(Own(m, s.incidents), {"open"})
  /\ q[9] = Every(OldPending(m, s))

LEMMA WorkStatements ==
  ASSUME NEW o, o.name \in ActionNames, NEW h, NEW s
  PROVE  WorkQueries(Queries(o.name, o, h, s), Effective(o), s)
  <1>0. PICK m : m = Effective(o)
    OBVIOUS
  <1>1. PICK q1, q2, q3 :
          /\ q1 = Every(In(Own(m, s.transactions), {"failed"})) /\ q2 = Every(In(Own(m, s.imports), {"uploaded"}))
          /\ q3 = Every(In(s.results, {"unmatched", "weak"}))
    OBVIOUS
  <1>2. PICK q4 : q4 = Largest(In(Own(m, s.incidents), {"open"}), LAMBDA i : SeverityOrder[i.severity], 3)
    OBVIOUS
  <1>3. PICK q5, q6, q7 :
          /\ q5 = Every({x \in In(s.results, {"unmatched"}) : x.at < Now - 3 * Day})
          /\ q6 = Every(In(Own(m, s.jobs), {"failed"}))
          /\ q7 = Every({b \in Own(m, s.bank_accounts) : b.status # "verified"})
    OBVIOUS
  <1>4. PICK q8, q9 :
          /\ q8 = Every(In(Own(m, s.sources), {"error"}))
          /\ q9 = Every({t \in In(Own(m, s.transactions), {"pending"}) : t.at < Now - 2 * Hour})
    OBVIOUS
  <1>10. PICK q : q = Queries(o.name, o, h, s)
    OBVIOUS
  <1>5. q = ActionReads(m, s)
    BY <1>0, <1>10
       DEF Queries, ActionNames, MarNames, HealthNames, DashboardNames, GraphNames, TimelineOperations, AssistantNames
  <1>6. q = <<q1, q2, q3, q4, q5, q6, q7, q8, q9>>
    BY <1>1, <1>2, <1>3, <1>4, <1>5 DEF ActionReads
  <1>7. Len(q) = 9 /\ q[1] = q1 /\ q[4] = q4 /\ q[9] = q9
    BY ONLY <1>6
  <1>8. q4.rows = In(Own(m, s.incidents), {"open"})
    BY <1>2 DEF Largest
  <1>9. q9 = Every(OldPending(m, s))
    BY <1>4 DEF OldPending
  <1>11. QED BY <1>0, <1>1, <1>7, <1>8, <1>9, <1>10 DEF WorkQueries

\* What the action centre has read of the transactions and the incidents.
WorkRead(r, m, g) ==
  /\ \E s : Lately(s, r) /\ g[1] = In(Own(m, s.transactions), {"failed"})
  /\ \E s : Lately(s, r) /\ g[4] \subseteq In(Own(m, s.incidents), {"open"})
  /\ \E s : Lately(s, r) /\ g[9] = OldPending(m, s)

LEMMA WorkIsRead ==
  ASSUME NEW r, NEW o, NEW g, Seen(r, o, g), o.name \in ActionNames, NEW m, m = Effective(o)
  PROVE  WorkRead(r, m, g)
  <1>1. Len(g) = 9
    <2>1. PICK s : Lately(s, r) /\ Len(g) = Len(Queries(o.name, o, g, s))
      BY DEF Seen
    <2>2. Len(Queries(o.name, o, g, s)) = 9
      BY WorkStatements DEF WorkQueries
    <2>3. QED BY ONLY <2>1, <2>2
  <1>2. \A j \in 1..9 : \E s, h : Lately(s, r) /\ g[j] \in Results(Queries(o.name, o, h, s)[j])
    BY <1>1 DEF Seen
  <1>3. ASSUME NEW s, Lately(s, r), NEW rows, rows \subseteq s.transactions
        PROVE  IsFiniteSet(rows)
    BY <1>3, FS_Subset DEF Lately, Typed
  <1>4. 1 \in 1..9 /\ 4 \in 1..9 /\ 9 \in 1..9
    OBVIOUS
  <1>5. \E s : Lately(s, r) /\ g[1] = In(Own(m, s.transactions), {"failed"})
    <2>1. PICK s, h : Lately(s, r) /\ g[1] \in Results(Queries(o.name, o, h, s)[1])
      BY <1>2, <1>4
    <2>2. PICK rows : rows = In(Own(m, s.transactions), {"failed"})
      OBVIOUS
    <2>3. Queries(o.name, o, h, s)[1] = Every(rows)
      BY <2>2, WorkStatements DEF WorkQueries
    <2>4. IsFiniteSet(rows)
      BY <1>3, <2>1, <2>2 DEF In, Own
    <2>5. QED BY <2>1, <2>2, <2>3, <2>4, EveryRow
  <1>6. \E s : Lately(s, r) /\ g[4] \subseteq In(Own(m, s.incidents), {"open"})
    <2>1. PICK s, h : Lately(s, r) /\ g[4] \in Results(Queries(o.name, o, h, s)[4])
      BY <1>2, <1>4
    <2>2. PICK q : q = Queries(o.name, o, h, s)[4]
      OBVIOUS
    <2>3. q.rows = In(Own(m, s.incidents), {"open"})
      BY <2>2, WorkStatements DEF WorkQueries
    <2>4. QED BY <2>1, <2>2, <2>3, ResultsAreRows
  <1>7. \E s : Lately(s, r) /\ g[9] = OldPending(m, s)
    <2>1. PICK s, h : Lately(s, r) /\ g[9] \in Results(Queries(o.name, o, h, s)[9])
      BY <1>2, <1>4
    <2>2. PICK rows : rows = OldPending(m, s)
      OBVIOUS
    <2>3. Queries(o.name, o, h, s)[9] = Every(rows)
      BY <2>2, WorkStatements DEF WorkQueries
    <2>4. IsFiniteSet(rows)
      BY <1>3, <2>1, <2>2 DEF OldPending, In, Own
    <2>5. QED BY <2>1, <2>2, <2>3, <2>4, EveryRow
  <1>8. QED BY <1>5, <1>6, <1>7 DEF WorkRead

\* An incident that nobody has changed, and on which there is an action.
LEMMA ActionIsOnIncident ==
  ASSUME NEW r, NEW m, NEW g, WorkRead(r, m, g), ActionsFit(Actions(g), g), Typed(store),
         NEW i \in Own(m, store.incidents), i.id \notin touched[r], NEW a \in Actions(g), a.about = i.id
  PROVE  i.status = "open" /\ (a.priority = 1 <=> i.severity \in {"high", "critical"})
  <1>1. PICK s : Lately(s, r) /\ g[4] \subseteq In(Own(m, s.incidents), {"open"})
    BY DEF WorkRead
  <1>2. PICK incidents : incidents = "incidents" /\ incidents \in OwnedTables \cup HangingTables /\ incidents # "transactions"
    BY DEF OwnedTables
  <1>3. i \in store[incidents] /\ i.id # None
    BY <1>2 DEF Own, Typed, Valued
  <1>4. i \in s[incidents]
    BY <1>1, <1>2, <1>3, TableStays
  <1>5. PICK k \in g[4] : a = ActionOn(k)
    BY <1>3 DEF ActionsFit
  <1>6. k \in s[incidents] /\ k.status = "open"
    BY <1>1, <1>2, <1>5 DEF In, Own
  <1>7. k.id = i.id
    BY <1>5 DEF ActionOn
  <1>8. k = i
    <2>1. Database(s) /\ incidents \in DOMAIN s
      BY <1>1, <1>2 DEF Lately, Typed
    <2>2. QED BY <1>4, <1>6, <1>7, <2>1 DEF Database
  <1>9. a.priority = IF Urgent(i) THEN 1 ELSE 3
    BY <1>5, <1>8 DEF ActionOn
  <1>10. QED BY <1>6, <1>8, <1>9 DEF Urgent

\* A list follows from what there is to do.
LEMMA WorkFollows ==
  ASSUME NEW r, NEW m, NEW g, WorkRead(r, m, g), Typed(store)
  PROVE  ListFollows(r, m, g)
  <1>1. IsFiniteSet(g[4])
    <2>1. PICK s : Lately(s, r) /\ g[4] \subseteq In(Own(m, s.incidents), {"open"})
      BY DEF WorkRead
    <2>2. PICK incidents : incidents = "incidents" /\ incidents \in OwnedTables \cup HangingTables /\ incidents # "transactions"
      BY DEF OwnedTables
    <2>3. IsFiniteSet(s[incidents]) /\ g[4] \subseteq s[incidents]
      BY <2>1, <2>2, TableStays DEF In, Own
    <2>4. QED BY <2>3, FS_Subset
  <1>2. PICK actions, list, stats : actions = Actions(g) /\ list = ActionList(g) /\ stats = ActionStats(g)
    OBVIOUS
  <1>3. ActionsFit(actions, g)
    BY <1>1, <1>2, ActionsAre
  <1>4. ListFits(list, actions)
    BY <1>2, <1>3, ListIsSorted
  <1>5. IsFiniteSet(actions) /\ \A a \in actions : a.priority \in {1, 2, 3, 5}
    BY <1>3 DEF ActionsFit
  <1>6. ToSet(list) = actions /\ \A i, j \in 1..Len(list) : i < j => list[i].priority <= list[j].priority
    BY <1>4 DEF ListFits
  <1>7. actions # {} /\ (Does(actions, "upload_bank_statement") <=> ~Does(actions, "process_bank_statement"))
    BY <1>3 DEF ActionsFit, Does
  <1>8. list[1].priority = 1 <=> \E a \in actions : a.priority = 1
    BY <1>4, <1>5, <1>7, FirstIsUrgent
  <1>9. ASSUME NEW t \in store.transactions, t.merchant = m, t.status = "failed", t.id \notin touched[r]
        PROVE  Does(actions, "investigate_failed_payment") /\ list[1].priority = 1
    <2>1. PICK s : Lately(s, r) /\ g[1] = In(Own(m, s.transactions), {"failed"})
      BY DEF WorkRead
    <2>2. t \in s.transactions
      BY <1>9, <2>1, UntouchedWasThere
    <2>3. t \in g[1]
      BY <1>9, <2>1, <2>2 DEF In, Own
    <2>4. Does(actions, "investigate_failed_payment")
      BY <1>3, <2>3 DEF ActionsFit
    <2>5. \E a \in actions : a.priority = 1
      BY <1>3, <2>4 DEF ActionsFit, Does
    <2>6. QED BY <1>8, <2>4, <2>5
  <1>10. ASSUME NEW t \in store.transactions, t.merchant = m, t.status = "pending", t.id \notin touched[r], Now - t.at > 2 * Hour
         PROVE  Does(actions, "follow_up_pending_payment")
    <2>1. PICK s : Lately(s, r) /\ g[9] = OldPending(m, s)
      BY DEF WorkRead
    <2>2. t \in s.transactions
      BY <1>10, <2>1, UntouchedWasThere
    <2>3. t.at < Now - 2 * Hour
      <3>1. PICK n : n = t.at
        OBVIOUS
      <3>2. n \in Int /\ Now \in Nat /\ Now - n > 2 * 2 /\ Hour = 2
        BY <1>10, <3>1, ReportsAssumption DEF Typed, Valued, Priced, Hour
      <3>3. n < Now - 2 * 2
        BY ONLY <3>2
      <3>4. QED BY <3>1, <3>2, <3>3
    <2>4. t \in g[9]
      BY <1>10, <2>1, <2>2, <2>3 DEF OldPending, In, Own
    <2>5. QED BY <1>3, <2>4 DEF ActionsFit
  <1>11. ASSUME NEW i \in Own(m, store.incidents), i.id \notin touched[r], NEW a \in actions, a.about = i.id
         PROVE  i.status = "open" /\ (a.priority = 1 <=> i.severity \in {"high", "critical"})
    BY <1>2, <1>3, <1>11, ActionIsOnIncident
  <1>12. stats.critical + stats.high_priority <= stats.total /\ (stats.critical > 0 <=> list[1].priority = 1)
    <2>1. PICK C, H : C = {a \in actions : a.priority = 1} /\ H = {a \in actions : a.priority = 2}
      OBVIOUS
    <2>2. stats.critical = Cardinality(C) /\ stats.high_priority = Cardinality(H) /\ stats.total = Len(list)
      BY <1>2, <2>1 DEF ActionStats
    <2>3. Cardinality(C) + Cardinality(H) <= Cardinality(actions) /\ (Cardinality(C) > 0 <=> C # {})
      BY <1>5, <2>1, StatsFit
    <2>4. Len(list) = Cardinality(actions)
      BY <1>4 DEF ListFits
    <2>5. C # {} <=> list[1].priority = 1
      BY <1>8, <2>1
    <2>6. QED BY ONLY <2>2, <2>3, <2>4, <2>5
  <1>13. PICK failed, old, incidents :
           /\ failed = {x \in In(Own(m, store.transactions), {"failed"}) : x.id \notin touched[r]}
           /\ old = {x \in {t \in In(Own(m, store.transactions), {"pending"}) : Now - t.at > 2 * Hour} : x.id \notin touched[r]}
           /\ incidents = {x \in Own(m, store.incidents) : x.id \notin touched[r]}
    OBVIOUS
  <1>15. failed # {} => Does(actions, "investigate_failed_payment") /\ list[1].priority = 1
    BY <1>9, <1>13 DEF In, Own
  <1>16. old # {} => Does(actions, "follow_up_pending_payment")
    BY <1>10, <1>13 DEF In, Own
  <1>17. \A i \in incidents : \A a \in actions :
           a.about = i.id => i.status = "open" /\ (a.priority = 1 <=> i.severity \in {"high", "critical"})
    BY <1>11, <1>13
  <1>18. QED BY <1>2, <1>6, <1>7, <1>12, <1>13, <1>15, <1>16, <1>17 DEF ListFollows, Still, Does

LEMMA ListsFollow ==
  ASSUME HistoryInv
  PROVE  ListsFollowTheirCause
  <1>1. ASSUME NEW r \in Requests, Reported(r, {"actions", "action_stats"})
        PROVE  ListFollows(r, Effective(op[r]), got[r][1])
    <2>1. HistoryOK(r) /\ ReportOK(r) /\ Typed(store)
      BY DEF HistoryInv, ReportingInv
    <2>2. PICK o, g, m : o = op[r] /\ g = got[r][1] /\ m = Effective(op[r])
      OBVIOUS
    <2>3. pc[r] \in {"respond", "save", "done"} /\ got[r] # <<>> /\ o.name \in {"actions", "action_stats"}
      BY <1>1, <2>2 DEF Reported
    <2>4. Seen(r, o, g)
      <3>1. o.name \notin DashboardNames
        BY <2>3 DEF DashboardNames
      <3>2. QED BY <2>1, <2>2, <2>3, <3>1, OnePart
    <2>5. WorkRead(r, m, g)
      BY <2>2, <2>3, <2>4, WorkIsRead DEF ActionNames
    <2>6. QED BY <2>1, <2>2, <2>5, WorkFollows
  <1>2. QED BY <1>1 DEF ListsFollowTheirCause

(***************************************************************************)
(* The assistant: what its replies rest on.                                *)
(***************************************************************************)

\* A statement takes some of its rows, and all of them where they are within its limit.
LEMMA TakenRows ==
  ASSUME NEW q, NEW taken \in Results(q)
  PROVE  taken \subseteq q.rows /\ (Cardinality(q.rows) <= q.limit => taken = q.rows)
  BY DEF Results, kSubset

\* What r has read, each of what there was lately.
Failed(m, s) == In(Own(m, s.transactions), {"failed"})
Pending(m, s) == In(Own(m, s.transactions), {"pending"})
OpenOf(m, s) == In(Own(m, s.incidents), Unresolved)

ReadFailed(r, m, x) == \E s : Lately(s, r) /\ x = Failed(m, s)
ReadPending(r, m, x) == \E s : Lately(s, r) /\ x = Pending(m, s)
ReadSomeFailed(r, m, x) == IsFiniteSet(x) /\ \E s : Lately(s, r) /\ x \subseteq Failed(m, s)
ReadOpen(r, m, x, n) ==
  IsFiniteSet(x) /\ \E s : Lately(s, r) /\ x \subseteq OpenOf(m, s) /\ (Cardinality(OpenOf(m, s)) <= n => x = OpenOf(m, s))
ReadJobs(r, m, x) == IsFiniteSet(x) /\ \E s : Lately(s, r) /\ x \subseteq Own(m, s.jobs)
ReadSources(r, m, x) == \E s : Lately(s, r) /\ x = Own(m, s.sources)
ReadMismatches(r, m, x) ==
  IsFiniteSet(x) /\ \E s : /\ Lately(s, r) /\ x \subseteq In(s.results, {"unmatched", "weak", "ambiguous"})
                           /\ \A y \in x : \E run \in Own(m, s.runs) : run.id = y.run
ReadEntries(r, m, x) == \E s : Lately(s, r) /\ x \subseteq Own(m, s.entries)

\* The tables that the assistant reads have an end.
LEMMA TablesEnd ==
  ASSUME NEW r, NEW s, Lately(s, r)
  PROVE  /\ IsFiniteSet(s.transactions) /\ IsFiniteSet(s.incidents) /\ IsFiniteSet(s.jobs) /\ IsFiniteSet(s.sources)
         /\ IsFiniteSet(s.results)
  <1>1. {"transactions", "incidents", "jobs", "sources", "results"} \subseteq OwnedTables \cup HangingTables
    BY DEF OwnedTables, HangingTables
  <1>2. \A table \in OwnedTables \cup HangingTables : IsFiniteSet(s[table])
    BY DEF Lately, Typed, Valued
  <1>3. QED BY <1>1, <1>2

LEMMA TransactionsRead ==
  ASSUME NEW r, NEW s, Lately(s, r), NEW m, NEW q, NEW x \in Results(q)
  PROVE  /\ q = Every(Failed(m, s)) => ReadFailed(r, m, x)
         /\ q = Every(Pending(m, s)) => ReadPending(r, m, x)
         /\ q = FailedTransactions(m, s) => ReadSomeFailed(r, m, x)
         /\ q = ProviderFailures(m, s) => IsFiniteSet(x)
  <1>1. Failed(m, s) \subseteq s.transactions /\ Pending(m, s) \subseteq s.transactions
    BY DEF Failed, Pending, In, Own
  <1>2. IsFiniteSet(Failed(m, s)) /\ IsFiniteSet(Pending(m, s))
    BY <1>1, TablesEnd, FS_Subset
  <1>3. q = Every(Failed(m, s)) => ReadFailed(r, m, x)
    BY <1>2, EveryRow DEF ReadFailed
  <1>4. q = Every(Pending(m, s)) => ReadPending(r, m, x)
    BY <1>2, EveryRow DEF ReadPending
  <1>5. ASSUME q = FailedTransactions(m, s) PROVE ReadSomeFailed(r, m, x)
    <2>1. q.rows = Failed(m, s)
      BY <1>5 DEF FailedTransactions, Latest, Largest, Failed
    <2>2. x \subseteq Failed(m, s)
      BY <2>1, TakenRows
    <2>3. QED BY <1>2, <2>2, FS_Subset DEF ReadSomeFailed
  <1>6. ASSUME q = ProviderFailures(m, s) PROVE IsFiniteSet(x)
    <2>1. PICK f : f = [t \in Failed(m, s) |->
                          [provider |-> t.provider, failures |-> Cardinality({u \in Failed(m, s) : u.provider = t.provider})]]
      OBVIOUS
    <2>2. q.rows = {f[t] : t \in Failed(m, s)}
      <3>1. q.rows = {[provider |-> t.provider, failures |-> Cardinality({u \in Failed(m, s) : u.provider = t.provider})] :
                        t \in Failed(m, s)}
        BY <1>6 DEF ProviderFailures, Largest, Failed
      <3>2. QED BY <2>1, <3>1
    <2>3. IsFiniteSet({f[t] : t \in Failed(m, s)})
      <3>1. DOMAIN f = Failed(m, s)
        BY <2>1
      <3>2. QED BY ONLY <1>2, <3>1, FiniteImage
    <2>4. QED BY <2>2, <2>3, TakenRows, FS_Subset
  <1>7. QED BY <1>3, <1>4, <1>5, <1>6

LEMMA OthersRead ==
  ASSUME NEW r, NEW s, Lately(s, r), NEW m, NEW q, NEW x \in Results(q), NEW n
  PROVE  /\ q = OpenIncidents(m, s, n) => ReadOpen(r, m, x, n)
         /\ q = RecentJobs(m, s, n) => ReadJobs(r, m, x)
         /\ q = Every(Own(m, s.sources)) => ReadSources(r, m, x)
         /\ q = Mismatches(m, s) => ReadMismatches(r, m, x)
         /\ q = Latest(Own(m, s.entries), 5) => ReadEntries(r, m, x)
  <1>1. IsFiniteSet(OpenOf(m, s)) /\ IsFiniteSet(Own(m, s.jobs)) /\ IsFiniteSet(Own(m, s.sources))
    <2>1. OpenOf(m, s) \subseteq s.incidents /\ Own(m, s.jobs) \subseteq s.jobs /\ Own(m, s.sources) \subseteq s.sources
      BY DEF OpenOf, In, Own
    <2>2. QED BY <2>1, TablesEnd, FS_Subset
  <1>2. x \subseteq q.rows /\ (Cardinality(q.rows) <= q.limit => x = q.rows)
    BY TakenRows
  <1>3. ASSUME q = OpenIncidents(m, s, n) PROVE ReadOpen(r, m, x, n)
    <2>1. q.rows = OpenOf(m, s) /\ q.limit = n
      BY <1>3 DEF OpenIncidents, Latest, Largest, OpenOf
    <2>2. x \subseteq OpenOf(m, s) /\ IsFiniteSet(x)
      BY <1>1, <1>2, <2>1, FS_Subset
    <2>3. QED BY <1>2, <2>1, <2>2 DEF ReadOpen
  <1>4. ASSUME q = RecentJobs(m, s, n) PROVE ReadJobs(r, m, x)
    <2>1. q.rows = Own(m, s.jobs)
      BY <1>4 DEF RecentJobs, Latest, Largest
    <2>2. QED BY <1>1, <1>2, <2>1, FS_Subset DEF ReadJobs
  <1>5. q = Every(Own(m, s.sources)) => ReadSources(r, m, x)
    BY <1>1, EveryRow DEF ReadSources
  <1>6. ASSUME q = Mismatches(m, s) PROVE ReadMismatches(r, m, x)
    <2>1. PICK rows : rows = {y \in In(s.results, {"unmatched", "weak", "ambiguous"}) : \E run \in Own(m, s.runs) : run.id = y.run}
      OBVIOUS
    <2>2. q.rows = rows
      BY <1>6, <2>1 DEF Mismatches, Some, Every
    <2>3. rows \subseteq s.results
      BY <2>1 DEF In
    <2>4. IsFiniteSet(x)
      BY <1>2, <2>2, <2>3, TablesEnd, FS_Subset
    <2>5. QED BY <1>2, <2>1, <2>2, <2>4 DEF ReadMismatches
  <1>7. ASSUME q = Latest(Own(m, s.entries), 5) PROVE ReadEntries(r, m, x)
    <2>1. q.rows = Own(m, s.entries)
      BY <1>7 DEF Latest, Largest
    <2>2. QED BY <1>2, <2>1 DEF ReadEntries
  <1>8. QED BY <1>3, <1>4, <1>5, <1>6, <1>7

\* The categories that read the totals first, and how many statements each has.
Totals(category) ==
  category \notin {"provider_problems", "settlement_mismatch", "incident_analysis", "trend_analysis", "data_health"}
HowMany(category) ==
  IF category \in {"money_at_risk", "what_to_do"} THEN 6
  ELSE IF category = "settlement_mismatch" THEN 2
  ELSE IF Totals(category) \/ category = "trend_analysis" THEN 4 ELSE 3

\* The statements of a question, those that its reply rests on.
ReplyAsks(category, m, s, q) ==
  /\ Len(q) = HowMany(category) /\ <<>> \o q = q
  /\ Totals(category) => q[1] = Every(Failed(m, s)) /\ q[2] = Every(Pending(m, s)) /\ q[4] = OpenIncidents(m, s, 10)
  /\ category = "money_at_risk" => q[5] = FailedTransactions(m, s)
  /\ category = "what_to_do" => q[6] = Every(Own(m, s.sources))
  /\ category = "provider_problems" =>
       q[1] = ProviderFailures(m, s) /\ q[2] = RecentJobs(m, s, 5) /\ q[3] = OpenIncidents(m, s, 10)
  /\ category = "settlement_mismatch" => q[1] = Mismatches(m, s) /\ q[2] = Latest(Own(m, s.entries), 5)
  /\ category = "incident_analysis" => q[1] = OpenIncidents(m, s, 50) /\ q[3] = RecentJobs(m, s, 10)
  /\ category = "data_health" => q[1] = Every(Own(m, s.sources)) /\ q[2] = RecentJobs(m, s, 10)

LEMMA ReplyStatements ==
  ASSUME NEW category, NEW m, NEW s
  PROVE  ReplyAsks(category, m, s, CategoryReads(category, m, s))
  <1>1. PICK q, t1, t2, t3 : /\ q = CategoryReads(category, m, s) /\ t1 = Every(Failed(m, s)) /\ t2 = Every(Pending(m, s))
                             /\ t3 = Every(In(Own(m, s.alerts), {"open"}))
    OBVIOUS
  <1>2. PICK oi, oj, pf, so : /\ oi = OpenIncidents(m, s, 10) /\ oj = OpenIncidents(m, s, 50)
                              /\ pf = ProviderFailures(m, s) /\ so = Every(Own(m, s.sources))
    OBVIOUS
  <1>3. TotalReads(m, s) = <<t1, t2, t3>>
    BY <1>1 DEF TotalReads, Failed, Pending
  <1>4. CASE category = "money_at_risk"
    <2>1. PICK ft : ft = FailedTransactions(m, s)
      OBVIOUS
    <2>2. q = <<t1, t2, t3>> \o <<oi, ft, pf>>
      BY <1>1, <1>2, <1>3, <1>4, <2>1 DEF CategoryReads
    <2>3. QED BY <1>1, <1>2, <1>4, <2>1, <2>2, TuplesAre DEF ReplyAsks, HowMany, Totals
  <1>5. CASE category = "what_to_do"
    <2>1. q = <<t1, t2, t3>> \o <<oi, pf, so>>
      BY <1>1, <1>2, <1>3, <1>5 DEF CategoryReads
    <2>2. QED BY <1>1, <1>2, <1>5, <2>1, TuplesAre DEF ReplyAsks, HowMany, Totals
  <1>6. CASE category = "provider_problems"
    <2>1. PICK rj : rj = RecentJobs(m, s, 5)
      OBVIOUS
    <2>2. q = <<pf, rj, oi>>
      BY <1>1, <1>2, <1>6, <2>1 DEF CategoryReads
    <2>3. QED BY <1>1, <1>2, <1>6, <2>1, <2>2, TuplesAre DEF ReplyAsks, HowMany, Totals
  <1>7. CASE category = "settlement_mismatch"
    <2>1. PICK mm, en : mm = Mismatches(m, s) /\ en = Latest(Own(m, s.entries), 5)
      OBVIOUS
    <2>2. q = <<mm, en>>
      BY <1>1, <1>7, <2>1 DEF CategoryReads
    <2>3. QED BY <1>1, <1>7, <2>1, <2>2, TuplesAre DEF ReplyAsks, HowMany, Totals
  <1>8. CASE category = "incident_analysis"
    <2>1. PICK rj : rj = RecentJobs(m, s, 10)
      OBVIOUS
    <2>2. q = <<oj, pf, rj>>
      BY <1>1, <1>2, <1>8, <2>1 DEF CategoryReads
    <2>3. QED BY <1>1, <1>2, <1>8, <2>1, <2>2, TuplesAre DEF ReplyAsks, HowMany, Totals
  <1>9. CASE category = "data_health"
    <2>1. PICK rj, ac : rj = RecentJobs(m, s, 10) /\ ac = Every(Own(m, s.accounts))
      OBVIOUS
    <2>2. q = <<so, rj, ac>>
      BY <1>1, <1>2, <1>9, <2>1 DEF CategoryReads
    <2>3. QED BY <1>1, <1>2, <1>9, <2>1, <2>2, TuplesAre DEF ReplyAsks, HowMany, Totals
  <1>10. CASE category = "trend_analysis"
    <2>1. PICK recent : recent = {t \in Own(m, s.transactions) : t.at >= Now - Month}
      OBVIOUS
    <2>2. PICK a, b, c : /\ a = Every(recent) /\ b = Every(In(recent, {"failed"}))
                         /\ c = Every({x \in Own(m, s.settlements) : x.settled >= Now - Month})
      OBVIOUS
    <2>3. q = <<a, a, b, c>>
      BY <1>1, <1>10, <2>1, <2>2 DEF CategoryReads
    <2>4. QED BY <1>1, <1>10, <2>3, TuplesAre DEF ReplyAsks, HowMany, Totals
  <1>11. CASE category \notin {"money_at_risk", "what_to_do", "trend_analysis"} /\ Totals(category)
    <2>1. q = <<t1, t2, t3>> \o <<oi>>
      BY <1>1, <1>2, <1>3, <1>11 DEF CategoryReads, Totals
    <2>2. QED BY <1>1, <1>2, <1>11, <2>1, TuplesAre DEF ReplyAsks, HowMany, Totals
  <1>12. QED BY <1>4, <1>5, <1>6, <1>7, <1>8, <1>9, <1>10, <1>11 DEF Totals

\* What a question has read that its reply rests on, each of what there was lately.
ReplyRead(r, m, category, g) ==
  /\ Totals(category) => ReadFailed(r, m, g[1]) /\ ReadPending(r, m, g[2]) /\ ReadOpen(r, m, g[4], 10)
  /\ category = "money_at_risk" => ReadSomeFailed(r, m, g[5])
  /\ category = "what_to_do" => ReadSources(r, m, g[6])
  /\ category = "provider_problems" => IsFiniteSet(g[1]) /\ ReadJobs(r, m, g[2]) /\ ReadOpen(r, m, g[3], 10)
  /\ category = "settlement_mismatch" => ReadMismatches(r, m, g[1]) /\ ReadEntries(r, m, g[2])
  /\ category = "incident_analysis" => ReadOpen(r, m, g[1], 50) /\ ReadJobs(r, m, g[3])
  /\ category = "data_health" => ReadSources(r, m, g[1]) /\ ReadJobs(r, m, g[2])

\* What the j-th statement of a question gives.
Gives(r, m, category, j, x) ==
  /\ Totals(category) => /\ j = 1 => ReadFailed(r, m, x)
                         /\ j = 2 => ReadPending(r, m, x)
                         /\ j = 4 => ReadOpen(r, m, x, 10)
  /\ category = "money_at_risk" /\ j = 5 => ReadSomeFailed(r, m, x)
  /\ (category = "what_to_do" /\ j = 6) \/ (category = "data_health" /\ j = 1) => ReadSources(r, m, x)
  /\ category = "provider_problems" => (j = 1 => IsFiniteSet(x)) /\ (j = 3 => ReadOpen(r, m, x, 10))
  /\ category \in {"provider_problems", "data_health"} /\ j = 2 => ReadJobs(r, m, x)
  /\ category = "settlement_mismatch" => (j = 1 => ReadMismatches(r, m, x)) /\ (j = 2 => ReadEntries(r, m, x))
  /\ category = "incident_analysis" => (j = 1 => ReadOpen(r, m, x, 50)) /\ (j = 3 => ReadJobs(r, m, x))

LEMMA StatementGives ==
  ASSUME NEW r, NEW s, Lately(s, r), NEW m, NEW category, NEW q, ReplyAsks(category, m, s, q),
         NEW j, NEW x \in Results(q[j])
  PROVE  Gives(r, m, category, j, x)
  <1>1. Totals(category) => /\ j = 1 => ReadFailed(r, m, x)
                            /\ j = 2 => ReadPending(r, m, x)
                            /\ j = 4 => ReadOpen(r, m, x, 10)
    BY TransactionsRead, OthersRead DEF ReplyAsks
  <1>2. category = "money_at_risk" /\ j = 5 => ReadSomeFailed(r, m, x)
    BY TransactionsRead DEF ReplyAsks
  <1>3. (category = "what_to_do" /\ j = 6) \/ (category = "data_health" /\ j = 1) => ReadSources(r, m, x)
    BY OthersRead DEF ReplyAsks
  <1>4. category = "provider_problems" => (j = 1 => IsFiniteSet(x)) /\ (j = 3 => ReadOpen(r, m, x, 10))
    BY TransactionsRead, OthersRead DEF ReplyAsks
  <1>5. category \in {"provider_problems", "data_health"} /\ j = 2 => ReadJobs(r, m, x)
    BY OthersRead DEF ReplyAsks
  <1>6. category = "settlement_mismatch" => (j = 1 => ReadMismatches(r, m, x)) /\ (j = 2 => ReadEntries(r, m, x))
    BY OthersRead DEF ReplyAsks
  <1>7. category = "incident_analysis" => (j = 1 => ReadOpen(r, m, x, 50)) /\ (j = 3 => ReadJobs(r, m, x))
    BY OthersRead DEF ReplyAsks
  <1>8. QED BY ONLY <1>1, <1>2, <1>3, <1>4, <1>5, <1>6, <1>7 DEF Gives

LEMMA ReplyIsRead ==
  ASSUME NEW r, NEW o, NEW g, Seen(r, o, g), o.name = "ai_query", NEW m, m = Effective(o),
         NEW category, category = o.category
  PROVE  ReplyRead(r, m, category, g)
  <1>1. ASSUME NEW s, NEW h, NEW q, q = Queries(o.name, o, h, s)
        PROVE  ReplyAsks(category, m, s, q) /\ Len(q) = HowMany(category)
    <2>1. PICK reads : reads = CategoryReads(category, m, s)
      OBVIOUS
    <2>2. ReplyAsks(category, m, s, reads)
      BY <2>1, ReplyStatements
    <2>3. q = AssistantReads(o, s)
      BY <1>1 DEF Queries, ActionNames, MarNames, HealthNames, DashboardNames, GraphNames, TimelineOperations, AssistantNames
    <2>4. q = <<>> \o reads
      BY <2>1, <2>3 DEF AssistantReads
    <2>5. QED BY <2>2, <2>4 DEF ReplyAsks
  <1>2. \A j \in 1..HowMany(category) : Gives(r, m, category, j, g[j])
    <2>1. Len(g) = HowMany(category)
      <3>1. PICK s, q : Lately(s, r) /\ q = Queries(o.name, o, g, s) /\ Len(g) = Len(q)
        BY DEF Seen
      <3>2. QED BY <1>1, <3>1
    <2>2. ASSUME NEW j \in 1..Len(g)
          PROVE  Gives(r, m, category, j, g[j])
      <3>1. PICK s, h, q : Lately(s, r) /\ q = Queries(o.name, o, h, s) /\ g[j] \in Results(q[j])
        BY <2>2 DEF Seen
      <3>2. QED BY <1>1, <3>1, StatementGives
    <2>3. QED BY <2>1, <2>2
  <1>3. Totals(category) => HowMany(category) \in {4, 6}
    BY DEF Totals, HowMany
  <1>4. Totals(category) => /\ Gives(r, m, category, 1, g[1]) /\ Gives(r, m, category, 2, g[2])
                            /\ Gives(r, m, category, 4, g[4])
    BY <1>2, <1>3
  <1>5. /\ category = "money_at_risk" => Gives(r, m, category, 5, g[5])
        /\ category = "what_to_do" => Gives(r, m, category, 6, g[6])
    BY <1>2 DEF HowMany
  <1>6. ~Totals(category) => HowMany(category) >= 2 /\ (category # "settlement_mismatch" => HowMany(category) >= 3)
    BY DEF Totals, HowMany
  <1>7. /\ ~Totals(category) => Gives(r, m, category, 1, g[1]) /\ Gives(r, m, category, 2, g[2])
        /\ category \in {"provider_problems", "incident_analysis"} => Gives(r, m, category, 3, g[3])
    BY <1>2, <1>6 DEF HowMany, Totals
  <1>8. category \in {"provider_problems", "settlement_mismatch", "incident_analysis", "data_health"} => ~Totals(category)
    BY DEF Totals
  <1>9. QED BY ONLY <1>4, <1>5, <1>7, <1>8 DEF ReplyRead, Gives

\* Over the tables s, a row of the merchant's that is in trouble, or a bank statement's.
Broken == {"error", "pending_setup"}
Cites(m, s, x) ==
  \/ x \in Failed(m, s)
  \/ x \in OpenOf(m, s) \/ x \in FailedJobs(Own(m, s.jobs)) \/ x \in In(Own(m, s.sources), Broken)
  \/ x \in Own(m, s.entries)
  \/ x \in In(s.results, {"unmatched", "weak", "ambiguous"}) /\ \E run \in Own(m, s.runs) : run.id = x.run
Cited(r, m, rows) == \A x \in rows : \E s : Lately(s, r) /\ Cites(m, s, x)

\* It is still there, and so is its trouble unless it was changed meanwhile.
LEMMA CitedIsThere ==
  ASSUME NEW r, NEW m, NEW s, Lately(s, r), NEW x, Cites(m, s, x)
  PROVE  /\ x.id \in {y.id : y \in Citable(m)}
         /\ x.id \notin touched[r] => x \in Citable(m) /\ (x \notin store.entries => x.status \in Trouble)
  <1>1. ASSUME NEW table \in {"incidents", "entries", "jobs", "sources", "results", "runs"}
        PROVE  s[table] \subseteq store[table]
    <2>1. table \in OwnedTables \cup HangingTables /\ table # "transactions"
      BY <1>1 DEF OwnedTables, HangingTables
    <2>2. QED BY <2>1, TableStays
  <1>2. /\ s.incidents \subseteq store.incidents /\ s.entries \subseteq store.entries /\ s.jobs \subseteq store.jobs
        /\ s.sources \subseteq store.sources /\ s.results \subseteq store.results /\ s.runs \subseteq store.runs
    BY <1>1
  <1>3. CASE x \in Failed(m, s)
    <2>1. x \in s.transactions /\ x.merchant = m /\ x.status = "failed"
      BY <1>3 DEF Failed, In, Own
    <2>2. Known(x.id, m)
      BY <2>1, KnownSince DEF Own
    <2>3. PICK u \in store.transactions : u.id = x.id /\ u.merchant = m
      BY <2>2 DEF Known
    <2>4. u \in Citable(m)
      BY <2>3 DEF Citable, Own
    <2>5. x.id \notin touched[r] => x \in store.transactions
      BY <2>1 DEF Lately, Precedes
    <2>6. QED BY <2>1, <2>3, <2>4, <2>5 DEF Citable, Own, Trouble
  <1>4. CASE x \in OpenOf(m, s) \/ x \in FailedJobs(Own(m, s.jobs)) \/ x \in In(Own(m, s.sources), Broken) \/ x \in Own(m, s.entries)
    <2>1. x \in Citable(m)
      BY <1>2, <1>4 DEF OpenOf, FailedJobs, In, Own, Citable
    <2>2. x \notin store.entries => x.status \in Trouble
      BY <1>2, <1>4 DEF OpenOf, FailedJobs, In, Own, Trouble, Broken
    <2>3. QED BY <2>1, <2>2
  <1>5. CASE x \in In(s.results, {"unmatched", "weak", "ambiguous"}) /\ \E run \in Own(m, s.runs) : run.id = x.run
    <2>1. x \in Citable(m)
      BY <1>2, <1>5 DEF In, Own, Citable
    <2>2. QED BY <1>5, <2>1 DEF In, Trouble
  <1>6. QED BY <1>3, <1>4, <1>5 DEF Cites

\* The first of what was read is some of it.
LEMMA FirstAreRows ==
  ASSUME NEW n \in Nat, NEW rows, IsFiniteSet(rows)
  PROVE  First(n, rows) \subseteq rows
  <1>1. PICK before, q : before = {c \in rows \X rows : c[1].at > c[2].at} /\ q = SortedBy(rows, before)
    OBVIOUS
  <1>2. First(n, rows) = ToSet(SubSeq(q, 1, Min({n, Len(q)})))
    BY <1>1 DEF First, Sorted
  <1>3. q \in Seq(rows)
    BY <1>1, SortedSequence
  <1>4. PICK k : k = Min({n, Len(q)})
    OBVIOUS
  <1>5. k \in Nat /\ k <= Len(q)
    <2>1. PICK l : l = Len(q) /\ l \in Nat
      BY <1>3
    <2>2. k \in {n, l} /\ k <= l
      <3>1. n \in Int /\ l \in Int /\ k = Min({n, l})
        BY <1>4, <2>1
      <3>2. QED BY ONLY <3>1, SmallerOfTwo
    <2>3. QED BY <2>1, <2>2
  <1>6. SubSeq(q, 1, k) \in Seq(rows)
    BY <1>3, <1>5
  <1>7. PICK p : p = SubSeq(q, 1, k)
    OBVIOUS
  <1>8. ToSet(p) \subseteq rows
    BY ONLY <1>6, <1>7 DEF ToSet
  <1>9. QED BY <1>2, <1>4, <1>7, <1>8

\* The reply to a question, by its category.
LEMMA Replies ==
  ASSUME NEW category, NEW g, NEW reply, reply = Reply(category, g)
  PROVE  /\ category = "money_at_risk" => reply = ReplyOnRisk(g)
         /\ category = "provider_problems" => reply = ReplyOnProviders(g)
         /\ category = "settlement_mismatch" => reply = ReplyOnSettlements(g)
         /\ category = "what_to_do" => reply = ReplyOnToday(g)
         /\ category = "incident_analysis" => reply = ReplyOnIncidents(g)
         /\ category = "trend_analysis" => reply = ReplyOnTrends(g)
         /\ category = "data_health" => reply = ReplyOnData(g)
         /\ Totals(category) /\ category \notin {"money_at_risk", "what_to_do"} => reply = ReplyInGeneral(g)
  BY DEF Reply, Totals

LEMMA ReplyCites ==
  ASSUME NEW r, NEW m, NEW category, NEW g, ReplyRead(r, m, category, g), NEW reply, reply = Reply(category, g)
  PROVE  Cited(r, m, reply.cited)
  <1>1. ASSUME NEW x, NEW n, ReadOpen(r, m, x, n) PROVE Cited(r, m, x) /\ Cited(r, m, First(3, x))
    <2>1. Cited(r, m, x)
      BY <1>1 DEF ReadOpen, Cited, Cites
    <2>2. First(3, x) \subseteq x
      BY <1>1, FirstAreRows DEF ReadOpen
    <2>3. QED BY <2>1, <2>2 DEF Cited
  <1>2. ASSUME NEW x, ReadJobs(r, m, x) PROVE Cited(r, m, FailedJobs(x))
    BY <1>2 DEF ReadJobs, Cited, Cites, FailedJobs, In
  <1>3. ASSUME NEW x, ReadSources(r, m, x) PROVE Cited(r, m, In(x, Broken))
    BY <1>3 DEF ReadSources, Cited, Cites
  <1>4. CASE category = "money_at_risk"
    <2>1. reply.cited = g[4] \cup First(5, g[5])
      <3>1. ReplyOnRisk(g).cited = g[4] \cup First(5, g[5])
        BY ONLY ZenonT(30) DEF ReplyOnRisk
      <3>2. QED BY <1>4, <3>1, Replies
    <2>2. ReadOpen(r, m, g[4], 10) /\ ReadSomeFailed(r, m, g[5])
      BY <1>4 DEF ReplyRead, Totals
    <2>3. First(5, g[5]) \subseteq g[5]
      BY <2>2, FirstAreRows DEF ReadSomeFailed
    <2>4. Cited(r, m, g[5])
      BY <2>2 DEF ReadSomeFailed, Cited, Cites
    <2>5. QED BY <1>1, <2>1, <2>2, <2>3, <2>4 DEF Cited
  <1>5. CASE category = "provider_problems"
    <2>1. reply.cited = g[3] \cup FailedJobs(g[2])
      BY <1>5, Replies DEF ReplyOnProviders
    <2>2. QED BY <1>1, <1>2, <1>5, <2>1 DEF ReplyRead, Cited
  <1>6. CASE category = "settlement_mismatch"
    <2>1. reply.cited = g[1] \cup g[2]
      BY <1>6, Replies DEF ReplyOnSettlements
    <2>2. ReadMismatches(r, m, g[1]) /\ ReadEntries(r, m, g[2])
      BY <1>6 DEF ReplyRead
    <2>3. Cited(r, m, g[1]) /\ Cited(r, m, g[2])
      BY <2>2 DEF ReadMismatches, ReadEntries, Cited, Cites
    <2>4. QED BY <2>1, <2>3 DEF Cited
  <1>7. CASE category = "what_to_do"
    <2>1. reply.cited = First(3, g[4])
      BY <1>7, Replies DEF ReplyOnToday
    <2>2. QED BY <1>1, <1>7, <2>1 DEF ReplyRead, Totals
  <1>8. CASE category = "incident_analysis"
    <2>1. reply.cited = g[1]
      BY <1>8, Replies DEF ReplyOnIncidents
    <2>2. QED BY <1>1, <1>8, <2>1 DEF ReplyRead
  <1>9. CASE category = "trend_analysis"
    <2>1. reply.cited = {}
      <3>1. ReplyOnTrends(g).cited = {}
        BY ONLY ZenonT(30) DEF ReplyOnTrends
      <3>2. QED BY <1>9, <3>1, Replies
    <2>2. QED BY <2>1 DEF Cited
  <1>10. CASE category = "data_health"
    <2>1. reply.cited = In(g[1], Broken) \cup FailedJobs(g[2])
      <3>1. ReplyOnData(g).cited = In(g[1], Broken) \cup FailedJobs(g[2])
        BY ONLY ZenonT(30) DEF ReplyOnData, Broken
      <3>2. QED BY <1>10, <3>1, Replies
    <2>2. QED BY <1>2, <1>3, <1>10, <2>1 DEF ReplyRead, Cited
  <1>11. CASE Totals(category) /\ category \notin {"money_at_risk", "what_to_do"}
    <2>1. reply.cited = First(3, g[4])
      BY <1>11, Replies DEF ReplyInGeneral
    <2>2. QED BY <1>1, <1>11, <2>1 DEF ReplyRead
  <1>12. QED BY <1>4, <1>5, <1>6, <1>7, <1>8, <1>9, <1>10, <1>11 DEF Totals

\* The confidence of a reply is on its scale.
LEMMA ConfidenceIsBounded ==
  ASSUME NEW points \in Nat
  PROVE  InScale(Confidence(points))
  <1>0. PICK n : n = 10000
    OBVIOUS
  <1>1. PICK a, b, c : a = (20000 * points + 6) \div 12 /\ b = Min({n, a}) /\ c = Max({0, b})
    OBVIOUS
  <1>2. a \in Int /\ n \in Nat /\ b = Min({n, a}) /\ c = Max({0, b})
    BY ONLY <1>0, <1>1, points \in Nat
  <1>3. c \in 0..n
    BY ONLY <1>2, Clamped
  <1>4. c \in 0..10000
    BY ONLY <1>0, <1>3
  <1>5. Confidence(points) = c
    BY ONLY <1>0, <1>1 DEF Confidence
  <1>6. QED BY ONLY <1>4, <1>5 DEF InScale

LEMMA PointsAreNatural ==
  ASSUME NEW f, NEW n \in Nat, DOMAIN f = 1..n
  PROVE  InScale(Confidence(Points(f)))
  <1>1. {i \in DOMAIN f : f[i]} \subseteq 1..n /\ IsFiniteSet(1..n)
    BY FS_Interval
  <1>2. Points(f) \in Nat
    BY <1>1, FS_Subset, FS_CardinalityType DEF Points
  <1>3. QED BY <1>2, ConfidenceIsBounded

LEMMA CountsAreNatural ==
  ASSUME NEW x, IsFiniteSet(x)
  PROVE  Count(x) \in Nat /\ Count(FailedJobs(x)) \in Nat
  <1>1. FailedJobs(x) \subseteq x
    BY DEF FailedJobs, In
  <1>2. QED BY <1>1, FS_Subset, FS_CardinalityType DEF Count

LEMMA ReplyIsBounded ==
  ASSUME NEW r, NEW m, NEW category, NEW g, ReplyRead(r, m, category, g), NEW reply, reply = Reply(category, g)
  PROVE  InScale(reply.confidence)
  <1>1. CASE category = "money_at_risk"
    <2>1. PICK f : f = <<Amount(g[1]) > 0, Amount(g[2]) > 0, g[4] # {}, g[6] # {}>>
      OBVIOUS
    <2>2. DOMAIN f = 1..4
      BY <2>1
    <2>3. ReplyOnRisk(g).confidence = Confidence(Points(f))
      BY ONLY <2>1, ZenonT(30) DEF ReplyOnRisk
    <2>4. QED BY <1>1, <2>2, <2>3, PointsAreNatural, Replies
  <1>2. CASE category = "provider_problems"
    <2>1. Count(g[1]) \in Nat /\ Count(FailedJobs(g[2])) \in Nat
      BY <1>2, CountsAreNatural DEF ReplyRead, ReadJobs
    <2>2. ReplyOnProviders(g).confidence = Confidence(Count(g[1]) + Count(FailedJobs(g[2])))
      BY ONLY ZenonT(30) DEF ReplyOnProviders
    <2>3. PICK n \in Nat : n = Count(g[1]) + Count(FailedJobs(g[2]))
      BY <2>1
    <2>4. QED BY <1>2, <2>2, <2>3, ConfidenceIsBounded, Replies
  <1>3. CASE category = "settlement_mismatch"
    <2>1. Count(g[1]) \in Nat
      BY <1>3, CountsAreNatural DEF ReplyRead, ReadMismatches
    <2>2. PICK k : k = IF g[2] = {} THEN 0 ELSE 1
      OBVIOUS
    <2>3. ReplyOnSettlements(g).confidence = Confidence(Count(g[1]) + k)
      BY ONLY <2>2, ZenonT(30) DEF ReplyOnSettlements
    <2>4. PICK n \in Nat : n = Count(g[1]) + k
      BY <2>1, <2>2
    <2>5. QED BY <1>3, <2>3, <2>4, ConfidenceIsBounded, Replies
  <1>4. CASE category = "what_to_do"
    <2>1. Count(g[4]) \in Nat
      BY <1>4, CountsAreNatural DEF ReplyRead, ReadOpen, Totals
    <2>2. PICK k : k = IF Amount(g[1]) + Amount(g[2]) > 0 THEN 1 ELSE 0
      OBVIOUS
    <2>3. ReplyOnToday(g).confidence = Confidence(Count(g[4]) + k)
      BY ONLY <2>2, ZenonT(30) DEF ReplyOnToday
    <2>4. PICK n \in Nat : n = Count(g[4]) + k
      BY <2>1, <2>2
    <2>5. QED BY <1>4, <2>3, <2>4, ConfidenceIsBounded, Replies
  <1>5. CASE category = "incident_analysis"
    <2>1. Count(g[1]) \in Nat /\ Count(FailedJobs(g[3])) \in Nat
      BY <1>5, CountsAreNatural DEF ReplyRead, ReadJobs, ReadOpen
    <2>2. ReplyOnIncidents(g).confidence = Confidence(Count(g[1]) + Count(FailedJobs(g[3])))
      BY ONLY ZenonT(30) DEF ReplyOnIncidents
    <2>3. PICK n \in Nat : n = Count(g[1]) + Count(FailedJobs(g[3]))
      BY <2>1
    <2>4. QED BY <1>5, <2>2, <2>3, ConfidenceIsBounded, Replies
  <1>6. CASE category = "trend_analysis"
    <2>1. PICK f : f = <<g[1] # {}, Amount(g[2]) > 0, g[4] # {}>>
      OBVIOUS
    <2>2. DOMAIN f = 1..3
      BY <2>1
    <2>3. ReplyOnTrends(g).confidence = Confidence(Points(f))
      BY ONLY <2>1, ZenonT(30) DEF ReplyOnTrends
    <2>4. QED BY <1>6, <2>2, <2>3, PointsAreNatural, Replies
  <1>7. CASE category = "data_health"
    <2>1. PICK f : f = <<g[1] # {}, g[3] # {}, In(g[1], {"error", "pending_setup"}) = {}>>
      OBVIOUS
    <2>2. DOMAIN f = 1..3
      BY <2>1
    <2>3. ReplyOnData(g).confidence = Confidence(Points(f))
      BY ONLY <2>1, ZenonT(30) DEF ReplyOnData
    <2>4. QED BY <1>7, <2>2, <2>3, PointsAreNatural, Replies
  <1>8. CASE Totals(category) /\ category \notin {"money_at_risk", "what_to_do"}
    <2>1. reply.confidence = 5000
      BY <1>8, Replies DEF ReplyInGeneral
    <2>2. QED BY <2>1 DEF InScale
  <1>9. QED BY <1>1, <1>2, <1>3, <1>4, <1>5, <1>6, <1>7, <1>8 DEF Totals

\* What was failed or pending and is not touched was read, and is all that was read of these.
LEMMA StillThere ==
  ASSUME NEW r, NEW m, NEW category, NEW g, ReplyRead(r, m, category, g), Totals(category)
  PROVE  Still(r, g[1]) \cup Still(r, g[2]) = Still(r, In(Own(m, store.transactions), {"failed", "pending"}))
  <1>1. ASSUME NEW s, Lately(s, r), NEW t, t.id \notin touched[r]
        PROVE  t \in s.transactions <=> t \in store.transactions
    BY <1>1 DEF Lately, Precedes
  <1>2. PICK s : Lately(s, r) /\ g[1] = Failed(m, s)
    BY DEF ReplyRead, ReadFailed
  <1>3. PICK u : Lately(u, r) /\ g[2] = Pending(m, u)
    BY DEF ReplyRead, ReadPending
  <1>4. ASSUME NEW t, t.id \notin touched[r]
        PROVE  /\ t \in g[1] <=> t \in store.transactions /\ t.merchant = m /\ t.status = "failed"
               /\ t \in g[2] <=> t \in store.transactions /\ t.merchant = m /\ t.status = "pending"
    BY <1>1, <1>2, <1>3, <1>4 DEF Failed, Pending, In, Own
  <1>5. QED BY <1>4 DEF Still, In, Own

LEMMA AmountIsPositive ==
  ASSUME NEW S, IsFiniteSet(S), \A t \in S : Priced(t)
  PROVE  Amount(S) > 0 <=> \E t \in S : t.amount > 0
  <1>1. PICK f : f = [t \in S |-> t.amount]
    OBVIOUS
  <1>2. f \in [S -> Nat] /\ f \in [S -> Int]
    BY <1>1 DEF Priced
  <1>3. PICK g : SumsOf(g, f, S) /\ Amount(S) = g[S]
    BY <1>1, <1>2, AmountIsSum
  <1>4. g[S] > 0 <=> \E t \in S : f[t] > 0
    BY <1>2, <1>3, PositiveSum
  <1>5. QED BY <1>1, <1>3, <1>4

\* What is suggested, one by one, and what of it is about incidents.
AboutIncidents(suggested) == {a \in suggested : a.type \in {"acknowledge_incident", "escalate_incident"}}

LEMMA OneSuggestion ==
  ASSUME NEW type, NEW priority, NEW rows
  PROVE  /\ \A a \in Suggest(type, priority, rows) : a.type = type /\ a.count = Count(rows)
         /\ Suggest(type, priority, rows) # {} <=> rows # {}
         /\ \A a \in Advice(type, priority) : a.type = type
         /\ Advice(type, priority) # {}
  <1>1. PICK a, b : /\ a = [type |-> type, priority |-> priority, count |-> Count(rows)]
                    /\ b = [type |-> type, priority |-> priority, count |-> 0]
    OBVIOUS
  <1>2. a.type = type /\ a.count = Count(rows) /\ b.type = type
    BY ONLY <1>1
  <1>3. Suggest(type, priority, rows) = (IF rows = {} THEN {} ELSE {a}) /\ Advice(type, priority) = {b}
    BY <1>1 DEF Suggest, Advice
  <1>4. QED BY <1>2, <1>3

LEMMA SuggestionsAre ==
  ASSUME NEW category, NEW g, NEW reply, reply = Reply(category, g), NEW suggested, suggested = reply.suggested
  PROVE  /\ category \in {"money_at_risk", "what_to_do"} => (Does(suggested, "investigate_failed_payments") <=> Amount(g[1]) > 0)
         /\ category = "what_to_do" =>
              /\ suggested # {} /\ (Does(suggested, "fix_data_source") <=> In(g[6], Broken) # {})
              /\ AboutIncidents(suggested) = Suggest("acknowledge_incident", "critical", Severe(g[4]))
         /\ category = "incident_analysis" =>
              AboutIncidents(suggested) = Suggest("escalate_incident", "critical", {i \in g[1] : i.severity = "critical"})
                                          \cup Suggest("acknowledge_incident", "high", {i \in g[1] : i.severity = "high"})
         /\ category = "data_health" =>
              (Does(suggested, "reconnect_data_source") \/ Does(suggested, "complete_data_source_setup") <=> In(g[1], Broken) # {})
  <1>1. ASSUME category = "money_at_risk"
        PROVE  Does(suggested, "investigate_failed_payments") <=> Amount(g[1]) > 0
    <2>1. PICK a, b, c, d : /\ d = [type |-> "investigate_failed_payments", priority |-> "high", count |-> Count(g[5])]
                            /\ a = (IF Amount(g[1]) > 0 THEN {d} ELSE {}) /\ b = Suggest("acknowledge_incident", "high", g[4])
                            /\ c = Suggest("review_alerts", "medium", g[3])
      OBVIOUS
    <2>2. ReplyOnRisk(g).suggested = a \cup b \cup c
      BY ONLY <2>1, ZenonT(30) DEF ReplyOnRisk
    <2>3. (\A x \in b : x.type = "acknowledge_incident") /\ (\A x \in c : x.type = "review_alerts")
      BY <2>1, OneSuggestion
    <2>4. d.type = "investigate_failed_payments" /\ (Amount(g[1]) > 0 => a = {d}) /\ (~(Amount(g[1]) > 0) => a = {})
      BY <2>1
    <2>5. QED BY <1>1, <2>2, <2>3, <2>4, Replies DEF Does
  <1>2. ASSUME category = "what_to_do"
        PROVE  /\ Does(suggested, "investigate_failed_payments") <=> Amount(g[1]) > 0
               /\ suggested # {} /\ (Does(suggested, "fix_data_source") <=> In(g[6], Broken) # {})
               /\ AboutIncidents(suggested) = Suggest("acknowledge_incident", "critical", Severe(g[4]))
    <2>1. PICK a, b, c, d : /\ a = Suggest("acknowledge_incident", "critical", Severe(g[4]))
                            /\ b = (IF Amount(g[1]) > 0 THEN d ELSE {}) /\ d = Advice("investigate_failed_payments", "high")
                            /\ c = Suggest("fix_data_source", "medium", In(g[6], Broken))
      OBVIOUS
    <2>2. PICK e, all : e = Advice("review_dashboard", "low") /\ all = a \cup b \cup c
      OBVIOUS
    <2>3. suggested = IF all = {} THEN e ELSE all
      <3>1. ReplyOnToday(g).suggested = IF all = {} THEN e ELSE all
        BY ONLY <2>1, <2>2, ZenonT(30) DEF ReplyOnToday, Broken
      <3>2. QED BY <1>2, <3>1, Replies
    <2>4. /\ \A x \in a : x.type = "acknowledge_incident"
          /\ \A x \in c : x.type = "fix_data_source"
          /\ c # {} <=> In(g[6], Broken) # {}
      BY <2>1, OneSuggestion
    <2>5. /\ (\A x \in d : x.type = "investigate_failed_payments") /\ d # {}
          /\ (\A x \in e : x.type = "review_dashboard") /\ e # {}
      BY <2>1, <2>2, OneSuggestion
    <2>6. (Amount(g[1]) > 0 => b = d) /\ (~(Amount(g[1]) > 0) => b = {})
      BY <2>1
    <2>7. suggested # {} /\ (\A x \in suggested : x \in all \/ x.type = "review_dashboard") /\ all \subseteq suggested
      BY ONLY <2>3, <2>5
    <2>8. Does(suggested, "investigate_failed_payments") <=> Amount(g[1]) > 0
      BY ONLY <2>2, <2>4, <2>5, <2>6, <2>7 DEF Does
    <2>9. Does(suggested, "fix_data_source") <=> In(g[6], Broken) # {}
      BY ONLY <2>2, <2>4, <2>5, <2>6, <2>7 DEF Does
    <2>10. AboutIncidents(suggested) = a
      BY ONLY <2>2, <2>4, <2>5, <2>6, <2>7 DEF AboutIncidents
    <2>11. QED BY <2>1, <2>7, <2>8, <2>9, <2>10
  <1>3. ASSUME category = "incident_analysis"
        PROVE  AboutIncidents(suggested) = Suggest("escalate_incident", "critical", {i \in g[1] : i.severity = "critical"})
                                           \cup Suggest("acknowledge_incident", "high", {i \in g[1] : i.severity = "high"})
    <2>1. PICK a, b, c : /\ a = Suggest("escalate_incident", "critical", {i \in g[1] : i.severity = "critical"})
                         /\ b = Suggest("acknowledge_incident", "high", {i \in g[1] : i.severity = "high"})
                         /\ c = Suggest("investigate_sync_failures", "medium", FailedJobs(g[3]))
      OBVIOUS
    <2>2. ReplyOnIncidents(g).suggested = a \cup b \cup c
      BY ONLY <2>1, ZenonT(30) DEF ReplyOnIncidents
    <2>3. /\ (\A x \in a : x.type = "escalate_incident") /\ (\A x \in b : x.type = "acknowledge_incident")
          /\ (\A x \in c : x.type = "investigate_sync_failures")
      BY <2>1, OneSuggestion
    <2>4. AboutIncidents(suggested) = a \cup b
      BY <1>3, <2>2, <2>3, Replies DEF AboutIncidents
    <2>5. QED BY <2>1, <2>4
  <1>4. ASSUME category = "data_health"
        PROVE  Does(suggested, "reconnect_data_source") \/ Does(suggested, "complete_data_source_setup") <=> In(g[1], Broken) # {}
    <2>1. PICK a, b, c, d, e : /\ a = Suggest("reconnect_data_source", "high", In(g[1], {"error"}))
                               /\ b = Suggest("complete_data_source_setup", "medium", In(g[1], {"pending_setup"}))
                               /\ c = Suggest("retry_sync", "medium", FailedJobs(g[2]))
                               /\ e = Advice("add_data_source", "high") /\ d = (IF g[1] = {} THEN e ELSE {})
      OBVIOUS
    <2>2. ReplyOnData(g).suggested = a \cup b \cup c \cup d
      BY ONLY <2>1, ZenonT(30) DEF ReplyOnData
    <2>3. /\ (\A x \in a : x.type = "reconnect_data_source") /\ (\A x \in b : x.type = "complete_data_source_setup")
          /\ (\A x \in c : x.type = "retry_sync") /\ (\A x \in d : x.type = "add_data_source")
          /\ (a # {} <=> In(g[1], {"error"}) # {}) /\ (b # {} <=> In(g[1], {"pending_setup"}) # {})
      <3>1. \A x \in e : x.type = "add_data_source"
        BY <2>1, OneSuggestion
      <3>2. (\A x \in a : x.type = "reconnect_data_source") /\ (a # {} <=> In(g[1], {"error"}) # {})
        BY <2>1, OneSuggestion
      <3>3. (\A x \in b : x.type = "complete_data_source_setup") /\ (b # {} <=> In(g[1], {"pending_setup"}) # {})
        BY <2>1, OneSuggestion
      <3>4. QED BY <2>1, <3>1, <3>2, <3>3, OneSuggestion
    <2>4. In(g[1], Broken) # {} <=> In(g[1], {"error"}) # {} \/ In(g[1], {"pending_setup"}) # {}
      BY DEF In, Broken
    <2>5. QED BY <1>4, <2>2, <2>3, <2>4, Replies DEF Does
  <1>5. QED BY <1>1, <1>2, <1>3, <1>4

LEMMA SuggestionsCount ==
  ASSUME NEW A, IsFiniteSet(A), NEW B, IsFiniteSet(B), NEW p, NEW q, NEW suggested,
         AboutIncidents(suggested) = Suggest("escalate_incident", p, A) \cup Suggest("acknowledge_incident", q, B)
  PROVE  IncidentsCounted(suggested) = Cardinality(A) + Cardinality(B)
  <1>1. PICK a, b : /\ a = [type |-> "escalate_incident", priority |-> p, count |-> Count(A)]
                    /\ b = [type |-> "acknowledge_incident", priority |-> q, count |-> Count(B)]
    OBVIOUS
  <1>2. a # b /\ a.count = Cardinality(A) /\ b.count = Cardinality(B)
    <2>1. a.type # b.type
      BY <1>1
    <2>2. QED BY <1>1, <2>1 DEF Count
  <1>3. /\ Cardinality(A) \in Nat /\ (A = {} => Cardinality(A) = 0)
        /\ Cardinality(B) \in Nat /\ (B = {} => Cardinality(B) = 0)
    BY FS_CardinalityType, FS_EmptySet
  <1>4. /\ CountsOf({}) = 0 /\ CountsOf({a}) = Cardinality(A) /\ CountsOf({b}) = Cardinality(B)
        /\ CountsOf({a, b}) = Cardinality(A) + Cardinality(B)
    <2>1. a.count \in Int /\ b.count \in Int
      BY <1>2, <1>3
    <2>2. CountsOf({b}) = b.count
      BY <2>1, CountsOfTwo
    <2>3. QED BY <1>2, <2>1, <2>2, CountsOfTwo
  <1>5. PICK both : both = AboutIncidents(suggested)
    OBVIOUS
  <1>6. both = (IF A = {} THEN {} ELSE {a}) \cup (IF B = {} THEN {} ELSE {b})
    BY <1>1, <1>5 DEF Suggest
  <1>7. both = IF A = {} THEN IF B = {} THEN {} ELSE {b} ELSE IF B = {} THEN {a} ELSE {a, b}
    BY ONLY <1>6
  <1>8. CountsOf(both) = Cardinality(A) + Cardinality(B)
    BY ONLY <1>3, <1>4, <1>7
  <1>9. IncidentsCounted(suggested) = CountsOf(AboutIncidents(suggested))
    BY DEF IncidentsCounted, CountsOf, AboutIncidents
  <1>10. QED BY <1>5, <1>8, <1>9

LEMMA SuggestionsFit ==
  ASSUME NEW r, NEW m, NEW category, NEW g, ReplyRead(r, m, category, g), touched[r] = {},
         NEW reply, reply = Reply(category, g)
  PROVE  SuggestionsHold(m, category, reply)
  <1>1. PICK failed, unresolved, broken, suggested :
          /\ failed = Failed(m, store) /\ unresolved = OpenOf(m, store) /\ broken = In(Own(m, store.sources), Broken)
          /\ suggested = reply.suggested
    OBVIOUS
  <1>2. ASSUME NEW s, Lately(s, r)
        PROVE  Failed(m, s) = failed /\ OpenOf(m, s) = unresolved /\ In(Own(m, s.sources), Broken) = broken
    BY <1>1, <1>2, NothingHasChanged DEF Failed, OpenOf
  <1>3. ASSUME category \in {"money_at_risk", "what_to_do"}
        PROVE  Does(suggested, "investigate_failed_payments") <=> \E t \in failed : t.amount > 0
    <2>1. PICK s : Lately(s, r) /\ g[1] = Failed(m, s)
      BY <1>3 DEF ReplyRead, ReadFailed, Totals
    <2>2. g[1] \subseteq s.transactions
      BY <2>1 DEF Failed, In, Own
    <2>3. IsFiniteSet(g[1]) /\ \A t \in g[1] : Priced(t)
      BY <2>1, <2>2, FS_Subset DEF Lately, Typed, Valued
    <2>4. QED BY <1>1, <1>2, <1>3, <2>1, <2>3, AmountIsPositive, SuggestionsAre
  <1>4. ASSUME category = "what_to_do"
        PROVE  suggested # {} /\ (Does(suggested, "fix_data_source") <=> broken # {})
    <2>1. In(g[6], Broken) = broken
      BY <1>2, <1>4 DEF ReplyRead, ReadSources
    <2>2. QED BY <1>1, <1>4, <2>1, SuggestionsAre
  <1>5. ASSUME category = "data_health"
        PROVE  Does(suggested, "reconnect_data_source") \/ Does(suggested, "complete_data_source_setup") <=> broken # {}
    <2>1. In(g[1], Broken) = broken
      BY <1>2, <1>5 DEF ReplyRead, ReadSources
    <2>2. QED BY <1>1, <1>5, <2>1, SuggestionsAre
  <1>6. ASSUME NEW x, NEW n, ReadOpen(r, m, x, n), Cardinality(unresolved) <= n
        PROVE  x = unresolved /\ IsFiniteSet(unresolved)
    BY <1>2, <1>6 DEF ReadOpen
  <1>7. PICK of : of = [severity \in {"critical", "high"} |-> {i \in unresolved : i.severity = severity}]
    OBVIOUS
  <1>8. of["critical"] = {i \in unresolved : i.severity = "critical"} /\ of["high"] = {i \in unresolved : i.severity = "high"}
    BY <1>7
  <1>9. PICK severe : severe = {i \in unresolved : i.severity \in {"critical", "high"}}
    OBVIOUS
  <1>10. ASSUME category = "what_to_do", Cardinality(unresolved) <= 10
         PROVE  IncidentsCounted(suggested) = Cardinality(severe)
    <2>1. g[4] = unresolved /\ IsFiniteSet(unresolved)
      BY <1>6, <1>10 DEF ReplyRead, Totals
    <2>2. Severe(g[4]) = severe /\ IsFiniteSet(severe) /\ IsFiniteSet({})
      BY <1>9, <2>1, FS_Subset, FS_EmptySet DEF Severe
    <2>3. AboutIncidents(suggested) = Suggest("escalate_incident", "critical", {}) \cup Suggest("acknowledge_incident", "critical", severe)
      <3>1. Suggest("escalate_incident", "critical", {}) = {}
        BY DEF Suggest
      <3>2. QED BY <1>1, <1>10, <2>2, <3>1, SuggestionsAre
    <2>4. Cardinality(severe) \in Nat /\ Cardinality({}) = 0
      BY <2>2, FS_CardinalityType, FS_EmptySet
    <2>5. IncidentsCounted(suggested) = Cardinality({}) + Cardinality(severe)
      BY <2>2, <2>3, SuggestionsCount
    <2>6. QED BY ONLY <2>4, <2>5
  <1>11. ASSUME category = "incident_analysis", Cardinality(unresolved) <= 50
         PROVE  IncidentsCounted(suggested) = Cardinality(severe)
    <2>1. g[1] = unresolved /\ IsFiniteSet(unresolved)
      BY <1>6, <1>11 DEF ReplyRead
    <2>2. /\ IsFiniteSet(of["critical"]) /\ IsFiniteSet(of["high"]) /\ of["critical"] \cap of["high"] = {}
          /\ severe = of["critical"] \cup of["high"]
      BY <1>8, <1>9, <2>1, FS_Subset
    <2>3. AboutIncidents(suggested) =
            Suggest("escalate_incident", "critical", of["critical"]) \cup Suggest("acknowledge_incident", "high", of["high"])
      BY <1>1, <1>8, <1>11, <2>1, SuggestionsAre
    <2>4. QED BY <2>2, <2>3, SuggestionsCount, DisjointUnion
  <1>12. QED BY <1>1, <1>3, <1>4, <1>5, <1>9, <1>10, <1>11 DEF SuggestionsHold, Does, Failed, OpenOf, Broken

LEMMA AnswersHold ==
  ASSUME HistoryInv
  PROVE  AnswersAreGrounded
  <1>1. ASSUME NEW r \in Requests, Reported(r, {"ai_query"})
        PROVE  AnswerHolds(r, Effective(op[r]), op[r].category, got[r][1], Reply(op[r].category, got[r][1]))
    <2>1. PICK o, m, g, category : o = op[r] /\ m = Effective(o) /\ g = got[r][1] /\ category = o.category
      OBVIOUS
    <2>2. PICK reply : reply = Reply(category, g)
      OBVIOUS
    <2>3. HistoryOK(r) /\ ReportOK(r) /\ pc[r] \in {"respond", "save", "done"} /\ got[r] # <<>> /\ o.name = "ai_query"
      BY <1>1, <2>1 DEF Reported, HistoryInv, ReportingInv
    <2>4. Seen(r, o, g)
      BY <2>1, <2>3, OnePart DEF DashboardNames
    <2>5. ReplyRead(r, m, category, g)
      BY <2>1, <2>3, <2>4, ReplyIsRead
    <2>6. CitationsHold(r, m, reply)
      <3>1. Cited(r, m, reply.cited)
        BY ONLY <2>2, <2>5, ReplyCites
      <3>2. \A x \in reply.cited :
              /\ x.id \in {y.id : y \in Citable(m)}
              /\ x.id \notin touched[r] => x \in Citable(m) /\ (x \notin store.entries => x.status \in Trouble)
        BY ONLY <3>1, CitedIsThere DEF Cited
      <3>3. QED BY ONLY <3>2 DEF CitationsHold, Still
    <2>7. InScale(reply.confidence)
      BY ONLY <2>2, <2>5, ReplyIsBounded
    <2>8. category \in {"money_at_risk", "what_to_do", "general"} =>
            Still(r, g[1]) \cup Still(r, g[2]) = Still(r, In(Own(m, store.transactions), {"failed", "pending"}))
      <3>1. category \in {"money_at_risk", "what_to_do", "general"} => Totals(category)
        BY ONLY TRUE DEF Totals
      <3>2. QED BY ONLY <2>5, <3>1, StillThere
    <2>9. touched[r] = {} => SuggestionsHold(m, category, reply)
      BY ONLY <2>2, <2>5, SuggestionsFit
    <2>10. AnswerHolds(r, m, category, g, reply)
      BY ONLY <2>6, <2>7, <2>8, <2>9 DEF AnswerHolds
    <2>11. QED BY <2>1, <2>2, <2>10
  <1>2. QED BY ONLY <1>1 DEF AnswersAreGrounded

\* The lists of the action centre and the answers of the assistant follow their cause: there
\* is an action for what calls for one, the most urgent first, and a reply cites, counts and
\* suggests what is there, for any tables, requests and changes by others.
THEOREM WorkIsProved == Spec => []ActionsFollowTheirCause
  <1>1. Init => HistoryInv
    BY HistoryInitInv
  <1>2. HistoryInv /\ [Next]_vars => HistoryInv'
    BY HistoryNextInv
  <1>3. HistoryInv => ActionsFollowTheirCause
    BY ListsFollow, AnswersHold DEF ActionsFollowTheirCause
  <1>4. QED BY <1>1, <1>2, <1>3, PTL DEF Spec

==============================================================================
