---------------------------- MODULE ServicesProofs ----------------------------
(***************************************************************************)
(* Proofs about the services of Services.tla: what their requests do to    *)
(* the rows of a table, alone and next to one another.  The first part is  *)
(* about the statements all services are built from, the others about      *)
(* alerts, notifications, incidents, merchants and users, provider         *)
(* accounts and bank accounts, each with an invariant of its own; the last *)
(* one puts them together.                                                 *)
(***************************************************************************)
EXTENDS Services, CollectionLemmas

\* The variables of the requests have their shape.
Shaped ==
  /\ pc \in [Requests -> Statements]
  /\ op = [r \in Requests |-> op[r]]
  /\ seen = [r \in Requests |-> seen[r]]
  /\ work = [r \in Requests |-> [rows |-> work[r].rows, log |-> work[r].log]]
  /\ answer \in [Requests -> Answers]

\* Only r moves; the variables keep their shape.
Moves(r) ==
  /\ Shaped'
  /\ table' = table /\ clock' = clock
  /\ \A q \in Requests : q # r =>
       /\ pc'[q] = pc[q] /\ op'[q] = op[q] /\ seen'[q] = seen[q]
       /\ work'[q] = work[q] /\ answer'[q] = answer[q]

\* Only r moves, and nothing is committed.
Stirs(r) == Moves(r) /\ rows' = rows /\ log' = log

------------------------------------------------------------------------------
(***************************************************************************)
(* The statements.                                                         *)
(***************************************************************************)

\* A request that arrives.
LEMMA Arriving ==
  ASSUME NEW r \in Requests, NEW o, NEW s \in Statements, Shaped, Arrive(r, o, s)
  PROVE /\ Stirs(r)
        /\ pc[r] = "idle" /\ pc'[r] = s /\ op'[r] = o
        /\ seen'[r] = seen[r] /\ work'[r] = work[r] /\ answer'[r] = answer[r]
  BY DEF Arrive, Shaped, Moves, Stirs, committed

\* A statement that refuses the request, or its death.
LEMMA Discarding ==
  ASSUME NEW r \in Requests, NEW a \in Answers, Shaped, Discard(r, a)
  PROVE /\ Stirs(r)
        /\ pc'[r] = "done" /\ answer'[r] = a /\ work'[r] = NoWork
        /\ op'[r] = op[r] /\ seen'[r] = seen[r]
  BY DEF Discard, End, Shaped, Moves, Stirs, NoWork, Statements

\* A select.
LEMMA Selecting ==
  ASSUME NEW r \in Requests, NEW found, NEW s \in Statements, Shaped, Select(r, found, s)
  PROVE /\ Stirs(r)
        /\ pc'[r] = s /\ op'[r] = op[r] /\ work'[r] = work[r] /\ answer'[r] = answer[r]
        /\ IF found = {} THEN seen'[r] = None ELSE seen'[r] \in found
  BY DEF Select, Goto, Shaped, Moves, Stirs, committed

\* A select by identity.
LEMMA SelectingById ==
  ASSUME NEW r \in Requests, NEW id, Shaped, SelectById(r, id)
  PROVE /\ Stirs(r) /\ op'[r] = op[r]
        /\ \/ /\ pc'[r] = "done" /\ answer'[r] = "404" /\ work'[r] = NoWork /\ seen'[r] = seen[r]
           \/ /\ pc'[r] = "write" /\ answer'[r] = answer[r] /\ work'[r] = work[r]
              /\ id \in DOMAIN rows /\ seen'[r] = rows[id]
<1>1. CASE id \in DOMAIN rows
  <2>1. Select(r, {rows[id]}, "write")
    BY <1>1 DEF SelectById
  <2> QED
    BY <1>1, <2>1, Selecting DEF Statements
<1>2. CASE id \notin DOMAIN rows
  <2>1. Discard(r, "404")
    BY <1>2 DEF SelectById
  <2> QED
    BY <2>1, Discarding DEF Answers
<1> QED
  BY <1>1, <1>2

\* A step that writes only to the request's own work.
LEMMA Going ==
  ASSUME NEW r \in Requests, NEW s \in Statements, Shaped, Goto(r, s), UNCHANGED <<seen, answer>>,
         NEW w, work' = [work EXCEPT ![r] = [rows |-> w.rows, log |-> w.log]]
  PROVE /\ Stirs(r)
        /\ pc'[r] = s /\ op'[r] = op[r] /\ seen'[r] = seen[r] /\ answer'[r] = answer[r]
        /\ work'[r] = [rows |-> w.rows, log |-> w.log]
  BY DEF Goto, Shaped, Moves, Stirs, committed

\* A step that sets the rows a request has written.
LEMMA Setting ==
  ASSUME NEW r \in Requests, NEW s \in Statements, Shaped, Goto(r, s),
         NEW n, work' = [work EXCEPT ![r].rows = n],
         NEW v, seen' = [seen EXCEPT ![r] = v],
         NEW a \in Answers, answer' = [answer EXCEPT ![r] = a]
  PROVE /\ Stirs(r)
        /\ pc'[r] = s /\ op'[r] = op[r] /\ seen'[r] = v /\ answer'[r] = a
        /\ work'[r].rows = n /\ work'[r].log = work[r].log
<1>1. work[r] = [rows |-> work[r].rows, log |-> work[r].log]
  BY DEF Shaped
<1>2. [work[r] EXCEPT !.rows = n] = [rows |-> n, log |-> work[r].log]
  BY <1>1
<1>3. PICK w : w = [rows |-> n, log |-> work[r].log]
  OBVIOUS
<1>4. work' = [work EXCEPT ![r] = w]
  BY <1>2, <1>3
<1>5. w.rows = n /\ w.log = work[r].log /\ w = [rows |-> w.rows, log |-> w.log]
  BY <1>3
<1> QED
  BY <1>4, <1>5 DEF Goto, Shaped, Moves, Stirs, committed

\* A first insert.
LEMMA Inserting ==
  ASSUME NEW r \in Requests, NEW s \in Statements, Shaped, Goto(r, s), UNCHANGED <<seen, answer>>,
         NEW id, NEW row, NEW entries, InsertAs(r, id, row, entries)
  PROVE /\ Stirs(r)
        /\ pc'[r] = s /\ op'[r] = op[r] /\ seen'[r] = seen[r] /\ answer'[r] = answer[r]
        /\ work'[r] = [rows |-> Over(Single(id, [row EXCEPT !.id = id]), work[r].rows),
                       log |-> work[r].log \cup entries]
<1>1. PICK w : w = [rows |-> Over(Single(id, [row EXCEPT !.id = id]), work[r].rows),
                    log |-> work[r].log \cup entries]
  OBVIOUS
<1>2. work' = [work EXCEPT ![r] = [rows |-> w.rows, log |-> w.log]]
  BY <1>1 DEF InsertAs, Shaped
<1>3. [rows |-> w.rows, log |-> w.log] = w
  BY <1>1
<1>4. /\ Stirs(r)
      /\ pc'[r] = s /\ op'[r] = op[r] /\ seen'[r] = seen[r] /\ answer'[r] = answer[r]
      /\ work'[r] = [rows |-> w.rows, log |-> w.log]
  BY <1>2, Going
<1> QED
  BY <1>1, <1>3, <1>4

\* An update of the loaded row, which writes the columns that differ and takes the
\* row's lock, or writes none.
LEMMA Updating ==
  ASSUME NEW r \in Requests, NEW s \in Statements, Shaped, Goto(r, s), UNCHANGED <<seen, answer>>,
         NEW columns, NEW entries, Update(r, columns, entries)
  PROVE /\ Stirs(r)
        /\ pc'[r] = s /\ op'[r] = op[r] /\ seen'[r] = seen[r] /\ answer'[r] = answer[r]
        /\ work'[r].log = work[r].log \cup entries
        /\ \/ DOMAIN Written(seen[r], columns) = {} /\ work'[r].rows = work[r].rows
           \/ LET id == seen[r].id
                  before == IF id \in DOMAIN work[r].rows THEN work[r].rows[id] ELSE NoRows
              IN /\ DOMAIN Written(seen[r], columns) # {}
                 /\ Free(r, id)
                 /\ work'[r].rows = Over(Single(id, Over(Written(seen[r], columns), before)), work[r].rows)
<1> DEFINE id == seen[r].id
           before == IF id \in DOMAIN work[r].rows THEN work[r].rows[id] ELSE NoRows
           new == Over(Single(id, Over(Written(seen[r], columns), before)), work[r].rows)
<1>1. CASE DOMAIN Written(seen[r], columns) = {}
  <2>1. work' = [work EXCEPT ![r].log = @ \cup entries]
    BY <1>1 DEF Update
  <2>2. PICK w : w = [rows |-> work[r].rows, log |-> work[r].log \cup entries]
    OBVIOUS
  <2>3. work[r] = [rows |-> work[r].rows, log |-> work[r].log]
    BY DEF Shaped
  <2>4. [work[r] EXCEPT !.log = @ \cup entries] = [rows |-> w.rows, log |-> w.log]
    BY <2>2, <2>3
  <2>5. work' = [work EXCEPT ![r] = [rows |-> w.rows, log |-> w.log]]
    BY <2>1, <2>4 DEF Shaped
  <2>6. /\ Stirs(r)
        /\ pc'[r] = s /\ op'[r] = op[r] /\ seen'[r] = seen[r] /\ answer'[r] = answer[r]
        /\ work'[r] = [rows |-> w.rows, log |-> w.log]
    BY <2>5, Going
  <2> QED
    BY <1>1, <2>2, <2>6
<1>2. CASE DOMAIN Written(seen[r], columns) # {}
  <2>1. PICK n : n = new
    OBVIOUS
  <2>2. Free(r, id) /\ work' = [work EXCEPT ![r] = [rows |-> n, log |-> @.log \cup entries]]
    BY <1>2, <2>1 DEF Update
  <2>3. PICK w : w = [rows |-> n, log |-> work[r].log \cup entries]
    OBVIOUS
  <2>4. work' = [work EXCEPT ![r] = [rows |-> w.rows, log |-> w.log]]
    BY <2>2, <2>3 DEF Shaped
  <2>5. /\ Stirs(r)
        /\ pc'[r] = s /\ op'[r] = op[r] /\ seen'[r] = seen[r] /\ answer'[r] = answer[r]
        /\ work'[r] = [rows |-> w.rows, log |-> w.log]
    BY <2>4, Going
  <2> QED
    BY <1>2, <2>1, <2>2, <2>3, <2>5
<1> QED
  BY <1>1, <1>2

\* The first update of a request.
LEMMA UpdatingFirst ==
  ASSUME NEW r \in Requests, NEW s \in Statements, Shaped, Goto(r, s), UNCHANGED <<seen, answer>>,
         NEW columns, NEW entries, Update(r, columns, entries), work[r] = NoWork
  PROVE /\ Stirs(r)
        /\ pc'[r] = s /\ op'[r] = op[r] /\ seen'[r] = seen[r] /\ answer'[r] = answer[r]
        /\ work'[r].log = entries
        /\ \/ DOMAIN Written(seen[r], columns) = {} /\ DOMAIN work'[r].rows = {}
           \/ /\ DOMAIN Written(seen[r], columns) # {}
              /\ Free(r, seen[r].id)
              /\ DOMAIN work'[r].rows = {seen[r].id}
              /\ work'[r].rows[seen[r].id] = Written(seen[r], columns)
<1>1. work[r].log = {} /\ DOMAIN work[r].rows = {}
  BY DEF NoWork, NoRows
<1>2. \A f : Over(f, NoRows) = [i \in DOMAIN f |-> f[i]]
  BY DEF Over, NoRows
<1>3. \A id, v : Over(Single(id, v), work[r].rows) = [i \in {id} |-> v]
  BY <1>1 DEF Over, Single
<1>4. Over(Written(seen[r], columns), NoRows) = Written(seen[r], columns)
  BY <1>2 DEF Written
<1>5. /\ Stirs(r)
      /\ pc'[r] = s /\ op'[r] = op[r] /\ seen'[r] = seen[r] /\ answer'[r] = answer[r]
      /\ work'[r].log = work[r].log \cup entries
      /\ \/ DOMAIN Written(seen[r], columns) = {} /\ work'[r].rows = work[r].rows
         \/ /\ DOMAIN Written(seen[r], columns) # {}
            /\ Free(r, seen[r].id)
            /\ work'[r].rows = Over(Single(seen[r].id, Over(Written(seen[r], columns), NoRows)), work[r].rows)
  <2>1. (IF seen[r].id \in DOMAIN work[r].rows THEN work[r].rows[seen[r].id] ELSE NoRows) = NoRows
    BY <1>1
  <2> QED
    BY <2>1, Updating
<1>6. PICK written : written = Written(seen[r], columns)
  OBVIOUS
<1>7. Over(Single(seen[r].id, written), work[r].rows) = [i \in {seen[r].id} |-> written]
  BY <1>3
<1>8. Over(written, NoRows) = written
  BY <1>4, <1>6
<1>9. CASE DOMAIN written = {}
  BY <1>1, <1>5, <1>6, <1>9
<1>10. CASE DOMAIN written # {}
  <2>1. work'[r].rows = [i \in {seen[r].id} |-> written]
    BY <1>5, <1>6, <1>7, <1>8, <1>10
  <2> QED
    BY <1>1, <1>5, <1>6, <1>10, <2>1
<1> QED
  BY <1>9, <1>10

\* The first insert of a request.
LEMMA InsertingFirst ==
  ASSUME NEW r \in Requests, NEW s \in Statements, Shaped, Goto(r, s), UNCHANGED <<seen, answer>>,
         NEW id, NEW row, NEW entries, InsertAs(r, id, row, entries), work[r] = NoWork
  PROVE /\ Stirs(r)
        /\ pc'[r] = s /\ op'[r] = op[r] /\ seen'[r] = seen[r] /\ answer'[r] = answer[r]
        /\ work'[r].log = entries
        /\ DOMAIN work'[r].rows = {id}
        /\ work'[r].rows[id] = [row EXCEPT !.id = id]
<1>1. work[r].log = {} /\ DOMAIN work[r].rows = {}
  BY DEF NoWork, NoRows
<1>2. PICK new : new = [row EXCEPT !.id = id]
  OBVIOUS
<1>3. \A v : Over(Single(id, v), work[r].rows) = [i \in {id} |-> v]
  BY <1>1 DEF Over, Single
<1>4. /\ Stirs(r)
      /\ pc'[r] = s /\ op'[r] = op[r] /\ seen'[r] = seen[r] /\ answer'[r] = answer[r]
      /\ work'[r] = [rows |-> Over(Single(id, new), work[r].rows), log |-> work[r].log \cup entries]
  BY <1>2, Inserting
<1>5. Over(Single(id, new), work[r].rows) = [i \in {id} |-> new] /\ work[r].log \cup entries = entries
  BY <1>1, <1>3
<1>6. work'[r].rows = [i \in {id} |-> new] /\ work'[r].log = entries
  BY <1>4, <1>5
<1> QED
  BY <1>2, <1>4, <1>6

\* A commit: the written columns of a row change and no others.
LEMMA Committing ==
  ASSUME NEW r \in Requests, Shaped, Commit(r)
  PROVE /\ Moves(r)
        /\ pc[r] = "commit" /\ pc'[r] = "done"
        /\ op'[r] = op[r] /\ seen'[r] = seen[r] /\ work'[r] = NoWork
        /\ answer'[r] = IF answer[r] = "none" THEN "200" ELSE answer[r]
        /\ log' = log \cup work[r].log
        /\ rows' = [id \in DOMAIN rows' |-> rows'[id]]
        /\ DOMAIN rows' = DOMAIN rows \cup DOMAIN work[r].rows
        /\ \A id \in DOMAIN rows :
             /\ id \notin DOMAIN work[r].rows => rows'[id] = rows[id]
             /\ id \in DOMAIN work[r].rows => rows'[id] = Over(work[r].rows[id], rows[id])
        /\ \A id \in DOMAIN work[r].rows : id \notin DOMAIN rows => rows'[id] = work[r].rows[id]
<1>1. PICK a \in Answers : a = IF answer[r] = "none" THEN "200" ELSE answer[r]
  BY DEF Shaped, Answers
<1>2. /\ pc[r] = "commit" /\ pc' = [pc EXCEPT ![r] = "done"]
      /\ work' = [work EXCEPT ![r] = NoWork] /\ answer' = [answer EXCEPT ![r] = a]
      /\ UNCHANGED <<table, clock, op, seen>>
  BY <1>1 DEF Commit, End
<1>3. NoWork = [rows |-> NoWork.rows, log |-> NoWork.log]
  BY DEF NoWork
<1>4. /\ Moves(r)
      /\ pc[r] = "commit" /\ pc'[r] = "done"
      /\ op'[r] = op[r] /\ seen'[r] = seen[r] /\ work'[r] = NoWork
      /\ answer'[r] = a
  BY <1>2, <1>3 DEF Shaped, Moves, Statements
<1>5. rows' = Merged(work[r].rows) /\ log' = log \cup work[r].log
  BY DEF Commit
<1>6. PICK w : w = work[r].rows
  OBVIOUS
<1>7. /\ Merged(w) = [id \in DOMAIN Merged(w) |-> Merged(w)[id]]
      /\ DOMAIN Merged(w) = DOMAIN rows \cup DOMAIN w
      /\ \A id \in DOMAIN rows :
             /\ id \notin DOMAIN w => Merged(w)[id] = Over(w, rows)[id]
             /\ id \in DOMAIN w => Merged(w)[id] = Over(w[id], rows[id])
      /\ \A id \in DOMAIN w : id \notin DOMAIN rows => Merged(w)[id] = Over(w, rows)[id]
  BY DEF Merged
<1>8. /\ \A id \in DOMAIN rows : id \notin DOMAIN w => Over(w, rows)[id] = rows[id]
      /\ \A id \in DOMAIN w : Over(w, rows)[id] = w[id]
  BY DEF Over
<1> QED
  BY <1>1, <1>4, <1>5, <1>6, <1>7, <1>8

------------------------------------------------------------------------------
(***************************************************************************)
(* Rows and locks.                                                         *)
(***************************************************************************)

\* The rows of the table have its type, each under its own identity.
RowsOK ==
  /\ rows = [id \in DOMAIN rows |-> rows[id]]
  /\ DOMAIN rows \subseteq AllIds
  /\ \A id \in DOMAIN rows : rows[id] \in Row[table] /\ rows[id].id = id

\* A request writes rows of the table or the rows it inserts, which are not there
\* before it ends, and no row another one has written.
Own(r) ==
  /\ pc[r] # "done" => r \notin DOMAIN rows /\ Second(r) \notin DOMAIN rows
  /\ pc[r] \in {"idle", "done"} => work[r] = NoWork
  /\ DOMAIN work[r].rows \subseteq DOMAIN rows \cup {r, Second(r)}
  /\ seen[r] # None => seen[r] \in Row[table] /\ seen[r].id \in DOMAIN rows
  /\ \A q \in Requests : q # r => DOMAIN work[q].rows \cap DOMAIN work[r].rows = {}

\* The rows requests insert are all different.
LEMMA RowsApart ==
  ASSUME NEW q \in Requests, NEW r \in Requests, q # r
  PROVE {q, Second(q)} \cap {r, Second(r)} = {}
  BY ServicesAssumption DEF Ids, Second

\* A step of r that commits nothing.
LEMMA OwnStirs ==
  ASSUME \A q \in Requests : Own(q), NEW r \in Requests, Stirs(r), Own(r)'
  PROVE \A q \in Requests : Own(q)'
<1> SUFFICES ASSUME NEW q \in Requests, q # r PROVE Own(q)'
  OBVIOUS
<1>1. /\ pc'[q] = pc[q] /\ seen'[q] = seen[q] /\ work'[q] = work[q] /\ rows' = rows /\ table' = table
      /\ \A p \in Requests : p # r => work'[p] = work[p]
  BY DEF Stirs, Moves
<1>2. DOMAIN work'[r].rows \cap DOMAIN work'[q].rows = {}
  BY DEF Own
<1> QED
  BY <1>1, <1>2 DEF Own

\* A step of r that writes nothing.
LEMMA OwnQuiet ==
  ASSUME RowsOK, \A q \in Requests : Own(q), NEW r \in Requests, Stirs(r),
         work'[r] = work[r], pc[r] # "done", pc'[r] \notin {"idle", "done"},
         seen'[r] \in {seen[r], None} \cup {rows[id] : id \in DOMAIN rows}
  PROVE \A q \in Requests : Own(q)'
<1>1. \A q \in Requests : q # r => work'[q] = work[q]
  BY DEF Stirs, Moves
<1>2. rows' = rows /\ table' = table
  BY DEF Stirs, Moves
<1>3. seen'[r] # None => seen'[r] \in Row[table] /\ seen'[r].id \in DOMAIN rows
  BY DEF Own, RowsOK
<1>4. Own(r)'
  BY <1>1, <1>2, <1>3 DEF Own
<1> QED
  BY <1>4, OwnStirs

\* A request that is refused or dies.
LEMMA OwnDiscard ==
  ASSUME \A q \in Requests : Own(q), NEW r \in Requests, Stirs(r),
         work'[r] = NoWork, pc'[r] = "done", seen'[r] = seen[r]
  PROVE \A q \in Requests : Own(q)'
<1>1. rows' = rows /\ table' = table /\ DOMAIN work'[r].rows = {}
  BY DEF Stirs, Moves, NoWork, NoRows
<1>2. Own(r)'
  BY <1>1 DEF Own
<1> QED
  BY <1>2, OwnStirs

\* A first update of a row that was loaded, which may find nothing to write.
LEMMA OwnUpdate ==
  ASSUME \A q \in Requests : Own(q), NEW r \in Requests, Stirs(r), seen[r] # None,
         DOMAIN work'[r].rows = {} \/ (Free(r, seen[r].id) /\ DOMAIN work'[r].rows = {seen[r].id}),
         seen'[r] = seen[r], pc[r] # "done", pc'[r] \notin {"idle", "done"}
  PROVE \A q \in Requests : Own(q)'
<1>1. rows' = rows /\ table' = table
  BY DEF Stirs, Moves
<1>2. \A q \in Requests : q # r =>
        work'[q] = work[q] /\ DOMAIN work'[r].rows \cap DOMAIN work[q].rows = {}
  BY DEF Stirs, Moves, Free
<1>3. Own(r)'
  BY <1>1, <1>2 DEF Own
<1> QED
  BY <1>3, OwnStirs

\* A first insert.
LEMMA OwnInsert ==
  ASSUME \A q \in Requests : Own(q), NEW r \in Requests, Stirs(r), NEW id \in {r, Second(r)},
         DOMAIN work'[r].rows = {id}, seen'[r] = seen[r],
         pc[r] # "done", pc'[r] \notin {"idle", "done"}
  PROVE \A q \in Requests : Own(q)'
<1>1. rows' = rows /\ table' = table
  BY DEF Stirs, Moves
<1>2. \A q \in Requests : q # r => work'[q] = work[q] /\ id \notin DOMAIN work[q].rows
  <2> SUFFICES ASSUME NEW q \in Requests, q # r PROVE work'[q] = work[q] /\ id \notin DOMAIN work[q].rows
    OBVIOUS
  <2>1. id \notin {q, Second(q)} /\ id \notin DOMAIN rows
    <3>1. {q, Second(q)} \cap {r, Second(r)} = {}
      BY RowsApart
    <3>2. r \notin DOMAIN rows /\ Second(r) \notin DOMAIN rows
      BY DEF Own
    <3> QED
      BY <3>1, <3>2
  <2>2. DOMAIN work[q].rows \subseteq DOMAIN rows \cup {q, Second(q)}
    BY DEF Own
  <2>3. work'[q] = work[q]
    BY DEF Stirs, Moves
  <2> QED
    BY <2>1, <2>2, <2>3
<1>3. Own(r)'
  BY <1>1, <1>2 DEF Own
<1> QED
  BY <1>3, OwnStirs

\* A commit.
LEMMA OwnCommit ==
  ASSUME Shaped, \A q \in Requests : Own(q), NEW r \in Requests, Commit(r), RowsOK'
  PROVE \A q \in Requests : Own(q)'
<1> SUFFICES ASSUME NEW q \in Requests PROVE Own(q)'
  OBVIOUS
<1>1. /\ pc'[r] = "done" /\ work'[r] = NoWork /\ seen'[r] = seen[r] /\ table' = table
      /\ DOMAIN rows' = DOMAIN rows \cup DOMAIN work[r].rows
      /\ \A p \in Requests : p # r => pc'[p] = pc[p] /\ work'[p] = work[p] /\ seen'[p] = seen[p]
  BY Committing DEF Moves
<1>2. DOMAIN NoWork.rows = {}
  BY DEF NoWork, NoRows
<1>3. DOMAIN rows' \subseteq DOMAIN rows \cup {r, Second(r)} /\ DOMAIN rows \subseteq DOMAIN rows'
  BY <1>1 DEF Own
<1>4. q # r => {q, Second(q)} \cap {r, Second(r)} = {}
  BY RowsApart
<1>5. pc'[q] # "done" => q \notin DOMAIN rows' /\ Second(q) \notin DOMAIN rows'
  BY <1>1, <1>3, <1>4 DEF Own
<1>6. \A p \in Requests : p # q => DOMAIN work'[p].rows \cap DOMAIN work'[q].rows = {}
  BY <1>1, <1>2 DEF Own
<1> QED
  BY <1>1, <1>2, <1>3, <1>5, <1>6 DEF Own

\* The requests of a behaviour use one table, and the clock only ticks.
LEMMA OnlyTicks == Next => table' = table /\ (Tick \/ clock' = clock)
<1> SUFFICES ASSUME Next, NEW r \in Requests,
                    Tick \/ ArriveAlert(r) \/ ArriveNotification(r) \/ ArriveIncident(r) \/ ArriveAccount(r)
                         \/ Step(r) \/ Abort(r)
             PROVE table' = table /\ (Tick \/ clock' = clock)
  BY DEF Next, Tick
<1>1. Tick => table' = table
  BY DEF Tick
<1>2. ArriveAlert(r) \/ ArriveNotification(r) \/ ArriveIncident(r) \/ ArriveAccount(r) => table' = table /\ clock' = clock
  BY DEF ArriveAlert, ArriveNotification, ArriveIncident, ArriveAccount, ArriveDirectory, ArriveConnection,
         ArriveBankAccount, Arrive, committed
<1>3. AlertStep(r) => table' = table /\ clock' = clock
  BY DEF AlertStep, SelectAlert, RaiseAlert, LoadAlert, SetAlert, Select, SelectById, Goto, Discard, End, committed
<1>4. NotificationStep(r) => table' = table /\ clock' = clock
  BY DEF NotificationStep, SelectNotification, InsertNotification, Claim, Send, LoadNotification,
         ReadNotification, Select, SelectById, Goto, Discard, End, committed
<1>5. IncidentStep(r) => table' = table /\ clock' = clock
  BY DEF IncidentStep, CreateIncident, LoadIncident, Acknowledge, Resolve, AddEvent, UpdateIncident, Escalate,
         Change, SelectById, Select, Goto, Discard, End, committed
<1>6. AccountStep(r) => table' = table /\ clock' = clock
  BY DEF AccountStep, LoadRow, SelectEmail, InsertMerchant, InsertUser, PatchMerchant, SelectAccount,
         ConnectAccount, SelectSource, ConnectSource, InsertConnection, SetStatus, InsertBankAccount,
         InitiateVerification, CompleteVerification, WithName, Select, Goto, Discard, End, committed
<1>7. Commit(r) \/ Abort(r) => table' = table /\ clock' = clock
  BY DEF Commit, Abort, Discard, End
<1> QED
  BY <1>1, <1>2, <1>3, <1>4, <1>5, <1>6, <1>7 DEF Step

LEMMA TableStays == Next => table' = table
  BY OnlyTicks

------------------------------------------------------------------------------
(***************************************************************************)
(* Alerts.                                                                 *)
(***************************************************************************)

AlertNames == {"create_alert"} \cup AlertRoutes

\* What a user's action may write.
AlertSettings(w) ==
  /\ DOMAIN w \subseteq {"status", "acknowledged_at", "resolved_at"}
  /\ "status" \in DOMAIN w => w["status"] \in AlertStatus
  /\ "acknowledged_at" \in DOMAIN w => w["acknowledged_at"] \in Requests
  /\ "resolved_at" \in DOMAIN w => w["resolved_at"] \in Requests

\* The row of the table, or the new one, that r has written.
AlertWork(r, id) ==
  LET w == work[r].rows[id] IN
  \/ /\ id \in DOMAIN rows /\ seen[r] # None /\ id = seen[r].id
     /\ \/ /\ op[r].name = "create_alert" /\ seen[r].status # "resolved"
           /\ DOMAIN w = {"occurrence_count"}
           /\ w["occurrence_count"] = seen[r].occurrence_count + 1
        \/ op[r].name \in AlertRoutes /\ AlertSettings(w)
  \/ /\ id = r /\ op[r].name = "create_alert"
     /\ seen[r] # None => seen[r].status = "resolved"
     /\ w \in Alert /\ w.id = r /\ w.occurrence_count = 1

AlertRequest(r) ==
  /\ pc[r] \in {"idle", "select", "write", "commit", "done"}
  /\ pc[r] # "done" => answer[r] = "none"
  /\ pc[r] # "idle" =>
       /\ op[r].name \in AlertNames
       /\ op[r].name = "update_alert" => op[r].status \in AlertStatus
       /\ op[r].name = "create_alert" => op[r].source \in Sources \cup {None}
  /\ pc[r] \in {"select", "write"} => work[r] = NoWork
  /\ pc[r] = "write" /\ op[r].name \in AlertRoutes => seen[r] # None
  /\ work[r].log = {}
  /\ \A id \in DOMAIN work[r].rows : AlertWork(r, id)

AlertsInv ==
  table = "alerts" =>
    Shaped /\ RowsOK /\ \A r \in Requests : Own(r) /\ AlertRequest(r)

LEMMA AlertRows == Row["alerts"] = Alert
  BY DEF Row

\* The initial rows.
LEMMA InitialRowsOK ==
  ASSUME Init
  PROVE RowsOK /\ Shaped /\ \A r \in Requests : Own(r) /\ pc[r] = "idle" /\ work[r] = NoWork /\ answer[r] = "none"
                                               /\ seen[r] = None
<1>1. /\ pc = [r \in Requests |-> "idle"] /\ op = [r \in Requests |-> None]
      /\ seen = [r \in Requests |-> None] /\ work = [r \in Requests |-> NoWork]
      /\ answer = [r \in Requests |-> "none"]
  BY DEF Init, Idle
<1>2. /\ table \in DOMAIN Row
      /\ rows = [id \in DOMAIN rows |-> rows[id]]
      /\ DOMAIN rows \subseteq Old \cup {Second(id) : id \in Old}
      /\ \A id \in DOMAIN rows : rows[id] \in Row[table] /\ rows[id].id = id
  BY ServicesAssumption DEF Init
<1>3. RowsOK
  BY <1>2 DEF RowsOK, AllIds, Ids
<1>4. Shaped
  BY <1>1 DEF Shaped, NoWork, Statements, Answers
<1>5. \A r \in Requests : r \notin DOMAIN rows /\ Second(r) \notin DOMAIN rows
  <2> SUFFICES ASSUME NEW r \in Requests PROVE r \notin DOMAIN rows /\ Second(r) \notin DOMAIN rows
    OBVIOUS
  <2>1. \A id \in Old : r # id /\ r # Second(id) /\ Second(r) # id /\ Second(r) # Second(id)
    BY ServicesAssumption, SessionsAssumption DEF Ids, Second
  <2> QED
    BY <1>2, <2>1
<1>6. \A r \in Requests : Own(r)
  BY <1>1, <1>5 DEF Own, NoWork, NoRows
<1> QED
  BY <1>1, <1>3, <1>4, <1>6

\* With alerts in the table, the steps are those of alerts.
LEMMA AlertSteps ==
  ASSUME AlertsInv, table = "alerts", Next
  PROVE \E r \in Requests : ArriveAlert(r) \/ AlertStep(r) \/ Commit(r) \/ Abort(r)
<1>1. ~Tick
  BY DEF Tick
<1>2. PICK r \in Requests : \/ ArriveAlert(r) \/ ArriveNotification(r) \/ ArriveIncident(r) \/ ArriveAccount(r)
                            \/ Step(r) \/ Abort(r)
  BY <1>1 DEF Next
<1>3. ~ArriveNotification(r) /\ ~ArriveIncident(r) /\ ~ArriveAccount(r)
  BY DEF ArriveNotification, ArriveIncident, ArriveAccount, ArriveDirectory, ArriveConnection, ArriveBankAccount
<1>4. /\ pc[r] \in {"idle", "select", "write", "commit", "done"}
      /\ pc[r] # "idle" => op[r].name \in {"create_alert", "update_alert", "acknowledge_alert", "resolve_alert"}
  BY DEF AlertsInv, AlertRequest, AlertNames, AlertRoutes
<1>5. ~NotificationStep(r)
  BY <1>4 DEF NotificationStep, SelectNotification, InsertNotification, Claim, Send, LoadNotification,
              ReadNotification, At
<1>6. ~IncidentStep(r)
  BY <1>4 DEF IncidentStep, CreateIncident, LoadIncident, Acknowledge, Resolve, AddEvent, UpdateIncident,
              Escalate, At
<1>7. ~AccountStep(r)
  BY <1>4 DEF AccountStep, LoadRow, SelectEmail, InsertMerchant, InsertUser, PatchMerchant, SelectAccount,
              ConnectAccount, SelectSource, ConnectSource, InsertConnection, SetStatus, InsertBankAccount,
              InitiateVerification, CompleteVerification, At
<1> QED
  BY <1>2, <1>3, <1>5, <1>6, <1>7 DEF Step

\* A step of r that commits nothing leaves the others as they were.
LEMMA AlertStirs ==
  ASSUME \A q \in Requests : AlertRequest(q), NEW r \in Requests, Stirs(r), AlertRequest(r)'
  PROVE \A q \in Requests : AlertRequest(q)'
<1> SUFFICES ASSUME NEW q \in Requests, q # r PROVE AlertRequest(q)'
  OBVIOUS
<1>1. /\ pc'[q] = pc[q] /\ op'[q] = op[q] /\ seen'[q] = seen[q] /\ work'[q] = work[q]
      /\ answer'[q] = answer[q] /\ rows' = rows
  BY DEF Stirs, Moves
<1> QED
  BY <1>1 DEF AlertRequest, AlertWork

\* What is left to show of such a step.
LEMMA AlertStirred ==
  ASSUME AlertsInv, table = "alerts", NEW r \in Requests, Stirs(r),
         \A q \in Requests : Own(q)', AlertRequest(r)'
  PROVE AlertsInv'
<1>1. Shaped' /\ rows' = rows /\ table' = table
  BY DEF Stirs, Moves
<1>2. RowsOK'
  BY <1>1 DEF RowsOK, AlertsInv
<1>3. \A q \in Requests : AlertRequest(q)'
  BY AlertStirs DEF AlertsInv
<1> QED
  BY <1>1, <1>2, <1>3 DEF AlertsInv

LEMMA AlertArrives ==
  ASSUME AlertsInv, table = "alerts", NEW r \in Requests, ArriveAlert(r)
  PROVE Stirs(r) /\ AlertsInv'
<1>1. PICK o : /\ Arrive(r, o, "select")
               /\ o.name \in AlertNames
               /\ o.name = "update_alert" => o.status \in AlertStatus
               /\ o.name = "create_alert" => o.source \in Sources \cup {None}
  <2>1. CASE \E s \in Sources \cup {None} : Arrive(r, [name |-> "create_alert", source |-> s], "select")
    BY <2>1 DEF AlertNames
  <2>2. CASE \E id \in Ids, s \in AlertStatus :
               Arrive(r, [name |-> "update_alert", id |-> id, status |-> s], "select")
    BY <2>2 DEF AlertNames, AlertRoutes
  <2>3. CASE \E id \in Ids, n \in {"acknowledge_alert", "resolve_alert"} :
               Arrive(r, [name |-> n, id |-> id], "select")
    BY <2>3 DEF AlertNames, AlertRoutes
  <2> QED
    BY <2>1, <2>2, <2>3 DEF ArriveAlert
<1>2. /\ Stirs(r) /\ pc[r] = "idle" /\ pc'[r] = "select" /\ op'[r] = o
      /\ seen'[r] = seen[r] /\ work'[r] = work[r] /\ answer'[r] = answer[r]
  BY <1>1, Arriving DEF AlertsInv, Statements
<1>3. \A q \in Requests : Own(q)'
  BY <1>2, OwnQuiet DEF AlertsInv
<1>4. work[r] = NoWork /\ answer[r] = "none"
  BY <1>2 DEF AlertsInv, AlertRequest, Own
<1>5. AlertRequest(r)'
  BY <1>1, <1>2, <1>4 DEF AlertRequest, NoWork, NoRows
<1> QED
  BY <1>2, <1>3, <1>5, AlertStirred

LEMMA AlertSelects ==
  ASSUME AlertsInv, table = "alerts", NEW r \in Requests, SelectAlert(r)
  PROVE Stirs(r) /\ AlertsInv'
<1>1. PICK found : /\ Select(r, found, "write")
                   /\ found \subseteq {rows[id] : id \in DOMAIN rows}
  BY DEF SelectAlert
<1>2. pc[r] = "select" /\ op[r].name = "create_alert"
  BY DEF SelectAlert, At
<1>3. /\ Stirs(r) /\ pc'[r] = "write" /\ op'[r] = op[r] /\ work'[r] = work[r] /\ answer'[r] = answer[r]
      /\ IF found = {} THEN seen'[r] = None ELSE seen'[r] \in found
  BY <1>1, Selecting DEF AlertsInv, Statements
<1>4. \A q \in Requests : Own(q)'
  BY <1>1, <1>2, <1>3, OwnQuiet DEF AlertsInv
<1>5. AlertRequest(r)'
  BY <1>2, <1>3 DEF AlertsInv, AlertRequest, NoWork, NoRows, AlertRoutes
<1> QED
  BY <1>3, <1>4, <1>5, AlertStirred

LEMMA AlertLoads ==
  ASSUME AlertsInv, table = "alerts", NEW r \in Requests, LoadAlert(r)
  PROVE Stirs(r) /\ AlertsInv'
<1>1. SelectById(r, op[r].id) /\ pc[r] = "select" /\ op[r].name \in AlertRoutes
  BY DEF LoadAlert
<1>2. Stirs(r) /\ op'[r] = op[r]
  BY <1>1, SelectingById DEF AlertsInv
<1>3. CASE /\ pc'[r] = "done" /\ answer'[r] = "404" /\ work'[r] = NoWork /\ seen'[r] = seen[r]
  <2>1. \A q \in Requests : Own(q)'
    BY <1>2, <1>3, OwnDiscard DEF AlertsInv
  <2>2. AlertRequest(r)'
    BY <1>1, <1>2, <1>3 DEF AlertsInv, AlertRequest, NoWork, NoRows
  <2> QED
    BY <1>2, <2>1, <2>2, AlertStirred
<1>4. CASE /\ pc'[r] = "write" /\ answer'[r] = answer[r] /\ work'[r] = work[r]
           /\ op[r].id \in DOMAIN rows /\ seen'[r] = rows[op[r].id]
  <2>1. \A q \in Requests : Own(q)'
    BY <1>1, <1>2, <1>4, OwnQuiet DEF AlertsInv
  <2>2. seen'[r] # None
    BY <1>4, ServicesAssumption DEF AlertsInv, RowsOK, Row
  <2>3. AlertRequest(r)'
    BY <1>1, <1>2, <1>4, <2>2 DEF AlertsInv, AlertRequest, NoWork, NoRows
  <2> QED
    BY <1>2, <2>1, <2>3, AlertStirred
<1> QED
  BY <1>1, <1>2, <1>3, <1>4, SelectingById DEF AlertsInv

LEMMA AlertDies ==
  ASSUME AlertsInv, table = "alerts", NEW r \in Requests, Abort(r)
  PROVE Stirs(r) /\ pc'[r] = "done" /\ answer'[r] = "lost" /\ pc[r] # "done" /\ AlertsInv'
<1>1. /\ Stirs(r) /\ pc'[r] = "done" /\ answer'[r] = "lost" /\ work'[r] = NoWork
      /\ op'[r] = op[r] /\ seen'[r] = seen[r] /\ pc[r] \notin {"idle", "done"}
  BY Discarding DEF Abort, AlertsInv, Answers
<1>2. \A q \in Requests : Own(q)'
  BY <1>1, OwnDiscard DEF AlertsInv
<1>3. AlertRequest(r)'
  BY <1>1 DEF AlertsInv, AlertRequest, NoWork, NoRows
<1> QED
  BY <1>1, <1>2, <1>3, AlertStirred

\* The columns an update writes are among those it is given, with their values.
LEMMA WrittenColumns ==
  ASSUME NEW loaded, NEW columns
  PROVE /\ DOMAIN Written(loaded, columns) \subseteq DOMAIN columns
        /\ \A c \in DOMAIN Written(loaded, columns) : Written(loaded, columns)[c] = columns[c]
        /\ \A c \in DOMAIN columns : columns[c] # loaded[c] => c \in DOMAIN Written(loaded, columns)
        /\ \A c \in DOMAIN Written(loaded, columns) : columns[c] # loaded[c]
  BY DEF Written

LEMMA AlertIsRaised ==
  ASSUME AlertsInv, table = "alerts", NEW r \in Requests, RaiseAlert(r)
  PROVE Stirs(r) /\ AlertsInv'
<1>1. /\ pc[r] = "write" /\ op[r].name = "create_alert" /\ work[r] = NoWork
      /\ Goto(r, "commit") /\ UNCHANGED <<seen, answer>>
  BY DEF RaiseAlert, At, AlertsInv, AlertRequest
<1>2. CASE seen[r] # None /\ seen[r].status # "resolved"
  <2>1. PICK columns : columns = [occurrence_count |-> seen[r].occurrence_count + 1]
    OBVIOUS
  <2>2. Update(r, columns, {})
    BY <1>2, <2>1 DEF RaiseAlert
  <2>3. /\ Stirs(r) /\ pc'[r] = "commit" /\ op'[r] = op[r] /\ seen'[r] = seen[r] /\ answer'[r] = answer[r]
        /\ work'[r].log = {}
        /\ \/ DOMAIN Written(seen[r], columns) = {} /\ DOMAIN work'[r].rows = {}
           \/ /\ Free(r, seen[r].id)
              /\ DOMAIN work'[r].rows = {seen[r].id}
              /\ work'[r].rows[seen[r].id] = Written(seen[r], columns)
    BY <1>1, <2>2, UpdatingFirst DEF AlertsInv, Statements
  <2>4. seen[r] \in Alert
    BY <1>2, AlertRows DEF AlertsInv, Own
  <2>5. DOMAIN columns = {"occurrence_count"} /\ columns["occurrence_count"] = seen[r].occurrence_count + 1
    BY <2>1
  <2>6. columns["occurrence_count"] # seen[r]["occurrence_count"]
    BY <2>4, <2>5 DEF Alert
  <2>7. /\ DOMAIN Written(seen[r], columns) = {"occurrence_count"}
        /\ Written(seen[r], columns)["occurrence_count"] = seen[r].occurrence_count + 1
    BY <2>5, <2>6 DEF Written
  <2>8. \A q \in Requests : Own(q)'
    BY <1>1, <1>2, <2>3, <2>7, OwnUpdate DEF AlertsInv
  <2>9. rows' = rows /\ seen[r].id \in DOMAIN rows
    BY <1>2, <2>3 DEF Stirs, AlertsInv, Own
  <2>10. AlertWork(r, seen[r].id)'
    BY <1>1, <1>2, <2>3, <2>7, <2>9 DEF AlertWork
  <2>11. AlertRequest(r)'
    BY <1>1, <2>3, <2>7, <2>10 DEF AlertsInv, AlertRequest, AlertRoutes
  <2> QED
    BY <2>3, <2>8, <2>11, AlertStirred
<1>3. CASE ~(seen[r] # None /\ seen[r].status # "resolved")
  <2>1. PICK row : row = NewAlert(op[r].source)
    OBVIOUS
  <2>2. InsertAs(r, r, row, {})
    BY <1>3, <2>1 DEF RaiseAlert, Insert
  <2>3. /\ Stirs(r) /\ pc'[r] = "commit" /\ op'[r] = op[r] /\ seen'[r] = seen[r] /\ answer'[r] = answer[r]
        /\ work'[r].log = {}
        /\ DOMAIN work'[r].rows = {r} /\ work'[r].rows[r] = [row EXCEPT !.id = r]
    BY <1>1, <2>2, InsertingFirst, ZenonT(40) DEF AlertsInv, Statements
  <2>4. \A q \in Requests : Own(q)'
    BY <1>1, <2>3, OwnInsert DEF AlertsInv
  <2>5. op[r].source \in Sources \cup {None}
    BY <1>1 DEF AlertsInv, AlertRequest
  <2>6. work'[r].rows[r] \in Alert /\ work'[r].rows[r].id = r /\ work'[r].rows[r].occurrence_count = 1
    BY <2>1, <2>3, <2>5 DEF NewAlert, Alert, AlertStatus, Ids
  <2>7. AlertWork(r, r)'
    BY <1>1, <1>3, <2>3, <2>6 DEF AlertWork
  <2>8. AlertRequest(r)'
    BY <1>1, <2>3, <2>7 DEF AlertsInv, AlertRequest, AlertRoutes
  <2> QED
    BY <2>3, <2>4, <2>8, AlertStirred
<1> QED
  BY <1>2, <1>3

LEMMA AlertIsSet ==
  ASSUME AlertsInv, table = "alerts", NEW r \in Requests, SetAlert(r)
  PROVE Stirs(r) /\ AlertsInv'
<1>1. /\ pc[r] = "write" /\ op[r].name \in AlertRoutes /\ work[r] = NoWork /\ seen[r] # None
      /\ Goto(r, "commit") /\ UNCHANGED <<seen, answer>>
  BY DEF SetAlert, AlertsInv, AlertRequest
<1>2. PICK columns : Update(r, columns, {}) /\ AlertSettings(columns)
  <2>1. CASE op[r].name = "update_alert"
    <3>1. op[r].status \in AlertStatus
      BY <1>1, <2>1 DEF AlertsInv, AlertRequest
    <3> QED
      BY <2>1, <3>1 DEF SetAlert, AlertSettings
  <2>2. CASE op[r].name = "acknowledge_alert"
    BY <2>2 DEF SetAlert, AlertSettings, AlertStatus
  <2>3. CASE op[r].name = "resolve_alert"
    BY <2>3 DEF SetAlert, AlertSettings, AlertStatus
  <2> QED
    BY <1>1, <2>1, <2>2, <2>3 DEF AlertRoutes
<1>3. /\ Stirs(r) /\ pc'[r] = "commit" /\ op'[r] = op[r] /\ seen'[r] = seen[r] /\ answer'[r] = answer[r]
      /\ work'[r].log = {}
      /\ \/ DOMAIN work'[r].rows = {}
         \/ /\ Free(r, seen[r].id)
            /\ DOMAIN work'[r].rows = {seen[r].id}
            /\ work'[r].rows[seen[r].id] = Written(seen[r], columns)
  BY <1>1, <1>2, UpdatingFirst DEF AlertsInv, Statements
<1>4. AlertSettings(Written(seen[r], columns))
  BY <1>2, WrittenColumns DEF AlertSettings
<1>5. \A q \in Requests : Own(q)'
  <2>1. DOMAIN work'[r].rows = {} \/ (Free(r, seen[r].id) /\ DOMAIN work'[r].rows = {seen[r].id})
    BY <1>3
  <2>2. pc[r] # "done" /\ pc'[r] \notin {"idle", "done"} /\ seen'[r] = seen[r] /\ seen[r] # None
    BY <1>1, <1>3
  <2> QED
    BY <1>3, <2>1, <2>2, OwnUpdate DEF AlertsInv
<1>6. \A id \in DOMAIN work'[r].rows : AlertWork(r, id)'
  <2>1. rows' = rows /\ seen[r].id \in DOMAIN rows
    BY <1>1, <1>3 DEF Stirs, AlertsInv, Own
  <2> QED
    BY <1>1, <1>3, <1>4, <2>1 DEF AlertWork
<1>7. AlertRequest(r)'
  BY <1>1, <1>3, <1>6 DEF AlertsInv, AlertRequest
<1> QED
  BY <1>3, <1>5, <1>7, AlertStirred

\* What becomes of an alert that a user's action has written.
LEMMA AlertAfterSetting ==
  ASSUME NEW row \in Alert, NEW w, AlertSettings(w)
  PROVE /\ Over(w, row) \in Alert
        /\ Over(w, row).id = row.id /\ Over(w, row).occurrence_count = row.occurrence_count
  BY DEF AlertSettings, Over, Alert

\* What becomes of an alert on which an occurrence was counted.
LEMMA AlertAfterCounting ==
  ASSUME NEW row \in Alert, NEW w, DOMAIN w = {"occurrence_count"}, w["occurrence_count"] \in Nat \ {0}
  PROVE /\ Over(w, row) \in Alert
        /\ Over(w, row).id = row.id /\ Over(w, row).status = row.status
        /\ Over(w, row).resolved_at = row.resolved_at
        /\ Over(w, row).occurrence_count = w["occurrence_count"]
  BY DEF Over, Alert

\* A committed alert: what is new of it.
LEMMA AlertCommitted ==
  ASSUME AlertsInv, table = "alerts", NEW r \in Requests, Commit(r)
  PROVE /\ RowsOK'
        /\ \A id \in DOMAIN rows :
             \/ rows'[id].occurrence_count = rows[id].occurrence_count
             \/ /\ rows'[id].status = rows[id].status /\ rows'[id].resolved_at = rows[id].resolved_at
                /\ op[r].name = "create_alert" /\ seen[r] # None /\ seen[r].status # "resolved"
                /\ seen[r].id = id
                /\ rows'[id].occurrence_count = seen[r].occurrence_count + 1
        /\ \A id \in DOMAIN rows' \ DOMAIN rows :
             /\ id = r /\ rows'[id].occurrence_count = 1
             /\ op[r].name = "create_alert" /\ (seen[r] # None => seen[r].status = "resolved")
<1>1. /\ table' = table
      /\ rows' = [id \in DOMAIN rows' |-> rows'[id]]
      /\ DOMAIN rows' = DOMAIN rows \cup DOMAIN work[r].rows
      /\ \A id \in DOMAIN rows :
           /\ id \notin DOMAIN work[r].rows => rows'[id] = rows[id]
           /\ id \in DOMAIN work[r].rows => rows'[id] = Over(work[r].rows[id], rows[id])
      /\ \A id \in DOMAIN work[r].rows : id \notin DOMAIN rows => rows'[id] = work[r].rows[id]
  BY Committing DEF AlertsInv, Moves
<1>2. \A id \in DOMAIN rows : rows[id] \in Alert /\ rows[id].id = id
  BY AlertRows DEF AlertsInv, RowsOK
<1>3. \A id \in DOMAIN work[r].rows : AlertWork(r, id)
  BY DEF AlertsInv, AlertRequest
<1>4. r \notin DOMAIN rows \/ DOMAIN work[r].rows = {}
  BY DEF AlertsInv, Own, NoWork, NoRows
<1>5. seen[r] # None => seen[r] \in Alert /\ seen[r].occurrence_count + 1 \in Nat \ {0}
  BY AlertRows DEF AlertsInv, Own, Alert
<1>6. ASSUME NEW id \in DOMAIN rows
      PROVE /\ rows'[id] \in Alert /\ rows'[id].id = id
            /\ \/ rows'[id].occurrence_count = rows[id].occurrence_count
               \/ /\ rows'[id].status = rows[id].status /\ rows'[id].resolved_at = rows[id].resolved_at
                  /\ op[r].name = "create_alert" /\ seen[r] # None /\ seen[r].status # "resolved"
                  /\ seen[r].id = id
                  /\ rows'[id].occurrence_count = seen[r].occurrence_count + 1
  <2>1. CASE id \notin DOMAIN work[r].rows
    BY <1>1, <1>2, <2>1
  <2>2. CASE id \in DOMAIN work[r].rows
    <3>1. rows'[id] = Over(work[r].rows[id], rows[id]) /\ rows[id] \in Alert /\ rows[id].id = id
      BY <1>1, <1>2, <2>2
    <3>2. id # r
      BY <1>4, <2>2
    <3>3. AlertWork(r, id)
      BY <1>3, <2>2
    <3>4. CASE op[r].name \in AlertRoutes /\ AlertSettings(work[r].rows[id])
      BY <3>1, <3>4, AlertAfterSetting
    <3>5. CASE /\ op[r].name = "create_alert" /\ seen[r] # None /\ seen[r].status # "resolved" /\ seen[r].id = id
               /\ DOMAIN work[r].rows[id] = {"occurrence_count"}
               /\ work[r].rows[id]["occurrence_count"] = seen[r].occurrence_count + 1
      <4>1. PICK w : w = work[r].rows[id]
        OBVIOUS
      <4>2. DOMAIN w = {"occurrence_count"} /\ w["occurrence_count"] \in Nat \ {0}
        BY <1>5, <3>5, <4>1
      <4>3. /\ Over(w, rows[id]) \in Alert
            /\ Over(w, rows[id]).id = rows[id].id /\ Over(w, rows[id]).status = rows[id].status
            /\ Over(w, rows[id]).resolved_at = rows[id].resolved_at
            /\ Over(w, rows[id]).occurrence_count = w["occurrence_count"]
        BY <3>1, <4>2, AlertAfterCounting
      <4> QED
        BY <3>1, <3>5, <4>1, <4>3
    <3> QED
      BY <3>2, <3>3, <3>4, <3>5 DEF AlertWork
  <2> QED
    BY <2>1, <2>2
<1>7. ASSUME NEW id \in DOMAIN rows' \ DOMAIN rows
      PROVE /\ rows'[id] \in Alert /\ rows'[id].id = id
            /\ id = r /\ rows'[id].occurrence_count = 1
            /\ op[r].name = "create_alert" /\ (seen[r] # None => seen[r].status = "resolved")
  <2>1. id \in DOMAIN work[r].rows /\ rows'[id] = work[r].rows[id]
    BY <1>1
  <2>2. AlertWork(r, id)
    BY <1>3, <2>1
  <2> QED
    BY <2>1, <2>2 DEF AlertWork
<1>8. DOMAIN rows' \subseteq AllIds
  BY <1>1, <1>7 DEF AlertsInv, RowsOK, AllIds, Ids
<1>9. RowsOK'
  <2>1. \A id \in DOMAIN rows' : rows'[id] \in Row[table]' /\ rows'[id].id = id
    BY <1>1, <1>6, <1>7, AlertRows
  <2> QED
    BY <1>1, <1>8, <2>1 DEF RowsOK
<1> QED
  BY <1>6, <1>7, <1>9

LEMMA AlertCommits ==
  ASSUME AlertsInv, table = "alerts", NEW r \in Requests, Commit(r)
  PROVE AlertsInv'
<1>1. RowsOK'
  BY AlertCommitted
<1>2. \A q \in Requests : Own(q)'
  BY <1>1, OwnCommit DEF AlertsInv
<1>3. /\ Moves(r) /\ pc[r] = "commit" /\ pc'[r] = "done" /\ op'[r] = op[r] /\ work'[r] = NoWork
      /\ DOMAIN rows \subseteq DOMAIN rows'
  BY Committing DEF AlertsInv
<1>4. AlertRequest(r)'
  BY <1>3 DEF AlertsInv, AlertRequest, NoWork, NoRows
<1>5. ASSUME NEW q \in Requests, q # r
      PROVE AlertRequest(q)'
  <2>1. /\ pc'[q] = pc[q] /\ op'[q] = op[q] /\ seen'[q] = seen[q] /\ work'[q] = work[q] /\ answer'[q] = answer[q]
    BY <1>3, <1>5 DEF Moves
  <2>2. \A id \in DOMAIN work'[q].rows : AlertWork(q, id)'
    BY <1>3, <2>1 DEF AlertsInv, AlertRequest, AlertWork
  <2> QED
    BY <2>1, <2>2 DEF AlertsInv, AlertRequest
<1> QED
  BY <1>1, <1>2, <1>3, <1>4, <1>5 DEF AlertsInv, Moves

\* Every step keeps the invariant of alerts.
LEMMA AlertsStep == AlertsInv /\ [Next]_vars => AlertsInv'
<1> SUFFICES ASSUME AlertsInv, [Next]_vars, table' = "alerts" PROVE AlertsInv'
  BY DEF AlertsInv
<1>1. CASE UNCHANGED vars
  BY <1>1 DEF vars, AlertsInv, Shaped, RowsOK, Own, AlertRequest, AlertWork
<1>2. CASE Next
  <2>1. table = "alerts"
    BY <1>2, TableStays
  <2>2. PICK r \in Requests : ArriveAlert(r) \/ AlertStep(r) \/ Commit(r) \/ Abort(r)
    BY <1>2, <2>1, AlertSteps
  <2> QED
    BY <2>1, <2>2, AlertArrives, AlertSelects, AlertLoads, AlertIsRaised, AlertIsSet, AlertCommits, AlertDies
       DEF AlertStep
<1> QED
  BY <1>1, <1>2

LEMMA AlertsStart == Init => AlertsInv
<1> SUFFICES ASSUME Init, table = "alerts" PROVE AlertsInv
  BY DEF AlertsInv
<1>1. /\ RowsOK /\ Shaped
      /\ \A r \in Requests : Own(r) /\ pc[r] = "idle" /\ work[r] = NoWork /\ answer[r] = "none"
  BY InitialRowsOK
<1>2. \A r \in Requests : AlertRequest(r)
  BY <1>1 DEF AlertRequest, NoWork, NoRows
<1> QED
  BY <1>1, <1>2 DEF AlertsInv

\* What a step of alerts is.
LEMMA AlertStepOrCommit ==
  ASSUME AlertsInv, table = "alerts", Next
  PROVE \E r \in Requests : (Stirs(r) /\ ~Commit(r)) \/ Commit(r)
<1>1. PICK r \in Requests : ArriveAlert(r) \/ AlertStep(r) \/ Commit(r) \/ Abort(r)
  BY AlertSteps
<1> QED
  BY <1>1, AlertArrives, AlertSelects, AlertLoads, AlertIsRaised, AlertIsSet, AlertDies DEF AlertStep

\* What is counted on an alert and what a user has set never undo one another:
\* services/alert.py writes only the columns it has changed.
THEOREM CountsAndStatusesStay == Spec => CountsAndStatusesAreKept
<1> DEFINE Kept == table = "alerts" =>
             \A id \in DOMAIN rows :
               \/ rows'[id].occurrence_count = rows[id].occurrence_count
               \/ rows'[id].status = rows[id].status /\ rows'[id].resolved_at = rows[id].resolved_at
<1>1. AlertsInv /\ [Next]_vars => [Kept]_vars
  <2> SUFFICES ASSUME AlertsInv, Next, table = "alerts" PROVE Kept
    OBVIOUS
  <2>1. PICK r \in Requests : Stirs(r) \/ Commit(r)
    BY AlertStepOrCommit
  <2> QED
    BY <2>1, AlertCommitted DEF Stirs
<1> QED
  BY <1>1, AlertsStart, AlertsStep, PTL DEF Spec, CountsAndStatusesAreKept

\* The alert a request counts its occurrence on: the one it has loaded, or its own.
Target(r) == IF seen[r] # None /\ seen[r].status # "resolved" THEN seen[r].id ELSE r

Raises(id) == {r \in Requests : Committed(r) /\ op[r].name = "create_alert" /\ Target(r) = id}

\* What may be counted on an alert: that it was there, and every raise that has counted.
Countable(id) == ({id} \cap Old) \cup Raises(id)

\* An alert counts no more than that, and no more has the copy of one that a request
\* has loaded: raises are never taken back.
CountsInv ==
  table = "alerts" =>
    /\ \A id \in DOMAIN rows : rows[id].occurrence_count <= Cardinality(Countable(id))
    /\ \A r \in Requests :
         seen[r] # None => seen[r].occurrence_count <= Cardinality(Countable(seen[r].id))

LEMMA CountableIsFinite == \A id : IsFiniteSet(Countable(id)) /\ Cardinality(Countable(id)) \in Nat
<1> SUFFICES ASSUME NEW id PROVE IsFiniteSet(Countable(id)) /\ Cardinality(Countable(id)) \in Nat
  OBVIOUS
<1>1. Countable(id) \subseteq Ids
  BY DEF Countable, Raises, Ids
<1>2. IsFiniteSet(Ids)
  BY ServicesAssumption, FS_Union DEF Ids
<1> QED
  BY <1>1, <1>2, FS_Subset, FS_CardinalityType

\* A step that commits nothing ends a request only without having counted, and loads
\* only rows of the table.
LEMMA AlertEnds ==
  ASSUME AlertsInv, table = "alerts", NEW r \in Requests,
         ArriveAlert(r) \/ AlertStep(r) \/ Abort(r)
  PROVE /\ pc[r] # "done" /\ (pc'[r] = "done" => answer'[r] \in {"404", "lost"})
        /\ seen'[r] \in {seen[r], None} \cup {rows[id] : id \in DOMAIN rows}
<1>1. r \in DOMAIN pc /\ r \in DOMAIN answer /\ r \in DOMAIN seen
  BY DEF AlertsInv, Shaped
<1>2. CASE ArriveAlert(r)
  <2>1. PICK o : Arrive(r, o, "select")
    BY <1>2 DEF ArriveAlert
  <2> QED
    BY <1>1, <2>1 DEF Arrive
<1>3. CASE SelectAlert(r)
  <2>1. PICK found : Select(r, found, "write") /\ found \subseteq {rows[id] : id \in DOMAIN rows}
    BY <1>3 DEF SelectAlert
  <2>2. pc[r] = "select"
    BY <1>3 DEF SelectAlert, At
  <2>3. pc'[r] = "write" /\ IF found = {} THEN seen'[r] = None ELSE seen'[r] \in found
    BY <2>1, Selecting DEF AlertsInv, Statements
  <2> QED
    BY <2>1, <2>2, <2>3
<1>4. CASE RaiseAlert(r) \/ SetAlert(r)
  BY <1>1, <1>4 DEF RaiseAlert, SetAlert, Goto, At
<1>5. CASE LoadAlert(r)
  <2>1. pc[r] = "select"
    BY <1>5 DEF LoadAlert
  <2> QED
    BY <2>1, <1>5, SelectingById DEF LoadAlert, AlertsInv
<1>6. CASE Abort(r)
  BY <1>1, <1>6 DEF Abort, Discard, End
<1> QED
  BY <1>2, <1>3, <1>4, <1>5, <1>6 DEF AlertStep

LEMMA CountsStir ==
  ASSUME AlertsInv, CountsInv, table = "alerts", NEW r \in Requests,
         ArriveAlert(r) \/ AlertStep(r) \/ Abort(r), Stirs(r)
  PROVE CountsInv'
<1>1. /\ pc[r] # "done" /\ (pc'[r] = "done" => answer'[r] \in {"404", "lost"})
      /\ seen'[r] \in {seen[r], None} \cup {rows[id] : id \in DOMAIN rows}
  BY AlertEnds
<1>2. Moves(r) /\ rows' = rows /\ table' = table
  BY DEF Stirs, Moves
<1>3. \A id : Countable(id)' = Countable(id)
  BY <1>1, <1>2 DEF Countable, Raises, Committed, Target, Moves
<1>4. ASSUME NEW q \in Requests, seen'[q] # None
      PROVE seen'[q].occurrence_count <= Cardinality(Countable(seen'[q].id))
  <2>1. CASE seen'[q] = seen[q]
    BY <1>4, <2>1 DEF CountsInv
  <2>2. CASE \E id \in DOMAIN rows : seen'[q] = rows[id]
    BY <2>2 DEF CountsInv, AlertsInv, RowsOK
  <2>3. q # r => seen'[q] = seen[q]
    BY <1>2 DEF Moves
  <2> QED
    BY <1>1, <1>4, <2>1, <2>2, <2>3
<1>5. ASSUME NEW q \in Requests
      PROVE (seen[q] # None => seen[q].occurrence_count <= Cardinality(Countable(seen[q].id)))'
  <2> SUFFICES ASSUME seen'[q] # None, NEW id, id = seen'[q].id
               PROVE seen'[q].occurrence_count <= Cardinality(Countable(id)')
    OBVIOUS
  <2> QED
    BY <1>3, <1>4
<1>6. ASSUME NEW id \in DOMAIN rows'
      PROVE rows'[id].occurrence_count <= Cardinality(Countable(id)')
  BY <1>2, <1>3 DEF CountsInv
<1> QED
  BY <1>5, <1>6 DEF CountsInv

LEMMA CountsCommit ==
  ASSUME AlertsInv, CountsInv, table = "alerts", NEW r \in Requests, Commit(r)
  PROVE CountsInv'
<1>1. /\ Moves(r) /\ pc[r] = "commit" /\ pc'[r] = "done" /\ op'[r] = op[r] /\ seen'[r] = seen[r]
      /\ answer'[r] = IF answer[r] = "none" THEN "200" ELSE answer[r]
      /\ DOMAIN rows \subseteq DOMAIN rows'
  BY Committing DEF AlertsInv
<1>2. answer'[r] = "200" /\ table' = table
  BY <1>1 DEF AlertsInv, AlertRequest, Moves
<1>3. ASSUME NEW id
      PROVE /\ op[r].name = "create_alert" /\ Target(r) = id =>
                 Countable(id)' = Countable(id) \cup {r} /\ r \notin Countable(id)
            /\ Countable(id) \subseteq Countable(id)'
  <2>1. \A q \in Requests : q # r => (q \in Raises(id)' <=> q \in Raises(id))
    BY <1>1 DEF Raises, Committed, Target, Moves
  <2>2. r \notin Raises(id)
    BY <1>1 DEF Raises, Committed
  <2>3. op[r].name = "create_alert" /\ Target(r) = id => r \in Raises(id)'
    BY <1>1, <1>2 DEF Raises, Committed, Target
  <2>4. r \notin Old
    BY SessionsAssumption
  <2>5. Raises(id) \subseteq Requests /\ Raises(id)' \subseteq Requests
    BY DEF Raises
  <2> QED
    BY <2>1, <2>2, <2>3, <2>4, <2>5 DEF Countable
<1>4. ASSUME NEW id
      PROVE /\ Cardinality(Countable(id)) <= Cardinality(Countable(id)')
            /\ op[r].name = "create_alert" /\ Target(r) = id =>
                 Cardinality(Countable(id)') = Cardinality(Countable(id)) + 1
  <2>1. IsFiniteSet(Countable(id)) /\ Countable(id) \subseteq Countable(id)'
    BY <1>3, CountableIsFinite
  <2>2. IsFiniteSet(Countable(id)')
    <3>1. Countable(id)' \subseteq Ids
      BY DEF Countable, Raises, Ids
    <3>2. IsFiniteSet(Ids)
      BY ServicesAssumption, FS_Union DEF Ids
    <3> QED
      BY <3>1, <3>2, FS_Subset
  <2>3. Cardinality(Countable(id)) <= Cardinality(Countable(id)')
    BY <2>1, <2>2, FS_Subset
  <2>4. op[r].name = "create_alert" /\ Target(r) = id =>
          Cardinality(Countable(id)') = Cardinality(Countable(id)) + 1
    BY <1>3, <2>1, FS_AddElement
  <2> QED
    BY <2>3, <2>4
<1>5. \A id : Cardinality(Countable(id)) \in Nat /\ Cardinality(Countable(id)') \in Nat
  <2> SUFFICES ASSUME NEW id
               PROVE Cardinality(Countable(id)) \in Nat /\ Cardinality(Countable(id)') \in Nat
    OBVIOUS
  <2>1. Countable(id)' \subseteq Ids /\ IsFiniteSet(Ids)
    BY ServicesAssumption, FS_Union DEF Ids, Countable, Raises
  <2>2. IsFiniteSet(Countable(id)')
    BY <2>1, FS_Subset
  <2> QED
    BY <2>2, CountableIsFinite, FS_CardinalityType
<1>6. \A id \in DOMAIN rows : rows[id].occurrence_count \in Nat
  BY AlertRows DEF AlertsInv, RowsOK, Alert
<1>7. \A q \in Requests : seen[q] # None => seen[q].occurrence_count \in Nat
  BY AlertRows DEF AlertsInv, Own, Alert
<1>8. ASSUME NEW id \in DOMAIN rows'
      PROVE rows'[id].occurrence_count <= Cardinality(Countable(id)')
  <2>1. CASE id \notin DOMAIN rows
    <3>1. /\ id = r /\ rows'[id].occurrence_count = 1 /\ op[r].name = "create_alert"
          /\ seen[r] # None => seen[r].status = "resolved"
      BY <2>1, AlertCommitted
    <3>2. Target(r) = id
      BY <3>1 DEF Target
    <3>3. Cardinality(Countable(id)') = Cardinality(Countable(id)) + 1
      BY <1>4, <3>1, <3>2
    <3> QED
      BY <1>5, <3>1, <3>3
  <2>2. CASE id \in DOMAIN rows /\ rows'[id].occurrence_count = rows[id].occurrence_count
    <3>1. rows[id].occurrence_count <= Cardinality(Countable(id))
      BY <2>2 DEF CountsInv
    <3> QED
      BY <1>4, <1>5, <1>6, <2>2, <3>1
  <2>3. CASE /\ op[r].name = "create_alert" /\ seen[r] # None /\ seen[r].status # "resolved"
             /\ seen[r].id = id /\ rows'[id].occurrence_count = seen[r].occurrence_count + 1
    <3>1. Target(r) = id
      BY <2>3 DEF Target
    <3>2. Cardinality(Countable(id)') = Cardinality(Countable(id)) + 1
      BY <1>4, <2>3, <3>1
    <3>3. seen[r].occurrence_count <= Cardinality(Countable(id))
      BY <2>3 DEF CountsInv
    <3> QED
      BY <1>5, <1>7, <2>3, <3>2, <3>3
  <2> QED
    BY <2>1, <2>2, <2>3, AlertCommitted
<1>9. ASSUME NEW q \in Requests
      PROVE (seen[q] # None => seen[q].occurrence_count <= Cardinality(Countable(seen[q].id)))'
  <2> SUFFICES ASSUME seen'[q] # None, NEW id, id = seen'[q].id
               PROVE seen'[q].occurrence_count <= Cardinality(Countable(id)')
    OBVIOUS
  <2>1. seen'[q] = seen[q]
    BY <1>1 DEF Moves
  <2>2. seen[q].occurrence_count <= Cardinality(Countable(seen[q].id))
    BY <2>1 DEF CountsInv
  <2>3. seen[q].occurrence_count <= Cardinality(Countable(id)')
    BY <1>4, <1>5, <1>7, <2>1, <2>2
  <2> QED
    BY <2>1, <2>3
<1> QED
  BY <1>8, <1>9 DEF CountsInv

LEMMA CountsStep == AlertsInv /\ CountsInv /\ [Next]_vars => CountsInv'
<1> SUFFICES ASSUME AlertsInv, CountsInv, [Next]_vars, table' = "alerts" PROVE CountsInv'
  BY DEF CountsInv
<1>1. CASE UNCHANGED vars
  BY <1>1 DEF vars, CountsInv, Countable, Raises, Committed, Target
<1>2. CASE Next
  <2>1. table = "alerts"
    BY <1>2, TableStays
  <2>2. PICK r \in Requests : ArriveAlert(r) \/ AlertStep(r) \/ Commit(r) \/ Abort(r)
    BY <1>2, <2>1, AlertSteps
  <2>3. CASE Commit(r)
    BY <2>1, <2>3, CountsCommit
  <2>4. CASE ArriveAlert(r) \/ AlertStep(r) \/ Abort(r)
    <3>1. Stirs(r)
      BY <2>1, <2>4, AlertArrives, AlertSelects, AlertLoads, AlertIsRaised, AlertIsSet, AlertDies DEF AlertStep
    <3> QED
      BY <2>1, <2>4, <3>1, CountsStir
  <2> QED
    BY <2>2, <2>3, <2>4
<1> QED
  BY <1>1, <1>2

LEMMA CountsStart == Init => CountsInv
<1> SUFFICES ASSUME Init, table = "alerts" PROVE CountsInv
  BY DEF CountsInv
<1>1. \A r \in Requests : seen[r] = None
  BY InitialRowsOK
<1>2. ASSUME NEW id \in DOMAIN rows PROVE rows[id].occurrence_count <= Cardinality(Countable(id))
  <2>1. Inserted("alerts", rows[id]) /\ rows[id] \in Alert /\ rows[id].id = id
        /\ id \in Old \cup {Second(i) : i \in Old}
    BY ServicesAssumption, AlertRows DEF Init
  <2>2. rows[id].occurrence_count = 1
    BY <2>1 DEF Inserted
  <2>3. id \in Old
    BY <2>1, ServicesAssumption DEF Alert, Ids
  <2>4. id \in Countable(id)
    BY <2>3 DEF Countable
  <2>5. Cardinality(Countable(id)) # 0
    BY <2>4, CountableIsFinite, FS_EmptySet
  <2> QED
    BY <2>2, <2>5, CountableIsFinite
<1> QED
  BY <1>1, <1>2 DEF CountsInv

\* No occurrence is counted twice, whichever requests count on an alert at once or
\* resolve it meanwhile: what all alerts count is no more than was raised.
THEOREM CountedWasRaised == Spec => []OccurrencesWereRaised
<1>1. AlertsInv /\ CountsInv => OccurrencesWereRaised
  <2> SUFFICES ASSUME AlertsInv, CountsInv, table = "alerts" PROVE OccurrencesWereRaised
    BY DEF OccurrencesWereRaised
  <2> DEFINE D == DOMAIN rows
             P == {o \in Occurrences(D) : o[2] <= rows[o[1]].occurrence_count}
             raised == {r \in Requests : Committed(r) /\ op[r].name = "create_alert"}
             all == (D \cap Old) \cup raised
             share == [id \in D |-> Countable(id)]
             bound == [id \in D |-> rows[id].occurrence_count]
  <2>1. IsFiniteSet(D \cap Old) /\ IsFiniteSet(raised) /\ (D \cap Old) \cap raised = {}
    BY ServicesAssumption, SessionsAssumption, FS_Subset, FS_Intersection
  <2>2. IsFiniteSet(all) /\ Cardinality(all) = Cardinality(D \cap Old) + Cardinality(raised)
    BY <2>1, FS_Union, DisjointUnion
  <2>3. \A d \in D : share[d] \subseteq all
    BY DEF Countable, Raises
  <2>4. \A d \in D : bound[d] \in Nat
    BY AlertRows DEF AlertsInv, RowsOK, Alert
  <2>5. \A d \in D : bound[d] <= Cardinality(share[d])
    BY DEF CountsInv
  <2>6. \A d, e \in D : d # e => share[d] \cap share[e] = {}
    BY SessionsAssumption DEF Countable, Raises
  <2>7. \A o \in P : /\ o = <<o[1], o[2]>> /\ o[1] \in D
                     /\ o[2] \in Nat \ {0} /\ o[2] <= bound[o[1]]
    BY DEF Occurrences
  <2>8. Cardinality(P) <= Cardinality(all)
    <3> HIDE DEF D, P, all, share, bound
    <3> QED
      BY <2>2, <2>3, <2>4, <2>5, <2>6, <2>7, CopiesWithinShares
  <2> QED
    BY <2>2, <2>8 DEF OccurrencesWereRaised
<1> QED
  BY <1>1, AlertsStart, AlertsStep, CountsStart, CountsStep, PTL DEF Spec

------------------------------------------------------------------------------
(***************************************************************************)
(* Notifications.                                                          *)
(***************************************************************************)

\* The delays are numbers.
LEMMA DelaysAreNumbers == Delay \in [1..MaxRetryCount -> Nat \ {0}]
<1> DEFINE D == 1..MaxRetryCount
           Next1(g, n) == IF n = 1 THEN 1 ELSE 2 * g[n - 1]
           Right(g, m) == \A n \in D : n <= m => g[n] = Next1(g, n)
           Reached == {m \in Nat : \E g \in [D -> Nat \ {0}] : Right(g, m)}
<1>1. 0 \in Reached
  <2>1. [n \in D |-> 1] \in [D -> Nat \ {0}] /\ Right([n \in D |-> 1], 0)
    BY NotificationsAssumption
  <2> QED
    BY <2>1
<1>2. \A m \in Nat : m \in Reached => m + 1 \in Reached
  <2> SUFFICES ASSUME NEW m \in Nat, m \in Reached PROVE m + 1 \in Reached
    OBVIOUS
  <2>1. PICK g \in [D -> Nat \ {0}] : Right(g, m)
    OBVIOUS
  <2> DEFINE h == [n \in D |-> Next1(g, n)]
  <2>2. \A n \in D : n # 1 => n - 1 \in D
    BY NotificationsAssumption
  <2>3. h \in [D -> Nat \ {0}]
    BY <2>2
  <2>4. ASSUME NEW n \in D, n <= m + 1 PROVE h[n] = Next1(h, n)
    <3>1. CASE n = 1
      BY <3>1
    <3>2. CASE n # 1
      <4>1. n - 1 \in D /\ n - 1 <= m
        BY <2>2, <2>4, <3>2, NotificationsAssumption
      <4>2. g[n - 1] = Next1(g, n - 1)
        BY <2>1, <4>1
      <4> QED
        BY <3>2, <4>1, <4>2
    <3> QED
      BY <3>1, <3>2
  <2>5. Right(h, m + 1)
    BY <2>4
  <2>6. m + 1 \in Nat
    OBVIOUS
  <2> HIDE DEF h, Right
  <2> QED
    BY <2>3, <2>5, <2>6
<1>3. MaxRetryCount \in Reached
  <2> HIDE DEF Reached
  <2> QED
    BY <1>1, <1>2, SetInduction, NotificationsAssumption
<1>4. PICK g \in [D -> Nat \ {0}] : Right(g, MaxRetryCount)
  BY <1>3
<1>5. g = [n \in D |-> Next1(g, n)]
  BY <1>4, NotificationsAssumption
<1>6. Delay = [n \in D |-> Next1(Delay, n)]
  BY <1>5 DEF Delay
<1> DEFINE Typed == {m \in Nat : \A n \in D : n <= m => Delay[n] \in Nat \ {0}}
<1>7. 0 \in Typed
  BY NotificationsAssumption
<1>8. ASSUME NEW m \in Nat, m \in Typed PROVE m + 1 \in Typed
  <2>1. ASSUME NEW n \in D, n <= m + 1 PROVE Delay[n] \in Nat \ {0}
    <3>1. CASE n = 1
      BY <1>6, <3>1
    <3>2. CASE n # 1
      <4>1. n - 1 \in D /\ n - 1 <= m /\ Delay[n] = 2 * Delay[n - 1]
        BY <1>6, <2>1, <3>2, NotificationsAssumption
      <4>2. Delay[n - 1] \in Nat \ {0}
        BY <1>8, <4>1
      <4> QED
        BY <4>1, <4>2
    <3> QED
      BY <3>1, <3>2
  <2> QED
    BY <2>1
<1>9. MaxRetryCount \in Typed
  <2> HIDE DEF Typed
  <2> QED
    BY <1>7, <1>8, SetInduction, NotificationsAssumption
<1>10. \A n \in D : Delay[n] \in Nat \ {0}
  BY <1>9, NotificationsAssumption
<1> QED
  BY <1>6, <1>10

NotificationNames == {"create_notification", "attempt_delivery", "mark_notification_read"}

\* What a notification that is there has come to.
NotificationKept(row) ==
  /\ row.retry_count <= MaxRetryCount
  /\ row.status # "read" => (row.status = "abandoned" <=> row.retry_count = MaxRetryCount)
  /\ row.retry_count > 0 /\ row.status \in {"pending", "retry_scheduled"} =>
       row.last_attempt_at \in Nat /\ row.next_retry_at = row.last_attempt_at + Delay[row.retry_count]

\* The columns of an attempt that was sent, and of a notification that was read.
Delivered(now) == [status |-> "sent", last_attempt_at |-> now, next_retry_at |-> None]
MarkedRead(w) == DOMAIN w = {"status"} /\ w["status"] = "read"

\* The row of the table, or the new one, that r has written.
NotificationWork(r, id) ==
  LET w == work[r].rows[id] IN
  \/ id \in DOMAIN rows /\ op[r].name = "mark_notification_read" /\ MarkedRead(w)
  \/ /\ id \in DOMAIN rows /\ op[r].name = "attempt_delivery" /\ id = op[r].id
     /\ seen[r] = rows[id] /\ Claimable(seen[r], op[r].now)
     /\ \/ pc[r] = "send"
        \/ answer[r] = "sent" /\ w = Delivered(op[r].now)
        \/ answer[r] = "failed" /\ w = Retried(seen[r], op[r].now)
  \/ /\ id = r /\ op[r].name = "create_notification"
     /\ w = [NewNotification(op[r].channel, op[r].key) EXCEPT !.id = r]

NotificationRequest(r) ==
  /\ pc[r] \in {"idle", "select", "write", "claim", "send", "commit", "done"}
  /\ pc[r] \notin {"commit", "done"} => answer[r] = "none"
  /\ pc[r] # "idle" =>
       /\ op[r].name \in NotificationNames
       /\ op[r].name = "create_notification" => op[r].key \in Keys \cup {None}
       /\ op[r].name = "attempt_delivery" => op[r].now \in Nat
  /\ pc[r] \in {"claim", "send"} => op[r].name = "attempt_delivery"
  /\ pc[r] \in {"select", "write", "claim"} => work[r] = NoWork
  /\ pc[r] = "write" /\ op[r].name = "mark_notification_read" => seen[r] # None
  /\ pc[r] = "send" \/ (pc[r] = "commit" /\ answer[r] \in {"sent", "failed"}) =>
       op[r].name = "attempt_delivery" /\ DOMAIN work[r].rows = {op[r].id} /\ op[r].id \in DOMAIN rows
  /\ work[r].log = {}
  /\ \A id \in DOMAIN work[r].rows : NotificationWork(r, id)

NotificationsInv ==
  table = "notifications" =>
    /\ Shaped /\ RowsOK /\ clock \in Nat
    /\ \A r \in Requests : Own(r) /\ NotificationRequest(r)
    /\ \A id \in DOMAIN rows : NotificationKept(rows[id])

LEMMA NotificationRows == Row["notifications"] = Notification
  BY DEF Row

\* The statuses that are claimed.
LEMMA ClaimableStatus ==
  ASSUME NEW row \in Notification, NEW now, Claimable(row, now)
  PROVE row.status \in {"pending", "retry_scheduled"}
  BY DEF Claimable, Notification, NotificationStatus

\* A notification after it was sent.
LEMMA AfterSending ==
  ASSUME NEW row \in Notification, NEW now \in Nat, NotificationKept(row), Claimable(row, now)
  PROVE LET new == Over(Delivered(now), row)
        IN /\ new \in Notification /\ new.id = row.id /\ new.status = "sent"
           /\ new.retry_count = row.retry_count /\ new.last_attempt_at = now
           /\ NotificationKept(new)
<1>1. PICK new : new = Over(Delivered(now), row)
  OBVIOUS
<1>2. PICK w : w = Delivered(now)
  OBVIOUS
<1>3. /\ DOMAIN w = {"status", "last_attempt_at", "next_retry_at"}
      /\ w["status"] = "sent" /\ w["last_attempt_at"] = now /\ w["next_retry_at"] = None
  BY <1>2 DEF Delivered
<1>4. /\ new \in Notification /\ new.id = row.id /\ new.status = "sent"
      /\ new.retry_count = row.retry_count /\ new.last_attempt_at = now
  BY <1>1, <1>2, <1>3 DEF Over, Notification, NotificationStatus
<1>5. NotificationKept(new)
  BY <1>4, ClaimableStatus DEF NotificationKept
<1> QED
  BY <1>1, <1>4, <1>5

\* A notification after an attempt that failed.
LEMMA AfterFailing ==
  ASSUME NEW row \in Notification, NEW now \in Nat, NotificationKept(row), Claimable(row, now)
  PROVE LET new == Over(Retried(row, now), row)
        IN /\ new \in Notification /\ new.id = row.id /\ new.status \in {"abandoned", "retry_scheduled"}
           /\ new.retry_count = row.retry_count + 1 /\ new.last_attempt_at = now
           /\ NotificationKept(new)
<1>1. PICK new : new = Over(Retried(row, now), row)
  OBVIOUS
<1>2. PICK w : w = Retried(row, now)
  OBVIOUS
<1>3. PICK n : n = row.retry_count + 1
  OBVIOUS
<1>4. /\ DOMAIN w = {"status", "retry_count", "last_attempt_at", "next_retry_at"}
      /\ w["retry_count"] = n /\ w["last_attempt_at"] = now
      /\ n >= MaxRetryCount => w["status"] = "abandoned" /\ w["next_retry_at"] = None
      /\ ~(n >= MaxRetryCount) => w["status"] = "retry_scheduled" /\ w["next_retry_at"] = now + Delay[n]
  BY <1>2, <1>3 DEF Retried
<1>5. row.retry_count \in Nat /\ row.retry_count < MaxRetryCount /\ n \in 1..MaxRetryCount
  BY <1>3, ClaimableStatus, NotificationsAssumption DEF NotificationKept, Notification
<1>6. Delay[n] \in Nat
  BY <1>5, DelaysAreNumbers
<1>7. /\ w["status"] \in {"abandoned", "retry_scheduled"}
      /\ w["next_retry_at"] \in Nat \cup {None}
  BY <1>4, <1>6
<1>8. /\ new \in Notification /\ new.id = row.id /\ new.status = w["status"]
      /\ new.retry_count = n /\ new.last_attempt_at = now /\ new.next_retry_at = w["next_retry_at"]
  BY <1>1, <1>2, <1>4, <1>5, <1>7 DEF Over, Notification, NotificationStatus
<1>9. NotificationKept(new)
  BY <1>4, <1>5, <1>7, <1>8, NotificationsAssumption DEF NotificationKept
<1> QED
  BY <1>1, <1>3, <1>7, <1>8, <1>9

\* A notification after it was read; one that was read before stays as it is.
LEMMA AfterReading ==
  ASSUME NEW row \in Notification, NotificationKept(row), NEW w, MarkedRead(w)
  PROVE LET new == Over(w, row)
        IN /\ new \in Notification /\ new.id = row.id /\ new.status = "read"
           /\ new.retry_count = row.retry_count /\ new.last_attempt_at = row.last_attempt_at
           /\ NotificationKept(new)
           /\ row.status = "read" => new = row
<1>1. PICK new : new = Over(w, row)
  OBVIOUS
<1>2. /\ new \in Notification /\ new.id = row.id /\ new.status = "read"
      /\ new.retry_count = row.retry_count /\ new.last_attempt_at = row.last_attempt_at
  BY <1>1 DEF Over, Notification, NotificationStatus, MarkedRead
<1>3. NotificationKept(new)
  BY <1>2 DEF NotificationKept
<1>4. row.status = "read" => new = row
  BY <1>1 DEF Over, Notification, MarkedRead
<1> QED
  BY <1>1, <1>2, <1>3, <1>4

\* With notifications in the table, the steps are those of notifications.
LEMMA NotificationSteps ==
  ASSUME NotificationsInv, table = "notifications", Next
  PROVE Tick \/ \E r \in Requests : ArriveNotification(r) \/ NotificationStep(r) \/ Commit(r) \/ Abort(r)
<1> SUFFICES ASSUME ~Tick
             PROVE \E r \in Requests : ArriveNotification(r) \/ NotificationStep(r) \/ Commit(r) \/ Abort(r)
  OBVIOUS
<1>2. PICK r \in Requests : \/ ArriveAlert(r) \/ ArriveNotification(r) \/ ArriveIncident(r) \/ ArriveAccount(r)
                            \/ Step(r) \/ Abort(r)
  BY DEF Next
<1>3. ~ArriveAlert(r) /\ ~ArriveIncident(r) /\ ~ArriveAccount(r)
  BY DEF ArriveAlert, ArriveIncident, ArriveAccount, ArriveDirectory, ArriveConnection, ArriveBankAccount
<1>4. /\ pc[r] \in {"idle", "select", "write", "claim", "send", "commit", "done"}
      /\ pc[r] # "idle" => op[r].name \in NotificationNames
  BY DEF NotificationsInv, NotificationRequest
<1>5. ~AlertStep(r)
  BY <1>4 DEF AlertStep, SelectAlert, RaiseAlert, LoadAlert, SetAlert, AlertRoutes, At, NotificationNames
<1>6. ~IncidentStep(r)
  BY <1>4 DEF IncidentStep, CreateIncident, LoadIncident, Acknowledge, Resolve, AddEvent, UpdateIncident,
              Escalate, At, NotificationNames
<1>7. ~AccountStep(r)
  BY <1>4 DEF AccountStep, LoadRow, SelectEmail, InsertMerchant, InsertUser, PatchMerchant, SelectAccount,
              ConnectAccount, SelectSource, ConnectSource, InsertConnection, SetStatus, InsertBankAccount,
              InitiateVerification, CompleteVerification, At, NotificationNames
<1> QED
  BY <1>2, <1>3, <1>5, <1>6, <1>7 DEF Step

\* What is left to show of a step of r that commits nothing.
LEMMA NotificationStirred ==
  ASSUME NotificationsInv, table = "notifications", NEW r \in Requests, Stirs(r),
         \A q \in Requests : Own(q)', NotificationRequest(r)'
  PROVE NotificationsInv'
<1>1. Shaped' /\ rows' = rows /\ table' = table /\ clock' = clock
  BY DEF Stirs, Moves
<1>2. RowsOK'
  BY <1>1 DEF RowsOK, NotificationsInv
<1>3. ASSUME NEW q \in Requests, q # r PROVE NotificationRequest(q)'
  <2>1. /\ pc'[q] = pc[q] /\ op'[q] = op[q] /\ seen'[q] = seen[q] /\ work'[q] = work[q]
        /\ answer'[q] = answer[q] /\ rows' = rows
    BY <1>3 DEF Stirs, Moves
  <2>2. ASSUME NEW id \in DOMAIN work[q].rows PROVE NotificationWork(q, id)'
    <3>1. NotificationWork(q, id)
      BY DEF NotificationsInv, NotificationRequest
    <3> QED
      BY <2>1, <3>1 DEF NotificationWork
  <2> QED
    BY <2>1, <2>2 DEF NotificationsInv, NotificationRequest
<1>4. \A id \in DOMAIN rows' : NotificationKept(rows'[id])
  BY <1>1 DEF NotificationsInv
<1> QED
  BY <1>1, <1>2, <1>3, <1>4 DEF NotificationsInv

LEMMA NotificationArrives ==
  ASSUME NotificationsInv, table = "notifications", NEW r \in Requests, ArriveNotification(r)
  PROVE Stirs(r) /\ pc'[r] # "done" /\ NotificationsInv'
<1>1. PICK o, s :
        /\ s \in {"select", "claim"} /\ Arrive(r, o, s)
        /\ o.name \in NotificationNames /\ (o.name = "attempt_delivery" <=> s = "claim")
        /\ o.name = "create_notification" => o.key \in Keys \cup {None}
        /\ o.name = "attempt_delivery" => o.now = clock
  <2>1. CASE \E c \in {"in_app", "email"}, k \in Keys \cup {None} :
               Arrive(r, [name |-> "create_notification", channel |-> c, key |-> k], "select")
    BY <2>1 DEF NotificationNames
  <2>2. CASE \E id \in Ids : Arrive(r, [name |-> "attempt_delivery", id |-> id, now |-> clock], "claim")
    BY <2>2 DEF NotificationNames
  <2>3. CASE \E id \in Ids : Arrive(r, [name |-> "mark_notification_read", id |-> id], "select")
    BY <2>3 DEF NotificationNames
  <2> QED
    BY <2>1, <2>2, <2>3 DEF ArriveNotification
<1>2. /\ Stirs(r) /\ pc[r] = "idle" /\ pc'[r] = s /\ op'[r] = o
      /\ seen'[r] = seen[r] /\ work'[r] = work[r] /\ answer'[r] = answer[r]
  BY <1>1, Arriving DEF NotificationsInv, Statements
<1>3. \A q \in Requests : Own(q)'
  <2>1. pc[r] # "done" /\ pc'[r] \notin {"idle", "done"}
    BY <1>1, <1>2
  <2> QED
    BY <1>2, <2>1, OwnQuiet DEF NotificationsInv
<1>4. work[r] = NoWork /\ answer[r] = "none"
  BY <1>2 DEF NotificationsInv, NotificationRequest, Own
<1>5. NotificationRequest(r)'
  BY <1>1, <1>2, <1>4 DEF NotificationRequest, NoWork, NoRows, NotificationsInv
<1> QED
  BY <1>1, <1>2, <1>3, <1>5, NotificationStirred

LEMMA NotificationSelects ==
  ASSUME NotificationsInv, table = "notifications", NEW r \in Requests, SelectNotification(r)
  PROVE Stirs(r) /\ pc'[r] # "done" /\ NotificationsInv'
<1>1. PICK found, s :
        s \in {"write", "commit"} /\ Select(r, found, s) /\ found \subseteq {rows[id] : id \in DOMAIN rows}
  <2> DEFINE same == {rows[id] : id \in {i \in DOMAIN rows : rows[i].key = op[r].key}}
  <2>1. same \subseteq {rows[id] : id \in DOMAIN rows}
    OBVIOUS
  <2> QED
    BY <2>1 DEF SelectNotification
<1>2. pc[r] = "select" /\ op[r].name = "create_notification"
  BY DEF SelectNotification, At
<1>3. /\ Stirs(r) /\ pc'[r] = s /\ op'[r] = op[r] /\ work'[r] = work[r] /\ answer'[r] = answer[r]
      /\ IF found = {} THEN seen'[r] = None ELSE seen'[r] \in found
  BY <1>1, Selecting DEF NotificationsInv, Statements
<1>4. \A q \in Requests : Own(q)'
  <2>1. pc[r] # "done" /\ pc'[r] \notin {"idle", "done"}
    BY <1>1, <1>2, <1>3
  <2>2. seen'[r] \in {seen[r], None} \cup {rows[id] : id \in DOMAIN rows}
    BY <1>1, <1>3
  <2> QED
    BY <1>3, <2>1, <2>2, OwnQuiet DEF NotificationsInv
<1>5. NotificationRequest(r)'
  BY <1>1, <1>2, <1>3 DEF NotificationsInv, NotificationRequest, NoWork, NoRows
<1> QED
  BY <1>1, <1>3, <1>4, <1>5, NotificationStirred

LEMMA NotificationLoads ==
  ASSUME NotificationsInv, table = "notifications", NEW r \in Requests, LoadNotification(r)
  PROVE Stirs(r) /\ (pc'[r] = "done" => answer'[r] = "404") /\ NotificationsInv'
<1>1. SelectById(r, op[r].id) /\ pc[r] = "select" /\ op[r].name = "mark_notification_read"
  BY DEF LoadNotification, At
<1>2. Stirs(r) /\ op'[r] = op[r]
  BY <1>1, SelectingById DEF NotificationsInv
<1>3. CASE /\ pc'[r] = "done" /\ answer'[r] = "404" /\ work'[r] = NoWork /\ seen'[r] = seen[r]
  <2>1. \A q \in Requests : Own(q)'
    BY <1>2, <1>3, OwnDiscard DEF NotificationsInv
  <2>2. NotificationRequest(r)'
    BY <1>1, <1>2, <1>3 DEF NotificationsInv, NotificationRequest, NoWork, NoRows
  <2> QED
    BY <1>2, <1>3, <2>1, <2>2, NotificationStirred
<1>4. CASE /\ pc'[r] = "write" /\ answer'[r] = answer[r] /\ work'[r] = work[r]
           /\ op[r].id \in DOMAIN rows /\ seen'[r] = rows[op[r].id]
  <2>1. \A q \in Requests : Own(q)'
    BY <1>1, <1>2, <1>4, OwnQuiet DEF NotificationsInv
  <2>2. seen'[r] # None
    BY <1>4, ServicesAssumption DEF NotificationsInv, RowsOK, Row
  <2>3. NotificationRequest(r)'
    BY <1>1, <1>2, <1>4, <2>2 DEF NotificationsInv, NotificationRequest, NoWork, NoRows
  <2> QED
    BY <1>2, <1>4, <2>1, <2>3, NotificationStirred
<1> QED
  BY <1>1, <1>3, <1>4, SelectingById DEF NotificationsInv

LEMMA NotificationDies ==
  ASSUME NotificationsInv, table = "notifications", NEW r \in Requests, Abort(r)
  PROVE Stirs(r) /\ answer'[r] = "lost" /\ NotificationsInv'
<1>1. /\ Stirs(r) /\ pc'[r] = "done" /\ answer'[r] = "lost" /\ work'[r] = NoWork
      /\ op'[r] = op[r] /\ seen'[r] = seen[r] /\ pc[r] \notin {"idle", "done"}
  BY Discarding DEF Abort, NotificationsInv, Answers
<1>2. \A q \in Requests : Own(q)'
  BY <1>1, OwnDiscard DEF NotificationsInv
<1>3. NotificationRequest(r)'
  BY <1>1 DEF NotificationsInv, NotificationRequest, NoWork, NoRows
<1> QED
  BY <1>1, <1>2, <1>3, NotificationStirred

LEMMA NotificationTicks ==
  ASSUME NotificationsInv, table = "notifications", Tick
  PROVE rows' = rows /\ pc' = pc /\ NotificationsInv'
<1>1. /\ table' = table /\ rows' = rows /\ pc' = pc /\ op' = op /\ seen' = seen /\ work' = work
      /\ answer' = answer /\ clock' = clock + 1
  BY DEF Tick
<1>2. \A q \in Requests : NotificationRequest(q)'
  <2> SUFFICES ASSUME NEW q \in Requests PROVE NotificationRequest(q)'
    OBVIOUS
  <2>1. ASSUME NEW id \in DOMAIN work[q].rows PROVE NotificationWork(q, id)'
    <3>1. NotificationWork(q, id)
      BY DEF NotificationsInv, NotificationRequest
    <3> QED
      BY <1>1, <3>1 DEF NotificationWork
  <2> QED
    BY <1>1, <2>1 DEF NotificationsInv, NotificationRequest
<1>3. Shaped' /\ RowsOK' /\ \A q \in Requests : Own(q)'
  BY <1>1 DEF NotificationsInv, Shaped, RowsOK, Own
<1> QED
  BY <1>1, <1>2, <1>3 DEF NotificationsInv

LEMMA NotificationIsInserted ==
  ASSUME NotificationsInv, table = "notifications", NEW r \in Requests, InsertNotification(r)
  PROVE Stirs(r) /\ pc'[r] # "done" /\ NotificationsInv'
<1>1. /\ pc[r] = "write" /\ op[r].name = "create_notification" /\ work[r] = NoWork
      /\ Goto(r, "commit") /\ UNCHANGED <<seen, answer>>
  BY DEF InsertNotification, At, NotificationsInv, NotificationRequest
<1>2. PICK row : row = NewNotification(op[r].channel, op[r].key)
  OBVIOUS
<1>3. InsertAs(r, r, row, {})
  BY <1>2 DEF InsertNotification, Insert
<1>4. /\ Stirs(r) /\ pc'[r] = "commit" /\ op'[r] = op[r] /\ seen'[r] = seen[r] /\ answer'[r] = answer[r]
      /\ work'[r].log = {}
      /\ DOMAIN work'[r].rows = {r} /\ work'[r].rows[r] = [row EXCEPT !.id = r]
  BY <1>1, <1>3, InsertingFirst, ZenonT(40) DEF NotificationsInv, Statements
<1>5. \A q \in Requests : Own(q)'
  BY <1>1, <1>4, OwnInsert DEF NotificationsInv
<1>6. NotificationWork(r, r)'
  BY <1>1, <1>2, <1>4 DEF NotificationWork
<1>7. NotificationRequest(r)'
  BY <1>1, <1>4, <1>6 DEF NotificationsInv, NotificationRequest
<1> QED
  BY <1>4, <1>5, <1>7, NotificationStirred

LEMMA NotificationIsRead ==
  ASSUME NotificationsInv, table = "notifications", NEW r \in Requests, ReadNotification(r)
  PROVE Stirs(r) /\ pc'[r] # "done" /\ NotificationsInv'
<1>1. /\ pc[r] = "write" /\ op[r].name = "mark_notification_read" /\ work[r] = NoWork /\ seen[r] # None
      /\ Goto(r, "commit") /\ UNCHANGED <<seen, answer>>
  BY DEF ReadNotification, At, NotificationsInv, NotificationRequest
<1>2. PICK columns : columns = [status |-> "read"]
  OBVIOUS
<1>3. Update(r, columns, {}) /\ DOMAIN columns = {"status"} /\ columns["status"] = "read"
  BY <1>2 DEF ReadNotification
<1>4. /\ Stirs(r) /\ pc'[r] = "commit" /\ op'[r] = op[r] /\ seen'[r] = seen[r] /\ answer'[r] = answer[r]
      /\ work'[r].log = {}
      /\ \/ DOMAIN work'[r].rows = {}
         \/ /\ Free(r, seen[r].id)
            /\ DOMAIN work'[r].rows = {seen[r].id}
            /\ DOMAIN Written(seen[r], columns) # {}
            /\ work'[r].rows[seen[r].id] = Written(seen[r], columns)
  BY <1>1, <1>3, UpdatingFirst DEF NotificationsInv, Statements
<1>5. DOMAIN Written(seen[r], columns) # {} => MarkedRead(Written(seen[r], columns))
  BY <1>3 DEF Written, MarkedRead
<1>6. \A q \in Requests : Own(q)'
  <2>1. DOMAIN work'[r].rows = {} \/ (Free(r, seen[r].id) /\ DOMAIN work'[r].rows = {seen[r].id})
    BY <1>4
  <2>2. pc[r] # "done" /\ pc'[r] \notin {"idle", "done"} /\ seen'[r] = seen[r] /\ seen[r] # None
    BY <1>1, <1>4
  <2> QED
    BY <1>4, <2>1, <2>2, OwnUpdate DEF NotificationsInv
<1>7. \A id \in DOMAIN work'[r].rows : NotificationWork(r, id)'
  <2>1. rows' = rows /\ seen[r].id \in DOMAIN rows
    BY <1>1, <1>4 DEF Stirs, NotificationsInv, Own
  <2> QED
    BY <1>1, <1>4, <1>5, <2>1 DEF NotificationWork
<1>8. NotificationRequest(r)'
  BY <1>1, <1>4, <1>7 DEF NotificationsInv, NotificationRequest
<1> QED
  BY <1>4, <1>6, <1>8, NotificationStirred

LEMMA NotificationIsClaimed ==
  ASSUME NotificationsInv, table = "notifications", NEW r \in Requests, Claim(r)
  PROVE Stirs(r) /\ pc'[r] # "done" /\ NotificationsInv'
<1>1. /\ pc[r] = "claim" /\ op[r].name = "attempt_delivery" /\ work[r] = NoWork /\ answer[r] = "none"
      /\ op[r].now \in Nat
  BY DEF Claim, At, NotificationsInv, NotificationRequest
<1> DEFINE id == op[r].id
<1>2. CASE id \in DOMAIN rows /\ Claimable(rows[id], op[r].now)
  <2>1. PICK n : n = Single(id, [status |-> "sending", last_attempt_at |-> op[r].now])
    OBVIOUS
  <2>2. DOMAIN n = {id}
    BY <2>1 DEF Single
  <2>3. /\ Free(r, id) /\ Goto(r, "send") /\ UNCHANGED answer
        /\ seen' = [seen EXCEPT ![r] = rows[id]]
        /\ work' = [work EXCEPT ![r].rows = n]
    BY <1>2, <2>1 DEF Claim
  <2>4. /\ Stirs(r) /\ pc'[r] = "send" /\ op'[r] = op[r] /\ answer'[r] = answer[r]
        /\ seen'[r] = rows[id] /\ work'[r].rows = n /\ work'[r].log = work[r].log
    <3>1. PICK a \in Answers : a = answer[r] /\ answer' = [answer EXCEPT ![r] = a]
      BY <2>3 DEF NotificationsInv, Shaped
    <3>2. "send" \in Statements /\ Shaped
      BY DEF Statements, NotificationsInv
    <3>3. PICK v : v = rows[id]
      OBVIOUS
    <3>4. Goto(r, "send") /\ seen' = [seen EXCEPT ![r] = v] /\ work' = [work EXCEPT ![r].rows = n]
      BY <2>3, <3>3
    <3>5. /\ Stirs(r) /\ pc'[r] = "send" /\ op'[r] = op[r] /\ seen'[r] = v /\ answer'[r] = a
          /\ work'[r].rows = n /\ work'[r].log = work[r].log
      BY <3>1, <3>2, <3>4, Setting, ZenonT(40)
    <3> QED
      BY <3>1, <3>3, <3>5
  <2>5. rows' = rows /\ table' = table /\ work[r].log = {}
    BY <2>4 DEF Stirs, Moves, NotificationsInv, NotificationRequest
  <2>6. \A q \in Requests : q # r => DOMAIN work'[q].rows \cap DOMAIN work'[r].rows = {}
    BY <2>2, <2>3, <2>4 DEF Free, Stirs, Moves
  <2>7. rows[id] \in Row[table] /\ rows[id].id = id
    BY <1>2 DEF NotificationsInv, RowsOK
  <2>8. r \notin DOMAIN rows /\ Second(r) \notin DOMAIN rows
    BY <1>1 DEF NotificationsInv, Own
  <2>9. Own(r)'
    BY <1>2, <2>2, <2>4, <2>5, <2>6, <2>7, <2>8 DEF Own
  <2>10. \A q \in Requests : Own(q)'
    BY <2>4, <2>9, OwnStirs DEF NotificationsInv
  <2>11. NotificationWork(r, id)'
    BY <1>1, <1>2, <2>2, <2>4, <2>5 DEF NotificationWork
  <2>12. NotificationRequest(r)'
    BY <1>1, <1>2, <2>2, <2>4, <2>5, <2>11 DEF NotificationsInv, NotificationRequest
  <2> QED
    BY <2>4, <2>10, <2>12, NotificationStirred
<1>3. CASE ~(id \in DOMAIN rows /\ Claimable(rows[id], op[r].now))
  <2>1. Goto(r, "commit") /\ answer' = [answer EXCEPT ![r] = "skipped"] /\ UNCHANGED <<seen, work>>
    BY <1>3 DEF Claim
  <2>2. /\ Stirs(r) /\ pc'[r] = "commit" /\ op'[r] = op[r] /\ answer'[r] = "skipped"
        /\ seen'[r] = seen[r] /\ work'[r] = work[r]
    BY <2>1 DEF NotificationsInv, Goto, committed, Shaped, Stirs, Moves, Statements, Answers
  <2>3. \A q \in Requests : Own(q)'
    BY <1>1, <2>2, OwnQuiet DEF NotificationsInv
  <2>4. NotificationRequest(r)'
    BY <1>1, <2>2 DEF NotificationsInv, NotificationRequest, NoWork, NoRows
  <2> QED
    BY <2>2, <2>3, <2>4, NotificationStirred
<1> QED
  BY <1>2, <1>3

LEMMA NotificationIsSent ==
  ASSUME NotificationsInv, table = "notifications", NEW r \in Requests, Send(r)
  PROVE Stirs(r) /\ pc'[r] # "done" /\ NotificationsInv'
<1>1. /\ pc[r] = "send" /\ op[r].name = "attempt_delivery" /\ op[r].now \in Nat
      /\ DOMAIN work[r].rows = {op[r].id} /\ op[r].id \in DOMAIN rows /\ work[r].log = {}
      /\ NotificationWork(r, op[r].id)
  BY DEF Send, At, NotificationsInv, NotificationRequest
<1> DEFINE id == op[r].id
<1>2. seen[r] = rows[id] /\ Claimable(seen[r], op[r].now)
  <2>1. r \notin DOMAIN rows
    BY <1>1 DEF NotificationsInv, Own
  <2> QED
    BY <1>1, <2>1 DEF NotificationWork
<1>3. PICK a, w :
        /\ a \in {"sent", "failed"}
        /\ a = "sent" => w = Delivered(op[r].now)
        /\ a = "failed" => w = Retried(seen[r], op[r].now)
        /\ answer' = [answer EXCEPT ![r] = a]
        /\ work' = [work EXCEPT ![r].rows = Single(id, w)]
  BY DEF Send, Delivered
<1>4. PICK n : n = Single(id, w)
  OBVIOUS
<1>5. DOMAIN n = {id} /\ n[id] = w
  BY <1>4 DEF Single
<1>6. /\ Stirs(r) /\ pc'[r] = "commit" /\ op'[r] = op[r] /\ answer'[r] = a
      /\ seen'[r] = seen[r] /\ work'[r].rows = n /\ work'[r].log = work[r].log
  <2>1. Goto(r, "commit") /\ UNCHANGED seen
    BY DEF Send
  <2>2. PICK v : v = seen[r] /\ seen' = [seen EXCEPT ![r] = v]
    BY <2>1 DEF NotificationsInv, Shaped
  <2>3. "commit" \in Statements /\ Shaped /\ a \in Answers
    BY <1>3 DEF Statements, Answers, NotificationsInv
  <2>4. work' = [work EXCEPT ![r].rows = n] /\ answer' = [answer EXCEPT ![r] = a]
    BY <1>3, <1>4
  <2>5. /\ Stirs(r) /\ pc'[r] = "commit" /\ op'[r] = op[r] /\ seen'[r] = v /\ answer'[r] = a
        /\ work'[r].rows = n /\ work'[r].log = work[r].log
    <3>1. Goto(r, "commit") /\ seen' = [seen EXCEPT ![r] = v]
      BY <2>1, <2>2
    <3> QED
      BY <2>3, <2>4, <3>1, Setting, ZenonT(40)
  <2> QED
    BY <2>2, <2>5
<1>7. rows' = rows /\ table' = table /\ \A q \in Requests : q # r => work'[q] = work[q]
  BY <1>6 DEF Stirs, Moves
<1>8. Own(r)'
  BY <1>1, <1>5, <1>6, <1>7 DEF NotificationsInv, Own
<1>9. \A q \in Requests : Own(q)'
  BY <1>6, <1>8, OwnStirs DEF NotificationsInv
<1>10. NotificationWork(r, id)'
  BY <1>1, <1>2, <1>3, <1>5, <1>6, <1>7 DEF NotificationWork
<1>11. NotificationRequest(r)'
  BY <1>1, <1>3, <1>5, <1>6, <1>7, <1>10 DEF NotificationsInv, NotificationRequest
<1> QED
  BY <1>6, <1>9, <1>11, NotificationStirred

\* The row of r's work, once committed.
LEMMA NotificationCommitted ==
  ASSUME NotificationsInv, table = "notifications", NEW r \in Requests, Commit(r)
  PROVE /\ RowsOK'
        /\ \A id \in DOMAIN rows' : NotificationKept(rows'[id])
        /\ \A id \in DOMAIN rows :
             LET old == rows[id]
                 new == rows'[id]
             IN \/ /\ answer[r] \notin {"sent", "failed"} \/ op[r].id # id
                   /\ new = old
                \/ /\ answer[r] \notin {"sent", "failed"}
                   /\ new.status = "read" /\ new.retry_count = old.retry_count
                   /\ new.last_attempt_at = old.last_attempt_at
                   /\ old.status = "read" => new = old
                \/ /\ op[r].name = "attempt_delivery" /\ op[r].id = id
                   /\ old.status \in {"pending", "retry_scheduled"}
                   /\ old.next_retry_at = None \/ old.next_retry_at <= op[r].now
                   /\ new.last_attempt_at = op[r].now /\ op[r].now \in Nat
                   /\ \/ answer[r] = "sent" /\ new.status = "sent" /\ new.retry_count = old.retry_count
                      \/ answer[r] = "failed" /\ new.status # "read" /\ new.status # "sent"
                         /\ new.retry_count = old.retry_count + 1
        /\ \A id \in DOMAIN rows' \ DOMAIN rows :
             id = r /\ op[r].name = "create_notification" /\ rows'[id].retry_count = 0
<1>1. /\ table' = table /\ pc[r] = "commit"
      /\ rows' = [id \in DOMAIN rows' |-> rows'[id]]
      /\ DOMAIN rows' = DOMAIN rows \cup DOMAIN work[r].rows
      /\ \A id \in DOMAIN rows :
           /\ id \notin DOMAIN work[r].rows => rows'[id] = rows[id]
           /\ id \in DOMAIN work[r].rows => rows'[id] = Over(work[r].rows[id], rows[id])
      /\ \A id \in DOMAIN work[r].rows : id \notin DOMAIN rows => rows'[id] = work[r].rows[id]
  BY Committing DEF NotificationsInv, Moves
<1>2. \A id \in DOMAIN rows : rows[id] \in Notification /\ rows[id].id = id /\ NotificationKept(rows[id])
  BY NotificationRows DEF NotificationsInv, RowsOK
<1>3. \A id \in DOMAIN work[r].rows : NotificationWork(r, id)
  BY DEF NotificationsInv, NotificationRequest
<1>4. r \notin DOMAIN rows
  BY <1>1 DEF NotificationsInv, Own
<1>5. answer[r] \in {"sent", "failed"} => DOMAIN work[r].rows = {op[r].id} /\ op[r].name = "attempt_delivery"
  BY <1>1 DEF NotificationsInv, NotificationRequest
<1>6. op[r].name = "attempt_delivery" => op[r].now \in Nat
  BY <1>1 DEF NotificationsInv, NotificationRequest
<1> DEFINE Kind(id) ==
      \/ /\ answer[r] \notin {"sent", "failed"} \/ op[r].id # id
         /\ rows'[id] = rows[id]
      \/ /\ answer[r] \notin {"sent", "failed"}
         /\ rows'[id].status = "read" /\ rows'[id].retry_count = rows[id].retry_count
         /\ rows'[id].last_attempt_at = rows[id].last_attempt_at
         /\ rows[id].status = "read" => rows'[id] = rows[id]
      \/ /\ op[r].name = "attempt_delivery" /\ op[r].id = id
         /\ rows[id].status \in {"pending", "retry_scheduled"}
         /\ rows[id].next_retry_at = None \/ rows[id].next_retry_at <= op[r].now
         /\ rows'[id].last_attempt_at = op[r].now /\ op[r].now \in Nat
         /\ \/ answer[r] = "sent" /\ rows'[id].status = "sent" /\ rows'[id].retry_count = rows[id].retry_count
            \/ answer[r] = "failed" /\ rows'[id].status # "read" /\ rows'[id].status # "sent"
               /\ rows'[id].retry_count = rows[id].retry_count + 1
<1>7. ASSUME NEW id \in DOMAIN rows
      PROVE rows'[id] \in Notification /\ rows'[id].id = id /\ NotificationKept(rows'[id]) /\ Kind(id)
  <2>1. CASE id \notin DOMAIN work[r].rows
    BY <1>1, <1>2, <1>5, <2>1
  <2>2. CASE id \in DOMAIN work[r].rows
    <3>1. /\ rows'[id] = Over(work[r].rows[id], rows[id]) /\ rows[id] \in Notification /\ rows[id].id = id
          /\ NotificationKept(rows[id])
      BY <1>1, <1>2, <2>2
    <3>2. id # r
      BY <1>4
    <3>3. NotificationWork(r, id)
      BY <1>3, <2>2
    <3>4. CASE op[r].name = "mark_notification_read" /\ MarkedRead(work[r].rows[id])
      <4>1. PICK w : w = work[r].rows[id]
        OBVIOUS
      <4>2. MarkedRead(w)
        BY <3>4, <4>1
      <4>3. /\ Over(w, rows[id]) \in Notification /\ Over(w, rows[id]).id = rows[id].id
            /\ Over(w, rows[id]).status = "read"
            /\ Over(w, rows[id]).retry_count = rows[id].retry_count
            /\ Over(w, rows[id]).last_attempt_at = rows[id].last_attempt_at
            /\ NotificationKept(Over(w, rows[id]))
            /\ rows[id].status = "read" => Over(w, rows[id]) = rows[id]
        BY <3>1, <4>2, AfterReading
      <4>4. answer[r] \notin {"sent", "failed"}
        BY <1>5, <3>4
      <4> QED
        BY <3>1, <4>1, <4>3, <4>4
    <3>5. ASSUME op[r].name = "attempt_delivery", id = op[r].id, seen[r] = rows[id],
                 Claimable(seen[r], op[r].now)
          PROVE /\ op[r].now \in Nat /\ rows[id].status \in {"pending", "retry_scheduled"}
                /\ rows[id].next_retry_at = None \/ rows[id].next_retry_at <= op[r].now
      <4>1. op[r].now \in Nat
        BY <1>6, <3>5
      <4>2. rows[id].status \in {"pending", "retry_scheduled"}
        BY <3>1, <3>5, ClaimableStatus
      <4> QED
        BY <3>5, <4>1, <4>2 DEF Claimable
    <3>6. CASE /\ op[r].name = "attempt_delivery" /\ id = op[r].id
               /\ seen[r] = rows[id] /\ Claimable(seen[r], op[r].now)
               /\ answer[r] = "sent" /\ work[r].rows[id] = Delivered(op[r].now)
      <4>1. op[r].now \in Nat /\ Claimable(rows[id], op[r].now)
        BY <3>5, <3>6
      <4>2. PICK now \in Nat : now = op[r].now
        BY <4>1
      <4>3. PICK new : new = Over(Delivered(now), rows[id])
        OBVIOUS
      <4>4. /\ new \in Notification /\ new.id = rows[id].id /\ new.status = "sent"
            /\ new.retry_count = rows[id].retry_count /\ new.last_attempt_at = now
            /\ NotificationKept(new)
        BY <3>1, <4>1, <4>2, <4>3, AfterSending
      <4>5. rows'[id] = new
        BY <3>1, <3>6, <4>2, <4>3
      <4> QED
        BY <3>1, <3>5, <3>6, <4>2, <4>4, <4>5
    <3>7. CASE /\ op[r].name = "attempt_delivery" /\ id = op[r].id
               /\ seen[r] = rows[id] /\ Claimable(seen[r], op[r].now)
               /\ answer[r] = "failed" /\ work[r].rows[id] = Retried(seen[r], op[r].now)
      <4>1. op[r].now \in Nat /\ Claimable(rows[id], op[r].now)
        BY <3>5, <3>7
      <4>2. PICK now \in Nat : now = op[r].now
        BY <4>1
      <4>3. PICK new : new = Over(Retried(rows[id], now), rows[id])
        OBVIOUS
      <4>4. /\ new \in Notification /\ new.id = rows[id].id /\ new.status \in {"abandoned", "retry_scheduled"}
            /\ new.retry_count = rows[id].retry_count + 1 /\ new.last_attempt_at = now
            /\ NotificationKept(new)
        BY <3>1, <4>1, <4>2, <4>3, AfterFailing
      <4>5. rows'[id] = new
        BY <3>1, <3>7, <4>2, <4>3
      <4> QED
        BY <3>1, <3>5, <3>7, <4>2, <4>4, <4>5
    <3> QED
      BY <1>1, <3>2, <3>3, <3>4, <3>6, <3>7 DEF NotificationWork
  <2> QED
    BY <2>1, <2>2
<1>8. ASSUME NEW id \in DOMAIN rows' \ DOMAIN rows
      PROVE /\ rows'[id] \in Notification /\ rows'[id].id = id /\ NotificationKept(rows'[id])
            /\ id = r /\ op[r].name = "create_notification" /\ rows'[id].retry_count = 0
  <2>1. id \in DOMAIN work[r].rows /\ rows'[id] = work[r].rows[id]
    BY <1>1
  <2>2. NotificationWork(r, id)
    BY <1>3, <2>1
  <2>3. /\ id = r /\ op[r].name = "create_notification"
        /\ rows'[id] = [NewNotification(op[r].channel, op[r].key) EXCEPT !.id = r]
    BY <2>1, <2>2 DEF NotificationWork
  <2>4. op[r].key \in Keys \cup {None}
    BY <1>1, <2>3 DEF NotificationsInv, NotificationRequest
  <2>5. PICK new : new = [NewNotification(op[r].channel, op[r].key) EXCEPT !.id = r]
    OBVIOUS
  <2>6. /\ new \in Notification /\ new.id = r /\ new.retry_count = 0
        /\ new.status \in {"unread", "pending"}
    BY <2>4, <2>5 DEF NewNotification, Notification, NotificationStatus, Ids
  <2>7. NotificationKept(new)
    BY <2>6, NotificationsAssumption DEF NotificationKept
  <2> QED
    BY <2>3, <2>5, <2>6, <2>7
<1>9. DOMAIN rows' \subseteq AllIds
  BY <1>1, <1>8 DEF NotificationsInv, RowsOK, AllIds, Ids
<1>10. RowsOK'
  <2>1. \A id \in DOMAIN rows' : rows'[id] \in Row[table]' /\ rows'[id].id = id
    BY <1>1, <1>7, <1>8, NotificationRows
  <2> QED
    BY <1>1, <1>9, <2>1 DEF RowsOK
<1>11. \A id \in DOMAIN rows' : NotificationKept(rows'[id])
  BY <1>7, <1>8
<1> QED
  BY <1>7, <1>8, <1>10, <1>11

LEMMA NotificationCommits ==
  ASSUME NotificationsInv, table = "notifications", NEW r \in Requests, Commit(r)
  PROVE NotificationsInv'
<1>1. RowsOK' /\ \A id \in DOMAIN rows' : NotificationKept(rows'[id])
  BY NotificationCommitted
<1>2. \A q \in Requests : Own(q)'
  BY <1>1, OwnCommit DEF NotificationsInv
<1>3. /\ Moves(r) /\ pc[r] = "commit" /\ pc'[r] = "done" /\ op'[r] = op[r] /\ work'[r] = NoWork
      /\ DOMAIN rows \subseteq DOMAIN rows'
      /\ \A id \in DOMAIN rows : id \notin DOMAIN work[r].rows => rows'[id] = rows[id]
  BY Committing DEF NotificationsInv
<1>4. NotificationRequest(r)'
  BY <1>3 DEF NotificationsInv, NotificationRequest, NoWork, NoRows
<1>5. ASSUME NEW q \in Requests, q # r
      PROVE NotificationRequest(q)'
  <2>1. /\ pc'[q] = pc[q] /\ op'[q] = op[q] /\ seen'[q] = seen[q] /\ work'[q] = work[q] /\ answer'[q] = answer[q]
    BY <1>3, <1>5 DEF Moves
  <2>2. ASSUME NEW id \in DOMAIN work[q].rows PROVE NotificationWork(q, id)'
    <3>1. NotificationWork(q, id)
      BY DEF NotificationsInv, NotificationRequest
    <3>2. id \notin DOMAIN work[r].rows
      BY <1>5 DEF NotificationsInv, Own
    <3>3. id \in DOMAIN rows => id \in DOMAIN rows' /\ rows'[id] = rows[id]
      BY <1>3, <3>2
    <3> QED
      BY <2>1, <3>1, <3>3 DEF NotificationWork
  <2> QED
    BY <1>3, <2>1, <2>2 DEF NotificationsInv, NotificationRequest
<1> QED
  BY <1>1, <1>2, <1>3, <1>4, <1>5 DEF NotificationsInv, Moves

\* Every step keeps the invariant of notifications.
LEMMA NotificationsStep == NotificationsInv /\ [Next]_vars => NotificationsInv'
<1> SUFFICES ASSUME NotificationsInv, [Next]_vars, table' = "notifications" PROVE NotificationsInv'
  BY DEF NotificationsInv
<1>1. CASE UNCHANGED vars
  <2>1. /\ table' = table /\ rows' = rows /\ pc' = pc /\ op' = op /\ seen' = seen /\ work' = work
        /\ answer' = answer /\ clock' = clock
    BY <1>1 DEF vars
  <2>2. \A q \in Requests : NotificationRequest(q)'
    <3> SUFFICES ASSUME NEW q \in Requests PROVE NotificationRequest(q)'
      OBVIOUS
    <3>1. ASSUME NEW id \in DOMAIN work[q].rows PROVE NotificationWork(q, id)'
      <4>1. NotificationWork(q, id)
        BY <2>1 DEF NotificationsInv, NotificationRequest
      <4> QED
        BY <2>1, <4>1 DEF NotificationWork
    <3> QED
      BY <2>1, <3>1 DEF NotificationsInv, NotificationRequest
  <2>3. Shaped' /\ RowsOK' /\ \A q \in Requests : Own(q)'
    BY <2>1 DEF NotificationsInv, Shaped, RowsOK, Own
  <2> QED
    BY <2>1, <2>2, <2>3 DEF NotificationsInv
<1>2. CASE Next
  <2>1. table = "notifications"
    BY <1>2, TableStays
  <2>2. Tick \/ \E r \in Requests : ArriveNotification(r) \/ NotificationStep(r) \/ Commit(r) \/ Abort(r)
    BY <1>2, <2>1, NotificationSteps
  <2>3. CASE Tick
    BY <2>1, <2>3, NotificationTicks
  <2>4. CASE \E r \in Requests : ArriveNotification(r) \/ NotificationStep(r) \/ Commit(r) \/ Abort(r)
    BY <2>1, <2>4, NotificationArrives, NotificationSelects, NotificationLoads, NotificationIsInserted,
       NotificationIsRead, NotificationIsClaimed, NotificationIsSent, NotificationCommits, NotificationDies
       DEF NotificationStep
  <2> QED
    BY <2>2, <2>3, <2>4
<1> QED
  BY <1>1, <1>2

LEMMA NotificationsStart == Init => NotificationsInv
<1> SUFFICES ASSUME Init, table = "notifications" PROVE NotificationsInv
  BY DEF NotificationsInv
<1>1. /\ RowsOK /\ Shaped
      /\ \A r \in Requests : Own(r) /\ pc[r] = "idle" /\ work[r] = NoWork /\ answer[r] = "none"
  BY InitialRowsOK
<1>2. \A r \in Requests : NotificationRequest(r)
  BY <1>1 DEF NotificationRequest, NoWork, NoRows
<1>3. clock \in Nat
  BY DEF Init, Idle
<1>4. ASSUME NEW id \in DOMAIN rows PROVE NotificationKept(rows[id])
  <2>1. Inserted("notifications", rows[id]) /\ rows[id] \in Notification
    BY ServicesAssumption, NotificationRows DEF Init
  <2>2. PICK channel : rows[id] = [NewNotification(channel, rows[id].key) EXCEPT !.id = rows[id].id]
    BY <2>1 DEF Inserted
  <2>3. rows[id].retry_count = 0 /\ rows[id].status \in {"unread", "pending"}
    BY <2>2 DEF NewNotification
  <2> QED
    BY <2>3, NotificationsAssumption DEF NotificationKept
<1> QED
  BY <1>1, <1>2, <1>3, <1>4 DEF NotificationsInv

\* A step leaves the notifications as they are, or commits.
LEMMA NotificationStepOrCommit ==
  ASSUME NotificationsInv, table = "notifications", Next
  PROVE rows' = rows \/ \E r \in Requests : Commit(r)
<1>1. Tick \/ \E r \in Requests : ArriveNotification(r) \/ NotificationStep(r) \/ Commit(r) \/ Abort(r)
  BY NotificationSteps
<1>2. Tick => rows' = rows
  BY DEF Tick
<1>3. \A r \in Requests : ArriveNotification(r) \/ NotificationStep(r) \/ Abort(r) => Stirs(r)
  BY NotificationArrives, NotificationSelects, NotificationLoads, NotificationIsInserted,
     NotificationIsRead, NotificationIsClaimed, NotificationIsSent, NotificationDies
     DEF NotificationStep
<1> QED
  BY <1>1, <1>2, <1>3 DEF Stirs

\* An attempt after a failed one begins when the delay after that one is over: the
\* claim looks at the time again when it has waited for the row.
THEOREM AttemptsWait == Spec => RetriesBackOff
<1> DEFINE Waits == table = "notifications" =>
             \A id \in DOMAIN rows :
               rows'[id].last_attempt_at # rows[id].last_attempt_at /\ rows[id].retry_count > 0 =>
                 rows'[id].last_attempt_at >= rows[id].last_attempt_at + Delay[rows[id].retry_count]
<1>1. NotificationsInv /\ [Next]_vars => [Waits]_vars
  <2> SUFFICES ASSUME NotificationsInv, Next, table = "notifications", NEW id \in DOMAIN rows,
                      rows'[id].last_attempt_at # rows[id].last_attempt_at, rows[id].retry_count > 0
               PROVE rows'[id].last_attempt_at >= rows[id].last_attempt_at + Delay[rows[id].retry_count]
    OBVIOUS
  <2>1. PICK r \in Requests : Commit(r)
    BY NotificationStepOrCommit
  <2>2. /\ rows[id].status \in {"pending", "retry_scheduled"}
        /\ rows[id].next_retry_at = None \/ rows[id].next_retry_at <= op[r].now
        /\ rows'[id].last_attempt_at = op[r].now /\ op[r].now \in Nat
    BY <2>1, NotificationCommitted
  <2>3. /\ rows[id].last_attempt_at \in Nat
        /\ rows[id].next_retry_at = rows[id].last_attempt_at + Delay[rows[id].retry_count]
    BY <2>2 DEF NotificationsInv, NotificationKept
  <2>4. rows[id] \in Notification /\ rows[id].retry_count <= MaxRetryCount
    BY NotificationRows DEF NotificationsInv, RowsOK, NotificationKept
  <2>5. Delay[rows[id].retry_count] \in Nat
    BY <2>4, DelaysAreNumbers, NotificationsAssumption DEF Notification
  <2>6. rows[id].next_retry_at \in Nat
    BY <2>3, <2>5
  <2> QED
    BY <2>2, <2>3, <2>6, NotificationsAssumption
<1> QED
  BY <1>1, NotificationsStart, NotificationsStep, PTL DEF Spec, RetriesBackOff

\* A notification the user has read is neither sent nor changed any more, whatever
\* workers had claimed or loaded before.
THEOREM ReadIsFinal == Spec => ReadStaysRead
<1> DEFINE Stays == table = "notifications" =>
             \A id \in DOMAIN rows : rows[id].status = "read" => rows'[id] = rows[id]
<1>1. NotificationsInv /\ [Next]_vars => [Stays]_vars
  <2> SUFFICES ASSUME NotificationsInv, Next, table = "notifications", NEW id \in DOMAIN rows,
                      rows[id].status = "read"
               PROVE rows'[id] = rows[id]
    OBVIOUS
  <2>1. CASE rows' = rows
    BY <2>1
  <2>2. ASSUME NEW r \in Requests, Commit(r) PROVE rows'[id] = rows[id]
    BY <2>2, NotificationCommitted
  <2> QED
    BY <2>1, <2>2, NotificationStepOrCommit
<1> QED
  BY <1>1, NotificationsStart, NotificationsStep, PTL DEF Spec, ReadStaysRead

\* A request ends without a commit only as one that found no row, or that died.
LEMMA NotificationEnds ==
  ASSUME NotificationsInv, table = "notifications", NEW r \in Requests,
         ArriveNotification(r) \/ NotificationStep(r) \/ Abort(r)
  PROVE pc[r] # "done" /\ (pc'[r] = "done" => answer'[r] \in {"404", "lost"})
<1>1. r \in DOMAIN pc /\ r \in DOMAIN answer
  BY DEF NotificationsInv, Shaped
<1>2. CASE ArriveNotification(r)
  <2>1. PICK o, s : s \in {"select", "claim"} /\ Arrive(r, o, s)
    BY <1>2 DEF ArriveNotification
  <2> QED
    BY <1>1, <2>1 DEF Arrive
<1>3. CASE SelectNotification(r) \/ InsertNotification(r) \/ Claim(r) \/ Send(r) \/ ReadNotification(r)
  BY <1>1, <1>3 DEF SelectNotification, InsertNotification, Claim, Send, ReadNotification, Select, Goto, At
<1>4. CASE LoadNotification(r)
  <2>1. pc[r] = "select"
    BY <1>4 DEF LoadNotification, At
  <2> QED
    BY <2>1, <1>4, SelectingById DEF LoadNotification, NotificationsInv
<1>5. CASE Abort(r)
  BY <1>1, <1>5 DEF Abort, Discard, End
<1> QED
  BY <1>2, <1>3, <1>4, <1>5 DEF NotificationStep

\* How often an attempt that has ended was sent or has failed is what the row of its
\* notification says: the row's lock is held from the claim to the commit.
AttemptsInv ==
  table = "notifications" =>
    /\ \A q \in Requests :
         pc[q] = "done" /\ answer[q] \in {"sent", "failed"} /\ op[q].name = "attempt_delivery" =>
           op[q].id \in DOMAIN rows
    /\ \A id \in DOMAIN rows :
         /\ rows[id].retry_count = Cardinality(Attempts(id, "failed"))
         /\ Cardinality(Attempts(id, "sent")) <= 1
         /\ Attempts(id, "sent") # {} => rows[id].status \in {"sent", "read"}

LEMMA AttemptsAreFew == \A id, outcome : IsFiniteSet(Attempts(id, outcome))
<1> SUFFICES ASSUME NEW id, NEW outcome PROVE IsFiniteSet(Attempts(id, outcome))
  OBVIOUS
<1>1. Attempts(id, outcome) \subseteq Requests
  BY DEF Attempts
<1> QED
  BY <1>1, ServicesAssumption, FS_Subset

\* The attempts that have ended stay as they were but for one that commits.
LEMMA AttemptsMove ==
  ASSUME NEW r \in Requests, Moves(r), pc[r] # "done", NEW id, NEW outcome
  PROVE /\ ~(pc'[r] = "done" /\ answer'[r] = outcome /\ op'[r].name = "attempt_delivery" /\ op'[r].id = id) =>
             Attempts(id, outcome)' = Attempts(id, outcome)
        /\ pc'[r] = "done" /\ answer'[r] = outcome /\ op'[r].name = "attempt_delivery" /\ op'[r].id = id =>
             Attempts(id, outcome)' = Attempts(id, outcome) \cup {r}
        /\ r \notin Attempts(id, outcome)
  BY DEF Moves, Attempts

LEMMA AttemptsStart == Init => AttemptsInv
<1> SUFFICES ASSUME Init, table = "notifications" PROVE AttemptsInv
  BY DEF AttemptsInv
<1>1. \A r \in Requests : pc[r] = "idle"
  BY InitialRowsOK
<1>2. \A id, outcome : Attempts(id, outcome) = {}
  BY <1>1 DEF Attempts
<1>3. ASSUME NEW id \in DOMAIN rows PROVE rows[id].retry_count = 0
  <2>1. Inserted("notifications", rows[id])
    BY ServicesAssumption DEF Init
  <2>2. PICK channel, row : row = rows[id] /\ row = [NewNotification(channel, row.key) EXCEPT !.id = row.id]
    BY <2>1 DEF Inserted
  <2>3. PICK key, name : row = [NewNotification(channel, key) EXCEPT !.id = name]
    BY <2>2
  <2>4. row.retry_count = 0
    BY <2>3 DEF NewNotification
  <2> QED
    BY <2>2, <2>4
<1>4. Cardinality({}) = 0
  BY FS_EmptySet
<1>5. ASSUME NEW id \in DOMAIN rows
      PROVE /\ rows[id].retry_count = Cardinality(Attempts(id, "failed"))
            /\ Cardinality(Attempts(id, "sent")) <= 1
            /\ Attempts(id, "sent") = {}
  <2>1. Attempts(id, "failed") = {} /\ Attempts(id, "sent") = {}
    BY <1>2
  <2> QED
    BY <1>3, <1>4, <2>1
<1> QED
  BY <1>1, <1>5 DEF AttemptsInv

LEMMA AttemptsStir ==
  ASSUME NotificationsInv, AttemptsInv, table = "notifications", NEW r \in Requests,
         ArriveNotification(r) \/ NotificationStep(r) \/ Abort(r), Stirs(r)
  PROVE AttemptsInv'
<1>1. pc[r] # "done" /\ (pc'[r] = "done" => answer'[r] \in {"404", "lost"})
  BY NotificationEnds
<1>2. Moves(r) /\ rows' = rows /\ table' = table
  BY DEF Stirs, Moves
<1>3. \A id : /\ Attempts(id, "sent")' = Attempts(id, "sent")
              /\ Attempts(id, "failed")' = Attempts(id, "failed")
  BY <1>1, <1>2, AttemptsMove
<1>4. ASSUME NEW q \in Requests, pc'[q] = "done", answer'[q] \in {"sent", "failed"},
             op'[q].name = "attempt_delivery"
      PROVE op'[q].id \in DOMAIN rows
  <2>1. q # r
    BY <1>1, <1>4
  <2>2. pc'[q] = pc[q] /\ answer'[q] = answer[q] /\ op'[q] = op[q]
    BY <1>2, <2>1 DEF Moves
  <2> QED
    BY <1>4, <2>2 DEF AttemptsInv
<1> QED
  BY <1>2, <1>3, <1>4 DEF AttemptsInv

LEMMA AttemptsCommit ==
  ASSUME NotificationsInv, AttemptsInv, table = "notifications", NEW r \in Requests, Commit(r)
  PROVE AttemptsInv'
<1>1. /\ Moves(r) /\ pc[r] = "commit" /\ pc'[r] = "done" /\ op'[r] = op[r]
      /\ answer'[r] = IF answer[r] = "none" THEN "200" ELSE answer[r]
      /\ DOMAIN rows \subseteq DOMAIN rows'
  BY Committing DEF NotificationsInv
<1>2. table' = table /\ (answer'[r] \in {"sent", "failed"} => answer'[r] = answer[r])
  BY <1>1 DEF Moves
<1>3. answer[r] \in {"sent", "failed"} => op[r].name = "attempt_delivery" /\ op[r].id \in DOMAIN rows
  BY <1>1 DEF NotificationsInv, NotificationRequest
<1>4. \A q \in Requests :
        pc'[q] = "done" /\ answer'[q] \in {"sent", "failed"} /\ op'[q].name = "attempt_delivery" =>
          op'[q].id \in DOMAIN rows'
  <2> SUFFICES ASSUME NEW q \in Requests, q # r, pc'[q] = "done", answer'[q] \in {"sent", "failed"},
                      op'[q].name = "attempt_delivery"
               PROVE op'[q].id \in DOMAIN rows'
    BY <1>1, <1>2, <1>3
  <2>1. pc'[q] = pc[q] /\ answer'[q] = answer[q] /\ op'[q] = op[q]
    BY <1>1 DEF Moves
  <2> QED
    BY <1>1, <2>1 DEF AttemptsInv
<1>5. ASSUME NEW id \in DOMAIN rows'
      PROVE /\ rows'[id].retry_count = Cardinality(Attempts(id, "failed")')
            /\ Cardinality(Attempts(id, "sent")') <= 1
            /\ Attempts(id, "sent")' # {} => rows'[id].status \in {"sent", "read"}
  <2>1. \A outcome \in {"sent", "failed"} :
          /\ answer[r] # outcome \/ op[r].id # id =>
               Attempts(id, outcome)' = Attempts(id, outcome)
          /\ answer[r] = outcome /\ op[r].id = id =>
               Attempts(id, outcome)' = Attempts(id, outcome) \cup {r}
          /\ r \notin Attempts(id, outcome)
    <3> SUFFICES ASSUME NEW outcome \in {"sent", "failed"}
                 PROVE /\ answer[r] # outcome \/ op[r].id # id =>
                            Attempts(id, outcome)' = Attempts(id, outcome)
                       /\ answer[r] = outcome /\ op[r].id = id =>
                            Attempts(id, outcome)' = Attempts(id, outcome) \cup {r}
                       /\ r \notin Attempts(id, outcome)
      OBVIOUS
    <3>1. answer'[r] = outcome <=> answer[r] = outcome
      BY <1>1
    <3>2. pc[r] # "done"
      BY <1>1
    <3> QED
      BY <1>1, <1>3, <3>1, <3>2, AttemptsMove
  <2>2. CASE id \notin DOMAIN rows
    <3>1. id = r /\ op[r].name = "create_notification" /\ rows'[id].retry_count = 0
      BY <2>2, NotificationCommitted
    <3>2. \A outcome \in {"sent", "failed"} : Attempts(id, outcome) = {}
      BY <2>2 DEF AttemptsInv, Attempts
    <3>3. answer[r] \notin {"sent", "failed"}
      BY <1>3, <3>1
    <3>4. Attempts(id, "sent")' = {} /\ Attempts(id, "failed")' = {}
      BY <2>1, <3>2, <3>3
    <3>5. Cardinality({}) = 0
      BY FS_EmptySet
    <3> QED
      BY <3>1, <3>4, <3>5
  <2>3. CASE id \in DOMAIN rows
    <3> DEFINE sent == Attempts(id, "sent")
               failed == Attempts(id, "failed")
    <3>1. /\ rows[id].retry_count = Cardinality(failed)
          /\ Cardinality(sent) <= 1
          /\ sent # {} => rows[id].status \in {"sent", "read"}
      BY <2>3 DEF AttemptsInv
    <3>2. \/ /\ answer[r] \notin {"sent", "failed"} \/ op[r].id # id
             /\ rows'[id] = rows[id]
          \/ /\ answer[r] \notin {"sent", "failed"}
             /\ rows'[id].status = "read" /\ rows'[id].retry_count = rows[id].retry_count
          \/ /\ op[r].id = id /\ rows[id].status \in {"pending", "retry_scheduled"}
             /\ \/ answer[r] = "sent" /\ rows'[id].status = "sent" /\ rows'[id].retry_count = rows[id].retry_count
                \/ answer[r] = "failed" /\ rows'[id].retry_count = rows[id].retry_count + 1
      BY <2>3, NotificationCommitted
    <3>3. CASE answer[r] \notin {"sent", "failed"} \/ op[r].id # id
      <4>1. sent' = sent /\ failed' = failed
        BY <2>1, <3>3
      <4>2. \/ rows'[id] = rows[id]
            \/ rows'[id].status = "read" /\ rows'[id].retry_count = rows[id].retry_count
        BY <3>2, <3>3
      <4> QED
        BY <3>1, <4>1, <4>2
    <3>4. CASE answer[r] = "sent" /\ op[r].id = id
      <4>1. /\ rows[id].status \in {"pending", "retry_scheduled"}
            /\ rows'[id].status = "sent" /\ rows'[id].retry_count = rows[id].retry_count
        BY <3>2, <3>4
      <4>2. sent = {} /\ sent' = {r} /\ failed' = failed
        BY <2>1, <3>1, <3>4, <4>1
      <4>3. Cardinality({r}) = 1
        BY FS_Singleton
      <4> QED
        BY <3>1, <4>1, <4>2, <4>3
    <3>5. CASE answer[r] = "failed" /\ op[r].id = id
      <4>1. /\ rows[id].status \in {"pending", "retry_scheduled"}
            /\ rows'[id].retry_count = rows[id].retry_count + 1
        BY <3>2, <3>5
      <4>2. sent' = {} /\ failed' = failed \cup {r} /\ r \notin failed
        BY <2>1, <3>1, <3>5, <4>1
      <4>3. Cardinality(failed \cup {r}) = Cardinality(failed) + 1
        BY <4>2, AttemptsAreFew, FS_AddElement
      <4>4. Cardinality({}) = 0
        BY FS_EmptySet
      <4> QED
        BY <3>1, <4>1, <4>2, <4>3, <4>4
    <3> QED
      BY <3>3, <3>4, <3>5
  <2> QED
    BY <2>2, <2>3
<1> QED
  BY <1>2, <1>4, <1>5 DEF AttemptsInv

LEMMA AttemptsStep == NotificationsInv /\ AttemptsInv /\ [Next]_vars => AttemptsInv'
<1> SUFFICES ASSUME NotificationsInv, AttemptsInv, [Next]_vars, table' = "notifications" PROVE AttemptsInv'
  BY DEF AttemptsInv
<1>1. CASE UNCHANGED vars
  BY <1>1 DEF vars, AttemptsInv, Attempts
<1>2. CASE Next
  <2>1. table = "notifications"
    BY <1>2, TableStays
  <2>2. Tick \/ \E r \in Requests : ArriveNotification(r) \/ NotificationStep(r) \/ Commit(r) \/ Abort(r)
    BY <1>2, <2>1, NotificationSteps
  <2>3. CASE Tick
    BY <2>3 DEF Tick, AttemptsInv, Attempts
  <2>4. ASSUME NEW r \in Requests, ArriveNotification(r) \/ NotificationStep(r) \/ Abort(r) PROVE AttemptsInv'
    <3>1. Stirs(r)
      BY <2>1, <2>4, NotificationArrives, NotificationSelects, NotificationLoads, NotificationIsInserted,
         NotificationIsRead, NotificationIsClaimed, NotificationIsSent, NotificationDies
         DEF NotificationStep
    <3> QED
      BY <2>1, <2>4, <3>1, AttemptsStir
  <2>5. ASSUME NEW r \in Requests, Commit(r) PROVE AttemptsInv'
    BY <2>1, <2>5, AttemptsCommit
  <2> QED
    BY <2>2, <2>3, <2>4, <2>5
<1> QED
  BY <1>1, <1>2

\* However many workers deliver a notification, it is recorded as sent once, and no
\* failed attempt is lost from the count that ends its retries.
THEOREM AttemptsCounted == Spec => [](SentOnce /\ AttemptsAreCounted)
<1>1. NotificationsInv /\ AttemptsInv => SentOnce /\ AttemptsAreCounted
  BY DEF NotificationsInv, NotificationKept, AttemptsInv, SentOnce, AttemptsAreCounted
<1> QED
  BY <1>1, NotificationsStart, NotificationsStep, AttemptsStart, AttemptsStep, PTL DEF Spec

------------------------------------------------------------------------------
(***************************************************************************)
(* Incidents.                                                              *)
(***************************************************************************)

IncidentNames == {"create", "acknowledge", "resolve", "auto_escalate_if_needed", "add_event", "update"}

\* What is written to an incident goes with events of the same request that tell it.
IncidentColumns(r, w, entries) ==
  /\ DOMAIN w \subseteq {"id", "status", "severity", "ended_at"}
  /\ "id" \in DOMAIN w => w["id"] = op[r].id
  /\ "status" \in DOMAIN w =>
       w["status"] \in {"acknowledged", "resolved"} /\ \E e \in entries : e.type = w["status"]
  /\ "severity" \in DOMAIN w =>
       w["severity"] \in Severity /\ \E e \in entries : e.severity = w["severity"]
  /\ "ended_at" \in DOMAIN w =>
       w["ended_at"] = r /\ \E e \in entries : e.type \in {"resolved", "updated"}
  /\ "status" \in DOMAIN w /\ w["status"] = "resolved" => "ended_at" \in DOMAIN w

IncidentRequest(r) ==
  /\ pc[r] \in {"idle", "select", "write", "commit", "done"}
  /\ pc[r] # "done" => answer[r] = "none"
  /\ pc[r] # "idle" =>
       /\ op[r].name \in IncidentNames
       /\ op[r].name = "create" => op[r].severity \in Severity
       /\ op[r].name = "update" => op[r].updates \in Updates
  /\ pc[r] \in {"select", "write"} => work[r] = NoWork
  /\ pc[r] = "select" => op[r].name # "create"
  /\ pc[r] \in {"write", "commit"} /\ op[r].name # "create" => seen[r] # None /\ seen[r].id = op[r].id
  /\ seen[r] # None /\ seen[r].ended_at \in Requests => pc[seen[r].ended_at] = "done"
  /\ \A e \in work[r].log : e.by = r /\ e.incident = IF op[r].name = "create" THEN r ELSE op[r].id
  /\ pc[r] = "commit" /\ op[r].name = "create" =>
       /\ DOMAIN work[r].rows = {r}
       /\ work[r].rows[r] = [NewIncident(op[r].severity) EXCEPT !.id = r]
       /\ \E e \in work[r].log : e.type = "incident_created"
  /\ pc[r] = "commit" /\ op[r].name # "create" =>
       \A id \in DOMAIN work[r].rows :
         id = op[r].id /\ IncidentColumns(r, work[r].rows[id], work[r].log)
  /\ pc[r] = "commit" /\ op[r].name = "resolve" =>
       op[r].id \in DOMAIN work[r].rows /\ "ended_at" \in DOMAIN work[r].rows[op[r].id]

\* The log tells of requests that have ended and of incidents that are there.
IncidentLog ==
  \A e \in log : e.by \in Requests /\ pc[e.by] = "done" /\ e.incident \in DOMAIN rows

IncidentsInv ==
  table = "incidents" =>
    /\ Shaped /\ RowsOK /\ IncidentLog /\ EndsAreLogged
    /\ \A r \in Requests : Own(r) /\ IncidentRequest(r)

LEMMA IncidentRows == Row["incidents"] = Incident
  BY DEF Row

\* With incidents in the table, the steps are those of incidents.
LEMMA IncidentSteps ==
  ASSUME IncidentsInv, table = "incidents", Next
  PROVE \E r \in Requests : ArriveIncident(r) \/ IncidentStep(r) \/ Commit(r) \/ Abort(r)
<1>1. ~Tick
  BY DEF Tick
<1>2. PICK r \in Requests : \/ ArriveAlert(r) \/ ArriveNotification(r) \/ ArriveIncident(r) \/ ArriveAccount(r)
                            \/ Step(r) \/ Abort(r)
  BY <1>1 DEF Next
<1>3. ~ArriveAlert(r) /\ ~ArriveNotification(r) /\ ~ArriveAccount(r)
  BY DEF ArriveNotification, ArriveAlert, ArriveAccount, ArriveDirectory, ArriveConnection, ArriveBankAccount
<1>4. /\ pc[r] \in {"idle", "select", "write", "commit", "done"}
      /\ pc[r] # "idle" => op[r].name \in IncidentNames
  BY DEF IncidentsInv, IncidentRequest
<1>5. ~AlertStep(r)
  BY <1>4 DEF AlertStep, SelectAlert, RaiseAlert, LoadAlert, SetAlert, AlertRoutes, At, IncidentNames
<1>6. ~NotificationStep(r)
  BY <1>4 DEF NotificationStep, SelectNotification, InsertNotification, Claim, Send, LoadNotification,
              ReadNotification, At, IncidentNames
<1>7. ~AccountStep(r)
  BY <1>4 DEF AccountStep, LoadRow, SelectEmail, InsertMerchant, InsertUser, PatchMerchant, SelectAccount,
              ConnectAccount, SelectSource, ConnectSource, InsertConnection, SetStatus, InsertBankAccount,
              InitiateVerification, CompleteVerification, At, IncidentNames
<1> QED
  BY <1>2, <1>3, <1>5, <1>6, <1>7 DEF Step

\* What is left to show of a step of r that commits nothing.
LEMMA IncidentStirred ==
  ASSUME IncidentsInv, table = "incidents", NEW r \in Requests, Stirs(r), pc[r] # "done",
         \A q \in Requests : Own(q)', IncidentRequest(r)'
  PROVE IncidentsInv'
<1>1. Shaped' /\ rows' = rows /\ table' = table /\ log' = log
  BY DEF Stirs, Moves
<1>2. RowsOK'
  BY <1>1 DEF RowsOK, IncidentsInv
<1>3. \A p \in Requests : pc[p] = "done" => pc'[p] = "done" /\ op'[p] = op[p]
  BY DEF Stirs, Moves
<1>4. ASSUME NEW q \in Requests, q # r PROVE IncidentRequest(q)'
  <2>1. /\ pc'[q] = pc[q] /\ op'[q] = op[q] /\ seen'[q] = seen[q] /\ work'[q] = work[q]
        /\ answer'[q] = answer[q]
    BY <1>4 DEF Stirs, Moves
  <2> QED
    BY <1>3, <2>1, SMTT(30) DEF IncidentsInv, IncidentRequest, IncidentColumns
<1>5. IncidentLog'
  BY <1>1, <1>3 DEF IncidentsInv, IncidentLog
<1>6. EndsAreLogged'
  BY <1>1, <1>3 DEF IncidentsInv, EndsAreLogged, EventsOf, IncidentLog
<1> QED
  BY <1>1, <1>2, <1>4, <1>5, <1>6 DEF IncidentsInv

\* The ends of the incidents that are there are requests that have ended.
LEMMA EndsHaveEnded ==
  ASSUME IncidentsInv, table = "incidents", NEW id \in DOMAIN rows, rows[id].ended_at \in Requests
  PROVE pc[rows[id].ended_at] = "done"
  BY SessionsAssumption DEF IncidentsInv, EndsAreLogged, EventsOf, IncidentLog, Ids

LEMMA IncidentArrives ==
  ASSUME IncidentsInv, table = "incidents", NEW r \in Requests, ArriveIncident(r)
  PROVE Stirs(r) /\ IncidentsInv'
<1>1. PICK o, s :
        /\ s \in {"select", "write"} /\ Arrive(r, o, s)
        /\ o.name \in IncidentNames /\ (o.name = "create" <=> s = "write")
        /\ o.name = "create" => o.severity \in Severity
        /\ o.name = "update" => o.updates \in Updates
  <2>1. CASE \E v \in Severity : Arrive(r, [name |-> "create", severity |-> v], "write")
    BY <2>1 DEF IncidentNames
  <2>2. CASE \E id \in Ids, n \in {"acknowledge", "resolve", "auto_escalate_if_needed"} :
               Arrive(r, [name |-> n, id |-> id], "select")
    BY <2>2 DEF IncidentNames
  <2>3. CASE \E id \in Ids, t \in OwnEvents : Arrive(r, [name |-> "add_event", id |-> id, type |-> t], "select")
    BY <2>3 DEF IncidentNames
  <2>4. CASE \E id \in Ids, u \in Updates : Arrive(r, [name |-> "update", id |-> id, updates |-> u], "select")
    BY <2>4 DEF IncidentNames
  <2> QED
    BY <2>1, <2>2, <2>3, <2>4 DEF ArriveIncident
<1>2. /\ Stirs(r) /\ pc[r] = "idle" /\ pc'[r] = s /\ op'[r] = o
      /\ seen'[r] = seen[r] /\ work'[r] = work[r] /\ answer'[r] = answer[r]
  BY <1>1, Arriving DEF IncidentsInv, Statements
<1>3. \A q \in Requests : Own(q)'
  <2>1. pc[r] # "done" /\ pc'[r] \notin {"idle", "done"}
    BY <1>1, <1>2
  <2> QED
    BY <1>2, <2>1, OwnQuiet DEF IncidentsInv
<1>4. work[r] = NoWork /\ answer[r] = "none"
  BY <1>2 DEF IncidentsInv, IncidentRequest, Own
<1>5. \A p \in Requests : pc[p] = "done" => pc'[p] = "done"
  BY <1>2 DEF Stirs, Moves
<1>6. IncidentRequest(r)'
  <2>1. work'[r] = NoWork /\ work'[r].log = {} /\ answer'[r] = "none"
    BY <1>2, <1>4 DEF NoWork
  <2>2. seen'[r] # None /\ seen'[r].ended_at \in Requests => pc'[seen'[r].ended_at] = "done"
    BY <1>2, <1>5 DEF IncidentRequest, IncidentsInv
  <2> QED
    BY <1>1, <1>2, <2>1, <2>2 DEF IncidentRequest
<1> QED
  BY <1>1, <1>2, <1>3, <1>6, IncidentStirred

LEMMA IncidentLoads ==
  ASSUME IncidentsInv, table = "incidents", NEW r \in Requests, LoadIncident(r)
  PROVE Stirs(r) /\ IncidentsInv'
<1>1. SelectById(r, op[r].id) /\ pc[r] = "select"
  BY DEF LoadIncident
<1>2. Stirs(r) /\ op'[r] = op[r] /\ op[r].name # "create"
  BY <1>1, SelectingById DEF IncidentsInv, IncidentRequest
<1>3. \A p \in Requests : pc[p] = "done" => pc'[p] = "done"
  BY <1>1, <1>2 DEF Stirs, Moves
<1>4. CASE /\ pc'[r] = "done" /\ answer'[r] = "404" /\ work'[r] = NoWork /\ seen'[r] = seen[r]
  <2>1. \A q \in Requests : Own(q)'
    BY <1>2, <1>4, OwnDiscard DEF IncidentsInv
  <2>2. IncidentRequest(r)'
    <3>1. work'[r] = NoWork /\ work'[r].log = {}
      BY <1>4 DEF NoWork
    <3>2. seen'[r] # None /\ seen'[r].ended_at \in Requests => pc'[seen'[r].ended_at] = "done"
      BY <1>3, <1>4 DEF IncidentRequest, IncidentsInv
    <3>3. /\ op[r].name \in IncidentNames
          /\ op[r].name = "create" => op[r].severity \in Severity
          /\ op[r].name = "update" => op[r].updates \in Updates
      BY <1>1 DEF IncidentsInv, IncidentRequest
    <3> QED
      BY <1>2, <1>4, <3>1, <3>2, <3>3 DEF IncidentRequest
  <2> QED
    BY <1>1, <1>2, <2>1, <2>2, IncidentStirred
<1>5. CASE /\ pc'[r] = "write" /\ answer'[r] = answer[r] /\ work'[r] = work[r]
           /\ op[r].id \in DOMAIN rows /\ seen'[r] = rows[op[r].id]
  <2>1. \A q \in Requests : Own(q)'
    BY <1>1, <1>2, <1>5, OwnQuiet DEF IncidentsInv
  <2>2. seen'[r] # None /\ seen'[r].id = op[r].id
    BY <1>5, ServicesAssumption DEF IncidentsInv, RowsOK, Row
  <2>3. seen'[r].ended_at \in Requests => pc'[seen'[r].ended_at] = "done"
    BY <1>3, <1>5, EndsHaveEnded
  <2>4. IncidentRequest(r)'
    <3>1. /\ work[r] = NoWork /\ answer[r] = "none" /\ op[r].name \in IncidentNames
          /\ op[r].name = "update" => op[r].updates \in Updates
      BY <1>1 DEF IncidentsInv, IncidentRequest
    <3>2. work'[r] = NoWork /\ work'[r].log = {} /\ answer'[r] = "none"
      BY <1>5, <3>1 DEF NoWork
    <3> QED
      BY <1>2, <1>5, <2>2, <2>3, <3>1, <3>2 DEF IncidentRequest
  <2> QED
    BY <1>1, <1>2, <2>1, <2>4, IncidentStirred
<1> QED
  BY <1>1, <1>4, <1>5, SelectingById DEF IncidentsInv

LEMMA IncidentDies ==
  ASSUME IncidentsInv, table = "incidents", NEW r \in Requests, Abort(r)
  PROVE Stirs(r) /\ IncidentsInv'
<1>1. /\ Stirs(r) /\ pc'[r] = "done" /\ answer'[r] = "lost" /\ work'[r] = NoWork
      /\ op'[r] = op[r] /\ seen'[r] = seen[r] /\ pc[r] \notin {"idle", "done"}
  BY Discarding DEF Abort, IncidentsInv, Answers
<1>2. \A q \in Requests : Own(q)'
  BY <1>1, OwnDiscard DEF IncidentsInv
<1>3. \A p \in Requests : pc[p] = "done" => pc'[p] = "done"
  BY <1>1 DEF Stirs, Moves
<1>4. IncidentRequest(r)'
  <2>1. work'[r] = NoWork /\ work'[r].log = {}
    BY <1>1 DEF NoWork
  <2>2. seen'[r] # None /\ seen'[r].ended_at \in Requests => pc'[seen'[r].ended_at] = "done"
    BY <1>1, <1>3 DEF IncidentRequest, IncidentsInv
  <2>3. /\ op[r].name \in IncidentNames
        /\ op[r].name = "create" => op[r].severity \in Severity
        /\ op[r].name = "update" => op[r].updates \in Updates
    BY <1>1 DEF IncidentsInv, IncidentRequest
  <2> QED
    BY <1>1, <2>1, <2>2, <2>3 DEF IncidentRequest
<1> QED
  BY <1>1, <1>2, <1>4, IncidentStirred

LEMMA IncidentIsCreated ==
  ASSUME IncidentsInv, table = "incidents", NEW r \in Requests, CreateIncident(r)
  PROVE Stirs(r) /\ IncidentsInv'
<1> DEFINE entries == {Event(r, r, "incident_created", op[r].severity)}
<1>1. /\ pc[r] = "write" /\ op[r].name = "create" /\ op[r].severity \in Severity
      /\ work[r] = NoWork /\ answer[r] = "none"
  BY DEF CreateIncident, At, IncidentsInv, IncidentRequest
<1>2. /\ Stirs(r)
      /\ pc'[r] = "commit" /\ op'[r] = op[r] /\ seen'[r] = seen[r] /\ answer'[r] = answer[r]
      /\ work'[r].log = entries
      /\ DOMAIN work'[r].rows = {r}
      /\ work'[r].rows[r] = [NewIncident(op[r].severity) EXCEPT !.id = r]
  <2>1. PICK row : row = NewIncident(op[r].severity)
    OBVIOUS
  <2>2. InsertAs(r, r, row, entries) /\ Goto(r, "commit") /\ UNCHANGED <<seen, answer>>
    BY <2>1 DEF CreateIncident, Insert
  <2>3. "commit" \in Statements /\ Shaped
    BY DEF Statements, IncidentsInv
  <2> HIDE DEF entries
  <2>4. /\ Stirs(r)
        /\ pc'[r] = "commit" /\ op'[r] = op[r] /\ seen'[r] = seen[r] /\ answer'[r] = answer[r]
        /\ work'[r].log = entries
        /\ DOMAIN work'[r].rows = {r}
        /\ work'[r].rows[r] = [row EXCEPT !.id = r]
    BY <1>1, <2>2, <2>3, InsertingFirst
  <2> QED
    BY <2>1, <2>4
<1>3. \A q \in Requests : Own(q)'
  <2>1. pc[r] # "done" /\ pc'[r] \notin {"idle", "done"} /\ r \in {r, Second(r)}
    BY <1>1, <1>2
  <2> QED
    BY <1>2, <2>1, OwnInsert DEF IncidentsInv
<1>4. \A p \in Requests : pc[p] = "done" => pc'[p] = "done"
  BY <1>1, <1>2 DEF Stirs, Moves
<1>5. IncidentRequest(r)'
  <2>1. /\ \A e \in work'[r].log : e.by = r /\ e.incident = r
        /\ \E e \in work'[r].log : e.type = "incident_created"
    BY <1>2 DEF Event
  <2>2. seen'[r] # None /\ seen'[r].ended_at \in Requests => pc'[seen'[r].ended_at] = "done"
    BY <1>2, <1>4 DEF IncidentsInv, IncidentRequest
  <2> QED
    BY <1>1, <1>2, <2>1, <2>2 DEF IncidentRequest, IncidentNames
<1> QED
  BY <1>1, <1>2, <1>3, <1>5, IncidentStirred

\* The write of an operation, with the event that tells it.
LEMMA IncidentChanges ==
  ASSUME IncidentsInv, table = "incidents", NEW r \in Requests,
         pc[r] = "write", op[r].name # "create",
         NEW columns, NEW type, Change(r, columns, type),
         NEW s, s = Over(columns, seen[r]).severity,
         IncidentColumns(r, columns, {Event(r, op[r].id, type, s)}),
         op[r].name = "resolve" => "ended_at" \in DOMAIN columns
  PROVE Stirs(r) /\ IncidentsInv'
<1>1. /\ op[r].name \in IncidentNames
      /\ op[r].name = "update" => op[r].updates \in Updates
      /\ work[r] = NoWork /\ answer[r] = "none" /\ seen[r] # None /\ seen[r].id = op[r].id
      /\ seen[r].ended_at \in Requests => pc[seen[r].ended_at] = "done"
  BY DEF IncidentsInv, IncidentRequest
<1>2. PICK entries : entries = {Event(r, op[r].id, type, s)}
  OBVIOUS
<1>3. /\ Stirs(r)
      /\ pc'[r] = "commit" /\ op'[r] = op[r] /\ seen'[r] = seen[r] /\ answer'[r] = answer[r]
      /\ work'[r].log = entries
      /\ \/ DOMAIN Written(seen[r], columns) = {} /\ DOMAIN work'[r].rows = {}
         \/ /\ DOMAIN Written(seen[r], columns) # {}
            /\ Free(r, seen[r].id)
            /\ DOMAIN work'[r].rows = {seen[r].id}
            /\ work'[r].rows[seen[r].id] = Written(seen[r], columns)
  <2>1. Goto(r, "commit") /\ UNCHANGED <<seen, answer>> /\ Update(r, columns, entries)
    BY <1>2 DEF Change
  <2>2. "commit" \in Statements /\ Shaped
    BY DEF Statements, IncidentsInv
  <2> QED
    BY <1>1, <2>1, <2>2, UpdatingFirst
<1>4. \A q \in Requests : Own(q)'
  <2>1. pc[r] # "done" /\ pc'[r] \notin {"idle", "done"}
    BY <1>3
  <2> QED
    BY <1>1, <1>3, <2>1, OwnUpdate DEF IncidentsInv
<1>5. IncidentRequest(r)'
  <2>1. \A e \in work'[r].log : e.by = r /\ e.incident = op[r].id
    BY <1>2, <1>3 DEF Event
  <2>2. seen'[r].ended_at \in Requests => pc'[seen'[r].ended_at] = "done"
    BY <1>1, <1>3 DEF Stirs, Moves
  <2>3. "ended_at" \in DOMAIN columns => "ended_at" \in DOMAIN Written(seen[r], columns)
    BY <1>1 DEF Written, IncidentColumns
  <2>4. IncidentColumns(r, Written(seen[r], columns), entries)
    BY <1>2, <2>3 DEF Written, IncidentColumns
  <2>5. \A id \in DOMAIN work'[r].rows :
          id = op[r].id /\ IncidentColumns(r, work'[r].rows[id], work'[r].log)
    BY <1>1, <1>3, <2>4
  <2>6. op[r].name = "resolve" =>
          op[r].id \in DOMAIN work'[r].rows /\ "ended_at" \in DOMAIN work'[r].rows[op[r].id]
    BY <1>1, <1>3, <2>3
  <2>7. (\A id \in DOMAIN work[r].rows :
           id = op[r].id /\ IncidentColumns(r, work[r].rows[id], work[r].log))'
    BY <1>3, <2>5 DEF IncidentColumns
  <2>8. seen'[r] # None /\ seen'[r].id = op'[r].id /\ op'[r].name # "create"
    BY <1>1, <1>3
  <2>9. /\ pc'[r] = "commit" /\ answer'[r] = "none" /\ op'[r].name \in IncidentNames
        /\ op'[r].name = "update" => op'[r].updates \in Updates
        /\ \A e \in work'[r].log : e.by = r /\ e.incident = op'[r].id
        /\ op'[r].name = "resolve" =>
             op'[r].id \in DOMAIN work'[r].rows /\ "ended_at" \in DOMAIN work'[r].rows[op'[r].id]
    BY <1>1, <1>3, <2>1, <2>6
  <2> QED
    BY ONLY <2>2, <2>7, <2>8, <2>9 DEF IncidentRequest
<1> QED
  BY <1>3, <1>4, <1>5, IncidentStirred

LEMMA IncidentIsChanged ==
  ASSUME IncidentsInv, table = "incidents", NEW r \in Requests,
         Acknowledge(r) \/ Resolve(r) \/ AddEvent(r) \/ UpdateIncident(r) \/ Escalate(r)
  PROVE Stirs(r) /\ IncidentsInv'
<1>1. pc[r] = "write" /\ op[r].name \in {"acknowledge", "resolve", "add_event", "update", "auto_escalate_if_needed"}
  BY DEF Acknowledge, Resolve, AddEvent, UpdateIncident, Escalate, At
<1>2. seen[r] # None /\ seen[r].id = op[r].id /\ work[r] = NoWork /\ answer[r] = "none"
  BY <1>1 DEF IncidentsInv, IncidentRequest
<1>3. seen[r] \in Incident
  BY <1>2, IncidentRows DEF IncidentsInv, Own
<1>4. CASE Acknowledge(r)
  <2>1. PICK columns : columns = [status |-> "acknowledged"]
    OBVIOUS
  <2>2. PICK s : s = Over(columns, seen[r]).severity
    OBVIOUS
  <2>3. Change(r, columns, "acknowledged") /\ op[r].name = "acknowledge"
    BY <1>4, <2>1 DEF Acknowledge, At
  <2>4. IncidentColumns(r, columns, {Event(r, op[r].id, "acknowledged", s)})
    BY <2>1 DEF IncidentColumns, Event
  <2> QED
    BY <1>1, <2>2, <2>3, <2>4, IncidentChanges
<1>5. CASE Resolve(r)
  <2>1. PICK columns : columns = [status |-> "resolved", ended_at |-> r]
    OBVIOUS
  <2>2. PICK s : s = Over(columns, seen[r]).severity
    OBVIOUS
  <2>3. Change(r, columns, "resolved")
    BY <1>5, <2>1 DEF Resolve
  <2>4. IncidentColumns(r, columns, {Event(r, op[r].id, "resolved", s)}) /\ "ended_at" \in DOMAIN columns
    BY <2>1 DEF IncidentColumns, Event
  <2> QED
    BY <1>1, <2>2, <2>3, <2>4, IncidentChanges
<1>6. CASE AddEvent(r)
  <2>1. PICK columns : columns = [id |-> seen[r].id]
    OBVIOUS
  <2>2. PICK s : s = Over(columns, seen[r]).severity
    OBVIOUS
  <2>3. PICK t : t = op[r].type
    OBVIOUS
  <2>4. Change(r, columns, t) /\ op[r].name = "add_event"
    BY <1>6, <2>1, <2>3 DEF AddEvent, At
  <2>5. IncidentColumns(r, columns, {Event(r, op[r].id, t, s)})
    BY <1>2, <2>1 DEF IncidentColumns, Event
  <2> QED
    BY <1>1, <2>2, <2>4, <2>5, IncidentChanges
<1>7. CASE UpdateIncident(r)
  <2>1. PICK columns : columns = [f \in op[r].updates |-> IF f = "severity" THEN "high" ELSE r]
    OBVIOUS
  <2>2. PICK s : s = Over(columns, seen[r]).severity
    OBVIOUS
  <2>3. Change(r, columns, "updated") /\ op[r].name = "update"
    BY <1>7, <2>1 DEF UpdateIncident, At
  <2>4. op[r].updates \in Updates
    BY <1>1, <2>3 DEF IncidentsInv, IncidentRequest
  <2>5. \/ DOMAIN columns = {"severity"} /\ columns["severity"] = "high"
        \/ DOMAIN columns = {"ended_at"} /\ columns["ended_at"] = r
    BY <2>1, <2>4 DEF Updates
  <2>6. DOMAIN columns = {"severity"} => s = "high"
    BY <2>2, <2>5 DEF Over
  <2>7. IncidentColumns(r, columns, {Event(r, op[r].id, "updated", s)})
    BY <2>5, <2>6 DEF IncidentColumns, Event, Severity
  <2> QED
    BY <1>1, <2>2, <2>3, <2>7, IncidentChanges
<1>8. CASE Escalate(r)
  <2>1. op[r].name = "auto_escalate_if_needed"
    BY <1>8 DEF Escalate, At
  <2>2. PICK v \in Severity : IF v = seen[r].severity
                              THEN Goto(r, "commit") /\ UNCHANGED <<seen, work, answer>>
                              ELSE Change(r, [severity |-> v], "escalated")
    BY <1>3, <1>8 DEF Escalate, Incident, Severity
  <2>3. CASE v = seen[r].severity
    <3>1. work' = [work EXCEPT ![r] = [rows |-> work[r].rows, log |-> work[r].log]]
      BY <2>2, <2>3 DEF IncidentsInv, Shaped
    <3>2. "commit" \in Statements /\ Shaped /\ Goto(r, "commit") /\ UNCHANGED <<seen, answer>>
      BY <2>2, <2>3 DEF Statements, IncidentsInv
    <3>3. /\ Stirs(r) /\ pc'[r] = "commit" /\ op'[r] = op[r] /\ seen'[r] = seen[r]
          /\ answer'[r] = answer[r] /\ work'[r] = work[r]
      <4>1. PICK w : w = work[r]
        OBVIOUS
      <4>2. /\ Stirs(r) /\ pc'[r] = "commit" /\ op'[r] = op[r] /\ seen'[r] = seen[r]
            /\ answer'[r] = answer[r] /\ work'[r] = [rows |-> w.rows, log |-> w.log]
        <5>1. work' = [work EXCEPT ![r] = [rows |-> w.rows, log |-> w.log]]
          BY <3>1, <4>1
        <5> QED
          BY <3>2, <5>1, Going
      <4> QED
        BY <4>1, <4>2 DEF IncidentsInv, Shaped
    <3>4. \A q \in Requests : Own(q)'
      <4>1. pc[r] # "done" /\ pc'[r] \notin {"idle", "done"}
        BY <1>1, <3>3
      <4> QED
        BY <3>3, <4>1, OwnQuiet DEF IncidentsInv
    <3>5. IncidentRequest(r)'
      <4>1. work'[r].log = {} /\ DOMAIN work'[r].rows = {}
        BY <1>2, <3>3 DEF NoWork, NoRows
      <4>2. seen'[r].ended_at \in Requests => pc'[seen'[r].ended_at] = "done"
        <5>1. seen[r].ended_at \in Requests => pc[seen[r].ended_at] = "done"
          BY <1>2 DEF IncidentsInv, IncidentRequest
        <5> QED
          BY <1>1, <3>3, <5>1 DEF Stirs, Moves
      <4> QED
        BY <1>1, <1>2, <2>1, <3>3, <4>1, <4>2 DEF IncidentRequest, IncidentNames
    <3> QED
      BY <1>1, <3>3, <3>4, <3>5, IncidentStirred
  <2>4. CASE v # seen[r].severity
    <3>1. PICK columns : columns = [severity |-> v]
      OBVIOUS
    <3>2. PICK s : s = Over(columns, seen[r]).severity
      OBVIOUS
    <3>3. Change(r, columns, "escalated")
      BY <2>2, <2>4, <3>1
    <3>4. s = v
      BY <3>1, <3>2 DEF Over
    <3>5. IncidentColumns(r, columns, {Event(r, op[r].id, "escalated", s)})
      BY <3>1, <3>4 DEF IncidentColumns, Event
    <3> QED
      BY <1>1, <2>1, <3>2, <3>3, <3>5, IncidentChanges
  <2> QED
    BY <2>3, <2>4
<1> QED
  BY <1>4, <1>5, <1>6, <1>7, <1>8

\* What a commit does to the incidents: it opens one, or it writes to one what its
\* events tell.
LEMMA IncidentCommitted ==
  ASSUME IncidentsInv, table = "incidents", NEW r \in Requests, Commit(r)
  PROVE /\ Moves(r) /\ pc[r] = "commit" /\ pc'[r] = "done"
        /\ op'[r] = op[r] /\ seen'[r] = seen[r] /\ work'[r] = NoWork
        /\ log' = log \cup work[r].log
        /\ \A e \in work[r].log : e.by = r /\ e.incident \in DOMAIN rows' /\ e \notin log
        /\ DOMAIN rows \subseteq DOMAIN rows'
        /\ rows' = [id \in DOMAIN rows' |-> rows'[id]]
        /\ \A id \in DOMAIN rows : rows'[id] # rows[id] =>
             /\ op[r].name # "create" /\ id = op[r].id /\ id \in DOMAIN work[r].rows
             /\ IncidentColumns(r, work[r].rows[id], work[r].log)
             /\ rows'[id] = Over(work[r].rows[id], rows[id])
        /\ \A id \in DOMAIN rows' \ DOMAIN rows :
             /\ id = r /\ op[r].name = "create"
             /\ rows'[id] = [NewIncident(op[r].severity) EXCEPT !.id = r]
             /\ \E e \in work[r].log : e.type = "incident_created" /\ e.incident = r
        /\ op[r].name = "resolve" =>
             /\ op[r].id \in DOMAIN work[r].rows /\ "ended_at" \in DOMAIN work[r].rows[op[r].id]
             /\ op[r].id \in DOMAIN rows /\ rows'[op[r].id] = Over(work[r].rows[op[r].id], rows[op[r].id])
             /\ IncidentColumns(r, work[r].rows[op[r].id], work[r].log)
<1>1. /\ Moves(r) /\ pc[r] = "commit" /\ pc'[r] = "done"
      /\ op'[r] = op[r] /\ seen'[r] = seen[r] /\ work'[r] = NoWork
      /\ log' = log \cup work[r].log
      /\ rows' = [id \in DOMAIN rows' |-> rows'[id]]
      /\ DOMAIN rows' = DOMAIN rows \cup DOMAIN work[r].rows
      /\ \A id \in DOMAIN rows :
           /\ id \notin DOMAIN work[r].rows => rows'[id] = rows[id]
           /\ id \in DOMAIN work[r].rows => rows'[id] = Over(work[r].rows[id], rows[id])
      /\ \A id \in DOMAIN work[r].rows : id \notin DOMAIN rows => rows'[id] = work[r].rows[id]
  BY Committing DEF IncidentsInv
<1>2. /\ op[r].name # "create" => seen[r] # None /\ seen[r].id = op[r].id
      /\ \A e \in work[r].log : e.by = r /\ e.incident = IF op[r].name = "create" THEN r ELSE op[r].id
  BY <1>1 DEF IncidentsInv, IncidentRequest
<1>3. op[r].name = "create" =>
        /\ DOMAIN work[r].rows = {r}
        /\ work[r].rows[r] = [NewIncident(op[r].severity) EXCEPT !.id = r]
        /\ \E e \in work[r].log : e.type = "incident_created"
  BY <1>1 DEF IncidentsInv, IncidentRequest
<1>4. /\ op[r].name # "create" =>
           \A id \in DOMAIN work[r].rows :
             id = op[r].id /\ IncidentColumns(r, work[r].rows[id], work[r].log)
      /\ op[r].name = "resolve" =>
           op[r].id \in DOMAIN work[r].rows /\ "ended_at" \in DOMAIN work[r].rows[op[r].id]
  BY <1>1 DEF IncidentsInv, IncidentRequest
<1>5. /\ op[r].name # "create" => op[r].id \in DOMAIN rows
      /\ r \notin DOMAIN rows
  BY <1>1, <1>2 DEF IncidentsInv, Own
<1>6. \A e \in log : e.by # r
  BY <1>1 DEF IncidentsInv, IncidentLog
<1>7. \A e \in work[r].log : e.by = r /\ e.incident \in DOMAIN rows' /\ e \notin log
  BY <1>1, <1>2, <1>3, <1>5, <1>6
<1>8. \A id \in DOMAIN rows : rows'[id] # rows[id] =>
        /\ op[r].name # "create" /\ id = op[r].id /\ id \in DOMAIN work[r].rows
        /\ IncidentColumns(r, work[r].rows[id], work[r].log)
        /\ rows'[id] = Over(work[r].rows[id], rows[id])
  BY <1>1, <1>3, <1>4, <1>5
<1>9. \A id \in DOMAIN rows' \ DOMAIN rows :
        /\ id = r /\ op[r].name = "create"
        /\ rows'[id] = [NewIncident(op[r].severity) EXCEPT !.id = r]
        /\ \E e \in work[r].log : e.type = "incident_created" /\ e.incident = r
  <2> SUFFICES ASSUME NEW id \in DOMAIN rows' \ DOMAIN rows
               PROVE /\ id = r /\ op[r].name = "create"
                     /\ rows'[id] = [NewIncident(op[r].severity) EXCEPT !.id = r]
                     /\ \E e \in work[r].log : e.type = "incident_created" /\ e.incident = r
    OBVIOUS
  <2>1. id \in DOMAIN work[r].rows /\ rows'[id] = work[r].rows[id]
    BY <1>1
  <2>2. op[r].name = "create" /\ id = r
    BY <2>1, <1>3, <1>4, <1>5
  <2> QED
    BY <2>1, <2>2, <1>2, <1>3
<1>10. op[r].name = "resolve" =>
         /\ op[r].id \in DOMAIN work[r].rows /\ "ended_at" \in DOMAIN work[r].rows[op[r].id]
         /\ op[r].id \in DOMAIN rows /\ rows'[op[r].id] = Over(work[r].rows[op[r].id], rows[op[r].id])
         /\ IncidentColumns(r, work[r].rows[op[r].id], work[r].log)
  BY <1>1, <1>4, <1>5
<1> QED
  BY <1>1, <1>7, <1>8, <1>9, <1>10

\* An incident that a request has changed is one, with its end.
LEMMA IncidentIsMerged ==
  ASSUME NEW r \in Requests, NEW w, NEW entries, IncidentColumns(r, w, entries),
         NEW old \in Incident, old.id = op[r].id
  PROVE /\ Over(w, old) \in Incident
        /\ Over(w, old).id = old.id
        /\ \A c \in {"status", "severity", "ended_at"} :
             Over(w, old)[c] = IF c \in DOMAIN w THEN w[c] ELSE old[c]
<1>1. PICK row : row = Over(w, old)
  OBVIOUS
<1>2. /\ row = [c \in {"id", "status", "severity", "ended_at"} |-> row[c]]
      /\ row.id = IF "id" \in DOMAIN w THEN w["id"] ELSE old.id
      /\ row.status = IF "status" \in DOMAIN w THEN w["status"] ELSE old.status
      /\ row.severity = IF "severity" \in DOMAIN w THEN w["severity"] ELSE old.severity
      /\ row.ended_at = IF "ended_at" \in DOMAIN w THEN w["ended_at"] ELSE old.ended_at
  BY <1>1 DEF Over, IncidentColumns, Incident
<1>3. /\ row.id = old.id
      /\ row.status \in IncidentStatus
      /\ row.severity \in Severity
      /\ row.ended_at \in Requests \cup {None}
  BY <1>2 DEF IncidentColumns, Incident, IncidentStatus
<1>4. row \in Incident
  BY <1>2, <1>3 DEF Incident
<1> QED
  BY <1>1, <1>2, <1>3, <1>4

LEMMA IncidentCommits ==
  ASSUME IncidentsInv, table = "incidents", NEW r \in Requests, Commit(r)
  PROVE IncidentsInv'
<1>1. /\ Moves(r) /\ pc[r] = "commit" /\ pc'[r] = "done"
      /\ op'[r] = op[r] /\ seen'[r] = seen[r] /\ work'[r] = NoWork
      /\ log' = log \cup work[r].log
      /\ \A e \in work[r].log : e.by = r /\ e.incident \in DOMAIN rows' /\ e \notin log
      /\ DOMAIN rows \subseteq DOMAIN rows'
      /\ rows' = [id \in DOMAIN rows' |-> rows'[id]]
  BY IncidentCommitted
<1>2. table' = table /\ Shaped'
  BY <1>1 DEF Moves
<1>3. \A p \in Requests : pc[p] = "done" => pc'[p] = "done"
  BY <1>1 DEF Moves
<1>4. ASSUME NEW id \in DOMAIN rows, rows'[id] # rows[id]
      PROVE /\ op[r].name # "create" /\ id = op[r].id
            /\ IncidentColumns(r, work[r].rows[id], work[r].log)
            /\ rows[id] \in Incident /\ rows'[id] \in Incident /\ rows'[id].id = id
            /\ \A c \in {"status", "severity", "ended_at"} :
                 rows'[id][c] = IF c \in DOMAIN work[r].rows[id] THEN work[r].rows[id][c] ELSE rows[id][c]
  <2>1. /\ op[r].name # "create" /\ id = op[r].id
        /\ IncidentColumns(r, work[r].rows[id], work[r].log)
        /\ rows'[id] = Over(work[r].rows[id], rows[id])
    BY <1>4, IncidentCommitted
  <2>2. rows[id] \in Incident /\ rows[id].id = op[r].id
    BY <2>1, IncidentRows DEF IncidentsInv, RowsOK
  <2>3. PICK w : w = work[r].rows[id]
    OBVIOUS
  <2>4. PICK old : old = rows[id]
    OBVIOUS
  <2>5. IncidentColumns(r, w, work[r].log) /\ old \in Incident /\ old.id = op[r].id
    BY <2>1, <2>2, <2>3, <2>4
  <2>6. /\ Over(w, old) \in Incident
        /\ Over(w, old).id = old.id
        /\ \A c \in {"status", "severity", "ended_at"} :
             Over(w, old)[c] = IF c \in DOMAIN w THEN w[c] ELSE old[c]
    BY <2>5, IncidentIsMerged
  <2> QED
    BY <2>1, <2>2, <2>3, <2>4, <2>6
<1>5. ASSUME NEW id \in DOMAIN rows', id \notin DOMAIN rows
      PROVE /\ id = r /\ op[r].name = "create"
            /\ rows'[id] \in Incident /\ rows'[id].id = id
            /\ rows'[id].status = "open" /\ rows'[id].ended_at = None
            /\ \E e \in work[r].log : e.type = "incident_created" /\ e.incident = r
  <2>1. /\ id = r /\ op[r].name = "create"
        /\ rows'[id] = [NewIncident(op[r].severity) EXCEPT !.id = r]
        /\ \E e \in work[r].log : e.type = "incident_created" /\ e.incident = r
    BY <1>5, IncidentCommitted
  <2>2. op[r].severity \in Severity
    BY <1>1, <2>1 DEF IncidentsInv, IncidentRequest
  <2>3. rows'[id] = [id |-> r, status |-> "open", severity |-> op[r].severity, ended_at |-> None]
    BY <2>1 DEF NewIncident
  <2> QED
    BY <2>1, <2>2, <2>3 DEF Incident, IncidentStatus, Ids
<1>6. RowsOK'
  <2>1. DOMAIN rows' \subseteq AllIds
    BY <1>5 DEF IncidentsInv, RowsOK, AllIds, Ids
  <2>2. \A id \in DOMAIN rows' : rows'[id] \in Incident /\ rows'[id].id = id
    BY <1>4, <1>5, IncidentRows DEF IncidentsInv, RowsOK
  <2> QED
    BY <1>1, <1>2, <2>1, <2>2, IncidentRows DEF RowsOK
<1>7. \A q \in Requests : Own(q)'
  BY <1>6, OwnCommit DEF IncidentsInv
<1>8. IncidentLog'
  <2>1. \A e \in log : e.by \in Requests /\ pc'[e.by] = "done" /\ e.incident \in DOMAIN rows'
    BY <1>1, <1>3 DEF IncidentsInv, IncidentLog
  <2>2. \A e \in work[r].log : e.by \in Requests /\ pc'[e.by] = "done" /\ e.incident \in DOMAIN rows'
    BY <1>1
  <2> QED
    BY <1>1, <2>1, <2>2 DEF IncidentLog
<1>9. ASSUME NEW q \in Requests PROVE IncidentRequest(q)'
  <2>1. CASE q = r
    <3>1. work'[r] = NoWork /\ work'[r].log = {}
      BY <1>1 DEF NoWork
    <3>2. seen'[r] # None /\ seen'[r].ended_at \in Requests => pc'[seen'[r].ended_at] = "done"
      BY <1>1, <1>3 DEF IncidentRequest, IncidentsInv
    <3>3. /\ op[r].name \in IncidentNames
          /\ op[r].name = "create" => op[r].severity \in Severity
          /\ op[r].name = "update" => op[r].updates \in Updates
      BY <1>1 DEF IncidentsInv, IncidentRequest
    <3> QED
      BY <1>1, <2>1, <3>1, <3>2, <3>3 DEF IncidentRequest
  <2>2. CASE q # r
    <3>1. /\ pc'[q] = pc[q] /\ op'[q] = op[q] /\ seen'[q] = seen[q] /\ work'[q] = work[q]
          /\ answer'[q] = answer[q]
      BY <1>1, <2>2 DEF Moves
    <3> QED
      BY <1>3, <3>1 DEF IncidentsInv, IncidentRequest, IncidentColumns
  <2> QED
    BY <2>1, <2>2
<1>10. \A e \in work[r].log : e.by = r /\ e.incident = IF op[r].name = "create" THEN r ELSE op[r].id
  BY DEF IncidentsInv, IncidentRequest
<1>11. EndsAreLogged'
  <2> SUFFICES ASSUME NEW id \in DOMAIN rows'
               PROVE /\ rows'[id].ended_at # None =>
                          \E e \in log' : /\ e.incident = id /\ e.by = rows'[id].ended_at
                                          /\ e.type \in {"resolved", "updated"}
                     /\ (\E e \in log' : e.incident = id /\ op'[e.by].name = "resolve") =>
                          rows'[id].ended_at # None
                     /\ rows'[id].status = "resolved" => rows'[id].ended_at # None
                     /\ id \in Requests =>
                          \E e \in log' : e.incident = id /\ e.type = "incident_created" /\ e.by = id
    BY DEF EndsAreLogged, EventsOf
  <2>1. \A e \in log : e.by \in Requests /\ op'[e.by] = op[e.by]
    BY <1>1 DEF IncidentsInv, IncidentLog, Moves
  <2>2. ASSUME id \in DOMAIN rows
        PROVE /\ rows[id].ended_at # None =>
                   \E e \in log : /\ e.incident = id /\ e.by = rows[id].ended_at
                                  /\ e.type \in {"resolved", "updated"}
              /\ (\E e \in log : e.incident = id /\ op[e.by].name = "resolve") =>
                   rows[id].ended_at # None
              /\ rows[id].status = "resolved" => rows[id].ended_at # None
              /\ id \in Requests =>
                   \E e \in log : e.incident = id /\ e.type = "incident_created" /\ e.by = id
    BY <2>2 DEF IncidentsInv, EndsAreLogged, EventsOf
  <2>3. CASE id \notin DOMAIN rows
    <3>1. \A e \in log : e.incident # id
      BY <2>3 DEF IncidentsInv, IncidentLog
    <3>2. /\ id = r /\ op[r].name = "create"
          /\ rows'[id].status = "open" /\ rows'[id].ended_at = None
          /\ \E e \in work[r].log : e.type = "incident_created" /\ e.incident = r
      BY <1>5, <2>3
    <3>3. \A e \in work[r].log : op'[e.by].name = "create"
      BY <1>1, <3>2
    <3>4. \A e \in log' : e.incident = id => e \in work[r].log
      BY <1>1, <3>1
    <3>5. \E e \in log' : e.incident = id /\ e.type = "incident_created" /\ e.by = id
      BY <1>1, <3>2
    <3> QED
      BY <3>2, <3>3, <3>4, <3>5
  <2>4. CASE id \in DOMAIN rows /\ rows'[id] = rows[id]
    <3>1. \A e \in work[r].log : e.incident = id => op'[e.by].name # "resolve"
      <4> SUFFICES ASSUME NEW e \in work[r].log, e.incident = id, op'[e.by].name = "resolve" PROVE FALSE
        OBVIOUS
      <4>1. op[r].name = "resolve" /\ e.incident = op[r].id
        BY <1>1, <1>10
      <4>2. /\ "ended_at" \in DOMAIN work[r].rows[id]
            /\ rows'[id] = Over(work[r].rows[id], rows[id])
            /\ IncidentColumns(r, work[r].rows[id], work[r].log)
        BY <4>1, IncidentCommitted
      <4>3. rows'[id].ended_at = r
        BY <4>2 DEF Over, IncidentColumns
      <4> QED
        BY <1>1, <2>4, <4>3, EndsHaveEnded
    <3> QED
      BY <1>1, <2>1, <2>2, <2>4, <3>1
  <2>5. CASE id \in DOMAIN rows /\ rows'[id] # rows[id]
    <3>1. /\ op[r].name # "create" /\ id = op[r].id
          /\ IncidentColumns(r, work[r].rows[id], work[r].log)
          /\ \A c \in {"status", "severity", "ended_at"} :
                 rows'[id][c] = IF c \in DOMAIN work[r].rows[id] THEN work[r].rows[id][c] ELSE rows[id][c]
      BY <1>4, <2>5
    <3>2. PICK w : w = work[r].rows[id]
      OBVIOUS
    <3>3. /\ rows'[id].status = IF "status" \in DOMAIN w THEN w["status"] ELSE rows[id].status
          /\ rows'[id].ended_at = IF "ended_at" \in DOMAIN w THEN w["ended_at"] ELSE rows[id].ended_at
      BY <3>1, <3>2
    <3>4. \A e \in work[r].log : e.by = r /\ e.incident = id
      BY <1>10, <3>1
    <3>5. CASE "ended_at" \in DOMAIN w
      <4>1. /\ rows'[id].ended_at = r /\ r # None
            /\ \E e \in work[r].log : e.type \in {"resolved", "updated"}
        BY <3>1, <3>2, <3>3, <3>5, SessionsAssumption DEF IncidentColumns, Ids
      <4> QED
        BY <1>1, <2>2, <2>5, <3>4, <4>1
    <3>6. CASE "ended_at" \notin DOMAIN w
      <4>1. rows'[id].ended_at = rows[id].ended_at /\ op[r].name # "resolve"
        BY <3>1, <3>2, <3>3, <3>6, IncidentCommitted
      <4>2. rows'[id].status = "resolved" => rows[id].status = "resolved"
        BY <3>1, <3>2, <3>3, <3>6 DEF IncidentColumns
      <4>3. \A e \in work[r].log : op'[e.by].name # "resolve"
        BY <1>1, <4>1
      <4> QED
        BY <1>1, <2>1, <2>2, <2>5, <4>1, <4>2, <4>3
    <3> QED
      BY <3>5, <3>6
  <2> QED
    BY <2>3, <2>4, <2>5
<1> QED
  BY <1>2, <1>6, <1>7, <1>8, <1>9, <1>11 DEF IncidentsInv

LEMMA IncidentsStep == IncidentsInv /\ [Next]_vars => IncidentsInv'
<1>1. ASSUME IncidentsInv, Next PROVE IncidentsInv'
  <2>1. CASE table = "incidents"
    <3>1. PICK r \in Requests : ArriveIncident(r) \/ IncidentStep(r) \/ Commit(r) \/ Abort(r)
      BY <1>1, <2>1, IncidentSteps
    <3> QED
      BY <1>1, <2>1, <3>1, IncidentArrives, IncidentIsCreated, IncidentLoads, IncidentIsChanged, IncidentDies,
         IncidentCommits DEF IncidentStep
  <2>2. CASE table # "incidents"
    BY <1>1, <2>2, TableStays DEF IncidentsInv
  <2> QED
    BY <2>1, <2>2
<1>2. ASSUME IncidentsInv, UNCHANGED vars PROVE IncidentsInv'
  <2>1. table' = table /\ rows' = rows /\ log' = log /\ pc' = pc /\ op' = op /\ seen' = seen /\ work' = work
        /\ answer' = answer
    BY <1>2 DEF vars
  <2>2. table = "incidents" => Shaped' /\ RowsOK' /\ IncidentLog' /\ EndsAreLogged'
    BY <1>2, <2>1 DEF IncidentsInv, Shaped, RowsOK, IncidentLog, EndsAreLogged, EventsOf
  <2>3. table = "incidents" => \A q \in Requests : Own(q)'
    BY <1>2, <2>1 DEF IncidentsInv, Own
  <2>4. table = "incidents" => \A q \in Requests : IncidentRequest(q)'
    BY <1>2, <2>1, SMTT(30) DEF IncidentsInv, IncidentRequest, IncidentColumns
  <2> QED
    BY <2>1, <2>2, <2>3, <2>4 DEF IncidentsInv
<1> QED
  BY <1>1, <1>2

LEMMA IncidentsStart == Init => IncidentsInv
<1> SUFFICES ASSUME Init, table = "incidents" PROVE IncidentsInv
  BY DEF IncidentsInv
<1>1. RowsOK /\ Shaped /\ \A r \in Requests : Own(r) /\ pc[r] = "idle" /\ work[r] = NoWork /\ answer[r] = "none"
                                               /\ seen[r] = None
  BY InitialRowsOK
<1>2. \A r \in Requests : IncidentRequest(r)
  BY <1>1 DEF IncidentRequest, NoWork, NoRows
<1>3. log = {}
  BY DEF Init, Idle
<1>4. IncidentLog
  BY <1>3 DEF IncidentLog
<1>5. ASSUME NEW id \in DOMAIN rows
      PROVE rows[id].ended_at = None /\ rows[id].status = "open" /\ id \notin Requests
  <2>1. Inserted("incidents", rows[id]) /\ id \in Old \cup {Second(i) : i \in Old}
    BY ServicesAssumption DEF Init
  <2>2. rows[id] = [NewIncident(rows[id].severity) EXCEPT !.id = rows[id].id]
    BY <2>1 DEF Inserted
  <2>3. PICK v : v = rows[id].severity
    OBVIOUS
  <2>4. PICK i : i = rows[id].id
    OBVIOUS
  <2>5. rows[id] = [NewIncident(v) EXCEPT !.id = i]
    BY <2>2, <2>3, <2>4
  <2>6. id \notin Requests
    BY <2>1, ServicesAssumption, SessionsAssumption DEF Ids
  <2> QED
    BY <2>5, <2>6 DEF NewIncident
<1>6. EndsAreLogged
  BY <1>3, <1>5 DEF EndsAreLogged, EventsOf
<1> QED
  BY <1>1, <1>2, <1>4, <1>6 DEF IncidentsInv

\* An incident's status and severity change together with its log, which is only
\* appended to; and the end of an incident is the one its log tells, however
\* resolutions, updates and escalations ran into one another.
THEOREM IncidentsTellAll == Spec => IncidentChangesAreLogged /\ []EndsAreLogged
<1> DEFINE Told == table = "incidents" =>
             /\ log \subseteq log'
             /\ \A id \in DOMAIN rows :
                  LET new == {e \in log' \ log : e.incident = id} IN
                  /\ rows'[id].status # rows[id].status => \E e \in new : e.type = rows'[id].status
                  /\ rows'[id].severity # rows[id].severity => \E e \in new : e.severity = rows'[id].severity
<1>1. IncidentsInv /\ [Next]_vars => [Told]_vars
  <2> SUFFICES ASSUME IncidentsInv, Next, table = "incidents" PROVE Told
    OBVIOUS
  <2>1. PICK r \in Requests : ArriveIncident(r) \/ IncidentStep(r) \/ Commit(r) \/ Abort(r)
    BY IncidentSteps
  <2>2. CASE ~Commit(r)
    <3>1. Stirs(r)
      BY <2>1, <2>2, IncidentArrives, IncidentIsCreated, IncidentLoads, IncidentIsChanged, IncidentDies
         DEF IncidentStep
    <3> QED
      BY <3>1 DEF Stirs
  <2>3. CASE Commit(r)
    <3>1. log' = log \cup work[r].log /\ \A e \in work[r].log : e.by = r /\ e \notin log
      BY <2>3, IncidentCommitted
    <3>2. ASSUME NEW id \in DOMAIN rows, rows'[id] # rows[id]
          PROVE /\ rows'[id].status # rows[id].status =>
                     \E e \in log' \ log : e.incident = id /\ e.type = rows'[id].status
                /\ rows'[id].severity # rows[id].severity =>
                     \E e \in log' \ log : e.incident = id /\ e.severity = rows'[id].severity
      <4>1. /\ op[r].name # "create" /\ id = op[r].id
            /\ IncidentColumns(r, work[r].rows[id], work[r].log)
            /\ rows'[id] = Over(work[r].rows[id], rows[id])
            /\ pc[r] = "commit"
        BY <2>3, <3>2, IncidentCommitted
      <4>2. rows[id] \in Incident /\ rows[id].id = op[r].id
        BY <4>1, IncidentRows DEF IncidentsInv, RowsOK
      <4>3. PICK w : w = work[r].rows[id]
        OBVIOUS
      <4>4. PICK old : old = rows[id]
        OBVIOUS
      <4>5. IncidentColumns(r, w, work[r].log) /\ old \in Incident /\ old.id = op[r].id
        BY <4>1, <4>2, <4>3, <4>4
      <4>6. \A c \in {"status", "severity", "ended_at"} :
              Over(w, old)[c] = IF c \in DOMAIN w THEN w[c] ELSE old[c]
        BY <4>5, IncidentIsMerged
      <4>7. /\ rows'[id].status = IF "status" \in DOMAIN w THEN w["status"] ELSE rows[id].status
            /\ rows'[id].severity = IF "severity" \in DOMAIN w THEN w["severity"] ELSE rows[id].severity
        BY <4>1, <4>3, <4>4, <4>6
      <4>8. \A e \in work[r].log : e.incident = id
        BY <4>1 DEF IncidentsInv, IncidentRequest
      <4>9. rows'[id].status # rows[id].status =>
              \E e \in log' \ log : e.incident = id /\ e.type = rows'[id].status
        BY <3>1, <4>5, <4>7, <4>8 DEF IncidentColumns
      <4>10. rows'[id].severity # rows[id].severity =>
               \E e \in log' \ log : e.incident = id /\ e.severity = rows'[id].severity
        BY <3>1, <4>5, <4>7, <4>8 DEF IncidentColumns
      <4> QED
        BY <4>9, <4>10
    <3>3. log \subseteq log'
      BY <3>1
    <3>4. \A id \in DOMAIN rows :
            LET new == {e \in log' \ log : e.incident = id} IN
            /\ rows'[id].status # rows[id].status => \E e \in new : e.type = rows'[id].status
            /\ rows'[id].severity # rows[id].severity => \E e \in new : e.severity = rows'[id].severity
      BY <3>2
    <3> QED
      BY <3>3, <3>4
  <2> QED
    BY <2>2, <2>3
<1>2. IncidentsInv => EndsAreLogged
  BY DEF IncidentsInv, EndsAreLogged
<1> QED
  BY <1>1, <1>2, IncidentsStart, IncidentsStep, PTL DEF Spec, IncidentChangesAreLogged

------------------------------------------------------------------------------
(***************************************************************************)
(* Accounts: what the directory, the connections and the bank accounts     *)
(* have in common.                                                         *)
(***************************************************************************)

\* Any step of r that writes: to rows it has written, to rows of its own, and to rows
\* of the table no one else has written.
LEMMA OwnWrites ==
  ASSUME \A q \in Requests : Own(q), NEW r \in Requests, Stirs(r),
         DOMAIN work'[r].rows \subseteq
           DOMAIN work[r].rows \cup {r, Second(r)} \cup {id \in DOMAIN rows : Free(r, id)},
         seen'[r] # None => seen'[r] \in Row[table] /\ seen'[r].id \in DOMAIN rows,
         pc[r] # "done", pc'[r] \notin {"idle", "done"}
  PROVE \A q \in Requests : Own(q)'
<1>1. rows' = rows /\ table' = table
  BY DEF Stirs, Moves
<1>2. \A q \in Requests : q # r =>
        work'[q] = work[q] /\ DOMAIN work'[r].rows \cap DOMAIN work[q].rows = {}
  <2> SUFFICES ASSUME NEW q \in Requests, q # r
               PROVE work'[q] = work[q] /\ DOMAIN work'[r].rows \cap DOMAIN work[q].rows = {}
    OBVIOUS
  <2>1. {q, Second(q)} \cap {r, Second(r)} = {}
    BY RowsApart
  <2>2. r \notin DOMAIN rows /\ Second(r) \notin DOMAIN rows
    BY DEF Own
  <2>3. DOMAIN work[q].rows \subseteq DOMAIN rows \cup {q, Second(q)}
    BY DEF Own
  <2>4. r \notin DOMAIN work[q].rows /\ Second(r) \notin DOMAIN work[q].rows
    BY <2>1, <2>2, <2>3
  <2>5. DOMAIN work[r].rows \cap DOMAIN work[q].rows = {}
    BY DEF Own
  <2>6. \A id : Free(r, id) => id \notin DOMAIN work[q].rows
    BY DEF Free
  <2>7. work'[q] = work[q]
    BY DEF Stirs, Moves
  <2> QED
    BY <2>4, <2>5, <2>6, <2>7
<1>3. DOMAIN work'[r].rows \subseteq DOMAIN rows' \cup {r, Second(r)}
  BY <1>1 DEF Own
<1>4. Own(r)'
  BY <1>1, <1>2, <1>3 DEF Own
<1> QED
  BY <1>4, OwnStirs

\* The log has the entry of every request that was answered, and of no other; one that
\* was refused or has died has left no row.
AuditedRequest(r) ==
  /\ pc[r] # "done" => answer[r] = "none"
  /\ work[r].log = IF pc[r] = "commit" THEN Audit(r) ELSE {}
  /\ pc[r] = "done" => IF answer[r] = "200" THEN Audit(r) \subseteq log
                       ELSE {r, Second(r)} \cap DOMAIN rows = {} /\ Audit(r) \cap log = {}

Audited ==
  /\ \A e \in log : e.by \in Requests /\ pc[e.by] = "done"
  /\ \A r \in Requests : AuditedRequest(r)

LEMMA AuditedStart ==
  ASSUME Init
  PROVE Audited
<1>1. /\ log = {}
      /\ \A r \in Requests : pc[r] = "idle" /\ work[r] = NoWork /\ answer[r] = "none"
  BY InitialRowsOK DEF Init, Idle
<1> QED
  BY <1>1 DEF Audited, AuditedRequest, NoWork

\* A step of r that commits nothing.
LEMMA AuditedStirs ==
  ASSUME Audited, \A q \in Requests : Own(q), NEW r \in Requests, Stirs(r), pc[r] # "done",
         \/ /\ pc'[r] # "done" /\ answer'[r] = answer[r]
            /\ work'[r].log = IF pc'[r] = "commit" THEN {[by |-> r, event |-> op'[r].name]} ELSE {}
         \/ pc'[r] = "done" /\ answer'[r] # "200" /\ work'[r] = NoWork
  PROVE Audited'
<1>1. log' = log /\ rows' = rows
  BY DEF Stirs
<1>2. \A q \in Requests : q # r =>
        /\ pc'[q] = pc[q] /\ op'[q] = op[q] /\ work'[q] = work[q] /\ answer'[q] = answer[q]
  BY DEF Stirs, Moves
<1>3. \A e \in log : e.by \in Requests /\ e.by # r /\ pc'[e.by] = "done"
  BY <1>2 DEF Audited
<1>4. \A q \in Requests : q # r => AuditedRequest(q)'
  BY <1>1, <1>2, SMTT(30) DEF Audited, AuditedRequest, Audit
<1>5. AuditedRequest(r)'
  <2>1. CASE /\ pc'[r] # "done" /\ answer'[r] = answer[r]
             /\ work'[r].log = IF pc'[r] = "commit" THEN {[by |-> r, event |-> op'[r].name]} ELSE {}
    BY <2>1 DEF Audited, AuditedRequest, Audit
  <2>2. CASE pc'[r] = "done" /\ answer'[r] # "200" /\ work'[r] = NoWork
    <3>1. {r, Second(r)} \cap DOMAIN rows = {}
      BY DEF Own
    <3>2. {[by |-> r, event |-> op'[r].name]} \cap log = {}
      BY <1>3
    <3>3. work'[r].log = {}
      BY <2>2 DEF NoWork
    <3> QED
      BY <1>1, <2>2, <3>1, <3>2, <3>3 DEF AuditedRequest, Audit
  <2> QED
    BY <2>1, <2>2
<1> QED
  BY <1>1, <1>3, <1>4, <1>5 DEF Audited

\* A commit, which is where the entry of a request comes into the log.
LEMMA AuditedCommits ==
  ASSUME Shaped, Audited, \A q \in Requests : Own(q), NEW r \in Requests, Commit(r)
  PROVE Audited' /\ Audit(r) \cap log = {} /\ log' = log \cup Audit(r)
<1>1. /\ Moves(r) /\ pc[r] = "commit" /\ pc'[r] = "done" /\ op'[r] = op[r] /\ work'[r] = NoWork
      /\ answer'[r] = IF answer[r] = "none" THEN "200" ELSE answer[r]
      /\ log' = log \cup work[r].log
      /\ DOMAIN rows' = DOMAIN rows \cup DOMAIN work[r].rows
  BY Committing
<1>2. work[r].log = Audit(r) /\ answer'[r] = "200"
  BY <1>1 DEF Audited, AuditedRequest
<1>3. \A e \in log : e.by \in Requests /\ e.by # r /\ pc'[e.by] = "done"
  BY <1>1 DEF Audited, Moves
<1>4. \A e \in Audit(r) : e.by = r
  BY DEF Audit
<1>5. Audit(r) \cap log = {}
  BY <1>3, <1>4
<1>6. AuditedRequest(r)'
  <2>1. Audit(r)' = Audit(r)
    BY <1>1 DEF Audit
  <2>2. work'[r].log = {}
    BY <1>1 DEF NoWork
  <2> QED
    BY <1>1, <1>2, <2>1, <2>2 DEF AuditedRequest
<1>7. ASSUME NEW q \in Requests, q # r PROVE AuditedRequest(q)'
  <2>1. /\ pc'[q] = pc[q] /\ op'[q] = op[q] /\ work'[q] = work[q] /\ answer'[q] = answer[q]
    BY <1>1, <1>7 DEF Moves
  <2>2. Audit(q)' = Audit(q) /\ AuditedRequest(q)
    BY <2>1 DEF Audit, Audited
  <2>3. {q, Second(q)} \cap {r, Second(r)} = {}
    BY <1>7, RowsApart
  <2>4. DOMAIN work[r].rows \subseteq DOMAIN rows \cup {r, Second(r)}
    BY DEF Own
  <2>5. {q, Second(q)} \cap DOMAIN rows = {} => {q, Second(q)} \cap DOMAIN rows' = {}
    BY <1>1, <2>3, <2>4
  <2>6. \A e \in Audit(q) : e.by = q
    BY DEF Audit
  <2>7. Audit(q) \cap log = {} => Audit(q) \cap log' = {}
    BY <1>1, <1>2, <1>4, <1>7, <2>6
  <2> QED
    BY <1>1, <2>1, <2>2, <2>5, <2>7 DEF AuditedRequest
<1>8. \A e \in log' : e.by \in Requests /\ pc'[e.by] = "done"
  BY <1>1, <1>2, <1>3, <1>4
<1> QED
  BY <1>1, <1>2, <1>5, <1>6, <1>7, <1>8 DEF Audited

AccountNames ==
  {"register_user", "create_merchant", "login_user", "patch_merchant", "create_merchant_member",
   "connect_provider", "create_provider_account", "delete_provider_account", "create_data_source",
   "update_data_source", "create_bank_account", "update_bank_account", "delete_bank_account",
   "verify_bank_account"}

\* With accounts in the table, the steps are those of accounts.
LEMMA AccountSteps ==
  ASSUME table \in {"directory", "connections", "bank_accounts"}, Next,
         \A r \in Requests : pc[r] # "idle" => op[r].name \in AccountNames
  PROVE \E r \in Requests : ArriveAccount(r) \/ AccountStep(r) \/ Commit(r) \/ Abort(r)
<1>1. ~Tick
  BY DEF Tick
<1>2. PICK r \in Requests : \/ ArriveAlert(r) \/ ArriveNotification(r) \/ ArriveIncident(r) \/ ArriveAccount(r)
                            \/ Step(r) \/ Abort(r)
  BY <1>1 DEF Next
<1>3. ~ArriveAlert(r) /\ ~ArriveNotification(r) /\ ~ArriveIncident(r)
  BY DEF ArriveAlert, ArriveNotification, ArriveIncident
<1>4. pc[r] # "idle" => op[r].name \in AccountNames
  OBVIOUS
<1>5. ~AlertStep(r)
  BY <1>4 DEF AlertStep, SelectAlert, RaiseAlert, LoadAlert, SetAlert, AlertRoutes, At, AccountNames
<1>6. ~NotificationStep(r)
  BY <1>4 DEF NotificationStep, SelectNotification, InsertNotification, Claim, Send, LoadNotification,
              ReadNotification, At, AccountNames
<1>7. ~IncidentStep(r)
  BY <1>4 DEF IncidentStep, CreateIncident, LoadIncident, Acknowledge, Resolve, AddEvent, UpdateIncident,
              Escalate, At, AccountNames
<1> QED
  BY <1>2, <1>3, <1>5, <1>6, <1>7 DEF Step

------------------------------------------------------------------------------
(***************************************************************************)
(* The directory: merchants and users.                                     *)
(***************************************************************************)

DirectoryNames ==
  {"register_user", "create_merchant", "login_user", "patch_merchant", "create_merchant_member"}

\* The rows that r has written, with a name each.
DirectoryWork(r, id) ==
  LET w == work[r].rows[id] IN
  \/ /\ op[r].name = "patch_merchant" /\ id = op[r].id
     /\ id \in DOMAIN rows /\ rows[id].kind = "merchant"
     /\ DOMAIN w = {"name"} /\ w["name"] = op[r].merchant
  \/ /\ op[r].name = "register_user" /\ id = Second(r)
     /\ w = [id |-> Second(r), kind |-> "merchant", name |-> op[r].merchant]
  \/ /\ op[r].name = "create_merchant" /\ id = r
     /\ w = [id |-> r, kind |-> "merchant", name |-> op[r].merchant]
  \/ /\ op[r].name = "register_user" /\ id = r
     /\ w = [id |-> r, kind |-> "user", name |-> op[r].email, merchant |-> Second(r)]
  \/ /\ op[r].name = "create_merchant_member" /\ id = r
     /\ w = [id |-> r, kind |-> "user", name |-> op[r].email, merchant |-> op[r].id]

\* The kind of the row r has written under id.
ClaimedKind(r, id) ==
  IF op[r].name = "create_merchant_member" \/ (op[r].name = "register_user" /\ id = r)
  THEN "user" ELSE "merchant"

DirectoryRequest(r) ==
  /\ pc[r] \in {"idle", "select", "email", "write", "user", "commit", "done"}
  /\ pc[r] # "idle" =>
       /\ op[r].name \in DirectoryNames
       /\ op[r].name \in {"register_user", "create_merchant", "patch_merchant"} => op[r].merchant \in Names
       /\ op[r].name \in {"register_user", "create_merchant_member"} => op[r].email \in Names
       /\ op[r].name \in {"patch_merchant", "create_merchant_member"} =>
            op[r].id = None \/ (op[r].id \in DOMAIN rows /\ rows[op[r].id].kind = "merchant")
  /\ pc[r] = "select" => op[r].name \in {"patch_merchant", "create_merchant_member"}
  /\ pc[r] = "email" => op[r].name \in {"register_user", "login_user", "create_merchant_member"}
  /\ pc[r] = "write" => op[r].name \in {"register_user", "create_merchant", "patch_merchant"}
  /\ pc[r] = "user" => op[r].name \in {"register_user", "create_merchant_member"}
  /\ pc[r] \in {"select", "email", "write"} => work[r] = NoWork
  /\ pc[r] = "user" => DOMAIN work[r].rows = IF op[r].name = "register_user" THEN {Second(r)} ELSE {}
  /\ pc[r] = "commit" /\ op[r].name = "register_user" => DOMAIN work[r].rows = {r, Second(r)}
  /\ pc[r] \in {"write", "commit"} /\ op[r].name = "patch_merchant" =>
       op[r].id \in DOMAIN rows /\ seen[r] # None /\ seen[r].id = op[r].id
  /\ pc[r] \in {"email", "user", "commit"} /\ op[r].name = "create_merchant_member" => op[r].id \in DOMAIN rows
  /\ \A id \in DOMAIN work[r].rows : DirectoryWork(r, id)

\* No committed row has a name that r has written, and no row of another request.
NameIsFree(r) ==
  \A id \in DOMAIN work[r].rows, i \in DOMAIN rows :
    rows[i].kind = ClaimedKind(r, id) => rows[i].name # work[r].rows[id]["name"]

NamesApart(q, r) ==
  \A i \in DOMAIN work[q].rows, j \in DOMAIN work[r].rows :
    ClaimedKind(q, i) = ClaimedKind(r, j) => work[q].rows[i]["name"] # work[r].rows[j]["name"]

DirectoryIsWhole ==
  /\ \A a, b \in DOMAIN rows : rows[a].kind = rows[b].kind /\ rows[a].name = rows[b].name => a = b
  /\ \A a \in DOMAIN rows : rows[a].kind = "user" =>
       rows[a].merchant \in DOMAIN rows /\ rows[rows[a].merchant].kind = "merchant"
  /\ \A r \in Requests : Second(r) \in DOMAIN rows => r \in DOMAIN rows

DirectoryInv ==
  table = "directory" =>
    /\ Shaped /\ RowsOK /\ Audited /\ DirectoryIsWhole
    /\ \A r \in Requests : Own(r) /\ DirectoryRequest(r) /\ NameIsFree(r)
    /\ \A q, r \in Requests : q # r => NamesApart(q, r)

LEMMA DirectoryRows == Row["directory"] = Directory
  BY DEF Row

\* The kind and the name of a row that was written.
LEMMA WrittenNames ==
  ASSUME NEW r \in Requests, NEW id \in DOMAIN work[r].rows, DirectoryWork(r, id)
  PROVE /\ "name" \in DOMAIN work[r].rows[id]
        /\ id \notin DOMAIN rows => work[r].rows[id].kind = ClaimedKind(r, id)
        /\ op[r].name # "patch_merchant" => work[r].rows[id].kind = ClaimedKind(r, id)
        /\ op[r].name = "patch_merchant" =>
             ClaimedKind(r, id) = "merchant" /\ id \in DOMAIN rows /\ rows[id].kind = "merchant"
<1>1. Second(r) # r
  BY ServicesAssumption DEF Second, Ids
<1> QED
  BY <1>1 DEF DirectoryWork, ClaimedKind

\* A step of r that writes no name.
LEMMA NamesStay ==
  ASSUME DirectoryInv, table = "directory", NEW r \in Requests, Stirs(r),
         DOMAIN work'[r].rows = {} \/ (work'[r].rows = work[r].rows /\ op'[r] = op[r])
  PROVE /\ \A q \in Requests : NameIsFree(q)'
        /\ \A p, q \in Requests : p # q => NamesApart(p, q)'
<1>1. \A q \in Requests : q # r => work'[q] = work[q] /\ op'[q] = op[q]
  BY DEF Stirs, Moves
<1>2. rows' = rows
  BY DEF Stirs
<1>3. \A q \in Requests : \/ DOMAIN work'[q].rows = {}
                          \/ work'[q].rows = work[q].rows /\ op'[q] = op[q]
  BY <1>1
<1> QED
  BY <1>2, <1>3 DEF DirectoryInv, NameIsFree, NamesApart, ClaimedKind

\* A step of r that writes a name the index lets it write.
LEMMA NameIsTaken ==
  ASSUME DirectoryInv, table = "directory", NEW r \in Requests, Stirs(r), op'[r] = op[r],
         NEW kind, NEW name, ~Undecided(r, kind, name), Named(kind, name) = {},
         NEW id, DOMAIN work'[r].rows \subseteq DOMAIN work[r].rows \cup {id},
         id \in DOMAIN work'[r].rows => work'[r].rows[id]["name"] = name,
         ClaimedKind(r, id) = kind,
         \A j \in DOMAIN work[r].rows : j # id => work'[r].rows[j] = work[r].rows[j]
  PROVE /\ \A q \in Requests : NameIsFree(q)'
        /\ \A p, q \in Requests : p # q => NamesApart(p, q)'
<1>1. \A q \in Requests : op'[q] = op[q] /\ (q # r => work'[q] = work[q])
  BY DEF Stirs, Moves
<1>2. rows' = rows
  BY DEF Stirs
<1>3. \A q \in Requests : \A i : ClaimedKind(q, i)' = ClaimedKind(q, i)
  BY <1>1 DEF ClaimedKind
<1>4. \A i \in DOMAIN rows : rows[i].kind = kind => rows[i].name # name
  BY DEF Named, Rows
<1>5. ASSUME NEW q \in Requests, q # r, NEW i \in DOMAIN work[q].rows, ClaimedKind(q, i) = kind
      PROVE work[q].rows[i]["name"] # name
  <2>1. DirectoryWork(q, i)
    BY DEF DirectoryInv, DirectoryRequest
  <2>2. /\ "name" \in DOMAIN work[q].rows[i]
        /\ (IF i \in DOMAIN rows THEN rows[i] ELSE work[q].rows[i]).kind = kind
    <3>1. CASE i \notin DOMAIN rows
      BY <1>5, <2>1, <3>1, WrittenNames
    <3>2. CASE i \in DOMAIN rows
      <4>1. q \notin DOMAIN rows /\ Second(q) \notin DOMAIN rows
        BY <1>5 DEF DirectoryInv, Own, NoWork, NoRows
      <4>2. op[q].name = "patch_merchant"
        BY <2>1, <3>2, <4>1 DEF DirectoryWork
      <4> QED
        BY <1>5, <2>1, <3>2, <4>2, WrittenNames
    <3> QED
      BY <3>1, <3>2
  <2>3. work[q].rows[i].name = work[q].rows[i]["name"]
    OBVIOUS
  <2> QED
    BY <1>5, <2>2, <2>3 DEF Undecided
<1>6. ASSUME NEW q \in Requests PROVE NameIsFree(q)'
  <2>1. CASE q # r
    BY <1>1, <1>2, <1>3, <2>1 DEF DirectoryInv, NameIsFree
  <2>2. CASE q = r
    <3>1. NameIsFree(r)
      BY DEF DirectoryInv
    <3>2. \A j \in DOMAIN work'[r].rows, i \in DOMAIN rows :
            rows[i].kind = ClaimedKind(r, j) => rows[i].name # work'[r].rows[j]["name"]
      BY <1>4, <3>1 DEF NameIsFree
    <3> QED
      BY <1>2, <1>3, <2>2, <3>2 DEF NameIsFree
  <2> QED
    BY <2>1, <2>2
<1>7. ASSUME NEW p \in Requests, NEW q \in Requests, p # q PROVE NamesApart(p, q)'
  <2>0. NamesApart(p, q)
    BY <1>7 DEF DirectoryInv
  <2>1. CASE p # r /\ q # r
    BY <1>1, <1>3, <2>0, <2>1 DEF NamesApart
  <2>2. CASE p = r
    <3>1. \A i \in DOMAIN work'[r].rows, j \in DOMAIN work[q].rows :
            ClaimedKind(r, i) = ClaimedKind(q, j) => work'[r].rows[i]["name"] # work[q].rows[j]["name"]
      <4> SUFFICES ASSUME NEW i \in DOMAIN work'[r].rows, NEW j \in DOMAIN work[q].rows,
                          ClaimedKind(r, i) = ClaimedKind(q, j)
                   PROVE work'[r].rows[i]["name"] # work[q].rows[j]["name"]
        OBVIOUS
      <4>1. CASE i = id
        BY <1>5, <1>7, <2>2, <4>1
      <4>2. CASE i # id
        BY <2>0, <2>2, <4>2 DEF NamesApart
      <4> QED
        BY <4>1, <4>2
    <3> QED
      BY <1>1, <1>3, <1>7, <2>2, <3>1 DEF NamesApart
  <2>3. CASE q = r
    <3>1. \A j \in DOMAIN work[p].rows, i \in DOMAIN work'[r].rows :
            ClaimedKind(p, j) = ClaimedKind(r, i) => work[p].rows[j]["name"] # work'[r].rows[i]["name"]
      <4> SUFFICES ASSUME NEW i \in DOMAIN work'[r].rows, NEW j \in DOMAIN work[p].rows,
                          ClaimedKind(p, j) = ClaimedKind(r, i)
                   PROVE work[p].rows[j]["name"] # work'[r].rows[i]["name"]
        OBVIOUS
      <4>1. CASE i = id
        BY <1>5, <1>7, <2>3, <4>1
      <4>2. CASE i # id
        BY <2>0, <2>3, <4>2 DEF NamesApart
      <4> QED
        BY <4>1, <4>2
    <3> QED
      BY <1>1, <1>3, <1>7, <2>3, <3>1 DEF NamesApart
  <2> QED
    BY <2>1, <2>2, <2>3
<1> QED
  BY <1>6, <1>7

\* What is left to show of a step of r that commits nothing.
LEMMA DirectoryStirred ==
  ASSUME DirectoryInv, table = "directory", NEW r \in Requests, Stirs(r),
         \A q \in Requests : Own(q)', DirectoryRequest(r)', Audited',
         \A q \in Requests : NameIsFree(q)', \A p, q \in Requests : p # q => NamesApart(p, q)'
  PROVE DirectoryInv'
<1>1. Shaped' /\ rows' = rows /\ table' = table
  BY DEF Stirs, Moves
<1>2. RowsOK' /\ DirectoryIsWhole'
  BY <1>1 DEF RowsOK, DirectoryInv, DirectoryIsWhole
<1>3. ASSUME NEW q \in Requests, q # r PROVE DirectoryRequest(q)'
  <2>1. /\ pc'[q] = pc[q] /\ op'[q] = op[q] /\ seen'[q] = seen[q] /\ work'[q] = work[q]
        /\ answer'[q] = answer[q]
    BY <1>3 DEF Stirs, Moves
  <2>2. DirectoryRequest(q)
    BY DEF DirectoryInv
  <2>3. \A id \in DOMAIN work'[q].rows : DirectoryWork(q, id)'
    <3> SUFFICES ASSUME NEW id \in DOMAIN work'[q].rows
                 PROVE DirectoryWork(q, id)'
      OBVIOUS
    <3>1. DirectoryWork(q, id)
      BY <2>1, <2>2 DEF DirectoryRequest
    <3> QED
      BY <1>1, <2>1, <3>1 DEF DirectoryWork
  <2> QED
    BY <1>1, <2>1, <2>2, <2>3 DEF DirectoryRequest
<1> QED
  BY <1>1, <1>2, <1>3 DEF DirectoryInv

LEMMA DirectoryArrives ==
  ASSUME DirectoryInv, table = "directory", NEW r \in Requests, ArriveAccount(r)
  PROVE Stirs(r) /\ DirectoryInv'
<1>1. ASSUME NEW id \in Known("merchant")
      PROVE id = None \/ (id \in DOMAIN rows /\ rows[id].kind = "merchant")
  BY <1>1 DEF Known, Rows, DirectoryInv, RowsOK
<1>2. PICK o, s :
        /\ s \in {"select", "email", "write"} /\ Arrive(r, o, s)
        /\ o.name \in DirectoryNames
        /\ o.name \in {"register_user", "create_merchant", "patch_merchant"} => o.merchant \in Names
        /\ o.name \in {"register_user", "create_merchant_member"} => o.email \in Names
        /\ o.name \in {"patch_merchant", "create_merchant_member"} =>
             o.id = None \/ (o.id \in DOMAIN rows /\ rows[o.id].kind = "merchant")
        /\ s = "select" <=> o.name \in {"patch_merchant", "create_merchant_member"}
        /\ s = "write" <=> o.name = "create_merchant"
  <2>1. CASE \E n, e \in Names : Arrive(r, [name |-> "register_user", merchant |-> n, email |-> e], "email")
    BY <2>1 DEF DirectoryNames
  <2>2. CASE \E n \in Names : Arrive(r, [name |-> "create_merchant", merchant |-> n], "write")
    BY <2>2 DEF DirectoryNames
  <2>3. CASE \E e \in Names : Arrive(r, [name |-> "login_user", email |-> e], "email")
    BY <2>3 DEF DirectoryNames
  <2>4. CASE \E id \in Known("merchant"), n \in Names :
               Arrive(r, [name |-> "patch_merchant", id |-> id, merchant |-> n], "select")
    BY <1>1, <2>4 DEF DirectoryNames
  <2>5. CASE \E id \in Known("merchant"), n \in Names :
               Arrive(r, [name |-> "create_merchant_member", id |-> id, email |-> n], "select")
    BY <1>1, <2>5 DEF DirectoryNames
  <2> QED
    BY <2>1, <2>2, <2>3, <2>4, <2>5
       DEF ArriveAccount, ArriveDirectory, ArriveConnection, ArriveBankAccount
<1>3. /\ Stirs(r) /\ pc[r] = "idle" /\ pc'[r] = s /\ op'[r] = o
      /\ seen'[r] = seen[r] /\ work'[r] = work[r] /\ answer'[r] = answer[r]
  BY <1>2, Arriving DEF DirectoryInv, Statements
<1>4. pc[r] # "done" /\ pc'[r] \notin {"idle", "done", "commit"}
  BY <1>2, <1>3
<1>5. \A q \in Requests : Own(q)'
  BY <1>3, <1>4, OwnQuiet DEF DirectoryInv
<1>6. work[r] = NoWork /\ work'[r].log = {} /\ DOMAIN work'[r].rows = {} /\ work'[r] = NoWork
  BY <1>3 DEF DirectoryInv, Own, NoWork, NoRows
<1>7. Audited'
  BY <1>3, <1>4, <1>6, AuditedStirs DEF DirectoryInv
<1>8. DirectoryRequest(r)'
  <2>1. rows' = rows
    BY <1>3 DEF Stirs
  <2> QED
    BY <1>2, <1>3, <1>6, <2>1 DEF DirectoryRequest, DirectoryNames
<1>9. /\ \A q \in Requests : NameIsFree(q)'
      /\ \A p, q \in Requests : p # q => NamesApart(p, q)'
  BY <1>3, <1>6, NamesStay
<1> QED
  BY <1>3, <1>5, <1>7, <1>8, <1>9, DirectoryStirred

\* A request of the directory that is refused, or dies.
LEMMA DirectoryRefused ==
  ASSUME DirectoryInv, table = "directory", NEW r \in Requests, pc[r] \notin {"idle", "done"},
         NEW a \in Answers \ {"200"}, Discard(r, a)
  PROVE Stirs(r) /\ DirectoryInv'
<1>1. /\ Stirs(r) /\ pc'[r] = "done" /\ answer'[r] = a /\ work'[r] = NoWork
      /\ op'[r] = op[r] /\ seen'[r] = seen[r]
  BY Discarding DEF DirectoryInv
<1>2. \A q \in Requests : Own(q)'
  BY <1>1, OwnDiscard DEF DirectoryInv
<1>3. Audited'
  BY <1>1, AuditedStirs DEF DirectoryInv
<1>4. rows' = rows /\ DOMAIN work'[r].rows = {}
  BY <1>1 DEF Stirs, NoWork, NoRows
<1>5. DirectoryRequest(r)'
  <2>1. DirectoryRequest(r)
    BY DEF DirectoryInv
  <2> QED
    BY <1>1, <1>4, <2>1 DEF DirectoryRequest
<1>6. /\ \A q \in Requests : NameIsFree(q)'
      /\ \A p, q \in Requests : p # q => NamesApart(p, q)'
  BY <1>1, <1>4, NamesStay
<1> QED
  BY <1>1, <1>2, <1>3, <1>5, <1>6, DirectoryStirred

LEMMA DirectoryDies ==
  ASSUME DirectoryInv, table = "directory", NEW r \in Requests, Abort(r)
  PROVE Stirs(r) /\ DirectoryInv'
  BY DirectoryRefused DEF Abort, Answers

LEMMA DirectoryLoads ==
  ASSUME DirectoryInv, table = "directory", NEW r \in Requests, LoadRow(r)
  PROVE Stirs(r) /\ DirectoryInv'
<1>1. pc[r] = "select" /\ op[r].name \in {"patch_merchant", "create_merchant_member"} /\ work[r] = NoWork
  BY DEF LoadRow, DirectoryInv, DirectoryRequest
<1>2. CASE op[r].id \notin DOMAIN rows
  <2>1. Discard(r, "404")
    BY <1>2 DEF LoadRow
  <2> QED
    BY <1>1, <2>1, DirectoryRefused DEF Answers
<1>3. CASE op[r].id \in DOMAIN rows
  <2>1. PICK s : s = IF op[r].name = "create_merchant_member" THEN "email" ELSE "write"
    OBVIOUS
  <2>2. Select(r, {rows[op[r].id]}, s) /\ s \in Statements
    BY <1>3, <2>1 DEF LoadRow, Statements
  <2>3. /\ Stirs(r)
        /\ pc'[r] = s /\ op'[r] = op[r] /\ work'[r] = work[r] /\ answer'[r] = answer[r]
        /\ seen'[r] = rows[op[r].id]
    BY <2>2, Selecting DEF DirectoryInv
  <2>4. pc[r] # "done" /\ pc'[r] \notin {"idle", "done", "commit"}
    BY <1>1, <2>1, <2>3
  <2>5. \A q \in Requests : Own(q)'
    BY <1>3, <2>3, <2>4, OwnQuiet DEF DirectoryInv
  <2>6. work'[r].log = {} /\ DOMAIN work'[r].rows = {} /\ work'[r] = NoWork
    BY <1>1, <2>3 DEF NoWork, NoRows
  <2>7. Audited'
    BY <2>3, <2>4, <2>6, AuditedStirs DEF DirectoryInv
  <2>8. DirectoryRequest(r)'
    <3>1. rows' = rows
      BY <2>3 DEF Stirs
    <3>2. seen'[r] # None /\ seen'[r].id = op[r].id
      BY <1>3, <2>3, ServicesAssumption DEF DirectoryInv, RowsOK, Row
    <3>3. DirectoryRequest(r)
      BY DEF DirectoryInv
    <3> QED
      BY <1>1, <1>3, <2>1, <2>3, <2>6, <3>1, <3>2, <3>3 DEF DirectoryRequest
  <2>9. /\ \A q \in Requests : NameIsFree(q)'
        /\ \A p, q \in Requests : p # q => NamesApart(p, q)'
    BY <2>3, <2>6, NamesStay
  <2> QED
    BY <2>3, <2>5, <2>7, <2>8, <2>9, DirectoryStirred
<1> QED
  BY <1>2, <1>3

LEMMA DirectoryFindsEmail ==
  ASSUME DirectoryInv, table = "directory", NEW r \in Requests, SelectEmail(r)
  PROVE Stirs(r) /\ DirectoryInv'
<1>1. /\ pc[r] = "email" /\ work[r] = NoWork
      /\ op[r].name \in {"register_user", "login_user", "create_merchant_member"}
  BY DEF SelectEmail, DirectoryInv, DirectoryRequest
<1>2. CASE Discard(r, "401") \/ Discard(r, "409")
  BY <1>1, <1>2, DirectoryRefused DEF Answers
<1>3. CASE ~Discard(r, "401") /\ ~Discard(r, "409")
  <2>1. PICK s : s = CASE op[r].name = "login_user" -> "commit"
                       [] op[r].name = "register_user" -> "write"
                       [] op[r].name = "create_merchant_member" -> "user"
    OBVIOUS
  <2>2. PICK w : w = [rows |-> NoRows, log |-> IF op[r].name = "login_user" THEN Audit(r) ELSE {}]
    OBVIOUS
  <2>3. Goto(r, s) /\ UNCHANGED <<seen, answer>> /\ s \in {"commit", "write", "user"}
    BY <1>1, <1>3, <2>1 DEF SelectEmail
  <2>4. work' = [work EXCEPT ![r] = [rows |-> w.rows, log |-> w.log]]
    <3>1. CASE op[r].name = "login_user"
      <4>1. work' = [work EXCEPT ![r].log = Audit(r)]
        BY <1>3, <3>1 DEF SelectEmail
      <4>2. [work[r] EXCEPT !.log = Audit(r)] = [rows |-> w.rows, log |-> w.log]
        BY <1>1, <2>2, <3>1 DEF NoWork
      <4> QED
        BY <4>1, <4>2 DEF DirectoryInv, Shaped
    <3>2. CASE op[r].name # "login_user"
      <4>1. work' = work
        BY <1>1, <1>3, <3>2 DEF SelectEmail
      <4>2. work[r] = [rows |-> w.rows, log |-> w.log]
        BY <1>1, <2>2, <3>2 DEF NoWork
      <4> QED
        BY <4>1, <4>2 DEF DirectoryInv, Shaped
    <3> QED
      BY <3>1, <3>2
  <2>5. /\ Stirs(r)
        /\ pc'[r] = s /\ op'[r] = op[r] /\ seen'[r] = seen[r] /\ answer'[r] = answer[r]
        /\ work'[r] = [rows |-> w.rows, log |-> w.log]
    <3>1. s \in Statements /\ Shaped
      BY <2>3 DEF DirectoryInv, Statements
    <3> QED
      BY <2>3, <2>4, <3>1, Going
  <2>6. /\ work'[r].log = IF op[r].name = "login_user" THEN Audit(r) ELSE {}
        /\ DOMAIN work'[r].rows = {}
        /\ s # "commit" => work'[r] = NoWork
    <3>1. work'[r].rows = NoRows /\ work'[r].log = IF op[r].name = "login_user" THEN Audit(r) ELSE {}
      BY <2>2, <2>5
    <3>2. DOMAIN NoRows = {} /\ NoWork = [rows |-> NoRows, log |-> {}]
      BY DEF NoWork, NoRows
    <3>3. s # "commit" => op[r].name # "login_user"
      BY <2>1
    <3> QED
      BY <2>5, <3>1, <3>2, <3>3, <2>2
  <2>7. pc[r] # "done" /\ pc'[r] \notin {"idle", "done"}
    BY <1>1, <2>3, <2>5
  <2>8. \A q \in Requests : Own(q)'
    <3>1. seen'[r] # None => seen'[r] \in Row[table] /\ seen'[r].id \in DOMAIN rows
      BY <2>5 DEF DirectoryInv, Own
    <3> QED
      BY <2>5, <2>6, <2>7, <3>1, OwnWrites DEF DirectoryInv
  <2>9. Audited'
    <3>1. work'[r].log = IF pc'[r] = "commit" THEN {[by |-> r, event |-> op'[r].name]} ELSE {}
      BY <1>1, <2>1, <2>5, <2>6 DEF Audit
    <3> QED
      BY <2>5, <2>7, <3>1, AuditedStirs DEF DirectoryInv
  <2>10. DirectoryRequest(r)'
    <3>1. rows' = rows
      BY <2>5 DEF Stirs
    <3>2. DirectoryRequest(r)
      BY DEF DirectoryInv
    <3> QED
      BY <1>1, <2>1, <2>5, <2>6, <3>1, <3>2 DEF DirectoryRequest
  <2>11. /\ \A q \in Requests : NameIsFree(q)'
         /\ \A p, q \in Requests : p # q => NamesApart(p, q)'
    BY <2>5, <2>6, NamesStay
  <2> QED
    BY <2>5, <2>8, <2>9, <2>10, <2>11, DirectoryStirred
<1> QED
  BY <1>2, <1>3

\* A request of the directory that writes a row with a name the index lets it have.
LEMMA DirectoryWrites ==
  ASSUME DirectoryInv, table = "directory", NEW r \in Requests, Stirs(r),
         op'[r] = op[r], seen'[r] = seen[r], answer'[r] = answer[r],
         pc[r] \in {"write", "user"}, pc'[r] \in {"user", "commit"},
         NEW kind, NEW name, ~Undecided(r, kind, name), Named(kind, name) = {},
         NEW id, id \in {r, Second(r)} \cup {i \in DOMAIN rows : Free(r, i)},
         DOMAIN work'[r].rows \subseteq DOMAIN work[r].rows \cup {id},
         id \in DOMAIN work'[r].rows => work'[r].rows[id]["name"] = name,
         ClaimedKind(r, id) = kind,
         \A j \in DOMAIN work[r].rows : j # id => work'[r].rows[j] = work[r].rows[j],
         work'[r].log = IF pc'[r] = "commit" THEN Audit(r) ELSE {},
         DirectoryRequest(r)'
  PROVE DirectoryInv'
<1>1. pc[r] # "done" /\ pc'[r] \notin {"idle", "done"}
  OBVIOUS
<1>2. \A q \in Requests : Own(q)'
  <2>1. seen'[r] # None => seen'[r] \in Row[table] /\ seen'[r].id \in DOMAIN rows
    BY DEF DirectoryInv, Own
  <2>2. DOMAIN work'[r].rows \subseteq
          DOMAIN work[r].rows \cup {r, Second(r)} \cup {i \in DOMAIN rows : Free(r, i)}
    OBVIOUS
  <2> QED
    BY <1>1, <2>1, <2>2, OwnWrites DEF DirectoryInv
<1>3. Audited'
  <2>1. work'[r].log = IF pc'[r] = "commit" THEN {[by |-> r, event |-> op'[r].name]} ELSE {}
    BY DEF Audit
  <2> QED
    BY <1>1, <2>1, AuditedStirs DEF DirectoryInv
<1>4. /\ \A q \in Requests : NameIsFree(q)'
      /\ \A p, q \in Requests : p # q => NamesApart(p, q)'
  BY NameIsTaken
<1> QED
  BY <1>2, <1>3, <1>4, DirectoryStirred

LEMMA MerchantIsInserted ==
  ASSUME DirectoryInv, table = "directory", NEW r \in Requests, InsertMerchant(r)
  PROVE Stirs(r) /\ DirectoryInv'
<1> DEFINE registers == op[r].name = "register_user"
           merchant == [id |-> None, kind |-> "merchant", name |-> op[r].merchant]
<1>1. /\ pc[r] = "write" /\ op[r].name \in {"register_user", "create_merchant"} /\ work[r] = NoWork
      /\ DirectoryRequest(r)
  BY DEF InsertMerchant, DirectoryInv, DirectoryRequest
<1>2. CASE Named("merchant", op[r].merchant) # {}
  <2>1. PICK a : a = IF op[r].name = "register_user" THEN "400" ELSE "500"
    OBVIOUS
  <2>2. Discard(r, a) /\ a \in Answers \ {"200"}
    BY <1>2, <2>1 DEF InsertMerchant, WithName, Answers
  <2> QED
    BY <1>1, <2>2, DirectoryRefused
<1>3. CASE Named("merchant", op[r].merchant) = {}
  <2>1. PICK s, id, entries :
          /\ s = (IF registers THEN "user" ELSE "commit")
          /\ id = (IF registers THEN Second(r) ELSE r)
          /\ entries = (IF registers THEN {} ELSE Audit(r))
    OBVIOUS
  <2>2. PICK m : m = merchant
    OBVIOUS
  <2>3. /\ ~Undecided(r, "merchant", op[r].merchant)
        /\ Goto(r, s) /\ UNCHANGED <<seen, answer>> /\ InsertAs(r, id, m, entries)
    BY <1>1, <1>3, <2>1, <2>2 DEF InsertMerchant, WithName, Insert
  <2>4. s \in Statements /\ Shaped
    BY <2>1 DEF DirectoryInv, Statements
  <2>5. /\ Stirs(r)
        /\ pc'[r] = s /\ op'[r] = op[r] /\ seen'[r] = seen[r] /\ answer'[r] = answer[r]
        /\ work'[r].log = entries
        /\ DOMAIN work'[r].rows = {id}
        /\ work'[r].rows[id] = [m EXCEPT !.id = id]
    <3> HIDE DEF merchant, registers
    <3>1. work[r] = NoWork /\ Goto(r, s) /\ UNCHANGED <<seen, answer>> /\ InsertAs(r, id, m, entries)
      BY <1>1, <2>3
    <3> QED
      BY <2>4, <3>1, InsertingFirst, ZenonT(90)
  <2>6. work'[r].rows[id] = [id |-> id, kind |-> "merchant", name |-> op[r].merchant]
    BY <2>2, <2>5
  <2>7. ClaimedKind(r, id) = "merchant" /\ id \in {r, Second(r)}
    BY <1>1, <2>1, ServicesAssumption DEF ClaimedKind, Second, Ids
  <2>8. DirectoryRequest(r)'
    <3>1. rows' = rows
      BY <2>5 DEF Stirs
    <3>2. DirectoryWork(r, id)'
      BY <1>1, <2>1, <2>5, <2>6 DEF DirectoryWork
    <3>3. \A i \in DOMAIN work'[r].rows : DirectoryWork(r, i)'
      BY <2>5, <3>2
    <3> QED
      BY <1>1, <2>1, <2>5, <3>1, <3>3 DEF DirectoryRequest
  <2>9. work'[r].log = IF pc'[r] = "commit" THEN Audit(r) ELSE {}
    BY <2>1, <2>5
  <2>10. DOMAIN work[r].rows = {}
    BY <1>1 DEF NoWork, NoRows
  <2>11. work'[r].rows[id]["name"] = op[r].merchant
    BY <2>6
  <2>12. pc'[r] \in {"user", "commit"}
    BY <2>1, <2>5
  <2> QED
    BY <1>1, <1>3, <2>3, <2>5, <2>7, <2>8, <2>9, <2>10, <2>11, <2>12, DirectoryWrites, ZenonT(40)
<1> QED
  BY <1>2, <1>3

LEMMA UserIsInserted ==
  ASSUME DirectoryInv, table = "directory", NEW r \in Requests, InsertUser(r)
  PROVE Stirs(r) /\ DirectoryInv'
<1> DEFINE registers == op[r].name = "register_user"
           user == [id |-> None, kind |-> "user", name |-> op[r].email,
                    merchant |-> IF op[r].name = "register_user" THEN Second(r) ELSE op[r].id]
<1>1. /\ pc[r] = "user" /\ op[r].name \in {"register_user", "create_merchant_member"}
      /\ DOMAIN work[r].rows = (IF registers THEN {Second(r)} ELSE {})
      /\ DirectoryRequest(r)
  BY DEF InsertUser, DirectoryInv, DirectoryRequest
<1>2. CASE Named("user", op[r].email) # {}
  <2>1. PICK a : a = IF op[r].name = "register_user" THEN "400" ELSE "500"
    OBVIOUS
  <2>2. Discard(r, a) /\ a \in Answers \ {"200"}
    BY <1>2, <2>1 DEF InsertUser, WithName, Answers
  <2> QED
    BY <1>1, <2>2, DirectoryRefused
<1>3. CASE Named("user", op[r].email) = {}
  <2>1. PICK u : u = user
    OBVIOUS
  <2>2. PICK entries : entries = Audit(r)
    OBVIOUS
  <2>3. /\ ~Undecided(r, "user", op[r].email)
        /\ Goto(r, "commit") /\ UNCHANGED <<seen, answer>> /\ InsertAs(r, r, u, entries)
    BY <1>1, <1>3, <2>1, <2>2 DEF InsertUser, WithName, Insert
  <2>4. "commit" \in Statements /\ Shaped
    BY DEF DirectoryInv, Statements
  <2>5. /\ Stirs(r)
        /\ pc'[r] = "commit" /\ op'[r] = op[r] /\ seen'[r] = seen[r] /\ answer'[r] = answer[r]
        /\ work'[r] = [rows |-> Over(Single(r, [u EXCEPT !.id = r]), work[r].rows),
                       log |-> work[r].log \cup entries]
    BY <2>3, <2>4, Inserting
  <2>6. PICK v : v = [u EXCEPT !.id = r]
    OBVIOUS
  <2>7. /\ DOMAIN work'[r].rows = DOMAIN work[r].rows \cup {r}
        /\ work'[r].rows[r] = v
        /\ \A j \in DOMAIN work[r].rows : j # r => work'[r].rows[j] = work[r].rows[j]
        /\ work'[r].log = work[r].log \cup entries
    <3>1. work'[r].rows = Over(Single(r, v), work[r].rows) /\ work'[r].log = work[r].log \cup entries
      BY <2>5, <2>6
    <3> QED
      BY <3>1 DEF Over, Single
  <2>8. v = [id |-> r, kind |-> "user", name |-> op[r].email,
             merchant |-> IF op[r].name = "register_user" THEN Second(r) ELSE op[r].id]
    BY <2>1, <2>6
  <2>9. ClaimedKind(r, r) = "user" /\ r \in {r, Second(r)} /\ r # Second(r)
    BY <1>1, ServicesAssumption DEF ClaimedKind, Second, Ids
  <2>10. DirectoryRequest(r)'
    <3>1. rows' = rows
      BY <2>5 DEF Stirs
    <3>2. DirectoryWork(r, r)'
      BY <1>1, <2>5, <2>7, <2>8 DEF DirectoryWork
    <3>3. ASSUME NEW i \in DOMAIN work'[r].rows, i # r PROVE DirectoryWork(r, i)'
      <4>1. i \in DOMAIN work[r].rows /\ registers /\ i = Second(r) /\ work'[r].rows[i] = work[r].rows[i]
        BY <1>1, <2>7, <3>3
      <4>2. DirectoryWork(r, i)
        BY <1>1, <4>1 DEF DirectoryRequest
      <4> QED
        BY <2>5, <3>1, <4>1, <4>2 DEF DirectoryWork
    <3>4. \A i \in DOMAIN work'[r].rows : DirectoryWork(r, i)'
      BY <3>2, <3>3
    <3> QED
      BY <1>1, <2>5, <2>7, <3>1, <3>4 DEF DirectoryRequest
  <2>11. work'[r].log = IF pc'[r] = "commit" THEN Audit(r) ELSE {}
    <3>1. work[r].log = {}
      BY <1>1 DEF DirectoryInv, Audited, AuditedRequest
    <3> QED
      BY <2>2, <2>5, <2>7, <3>1
  <2>12. work'[r].rows[r]["name"] = op[r].email
    BY <2>7, <2>8
  <2>13. pc'[r] \in {"user", "commit"} /\ pc[r] \in {"write", "user"}
         /\ DOMAIN work'[r].rows \subseteq DOMAIN work[r].rows \cup {r}
    BY <1>1, <2>5, <2>7
  <2> QED
    <3> HIDE DEF user, registers
    <3>1. PICK name, kind, id : name = op[r].email /\ kind = "user" /\ id = r
      OBVIOUS
    <3>2. /\ ~Undecided(r, kind, name) /\ Named(kind, name) = {} /\ ClaimedKind(r, id) = kind
          /\ id \in {r, Second(r)} \cup {i \in DOMAIN rows : Free(r, i)}
      BY <1>3, <2>3, <2>9, <3>1
    <3>3. /\ id \in DOMAIN work'[r].rows => work'[r].rows[id]["name"] = name
          /\ DOMAIN work'[r].rows \subseteq DOMAIN work[r].rows \cup {id}
          /\ \A j \in DOMAIN work[r].rows : j # id => work'[r].rows[j] = work[r].rows[j]
      BY <2>7, <2>12, <2>13, <3>1
    <3>4. Stirs(r) /\ op'[r] = op[r] /\ seen'[r] = seen[r] /\ answer'[r] = answer[r]
      BY <2>5
    <3> QED
      BY <2>10, <2>11, <2>13, <3>2, <3>3, <3>4, DirectoryWrites
<1> QED
  BY <1>2, <1>3

LEMMA MerchantIsPatched ==
  ASSUME DirectoryInv, table = "directory", NEW r \in Requests, PatchMerchant(r)
  PROVE Stirs(r) /\ DirectoryInv'
<1>1. /\ pc[r] = "write" /\ op[r].name = "patch_merchant" /\ work[r] = NoWork
      /\ DirectoryRequest(r)
      /\ op[r].id \in DOMAIN rows /\ rows[op[r].id].kind = "merchant"
      /\ seen[r] # None /\ seen[r].id = op[r].id
  <2>1. pc[r] = "write" /\ op[r].name = "patch_merchant" /\ DirectoryRequest(r)
    BY DEF PatchMerchant, At, DirectoryInv
  <2>2. None \notin DOMAIN rows
    BY ServicesAssumption DEF DirectoryInv, RowsOK
  <2> QED
    BY <2>1, <2>2 DEF DirectoryRequest
<1>2. CASE op[r].merchant # seen[r].name /\ Named("merchant", op[r].merchant) # {}
  <2>1. Discard(r, "500")
    BY <1>1, <1>2 DEF PatchMerchant, WithName
  <2> QED
    BY <1>1, <2>1, DirectoryRefused DEF Answers
<1>3. CASE ~(op[r].merchant # seen[r].name /\ Named("merchant", op[r].merchant) # {})
  <2>1. PICK columns : columns = [name |-> op[r].merchant]
    OBVIOUS
  <2>2. PICK entries : entries = Audit(r)
    OBVIOUS
  <2>3. /\ Goto(r, "commit") /\ UNCHANGED <<seen, answer>> /\ Update(r, columns, entries)
        /\ op[r].merchant # seen[r].name =>
             /\ Named("merchant", op[r].merchant) = {}
             /\ ~Undecided(r, "merchant", op[r].merchant)
             /\ Free(r, op[r].id)
    BY <1>1, <1>3, <2>1, <2>2 DEF PatchMerchant, WithName
  <2>4. "commit" \in Statements /\ Shaped
    BY DEF DirectoryInv, Statements
  <2>5. PICK w : w = Written(seen[r], columns)
    OBVIOUS
  <2>6. /\ Stirs(r)
        /\ pc'[r] = "commit" /\ op'[r] = op[r] /\ seen'[r] = seen[r] /\ answer'[r] = answer[r]
        /\ work'[r].log = entries
        /\ \/ DOMAIN w = {} /\ DOMAIN work'[r].rows = {}
           \/ /\ DOMAIN w # {}
              /\ Free(r, seen[r].id)
              /\ DOMAIN work'[r].rows = {seen[r].id}
              /\ work'[r].rows[seen[r].id] = w
    BY <1>1, <2>3, <2>4, <2>5, UpdatingFirst
  <2>7. /\ op[r].merchant = seen[r].name => DOMAIN w = {}
        /\ op[r].merchant # seen[r].name => DOMAIN w = {"name"} /\ w["name"] = op[r].merchant
    BY <2>1, <2>5 DEF Written
  <2>8. DOMAIN work[r].rows = {}
    BY <1>1 DEF NoWork, NoRows
  <2>9. DirectoryRequest(r)'
    <3>1. rows' = rows
      BY <2>6 DEF Stirs
    <3>2. \A i \in DOMAIN work'[r].rows : i = op[r].id /\ DOMAIN w = {"name"} /\ w["name"] = op[r].merchant
                                          /\ work'[r].rows[i] = w
      BY <1>1, <2>6, <2>7
    <3>3. ASSUME NEW i \in DOMAIN work'[r].rows PROVE DirectoryWork(r, i)'
      <4>1. i = op[r].id /\ DOMAIN work'[r].rows[i] = {"name"} /\ work'[r].rows[i]["name"] = op[r].merchant
        BY <3>2
      <4> QED
        BY <1>1, <2>6, <3>1, <4>1 DEF DirectoryWork
    <3> QED
      BY <1>1, <2>6, <3>1, <3>3 DEF DirectoryRequest
  <2>10. work'[r].log = IF pc'[r] = "commit" THEN Audit(r) ELSE {}
    BY <2>2, <2>6
  <2>11. CASE op[r].merchant = seen[r].name
    <3>1. DOMAIN work'[r].rows = {}
      BY <2>6, <2>7, <2>11
    <3>2. pc[r] # "done" /\ pc'[r] \notin {"idle", "done"}
      BY <1>1, <2>6
    <3>3. \A q \in Requests : Own(q)'
      BY <1>1, <2>6, <3>1, <3>2, OwnUpdate DEF DirectoryInv
    <3>4. Audited'
      <4>1. work'[r].log = IF pc'[r] = "commit" THEN {[by |-> r, event |-> op'[r].name]} ELSE {}
        BY <2>6, <2>10 DEF Audit
      <4> QED
        BY <2>6, <3>2, <4>1, AuditedStirs DEF DirectoryInv
    <3>5. /\ \A q \in Requests : NameIsFree(q)'
          /\ \A p, q \in Requests : p # q => NamesApart(p, q)'
      BY <2>6, <3>1, NamesStay
    <3> QED
      BY <2>6, <2>9, <3>3, <3>4, <3>5, DirectoryStirred
  <2>12. CASE op[r].merchant # seen[r].name
    <3>1. /\ DOMAIN work'[r].rows = {op[r].id} /\ work'[r].rows[op[r].id]["name"] = op[r].merchant
      BY <1>1, <2>6, <2>7, <2>12
    <3>2. ClaimedKind(r, op[r].id) = "merchant"
      BY <1>1 DEF ClaimedKind
    <3>3. /\ op[r].id \in {r, Second(r)} \cup {i \in DOMAIN rows : Free(r, i)}
          /\ DOMAIN work'[r].rows \subseteq DOMAIN work[r].rows \cup {op[r].id}
      BY <1>1, <2>3, <2>12, <3>1
    <3>4. PICK id : id = op[r].id
      OBVIOUS
    <3>5. PICK name : name = op[r].merchant
      OBVIOUS
    <3> QED
      BY <1>1, <2>3, <2>6, <2>8, <2>9, <2>10, <2>12, <3>1, <3>2, <3>3, <3>4, <3>5, DirectoryWrites
  <2> QED
    BY <2>6, <2>11, <2>12
<1> QED
  BY <1>2, <1>3

\* A commit in the directory: the names r has written are there, under their kinds.
LEMMA DirectoryCommitted ==
  ASSUME DirectoryInv, table = "directory", NEW r \in Requests, Commit(r)
  PROVE /\ Moves(r) /\ pc[r] = "commit" /\ pc'[r] = "done"
        /\ op'[r] = op[r] /\ seen'[r] = seen[r] /\ work'[r] = NoWork
        /\ rows' = [id \in DOMAIN rows' |-> rows'[id]]
        /\ DOMAIN rows' = DOMAIN rows \cup DOMAIN work[r].rows
        /\ \A id \in DOMAIN rows : id \notin DOMAIN work[r].rows => rows'[id] = rows[id]
        /\ \A id \in DOMAIN rows : rows'[id].kind = rows[id].kind
        /\ \A id \in DOMAIN work[r].rows :
             /\ rows'[id] \in Directory /\ rows'[id].id = id /\ id \in AllIds
             /\ rows'[id].kind = ClaimedKind(r, id) /\ rows'[id].name = work[r].rows[id]["name"]
             /\ rows'[id].kind = "user" => rows'[id].merchant \in DOMAIN rows'
                                           /\ rows'[rows'[id].merchant].kind = "merchant"
        /\ \A id \in DOMAIN work[r].rows :
             id = CASE op[r].name = "patch_merchant" -> op[r].id
                    [] op[r].name = "register_user" /\ ClaimedKind(r, id) = "merchant" -> Second(r)
                    [] OTHER -> r
        /\ Second(r) \in DOMAIN work[r].rows => r \in DOMAIN work[r].rows \/ Second(r) \in DOMAIN rows
<1>1. /\ Moves(r) /\ pc[r] = "commit" /\ pc'[r] = "done"
      /\ op'[r] = op[r] /\ seen'[r] = seen[r] /\ work'[r] = NoWork
      /\ rows' = [id \in DOMAIN rows' |-> rows'[id]]
      /\ DOMAIN rows' = DOMAIN rows \cup DOMAIN work[r].rows
      /\ \A id \in DOMAIN rows :
           /\ id \notin DOMAIN work[r].rows => rows'[id] = rows[id]
           /\ id \in DOMAIN work[r].rows => rows'[id] = Over(work[r].rows[id], rows[id])
      /\ \A id \in DOMAIN work[r].rows : id \notin DOMAIN rows => rows'[id] = work[r].rows[id]
  BY Committing DEF DirectoryInv
<1>2. DirectoryRequest(r) /\ r \notin DOMAIN rows /\ Second(r) \notin DOMAIN rows
  BY <1>1 DEF DirectoryInv, Own
<1>3. r # Second(r) /\ r \in AllIds /\ Second(r) \in AllIds
  BY ServicesAssumption DEF Second, Ids, AllIds
<1>4. ASSUME NEW id \in DOMAIN work[r].rows, id \in DOMAIN rows
      PROVE /\ op[r].name = "patch_merchant" /\ id = op[r].id
            /\ rows[id].kind = "merchant" /\ rows'[id] \in Directory /\ rows'[id].id = id
            /\ rows'[id].kind = "merchant" /\ rows'[id].name = work[r].rows[id]["name"] /\ id \in AllIds
  <2>1. /\ op[r].name = "patch_merchant" /\ id = op[r].id
        /\ rows[id].kind = "merchant" /\ op[r].merchant \in Names
        /\ DOMAIN work[r].rows[id] = {"name"} /\ work[r].rows[id]["name"] = op[r].merchant
    BY <1>1, <1>2, <1>4 DEF DirectoryRequest, DirectoryWork
  <2>2. rows[id] \in Directory /\ rows[id].id = id /\ id \in AllIds
    BY <1>4, DirectoryRows DEF DirectoryInv, RowsOK
  <2>3. PICK old : old = rows[id]
    OBVIOUS
  <2>4. PICK w : w = work[r].rows[id]
    OBVIOUS
  <2>5. old.kind = "merchant" /\ old.id = id /\ old = [id |-> old.id, kind |-> old.kind, name |-> old.name]
    BY <2>1, <2>2, <2>3 DEF Directory
  <2>6. rows'[id] = Over(w, old)
    BY <1>1, <1>4, <2>3, <2>4
  <2>7. Over(w, old) = [c \in {"id", "kind", "name"} |-> IF c = "name" THEN op[r].merchant ELSE old[c]]
    BY <2>1, <2>4, <2>5 DEF Over
  <2>8. rows'[id] = [id |-> id, kind |-> "merchant", name |-> op[r].merchant]
    BY <2>5, <2>6, <2>7
  <2>9. rows'[id] \in Directory
    BY <2>1, <2>2, <2>8 DEF Directory
  <2> QED
    BY <2>1, <2>2, <2>8, <2>9
<1>5. ASSUME NEW id \in DOMAIN work[r].rows, id \notin DOMAIN rows
      PROVE /\ op[r].name # "patch_merchant"
            /\ rows'[id] \in Directory /\ rows'[id].id = id /\ id \in {r, Second(r)}
            /\ rows'[id].kind = ClaimedKind(r, id) /\ rows'[id].name = work[r].rows[id]["name"]
            /\ id = Second(r) => op[r].name = "register_user" /\ rows'[id].kind = "merchant"
            /\ rows'[id].kind = "user" => rows'[id].merchant \in DOMAIN rows'
                                           /\ rows'[rows'[id].merchant].kind = "merchant"
            /\ op[r].name = "register_user" /\ id = r => rows'[id].kind = "user"
  <2>0. DirectoryWork(r, id) /\ op[r].name \in DirectoryNames
    BY <1>1, <1>2, <1>5 DEF DirectoryRequest
  <2>1. PICK w : w = work[r].rows[id]
    OBVIOUS
  <2>2. rows'[id] = w
    BY <1>1, <1>5, <2>1
  <2>3. CASE op[r].name = "register_user" /\ id = Second(r)
    <3>1. w = [id |-> Second(r), kind |-> "merchant", name |-> op[r].merchant] /\ op[r].merchant \in Names
      BY <1>1, <1>2, <1>3, <2>0, <2>1, <2>3 DEF DirectoryWork, DirectoryRequest
    <3> QED
      BY <1>3, <2>1, <2>2, <2>3, <3>1 DEF ClaimedKind, Directory
  <2>4. CASE op[r].name = "create_merchant"
    <3>1. w = [id |-> r, kind |-> "merchant", name |-> op[r].merchant] /\ op[r].merchant \in Names /\ id = r
      BY <1>1, <1>2, <1>3, <2>0, <2>1, <2>4 DEF DirectoryWork, DirectoryRequest
    <3> QED
      BY <1>3, <2>1, <2>2, <2>4, <3>1 DEF ClaimedKind, Directory
  <2>5. CASE op[r].name = "register_user" /\ id # Second(r)
    <3>1. /\ w = [id |-> r, kind |-> "user", name |-> op[r].email, merchant |-> Second(r)]
          /\ op[r].email \in Names /\ id = r
      BY <1>1, <1>2, <1>3, <2>0, <2>1, <2>5 DEF DirectoryWork, DirectoryRequest
    <3>2. Second(r) \in DOMAIN work[r].rows
      BY <1>1, <1>2, <2>5 DEF DirectoryRequest
    <3>3. DirectoryWork(r, Second(r)) /\ rows'[Second(r)] = work[r].rows[Second(r)]
      BY <1>1, <1>2, <3>2 DEF DirectoryRequest
    <3>4. rows'[Second(r)].kind = "merchant"
      BY <1>2, <1>3, <2>5, <3>3 DEF DirectoryWork
    <3>5. Second(r) \in DOMAIN rows'
      BY <1>1, <3>2
    <3> QED
      BY <1>3, <2>1, <2>2, <2>5, <3>1, <3>4, <3>5 DEF ClaimedKind, Directory
  <2>6. CASE op[r].name = "create_merchant_member"
    <3>1. /\ w = [id |-> r, kind |-> "user", name |-> op[r].email, merchant |-> op[r].id]
          /\ op[r].email \in Names /\ id = r
      BY <1>1, <1>2, <1>3, <2>0, <2>1, <2>6 DEF DirectoryWork, DirectoryRequest
    <3>2. op[r].id \in DOMAIN rows /\ None \notin DOMAIN rows
      BY <1>1, <1>2, <2>6, ServicesAssumption DEF DirectoryRequest, DirectoryInv, RowsOK
    <3>3. rows[op[r].id].kind = "merchant" /\ op[r].id \in AllIds
      BY <1>1, <1>2, <2>6, <3>2 DEF DirectoryRequest, DirectoryInv, RowsOK
    <3>4. op[r].id \notin DOMAIN work[r].rows
      BY <1>4, <2>6, <3>2
    <3>5. rows'[op[r].id].kind = "merchant" /\ op[r].id \in DOMAIN rows'
      BY <1>1, <3>2, <3>3, <3>4
    <3> QED
      BY <1>3, <2>1, <2>2, <2>6, <3>1, <3>3, <3>5 DEF ClaimedKind, Directory
  <2>7. op[r].name \notin {"patch_merchant", "login_user"}
    BY <1>5, <2>0 DEF DirectoryWork
  <2> QED
    BY <2>0, <2>3, <2>4, <2>5, <2>6, <2>7 DEF DirectoryNames
<1>6. ASSUME NEW id \in DOMAIN work[r].rows
      PROVE /\ rows'[id] \in Directory /\ rows'[id].id = id /\ id \in AllIds
            /\ rows'[id].kind = ClaimedKind(r, id) /\ rows'[id].name = work[r].rows[id]["name"]
            /\ rows'[id].kind = "user" => rows'[id].merchant \in DOMAIN rows'
                                          /\ rows'[rows'[id].merchant].kind = "merchant"
  <2>1. CASE id \in DOMAIN rows
    <3>1. ClaimedKind(r, id) = "merchant"
      BY <1>4, <2>1 DEF ClaimedKind
    <3> QED
      BY <1>4, <2>1, <3>1
  <2>2. CASE id \notin DOMAIN rows
    BY <1>3, <1>5, <2>2
  <2> QED
    BY <2>1, <2>2
<1>7. ASSUME NEW id \in DOMAIN work[r].rows
      PROVE id = CASE op[r].name = "patch_merchant" -> op[r].id
                   [] op[r].name = "register_user" /\ ClaimedKind(r, id) = "merchant" -> Second(r)
                   [] OTHER -> r
  <2>1. CASE id \in DOMAIN rows
    BY <1>4, <2>1
  <2>2. CASE id \notin DOMAIN rows
    <3>1. /\ op[r].name # "patch_merchant" /\ id \in {r, Second(r)}
          /\ id = Second(r) => op[r].name = "register_user" /\ rows'[id].kind = "merchant"
          /\ op[r].name = "register_user" /\ id = r => rows'[id].kind = "user"
          /\ rows'[id].kind = ClaimedKind(r, id)
      BY <1>5, <2>2
    <3> QED
      BY <1>3, <3>1
  <2> QED
    BY <2>1, <2>2
<1>8. \A id \in DOMAIN rows : rows'[id].kind = rows[id].kind
  BY <1>1, <1>4
<1>9. Second(r) \in DOMAIN work[r].rows => r \in DOMAIN work[r].rows
  BY <1>1, <1>2, <1>5 DEF DirectoryRequest
<1> QED
  BY <1>1, <1>6, <1>7, <1>8, <1>9

LEMMA DirectoryCommits ==
  ASSUME DirectoryInv, table = "directory", NEW r \in Requests, Commit(r)
  PROVE DirectoryInv'
<1>1. /\ Moves(r) /\ pc[r] = "commit" /\ pc'[r] = "done"
      /\ op'[r] = op[r] /\ seen'[r] = seen[r] /\ work'[r] = NoWork
      /\ rows' = [id \in DOMAIN rows' |-> rows'[id]]
      /\ DOMAIN rows' = DOMAIN rows \cup DOMAIN work[r].rows
      /\ \A id \in DOMAIN rows : id \notin DOMAIN work[r].rows => rows'[id] = rows[id]
      /\ \A id \in DOMAIN rows : rows'[id].kind = rows[id].kind
  BY DirectoryCommitted
<1>2. \A id \in DOMAIN work[r].rows :
        /\ rows'[id] \in Directory /\ rows'[id].id = id /\ id \in AllIds
        /\ rows'[id].kind = ClaimedKind(r, id) /\ rows'[id].name = work[r].rows[id]["name"]
        /\ rows'[id].kind = "user" => rows'[id].merchant \in DOMAIN rows'
                                      /\ rows'[rows'[id].merchant].kind = "merchant"
  BY DirectoryCommitted
<1>3. \A a, b \in DOMAIN work[r].rows : ClaimedKind(r, a) = ClaimedKind(r, b) => a = b
  <2>1. \A id \in DOMAIN work[r].rows :
          id = CASE op[r].name = "patch_merchant" -> op[r].id
                 [] op[r].name = "register_user" /\ ClaimedKind(r, id) = "merchant" -> Second(r)
                 [] OTHER -> r
    BY DirectoryCommitted
  <2> QED
    BY <2>1
<1>4. Second(r) \in DOMAIN work[r].rows => r \in DOMAIN work[r].rows \/ Second(r) \in DOMAIN rows
  BY DirectoryCommitted
<1>5. table' = table /\ Shaped'
  BY <1>1 DEF Moves
<1>6. RowsOK'
  <2>1. DOMAIN rows' \subseteq AllIds
    BY <1>1, <1>2 DEF DirectoryInv, RowsOK
  <2>2. \A id \in DOMAIN rows' : rows'[id] \in Directory /\ rows'[id].id = id
    BY <1>1, <1>2, DirectoryRows DEF DirectoryInv, RowsOK
  <2> QED
    BY <1>1, <1>5, <2>1, <2>2, DirectoryRows DEF RowsOK
<1>7. \A q \in Requests : Own(q)'
  BY <1>6, OwnCommit DEF DirectoryInv
<1>8. Audited'
  BY AuditedCommits DEF DirectoryInv
<1>9. DirectoryIsWhole'
  <2>1. ASSUME NEW a \in DOMAIN rows', NEW b \in DOMAIN rows',
               rows'[a].kind = rows'[b].kind, rows'[a].name = rows'[b].name
        PROVE a = b
    <3>1. NameIsFree(r) /\ DirectoryIsWhole
      BY DEF DirectoryInv
    <3>2. CASE a \in DOMAIN work[r].rows /\ b \in DOMAIN work[r].rows
      BY <1>2, <1>3, <2>1, <3>2
    <3>3. CASE a \in DOMAIN work[r].rows /\ b \notin DOMAIN work[r].rows
      BY <1>1, <1>2, <2>1, <3>1, <3>3 DEF NameIsFree
    <3>4. CASE a \notin DOMAIN work[r].rows /\ b \in DOMAIN work[r].rows
      BY <1>1, <1>2, <2>1, <3>1, <3>4 DEF NameIsFree
    <3>5. CASE a \notin DOMAIN work[r].rows /\ b \notin DOMAIN work[r].rows
      BY <1>1, <2>1, <3>1, <3>5 DEF DirectoryIsWhole
    <3> QED
      BY <3>2, <3>3, <3>4, <3>5
  <2>2. ASSUME NEW a \in DOMAIN rows', rows'[a].kind = "user"
        PROVE rows'[a].merchant \in DOMAIN rows' /\ rows'[rows'[a].merchant].kind = "merchant"
    <3>1. CASE a \in DOMAIN work[r].rows
      BY <1>2, <2>2, <3>1
    <3>2. CASE a \notin DOMAIN work[r].rows
      <4>1. a \in DOMAIN rows /\ rows'[a] = rows[a]
        BY <1>1, <3>2
      <4>2. rows[a].merchant \in DOMAIN rows /\ rows[rows[a].merchant].kind = "merchant"
        BY <2>2, <4>1 DEF DirectoryInv, DirectoryIsWhole
      <4> QED
        BY <1>1, <4>1, <4>2
    <3> QED
      BY <3>1, <3>2
  <2>3. ASSUME NEW q \in Requests, Second(q) \in DOMAIN rows' PROVE q \in DOMAIN rows'
    <3>1. CASE Second(q) \in DOMAIN rows
      BY <1>1, <3>1 DEF DirectoryInv, DirectoryIsWhole
    <3>2. CASE Second(q) \notin DOMAIN rows
      <4>1. Second(q) \in DOMAIN work[r].rows
        BY <1>1, <2>3, <3>2
      <4>2. Second(q) \in {r, Second(r)}
        BY <3>2, <4>1 DEF DirectoryInv, Own
      <4>3. q = r
        BY <4>2, RowsApart
      <4> QED
        BY <1>1, <1>4, <3>2, <4>1, <4>3
    <3> QED
      BY <3>1, <3>2
  <2> QED
    BY <2>1, <2>2, <2>3 DEF DirectoryIsWhole
<1>10. \A q \in Requests : q # r =>
         /\ pc'[q] = pc[q] /\ op'[q] = op[q] /\ seen'[q] = seen[q] /\ work'[q] = work[q]
         /\ answer'[q] = answer[q]
  BY <1>1 DEF Moves
<1>11. DOMAIN work'[r].rows = {}
  BY <1>1 DEF NoWork, NoRows
<1>12. ASSUME NEW q \in Requests PROVE DirectoryRequest(q)'
  <2>0. DirectoryRequest(q)
    BY DEF DirectoryInv
  <2>1. CASE q = r
    BY <1>1, <1>11, <2>0, <2>1 DEF DirectoryRequest
  <2>2. CASE q # r
    <3>1. /\ pc'[q] = pc[q] /\ op'[q] = op[q] /\ seen'[q] = seen[q] /\ work'[q] = work[q]
      BY <1>10, <2>2
    <3>2. ASSUME NEW id \in DOMAIN work'[q].rows PROVE DirectoryWork(q, id)'
      <4>1. DirectoryWork(q, id)
        BY <2>0, <3>1 DEF DirectoryRequest
      <4> QED
        BY <1>1, <3>1, <4>1 DEF DirectoryWork
    <3> QED
      BY <1>1, <2>0, <3>1, <3>2 DEF DirectoryRequest
  <2> QED
    BY <2>1, <2>2
<1>13. ASSUME NEW q \in Requests PROVE NameIsFree(q)'
  <2>1. CASE q = r
    BY <1>11, <2>1 DEF NameIsFree
  <2>2. CASE q # r
    <3>1. NameIsFree(q) /\ NamesApart(q, r)
      BY <2>2 DEF DirectoryInv
    <3>2. ASSUME NEW id \in DOMAIN work[q].rows, NEW i \in DOMAIN rows', rows'[i].kind = ClaimedKind(q, id)
          PROVE rows'[i].name # work[q].rows[id]["name"]
      <4>1. CASE i \in DOMAIN work[r].rows
        BY <1>2, <3>1, <3>2, <4>1 DEF NamesApart
      <4>2. CASE i \notin DOMAIN work[r].rows
        BY <1>1, <3>1, <3>2, <4>2 DEF NameIsFree
      <4> QED
        BY <4>1, <4>2
    <3>3. work'[q] = work[q] /\ \A id : ClaimedKind(q, id)' = ClaimedKind(q, id)
      BY <1>10, <2>2 DEF ClaimedKind
    <3> QED
      BY <3>2, <3>3 DEF NameIsFree
  <2> QED
    BY <2>1, <2>2
<1>14. ASSUME NEW p \in Requests, NEW q \in Requests, p # q PROVE NamesApart(p, q)'
  <2>1. CASE p = r \/ q = r
    BY <1>11, <2>1 DEF NamesApart
  <2>2. CASE p # r /\ q # r
    <3>1. NamesApart(p, q)
      BY <1>14 DEF DirectoryInv
    <3> QED
      BY <1>10, <2>2, <3>1 DEF NamesApart, ClaimedKind
  <2> QED
    BY <2>1, <2>2
<1> QED
  BY <1>5, <1>6, <1>7, <1>8, <1>9, <1>12, <1>13, <1>14 DEF DirectoryInv

LEMMA DirectorySteps ==
  ASSUME DirectoryInv, table = "directory", Next
  PROVE \E r \in Requests :
          \/ ArriveAccount(r) \/ LoadRow(r) \/ SelectEmail(r) \/ InsertMerchant(r) \/ InsertUser(r)
          \/ PatchMerchant(r) \/ Commit(r) \/ Abort(r)
<1>1. \A r \in Requests : pc[r] # "idle" => op[r].name \in DirectoryNames
  BY DEF DirectoryInv, DirectoryRequest
<1>2. \A r \in Requests : pc[r] # "idle" => op[r].name \in AccountNames
  BY <1>1 DEF DirectoryNames, AccountNames
<1>3. PICK r \in Requests : ArriveAccount(r) \/ AccountStep(r) \/ Commit(r) \/ Abort(r)
  BY <1>2, AccountSteps
<1>4. pc[r] \in {"idle", "select", "email", "write", "user", "commit", "done"}
  BY DEF DirectoryInv, DirectoryRequest
<1>5. AccountStep(r) =>
        \/ LoadRow(r) \/ SelectEmail(r) \/ InsertMerchant(r) \/ InsertUser(r) \/ PatchMerchant(r)
  BY <1>1, <1>4 DEF AccountStep, SelectAccount, ConnectAccount, SelectSource, ConnectSource, InsertConnection,
                    SetStatus, InsertBankAccount, InitiateVerification, CompleteVerification, At, DirectoryNames
<1> QED
  BY <1>3, <1>5

LEMMA DirectoryStep == DirectoryInv /\ [Next]_vars => DirectoryInv'
<1>1. ASSUME DirectoryInv, Next PROVE DirectoryInv'
  <2>1. CASE table = "directory"
    <3>1. PICK r \in Requests :
            \/ ArriveAccount(r) \/ LoadRow(r) \/ SelectEmail(r) \/ InsertMerchant(r) \/ InsertUser(r)
            \/ PatchMerchant(r) \/ Commit(r) \/ Abort(r)
      BY <1>1, <2>1, DirectorySteps
    <3> QED
      BY <1>1, <2>1, <3>1, DirectoryArrives, DirectoryLoads, DirectoryFindsEmail, MerchantIsInserted,
         UserIsInserted, MerchantIsPatched, DirectoryCommits, DirectoryDies
  <2>2. CASE table # "directory"
    BY <1>1, <2>2, TableStays DEF DirectoryInv
  <2> QED
    BY <2>1, <2>2
<1>2. ASSUME DirectoryInv, UNCHANGED vars PROVE DirectoryInv'
  <2>1. table' = table /\ rows' = rows /\ log' = log /\ pc' = pc /\ op' = op /\ seen' = seen /\ work' = work
        /\ answer' = answer
    BY <1>2 DEF vars
  <2>2. table = "directory" => Shaped' /\ RowsOK' /\ DirectoryIsWhole'
    BY <1>2, <2>1 DEF DirectoryInv, Shaped, RowsOK, DirectoryIsWhole
  <2>3. table = "directory" => Audited'
    BY <1>2, <2>1 DEF DirectoryInv, Audited, AuditedRequest, Audit
  <2>4. table = "directory" => \A q \in Requests : Own(q)'
    BY <1>2, <2>1 DEF DirectoryInv, Own
  <2>5. table = "directory" => \A q \in Requests : DirectoryRequest(q)'
    BY <1>2, <2>1 DEF DirectoryInv, DirectoryRequest, DirectoryWork
  <2>6. table = "directory" => \A q \in Requests : NameIsFree(q)'
    BY <1>2, <2>1 DEF DirectoryInv, NameIsFree, ClaimedKind
  <2>7. table = "directory" => \A p, q \in Requests : p # q => NamesApart(p, q)'
    BY <1>2, <2>1 DEF DirectoryInv, NamesApart, ClaimedKind
  <2> QED
    BY <2>1, <2>2, <2>3, <2>4, <2>5, <2>6, <2>7 DEF DirectoryInv
<1> QED
  BY <1>1, <1>2

LEMMA DirectoryStart == Init => DirectoryInv
<1> SUFFICES ASSUME Init, table = "directory" PROVE DirectoryInv
  BY DEF DirectoryInv
<1>1. RowsOK /\ Shaped /\ \A r \in Requests : Own(r) /\ pc[r] = "idle" /\ work[r] = NoWork /\ answer[r] = "none"
                                               /\ seen[r] = None
  BY InitialRowsOK
<1>2. \A r \in Requests : DOMAIN work[r].rows = {}
  BY <1>1 DEF NoWork, NoRows
<1>3. \A r \in Requests : DirectoryRequest(r)
  BY <1>1, <1>2 DEF DirectoryRequest
<1>4. \A q, r \in Requests : NameIsFree(r) /\ NamesApart(q, r)
  BY <1>2 DEF NameIsFree, NamesApart
<1>5. DirectoryIsWhole
  <2>1. rows \in InitialRows["directory"] /\ "directory" \in DOMAIN InitialRows
    BY DEF Init
  <2>2. \A r \in Requests : Second(r) \notin DOMAIN rows
    BY <1>1 DEF Own
  <2> QED
    BY <2>1, <2>2, ServicesAssumption DEF DirectoryIsWhole
<1> QED
  BY <1>1, <1>3, <1>4, <1>5, AuditedStart DEF DirectoryInv

------------------------------------------------------------------------------
(***************************************************************************)
(* Connections: provider accounts and their data sources.                  *)
(***************************************************************************)

ConnectionNames ==
  {"connect_provider", "create_provider_account", "delete_provider_account", "create_data_source",
   "update_data_source"}

\* The identities of the sources that connections insert.
FromConnections == {Second(q) : q \in Requests}

\* No connection has inserted a source of the account.
NotConnected(account) ==
  \A id \in DOMAIN rows : rows[id].kind = "source" /\ rows[id].account = account => id \notin FromConnections

\* The rows that r has written: new ones, and columns of those there are.
ConnectionWork(r, id) ==
  LET w == work[r].rows[id] IN
  \/ id = r /\ w = [id |-> r, kind |-> "account", status |-> "active", secret |-> r]
  \/ /\ id = r /\ op[r].account \in AllIds
     /\ w = [id |-> r, kind |-> "source", account |-> op[r].account, status |-> "pending_setup", synced |-> None]
  \/ /\ id = Second(r) /\ op[r].name = "connect_provider" /\ op[r].account \in AllIds
     /\ w = [id |-> Second(r), kind |-> "source", account |-> op[r].account, status |-> "active", synced |-> r]
  \/ /\ id \in DOMAIN rows
     /\ DOMAIN w \subseteq IF rows[id].kind = "account" THEN {"secret", "status"} ELSE {"status", "synced"}
     /\ "status" \in DOMAIN w => w["status"] \in {"active", "inactive"}
     /\ "secret" \in DOMAIN w => w["secret"] = r
     /\ "synced" \in DOMAIN w => w["synced"] = r

\* A connection locks its account before it looks for a source, and holds the lock.
ConnectionRequest(r) ==
  /\ pc[r] \in {"idle", "select", "write", "source", "sync", "commit", "done"}
  /\ pc[r] # "idle" =>
       /\ op[r].name \in ConnectionNames
       /\ op[r].name = "create_data_source" => op[r].account \in AllIds \cup {None}
       /\ op[r].name = "update_data_source" => op[r].status \in {"active", "inactive"}
  /\ pc[r] = "select" =>
       /\ op[r].name \in {"connect_provider", "delete_provider_account", "update_data_source"}
       /\ op[r].name = "connect_provider" => op[r] = [name |-> "connect_provider", account |-> None]
       /\ op[r].name = "delete_provider_account" =>
            op[r].id = None \/ (op[r].id \in DOMAIN rows /\ rows[op[r].id].kind = "account")
       /\ op[r].name = "update_data_source" =>
            op[r].id = None \/ (op[r].id \in DOMAIN rows /\ rows[op[r].id].kind = "source")
  /\ pc[r] \in {"source", "sync"} => op[r].name = "connect_provider"
  /\ pc[r] \in {"select", "write"} => work[r] = NoWork
  /\ seen[r] # None => rows[seen[r].id].kind = seen[r].kind
  /\ seen[r] # None /\ seen[r].kind = "account" /\ seen[r].secret \in Requests => pc[seen[r].secret] = "done"
  /\ pc[r] = "write" /\ op[r].name = "connect_provider" =>
       IF seen[r] = None THEN op[r].account = r ELSE seen[r].kind = "account" /\ seen[r].id = op[r].account
  /\ pc[r] = "write" /\ op[r].name = "delete_provider_account" => seen[r] # None /\ seen[r].kind = "account"
  /\ pc[r] = "write" /\ op[r].name = "update_data_source" => seen[r] # None /\ seen[r].kind = "source"
  /\ pc[r] \in {"source", "sync"} =>
       /\ op[r].account \in AllIds /\ DOMAIN work[r].rows = {op[r].account}
       /\ op[r].account = r \/ (op[r].account \in DOMAIN rows /\ rows[op[r].account].kind = "account")
  /\ pc[r] = "sync" => IF seen[r] = None THEN NotConnected(op[r].account) ELSE seen[r].kind = "source"
  /\ Second(r) \in DOMAIN work[r].rows => op[r].account \in DOMAIN work[r].rows /\ NotConnected(op[r].account)
  /\ \A id \in DOMAIN work[r].rows : ConnectionWork(r, id)

\* The accounts and sources: their credentials are those of requests that are over.
ConnectionsAreWhole ==
  /\ \A id \in DOMAIN rows :
       rows[id].kind = "account" /\ rows[id].secret \in Requests => pc[rows[id].secret] = "done"
  /\ \A a, b \in DOMAIN rows \cap FromConnections :
       rows[a].kind = "source" /\ rows[b].kind = "source" /\ rows[a].account = rows[b].account => a = b

ConnectionsInv ==
  table = "connections" =>
    /\ Shaped /\ RowsOK /\ Audited /\ ConnectionsAreWhole
    /\ \A r \in Requests : Own(r) /\ ConnectionRequest(r)

LEMMA ConnectionRows == Row["connections"] = Connection
  BY DEF Row

\* What is left to show of a step of r that commits nothing.
LEMMA ConnectionStirred ==
  ASSUME ConnectionsInv, table = "connections", NEW r \in Requests, Stirs(r), pc[r] # "done",
         \A q \in Requests : Own(q)', ConnectionRequest(r)', Audited'
  PROVE ConnectionsInv'
<1>1. Shaped' /\ rows' = rows /\ table' = table
  BY DEF Stirs, Moves
<1>2. RowsOK'
  BY <1>1 DEF RowsOK, ConnectionsInv
<1>3. \A p \in Requests : pc[p] = "done" => pc'[p] = "done"
  BY DEF Stirs, Moves
<1>4. ConnectionsAreWhole'
  BY <1>1, <1>3 DEF ConnectionsInv, ConnectionsAreWhole, FromConnections
<1>5. ASSUME NEW q \in Requests, q # r PROVE ConnectionRequest(q)'
  <2>1. /\ pc'[q] = pc[q] /\ op'[q] = op[q] /\ seen'[q] = seen[q] /\ work'[q] = work[q]
        /\ answer'[q] = answer[q]
    BY <1>5 DEF Stirs, Moves
  <2>2. ConnectionRequest(q)
    BY DEF ConnectionsInv
  <2>3. \A id \in DOMAIN work'[q].rows : ConnectionWork(q, id)'
    <3> SUFFICES ASSUME NEW id \in DOMAIN work'[q].rows
                 PROVE ConnectionWork(q, id)'
      OBVIOUS
    <3>1. ConnectionWork(q, id)
      BY <2>1, <2>2 DEF ConnectionRequest
    <3> QED
      BY <1>1, <2>1, <3>1 DEF ConnectionWork
  <2>4. seen'[q] # None /\ seen'[q].kind = "account" /\ seen'[q].secret \in Requests =>
          pc'[seen'[q].secret] = "done"
    BY <1>3, <2>1, <2>2 DEF ConnectionRequest
  <2>5. \A a : NotConnected(a) => NotConnected(a)'
    BY <1>1 DEF NotConnected
  <2>6. NotConnected(op[q].account) => NotConnected(op[q].account)'
    BY <1>1, <2>1 DEF NotConnected
  <2> QED
    BY <1>1, <2>1, <2>2, <2>3, <2>4, <2>6 DEF ConnectionRequest
<1> QED
  BY <1>1, <1>2, <1>4, <1>5 DEF ConnectionsInv

LEMMA ConnectionArrives ==
  ASSUME ConnectionsInv, table = "connections", NEW r \in Requests, ArriveAccount(r)
  PROVE Stirs(r) /\ ConnectionsInv'
<1>1. ASSUME NEW kind, NEW id \in Known(kind)
      PROVE id = None \/ (id \in DOMAIN rows /\ rows[id].kind = kind)
  BY <1>1 DEF Known, Rows, ConnectionsInv, RowsOK
<1>2. DOMAIN rows \subseteq AllIds /\ None \notin DOMAIN rows
  BY ServicesAssumption DEF ConnectionsInv, RowsOK
<1>3. PICK o, s :
        /\ s \in {"select", "write"} /\ Arrive(r, o, s)
        /\ o.name \in ConnectionNames
        /\ o.name = "create_data_source" => o.account \in AllIds \cup {None}
        /\ o.name = "update_data_source" => o.status \in {"active", "inactive"}
        /\ s = "select" =>
             /\ o.name \in {"connect_provider", "delete_provider_account", "update_data_source"}
             /\ o.name = "connect_provider" => o = [name |-> "connect_provider", account |-> None]
             /\ o.name = "delete_provider_account" =>
                  o.id = None \/ (o.id \in DOMAIN rows /\ rows[o.id].kind = "account")
             /\ o.name = "update_data_source" =>
                  o.id = None \/ (o.id \in DOMAIN rows /\ rows[o.id].kind = "source")
        /\ s = "write" => o.name \in {"create_provider_account", "create_data_source"}
  <2>1. CASE Arrive(r, [name |-> "connect_provider", account |-> None], "select")
    BY <2>1 DEF ConnectionNames
  <2>2. CASE Arrive(r, [name |-> "create_provider_account"], "write")
    BY <2>2 DEF ConnectionNames
  <2>3. CASE \E id \in Known("account") :
               Arrive(r, [name |-> "delete_provider_account", id |-> id], "select")
    BY <1>1, <1>2, <2>3 DEF ConnectionNames
  <2>4. CASE \E id \in Known("account") :
               Arrive(r, [name |-> "create_data_source", account |-> id], "write")
    BY <1>1, <1>2, <2>4 DEF ConnectionNames
  <2>5. CASE \E id \in Known("source"), v \in {"active", "inactive"} :
               Arrive(r, [name |-> "update_data_source", id |-> id, status |-> v], "select")
    BY <1>1, <1>2, <2>5 DEF ConnectionNames
  <2> QED
    BY <2>1, <2>2, <2>3, <2>4, <2>5
       DEF ArriveAccount, ArriveDirectory, ArriveConnection, ArriveBankAccount
<1>4. /\ Stirs(r) /\ pc[r] = "idle" /\ pc'[r] = s /\ op'[r] = o
      /\ seen'[r] = seen[r] /\ work'[r] = work[r] /\ answer'[r] = answer[r]
  BY <1>3, Arriving DEF ConnectionsInv, Statements
<1>5. pc[r] # "done" /\ pc'[r] \notin {"idle", "done", "commit", "source", "sync"}
  BY <1>3, <1>4
<1>6. \A q \in Requests : Own(q)'
  BY <1>4, <1>5, OwnQuiet DEF ConnectionsInv
<1>7. work[r] = NoWork /\ work'[r].log = {} /\ DOMAIN work'[r].rows = {} /\ work'[r] = NoWork
  BY <1>4 DEF ConnectionsInv, Own, NoWork, NoRows
<1>8. Audited'
  BY <1>4, <1>5, <1>7, AuditedStirs DEF ConnectionsInv
<1>9. ConnectionRequest(r)'
  <2>1. rows' = rows
    BY <1>4 DEF Stirs
  <2>2. ConnectionRequest(r)
    BY DEF ConnectionsInv
  <2>3. seen'[r] # None /\ seen'[r].kind = "account" /\ seen'[r].secret \in Requests =>
          pc'[seen'[r].secret] = "done"
    BY <1>4, <2>2 DEF ConnectionRequest, Stirs, Moves
  <2> QED
    BY <1>3, <1>4, <1>5, <1>7, <2>1, <2>2, <2>3 DEF ConnectionRequest
<1> QED
  BY <1>4, <1>5, <1>6, <1>8, <1>9, ConnectionStirred

\* A request about connections that is refused, or dies.
LEMMA ConnectionRefused ==
  ASSUME ConnectionsInv, table = "connections", NEW r \in Requests, pc[r] \notin {"idle", "done"},
         NEW a \in Answers \ {"200"}, Discard(r, a)
  PROVE Stirs(r) /\ ConnectionsInv'
<1>1. /\ Stirs(r) /\ pc'[r] = "done" /\ answer'[r] = a /\ work'[r] = NoWork
      /\ op'[r] = op[r] /\ seen'[r] = seen[r]
  BY Discarding DEF ConnectionsInv
<1>2. \A q \in Requests : Own(q)'
  BY <1>1, OwnDiscard DEF ConnectionsInv
<1>3. Audited'
  BY <1>1, AuditedStirs DEF ConnectionsInv
<1>4. rows' = rows /\ DOMAIN work'[r].rows = {}
  BY <1>1 DEF Stirs, NoWork, NoRows
<1>5. ConnectionRequest(r)'
  <2>1. ConnectionRequest(r)
    BY DEF ConnectionsInv
  <2>2. seen'[r] # None /\ seen'[r].kind = "account" /\ seen'[r].secret \in Requests =>
          pc'[seen'[r].secret] = "done"
    BY <1>1, <2>1 DEF ConnectionRequest, Stirs, Moves
  <2> QED
    BY <1>1, <1>4, <2>1, <2>2 DEF ConnectionRequest
<1> QED
  BY <1>1, <1>2, <1>3, <1>5, ConnectionStirred

LEMMA ConnectionDies ==
  ASSUME ConnectionsInv, table = "connections", NEW r \in Requests, Abort(r)
  PROVE Stirs(r) /\ ConnectionsInv'
  BY ConnectionRefused DEF Abort, Answers

LEMMA ConnectionLoads ==
  ASSUME ConnectionsInv, table = "connections", NEW r \in Requests, LoadRow(r)
  PROVE Stirs(r) /\ ConnectionsInv'
<1>1. /\ pc[r] = "select" /\ op[r].name \in {"delete_provider_account", "update_data_source"}
      /\ work[r] = NoWork /\ ConnectionRequest(r)
  BY DEF LoadRow, ConnectionsInv, ConnectionRequest
<1>2. CASE op[r].id \notin DOMAIN rows
  <2>1. Discard(r, "404")
    BY <1>2 DEF LoadRow
  <2> QED
    BY <1>1, <2>1, ConnectionRefused DEF Answers
<1>3. CASE op[r].id \in DOMAIN rows
  <2>1. PICK row : row = rows[op[r].id]
    OBVIOUS
  <2>2. Select(r, {row}, "write") /\ "write" \in Statements /\ Shaped
    BY <1>1, <1>3, <2>1 DEF LoadRow, Statements, ConnectionsInv
  <2>3. /\ Stirs(r)
        /\ pc'[r] = "write" /\ op'[r] = op[r] /\ work'[r] = work[r] /\ answer'[r] = answer[r]
        /\ seen'[r] = row
    BY <2>2, Selecting
  <2>4. pc[r] # "done" /\ pc'[r] \notin {"idle", "done", "commit"}
    BY <1>1, <2>3
  <2>5. \A q \in Requests : Own(q)'
    BY <1>3, <2>1, <2>3, <2>4, OwnQuiet DEF ConnectionsInv
  <2>6. work'[r].log = {} /\ DOMAIN work'[r].rows = {} /\ work'[r] = NoWork
    BY <1>1, <2>3 DEF NoWork, NoRows
  <2>7. Audited'
    BY <2>3, <2>4, <2>6, AuditedStirs DEF ConnectionsInv
  <2>8. ConnectionRequest(r)'
    <3>1. rows' = rows
      BY <2>3 DEF Stirs
    <3>2. row # None /\ row.id = op[r].id
      BY <1>3, <2>1, ServicesAssumption DEF ConnectionsInv, RowsOK, Row
    <3>3. row.kind = "account" /\ row.secret \in Requests => pc'[row.secret] = "done"
      BY <1>3, <2>1, <2>3, <2>4 DEF ConnectionsInv, ConnectionsAreWhole, Stirs, Moves
    <3>4. /\ op[r].name = "delete_provider_account" => row.kind = "account"
          /\ op[r].name = "update_data_source" => row.kind = "source"
      <4>1. None \notin DOMAIN rows
        BY ServicesAssumption DEF ConnectionsInv, RowsOK
      <4> QED
        BY <1>1, <1>3, <2>1, <4>1 DEF ConnectionRequest
    <3> QED
      BY <1>1, <1>3, <2>1, <2>3, <2>6, <3>1, <3>2, <3>3, <3>4 DEF ConnectionRequest
  <2> QED
    BY <2>3, <2>4, <2>5, <2>7, <2>8, ConnectionStirred
<1> QED
  BY <1>2, <1>3

LEMMA AccountIsSelected ==
  ASSUME ConnectionsInv, table = "connections", NEW r \in Requests, SelectAccount(r)
  PROVE Stirs(r) /\ ConnectionsInv'
<1>1. /\ pc[r] = "select" /\ op[r] = [name |-> "connect_provider", account |-> None]
      /\ work[r] = NoWork /\ ConnectionRequest(r)
  BY DEF SelectAccount, At, ConnectionsInv, ConnectionRequest
<1>2. PICK row :
        /\ row = None \/ (\E id \in DOMAIN rows : row = rows[id] /\ row.kind = "account")
        /\ seen' = [seen EXCEPT ![r] = row]
        /\ op' = [op EXCEPT ![r].account = IF row = None THEN r ELSE row.id]
  <2> DEFINE active == {row \in Rows("account") : row.status = "active"}
             new == {row \in active : row.id \in Requests}
             latest == CASE new # {} -> new [] new = {} /\ active # {} -> active [] OTHER -> {None}
  <2>1. \E row \in latest :
          /\ seen' = [seen EXCEPT ![r] = row]
          /\ op' = [op EXCEPT ![r].account = IF row = None THEN r ELSE row.id]
    BY DEF SelectAccount
  <2>2. latest \subseteq Rows("account") \cup {None}
    OBVIOUS
  <2>3. \A row \in Rows("account") : \E id \in DOMAIN rows : row = rows[id] /\ row.kind = "account"
    BY DEF Rows
  <2> HIDE DEF latest
  <2> QED
    BY <2>1, <2>2, <2>3
<1>3. PICK account : account = IF row = None THEN r ELSE row.id
  OBVIOUS
<1>4. op'[r] = [name |-> "connect_provider", account |-> account]
      /\ op' = [op EXCEPT ![r] = [name |-> "connect_provider", account |-> account]]
  <2>1. [op[r] EXCEPT !.account = account] = [name |-> "connect_provider", account |-> account]
    BY <1>1
  <2>2. op' = [op EXCEPT ![r] = [name |-> "connect_provider", account |-> account]]
    BY <1>2, <1>3, <2>1 DEF ConnectionsInv, Shaped
  <2> QED
    BY <2>2 DEF ConnectionsInv, Shaped
<1>5. /\ Stirs(r)
      /\ pc'[r] = "write" /\ seen'[r] = row /\ work'[r] = work[r] /\ answer'[r] = answer[r]
  <2>1. pc' = [pc EXCEPT ![r] = "write"] /\ UNCHANGED <<table, rows, log, clock, work, answer>>
    BY DEF SelectAccount, committed
  <2> QED
    BY <1>2, <1>4, <2>1 DEF ConnectionsInv, Shaped, Moves, Stirs, Statements
<1>6. pc[r] # "done" /\ pc'[r] \notin {"idle", "done", "commit"}
  BY <1>1, <1>5
<1>7. \A q \in Requests : Own(q)'
  <2>1. seen'[r] \in {seen[r], None} \cup {rows[id] : id \in DOMAIN rows}
    BY <1>2, <1>5
  <2> QED
    BY <1>5, <1>6, <2>1, OwnQuiet DEF ConnectionsInv
<1>8. work'[r].log = {} /\ DOMAIN work'[r].rows = {} /\ work'[r] = NoWork
  BY <1>1, <1>5 DEF NoWork, NoRows
<1>9. Audited'
  BY <1>5, <1>6, <1>8, AuditedStirs DEF ConnectionsInv
<1>10. ConnectionRequest(r)'
  <2>1. rows' = rows
    BY <1>5 DEF Stirs
  <2>2. row # None =>
          /\ row.kind = "account" /\ row.id = account /\ rows[row.id] = row
          /\ row.secret \in Requests => pc'[row.secret] = "done"
    <3> SUFFICES ASSUME row # None
                 PROVE /\ row.kind = "account" /\ row.id = account /\ rows[row.id] = row
                       /\ row.secret \in Requests => pc'[row.secret] = "done"
      OBVIOUS
    <3>1. PICK id \in DOMAIN rows : row = rows[id] /\ row.kind = "account"
      BY <1>2
    <3>2. row.id = id
      BY <3>1 DEF ConnectionsInv, RowsOK
    <3>3. row.secret \in Requests => pc[row.secret] = "done"
      BY <3>1 DEF ConnectionsInv, ConnectionsAreWhole
    <3>4. row.secret \in Requests => pc'[row.secret] = "done"
      BY <1>5, <1>6, <3>3 DEF Stirs, Moves
    <3> QED
      BY <1>3, <3>1, <3>2, <3>4
  <2>3. row = None => account = r
    BY <1>3
  <2> QED
    BY <1>4, <1>5, <1>8, <2>1, <2>2, <2>3 DEF ConnectionRequest, ConnectionNames
<1> QED
  BY <1>5, <1>6, <1>7, <1>9, <1>10, ConnectionStirred

LEMMA AccountIsConnected ==
  ASSUME ConnectionsInv, table = "connections", NEW r \in Requests, ConnectAccount(r)
  PROVE Stirs(r) /\ ConnectionsInv'
<1>1. /\ pc[r] = "write" /\ op[r].name = "connect_provider" /\ work[r] = NoWork /\ ConnectionRequest(r)
      /\ Goto(r, "source") /\ UNCHANGED <<seen, answer>>
  BY DEF ConnectAccount, At, ConnectionsInv, ConnectionRequest
<1>2. "source" \in Statements /\ Shaped /\ r \in AllIds /\ r # Second(r)
  BY ServicesAssumption DEF Statements, ConnectionsInv, AllIds, Ids, Second
<1>3. /\ Stirs(r)
      /\ pc'[r] = "source" /\ op'[r] = op[r] /\ seen'[r] = seen[r] /\ answer'[r] = answer[r]
      /\ work'[r].log = {}
      /\ DOMAIN work'[r].rows = {op[r].account}
      /\ op[r].account \in {r} \cup {i \in DOMAIN rows : Free(r, i)}
      /\ op[r].account # r => rows[op[r].account].kind = "account"
      /\ ConnectionWork(r, op[r].account)'
  <2>1. CASE seen[r] = None
    <3>1. PICK row : row = NewAccount(r)
      OBVIOUS
    <3>2. op[r].account = r /\ InsertAs(r, r, row, {})
      BY <1>1, <2>1, <3>1 DEF ConnectAccount, Insert, ConnectionRequest
    <3>3. /\ Stirs(r)
          /\ pc'[r] = "source" /\ op'[r] = op[r] /\ seen'[r] = seen[r] /\ answer'[r] = answer[r]
          /\ work'[r].log = {}
          /\ DOMAIN work'[r].rows = {r}
          /\ work'[r].rows[r] = [row EXCEPT !.id = r]
      BY <1>1, <1>2, <3>2, InsertingFirst
    <3>4. work'[r].rows[r] = [id |-> r, kind |-> "account", status |-> "active", secret |-> r]
      BY <3>1, <3>3 DEF NewAccount
    <3> QED
      BY <3>2, <3>3, <3>4 DEF ConnectionWork
  <2>2. CASE seen[r] # None
    <3>1. PICK columns : columns = [secret |-> r, status |-> "active"]
      OBVIOUS
    <3>2. Update(r, columns, {})
      BY <2>2, <3>1 DEF ConnectAccount
    <3>3. PICK w : w = Written(seen[r], columns)
      OBVIOUS
    <3>4. /\ Stirs(r)
          /\ pc'[r] = "source" /\ op'[r] = op[r] /\ seen'[r] = seen[r] /\ answer'[r] = answer[r]
          /\ work'[r].log = {}
          /\ \/ DOMAIN w = {} /\ DOMAIN work'[r].rows = {}
             \/ /\ DOMAIN w # {}
                /\ Free(r, seen[r].id)
                /\ DOMAIN work'[r].rows = {seen[r].id}
                /\ work'[r].rows[seen[r].id] = w
      BY <1>1, <1>2, <3>2, <3>3, UpdatingFirst
    <3>5. /\ seen[r].kind = "account" /\ seen[r].id = op[r].account
          /\ seen[r].secret # r
          /\ seen[r].id \in DOMAIN rows /\ rows[seen[r].id].kind = "account"
      BY <1>1, <2>2 DEF ConnectionRequest, ConnectionsInv, Own
    <3>6. /\ "secret" \in DOMAIN w /\ DOMAIN w \subseteq {"secret", "status"}
          /\ w["secret"] = r
          /\ "status" \in DOMAIN w => w["status"] = "active"
      BY <3>1, <3>3, <3>5 DEF Written
    <3>7. /\ Free(r, op[r].account) /\ DOMAIN work'[r].rows = {op[r].account}
          /\ work'[r].rows[op[r].account] = w
      BY <3>4, <3>5, <3>6
    <3>8. rows' = rows
      BY <3>4 DEF Stirs
    <3>9. ConnectionWork(r, op[r].account)'
      BY <3>4, <3>5, <3>6, <3>7, <3>8 DEF ConnectionWork
    <3> QED
      BY <3>4, <3>5, <3>7, <3>9
  <2> QED
    BY <2>1, <2>2
<1>4. pc[r] # "done" /\ pc'[r] \notin {"idle", "done", "commit"}
  BY <1>1, <1>3
<1>5. \A q \in Requests : Own(q)'
  <2>1. seen'[r] # None => seen'[r] \in Row[table] /\ seen'[r].id \in DOMAIN rows
    BY <1>3 DEF ConnectionsInv, Own
  <2>2. DOMAIN work'[r].rows \subseteq
          DOMAIN work[r].rows \cup {r, Second(r)} \cup {i \in DOMAIN rows : Free(r, i)}
    BY <1>3
  <2> QED
    BY <1>3, <1>4, <2>1, <2>2, OwnWrites DEF ConnectionsInv
<1>6. Audited'
  BY <1>3, <1>4, AuditedStirs DEF ConnectionsInv
<1>7. ConnectionRequest(r)'
  <2>1. rows' = rows /\ (\A p \in Requests : pc[p] = "done" => pc'[p] = "done")
    BY <1>3, <1>4 DEF Stirs, Moves
  <2>2. op[r].account \in AllIds /\ Second(r) \notin DOMAIN rows
    BY <1>1, <1>2, <1>3 DEF ConnectionsInv, RowsOK, Own
  <2>3. Second(r) \notin DOMAIN work'[r].rows
    BY <1>2, <1>3, <2>2
  <2>4. seen'[r] # None /\ seen'[r].kind = "account" /\ seen'[r].secret \in Requests =>
          pc'[seen'[r].secret] = "done"
    BY <1>1, <1>3, <2>1 DEF ConnectionRequest
  <2>5. \A id \in DOMAIN work'[r].rows : ConnectionWork(r, id)'
    BY <1>3
  <2> QED
    BY <1>1, <1>3, <2>1, <2>2, <2>3, <2>4, <2>5 DEF ConnectionRequest
<1> QED
  BY <1>3, <1>4, <1>5, <1>6, <1>7, ConnectionStirred

LEMMA SourceIsSelected ==
  ASSUME ConnectionsInv, table = "connections", NEW r \in Requests, SelectSource(r)
  PROVE Stirs(r) /\ ConnectionsInv'
<1> DEFINE all == {row \in Rows("source") : row.account = op[r].account}
<1>1. /\ pc[r] = "source" /\ op[r].name = "connect_provider" /\ ConnectionRequest(r)
      /\ DOMAIN work[r].rows = {op[r].account}
  BY DEF SelectSource, ConnectionsInv, ConnectionRequest
<1>2. CASE Cardinality(all) > 1
  <2>1. Discard(r, "500")
    BY <1>2 DEF SelectSource
  <2> QED
    BY <1>1, <2>1, ConnectionRefused DEF Answers
<1>3. CASE ~(Cardinality(all) > 1)
  <2>1. PICK found : found = all
    OBVIOUS
  <2>2. Select(r, found, "sync") /\ "sync" \in Statements /\ Shaped
    BY <1>3, <2>1 DEF SelectSource, Statements, ConnectionsInv
  <2>3. /\ Stirs(r)
        /\ pc'[r] = "sync" /\ op'[r] = op[r] /\ work'[r] = work[r] /\ answer'[r] = answer[r]
        /\ IF found = {} THEN seen'[r] = None ELSE seen'[r] \in found
    BY <2>2, Selecting
  <2>4. \A row \in found : \E id \in DOMAIN rows : row = rows[id] /\ row.kind = "source" /\ row.id = id
    BY <2>1 DEF Rows, ConnectionsInv, RowsOK
  <2>5. seen'[r] = None => found = {}
    BY <2>3, <2>4, ServicesAssumption DEF ConnectionsInv, RowsOK, Row
  <2>6. found = {} => NotConnected(op[r].account)
    BY <2>1 DEF NotConnected, Rows
  <2>7. pc[r] # "done" /\ pc'[r] \notin {"idle", "done", "commit"}
    BY <1>1, <2>3
  <2>8. \A q \in Requests : Own(q)'
    <3>1. seen'[r] \in {seen[r], None} \cup {rows[id] : id \in DOMAIN rows}
      BY <2>3, <2>4
    <3> QED
      BY <2>3, <2>7, <3>1, OwnQuiet DEF ConnectionsInv
  <2>9. Audited'
    <3>1. work'[r].log = {}
      BY <1>1, <2>3 DEF ConnectionsInv, Audited, AuditedRequest
    <3> QED
      BY <2>3, <2>7, <3>1, AuditedStirs DEF ConnectionsInv
  <2>10. ConnectionRequest(r)'
    <3>1. rows' = rows
      BY <2>3 DEF Stirs
    <3>2. seen'[r] # None => seen'[r].kind = "source" /\ rows[seen'[r].id] = seen'[r]
      BY <2>3, <2>4
    <3>3. seen'[r] = None => NotConnected(op[r].account)
      BY <2>5, <2>6
    <3>4. Second(r) \notin DOMAIN work[r].rows
      <4>1. op[r].account = r \/ op[r].account \in DOMAIN rows
        BY <1>1 DEF ConnectionRequest
      <4>2. Second(r) # r /\ Second(r) \notin DOMAIN rows
        BY <2>7, ServicesAssumption DEF ConnectionsInv, Own, Second, Ids
      <4> QED
        BY <1>1, <4>1, <4>2
    <3>5. \A id \in DOMAIN work'[r].rows : ConnectionWork(r, id)'
      <4> SUFFICES ASSUME NEW id \in DOMAIN work'[r].rows
                   PROVE ConnectionWork(r, id)'
        OBVIOUS
      <4>1. ConnectionWork(r, id)
        BY <1>1, <2>3 DEF ConnectionRequest
      <4> QED
        BY <2>3, <3>1, <4>1 DEF ConnectionWork
    <3>6. NotConnected(op[r].account) => NotConnected(op[r].account)'
      BY <2>3, <3>1 DEF NotConnected
    <3> QED
      BY <1>1, <2>3, <3>1, <3>2, <3>3, <3>4, <3>5, <3>6 DEF ConnectionRequest
  <2> QED
    BY <2>3, <2>7, <2>8, <2>9, <2>10, ConnectionStirred
<1> QED
  BY <1>2, <1>3

LEMMA SourceIsConnected ==
  ASSUME ConnectionsInv, table = "connections", NEW r \in Requests, ConnectSource(r)
  PROVE Stirs(r) /\ ConnectionsInv'
<1>1. /\ pc[r] = "sync" /\ op[r].name = "connect_provider" /\ ConnectionRequest(r)
      /\ DOMAIN work[r].rows = {op[r].account} /\ op[r].account \in AllIds
      /\ op[r].account = r \/ (op[r].account \in DOMAIN rows /\ rows[op[r].account].kind = "account")
      /\ IF seen[r] = None THEN NotConnected(op[r].account) ELSE seen[r].kind = "source"
      /\ Goto(r, "commit") /\ UNCHANGED <<seen, answer>>
  BY DEF ConnectSource, ConnectionsInv, ConnectionRequest
<1>2. "commit" \in Statements /\ Shaped /\ Second(r) # r /\ Second(r) \notin DOMAIN rows /\ r \notin DOMAIN rows
  BY <1>1, ServicesAssumption DEF Statements, ConnectionsInv, Second, Own, Ids
<1>3. work[r].log = {}
  BY <1>1 DEF ConnectionsInv, Audited, AuditedRequest
<1>4. PICK entries : entries = Audit(r)
  OBVIOUS
<1>5. /\ Stirs(r)
      /\ pc'[r] = "commit" /\ op'[r] = op[r] /\ seen'[r] = seen[r] /\ answer'[r] = answer[r]
      /\ work'[r].log = entries
      /\ op[r].account \in DOMAIN work'[r].rows
      /\ work'[r].rows[op[r].account] = work[r].rows[op[r].account]
      /\ \A id \in DOMAIN work'[r].rows :
           \/ id = op[r].account
           \/ id = Second(r) /\ ConnectionWork(r, id)' /\ seen[r] = None
           \/ id \in DOMAIN rows /\ Free(r, id) /\ ConnectionWork(r, id)'
  <2>1. CASE seen[r] = None
    <3>1. PICK row : row = NewSource(op[r].account, "active", r)
      OBVIOUS
    <3>2. InsertAs(r, Second(r), row, entries)
      BY <1>4, <2>1, <3>1 DEF ConnectSource
    <3>3. /\ Stirs(r)
          /\ pc'[r] = "commit" /\ op'[r] = op[r] /\ seen'[r] = seen[r] /\ answer'[r] = answer[r]
          /\ work'[r] = [rows |-> Over(Single(Second(r), [row EXCEPT !.id = Second(r)]), work[r].rows),
                         log |-> work[r].log \cup entries]
      BY <1>1, <1>2, <3>2, Inserting
    <3>4. PICK v : v = [row EXCEPT !.id = Second(r)]
      OBVIOUS
    <3>5. v = [id |-> Second(r), kind |-> "source", account |-> op[r].account, status |-> "active", synced |-> r]
      BY <3>1, <3>4 DEF NewSource
    <3>6. work'[r].rows = Over(Single(Second(r), v), work[r].rows) /\ work'[r].log = work[r].log \cup entries
      BY <3>3, <3>4
    <3>7. /\ DOMAIN work'[r].rows = {op[r].account, Second(r)}
          /\ work'[r].rows[Second(r)] = v
          /\ op[r].account # Second(r) => work'[r].rows[op[r].account] = work[r].rows[op[r].account]
      BY <1>1, <3>6 DEF Over, Single
    <3>8. op[r].account # Second(r)
      BY <1>1, <1>2
    <3>9. ConnectionWork(r, Second(r))'
      BY <1>1, <3>3, <3>5, <3>7 DEF ConnectionWork
    <3> QED
      BY <1>3, <2>1, <3>3, <3>6, <3>7, <3>8, <3>9
  <2>2. CASE seen[r] # None
    <3>1. PICK columns : columns = [status |-> "active", synced |-> r]
      OBVIOUS
    <3>2. Update(r, columns, entries)
      BY <1>4, <2>2, <3>1 DEF ConnectSource
    <3>3. PICK w : w = Written(seen[r], columns)
      OBVIOUS
    <3>4. PICK id : id = seen[r].id
      OBVIOUS
    <3>5. /\ id \in DOMAIN rows /\ rows[id].kind = "source" /\ id # op[r].account
      BY <1>1, <1>2, <2>2, <3>4 DEF ConnectionRequest, ConnectionsInv, Own
    <3>6. (IF seen[r].id \in DOMAIN work[r].rows THEN work[r].rows[seen[r].id] ELSE NoRows) = NoRows
      BY <1>1, <3>4, <3>5
    <3>7. /\ Stirs(r)
          /\ pc'[r] = "commit" /\ op'[r] = op[r] /\ seen'[r] = seen[r] /\ answer'[r] = answer[r]
          /\ work'[r].log = work[r].log \cup entries
          /\ \/ DOMAIN w = {} /\ work'[r].rows = work[r].rows
             \/ /\ DOMAIN w # {}
                /\ Free(r, id)
                /\ work'[r].rows = Over(Single(id, Over(w, NoRows)), work[r].rows)
      BY <1>1, <1>2, <3>2, <3>3, <3>4, <3>6, Updating
    <3>8. Over(w, NoRows) = w
      BY <3>3 DEF Over, NoRows, Written
    <3>9. /\ DOMAIN w \subseteq {"status", "synced"}
          /\ "status" \in DOMAIN w => w["status"] = "active"
          /\ "synced" \in DOMAIN w => w["synced"] = r
      BY <3>1, <3>3 DEF Written
    <3>10. CASE DOMAIN w = {}
      BY <1>1, <1>3, <3>7, <3>10
    <3>11. CASE DOMAIN w # {}
      <4>1. work'[r].rows = Over(Single(id, w), work[r].rows) /\ Free(r, id)
        BY <3>7, <3>8, <3>11
      <4>2. /\ DOMAIN work'[r].rows = {op[r].account, id}
            /\ work'[r].rows[id] = w
            /\ work'[r].rows[op[r].account] = work[r].rows[op[r].account]
        BY <1>1, <3>5, <4>1 DEF Over, Single
      <4>3. rows' = rows
        BY <3>7 DEF Stirs
      <4>4. ConnectionWork(r, id)'
        BY <3>5, <3>9, <4>2, <4>3 DEF ConnectionWork
      <4> QED
        BY <1>3, <3>5, <3>7, <4>1, <4>2, <4>4
    <3> QED
      BY <3>10, <3>11
  <2> QED
    BY <2>1, <2>2
<1>6. pc[r] # "done" /\ pc'[r] \notin {"idle", "done"}
  BY <1>1, <1>5
<1>7. \A q \in Requests : Own(q)'
  <2>1. seen'[r] # None => seen'[r] \in Row[table] /\ seen'[r].id \in DOMAIN rows
    BY <1>5 DEF ConnectionsInv, Own
  <2>2. DOMAIN work'[r].rows \subseteq
          DOMAIN work[r].rows \cup {r, Second(r)} \cup {i \in DOMAIN rows : Free(r, i)}
    BY <1>1, <1>5
  <2> QED
    BY <1>5, <1>6, <2>1, <2>2, OwnWrites DEF ConnectionsInv
<1>8. Audited'
  <2>1. work'[r].log = IF pc'[r] = "commit" THEN {[by |-> r, event |-> op'[r].name]} ELSE {}
    BY <1>4, <1>5 DEF Audit
  <2> QED
    BY <1>5, <1>6, <2>1, AuditedStirs DEF ConnectionsInv
<1>9. ConnectionRequest(r)'
  <2>1. rows' = rows /\ (\A p \in Requests : pc[p] = "done" => pc'[p] = "done")
    BY <1>5, <1>6 DEF Stirs, Moves
  <2>2. seen'[r] # None /\ seen'[r].kind = "account" /\ seen'[r].secret \in Requests =>
          pc'[seen'[r].secret] = "done"
    BY <1>1, <1>5, <2>1 DEF ConnectionRequest
  <2>3. \A id \in DOMAIN work'[r].rows : ConnectionWork(r, id)'
    <3> SUFFICES ASSUME NEW id \in DOMAIN work'[r].rows
                 PROVE ConnectionWork(r, id)'
      OBVIOUS
    <3>1. CASE id = op[r].account
      <4>1. ConnectionWork(r, id)
        BY <1>1, <3>1 DEF ConnectionRequest
      <4> QED
        BY <1>5, <2>1, <3>1, <4>1 DEF ConnectionWork
    <3>2. CASE id # op[r].account
      BY <1>5, <3>2
    <3> QED
      BY <3>1, <3>2
  <2>4. Second(r) \in DOMAIN work'[r].rows => NotConnected(op[r].account)
    BY <1>1, <1>2, <1>5
  <2>5. NotConnected(op[r].account) => NotConnected(op[r].account)'
    BY <1>5, <2>1 DEF NotConnected
  <2> QED
    BY <1>1, <1>5, <2>1, <2>2, <2>3, <2>4, <2>5 DEF ConnectionRequest
<1> QED
  BY <1>5, <1>6, <1>7, <1>8, <1>9, ConnectionStirred

\* The single write of the other requests about connections.
LEMMA ConnectionWrites ==
  ASSUME ConnectionsInv, table = "connections", NEW r \in Requests, Stirs(r),
         pc[r] = "write", op[r].name # "connect_provider",
         pc'[r] = "commit", op'[r] = op[r], seen'[r] = seen[r], answer'[r] = answer[r],
         work'[r].log = Audit(r),
         \A id \in DOMAIN work'[r].rows :
           (id = r \/ (id \in DOMAIN rows /\ Free(r, id))) /\ ConnectionWork(r, id)'
  PROVE ConnectionsInv'
<1>1. pc[r] # "done" /\ pc'[r] \notin {"idle", "done"} /\ ConnectionRequest(r)
  BY DEF ConnectionsInv
<1>2. \A q \in Requests : Own(q)'
  <2>1. seen'[r] # None => seen'[r] \in Row[table] /\ seen'[r].id \in DOMAIN rows
    BY DEF ConnectionsInv, Own
  <2>2. DOMAIN work'[r].rows \subseteq
          DOMAIN work[r].rows \cup {r, Second(r)} \cup {i \in DOMAIN rows : Free(r, i)}
    OBVIOUS
  <2> QED
    BY <1>1, <2>1, <2>2, OwnWrites DEF ConnectionsInv
<1>3. Audited'
  <2>1. work'[r].log = IF pc'[r] = "commit" THEN {[by |-> r, event |-> op'[r].name]} ELSE {}
    BY DEF Audit
  <2> QED
    BY <1>1, <2>1, AuditedStirs DEF ConnectionsInv
<1>4. ConnectionRequest(r)'
  <2>1. rows' = rows /\ (\A p \in Requests : pc[p] = "done" => pc'[p] = "done")
    BY <1>1 DEF Stirs, Moves
  <2>2. seen'[r] # None /\ seen'[r].kind = "account" /\ seen'[r].secret \in Requests =>
          pc'[seen'[r].secret] = "done"
    BY <1>1, <2>1 DEF ConnectionRequest
  <2>3. Second(r) \notin DOMAIN work'[r].rows
    BY <1>1, ServicesAssumption DEF ConnectionsInv, Own, Second, Ids
  <2> QED
    BY <1>1, <2>1, <2>2, <2>3 DEF ConnectionRequest
<1> QED
  BY <1>1, <1>2, <1>3, <1>4, ConnectionStirred

LEMMA ConnectionIsInserted ==
  ASSUME ConnectionsInv, table = "connections", NEW r \in Requests, InsertConnection(r)
  PROVE Stirs(r) /\ ConnectionsInv'
<1>1. /\ pc[r] = "write" /\ work[r] = NoWork /\ ConnectionRequest(r)
      /\ op[r].name \in {"create_provider_account", "create_data_source"}
  BY DEF InsertConnection, ConnectionsInv, ConnectionRequest
<1>2. CASE op[r].name = "create_data_source" /\ op[r].account = None
  <2>1. Discard(r, "500")
    BY <1>2 DEF InsertConnection
  <2> QED
    BY <1>1, <2>1, ConnectionRefused DEF Answers
<1>3. CASE ~(op[r].name = "create_data_source" /\ op[r].account = None)
  <2>1. PICK row : row = IF op[r].name = "create_provider_account" THEN NewAccount(r)
                         ELSE NewSource(op[r].account, "pending_setup", None)
    OBVIOUS
  <2>2. PICK entries : entries = Audit(r)
    OBVIOUS
  <2>3. Goto(r, "commit") /\ UNCHANGED <<seen, answer>> /\ InsertAs(r, r, row, entries)
    BY <1>1, <1>3, <2>1, <2>2 DEF InsertConnection, Insert
  <2>4. "commit" \in Statements /\ Shaped
    BY DEF ConnectionsInv, Statements
  <2>5. /\ Stirs(r)
        /\ pc'[r] = "commit" /\ op'[r] = op[r] /\ seen'[r] = seen[r] /\ answer'[r] = answer[r]
        /\ work'[r].log = entries
        /\ DOMAIN work'[r].rows = {r}
        /\ work'[r].rows[r] = [row EXCEPT !.id = r]
    BY <1>1, <2>3, <2>4, InsertingFirst
  <2>6. ConnectionWork(r, r)'
    <3>1. CASE op[r].name = "create_provider_account"
      <4>1. work'[r].rows[r] = [id |-> r, kind |-> "account", status |-> "active", secret |-> r]
        BY <2>1, <2>5, <3>1 DEF NewAccount
      <4> QED
        BY <4>1 DEF ConnectionWork
    <3>2. CASE op[r].name = "create_data_source"
      <4>1. work'[r].rows[r] = [id |-> r, kind |-> "source", account |-> op[r].account,
                                status |-> "pending_setup", synced |-> None]
        BY <2>1, <2>5, <3>2 DEF NewSource
      <4>2. op[r].account \in AllIds
        BY <1>1, <1>3, <3>2 DEF ConnectionRequest
      <4> QED
        BY <2>5, <4>1, <4>2 DEF ConnectionWork
    <3> QED
      BY <1>1, <3>1, <3>2
  <2>7. \A id \in DOMAIN work'[r].rows :
          (id = r \/ (id \in DOMAIN rows /\ Free(r, id))) /\ ConnectionWork(r, id)'
    BY <2>5, <2>6
  <2>8. op[r].name # "connect_provider"
    BY <1>1
  <2> QED
    BY <1>1, <2>2, <2>5, <2>7, <2>8, ConnectionWrites
<1> QED
  BY <1>2, <1>3

LEMMA ConnectionStatusIsSet ==
  ASSUME ConnectionsInv, table = "connections", NEW r \in Requests, SetStatus(r)
  PROVE Stirs(r) /\ ConnectionsInv'
<1>1. /\ pc[r] = "write" /\ work[r] = NoWork /\ ConnectionRequest(r)
      /\ op[r].name \in {"delete_provider_account", "update_data_source"}
  BY DEF SetStatus, ConnectionsInv, ConnectionRequest, ConnectionNames
<1>2. PICK status : status = IF op[r].name = "delete_provider_account" THEN "inactive" ELSE op[r].status
  OBVIOUS
<1>3. PICK columns : columns = [status |-> status]
  OBVIOUS
<1>4. PICK entries : entries = Audit(r)
  OBVIOUS
<1>5. Goto(r, "commit") /\ UNCHANGED <<seen, answer>> /\ Update(r, columns, entries)
  <2>1. (CASE op[r].name = "delete_provider_account" -> "inactive"
           [] op[r].name = "delete_bank_account" -> "archived"
           [] OTHER -> op[r].status) = status
    BY <1>1, <1>2
  <2>2. [status |-> CASE op[r].name = "delete_provider_account" -> "inactive"
                      [] op[r].name = "delete_bank_account" -> "archived"
                      [] OTHER -> op[r].status] = columns
    BY <1>3, <2>1
  <2> QED
    BY <1>4, <2>2 DEF SetStatus
<1>6. "commit" \in Statements /\ Shaped
  BY DEF ConnectionsInv, Statements
<1>7. PICK w : w = Written(seen[r], columns)
  OBVIOUS
<1>8. /\ Stirs(r)
      /\ pc'[r] = "commit" /\ op'[r] = op[r] /\ seen'[r] = seen[r] /\ answer'[r] = answer[r]
      /\ work'[r].log = entries
      /\ \/ DOMAIN w = {} /\ DOMAIN work'[r].rows = {}
         \/ /\ DOMAIN w # {}
            /\ Free(r, seen[r].id)
            /\ DOMAIN work'[r].rows = {seen[r].id}
            /\ work'[r].rows[seen[r].id] = w
  BY <1>1, <1>5, <1>6, <1>7, UpdatingFirst
<1>9. /\ DOMAIN w \subseteq {"status"}
      /\ "status" \in DOMAIN w => w["status"] \in {"active", "inactive"}
  <2>1. status \in {"active", "inactive"}
    BY <1>1, <1>2 DEF ConnectionRequest
  <2> QED
    BY <1>3, <1>7, <2>1 DEF Written
<1>10. seen[r].id \in DOMAIN rows
  BY <1>1 DEF ConnectionRequest, ConnectionsInv, Own
<1>11. ASSUME NEW id \in DOMAIN work'[r].rows
       PROVE (id = r \/ (id \in DOMAIN rows /\ Free(r, id))) /\ ConnectionWork(r, id)'
  <2>1. id = seen[r].id /\ work'[r].rows[id] = w /\ Free(r, id)
    BY <1>8, <1>11
  <2>2. rows' = rows
    BY <1>8 DEF Stirs
  <2>3. id \in DOMAIN rows' /\ DOMAIN w \subseteq {"secret", "status"} /\ DOMAIN w \subseteq {"status", "synced"}
    BY <1>9, <1>10, <2>1, <2>2
  <2>4. ConnectionWork(r, id)'
    BY <1>9, <2>1, <2>3 DEF ConnectionWork
  <2> QED
    BY <1>10, <2>1, <2>4
<1>12. op[r].name # "connect_provider"
  BY <1>1
<1> QED
  BY <1>1, <1>4, <1>8, <1>11, <1>12, ConnectionWrites

\* A commit: the rows keep their kind and the sources their account.
LEMMA ConnectionCommitted ==
  ASSUME ConnectionsInv, table = "connections", NEW r \in Requests, Commit(r)
  PROVE /\ Moves(r) /\ pc[r] = "commit" /\ pc'[r] = "done"
        /\ op'[r] = op[r] /\ seen'[r] = seen[r] /\ work'[r] = NoWork
        /\ rows' = [id \in DOMAIN rows' |-> rows'[id]]
        /\ DOMAIN rows' = DOMAIN rows \cup DOMAIN work[r].rows
        /\ \A id \in DOMAIN rows :
             /\ rows'[id] \in Connection /\ rows'[id].id = id /\ rows'[id].kind = rows[id].kind
             /\ rows[id].kind = "account" => rows'[id].secret \in {r, rows[id].secret}
             /\ rows[id].kind = "source" => rows'[id].account = rows[id].account
        /\ \A id \in DOMAIN work[r].rows : id \notin DOMAIN rows =>
             /\ rows'[id] \in Connection /\ rows'[id].id = id /\ id \in {r, Second(r)}
             /\ rows'[id].kind = "account" => rows'[id].secret = r
             /\ id = Second(r) => rows'[id].kind = "source" /\ rows'[id].account = op[r].account
<1>1. /\ Moves(r) /\ pc[r] = "commit" /\ pc'[r] = "done"
      /\ op'[r] = op[r] /\ seen'[r] = seen[r] /\ work'[r] = NoWork
      /\ rows' = [id \in DOMAIN rows' |-> rows'[id]]
      /\ DOMAIN rows' = DOMAIN rows \cup DOMAIN work[r].rows
      /\ \A id \in DOMAIN rows :
           /\ id \notin DOMAIN work[r].rows => rows'[id] = rows[id]
           /\ id \in DOMAIN work[r].rows => rows'[id] = Over(work[r].rows[id], rows[id])
      /\ \A id \in DOMAIN work[r].rows : id \notin DOMAIN rows => rows'[id] = work[r].rows[id]
  BY Committing DEF ConnectionsInv
<1>2. r \notin DOMAIN rows /\ Second(r) \notin DOMAIN rows /\ r # Second(r)
      /\ r \in AllIds /\ Second(r) \in AllIds /\ r \in Ids
  BY <1>1, ServicesAssumption DEF ConnectionsInv, Own, Second, Ids, AllIds
<1>3. \A id \in DOMAIN work[r].rows : ConnectionWork(r, id)
  BY DEF ConnectionsInv, ConnectionRequest
<1>4. ASSUME NEW id \in DOMAIN rows
      PROVE /\ rows'[id] \in Connection /\ rows'[id].id = id /\ rows'[id].kind = rows[id].kind
            /\ rows[id].kind = "account" => rows'[id].secret \in {r, rows[id].secret}
            /\ rows[id].kind = "source" => rows'[id].account = rows[id].account
  <2>1. rows[id] \in Connection /\ rows[id].id = id
    BY ConnectionRows DEF ConnectionsInv, RowsOK
  <2>2. CASE id \notin DOMAIN work[r].rows
    BY <1>1, <2>1, <2>2
  <2>3. CASE id \in DOMAIN work[r].rows
    <3>1. PICK old : old = rows[id]
      OBVIOUS
    <3>2. PICK w : w = work[r].rows[id]
      OBVIOUS
    <3>3. PICK new : new = Over(w, old)
      OBVIOUS
    <3>4. /\ DOMAIN w \subseteq IF old.kind = "account" THEN {"secret", "status"} ELSE {"status", "synced"}
          /\ "status" \in DOMAIN w => w["status"] \in {"active", "inactive"}
          /\ "secret" \in DOMAIN w => w["secret"] = r
          /\ "synced" \in DOMAIN w => w["synced"] = r
      BY <1>2, <1>3, <2>3, <3>1, <3>2 DEF ConnectionWork
    <3>5. rows'[id] = new
      BY <1>1, <2>3, <3>1, <3>2, <3>3
    <3>6. CASE old.kind = "account"
      <4>1. old = [id |-> id, kind |-> "account", status |-> old.status, secret |-> old.secret]
            /\ old.status \in {"active", "inactive"} /\ old.secret \in Ids /\ id \in AllIds
        BY <2>1, <3>1, <3>6 DEF Connection
      <4>2. new = [id |-> id, kind |-> "account",
                   status |-> IF "status" \in DOMAIN w THEN w["status"] ELSE old.status,
                   secret |-> IF "secret" \in DOMAIN w THEN w["secret"] ELSE old.secret]
        <5>1. DOMAIN w \subseteq {"secret", "status"}
          BY <3>4, <3>6
        <5>2. new = [c \in {"id", "kind", "status", "secret"} |-> IF c \in DOMAIN w THEN w[c] ELSE old[c]]
          BY <3>3, <4>1, <5>1 DEF Over
        <5> QED
          BY <4>1, <5>1, <5>2
      <4>3. PICK s, k : /\ s = (IF "status" \in DOMAIN w THEN w["status"] ELSE old.status)
                        /\ k = (IF "secret" \in DOMAIN w THEN w["secret"] ELSE old.secret)
        OBVIOUS
      <4>4. new = [id |-> id, kind |-> "account", status |-> s, secret |-> k]
            /\ s \in {"active", "inactive"} /\ k \in {r, old.secret} /\ k \in Ids
        BY <1>2, <3>4, <4>1, <4>2, <4>3
      <4> QED
        BY <3>1, <3>5, <3>6, <4>1, <4>4 DEF Connection
    <3>7. CASE old.kind = "source"
      <4>1. old = [id |-> id, kind |-> "source", account |-> old.account, status |-> old.status,
                   synced |-> old.synced]
            /\ old.status \in {"active", "inactive", "pending_setup"} /\ old.account \in AllIds
            /\ old.synced \in Ids \cup {None} /\ id \in AllIds
        BY <2>1, <3>1, <3>7 DEF Connection
      <4>2. new = [id |-> id, kind |-> "source", account |-> old.account,
                   status |-> IF "status" \in DOMAIN w THEN w["status"] ELSE old.status,
                   synced |-> IF "synced" \in DOMAIN w THEN w["synced"] ELSE old.synced]
        <5>1. DOMAIN w \subseteq {"status", "synced"}
          BY <3>4, <3>7
        <5>2. new = [c \in {"id", "kind", "account", "status", "synced"} |->
                       IF c \in DOMAIN w THEN w[c] ELSE old[c]]
          BY <3>3, <4>1, <5>1 DEF Over
        <5> QED
          BY <4>1, <5>1, <5>2
      <4>3. PICK s, k : /\ s = (IF "status" \in DOMAIN w THEN w["status"] ELSE old.status)
                        /\ k = (IF "synced" \in DOMAIN w THEN w["synced"] ELSE old.synced)
        OBVIOUS
      <4>4. new = [id |-> id, kind |-> "source", account |-> old.account, status |-> s, synced |-> k]
            /\ s \in {"active", "inactive", "pending_setup"} /\ k \in Ids \cup {None}
        BY <1>2, <3>4, <4>1, <4>2, <4>3
      <4> QED
        BY <3>1, <3>5, <3>7, <4>1, <4>4 DEF Connection
    <3> QED
      BY <2>1, <3>1, <3>6, <3>7 DEF Connection
  <2> QED
    BY <2>2, <2>3
<1>5. ASSUME NEW id \in DOMAIN work[r].rows, id \notin DOMAIN rows
      PROVE /\ rows'[id] \in Connection /\ rows'[id].id = id /\ id \in {r, Second(r)}
            /\ rows'[id].kind = "account" => rows'[id].secret = r
            /\ id = Second(r) => rows'[id].kind = "source" /\ rows'[id].account = op[r].account
  <2>1. PICK w : w = work[r].rows[id]
    OBVIOUS
  <2>2. rows'[id] = w /\ ConnectionWork(r, id)
    BY <1>1, <1>3, <1>5, <2>1
  <2>3. CASE id = r /\ w = [id |-> r, kind |-> "account", status |-> "active", secret |-> r]
    BY <1>2, <2>2, <2>3 DEF Connection
  <2>4. CASE /\ id = r /\ op[r].account \in AllIds
             /\ w = [id |-> r, kind |-> "source", account |-> op[r].account, status |-> "pending_setup",
                     synced |-> None]
    BY <1>2, <2>2, <2>4 DEF Connection
  <2>5. CASE /\ id = Second(r) /\ op[r].account \in AllIds
             /\ w = [id |-> Second(r), kind |-> "source", account |-> op[r].account, status |-> "active",
                     synced |-> r]
    BY <1>2, <2>2, <2>5 DEF Connection
  <2> QED
    BY <1>5, <2>1, <2>2, <2>3, <2>4, <2>5 DEF ConnectionWork
<1> QED
  BY <1>1, <1>4, <1>5

LEMMA ConnectionCommits ==
  ASSUME ConnectionsInv, table = "connections", NEW r \in Requests, Commit(r)
  PROVE ConnectionsInv'
<1>1. /\ Moves(r) /\ pc[r] = "commit" /\ pc'[r] = "done"
      /\ op'[r] = op[r] /\ seen'[r] = seen[r] /\ work'[r] = NoWork
      /\ rows' = [id \in DOMAIN rows' |-> rows'[id]]
      /\ DOMAIN rows' = DOMAIN rows \cup DOMAIN work[r].rows
  BY ConnectionCommitted
<1>2. \A id \in DOMAIN rows :
        /\ rows'[id] \in Connection /\ rows'[id].id = id /\ rows'[id].kind = rows[id].kind
        /\ rows[id].kind = "account" => rows'[id].secret \in {r, rows[id].secret}
        /\ rows[id].kind = "source" => rows'[id].account = rows[id].account
  BY ConnectionCommitted
<1>3. \A id \in DOMAIN work[r].rows : id \notin DOMAIN rows =>
        /\ rows'[id] \in Connection /\ rows'[id].id = id /\ id \in {r, Second(r)}
        /\ rows'[id].kind = "account" => rows'[id].secret = r
        /\ id = Second(r) => rows'[id].kind = "source" /\ rows'[id].account = op[r].account
  BY ConnectionCommitted
<1>4. table' = table /\ Shaped' /\ (\A p \in Requests : pc[p] = "done" => pc'[p] = "done")
  BY <1>1 DEF Moves
<1>5. r \in AllIds /\ Second(r) \in AllIds /\ r \notin FromConnections
  BY ServicesAssumption DEF AllIds, Ids, FromConnections
<1>6. RowsOK'
  <2>1. DOMAIN rows' \subseteq AllIds
    BY <1>1, <1>3, <1>5 DEF ConnectionsInv, RowsOK
  <2>2. \A id \in DOMAIN rows' : rows'[id] \in Connection /\ rows'[id].id = id
    BY <1>1, <1>2, <1>3
  <2> QED
    BY <1>1, <1>4, <2>1, <2>2, ConnectionRows DEF RowsOK
<1>7. \A q \in Requests : Own(q)'
  BY <1>6, OwnCommit DEF ConnectionsInv
<1>8. Audited'
  BY AuditedCommits DEF ConnectionsInv
<1>9. Second(r) \in DOMAIN work[r].rows => op[r].account \in DOMAIN work[r].rows /\ NotConnected(op[r].account)
  BY DEF ConnectionsInv, ConnectionRequest
<1>10. \A id \in DOMAIN rows' \cap FromConnections :
         \/ id \in DOMAIN rows
         \/ id = Second(r) /\ Second(r) \in DOMAIN work[r].rows /\ id \notin DOMAIN rows
            /\ rows'[id].account = op[r].account
  BY <1>1, <1>3, <1>5
<1>11. ConnectionsAreWhole'
  <2>1. ASSUME NEW id \in DOMAIN rows', rows'[id].kind = "account", rows'[id].secret \in Requests
        PROVE pc'[rows'[id].secret] = "done"
    <3>1. CASE id \in DOMAIN rows
      <4>1. rows[id].kind = "account" /\ rows'[id].secret \in {r, rows[id].secret}
        BY <1>2, <2>1, <3>1
      <4>2. rows[id].secret \in Requests => pc[rows[id].secret] = "done"
        BY <3>1, <4>1 DEF ConnectionsInv, ConnectionsAreWhole
      <4> QED
        BY <1>1, <1>4, <2>1, <4>1, <4>2
    <3>2. CASE id \notin DOMAIN rows
      BY <1>1, <1>3, <2>1, <3>2
    <3> QED
      BY <3>1, <3>2
  <2>2. ASSUME NEW a \in DOMAIN rows' \cap FromConnections, NEW b \in DOMAIN rows' \cap FromConnections,
               rows'[a].kind = "source", rows'[b].kind = "source", rows'[a].account = rows'[b].account
        PROVE a = b
    <3>1. CASE a \in DOMAIN rows /\ b \in DOMAIN rows
      BY <1>2, <2>2, <3>1 DEF ConnectionsInv, ConnectionsAreWhole
    <3>2. CASE a \in DOMAIN rows /\ b \notin DOMAIN rows
      BY <1>2, <1>9, <1>10, <2>2, <3>2 DEF NotConnected
    <3>3. CASE a \notin DOMAIN rows /\ b \in DOMAIN rows
      BY <1>2, <1>9, <1>10, <2>2, <3>3 DEF NotConnected
    <3>4. CASE a \notin DOMAIN rows /\ b \notin DOMAIN rows
      BY <1>10, <3>4
    <3> QED
      BY <3>1, <3>2, <3>3, <3>4
  <2> QED
    BY <2>1, <2>2 DEF ConnectionsAreWhole, FromConnections
<1>12. DOMAIN work'[r].rows = {}
  BY <1>1 DEF NoWork, NoRows
<1>13. ASSUME NEW q \in Requests PROVE ConnectionRequest(q)'
  <2>0. ConnectionRequest(q) /\ Own(q)
    BY DEF ConnectionsInv
  <2>1. seen'[q] = seen[q]
    BY <1>1 DEF Moves
  <2>2. /\ seen[q] # None => seen[q].id \in DOMAIN rows'  /\ rows'[seen[q].id].kind = seen[q].kind
        /\ seen[q] # None /\ seen[q].kind = "account" /\ seen[q].secret \in Requests =>
             pc'[seen[q].secret] = "done"
    BY <1>1, <1>2, <1>4, <2>0 DEF ConnectionRequest, Own
  <2>3. CASE q = r
    BY <1>1, <1>12, <2>0, <2>1, <2>2, <2>3 DEF ConnectionRequest
  <2>4. CASE q # r
    <3>1. /\ pc'[q] = pc[q] /\ op'[q] = op[q] /\ work'[q] = work[q]
      BY <1>1, <2>4 DEF Moves
    <3>2. ASSUME NEW id \in DOMAIN work'[q].rows PROVE ConnectionWork(q, id)'
      <4>1. ConnectionWork(q, id)
        BY <2>0, <3>1 DEF ConnectionRequest
      <4> QED
        BY <1>1, <1>2, <3>1, <4>1 DEF ConnectionWork
    <3>3. ASSUME op[q].account \in DOMAIN work[q].rows, NotConnected(op[q].account)
          PROVE NotConnected(op[q].account)'
      <4>1. Second(r) \in DOMAIN work[r].rows => op[r].account # op[q].account
        BY <1>9, <2>4, <3>3 DEF ConnectionsInv, Own
      <4>2. ASSUME NEW id \in DOMAIN rows', rows'[id].kind = "source", rows'[id].account = op[q].account,
                   id \in FromConnections
            PROVE FALSE
        <5>1. CASE id \in DOMAIN rows
          BY <1>2, <3>3, <4>2, <5>1 DEF NotConnected
        <5>2. CASE id \notin DOMAIN rows
          BY <1>10, <4>1, <4>2, <5>2
        <5> QED
          BY <5>1, <5>2
      <4> QED
        BY <3>1, <4>2 DEF NotConnected, FromConnections
    <3>4. /\ DOMAIN rows \subseteq DOMAIN rows' /\ \A id \in DOMAIN rows : rows'[id].kind = rows[id].kind
      BY <1>1, <1>2
    <3> QED
      BY <2>0, <2>1, <2>2, <3>1, <3>2, <3>3, <3>4 DEF ConnectionRequest
  <2> QED
    BY <2>3, <2>4
<1> QED
  BY <1>4, <1>6, <1>7, <1>8, <1>11, <1>13 DEF ConnectionsInv

LEMMA ConnectionSteps ==
  ASSUME ConnectionsInv, table = "connections", Next
  PROVE \E r \in Requests :
          \/ ArriveAccount(r) \/ LoadRow(r) \/ SelectAccount(r) \/ ConnectAccount(r) \/ SelectSource(r)
          \/ ConnectSource(r) \/ InsertConnection(r) \/ SetStatus(r) \/ Commit(r) \/ Abort(r)
<1>1. \A r \in Requests : pc[r] # "idle" => op[r].name \in ConnectionNames
  BY DEF ConnectionsInv, ConnectionRequest
<1>2. \A r \in Requests : pc[r] # "idle" => op[r].name \in AccountNames
  BY <1>1 DEF ConnectionNames, AccountNames
<1>3. PICK r \in Requests : ArriveAccount(r) \/ AccountStep(r) \/ Commit(r) \/ Abort(r)
  BY <1>2, AccountSteps
<1>4. pc[r] \in {"idle", "select", "write", "source", "sync", "commit", "done"}
  BY DEF ConnectionsInv, ConnectionRequest
<1>5. AccountStep(r) =>
        \/ LoadRow(r) \/ SelectAccount(r) \/ ConnectAccount(r) \/ SelectSource(r)
        \/ ConnectSource(r) \/ InsertConnection(r) \/ SetStatus(r)
  BY <1>1, <1>4 DEF AccountStep, SelectEmail, InsertMerchant, InsertUser, PatchMerchant,
                    InsertBankAccount, InitiateVerification, CompleteVerification, At, ConnectionNames
<1> QED
  BY <1>3, <1>5

LEMMA ConnectionsStep == ConnectionsInv /\ [Next]_vars => ConnectionsInv'
<1>1. ASSUME ConnectionsInv, Next PROVE ConnectionsInv'
  <2>1. CASE table = "connections"
    <3>1. PICK r \in Requests :
            \/ ArriveAccount(r) \/ LoadRow(r) \/ SelectAccount(r) \/ ConnectAccount(r) \/ SelectSource(r)
            \/ ConnectSource(r) \/ InsertConnection(r) \/ SetStatus(r) \/ Commit(r) \/ Abort(r)
      BY <1>1, <2>1, ConnectionSteps
    <3> QED
      BY <1>1, <2>1, <3>1, ConnectionArrives, ConnectionLoads, AccountIsSelected, AccountIsConnected,
         SourceIsSelected, SourceIsConnected, ConnectionIsInserted, ConnectionStatusIsSet, ConnectionCommits,
         ConnectionDies
  <2>2. CASE table # "connections"
    BY <1>1, <2>2, TableStays DEF ConnectionsInv
  <2> QED
    BY <2>1, <2>2
<1>2. ASSUME ConnectionsInv, UNCHANGED vars PROVE ConnectionsInv'
  <2>1. table' = table /\ rows' = rows /\ log' = log /\ pc' = pc /\ op' = op /\ seen' = seen /\ work' = work
        /\ answer' = answer
    BY <1>2 DEF vars
  <2>2. table = "connections" => Shaped' /\ RowsOK' /\ ConnectionsAreWhole'
    BY <1>2, <2>1 DEF ConnectionsInv, Shaped, RowsOK, ConnectionsAreWhole
  <2>3. table = "connections" => Audited'
    BY <1>2, <2>1 DEF ConnectionsInv, Audited, AuditedRequest, Audit
  <2>4. table = "connections" => \A q \in Requests : Own(q)'
    BY <1>2, <2>1 DEF ConnectionsInv, Own
  <2>5. table = "connections" => \A q \in Requests : ConnectionRequest(q)'
    BY <1>2, <2>1 DEF ConnectionsInv, ConnectionRequest, ConnectionWork, NotConnected
  <2> QED
    BY <2>1, <2>2, <2>3, <2>4, <2>5 DEF ConnectionsInv
<1> QED
  BY <1>1, <1>2

LEMMA ConnectionsStart == Init => ConnectionsInv
<1> SUFFICES ASSUME Init, table = "connections" PROVE ConnectionsInv
  BY DEF ConnectionsInv
<1>1. RowsOK /\ Shaped /\ \A r \in Requests : Own(r) /\ pc[r] = "idle" /\ work[r] = NoWork /\ answer[r] = "none"
                                               /\ seen[r] = None
  BY InitialRowsOK
<1>2. \A r \in Requests : DOMAIN work[r].rows = {}
  BY <1>1 DEF NoWork, NoRows
<1>3. \A r \in Requests : ConnectionRequest(r)
  BY <1>1, <1>2 DEF ConnectionRequest
<1>4. ConnectionsAreWhole
  <2>1. ASSUME NEW id \in DOMAIN rows, rows[id].kind = "account" PROVE rows[id].secret \notin Requests
    <3>1. Inserted("connections", rows[id])
      BY ServicesAssumption DEF Init
    <3>2. rows[id].secret \in Old
      BY <2>1, <3>1 DEF Inserted
    <3> QED
      BY <3>2, SessionsAssumption
  <2>2. \A id \in FromConnections : id \notin DOMAIN rows
    BY <1>1 DEF FromConnections, Own
  <2> QED
    BY <2>1, <2>2 DEF ConnectionsAreWhole
<1> QED
  BY <1>1, <1>3, <1>4, AuditedStart DEF ConnectionsInv

------------------------------------------------------------------------------
(***************************************************************************)
(* Bank accounts.                                                          *)
(***************************************************************************)

BankNames == {"create_bank_account", "update_bank_account", "delete_bank_account", "verify_bank_account"}

NewBankAccount(id) ==
  [id |-> id, kind |-> "bank_account", status |-> "active", verification_status |-> "unverified"]

\* The rows that r has written: a new one, or columns of the one it names.  Only a
\* verification writes its status, and it has written "verified" before it commits.
BankWork(r, id) ==
  LET w == work[r].rows[id] IN
  \/ id = r /\ w = NewBankAccount(r)
  \/ /\ id \in DOMAIN rows /\ id = op[r].id
     /\ DOMAIN w \subseteq {"status", "verification_status"}
     /\ "status" \in DOMAIN w => w["status"] \in {"active", "inactive", "archived"}
     /\ "verification_status" \in DOMAIN w =>
          /\ op[r].name = "verify_bank_account"
          /\ pc[r] = "commit" => w["verification_status"] = "verified"

BankRequest(r) ==
  /\ pc[r] \in {"idle", "select", "write", "verify", "commit", "done"}
  /\ pc[r] # "idle" =>
       /\ op[r].name \in BankNames
       /\ op[r].name = "update_bank_account" => op[r].status \in {"active", "inactive"}
  /\ pc[r] = "select" => op[r].name # "create_bank_account"
  /\ pc[r] = "verify" => op[r].name = "verify_bank_account"
  /\ pc[r] \in {"select", "write"} => work[r] = NoWork
  /\ pc[r] \in {"write", "verify"} /\ op[r].name # "create_bank_account" =>
       seen[r] # None /\ seen[r].id = op[r].id
  /\ pc[r] = "write" /\ op[r].name = "verify_bank_account" => seen[r].verification_status # "pending"
  /\ pc[r] = "verify" =>
       /\ seen[r].verification_status = "pending"
       /\ DOMAIN work[r].rows = {op[r].id}
  /\ \A id \in DOMAIN work[r].rows : BankWork(r, id)

BankAccountsInv ==
  table = "bank_accounts" =>
    /\ Shaped /\ RowsOK /\ Audited /\ VerificationsAreWhole
    /\ \A r \in Requests : Own(r) /\ BankRequest(r)

LEMMA BankRows == Row["bank_accounts"] = BankAccount
  BY DEF Row

\* What is left to show of a step of r that commits nothing.
LEMMA BankStirred ==
  ASSUME BankAccountsInv, table = "bank_accounts", NEW r \in Requests, Stirs(r), pc[r] # "done",
         op'[r] = op[r] \/ pc[r] = "idle",
         \A q \in Requests : Own(q)', BankRequest(r)', Audited'
  PROVE BankAccountsInv'
<1>1. Shaped' /\ rows' = rows /\ log' = log /\ table' = table
  BY DEF Stirs, Moves
<1>2. RowsOK'
  BY <1>1 DEF RowsOK, BankAccountsInv
<1>3. \A e \in log : op'[e.by] = op[e.by]
  BY DEF BankAccountsInv, Audited, Stirs, Moves
<1>4. VerificationsAreWhole'
  BY <1>1, <1>3 DEF BankAccountsInv, VerificationsAreWhole
<1>5. ASSUME NEW q \in Requests, q # r PROVE BankRequest(q)'
  <2>1. /\ pc'[q] = pc[q] /\ op'[q] = op[q] /\ seen'[q] = seen[q] /\ work'[q] = work[q]
        /\ answer'[q] = answer[q]
    BY <1>5 DEF Stirs, Moves
  <2>2. BankRequest(q)
    BY DEF BankAccountsInv
  <2>3. \A id \in DOMAIN work'[q].rows : BankWork(q, id)'
    <3> SUFFICES ASSUME NEW id \in DOMAIN work'[q].rows
                 PROVE BankWork(q, id)'
      OBVIOUS
    <3>1. BankWork(q, id)
      BY <2>1, <2>2 DEF BankRequest
    <3> QED
      BY <1>1, <2>1, <3>1 DEF BankWork
  <2> QED
    BY <1>1, <2>1, <2>2, <2>3 DEF BankRequest
<1> QED
  BY <1>1, <1>2, <1>4, <1>5 DEF BankAccountsInv

LEMMA BankArrives ==
  ASSUME BankAccountsInv, table = "bank_accounts", NEW r \in Requests, ArriveAccount(r)
  PROVE Stirs(r) /\ BankAccountsInv'
<1>1. PICK o, s :
        /\ s \in {"select", "write"} /\ Arrive(r, o, s)
        /\ o.name \in BankNames
        /\ o.name = "update_bank_account" => o.status \in {"active", "inactive"}
        /\ s = "write" <=> o.name = "create_bank_account"
  <2>1. CASE Arrive(r, [name |-> "create_bank_account"], "write")
    BY <2>1 DEF BankNames
  <2>2. CASE \E id \in Known("bank_account"), v \in {"active", "inactive"} :
               Arrive(r, [name |-> "update_bank_account", id |-> id, status |-> v], "select")
    <3>1. PICK id, v, o : /\ v \in {"active", "inactive"}
                          /\ o = [name |-> "update_bank_account", id |-> id, status |-> v]
                          /\ Arrive(r, o, "select")
      BY <2>2
    <3>2. o.name = "update_bank_account" /\ o.status \in {"active", "inactive"}
      BY <3>1
    <3> QED
      BY <3>1, <3>2 DEF BankNames
  <2>3. CASE \E id \in Known("bank_account"), n \in {"delete_bank_account", "verify_bank_account"} :
               Arrive(r, [name |-> n, id |-> id], "select")
    <3>1. PICK id, n, o : /\ n \in {"delete_bank_account", "verify_bank_account"}
                          /\ o = [name |-> n, id |-> id] /\ Arrive(r, o, "select")
      BY <2>3
    <3>2. o.name \in {"delete_bank_account", "verify_bank_account"}
      BY <3>1
    <3> QED
      BY <3>1, <3>2 DEF BankNames
  <2> QED
    BY <2>1, <2>2, <2>3
       DEF ArriveAccount, ArriveDirectory, ArriveConnection, ArriveBankAccount
<1>2. /\ Stirs(r) /\ pc[r] = "idle" /\ pc'[r] = s /\ op'[r] = o
      /\ seen'[r] = seen[r] /\ work'[r] = work[r] /\ answer'[r] = answer[r]
  BY <1>1, Arriving DEF BankAccountsInv, Statements
<1>3. pc[r] # "done" /\ pc'[r] \notin {"idle", "done", "commit", "verify"}
  BY <1>1, <1>2
<1>4. \A q \in Requests : Own(q)'
  BY <1>2, <1>3, OwnQuiet DEF BankAccountsInv
<1>5. work[r] = NoWork /\ work'[r].log = {} /\ DOMAIN work'[r].rows = {} /\ work'[r] = NoWork
  BY <1>2 DEF BankAccountsInv, Own, NoWork, NoRows
<1>6. Audited'
  BY <1>2, <1>3, <1>5, AuditedStirs DEF BankAccountsInv
<1>7. BankRequest(r)'
  BY <1>1, <1>2, <1>3, <1>5 DEF BankRequest
<1> QED
  BY <1>2, <1>3, <1>4, <1>6, <1>7, BankStirred

\* A request about bank accounts that is refused, or dies.
LEMMA BankRefused ==
  ASSUME BankAccountsInv, table = "bank_accounts", NEW r \in Requests, pc[r] \notin {"idle", "done"},
         NEW a \in Answers \ {"200"}, Discard(r, a)
  PROVE Stirs(r) /\ BankAccountsInv'
<1>1. /\ Stirs(r) /\ pc'[r] = "done" /\ answer'[r] = a /\ work'[r] = NoWork
      /\ op'[r] = op[r] /\ seen'[r] = seen[r]
  BY Discarding DEF BankAccountsInv
<1>2. \A q \in Requests : Own(q)'
  BY <1>1, OwnDiscard DEF BankAccountsInv
<1>3. Audited'
  BY <1>1, AuditedStirs DEF BankAccountsInv
<1>4. DOMAIN work'[r].rows = {}
  BY <1>1 DEF NoWork, NoRows
<1>5. BankRequest(r)'
  BY <1>1, <1>4 DEF BankAccountsInv, BankRequest
<1> QED
  BY <1>1, <1>2, <1>3, <1>5, BankStirred

LEMMA BankDies ==
  ASSUME BankAccountsInv, table = "bank_accounts", NEW r \in Requests, Abort(r)
  PROVE Stirs(r) /\ BankAccountsInv'
  BY BankRefused DEF Abort, Answers

LEMMA BankLoads ==
  ASSUME BankAccountsInv, table = "bank_accounts", NEW r \in Requests, LoadRow(r)
  PROVE Stirs(r) /\ BankAccountsInv'
<1>1. /\ pc[r] = "select" /\ op[r].name # "create_bank_account" /\ op[r].name \in BankNames
      /\ work[r] = NoWork /\ BankRequest(r)
  BY DEF LoadRow, BankAccountsInv, BankRequest
<1>2. CASE op[r].id \notin DOMAIN rows
  <2>1. Discard(r, "404")
    BY <1>2 DEF LoadRow
  <2> QED
    BY <1>1, <2>1, BankRefused DEF Answers
<1>3. CASE op[r].id \in DOMAIN rows
  <2>1. PICK row : row = rows[op[r].id]
    OBVIOUS
  <2>2. Select(r, {row}, "write") /\ "write" \in Statements /\ Shaped
    BY <1>1, <1>3, <2>1 DEF LoadRow, Statements, BankAccountsInv, BankNames
  <2>3. /\ Stirs(r)
        /\ pc'[r] = "write" /\ op'[r] = op[r] /\ work'[r] = work[r] /\ answer'[r] = answer[r]
        /\ seen'[r] = row
    BY <2>2, Selecting
  <2>4. pc[r] # "done" /\ pc'[r] \notin {"idle", "done", "commit"}
    BY <1>1, <2>3
  <2>5. \A q \in Requests : Own(q)'
    BY <1>3, <2>1, <2>3, <2>4, OwnQuiet DEF BankAccountsInv
  <2>6. work'[r].log = {} /\ DOMAIN work'[r].rows = {} /\ work'[r] = NoWork
    BY <1>1, <2>3 DEF NoWork, NoRows
  <2>7. Audited'
    BY <2>3, <2>4, <2>6, AuditedStirs DEF BankAccountsInv
  <2>8. BankRequest(r)'
    <3>1. row # None /\ row.id = op[r].id
      BY <1>3, <2>1, ServicesAssumption DEF BankAccountsInv, RowsOK, Row
    <3>2. row.verification_status # "pending"
      BY <1>3, <2>1 DEF BankAccountsInv, VerificationsAreWhole
    <3> QED
      BY <1>1, <2>3, <2>6, <3>1, <3>2 DEF BankRequest
  <2> QED
    BY <2>3, <2>4, <2>5, <2>7, <2>8, BankStirred
<1> QED
  BY <1>2, <1>3

\* The single write of the requests about bank accounts other than verifications.
LEMMA BankWrites ==
  ASSUME BankAccountsInv, table = "bank_accounts", NEW r \in Requests, Stirs(r),
         pc[r] = "write", pc'[r] = "commit", op'[r] = op[r], seen'[r] = seen[r], answer'[r] = answer[r],
         work'[r].log = Audit(r),
         \A id \in DOMAIN work'[r].rows :
           (id = r \/ (id \in DOMAIN rows /\ Free(r, id))) /\ BankWork(r, id)'
  PROVE BankAccountsInv'
<1>1. pc[r] # "done" /\ pc'[r] \notin {"idle", "done"} /\ BankRequest(r)
  BY DEF BankAccountsInv
<1>2. \A q \in Requests : Own(q)'
  <2>1. seen'[r] # None => seen'[r] \in Row[table] /\ seen'[r].id \in DOMAIN rows
    BY DEF BankAccountsInv, Own
  <2>2. DOMAIN work'[r].rows \subseteq
          DOMAIN work[r].rows \cup {r, Second(r)} \cup {i \in DOMAIN rows : Free(r, i)}
    OBVIOUS
  <2> QED
    BY <1>1, <2>1, <2>2, OwnWrites DEF BankAccountsInv
<1>3. Audited'
  <2>1. work'[r].log = IF pc'[r] = "commit" THEN {[by |-> r, event |-> op'[r].name]} ELSE {}
    BY DEF Audit
  <2> QED
    BY <1>1, <2>1, AuditedStirs DEF BankAccountsInv
<1>4. BankRequest(r)'
  BY <1>1 DEF BankRequest
<1> QED
  BY <1>1, <1>2, <1>3, <1>4, BankStirred

LEMMA BankAccountIsInserted ==
  ASSUME BankAccountsInv, table = "bank_accounts", NEW r \in Requests, InsertBankAccount(r)
  PROVE Stirs(r) /\ BankAccountsInv'
<1>1. /\ pc[r] = "write" /\ work[r] = NoWork /\ BankRequest(r) /\ op[r].name = "create_bank_account"
  BY DEF InsertBankAccount, At, BankAccountsInv, BankRequest
<1>2. PICK row : row = NewBankAccount(None)
  OBVIOUS
<1>3. PICK entries : entries = Audit(r)
  OBVIOUS
<1>4. Goto(r, "commit") /\ UNCHANGED <<seen, answer>> /\ InsertAs(r, r, row, entries)
  BY <1>2, <1>3 DEF InsertBankAccount, Insert, NewBankAccount
<1>5. "commit" \in Statements /\ Shaped
  BY DEF BankAccountsInv, Statements
<1>6. /\ Stirs(r)
      /\ pc'[r] = "commit" /\ op'[r] = op[r] /\ seen'[r] = seen[r] /\ answer'[r] = answer[r]
      /\ work'[r].log = entries
      /\ DOMAIN work'[r].rows = {r}
      /\ work'[r].rows[r] = [row EXCEPT !.id = r]
  BY <1>1, <1>4, <1>5, InsertingFirst
<1>7. work'[r].rows[r] = NewBankAccount(r)
  BY <1>2, <1>6 DEF NewBankAccount
<1>8. BankWork(r, r)'
  BY <1>7 DEF BankWork, NewBankAccount
<1>9. \A id \in DOMAIN work'[r].rows :
        (id = r \/ (id \in DOMAIN rows /\ Free(r, id))) /\ BankWork(r, id)'
  BY <1>6, <1>8
<1> QED
  BY <1>1, <1>3, <1>6, <1>9, BankWrites

LEMMA BankStatusIsSet ==
  ASSUME BankAccountsInv, table = "bank_accounts", NEW r \in Requests, SetStatus(r)
  PROVE Stirs(r) /\ BankAccountsInv'
<1>1. /\ pc[r] = "write" /\ work[r] = NoWork /\ BankRequest(r)
      /\ op[r].name \in {"update_bank_account", "delete_bank_account"}
      /\ seen[r] # None /\ seen[r].id = op[r].id
  BY DEF SetStatus, BankAccountsInv, BankRequest, BankNames
<1>2. PICK status : status = IF op[r].name = "delete_bank_account" THEN "archived" ELSE op[r].status
  OBVIOUS
<1>3. PICK columns : columns = [status |-> status]
  OBVIOUS
<1>4. PICK entries : entries = Audit(r)
  OBVIOUS
<1>5. Goto(r, "commit") /\ UNCHANGED <<seen, answer>> /\ Update(r, columns, entries)
  <2>1. (CASE op[r].name = "delete_provider_account" -> "inactive"
           [] op[r].name = "delete_bank_account" -> "archived"
           [] OTHER -> op[r].status) = status
    BY <1>1, <1>2
  <2>2. [status |-> CASE op[r].name = "delete_provider_account" -> "inactive"
                      [] op[r].name = "delete_bank_account" -> "archived"
                      [] OTHER -> op[r].status] = columns
    BY <1>3, <2>1
  <2> QED
    BY <1>4, <2>2 DEF SetStatus
<1>6. "commit" \in Statements /\ Shaped
  BY DEF BankAccountsInv, Statements
<1>7. PICK w : w = Written(seen[r], columns)
  OBVIOUS
<1>8. /\ Stirs(r)
      /\ pc'[r] = "commit" /\ op'[r] = op[r] /\ seen'[r] = seen[r] /\ answer'[r] = answer[r]
      /\ work'[r].log = entries
      /\ \/ DOMAIN w = {} /\ DOMAIN work'[r].rows = {}
         \/ /\ DOMAIN w # {}
            /\ Free(r, seen[r].id)
            /\ DOMAIN work'[r].rows = {seen[r].id}
            /\ work'[r].rows[seen[r].id] = w
  BY <1>1, <1>5, <1>6, <1>7, UpdatingFirst
<1>9. /\ DOMAIN w \subseteq {"status"}
      /\ "status" \in DOMAIN w => w["status"] \in {"active", "inactive", "archived"}
  <2>1. status \in {"active", "inactive", "archived"}
    BY <1>1, <1>2 DEF BankRequest
  <2> QED
    BY <1>3, <1>7, <2>1 DEF Written
<1>10. op[r].id \in DOMAIN rows
  BY <1>1 DEF BankAccountsInv, Own
<1>11. ASSUME NEW id \in DOMAIN work'[r].rows
       PROVE (id = r \/ (id \in DOMAIN rows /\ Free(r, id))) /\ BankWork(r, id)'
  <2>1. id = op[r].id /\ work'[r].rows[id] = w /\ Free(r, id)
    BY <1>1, <1>8, <1>11
  <2>2. id \in DOMAIN rows' /\ op'[r] = op[r]
    BY <1>8, <1>10, <2>1 DEF Stirs
  <2>3. BankWork(r, id)'
    BY <1>9, <2>1, <2>2 DEF BankWork
  <2> QED
    BY <1>10, <2>1, <2>3
<1> QED
  BY <1>1, <1>4, <1>8, <1>11, BankWrites

LEMMA VerificationIsInitiated ==
  ASSUME BankAccountsInv, table = "bank_accounts", NEW r \in Requests, InitiateVerification(r)
  PROVE Stirs(r) /\ BankAccountsInv'
<1>1. /\ pc[r] = "write" /\ op[r].name = "verify_bank_account" /\ work[r] = NoWork /\ BankRequest(r)
      /\ seen[r] # None /\ seen[r].id = op[r].id /\ seen[r].verification_status # "pending"
  BY DEF InitiateVerification, At, BankAccountsInv, BankRequest
<1>2. PICK w : w = Written(seen[r], [verification_status |-> "pending"])
  OBVIOUS
<1>3. DOMAIN w = {"verification_status"} /\ w["verification_status"] = "pending"
  BY <1>1, <1>2 DEF Written
<1>4. PICK id : id = op[r].id
  OBVIOUS
<1>5. id \in DOMAIN rows /\ seen[r] \in BankAccount
  BY <1>1, <1>4, BankRows DEF BankAccountsInv, Own
<1>6. PICK n : n = Single(id, w)
  OBVIOUS
<1>7. DOMAIN n = {id} /\ n[id] = w
  BY <1>6 DEF Single
<1>8. Free(r, id) /\ work' = [work EXCEPT ![r].rows = n]
  <2>1. DOMAIN work[r].rows = {} /\ work[r].log = {} /\ work[r] = [rows |-> work[r].rows, log |-> work[r].log]
    BY <1>1 DEF NoWork, NoRows
  <2>2. Over(w, NoRows) = w
    BY <1>2 DEF Over, NoRows, Written
  <2>3. Over(n, work[r].rows) = n
    BY <1>6, <2>1 DEF Over, Single
  <2>4. (IF id \in DOMAIN work[r].rows THEN work[r].rows[id] ELSE NoRows) = NoRows
    BY <2>1
  <2>5. Update(r, [verification_status |-> "pending"], {})
    BY DEF InitiateVerification
  <2>6. PICK m : m = Over(Single(id, Over(w, NoRows)), work[r].rows)
    OBVIOUS
  <2>7. Free(r, id) /\ work' = [work EXCEPT ![r] = [rows |-> m, log |-> @.log \cup {}]]
    BY <1>1, <1>2, <1>3, <1>4, <2>4, <2>5, <2>6 DEF Update
  <2>8. m = n
    BY <1>6, <2>2, <2>3, <2>6
  <2>9. [rows |-> n, log |-> work[r].log \cup {}] = [work[r] EXCEPT !.rows = n]
    BY <2>1
  <2> QED
    BY <2>7, <2>8, <2>9
<1>9. PICK v : v = [seen[r] EXCEPT !.verification_status = "pending"]
  OBVIOUS
<1>10. v \in BankAccount /\ v.id = id /\ v.verification_status = "pending" /\ v # None
  <2>1. v \in BankAccount
    BY <1>5, <1>9 DEF BankAccount
  <2>2. v # None
    BY <2>1, BankRows, ServicesAssumption DEF Row
  <2> QED
    BY <1>1, <1>4, <1>5, <1>9, <2>1, <2>2 DEF BankAccount
<1>11. /\ Stirs(r)
       /\ pc'[r] = "verify" /\ op'[r] = op[r] /\ seen'[r] = v /\ answer'[r] = answer[r]
       /\ work'[r].rows = n /\ work'[r].log = work[r].log
  <2>1. Goto(r, "verify") /\ answer' = answer /\ seen' = [seen EXCEPT ![r] = v]
    BY <1>9 DEF InitiateVerification
  <2>2. PICK a \in Answers : a = answer[r] /\ answer' = [answer EXCEPT ![r] = a]
    BY <2>1 DEF BankAccountsInv, Shaped
  <2>3. "verify" \in Statements /\ Shaped
    BY DEF Statements, BankAccountsInv
  <2>4. PICK s \in Statements : s = "verify"
    BY <2>3
  <2>5. Goto(r, s) /\ seen' = [seen EXCEPT ![r] = v] /\ work' = [work EXCEPT ![r].rows = n]
    BY <1>8, <2>1, <2>4
  <2>6. /\ Stirs(r)
        /\ pc'[r] = s /\ op'[r] = op[r] /\ seen'[r] = v /\ answer'[r] = a
        /\ work'[r].rows = n /\ work'[r].log = work[r].log
    BY <2>2, <2>3, <2>5, Setting, ZenonT(40)
  <2> QED
    BY <2>2, <2>4, <2>6
<1>12. pc[r] # "done" /\ pc'[r] \notin {"idle", "done", "commit"} /\ work[r].log = {}
  BY <1>1, <1>11 DEF NoWork
<1>13. \A q \in Requests : Own(q)'
  <2>1. seen'[r] # None => seen'[r] \in Row[table] /\ seen'[r].id \in DOMAIN rows
    BY <1>5, <1>10, <1>11, BankRows
  <2>2. DOMAIN work'[r].rows \subseteq
          DOMAIN work[r].rows \cup {r, Second(r)} \cup {i \in DOMAIN rows : Free(r, i)}
    BY <1>5, <1>7, <1>8, <1>11
  <2> QED
    BY <1>11, <1>12, <2>1, <2>2, OwnWrites DEF BankAccountsInv
<1>14. Audited'
  BY <1>11, <1>12, AuditedStirs DEF BankAccountsInv
<1>15. BankRequest(r)'
  <2>1. rows' = rows
    BY <1>11 DEF Stirs
  <2>2. BankWork(r, id)'
    BY <1>1, <1>3, <1>4, <1>5, <1>7, <1>11, <2>1 DEF BankWork
  <2>3. \A i \in DOMAIN work'[r].rows : BankWork(r, i)'
    BY <1>7, <1>11, <2>2
  <2> QED
    BY <1>1, <1>4, <1>7, <1>10, <1>11, <2>3 DEF BankRequest
<1> QED
  BY <1>11, <1>12, <1>13, <1>14, <1>15, BankStirred

LEMMA VerificationIsCompleted ==
  ASSUME BankAccountsInv, table = "bank_accounts", NEW r \in Requests, CompleteVerification(r)
  PROVE Stirs(r) /\ BankAccountsInv'
<1>1. /\ pc[r] = "verify" /\ op[r].name = "verify_bank_account" /\ BankRequest(r)
      /\ seen[r] # None /\ seen[r].id = op[r].id /\ seen[r].verification_status = "pending"
      /\ DOMAIN work[r].rows = {op[r].id}
  BY DEF CompleteVerification, BankAccountsInv, BankRequest
<1>2. PICK columns : columns = [verification_status |-> "verified"]
  OBVIOUS
<1>3. PICK w : w = Written(seen[r], columns)
  OBVIOUS
<1>4. w = [c \in {"verification_status"} |-> "verified"]
  BY <1>1, <1>2, <1>3 DEF Written
<1>5. PICK id : id = op[r].id
  OBVIOUS
<1>6. id \in DOMAIN rows /\ work[r].log = {}
  BY <1>1, <1>5 DEF BankAccountsInv, Own, Audited, AuditedRequest
<1>7. PICK entries : entries = Audit(r)
  OBVIOUS
<1>8. PICK before : before = work[r].rows[id]
  OBVIOUS
<1>9. /\ Stirs(r)
      /\ pc'[r] = "commit" /\ op'[r] = op[r] /\ seen'[r] = seen[r] /\ answer'[r] = answer[r]
      /\ work'[r].log = work[r].log \cup entries
      /\ Free(r, id)
      /\ work'[r].rows = Over(Single(id, Over(w, before)), work[r].rows)
  <2>1. Goto(r, "commit") /\ UNCHANGED <<seen, answer>> /\ Update(r, columns, entries)
    BY <1>2, <1>7 DEF CompleteVerification
  <2>2. "commit" \in Statements /\ Shaped
    BY DEF Statements, BankAccountsInv
  <2>3. (IF seen[r].id \in DOMAIN work[r].rows THEN work[r].rows[seen[r].id] ELSE NoRows) = before
    BY <1>1, <1>5, <1>8
  <2>4. DOMAIN w # {} /\ seen[r].id = id
    BY <1>1, <1>4, <1>5
  <2>5. /\ Stirs(r)
        /\ pc'[r] = "commit" /\ op'[r] = op[r] /\ seen'[r] = seen[r] /\ answer'[r] = answer[r]
        /\ work'[r].log = work[r].log \cup entries
        /\ \/ DOMAIN w = {} /\ work'[r].rows = work[r].rows
           \/ /\ DOMAIN w # {}
              /\ Free(r, seen[r].id)
              /\ work'[r].rows = Over(Single(seen[r].id, Over(w, before)), work[r].rows)
    BY <1>3, <2>1, <2>2, <2>3, Updating
  <2> QED
    BY <2>4, <2>5
<1>10. PICK over : over = Over(w, before)
  OBVIOUS
<1>11. DOMAIN work'[r].rows = {id} /\ work'[r].rows[id] = over
  <2>1. work'[r].rows = Over(Single(id, over), work[r].rows)
    BY <1>9, <1>10
  <2> QED
    BY <1>1, <1>5, <2>1 DEF Over, Single
<1>12. /\ DOMAIN over \subseteq {"status", "verification_status"}
       /\ over["verification_status"] = "verified"
       /\ "status" \in DOMAIN over => over["status"] \in {"active", "inactive", "archived"}
  <2>1. BankWork(r, id) /\ r \notin DOMAIN rows
    BY <1>1, <1>5 DEF BankRequest, BankAccountsInv, Own
  <2>2. /\ DOMAIN before \subseteq {"status", "verification_status"}
        /\ "status" \in DOMAIN before => before["status"] \in {"active", "inactive", "archived"}
    BY <1>6, <1>8, <2>1 DEF BankWork
  <2> QED
    BY <1>4, <1>10, <2>2 DEF Over
<1>13. pc[r] # "done" /\ pc'[r] \notin {"idle", "done"}
  BY <1>1, <1>9
<1>14. \A q \in Requests : Own(q)'
  <2>1. seen'[r] # None => seen'[r] \in Row[table] /\ seen'[r].id \in DOMAIN rows
    BY <1>9 DEF BankAccountsInv, Own
  <2>2. DOMAIN work'[r].rows \subseteq
          DOMAIN work[r].rows \cup {r, Second(r)} \cup {i \in DOMAIN rows : Free(r, i)}
    BY <1>1, <1>5, <1>11
  <2> QED
    BY <1>9, <1>13, <2>1, <2>2, OwnWrites DEF BankAccountsInv
<1>15. Audited'
  <2>1. work'[r].log = IF pc'[r] = "commit" THEN {[by |-> r, event |-> op'[r].name]} ELSE {}
    BY <1>6, <1>7, <1>9 DEF Audit
  <2> QED
    BY <1>9, <1>13, <2>1, AuditedStirs DEF BankAccountsInv
<1>16. BankRequest(r)'
  <2>1. rows' = rows
    BY <1>9 DEF Stirs
  <2>2. BankWork(r, id)'
    BY <1>1, <1>5, <1>6, <1>9, <1>11, <1>12, <2>1 DEF BankWork
  <2>3. \A i \in DOMAIN work'[r].rows : BankWork(r, i)'
    BY <1>11, <2>2
  <2> QED
    BY <1>1, <1>9, <2>3 DEF BankRequest
<1> QED
  BY <1>9, <1>13, <1>14, <1>15, <1>16, BankStirred

\* A commit: an account keeps its verification, or has just been verified.
LEMMA BankCommitted ==
  ASSUME BankAccountsInv, table = "bank_accounts", NEW r \in Requests, Commit(r)
  PROVE /\ Moves(r) /\ pc[r] = "commit" /\ pc'[r] = "done"
        /\ op'[r] = op[r] /\ seen'[r] = seen[r] /\ work'[r] = NoWork
        /\ rows' = [id \in DOMAIN rows' |-> rows'[id]]
        /\ DOMAIN rows' = DOMAIN rows \cup DOMAIN work[r].rows
        /\ \A id \in DOMAIN rows :
             /\ rows'[id] \in BankAccount /\ rows'[id].id = id
             /\ \/ rows'[id].verification_status = rows[id].verification_status
                \/ /\ rows'[id].verification_status = "verified"
                   /\ op[r].name = "verify_bank_account" /\ op[r].id = id
        /\ \A id \in DOMAIN work[r].rows : id \notin DOMAIN rows =>
             id = r /\ rows'[id] \in BankAccount /\ rows'[id].id = id
             /\ rows'[id].verification_status = "unverified"
<1>1. /\ Moves(r) /\ pc[r] = "commit" /\ pc'[r] = "done"
      /\ op'[r] = op[r] /\ seen'[r] = seen[r] /\ work'[r] = NoWork
      /\ rows' = [id \in DOMAIN rows' |-> rows'[id]]
      /\ DOMAIN rows' = DOMAIN rows \cup DOMAIN work[r].rows
      /\ \A id \in DOMAIN rows :
           /\ id \notin DOMAIN work[r].rows => rows'[id] = rows[id]
           /\ id \in DOMAIN work[r].rows => rows'[id] = Over(work[r].rows[id], rows[id])
      /\ \A id \in DOMAIN work[r].rows : id \notin DOMAIN rows => rows'[id] = work[r].rows[id]
  BY Committing DEF BankAccountsInv
<1>2. r \notin DOMAIN rows /\ r \in AllIds
  BY <1>1 DEF BankAccountsInv, Own, Ids, AllIds
<1>3. \A id \in DOMAIN work[r].rows : BankWork(r, id)
  BY DEF BankAccountsInv, BankRequest
<1>4. ASSUME NEW id \in DOMAIN rows
      PROVE /\ rows'[id] \in BankAccount /\ rows'[id].id = id
            /\ \/ rows'[id].verification_status = rows[id].verification_status
               \/ /\ rows'[id].verification_status = "verified"
                  /\ op[r].name = "verify_bank_account" /\ op[r].id = id
  <2>1. rows[id] \in BankAccount /\ rows[id].id = id
    BY BankRows DEF BankAccountsInv, RowsOK
  <2>2. CASE id \notin DOMAIN work[r].rows
    BY <1>1, <2>1, <2>2
  <2>3. CASE id \in DOMAIN work[r].rows
    <3>1. PICK old : old = rows[id]
      OBVIOUS
    <3>2. PICK w : w = work[r].rows[id]
      OBVIOUS
    <3>3. PICK new : new = Over(w, old)
      OBVIOUS
    <3>4. /\ DOMAIN w \subseteq {"status", "verification_status"}
          /\ id = op[r].id
          /\ "status" \in DOMAIN w => w["status"] \in {"active", "inactive", "archived"}
          /\ "verification_status" \in DOMAIN w =>
               op[r].name = "verify_bank_account" /\ w["verification_status"] = "verified"
      BY <1>1, <1>2, <1>3, <2>3, <3>2 DEF BankWork
    <3>5. rows'[id] = new
      BY <1>1, <2>3, <3>1, <3>2, <3>3
    <3>6. old = [id |-> id, kind |-> "bank_account", status |-> old.status,
                 verification_status |-> old.verification_status]
          /\ old.status \in {"active", "inactive", "archived"} /\ id \in AllIds
          /\ old.verification_status \in {"unverified", "pending", "verified"}
      BY <2>1, <3>1 DEF BankAccount
    <3>7. PICK s, v : /\ s = (IF "status" \in DOMAIN w THEN w["status"] ELSE old.status)
                      /\ v = (IF "verification_status" \in DOMAIN w THEN w["verification_status"]
                              ELSE old.verification_status)
      OBVIOUS
    <3>8. new = [id |-> id, kind |-> "bank_account", status |-> s, verification_status |-> v]
      <4>1. new = [c \in {"id", "kind", "status", "verification_status"} |->
                     IF c \in DOMAIN w THEN w[c] ELSE old[c]]
        BY <3>3, <3>4, <3>6 DEF Over
      <4> QED
        BY <3>4, <3>6, <3>7, <4>1
    <3>9. /\ s \in {"active", "inactive", "archived"}
          /\ v \in {"unverified", "pending", "verified"}
          /\ v = old.verification_status \/ (v = "verified" /\ op[r].name = "verify_bank_account")
      BY <3>4, <3>6, <3>7
    <3>10. new \in BankAccount /\ new.id = id /\ new.verification_status = v
      BY <3>6, <3>8, <3>9 DEF BankAccount
    <3> QED
      BY <3>1, <3>4, <3>5, <3>9, <3>10
  <2> QED
    BY <2>2, <2>3
<1>5. ASSUME NEW id \in DOMAIN work[r].rows, id \notin DOMAIN rows
      PROVE id = r /\ rows'[id] \in BankAccount /\ rows'[id].id = id
            /\ rows'[id].verification_status = "unverified"
  <2>1. id = r /\ rows'[id] = NewBankAccount(r)
    BY <1>1, <1>3, <1>5 DEF BankWork
  <2> QED
    BY <1>2, <2>1 DEF NewBankAccount, BankAccount
<1> QED
  BY <1>1, <1>4, <1>5

LEMMA BankCommits ==
  ASSUME BankAccountsInv, table = "bank_accounts", NEW r \in Requests, Commit(r)
  PROVE BankAccountsInv'
<1>1. /\ Moves(r) /\ pc[r] = "commit" /\ pc'[r] = "done"
      /\ op'[r] = op[r] /\ seen'[r] = seen[r] /\ work'[r] = NoWork
      /\ rows' = [id \in DOMAIN rows' |-> rows'[id]]
      /\ DOMAIN rows' = DOMAIN rows \cup DOMAIN work[r].rows
  BY BankCommitted
<1>2. \A id \in DOMAIN rows :
        /\ rows'[id] \in BankAccount /\ rows'[id].id = id
        /\ \/ rows'[id].verification_status = rows[id].verification_status
           \/ /\ rows'[id].verification_status = "verified"
              /\ op[r].name = "verify_bank_account" /\ op[r].id = id
  BY BankCommitted
<1>3. \A id \in DOMAIN work[r].rows : id \notin DOMAIN rows =>
        id = r /\ rows'[id] \in BankAccount /\ rows'[id].id = id
        /\ rows'[id].verification_status = "unverified"
  BY BankCommitted
<1>4. table' = table /\ Shaped' /\ op' = op
  BY <1>1 DEF Moves, BankAccountsInv, Shaped
<1>5. RowsOK'
  <2>1. r \in AllIds
    BY DEF AllIds, Ids
  <2>2. DOMAIN rows' \subseteq AllIds
    BY <1>1, <1>3, <2>1 DEF BankAccountsInv, RowsOK
  <2>3. \A id \in DOMAIN rows' : rows'[id] \in BankAccount /\ rows'[id].id = id
    BY <1>1, <1>2, <1>3
  <2> QED
    BY <1>1, <1>4, <2>2, <2>3, BankRows DEF RowsOK
<1>6. \A q \in Requests : Own(q)'
  BY <1>5, OwnCommit DEF BankAccountsInv
<1>7. Audited' /\ log' = log \cup Audit(r)
  BY AuditedCommits DEF BankAccountsInv
<1>8. VerificationsAreWhole'
  <2>1. ASSUME NEW id \in DOMAIN rows'
        PROVE \/ rows'[id].verification_status = "unverified"
              \/ /\ rows'[id].verification_status = "verified"
                 /\ \E e \in log' : e.event = "verify_bank_account" /\ op'[e.by].id = id
    <3>1. CASE id \in DOMAIN rows /\ rows'[id].verification_status = rows[id].verification_status
      BY <1>4, <1>7, <3>1 DEF BankAccountsInv, VerificationsAreWhole
    <3>2. CASE id \in DOMAIN rows /\ rows'[id].verification_status # rows[id].verification_status
      <4>1. rows'[id].verification_status = "verified" /\ op[r].name = "verify_bank_account" /\ op[r].id = id
        BY <1>2, <3>2
      <4>2. PICK e \in log' : e = [by |-> r, event |-> op[r].name]
        BY <1>7 DEF Audit
      <4>3. e.event = "verify_bank_account" /\ e.by = r
        BY <4>1, <4>2
      <4>4. op'[e.by].id = id
        BY <1>4, <4>1, <4>3
      <4> QED
        BY <4>1, <4>3, <4>4
    <3>3. CASE id \notin DOMAIN rows
      BY <1>1, <1>3, <3>3
    <3> QED
      BY <3>1, <3>2, <3>3
  <2> QED
    BY <2>1 DEF VerificationsAreWhole
<1>9. ASSUME NEW q \in Requests PROVE BankRequest(q)'
  <2>1. BankRequest(q) /\ seen'[q] = seen[q] /\ op'[q] = op[q]
    BY <1>1 DEF BankAccountsInv, Moves
  <2>2. CASE q = r
    <3>1. DOMAIN work'[r].rows = {}
      BY <1>1 DEF NoWork, NoRows
    <3> QED
      BY <1>1, <2>1, <2>2, <3>1 DEF BankRequest
  <2>3. CASE q # r
    <3>1. pc'[q] = pc[q] /\ work'[q] = work[q]
      BY <1>1, <2>3 DEF Moves
    <3>2. ASSUME NEW id \in DOMAIN work'[q].rows PROVE BankWork(q, id)'
      <4>1. BankWork(q, id)
        BY <2>1, <3>1 DEF BankRequest
      <4> QED
        BY <1>1, <2>1, <3>1, <4>1 DEF BankWork
    <3> QED
      BY <2>1, <3>1, <3>2 DEF BankRequest
  <2> QED
    BY <2>2, <2>3
<1> QED
  BY <1>4, <1>5, <1>6, <1>7, <1>8, <1>9 DEF BankAccountsInv

LEMMA BankSteps ==
  ASSUME BankAccountsInv, table = "bank_accounts", Next
  PROVE \E r \in Requests :
          \/ ArriveAccount(r) \/ LoadRow(r) \/ InsertBankAccount(r) \/ SetStatus(r)
          \/ InitiateVerification(r) \/ CompleteVerification(r) \/ Commit(r) \/ Abort(r)
<1>1. \A r \in Requests : pc[r] # "idle" => op[r].name \in BankNames
  BY DEF BankAccountsInv, BankRequest
<1>2. \A r \in Requests : pc[r] # "idle" => op[r].name \in AccountNames
  BY <1>1 DEF BankNames, AccountNames
<1>3. PICK r \in Requests : ArriveAccount(r) \/ AccountStep(r) \/ Commit(r) \/ Abort(r)
  BY <1>2, AccountSteps
<1>4. pc[r] \in {"idle", "select", "write", "verify", "commit", "done"}
  BY DEF BankAccountsInv, BankRequest
<1>5. AccountStep(r) =>
        \/ LoadRow(r) \/ InsertBankAccount(r) \/ SetStatus(r)
        \/ InitiateVerification(r) \/ CompleteVerification(r)
  BY <1>1, <1>4 DEF AccountStep, SelectEmail, InsertMerchant, InsertUser, PatchMerchant,
                    SelectAccount, ConnectAccount, SelectSource, ConnectSource, InsertConnection,
                    At, BankNames
<1> QED
  BY <1>3, <1>5

LEMMA BankAccountsStep == BankAccountsInv /\ [Next]_vars => BankAccountsInv'
<1>1. ASSUME BankAccountsInv, Next PROVE BankAccountsInv'
  <2>1. CASE table = "bank_accounts"
    <3>1. PICK r \in Requests :
            \/ ArriveAccount(r) \/ LoadRow(r) \/ InsertBankAccount(r) \/ SetStatus(r)
            \/ InitiateVerification(r) \/ CompleteVerification(r) \/ Commit(r) \/ Abort(r)
      BY <1>1, <2>1, BankSteps
    <3> QED
      BY <1>1, <2>1, <3>1, BankArrives, BankLoads, BankAccountIsInserted, BankStatusIsSet,
         VerificationIsInitiated, VerificationIsCompleted, BankCommits, BankDies
  <2>2. CASE table # "bank_accounts"
    BY <1>1, <2>2, TableStays DEF BankAccountsInv
  <2> QED
    BY <2>1, <2>2
<1>2. ASSUME BankAccountsInv, UNCHANGED vars PROVE BankAccountsInv'
  <2>1. table' = table /\ rows' = rows /\ log' = log /\ pc' = pc /\ op' = op /\ seen' = seen /\ work' = work
        /\ answer' = answer
    BY <1>2 DEF vars
  <2>2. table = "bank_accounts" => Shaped' /\ RowsOK' /\ VerificationsAreWhole'
    BY <1>2, <2>1 DEF BankAccountsInv, Shaped, RowsOK, VerificationsAreWhole
  <2>3. table = "bank_accounts" => Audited'
    BY <1>2, <2>1 DEF BankAccountsInv, Audited, AuditedRequest, Audit
  <2>4. table = "bank_accounts" => \A q \in Requests : Own(q)'
    BY <1>2, <2>1 DEF BankAccountsInv, Own
  <2>5. table = "bank_accounts" => \A q \in Requests : BankRequest(q)'
    BY <1>2, <2>1 DEF BankAccountsInv, BankRequest, BankWork
  <2> QED
    BY <2>1, <2>2, <2>3, <2>4, <2>5 DEF BankAccountsInv
<1> QED
  BY <1>1, <1>2

LEMMA BankAccountsStart == Init => BankAccountsInv
<1> SUFFICES ASSUME Init, table = "bank_accounts" PROVE BankAccountsInv
  BY DEF BankAccountsInv
<1>1. RowsOK /\ Shaped /\ \A r \in Requests : Own(r) /\ pc[r] = "idle" /\ work[r] = NoWork /\ answer[r] = "none"
                                               /\ seen[r] = None
  BY InitialRowsOK
<1>2. \A r \in Requests : DOMAIN work[r].rows = {}
  BY <1>1 DEF NoWork, NoRows
<1>3. \A r \in Requests : BankRequest(r)
  BY <1>1, <1>2 DEF BankRequest
<1>4. VerificationsAreWhole
  <2>1. ASSUME NEW id \in DOMAIN rows PROVE rows[id].verification_status = "unverified"
    <3>1. Inserted("bank_accounts", rows[id])
      BY ServicesAssumption DEF Init
    <3> QED
      BY <3>1 DEF Inserted
  <2> QED
    BY <2>1 DEF VerificationsAreWhole
<1> QED
  BY <1>1, <1>3, <1>4, AuditedStart DEF BankAccountsInv

------------------------------------------------------------------------------
(***************************************************************************)
(* All services.                                                           *)
(***************************************************************************)

\* The invariants of the tables, one of which says something in a behaviour.
TablesInv ==
  /\ table \in DOMAIN Row /\ clock \in 0..MaxClock
  /\ AlertsInv /\ NotificationsInv /\ IncidentsInv
  /\ DirectoryInv /\ ConnectionsInv /\ BankAccountsInv

LEMMA TablesStart == Init => TablesInv
<1>1. Init => table \in DOMAIN Row /\ clock \in 0..MaxClock
  BY ServicesAssumption, NotificationsAssumption DEF Init, Idle
<1> QED
  BY <1>1, AlertsStart, NotificationsStart, IncidentsStart, DirectoryStart, ConnectionsStart, BankAccountsStart
     DEF TablesInv

LEMMA TablesStep == TablesInv /\ [Next]_vars => TablesInv'
<1> SUFFICES ASSUME TablesInv, [Next]_vars PROVE TablesInv'
  OBVIOUS
<1>1. table' = table /\ clock' \in 0..MaxClock
  <2>1. CASE Tick
    BY <2>1, NotificationsAssumption DEF Tick, TablesInv
  <2>2. CASE Next /\ ~Tick
    BY <2>2, OnlyTicks DEF TablesInv
  <2>3. CASE UNCHANGED vars
    BY <2>3 DEF vars, TablesInv
  <2> QED
    BY <2>1, <2>2, <2>3
<1>2. AlertsInv' /\ NotificationsInv' /\ IncidentsInv'
  BY AlertsStep, NotificationsStep, IncidentsStep DEF TablesInv
<1>3. DirectoryInv' /\ ConnectionsInv' /\ BankAccountsInv'
  BY DirectoryStep, ConnectionsStep, BankAccountsStep DEF TablesInv
<1> QED
  BY <1>1, <1>2, <1>3 DEF TablesInv

LEMMA TablesAreTyped == TablesInv => TypeOK
<1> SUFFICES ASSUME TablesInv PROVE TypeOK
  OBVIOUS
<1>1. table \in {"alerts", "notifications", "incidents", "directory", "connections", "bank_accounts"}
  BY DEF TablesInv, Row
<1>2. Shaped /\ RowsOK /\ \A r \in Requests : Own(r)
  <2>1. CASE table \in {"alerts", "notifications", "incidents"}
    BY <2>1 DEF TablesInv, AlertsInv, NotificationsInv, IncidentsInv
  <2>2. CASE table \in {"directory", "connections", "bank_accounts"}
    BY <2>2 DEF TablesInv, DirectoryInv, ConnectionsInv, BankAccountsInv
  <2> QED
    BY <1>1, <2>1, <2>2
<1>3. /\ table \in DOMAIN Row /\ clock \in 0..MaxClock
      /\ pc \in [Requests -> Statements] /\ answer \in [Requests -> Answers]
  BY <1>2 DEF TablesInv, Shaped
<1>4. /\ DOMAIN rows \subseteq AllIds
      /\ \A id \in DOMAIN rows : rows[id] \in Row[table] /\ rows[id].id = id
  BY <1>2 DEF RowsOK
<1>5. \A r \in Requests : /\ seen[r] \in Row[table] \cup {None}
                          /\ DOMAIN work[r].rows \subseteq DOMAIN rows \cup {r, Second(r)}
  BY <1>2 DEF Own
<1> QED
  BY <1>3, <1>4, <1>5 DEF TypeOK

\* Whatever the requests of a service do at once: every row has its type, an alert
\* counts no more occurrences than were raised, a notification is sent once and has
\* the attempts that were made, an incident that ended has the entry that ended it,
\* a verified bank account has its audit entry, and a request that was refused or
\* has died has left nothing (services/alert.py, notification.py, incident.py,
\* bank_account.py and the transaction of db.py's get_db).
THEOREM RecordsStayTrue == Spec => []RecordsAgree
<1>1. TablesInv => VerificationsAreWhole
  BY DEF TablesInv, BankAccountsInv, VerificationsAreWhole
<1>2. TablesInv => RefusedWroteNothing
  <2> SUFFICES ASSUME TablesInv, table \in {"directory", "connections", "bank_accounts"},
                      NEW r \in Requests, pc[r] = "done"
               PROVE IF answer[r] = "200" THEN Audit(r) \subseteq log
                     ELSE {r, Second(r)} \cap DOMAIN rows = {} /\ Audit(r) \cap log = {}
    BY DEF RefusedWroteNothing
  <2>1. Audited
    BY DEF TablesInv, DirectoryInv, ConnectionsInv, BankAccountsInv
  <2> QED
    BY <2>1 DEF Audited, AuditedRequest
<1>3. /\ TypeOK /\ OccurrencesWereRaised /\ SentOnce /\ AttemptsAreCounted /\ EndsAreLogged
      /\ VerificationsAreWhole /\ RefusedWroteNothing
      => RecordsAgree
  BY DEF RecordsAgree
<1> QED
  BY <1>1, <1>2, <1>3, TablesStart, TablesStep, TablesAreTyped, CountedWasRaised, AttemptsCounted,
     IncidentsTellAll, PTL DEF Spec

\* However many register, rename and connect at once, no two merchants and no two
\* users share a name, every user has its merchant, every registered merchant its
\* user, and the connections of an account make one data source (routes/auth.py,
\* routes/merchant.py, routes/providers.py).
THEOREM InsertionsAreWhole == Spec => []InsertedWhole
<1>1. TablesInv => RegistrationsAreWhole
  <2> SUFFICES ASSUME TablesInv, table = "directory" PROVE RegistrationsAreWhole
    BY DEF RegistrationsAreWhole
  <2>1. DirectoryIsWhole /\ RowsOK
    BY DEF TablesInv, DirectoryInv
  <2>2. \A row \in Rows("user") : row.merchant \in {m.id : m \in Rows("merchant")}
    <3> SUFFICES ASSUME NEW id \in DOMAIN rows, rows[id].kind = "user"
                 PROVE rows[id].merchant \in {m.id : m \in Rows("merchant")}
      BY DEF Rows
    <3>1. PICK i \in DOMAIN rows : i = rows[id].merchant /\ rows[i].kind = "merchant"
      BY <2>1 DEF DirectoryIsWhole
    <3>2. rows[i] \in Rows("merchant") /\ rows[i].id = i
      BY <2>1, <3>1 DEF Rows, RowsOK
    <3> QED
      BY <3>1, <3>2
  <2> QED
    BY <2>1, <2>2 DEF RegistrationsAreWhole, DirectoryIsWhole
<1>2. TablesInv => ConnectedOnce
  <2> SUFFICES ASSUME TablesInv, table = "connections",
                      NEW s \in Rows("source"), NEW t \in Rows("source"),
                      s.id \in FromConnections, t.id \in FromConnections, s.account = t.account
               PROVE s = t
    BY DEF ConnectedOnce, FromConnections
  <2>1. ConnectionsAreWhole /\ RowsOK
    BY DEF TablesInv, ConnectionsInv
  <2>2. PICK a, b \in DOMAIN rows : rows[a] = s /\ rows[b] = t /\ s.kind = "source" /\ t.kind = "source"
    BY DEF Rows
  <2>3. s.id = a /\ t.id = b
    BY <2>1, <2>2 DEF RowsOK
  <2> QED
    BY <2>1, <2>2, <2>3 DEF ConnectionsAreWhole
<1>3. TablesInv => InsertedWhole
  BY <1>1, <1>2 DEF InsertedWhole
<1> QED
  BY <1>3, TablesStart, TablesStep, PTL DEF Spec

\* A step of a request about accounts that commits nothing changes no row.
LEMMA AccountStirsOrCommits ==
  ASSUME TablesInv, table \in {"directory", "connections", "bank_accounts"}, Next
  PROVE \E r \in Requests : Stirs(r) \/ Commit(r)
<1>1. CASE table = "directory"
  <2>1. DirectoryInv
    BY DEF TablesInv
  <2>2. PICK r \in Requests :
          \/ ArriveAccount(r) \/ LoadRow(r) \/ SelectEmail(r) \/ InsertMerchant(r) \/ InsertUser(r)
          \/ PatchMerchant(r) \/ Commit(r) \/ Abort(r)
    BY <1>1, <2>1, DirectorySteps
  <2> QED
    BY <1>1, <2>1, <2>2, DirectoryArrives, DirectoryLoads, DirectoryFindsEmail, MerchantIsInserted,
       UserIsInserted, MerchantIsPatched, DirectoryDies
<1>2. CASE table = "connections"
  <2>1. ConnectionsInv
    BY DEF TablesInv
  <2>2. PICK r \in Requests :
          \/ ArriveAccount(r) \/ LoadRow(r) \/ SelectAccount(r) \/ ConnectAccount(r) \/ SelectSource(r)
          \/ ConnectSource(r) \/ InsertConnection(r) \/ SetStatus(r) \/ Commit(r) \/ Abort(r)
    BY <1>2, <2>1, ConnectionSteps
  <2> QED
    BY <1>2, <2>1, <2>2, ConnectionArrives, ConnectionLoads, AccountIsSelected, AccountIsConnected,
       SourceIsSelected, SourceIsConnected, ConnectionIsInserted, ConnectionStatusIsSet, ConnectionDies
<1>3. CASE table = "bank_accounts"
  <2>1. BankAccountsInv
    BY DEF TablesInv
  <2>2. PICK r \in Requests :
          \/ ArriveAccount(r) \/ LoadRow(r) \/ InsertBankAccount(r) \/ SetStatus(r)
          \/ InitiateVerification(r) \/ CompleteVerification(r) \/ Commit(r) \/ Abort(r)
    BY <1>3, <2>1, BankSteps
  <2> QED
    BY <1>3, <2>1, <2>2, BankArrives, BankLoads, BankAccountIsInserted, BankStatusIsSet,
       VerificationIsInitiated, VerificationIsCompleted, BankDies
<1> QED
  BY <1>1, <1>2, <1>3

\* No row changes without its entry: an incident's status and severity are those its
\* log tells of (services/incident.py), and a row about a client is committed with the
\* audit entry of the request that changed it (routes/auth.py, merchant.py,
\* providers.py, data_sources.py, bank_accounts.py).
THEOREM NoSilentChange == Spec => ChangesAreLogged
<1> DEFINE Told == rows' # rows /\ table \in {"directory", "connections", "bank_accounts"} =>
             \E r \in Requests : pc[r] # "idle" /\ Audit(r) \cap log = {} /\ log' = log \cup Audit(r)
<1>1. TablesInv /\ [Next]_vars => [Told]_vars
  <2> SUFFICES ASSUME TablesInv, Next, rows' # rows, table \in {"directory", "connections", "bank_accounts"}
               PROVE Told
    OBVIOUS
  <2>1. PICK r \in Requests : Commit(r)
    BY AccountStirsOrCommits DEF Stirs
  <2>2. Shaped /\ Audited /\ \A q \in Requests : Own(q)
    BY DEF TablesInv, DirectoryInv, ConnectionsInv, BankAccountsInv
  <2>3. Audit(r) \cap log = {} /\ log' = log \cup Audit(r)
    BY <2>1, <2>2, AuditedCommits
  <2>4. pc[r] = "commit"
    BY <2>1 DEF Commit
  <2> QED
    BY <2>3, <2>4
<1>2. Spec => [][Told]_vars
  BY <1>1, TablesStart, TablesStep, PTL DEF Spec
<1>3. Spec => ChangesAreAudited
  BY <1>2 DEF ChangesAreAudited
<1> QED
  BY <1>3, IncidentsTellAll DEF ChangesAreLogged

==============================================================================
