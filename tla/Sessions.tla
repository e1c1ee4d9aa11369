------------------------------- MODULE Sessions -------------------------------
(***************************************************************************)
(* Requests that read and write the rows of one table through the ORM, as  *)
(* db.py's get_db runs them: one transaction for each request, READ        *)
(* COMMITTED, one step per SQL statement.  The services of Services.tla    *)
(* are sets of such requests.                                              *)
(***************************************************************************)
EXTENDS Naturals, FiniteSets, TLC

CONSTANTS
  Requests,  \* calls of a service; a request that inserts a row gives it its name
  Old,       \* the identities of the rows that are there before
  None

VARIABLES
  table,     \* the table the requests use
  rows,      \* its committed rows, by identity
  log,       \* committed rows of the table's log, which are only inserted
  clock,     \* the time
  pc,        \* the statement each request executes next
  op,        \* what each request is to do
  seen,      \* the row each request has loaded
  work,      \* the columns and log rows each request has written and not committed
  answer     \* how each request was answered

vars == <<table, rows, log, clock, pc, op, seen, work, answer>>
committed == <<table, rows, log, clock>>

Ids == Requests \cup Old

ASSUME SessionsAssumption == None \notin Ids /\ Requests \cap Old = {}

NoRows == [id \in {} |-> None]

\* One row under its identity; what is given first, and for the rest the second.
Single(id, row) == [i \in {id} |-> row]
Over(first, second) ==
  [i \in DOMAIN first \cup DOMAIN second |-> IF i \in DOMAIN first THEN first[i] ELSE second[i]]

NoWork == [rows |-> NoRows, log |-> {}]

Idle ==
  /\ log = {}
  /\ clock = 0
  /\ pc = [r \in Requests |-> "idle"]
  /\ op = [r \in Requests |-> None]
  /\ seen = [r \in Requests |-> None]
  /\ work = [r \in Requests |-> NoWork]
  /\ answer = [r \in Requests |-> "none"]

Arrive(r, operation, statement) ==
  /\ pc[r] = "idle"
  /\ op' = [op EXCEPT ![r] = operation]
  /\ pc' = [pc EXCEPT ![r] = statement]
  /\ UNCHANGED <<committed, seen, work, answer>>

\* r executes a statement of an operation of this name.
At(r, statement, name) == pc[r] = statement /\ op[r].name = name

Goto(r, statement) ==
  pc' = [pc EXCEPT ![r] = statement] /\ UNCHANGED <<committed, op>>

\* The request is over; its transaction has ended and its locks are free.
End(r, status) ==
  /\ pc' = [pc EXCEPT ![r] = "done"]
  /\ work' = [work EXCEPT ![r] = NoWork]
  /\ answer' = [answer EXCEPT ![r] = status]
  /\ UNCHANGED <<table, clock, op, seen>>

Discard(r, status) == End(r, status) /\ UNCHANGED <<rows, log>>

\* A select takes any one of the rows it matches.
Select(r, found, statement) ==
  /\ Goto(r, statement)
  /\ \E row \in (IF found = {} THEN {None} ELSE found) : seen' = [seen EXCEPT ![r] = row]
  /\ UNCHANGED <<work, answer>>

\* A select by identity, answered 404 when there is no such row.
SelectById(r, id) ==
  IF id \in DOMAIN rows THEN Select(r, {rows[id]}, "write") ELSE Discard(r, "404")

\* The flush of a new row, and of the log rows that go with it.
InsertAs(r, id, row, entries) ==
  work' = [work EXCEPT ![r] = [rows |-> Over(Single(id, [row EXCEPT !.id = id]), @.rows),
                               log |-> @.log \cup entries]]

Insert(r, row, entries) == InsertAs(r, r, row, entries)

\* No other request has an uncommitted update of the row.
Free(r, id) == \A q \in Requests \ {r} : id \notin DOMAIN work[q].rows

\* Altered form: every column is written.
WrittenAll(loaded, columns) == Over(columns, loaded)

\* The columns a flush writes: those whose value differs from the one loaded.
Written(loaded, columns) ==
  [c \in {d \in DOMAIN columns : columns[d] # loaded[d]} |-> columns[c]]

\* The flush of the changes to the row r has loaded, and of its log rows; without
\* a changed column there is no UPDATE and no row lock.
Update(r, columns, entries) ==
  LET id == seen[r].id
      written == Written(seen[r], columns)
      before == IF id \in DOMAIN work[r].rows THEN work[r].rows[id] ELSE NoRows
  IN IF DOMAIN written = {}
     THEN work' = [work EXCEPT ![r].log = @ \cup entries]
     ELSE /\ Free(r, id)
          /\ work' = [work EXCEPT ![r] = [rows |-> Over(Single(id, Over(written, before)), @.rows),
                                         log |-> @.log \cup entries]]

\* The rows with what a request has written; the other columns of a row keep what
\* others wrote to them.
Merged(written) ==
  [id \in DOMAIN rows \cup DOMAIN written |->
     IF id \in DOMAIN rows /\ id \in DOMAIN written THEN Over(written[id], rows[id])
     ELSE Over(written, rows)[id]]

\* Altered form: the log is written first and by itself.
CommitLate(r) ==
  /\ pc[r] = "commit"
  /\ IF work[r].log \subseteq log
     THEN /\ End(r, IF answer[r] = "none" THEN "200" ELSE answer[r])
          /\ rows' = Merged(work[r].rows)
          /\ UNCHANGED log
     ELSE log' = log \cup work[r].log /\ UNCHANGED <<table, rows, clock, pc, op, seen, work, answer>>

\* Everything r has written becomes visible at once.
Commit(r) ==
  /\ pc[r] = "commit"
  /\ End(r, IF answer[r] = "none" THEN "200" ELSE answer[r])
  /\ rows' = Merged(work[r].rows)
  /\ log' = log \cup work[r].log

\* The process or its connection dies before the commit.
Abort(r) == pc[r] \notin {"idle", "done"} /\ Discard(r, "lost")
==============================================================================
