---------------------------- MODULE BankStatements ----------------------------
(***************************************************************************)
(* The bank statements of one merchant (the merchant is part of every hash *)
(* and of every query): their import and their reconciliation with the     *)
(* transactions that arrive (routes/bank_statements.py, services/          *)
(* bank_statement.py), in concurrent requests, one step per SQL statement  *)
(* at READ COMMITTED.                                                      *)
(***************************************************************************)
EXTENDS Integers, Sequences, SequencesExt, FiniteSets, Relation

CONSTANTS
  Requests,     \* HTTP requests
  Currencies,
  None,
  Window,       \* the days a payment without a reference may be off (7)
  Payments,     \* the transactions that may be recorded
  Files         \* the files that may be uploaded

VARIABLES
  transactions, \* committed transactions
  entries,      \* committed bank_statement_entries
  imports,      \* committed bank_statement_imports
  results,      \* committed bank_statement_reconciliations, by the request that made them
  pc,           \* the statement each request executes next
  input,        \* what each request asks for
  work,         \* what each request has read and written and not committed
  answer        \* how each request was answered

vars == <<transactions, entries, imports, results, pc, input, work, answer>>
tables == <<transactions, entries, imports, results>>

\* An amount as the file writes it, in minor units; it is short when the double
\* nearest to it, times a hundred, is below it (19.99 is: it becomes 1998).
Amount == [minor : Int, short : BOOLEAN]

\* A row of a file, read loosely: `described` and `dated` say whether a description
\* and a date were found, `finite` whether the amounts are, and the database
\* refuses what the import keeps of a row that is not `storable` (an amount beyond
\* its column, a text too long, a date cell, which JSON cannot hold).
RawRow == [described : BOOLEAN, dated : BOOLEAN, finite : BOOLEAN, storable : BOOLEAN,
           debit : Amount \cup {None}, credit : Amount \cup {None},
           reference : Nat \cup {None}, currency : Currencies, day : Int]

File == [type : {"csv", "xlsx"}, intact : BOOLEAN, rows : Seq(RawRow)]

Payment == [id : Nat, refs : SUBSET Nat, amount : Int, currency : Currencies, day : Int \cup {None}]

ASSUME BankStatementsAssumption ==
  /\ None \notin Int \cup Requests
  /\ Window \in Nat
  /\ Payments \subseteq Payment
  /\ Files \subseteq File

------------------------------------------------------------------------------
(***************************************************************************)
(* normalize_row and the hash.                                             *)
(***************************************************************************)

\* int(float(text) * 100) cuts towards zero; what is no number is zero.
ParseAmount(a) ==
  IF a = None THEN 0
  ELSE IF ~a.short THEN a.minor
  ELSE IF a.minor > 0 THEN a.minor - 1 ELSE a.minor + 1

Readable(raw) == raw.described /\ raw.dated /\ raw.finite

\* What is hashed of a row, which stands for its hash.
Normalized(raw) ==
  [debit |-> ParseAmount(raw.debit), credit |-> ParseAmount(raw.credit),
   reference |-> raw.reference, currency |-> raw.currency, day |-> raw.day]

\* Python's `credit or debit`.
Moved(hash) == IF hash.credit # 0 THEN hash.credit ELSE hash.debit

\* The query of reconcile_entry: by reference, or by amount and date if there is
\* an amount.
Matches(hash, t) ==
  /\ t.currency = hash.currency
  /\ IF hash.reference # None THEN hash.reference \in t.refs
     ELSE Moved(hash) # 0 =>
            /\ t.amount = Moved(hash)
            /\ t.day # None /\ t.day \in hash.day - Window..hash.day + Window

------------------------------------------------------------------------------
Idle == [at |-> 1, pending |-> {}, rows |-> {}, processed |-> 0, failed |-> 0,
         queue |-> <<>>, results |-> {}]

Init ==
  /\ transactions = {}
  /\ entries = {}
  /\ imports = {}
  /\ results = {}
  /\ pc = [r \in Requests |-> "idle"]
  /\ input = [r \in Requests |-> None]
  /\ work = [r \in Requests |-> Idle]
  /\ answer = [r \in Requests |-> "none"]

Goto(r, statement) == pc' = [pc EXCEPT ![r] = statement] /\ UNCHANGED <<tables, input, answer>>

End(r, status) ==
  /\ pc' = [pc EXCEPT ![r] = "done"]
  /\ work' = [work EXCEPT ![r] = Idle]
  /\ answer' = [answer EXCEPT ![r] = status]
  /\ UNCHANGED input

\* The transaction ends and keeps nothing.
Discard(r, status) == End(r, status) /\ UNCHANGED tables

\* A webhook or a sync records a transaction.
Record ==
  /\ \E t \in Payments \ transactions : transactions' = transactions \cup {t}
  /\ UNCHANGED <<entries, imports, results, pc, input, work, answer>>

------------------------------------------------------------------------------
(***************************************************************************)
(* The import: nothing is caught, so a statement that fails ends it.       *)
(***************************************************************************)
ArriveImport(r) ==
  /\ pc[r] = "idle"
  /\ \E file \in Files : input' = [input EXCEPT ![r] = [kind |-> "import", file |-> file]]
  /\ pc' = [pc EXCEPT ![r] = "import"]
  /\ UNCHANGED <<tables, work, answer>>

RowsOf(r) == input[r].file.rows

\* Only a spreadsheet can be broken: the import is kept as failed.
ImportOf(r, status) ==
  [id |-> r, total |-> IF input[r].file.intact THEN Len(RowsOf(r)) ELSE 0,
   processed |-> work[r].processed, failed |-> work[r].failed, status |-> status]

ParseFails(r) ==
  /\ pc[r] = "import" /\ ~input[r].file.intact
  /\ \E status \in {"201", "lost"} : End(r, status)
  /\ imports' = imports \cup {ImportOf(r, "failed")}
  /\ UNCHANGED <<transactions, entries, results>>

Importing(r) ==
  pc[r] = "import" /\ input[r].file.intact /\ work[r].pending = {} /\ work[r].at <= Len(RowsOf(r))

RowAt(r) == RowsOf(r)[work[r].at]

FailRow(r) ==
  /\ Importing(r) /\ ~Readable(RowAt(r))
  /\ Goto(r, "import")
  /\ work' = [work EXCEPT ![r].at = @ + 1, ![r].failed = @ + 1]

Taking(r, there) ==
  /\ Importing(r) /\ Readable(RowAt(r))
  /\ Goto(r, "import")
  /\ work' = [work EXCEPT ![r].at = @ + 1, ![r].processed = @ + 1,
                ![r].pending = IF there THEN {}
                               ELSE {[id |-> <<r, work[r].at>>, hash |-> Normalized(RowAt(r)),
                                      storable |-> RowAt(r).storable]}]

HashesOf(rows) == {e.hash : e \in rows}

\* Altered form: the rows of other imports count before they are committed.
TakeRowDirty(r) ==
  Taking(r, Normalized(RowAt(r)) \in HashesOf(entries \cup UNION {work[q].rows : q \in Requests}))

\* The select by hash: a row that is there is counted and not stored again.
TakeRow(r) == Taking(r, Normalized(RowAt(r)) \in HashesOf(entries \cup work[r].rows))

\* r waits for q to commit or roll back a row of the same hash.
WaitsFor(r, q) ==
  /\ r # q
  /\ pc[r] = "import"
  /\ \E e \in work[r].pending :
       e.storable /\ e.hash \in HashesOf(work[q].rows) \ HashesOf(entries)

Inserting(r, e) ==
  /\ Goto(r, "import")
  /\ work' = [work EXCEPT ![r].pending = {}, ![r].rows = @ \cup {[id |-> e.id, hash |-> e.hash]}]

\* Altered forms: no unique index on the hash; every row is committed by itself; a
\* row that is there is waited for.
InsertEntryUnindexed(r) == pc[r] = "import" /\ \E e \in work[r].pending : Inserting(r, e)

InsertEntryCommitting(r) ==
  /\ pc[r] = "import"
  /\ \E e \in work[r].pending :
       /\ e.storable /\ e.hash \notin HashesOf(entries)
       /\ entries' = entries \cup {[id |-> e.id, hash |-> e.hash]}
  /\ work' = [work EXCEPT ![r].pending = {}]
  /\ UNCHANGED <<transactions, imports, results, pc, input, answer>>

InsertEntryPatient(r) ==
  /\ pc[r] = "import"
  /\ \A q \in Requests : ~WaitsFor(r, q)
  /\ \E e \in work[r].pending : e.hash \notin HashesOf(entries) /\ Inserting(r, e)

\* The row is inserted by the flush before the next select, or by the last one,
\* under the unique index on the hash.
InsertEntry(r) ==
  /\ pc[r] = "import"
  /\ \E e \in work[r].pending :
       IF ~e.storable \/ e.hash \in HashesOf(entries)
       THEN Discard(r, "500")
       ELSE (\A q \in Requests : ~WaitsFor(r, q)) /\ Inserting(r, e)

ImportStatus(r) ==
  IF work[r].failed = 0 \/ work[r].processed > 0 THEN "completed" ELSE "failed"

\* The rows that failed are kept with the import, in its error_summary.
FinishImport(r) ==
  /\ pc[r] = "import" /\ input[r].file.intact
  /\ work[r].pending = {} /\ work[r].at > Len(RowsOf(r))
  /\ IF \E k \in DOMAIN RowsOf(r) : ~Readable(RowsOf(r)[k]) /\ ~RowsOf(r)[k].storable
     THEN Discard(r, "500")
     ELSE /\ \E status \in {"201", "lost"} : End(r, status)
          /\ entries' = entries \cup work[r].rows
          /\ imports' = imports \cup {ImportOf(r, ImportStatus(r))}
          /\ UNCHANGED <<transactions, results>>

------------------------------------------------------------------------------
(***************************************************************************)
(* The reconciliation of an import.                                        *)
(***************************************************************************)
ArriveReconcile(r) ==
  /\ pc[r] = "idle"
  /\ \E q \in Requests : input' = [input EXCEPT ![r] = [kind |-> "reconcile", import |-> q]]
  /\ pc' = [pc EXCEPT ![r] = "load_import"]
  /\ UNCHANGED <<tables, work, answer>>

EntriesOf(i) == {e \in entries : e.id[1] = i}

LoadImport(r) ==
  /\ pc[r] = "load_import"
  /\ IF \E i \in imports : i.id = input[r].import
     THEN Goto(r, "load_entries") /\ UNCHANGED work
     ELSE Discard(r, "404")

LoadEntries(r) ==
  /\ pc[r] = "load_entries"
  /\ Goto(r, "reconcile")
  /\ \E q \in SetToSeqs(EntriesOf(input[r].import)) : work' = [work EXCEPT ![r].queue = q]

Reconciling(r) == pc[r] = "reconcile" /\ work[r].queue # <<>>

\* Altered form: an entry with no transaction is left out.
ReconcileEntryFound(r) ==
  LET entry == Head(work[r].queue)
      found == {t \in transactions : Matches(entry.hash, t)} IN
  /\ Reconciling(r)
  /\ Goto(r, "reconcile")
  /\ \E t \in (IF found = {} THEN {None} ELSE found) :
       work' = [work EXCEPT ![r].queue = Tail(@),
                  ![r].results = IF t = None THEN @ ELSE @ \cup {[by |-> r, entry |-> entry, txn |-> t]}]

\* limit(1) takes any transaction that matches.
ReconcileEntry(r) ==
  LET entry == Head(work[r].queue)
      found == {t \in transactions : Matches(entry.hash, t)} IN
  /\ Reconciling(r)
  /\ Goto(r, "reconcile")
  /\ \E t \in (IF found = {} THEN {None} ELSE found) :
       work' = [work EXCEPT ![r].queue = Tail(@),
                  ![r].results = @ \cup {[by |-> r, entry |-> entry, txn |-> t]}]

FinishReconcile(r) ==
  /\ pc[r] = "reconcile" /\ work[r].queue = <<>>
  /\ \E status \in {"200", "lost"} : End(r, status)
  /\ results' = results \cup work[r].results
  /\ UNCHANGED <<transactions, entries, imports>>

------------------------------------------------------------------------------
InCycle(r) == TransitiveClosure([p, q \in Requests |-> WaitsFor(p, q)], Requests)[r, r]

BreakDeadlock(r) ==
  /\ pc[r] = "import" /\ InCycle(r)
  /\ Discard(r, "500")

\* The process or its connection dies.
Abort(r) == pc[r] \notin {"idle", "done"} /\ Discard(r, "lost")

Step(r) ==
  \/ ParseFails(r) \/ FailRow(r) \/ TakeRow(r) \/ InsertEntry(r) \/ FinishImport(r)
  \/ LoadImport(r) \/ LoadEntries(r) \/ ReconcileEntry(r) \/ FinishReconcile(r)
  \/ BreakDeadlock(r)

Next ==
  \/ Record
  \/ \E r \in Requests : ArriveImport(r) \/ ArriveReconcile(r) \/ Step(r) \/ Abort(r)

Spec == Init /\ [][Next]_vars

\* The event loop resumes a request when the database answers, and the database
\* answers or breaks the deadlock.
FairSpec == Spec /\ \A r \in Requests : WF_vars(Step(r))

------------------------------------------------------------------------------
(***************************************************************************)
(* Properties.                                                             *)
(***************************************************************************)
Hash == [debit : Int, credit : Int, reference : Nat \cup {None}, currency : Currencies, day : Int]
Entry == [id : Requests \X Nat, hash : Hash]

\* Every variable has its type.
TypeOK ==
  /\ transactions \subseteq Payments
  /\ entries \subseteq Entry
  /\ imports \subseteq [id : Requests, total : Nat, processed : Nat, failed : Nat,
                       status : {"completed", "failed"}]
  /\ results \subseteq [by : Requests, entry : Entry, txn : Payments \cup {None}]
  /\ pc \in [Requests -> {"idle", "import", "load_import", "load_entries", "reconcile", "done"}]
  /\ answer \in [Requests -> {"none", "200", "201", "404", "500", "lost"}]

\* A line of a statement is stored once, however often and by how many requests at
\* once the statement is uploaded.
UploadsAreIdempotent ==
  \A e, f \in entries : e.hash = f.hash => e = f

\* An import accounts for every row of its file: those it could not read have
\* failed, the others are processed, and it says it failed only when none was.
ImportsAddUp ==
  \A i \in imports :
    LET file == input[i.id].file IN
    file.intact =>
      /\ i.total = i.processed + i.failed
      /\ i.processed = Cardinality({k \in DOMAIN file.rows : Readable(file.rows[k])})
      /\ i.status = "failed" <=> i.processed = 0 /\ i.total > 0

\* A line an import has processed is in the table, be it by another import that
\* ran meanwhile and might have been rolled back.
ProcessedRowsAreStored ==
  \A i \in imports :
    LET file == input[i.id].file IN
    file.intact => \A k \in DOMAIN file.rows :
      Readable(file.rows[k]) => Normalized(file.rows[k]) \in HashesOf(entries)

\* An import that was refused or died has left no line behind.
EntriesHaveTheirImport ==
  \A e \in entries : \E i \in imports : i.id = e.id[1]

\* A reconciliation judges each line of its import once and no other line.
ReconciliationsAreComplete ==
  \A r \in Requests : answer[r] = "200" =>
    LET mine == {x \in results : x.by = r} IN
    /\ {x.entry : x \in mine} = EntriesOf(input[r].import)
    /\ Cardinality(mine) = Cardinality(EntriesOf(input[r].import))

\* Uploads of the same lines in different orders, which wait for one another, are
\* all answered.
EveryRequestEnds == \A r \in Requests : pc[r] # "idle" ~> pc[r] = "done"

\* The reports of imports and reconciliations account for every row and entry.
ReportsAreExact == TypeOK /\ ImportsAddUp /\ ReconciliationsAreComplete
==============================================================================
