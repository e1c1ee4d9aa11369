------------------------- MODULE BankStatementsProofs -------------------------
(***************************************************************************)
(* Proof that, whatever is uploaded by however many requests at once, a    *)
(* line is stored once, with the import that stored it, an import finds    *)
(* every line it has processed in the table, and what imports and          *)
(* reconciliations report is exact.                                        *)
(***************************************************************************)
EXTENDS BankStatements, CollectionLemmas

\* The line with this hash is in the table, or r has inserted it or is about to.
Covered(r, hash) == hash \in HashesOf(entries) \/ hash \in HashesOf(work[r].rows \cup work[r].pending)

\* What holds of one request, alone: the rows it has inserted are its own, each hash
\* once and none in the table, and it has dealt with the rows before the next one.
RequestOK(r) ==
  /\ DOMAIN work[r] = DOMAIN Idle
  /\ work[r].at \in Nat
  /\ pc[r] = "idle" => work[r] = Idle
  /\ pc[r] = "import" => input[r].file \in Files
  /\ \A e \in work[r].rows : e.id[1] = r /\ e.hash \notin HashesOf(entries)
  /\ \A e, f \in work[r].rows : e.hash = f.hash => e = f
  /\ \A e \in work[r].pending : e.id[1] = r /\ e.hash \notin HashesOf(work[r].rows)
  /\ \A e, f \in work[r].pending : e = f
  /\ pc[r] = "import" => \A k \in DOMAIN RowsOf(r) :
       k < work[r].at /\ Readable(RowsOf(r)[k]) => Covered(r, Normalized(RowsOf(r)[k]))

\* The inductive invariant: besides, no two requests have inserted the same hash.
IInv ==
  /\ DOMAIN pc = Requests /\ DOMAIN work = Requests /\ DOMAIN input = Requests
  /\ UploadsAreIdempotent
  /\ EntriesHaveTheirImport
  /\ ProcessedRowsAreStored
  /\ \A i \in imports : i.id \in Requests /\ pc[i.id] = "done"
  /\ \A r \in Requests : RequestOK(r)
  /\ \A q, r \in Requests : q # r => HashesOf(work[q].rows) \cap HashesOf(work[r].rows) = {}

------------------------------------------------------------------------------
\* A file's rows are a sequence.
LEMMA RowsAreASequence ==
  ASSUME NEW r, input[r].file \in Files
  PROVE  Len(RowsOf(r)) \in Nat /\ DOMAIN RowsOf(r) = 1..Len(RowsOf(r))
BY BankStatementsAssumption DEF File, RowsOf

\* A step of r that commits nothing keeps the invariant if what it leaves of r
\* satisfies it.
LEMMA StepOfOne ==
  ASSUME IInv, NEW r \in Requests, pc[r] # "done",
         UNCHANGED <<entries, imports>>,
         DOMAIN pc' = Requests, DOMAIN work' = Requests, DOMAIN input' = Requests,
         \A q \in Requests \ {r} : work'[q] = work[q] /\ pc'[q] = pc[q] /\ input'[q] = input[q],
         RequestOK(r)',
         \A q \in Requests \ {r} : HashesOf(work'[r].rows) \cap HashesOf(work[q].rows) = {}
  PROVE  IInv'
  <1>1. \A i \in imports' : i.id \in Requests /\ i.id # r /\ pc'[i.id] = "done"
    BY DEF IInv
  <1>2. ProcessedRowsAreStored'
    BY <1>1 DEF IInv, ProcessedRowsAreStored
  <1>3. EntriesHaveTheirImport' /\ UploadsAreIdempotent'
    BY DEF IInv, EntriesHaveTheirImport, UploadsAreIdempotent
  <1>4. ASSUME NEW q \in Requests \ {r} PROVE RequestOK(q)'
    <2>1. RequestOK(q) /\ work'[q] = work[q] /\ pc'[q] = pc[q] /\ input'[q] = input[q]
      BY DEF IInv
    <2>2. QED BY <2>1 DEF RequestOK, Covered, RowsOf, HashesOf
  <1>5. \A p, q \in Requests : p # q => HashesOf(work'[p].rows) \cap HashesOf(work'[q].rows) = {}
    BY DEF IInv
  <1>6. QED BY <1>1, <1>2, <1>3, <1>4, <1>5 DEF IInv, HashesOf

\* A request that has ended holds nothing.
LEMMA EndedIsOK ==
  ASSUME IInv, NEW r \in Requests, NEW status, End(r, status)
  PROVE  /\ work'[r] = Idle /\ pc'[r] = "done"
         /\ DOMAIN pc' = Requests /\ DOMAIN work' = Requests /\ DOMAIN input' = Requests
         /\ \A q \in Requests \ {r} : work'[q] = work[q] /\ pc'[q] = pc[q] /\ input'[q] = input[q]
         /\ RequestOK(r)'
         /\ HashesOf(work'[r].rows) = {}
  <1>1. Idle.rows = {} /\ Idle.pending = {} /\ Idle.at = 1
    BY DEF Idle
  <1>2. work'[r] = Idle /\ pc'[r] = "done"
    BY DEF IInv, End
  <1>3. /\ DOMAIN pc' = Requests /\ DOMAIN work' = Requests /\ DOMAIN input' = Requests
        /\ \A q \in Requests \ {r} : work'[q] = work[q] /\ pc'[q] = pc[q] /\ input'[q] = input[q]
    BY DEF IInv, End
  <1>4. RequestOK(r)'
    BY <1>1, <1>2 DEF RequestOK
  <1>5. HashesOf(work'[r].rows) = {}
    BY <1>1, <1>2 DEF HashesOf
  <1>6. QED BY <1>2, <1>3, <1>4, <1>5

\* A request that ends and stores no line keeps the invariant.
LEMMA EndKeepsIInv ==
  ASSUME IInv, NEW r \in Requests, pc[r] # "done", NEW status, End(r, status),
         UNCHANGED <<entries, imports>>
  PROVE  IInv'
BY EndedIsOK, StepOfOne

\* So does an import that ends with what it has inserted, or nothing, if every
\* readable row of its file is in the table then.
LEMMA CommitKeepsIInv ==
  ASSUME IInv, NEW r \in Requests, pc[r] # "done", NEW status, End(r, status),
         NEW rows \in {{}, work[r].rows}, entries' = entries \cup rows,
         NEW i, i.id = r, imports' = imports \cup {i},
         input[r].file.intact => \A k \in DOMAIN RowsOf(r) :
           Readable(RowsOf(r)[k]) => Normalized(RowsOf(r)[k]) \in HashesOf(entries \cup rows)
  PROVE  IInv'
  <1>1. /\ rows \subseteq work[r].rows
        /\ RequestOK(r)
    BY DEF IInv
  <1>2. UploadsAreIdempotent'
    BY <1>1 DEF IInv, UploadsAreIdempotent, RequestOK, HashesOf
  <1>3. EntriesHaveTheirImport'
    BY <1>1 DEF IInv, EntriesHaveTheirImport, RequestOK
  <1>4. input' = input
    BY DEF End
  <1>5. ProcessedRowsAreStored'
    <2>1. SUFFICES ASSUME NEW j \in imports', input'[j.id].file.intact,
                          NEW k \in DOMAIN input'[j.id].file.rows,
                          Readable(input'[j.id].file.rows[k])
                   PROVE  Normalized(input'[j.id].file.rows[k]) \in HashesOf(entries')
      BY DEF ProcessedRowsAreStored, HashesOf
    <2>2. CASE j \in imports
      <3>1. Normalized(input[j.id].file.rows[k]) \in HashesOf(entries)
        BY <1>4, <2>1, <2>2 DEF IInv, ProcessedRowsAreStored
      <3>2. QED BY <1>4, <3>1 DEF HashesOf
    <2>3. CASE j = i
      BY <1>4, <2>1, <2>3 DEF RowsOf
    <2>4. QED BY <2>2, <2>3
  <1>6. \A j \in imports' : j.id \in Requests /\ pc'[j.id] = "done"
    BY EndedIsOK DEF IInv
  <1>7. ASSUME NEW q \in Requests \ {r} PROVE RequestOK(q)'
    <2>1. RequestOK(q) /\ work'[q] = work[q] /\ pc'[q] = pc[q] /\ input'[q] = input[q]
      BY EndedIsOK DEF IInv
    <2>2. HashesOf(work[q].rows) \cap HashesOf(work[r].rows) = {}
      BY DEF IInv
    <2>3. ASSUME NEW e \in work[q].rows PROVE e.id[1] = q /\ ~(\E f \in entries' : f.hash = e.hash)
      <3>1. e.id[1] = q /\ ~(\E f \in entries : f.hash = e.hash)
        BY <2>1 DEF RequestOK, HashesOf
      <3>2. ~(\E f \in work[r].rows : f.hash = e.hash)
        BY <2>2 DEF HashesOf
      <3>3. QED BY <1>1, <3>1, <3>2
    <2>4. \A hash : Covered(q, hash) => Covered(q, hash)'
      BY <2>1 DEF Covered, HashesOf
    <2>5. /\ \A e \in work'[q].rows : e.id[1] = q /\ e.hash \notin HashesOf(entries)'
          /\ \A e \in work'[q].pending : e.id[1] = q /\ e.hash \notin HashesOf(work[q].rows)'
      BY <2>1, <2>3 DEF RequestOK, HashesOf
    <2>6. (pc[q] = "import" => \A k \in DOMAIN RowsOf(q) :
             k < work[q].at /\ Readable(RowsOf(q)[k]) => Covered(q, Normalized(RowsOf(q)[k])))'
      BY <2>1, <2>4 DEF RequestOK, RowsOf
    <2>7. (/\ DOMAIN work[q] = DOMAIN Idle
           /\ work[q].at \in Nat
           /\ pc[q] = "idle" => work[q] = Idle
           /\ pc[q] = "import" => input[q].file \in Files
           /\ \A e, f \in work[q].rows : e.hash = f.hash => e = f
           /\ \A e, f \in work[q].pending : e = f)'
      BY <2>1 DEF RequestOK
    <2>8. QED BY <2>5, <2>6, <2>7 DEF RequestOK
  <1>8. \A p, q \in Requests : p # q => HashesOf(work'[p].rows) \cap HashesOf(work'[q].rows) = {}
    <2>1. /\ HashesOf(work'[r].rows) = {}
          /\ \A q \in Requests \ {r} : work'[q] = work[q]
      BY EndedIsOK
    <2>2. QED BY <2>1 DEF IInv
  <1>9. RequestOK(r)' /\ DOMAIN pc' = Requests /\ DOMAIN work' = Requests /\ DOMAIN input' = Requests
    BY EndedIsOK
  <1>10. QED BY <1>2, <1>3, <1>5, <1>6, <1>7, <1>8, <1>9 DEF IInv, HashesOf

------------------------------------------------------------------------------
\* What every step of r that does not end it leaves as it was.
Frame(r) ==
  /\ UNCHANGED <<entries, imports, input>>
  /\ DOMAIN pc' = Requests /\ DOMAIN work' = Requests
  /\ \A q \in Requests \ {r} : work'[q] = work[q] /\ pc'[q] = pc[q]
  /\ DOMAIN work'[r] = DOMAIN Idle

\* The steps that do not touch the rows of r keep the invariant.
LEMMA ReadKeepsIInv ==
  ASSUME IInv, NEW r \in Requests, pc[r] # "done", Frame(r),
         pc'[r] \notin {"idle", "import"},
         work'[r].at = work[r].at, work'[r].rows = work[r].rows, work'[r].pending = work[r].pending
  PROVE  IInv'
  <1>1. RequestOK(r)
    BY DEF IInv
  <1>2. RequestOK(r)'
    BY <1>1 DEF RequestOK, Frame, HashesOf
  <1>3. \A q \in Requests \ {r} : HashesOf(work'[r].rows) \cap HashesOf(work[q].rows) = {}
    BY DEF IInv
  <1>4. QED BY <1>2, <1>3, StepOfOne DEF Frame, IInv

\* So does a row that could not be read.
LEMMA FailRowKeepsIInv ==
  ASSUME IInv, NEW r \in Requests, FailRow(r)
  PROVE  IInv'
  <1>1. RequestOK(r) /\ pc[r] = "import" /\ input[r].file \in Files
    BY DEF IInv, RequestOK, FailRow, Importing
  <1>2. /\ Frame(r) /\ pc'[r] = "import" /\ work'[r].at = work[r].at + 1
        /\ work'[r].rows = work[r].rows /\ work'[r].pending = work[r].pending
    BY DEF FailRow, Goto, tables, IInv, RequestOK, Frame, Idle
  <1>3. \A k \in DOMAIN RowsOf(r) :
          k < work[r].at + 1 /\ Readable(RowsOf(r)[k]) => k < work[r].at
    BY <1>1, RowsAreASequence DEF FailRow, RowAt, RequestOK
  <1>4. (\A k \in DOMAIN RowsOf(r) :
           k < work[r].at /\ Readable(RowsOf(r)[k]) => Covered(r, Normalized(RowsOf(r)[k])))'
    BY <1>1, <1>2, <1>3 DEF RequestOK, Covered, RowsOf, HashesOf, Frame
  <1>5. RequestOK(r)'
    BY <1>1, <1>2, <1>4 DEF RequestOK, Frame, HashesOf
  <1>6. \A q \in Requests \ {r} : HashesOf(work'[r].rows) \cap HashesOf(work[q].rows) = {}
    BY <1>2 DEF IInv
  <1>7. QED BY <1>1, <1>2, <1>5, <1>6, StepOfOne DEF Frame, IInv

\* So does a row that is in the table, or is about to be inserted.
LEMMA TakeRowKeepsIInv ==
  ASSUME IInv, NEW r \in Requests, TakeRow(r)
  PROVE  IInv'
  <1> DEFINE n == work[r].at
             hash == Normalized(RowAt(r))
             there == hash \in HashesOf(entries \cup work[r].rows)
             new == [id |-> <<r, n>>, hash |-> hash, storable |-> RowAt(r).storable]
  <1>1. /\ RequestOK(r) /\ pc[r] = "import" /\ input[r].file \in Files
        /\ work[r].pending = {}
    BY DEF IInv, RequestOK, TakeRow, Taking, Importing
  <1>2. /\ Frame(r) /\ pc'[r] = "import" /\ work'[r].at = n + 1
        /\ work'[r].rows = work[r].rows
        /\ work'[r].pending = IF there THEN {} ELSE {new}
    BY DEF TakeRow, Taking, Goto, tables, IInv, RequestOK, Frame, Idle
  <1>3. new.id[1] = r /\ new.hash = hash
    OBVIOUS
  <1>4. n \in Nat /\ \A k \in DOMAIN RowsOf(r) : k < n + 1 => k < n \/ k = n
    BY <1>1, RowsAreASequence DEF RequestOK
  <1>5. hash \in HashesOf(entries) \/ hash \in HashesOf(work[r].rows \cup work'[r].pending)
    BY <1>2, <1>3 DEF HashesOf
  <1>6. ASSUME NEW k \in DOMAIN RowsOf(r), k < n + 1, Readable(RowsOf(r)[k])
        PROVE  Covered(r, Normalized(RowsOf(r)[k]))'
    <2>1. CASE k < n
      <3>1. \/ Normalized(RowsOf(r)[k]) \in HashesOf(entries)
            \/ Normalized(RowsOf(r)[k]) \in HashesOf(work[r].rows)
        BY <1>1, <1>6, <2>1 DEF RequestOK, Covered, HashesOf
      <3>2. QED BY <1>2, <3>1 DEF Covered, HashesOf, Frame, RowsOf
    <2>2. CASE k = n
      BY <1>2, <1>5, <2>2 DEF Covered, RowAt, HashesOf, Frame, RowsOf
    <2>3. QED BY <1>4, <1>6, <2>1, <2>2
  <1>7. \A e \in work'[r].pending : e = new /\ hash \notin HashesOf(work[r].rows)
    BY <1>2 DEF HashesOf
  <1>8. RequestOK(r)'
    <2>1. RowsOf(r)' = RowsOf(r)
      BY <1>2 DEF RowsOf, Frame
    <2>2. (pc[r] = "import" => \A k \in DOMAIN RowsOf(r) :
             k < work[r].at /\ Readable(RowsOf(r)[k]) => Covered(r, Normalized(RowsOf(r)[k])))'
      BY <1>2, <1>6, <2>1
    <2>3. /\ \A e \in work'[r].pending : e.id[1] = r /\ e.hash \notin HashesOf(work[r].rows)'
          /\ \A e, f \in work'[r].pending : e = f
      BY <1>2, <1>3, <1>7 DEF HashesOf
    <2>4. work'[r].at \in Nat
      BY <1>2, <1>4
    <2>5. /\ \A e \in work'[r].rows : e.id[1] = r /\ e.hash \notin HashesOf(entries)'
          /\ \A e, f \in work'[r].rows : e.hash = f.hash => e = f
      BY <1>1, <1>2 DEF RequestOK, HashesOf, Frame
    <2>6. input'[r].file \in Files /\ pc'[r] # "idle"
      BY <1>1, <1>2 DEF Frame
    <2>7. QED BY <1>2, <2>2, <2>3, <2>4, <2>5, <2>6 DEF RequestOK, Frame
  <1>9. \A q \in Requests \ {r} : HashesOf(work'[r].rows) \cap HashesOf(work[q].rows) = {}
    BY <1>2 DEF IInv
  <1>10. QED BY <1>1, <1>2, <1>8, <1>9, StepOfOne DEF Frame, IInv

\* So does the insertion of a row, which the unique index lets through only if no
\* other request has inserted its hash.
LEMMA InsertEntryKeepsIInv ==
  ASSUME IInv, NEW r \in Requests, InsertEntry(r)
  PROVE  IInv'
  <1>1. pc[r] = "import" /\ RequestOK(r)
    BY DEF InsertEntry, IInv
  <1>2. PICK e \in work[r].pending :
          IF ~e.storable \/ e.hash \in HashesOf(entries)
          THEN Discard(r, "500")
          ELSE (\A q \in Requests : ~WaitsFor(r, q)) /\ Inserting(r, e)
    BY DEF InsertEntry
  <1>3. CASE ~e.storable \/ e.hash \in HashesOf(entries)
    <2>1. End(r, "500") /\ UNCHANGED <<entries, imports>>
      BY <1>2, <1>3 DEF Discard, tables
    <2>2. QED BY <1>1, <2>1, EndKeepsIInv
  <1>4. CASE e.storable /\ e.hash \notin HashesOf(entries)
    <2> DEFINE new == [id |-> e.id, hash |-> e.hash]
    <2>1. (\A q \in Requests : ~WaitsFor(r, q)) /\ Inserting(r, e)
      BY <1>2, <1>4
    <2>2. /\ Frame(r) /\ pc'[r] = "import" /\ work'[r].at = work[r].at
          /\ work'[r].rows = work[r].rows \cup {new}
          /\ work'[r].pending = {}
      BY <1>1, <2>1 DEF Inserting, Goto, tables, IInv, RequestOK, Frame, Idle
    <2>3. e.id[1] = r /\ new.id = e.id /\ new.hash = e.hash /\ e.hash \notin HashesOf(work[r].rows)
      BY <1>1 DEF RequestOK
    <2>4. \A q \in Requests \ {r} : e.hash \notin HashesOf(work[q].rows)
      BY <1>1, <1>4, <2>1 DEF WaitsFor
    <2> HIDE DEF new
    <2>5. \A hash : Covered(r, hash) => Covered(r, hash)'
      <3>1. \A f \in work[r].pending : f = e
        BY <1>1 DEF RequestOK
      <3>2. QED BY <2>2, <2>3, <3>1 DEF Covered, HashesOf, Frame
    <2>6. RequestOK(r)'
      <3>1. RowsOf(r)' = RowsOf(r)
        BY <2>2 DEF RowsOf, Frame
      <3>2. (pc[r] = "import" => \A k \in DOMAIN RowsOf(r) :
               k < work[r].at /\ Readable(RowsOf(r)[k]) => Covered(r, Normalized(RowsOf(r)[k])))'
        BY <1>1, <2>2, <2>5, <3>1 DEF RequestOK
      <3>3. /\ \A f \in work'[r].rows : f.id[1] = r /\ f.hash \notin HashesOf(entries)'
            /\ \A f, g \in work'[r].rows : f.hash = g.hash => f = g
        BY <1>1, <1>4, <2>2, <2>3 DEF RequestOK, HashesOf, Frame
      <3>4. input'[r].file \in Files /\ pc'[r] # "idle" /\ work'[r].at \in Nat
        BY <1>1, <2>2 DEF RequestOK, Frame
      <3>5. QED BY <2>2, <3>2, <3>3, <3>4 DEF RequestOK, Frame
    <2>7. \A q \in Requests \ {r} : HashesOf(work'[r].rows) \cap HashesOf(work[q].rows) = {}
      <3>1. HashesOf(work'[r].rows) = HashesOf(work[r].rows) \cup {e.hash}
        BY <2>2, <2>3 DEF HashesOf
      <3>2. QED BY <2>4, <3>1 DEF IInv
    <2>8. QED BY <1>1, <2>2, <2>6, <2>7, StepOfOne DEF Frame, IInv
  <1>5. QED BY <1>3, <1>4

\* So does the commit of an import, which has dealt with every row of its file.
LEMMA FinishImportKeepsIInv ==
  ASSUME IInv, NEW r \in Requests, FinishImport(r)
  PROVE  IInv'
  <1>1. /\ RequestOK(r) /\ pc[r] = "import" /\ input[r].file \in Files
        /\ work[r].pending = {} /\ work[r].at > Len(RowsOf(r))
    BY DEF IInv, RequestOK, FinishImport
  <1>2. CASE \E s : Discard(r, s)
    <2>1. PICK s : End(r, s) /\ UNCHANGED <<entries, imports>>
      BY <1>2 DEF Discard, tables
    <2>2. QED BY <1>1, <2>1, EndKeepsIInv
  <1>3. CASE /\ \E s : End(r, s)
             /\ entries' = entries \cup work[r].rows
             /\ imports' = imports \cup {ImportOf(r, ImportStatus(r))}
    <2>1. PICK s : End(r, s)
      BY <1>3
    <2>2. ImportOf(r, ImportStatus(r)).id = r
      BY DEF ImportOf
    <2>3. \A k \in DOMAIN RowsOf(r) : k < work[r].at
      BY <1>1, RowsAreASequence DEF RequestOK
    <2>4. \A k \in DOMAIN RowsOf(r) :
            Readable(RowsOf(r)[k]) => Normalized(RowsOf(r)[k]) \in HashesOf(entries \cup work[r].rows)
      BY <1>1, <2>3 DEF RequestOK, Covered, HashesOf
    <2> DEFINE i == ImportOf(r, ImportStatus(r))
    <2> HIDE DEF i
    <2>5. i.id = r /\ imports' = imports \cup {i}
      BY <1>3, <2>2 DEF i
    <2>6. QED BY <1>1, <1>3, <2>1, <2>4, <2>5, CommitKeepsIInv
  <1>4. QED BY <1>2, <1>3 DEF FinishImport

\* A request that arrives holds nothing yet.
LEMMA ArrivalKeepsIInv ==
  ASSUME IInv, NEW r \in Requests, ArriveImport(r) \/ ArriveReconcile(r)
  PROVE  IInv'
  <1>1. /\ pc[r] = "idle" /\ RequestOK(r) /\ work[r] = Idle
        /\ UNCHANGED <<entries, imports, work>>
    BY DEF IInv, RequestOK, ArriveImport, ArriveReconcile, tables
  <1>2. /\ DOMAIN pc' = Requests /\ DOMAIN work' = Requests /\ DOMAIN input' = Requests
        /\ \A q \in Requests \ {r} : work'[q] = work[q] /\ pc'[q] = pc[q] /\ input'[q] = input[q]
    BY DEF IInv, ArriveImport, ArriveReconcile, tables
  <1>3. Idle.rows = {} /\ Idle.pending = {} /\ Idle.at = 1
    BY DEF Idle
  <1>4. pc'[r] = "load_import" \/ (pc'[r] = "import" /\ input'[r].file \in Files)
    BY DEF IInv, ArriveImport, ArriveReconcile
  <1>5. pc'[r] = "import" => \A k \in DOMAIN input'[r].file.rows : ~(k < 1)
    BY <1>4, BankStatementsAssumption DEF File
  <1>6. RequestOK(r)'
    <2>1. (pc[r] = "import" => \A k \in DOMAIN RowsOf(r) :
             k < work[r].at /\ Readable(RowsOf(r)[k]) => Covered(r, Normalized(RowsOf(r)[k])))'
      BY <1>1, <1>3, <1>5 DEF RowsOf
    <2>2. QED BY <1>1, <1>3, <1>4, <2>1 DEF RequestOK
  <1>7. \A q \in Requests \ {r} : HashesOf(work'[r].rows) \cap HashesOf(work[q].rows) = {}
    BY <1>1 DEF IInv
  <1>8. QED BY <1>1, <1>2, <1>6, <1>7, StepOfOne

------------------------------------------------------------------------------
\* At the start nothing is stored and no request holds a row.
LEMMA InitIInv == Init => IInv
  <1> SUFFICES ASSUME Init PROVE IInv
    OBVIOUS
  <1>1. Idle.rows = {} /\ Idle.pending = {} /\ Idle.at = 1
    BY DEF Idle
  <1>2. \A r \in Requests : work[r] = Idle /\ pc[r] = "idle"
    BY DEF Init
  <1>3. \A r \in Requests : RequestOK(r)
    BY <1>1, <1>2 DEF RequestOK
  <1>4. \A q, r \in Requests : q # r => HashesOf(work[q].rows) \cap HashesOf(work[r].rows) = {}
    BY <1>1, <1>2 DEF HashesOf
  <1>5. entries = {} /\ imports = {} /\ DOMAIN pc = Requests /\ DOMAIN work = Requests
        /\ DOMAIN input = Requests
    BY DEF Init
  <1>6. QED BY <1>3, <1>4, <1>5
        DEF IInv, UploadsAreIdempotent, EntriesHaveTheirImport, ProcessedRowsAreStored

\* Every step keeps the invariant.
LEMMA NextKeepsIInv == IInv /\ [Next]_vars => IInv'
  <1> SUFFICES ASSUME IInv, [Next]_vars PROVE IInv'
    OBVIOUS
  <1>1. CASE UNCHANGED vars \/ Record
    <2>1. UNCHANGED <<entries, imports, pc, work, input>>
      BY <1>1 DEF Record, vars
    <2>2. UploadsAreIdempotent' /\ EntriesHaveTheirImport' /\ ProcessedRowsAreStored'
      BY <2>1 DEF IInv, UploadsAreIdempotent, EntriesHaveTheirImport, ProcessedRowsAreStored, HashesOf
    <2>3. ASSUME NEW r \in Requests PROVE RequestOK(r)'
      <3>1. RequestOK(r)
        BY DEF IInv
      <3>2. QED BY <2>1, <3>1 DEF RequestOK, Covered, RowsOf, HashesOf
    <2>4. QED BY <2>1, <2>2, <2>3 DEF IInv
  <1>2. ASSUME NEW r \in Requests, ArriveImport(r) \/ ArriveReconcile(r) PROVE IInv'
    BY <1>2, ArrivalKeepsIInv
  <1>3. ASSUME NEW r \in Requests, ParseFails(r) PROVE IInv'
    <2>1. PICK s : End(r, s)
      BY <1>3 DEF ParseFails
    <2>2. PICK i : i.id = r /\ imports' = imports \cup {i}
      BY <1>3 DEF ParseFails, ImportOf
    <2>3. pc[r] = "import" /\ ~input[r].file.intact /\ entries' = entries \cup {}
      BY <1>3 DEF ParseFails
    <2>4. QED BY <2>1, <2>2, <2>3, CommitKeepsIInv
  <1>4. ASSUME NEW r \in Requests, FailRow(r) PROVE IInv'
    BY <1>4, FailRowKeepsIInv
  <1>5. ASSUME NEW r \in Requests, TakeRow(r) PROVE IInv'
    BY <1>5, TakeRowKeepsIInv
  <1>6. ASSUME NEW r \in Requests, InsertEntry(r) PROVE IInv'
    BY <1>6, InsertEntryKeepsIInv
  <1>7. ASSUME NEW r \in Requests, FinishImport(r) PROVE IInv'
    BY <1>7, FinishImportKeepsIInv
  <1>8. ASSUME NEW r \in Requests, NEW s, Discard(r, s), pc[r] # "done" PROVE IInv'
    BY <1>8, EndKeepsIInv DEF Discard, tables
  <1>9. ASSUME NEW r \in Requests, LoadImport(r) PROVE IInv'
    <2>1. CASE Discard(r, "404")
      BY <1>8, <1>9, <2>1 DEF LoadImport
    <2>2. CASE Goto(r, "load_entries") /\ UNCHANGED work
      <3>1. Frame(r) /\ pc[r] # "done" /\ pc'[r] = "load_entries"
        BY <1>9, <2>2 DEF LoadImport, Goto, tables, IInv, RequestOK, Frame
      <3>2. QED BY <2>2, <3>1, ReadKeepsIInv
    <2>3. QED BY <1>9, <2>1, <2>2 DEF LoadImport
  <1>10. ASSUME NEW r \in Requests, LoadEntries(r) PROVE IInv'
    <2>1. /\ Frame(r) /\ pc[r] # "done" /\ pc'[r] = "reconcile" /\ work'[r].at = work[r].at
          /\ work'[r].rows = work[r].rows /\ work'[r].pending = work[r].pending
      BY <1>10 DEF LoadEntries, Goto, tables, IInv, RequestOK, Frame, Idle
    <2>2. QED BY <2>1, ReadKeepsIInv
  <1>11. ASSUME NEW r \in Requests, ReconcileEntry(r) PROVE IInv'
    <2>1. /\ Frame(r) /\ pc[r] # "done" /\ pc'[r] = "reconcile" /\ work'[r].at = work[r].at
          /\ work'[r].rows = work[r].rows /\ work'[r].pending = work[r].pending
      BY <1>11 DEF ReconcileEntry, Reconciling, Goto, tables, IInv, RequestOK, Frame, Idle
    <2>2. QED BY <2>1, ReadKeepsIInv
  <1>12. ASSUME NEW r \in Requests, FinishReconcile(r) PROVE IInv'
    <2>1. PICK s : End(r, s)
      BY <1>12 DEF FinishReconcile
    <2>2. pc[r] # "done" /\ UNCHANGED <<entries, imports>>
      BY <1>12 DEF FinishReconcile
    <2>3. QED BY <2>1, <2>2, EndKeepsIInv
  <1>13. ASSUME NEW r \in Requests, Abort(r) PROVE IInv'
    BY <1>8, <1>13 DEF Abort
  <1>14. ASSUME NEW r \in Requests, BreakDeadlock(r) PROVE IInv'
    <2>1. Discard(r, "500") /\ pc[r] = "import"
      BY <1>14 DEF BreakDeadlock
    <2>2. QED BY <1>8, <2>1
  <1>15. QED
    BY <1>1, <1>2, <1>3, <1>4, <1>5, <1>6, <1>7, <1>9, <1>10, <1>11, <1>12, <1>13, <1>14
    DEF Next, Step

\* A line is stored once, however often and by how many requests it is uploaded.
THEOREM LinesAreStoredOnce == Spec => []UploadsAreIdempotent
  <1>1. IInv => UploadsAreIdempotent
    BY DEF IInv
  <1>2. QED BY <1>1, InitIInv, NextKeepsIInv, PTL DEF Spec

\* An import that was refused or died has left no line behind.
THEOREM LinesHaveTheirImport == Spec => []EntriesHaveTheirImport
  <1>1. IInv => EntriesHaveTheirImport
    BY DEF IInv
  <1>2. QED BY <1>1, InitIInv, NextKeepsIInv, PTL DEF Spec

\* The lines an import has processed are in the table, whoever stored them.
THEOREM ProcessedLinesAreStored == Spec => []ProcessedRowsAreStored
  <1>1. IInv => ProcessedRowsAreStored
    BY DEF IInv
  <1>2. QED BY <1>1, InitIInv, NextKeepsIInv, PTL DEF Spec

------------------------------------------------------------------------------
(***************************************************************************)
(* The reports.  Their invariant relies on IInv: an import that is in the  *)
(* table has ended, so its entries no longer change.                       *)
(***************************************************************************)
Statements == {"idle", "import", "load_import", "load_entries", "reconcile", "done"}
Statuses == {"none", "200", "201", "404", "500", "lost"}
Judgement == [by : Requests, entry : Entry, txn : Payments \cup {None}]
Report == [id : Requests, total : Nat, processed : Nat, failed : Nat,
           status : {"completed", "failed"}]

\* What an import has counted of the rows before the next one.
Counted(rows, at, processed, failed) ==
  /\ at \in 1..(Len(rows) + 1) /\ processed \in Nat /\ failed \in Nat
  /\ processed + failed = at - 1
  /\ processed = Cardinality({k \in 1..(at - 1) : Readable(rows[k])})

Imported == {i.id : i \in imports}

\* The judgements of r, one for each entry they name.
JudgedBy(r, js) ==
  /\ js \subseteq Judgement
  /\ \A x \in js : x.by = r
  /\ \A x, y \in js : x.entry = y.entry => x = y

\* What one request has read and counted.
WorkOK(r) ==
  /\ pc[r] # "done" => answer[r] = "none"
  /\ work[r].rows \subseteq Entry /\ IsFiniteSet(work[r].rows)
  /\ \A e \in work[r].pending : e.id \in Requests \X Nat /\ e.hash \in Hash
  /\ pc[r] = "import" =>
       IF input[r].file.intact
       THEN Counted(RowsOf(r), work[r].at, work[r].processed, work[r].failed)
       ELSE work[r].processed = 0 /\ work[r].failed = 0
  /\ pc[r] \in {"load_entries", "reconcile"} => input[r].import \in Imported
  /\ pc[r] \in {"load_import", "load_entries"} => work[r].results = {}
  /\ pc[r] = "reconcile" =>
       /\ WorksOff(work[r].queue, EntriesOf(input[r].import), {x.entry : x \in work[r].results})
       /\ JudgedBy(r, work[r].results)

\* What an import reports of its file.
AddsUp(i, file) ==
  file.intact =>
    /\ i.total = i.processed + i.failed
    /\ i.processed = Cardinality({k \in DOMAIN file.rows : Readable(file.rows[k])})
    /\ i.status = "failed" <=> i.processed = 0 /\ i.total > 0

\* A reconciliation that was answered has judged the entries of an import that had
\* ended.
AnsweredOK(r) ==
  LET mine == {x \in results : x.by = r} IN
  /\ input[r].import \in Imported
  /\ {x.entry : x \in mine} = EntriesOf(input[r].import)
  /\ JudgedBy(r, mine)

RInv ==
  /\ TypeOK
  /\ IsFiniteSet(entries)
  /\ \A i \in imports : AddsUp(i, input[i.id].file)
  /\ \A x \in results : pc[x.by] = "done"
  /\ \A r \in Requests : WorkOK(r)
  /\ \A r \in Requests : answer[r] = "200" => AnsweredOK(r)

\* What is hashed of a row has its type.
LEMMA NormalizedIsHash ==
  ASSUME NEW raw \in RawRow
  PROVE  Normalized(raw) \in Hash
  <1>1. \A a \in Amount \cup {None} : ParseAmount(a) \in Int
    BY DEF ParseAmount, Amount
  <1>2. /\ raw.debit \in Amount \cup {None} /\ raw.credit \in Amount \cup {None}
        /\ raw.reference \in Nat \cup {None} /\ raw.currency \in Currencies /\ raw.day \in Int
    BY DEF RawRow
  <1>3. QED BY <1>1, <1>2 DEF Normalized, Hash

\* A request that has not ended adds no entry to an import that is in the table.
LEMMA OldImportsStay ==
  ASSUME IInv, NEW r \in Requests, pc[r] # "done",
         NEW rows, rows \subseteq work[r].rows, entries' = entries \cup rows,
         NEW i \in Imported
  PROVE  EntriesOf(i)' = EntriesOf(i)
  <1>1. RequestOK(r) /\ i # r
    BY DEF IInv, Imported
  <1>2. \A e \in rows : e.id[1] = r
    BY <1>1 DEF RequestOK
  <1>3. QED BY <1>1, <1>2 DEF EntriesOf

\* A step moves only r.
Moves(r) ==
  /\ pc' \in [Requests -> Statements] /\ answer' \in [Requests -> Statuses]
  /\ \A q \in Requests \ {r} : /\ pc'[q] = pc[q] /\ work'[q] = work[q]
                               /\ input'[q] = input[q] /\ answer'[q] = answer[q]

\* A step of r keeps the invariant if what it adds to the tables is r's own, is exact
\* and is there to stay.
LEMMA StepKeepsRInv ==
  ASSUME IInv, RInv, NEW r \in Requests, pc[r] # "done", Moves(r),
         transactions' \subseteq Payments,
         NEW rows, rows \subseteq work[r].rows, entries' = entries \cup rows,
         NEW is, imports' = imports \cup is, is \subseteq Report,
         \A i \in is : i.id = r /\ AddsUp(i, input'[r].file),
         NEW js, results' = results \cup js, JudgedBy(r, js), js # {} => pc'[r] = "done",
         WorkOK(r)', answer'[r] = "200" => AnsweredOK(r)'
  PROVE  RInv'
  <1>1. /\ transactions \subseteq Payments /\ entries \subseteq Entry /\ imports \subseteq Report
        /\ results \subseteq Judgement /\ WorkOK(r) /\ IsFiniteSet(entries)
        /\ \A i \in imports : AddsUp(i, input[i.id].file)
        /\ \A x \in results : pc[x.by] = "done"
    BY DEF RInv, TypeOK, Report, Judgement
  <1>2. entries' \subseteq Entry /\ IsFiniteSet(entries')
    <2>1. IsFiniteSet(work[r].rows) /\ work[r].rows \subseteq Entry
      BY <1>1 DEF WorkOK
    <2>2. IsFiniteSet(rows)
      BY <2>1, FS_Subset
    <2>3. QED BY <1>1, <2>1, <2>2, FS_Union
  <1>3. imports' \subseteq Report /\ results' \subseteq Judgement
    BY <1>1 DEF JudgedBy
  <1>4. TypeOK'
    BY <1>2, <1>3 DEF TypeOK, Moves, Statements, Statuses, Report, Judgement
  <1>5. \A i \in imports' : AddsUp(i, input'[i.id].file)
    <2>1. \A i \in imports : i.id \in Requests \ {r}
      BY DEF IInv
    <2>2. \A i \in imports : input'[i.id] = input[i.id]
      BY <2>1 DEF Moves
    <2>3. QED BY <1>1, <2>2
  <1>6. \A x \in results' : pc'[x.by] = "done"
    <2>1. \A x \in results : x.by \in Requests \ {r}
      BY <1>1 DEF Judgement
    <2>2. QED BY <1>1, <2>1 DEF Moves, JudgedBy
  <1>7. \A i \in Imported : EntriesOf(i)' = EntriesOf(i)
    BY OldImportsStay
  <1>8. Imported \subseteq Imported'
    BY DEF Imported
  <1>9. ASSUME NEW q \in Requests PROVE WorkOK(q)'
    <2>1. CASE q = r
      BY <2>1
    <2>2. CASE q # r
      <3>1. WorkOK(q)
        BY DEF RInv
      <3>2. pc'[q] = pc[q] /\ work'[q] = work[q] /\ input'[q] = input[q] /\ answer'[q] = answer[q]
        BY <2>2 DEF Moves
      <3>3. pc[q] \in {"load_entries", "reconcile"} =>
              EntriesOf(input[q].import)' = EntriesOf(input[q].import)
        <4>1. SUFFICES ASSUME input[q].import \in Imported
                       PROVE  EntriesOf(input[q].import)' = EntriesOf(input[q].import)
          BY <3>1 DEF WorkOK
        <4>2. PICK i \in Imported : i = input[q].import
          BY <4>1
        <4>3. EntriesOf(i)' = EntriesOf(i)
          BY <1>7
        <4>4. QED BY <3>2, <4>2, <4>3 DEF EntriesOf
      <3>4. QED BY <1>8, <3>1, <3>2, <3>3 DEF WorkOK, RowsOf
    <2>3. QED BY <2>1, <2>2
  <1>10. ASSUME NEW q \in Requests, answer'[q] = "200" PROVE AnsweredOK(q)'
    <2>1. CASE q = r
      BY <1>10, <2>1
    <2>2. CASE q # r
      <3>1. answer[q] = "200" /\ input'[q] = input[q]
        BY <1>10, <2>2 DEF Moves
      <3>2. AnsweredOK(q)
        BY <3>1 DEF RInv
      <3>3. PICK i \in Imported : i = input[q].import
        BY <3>2 DEF AnsweredOK
      <3>4. EntriesOf(i)' = EntriesOf(i) /\ i \in Imported'
        BY <1>7, <1>8
      <3>5. {x \in results' : x.by = q} = {x \in results : x.by = q}
        BY <2>2 DEF JudgedBy
      <3>6. EntriesOf(input[q].import)' = EntriesOf(i) /\ input'[q].import \in Imported'
        BY <3>1, <3>3, <3>4 DEF EntriesOf
      <3>7. /\ {x.entry : x \in {y \in results : y.by = q}} = EntriesOf(i)
            /\ JudgedBy(q, {y \in results : y.by = q})
        BY <3>2, <3>3 DEF AnsweredOK
      <3>8. JudgedBy(q, {y \in results : y.by = q})'
        BY <3>5, <3>7 DEF JudgedBy, Judgement
      <3>9. QED BY <3>5, <3>6, <3>7, <3>8 DEF AnsweredOK
    <2>3. QED BY <2>1, <2>2
  <1>11. QED BY <1>2, <1>4, <1>5, <1>6, <1>9, <1>10 DEF RInv

\* A step of r that leaves the tables.
LEMMA LocalKeepsRInv ==
  ASSUME IInv, RInv, NEW r \in Requests, pc[r] # "done", Moves(r),
         UNCHANGED tables, WorkOK(r)', answer'[r] # "200"
  PROVE  RInv'
  <1>0. PICK none : none = {}
    OBVIOUS
  <1>1. /\ entries' = entries \cup none /\ imports' = imports \cup none /\ results' = results \cup none
        /\ transactions' \subseteq Payments
    BY <1>0 DEF tables, RInv, TypeOK
  <1>2. /\ JudgedBy(r, none) /\ (none # {} => pc'[r] = "done")
        /\ none \subseteq work[r].rows /\ none \subseteq Report
        /\ \A i \in none : i.id = r /\ AddsUp(i, input'[r].file)
    BY <1>0 DEF JudgedBy
  <1>3. QED BY <1>1, <1>2, StepKeepsRInv

\* A request that ends moves and is left with nothing.
LEMMA EndMoves ==
  ASSUME IInv, RInv, NEW r \in Requests, NEW status \in Statuses, End(r, status)
  PROVE  /\ Moves(r) /\ WorkOK(r)'
         /\ pc'[r] = "done" /\ answer'[r] = status /\ UNCHANGED input
  <1>1. /\ pc \in [Requests -> Statements] /\ answer \in [Requests -> Statuses]
        /\ DOMAIN work = Requests
    BY DEF RInv, TypeOK, Statements, Statuses, IInv
  <1>2. /\ pc' = [pc EXCEPT ![r] = "done"] /\ work' = [work EXCEPT ![r] = Idle]
        /\ answer' = [answer EXCEPT ![r] = status] /\ input' = input
    BY DEF End
  <1>3. Moves(r) /\ pc'[r] = "done" /\ answer'[r] = status /\ work'[r] = Idle
    BY <1>1, <1>2 DEF Moves, Statements
  <1>4. Idle.rows = {} /\ Idle.pending = {}
    BY DEF Idle
  <1>5. WorkOK(r)'
    BY <1>3, <1>4, FS_EmptySet DEF WorkOK
  <1>6. QED BY <1>2, <1>3, <1>5

\* So does a request that is discarded.
LEMMA DiscardKeepsRInv ==
  ASSUME IInv, RInv, NEW r \in Requests, pc[r] # "done",
         NEW status \in Statuses \ {"200"}, Discard(r, status)
  PROVE  RInv'
BY EndMoves, LocalKeepsRInv DEF Discard

\* Before the first row nothing is counted.
LEMMA CountedNothing ==
  ASSUME NEW T, NEW rows \in Seq(T)
  PROVE  Counted(rows, 1, 0, 0)
  <1>1. {k \in 1..(1 - 1) : Readable(rows[k])} = {}
    OBVIOUS
  <1>2. 1 \in 1..(Len(rows) + 1)
    OBVIOUS
  <1>3. QED BY <1>1, <1>2, FS_EmptySet DEF Counted

\* The next row counts as processed if it can be read and as failed otherwise.
LEMMA CountedMore ==
  ASSUME NEW T, NEW rows \in Seq(T), NEW at, NEW p, NEW f, Counted(rows, at, p, f), at <= Len(rows)
  PROVE  /\ Readable(rows[at]) => Counted(rows, at + 1, p + 1, f)
         /\ ~Readable(rows[at]) => Counted(rows, at + 1, p, f + 1)
  <1> DEFINE S == {k \in 1..(at - 1) : Readable(rows[k])}
             T1 == {k \in 1..((at + 1) - 1) : Readable(rows[k])}
  <1>1. at \in 1..(Len(rows) + 1) /\ p \in Nat /\ f \in Nat /\ p + f = at - 1 /\ p = Cardinality(S)
    BY DEF Counted
  <1>2. at \in Nat \ {0} /\ at + 1 \in 1..(Len(rows) + 1) /\ (at + 1) - 1 = at
    BY <1>1
  <1>3. IsFiniteSet(S)
    <2>1. IsFiniteSet(1..(at - 1))
      BY <1>2, FS_Interval
    <2>2. QED BY <2>1, FS_Subset
  <1>4. T1 = S \cup (IF Readable(rows[at]) THEN {at} ELSE {}) /\ at \notin S
    BY <1>2
  <1>5. CASE Readable(rows[at])
    <2>1. Cardinality(T1) = p + 1
      BY <1>1, <1>3, <1>4, <1>5, FS_AddElement
    <2>2. (p + 1) + f = (at + 1) - 1 /\ p + 1 \in Nat
      BY <1>1
    <2>3. QED BY <1>1, <1>2, <1>5, <2>1, <2>2 DEF Counted
  <1>6. CASE ~Readable(rows[at])
    <2>1. Cardinality(T1) = p
      BY <1>1, <1>4, <1>6
    <2>2. p + (f + 1) = (at + 1) - 1 /\ f + 1 \in Nat
      BY <1>1
    <2>3. QED BY <1>1, <1>2, <1>6, <2>1, <2>2 DEF Counted
  <1>7. QED BY <1>5, <1>6

\* After the last row every row is counted.
LEMMA CountedAll ==
  ASSUME NEW T, NEW rows \in Seq(T), NEW at, NEW p, NEW f, Counted(rows, at, p, f), at > Len(rows)
  PROVE  /\ p \in Nat /\ f \in Nat /\ Len(rows) = p + f
         /\ p = Cardinality({k \in DOMAIN rows : Readable(rows[k])})
  <1>1. at \in 1..(Len(rows) + 1) /\ p \in Nat /\ f \in Nat /\ p + f = at - 1
        /\ p = Cardinality({k \in 1..(at - 1) : Readable(rows[k])})
    BY DEF Counted
  <1>2. at - 1 = Len(rows) /\ DOMAIN rows = 1..Len(rows)
    BY <1>1
  <1>3. QED BY <1>1, <1>2

\* The files are as the constants say.
LEMMA FileFields ==
  ASSUME NEW r, input[r].file \in Files
  PROVE  RowsOf(r) \in Seq(RawRow) /\ input[r].file.intact \in BOOLEAN
BY BankStatementsAssumption DEF File, RowsOf

\* A request that arrives has counted nothing.
LEMMA ArrivalKeepsRInv ==
  ASSUME IInv, RInv, NEW r \in Requests, ArriveImport(r) \/ ArriveReconcile(r)
  PROVE  RInv'
  <1>1. /\ RequestOK(r) /\ WorkOK(r) /\ pc[r] = "idle" /\ UNCHANGED <<tables, work, answer>>
    BY DEF IInv, RInv, ArriveImport, ArriveReconcile
  <1>2. /\ pc \in [Requests -> Statements] /\ answer \in [Requests -> Statuses]
        /\ DOMAIN input = Requests
    BY DEF RInv, TypeOK, Statements, Statuses, IInv
  <1>3. Moves(r)
    BY <1>1, <1>2 DEF Moves, ArriveImport, ArriveReconcile, Statements
  <1>4. work'[r] = Idle /\ answer'[r] = "none"
    BY <1>1 DEF RequestOK, WorkOK
  <1>5. /\ Idle.rows = {} /\ Idle.pending = {} /\ Idle.results = {}
        /\ Idle.at = 1 /\ Idle.processed = 0 /\ Idle.failed = 0
    BY DEF Idle
  <1>6. pc'[r] = "import" \/ pc'[r] = "load_import"
    BY <1>2 DEF ArriveImport, ArriveReconcile
  <1>7. pc'[r] = "import" => Counted(RowsOf(r)', 1, 0, 0)
    <2>1. SUFFICES ASSUME pc'[r] = "import" PROVE Counted(RowsOf(r)', 1, 0, 0)
      OBVIOUS
    <2>2. input'[r].file \in Files
      BY <1>2, <2>1 DEF ArriveImport, ArriveReconcile
    <2>3. RowsOf(r)' \in Seq(RawRow)
      BY <2>2, BankStatementsAssumption DEF File, RowsOf
    <2>4. QED BY <2>3, CountedNothing
  <1>8. WorkOK(r)'
    BY <1>4, <1>5, <1>6, <1>7, FS_EmptySet DEF WorkOK
  <1>9. QED BY <1>1, <1>3, <1>4, <1>8, LocalKeepsRInv

\* What a step within r's transaction does to the control.
LEMMA GotoMoves ==
  ASSUME IInv, RInv, NEW r \in Requests, pc[r] \in Statements \ {"idle", "done"},
         NEW statement \in Statements \ {"done"}, Goto(r, statement),
         NEW w, work' = [work EXCEPT ![r] = w] \/ (w = work[r] /\ UNCHANGED work)
  PROVE  /\ Moves(r) /\ UNCHANGED <<tables, input>>
         /\ work'[r] = w /\ pc'[r] = statement /\ answer'[r] = "none"
  <1>1. /\ pc \in [Requests -> Statements] /\ answer \in [Requests -> Statuses]
        /\ DOMAIN work = Requests /\ WorkOK(r)
    BY DEF RInv, TypeOK, Statements, Statuses, IInv
  <1>2. answer[r] = "none"
    BY <1>1 DEF WorkOK
  <1>3. QED BY <1>1, <1>2 DEF Goto, Moves

\* A row that fails is counted.
LEMMA FailRowKeepsRInv ==
  ASSUME IInv, RInv, NEW r \in Requests, FailRow(r)
  PROVE  RInv'
  <1>1. /\ RequestOK(r) /\ WorkOK(r) /\ pc[r] = "import" /\ input[r].file \in Files
        /\ input[r].file.intact /\ work[r].at <= Len(RowsOf(r)) /\ ~Readable(RowsOf(r)[work[r].at])
    BY DEF IInv, RInv, RequestOK, FailRow, Importing, RowAt
  <1>2. PICK w : w = [work[r] EXCEPT !.at = @ + 1, !.failed = @ + 1]
    OBVIOUS
  <1>3. work' = [work EXCEPT ![r] = w] /\ Goto(r, "import")
    BY <1>2 DEF FailRow
  <1>4. /\ w.at = work[r].at + 1 /\ w.failed = work[r].failed + 1 /\ w.processed = work[r].processed
        /\ w.rows = work[r].rows /\ w.pending = work[r].pending
    BY <1>1, <1>2 DEF RequestOK, Idle
  <1>5. /\ Moves(r) /\ UNCHANGED <<tables, input>>
        /\ work'[r] = w /\ pc'[r] = "import" /\ answer'[r] = "none"
    BY <1>1, <1>3, GotoMoves DEF Statements
  <1>6. Counted(RowsOf(r), w.at, w.processed, w.failed)
    <2>1. Counted(RowsOf(r), work[r].at, work[r].processed, work[r].failed)
      BY <1>1 DEF WorkOK
    <2>2. QED BY <1>1, <1>4, <2>1, FileFields, CountedMore
  <1>7. WorkOK(r)'
    BY <1>1, <1>4, <1>5, <1>6 DEF WorkOK, RowsOf
  <1>8. QED BY <1>1, <1>5, <1>7, LocalKeepsRInv

\* So is one that is taken.
LEMMA TakeRowKeepsRInv ==
  ASSUME IInv, RInv, NEW r \in Requests, TakeRow(r)
  PROVE  RInv'
  <1>1. /\ RequestOK(r) /\ WorkOK(r) /\ pc[r] = "import" /\ input[r].file \in Files
        /\ input[r].file.intact /\ work[r].at <= Len(RowsOf(r)) /\ Readable(RowAt(r))
        /\ work[r].at \in Nat
    BY DEF IInv, RInv, RequestOK, TakeRow, Taking, Importing
  <1>2. PICK new : new = [id |-> <<r, work[r].at>>, hash |-> Normalized(RowAt(r)),
                          storable |-> RowAt(r).storable]
    OBVIOUS
  <1>3. PICK ps : ps \subseteq {new} /\ work' = [work EXCEPT ![r].at = @ + 1, ![r].processed = @ + 1, ![r].pending = ps]
    BY <1>2 DEF TakeRow, Taking
  <1>4. PICK w : w = [work[r] EXCEPT !.at = @ + 1, !.processed = @ + 1, !.pending = ps]
    OBVIOUS
  <1>5. work' = [work EXCEPT ![r] = w] /\ Goto(r, "import")
    BY <1>3, <1>4 DEF TakeRow, Taking
  <1>6. /\ w.at = work[r].at + 1 /\ w.processed = work[r].processed + 1 /\ w.failed = work[r].failed
        /\ w.rows = work[r].rows /\ w.pending = ps
    BY <1>1, <1>4 DEF RequestOK, Idle
  <1>7. /\ Moves(r) /\ UNCHANGED <<tables, input>>
        /\ work'[r] = w /\ pc'[r] = "import" /\ answer'[r] = "none"
    BY <1>1, <1>5, GotoMoves DEF Statements
  <1>8. Counted(RowsOf(r), work[r].at, work[r].processed, work[r].failed)
    BY <1>1 DEF WorkOK
  <1>9. Counted(RowsOf(r), w.at, w.processed, w.failed)
    BY <1>1, <1>6, <1>8, FileFields, CountedMore DEF RowAt
  <1>10. \A e \in ps : e.id \in Requests \X Nat /\ e.hash \in Hash
    <2>1. RowAt(r) \in RawRow
      <3>1. work[r].at \in 1..Len(RowsOf(r))
        BY <1>1, <1>8 DEF Counted
      <3>2. QED BY <1>1, <3>1, FileFields DEF RowAt
    <2>2. Normalized(RowAt(r)) \in Hash
      BY <2>1, NormalizedIsHash
    <2>3. QED BY <1>1, <1>2, <1>3, <2>2
  <1>11. WorkOK(r)'
    BY <1>1, <1>6, <1>7, <1>9, <1>10 DEF WorkOK, RowsOf
  <1>12. QED BY <1>1, <1>7, <1>11, LocalKeepsRInv

\* A row that is inserted is an entry.
LEMMA InsertEntryKeepsRInv ==
  ASSUME IInv, RInv, NEW r \in Requests, InsertEntry(r)
  PROVE  RInv'
  <1>1. pc[r] = "import" /\ RequestOK(r) /\ WorkOK(r)
    BY DEF InsertEntry, IInv, RInv
  <1>2. PICK e \in work[r].pending : Discard(r, "500") \/ Inserting(r, e)
    BY DEF InsertEntry
  <1>3. CASE Discard(r, "500")
    BY <1>1, <1>3, DiscardKeepsRInv DEF Statuses
  <1>4. CASE Inserting(r, e)
    <2>1. PICK new : new = [id |-> e.id, hash |-> e.hash]
      OBVIOUS
    <2>2. PICK w : w = [work[r] EXCEPT !.pending = {}, !.rows = @ \cup {new}]
      OBVIOUS
    <2>3. work' = [work EXCEPT ![r] = w] /\ Goto(r, "import")
      BY <1>4, <2>1, <2>2 DEF Inserting
    <2>4. /\ w.at = work[r].at /\ w.processed = work[r].processed /\ w.failed = work[r].failed
          /\ w.rows = work[r].rows \cup {new} /\ w.pending = {}
      BY <1>1, <2>2 DEF RequestOK, Idle
    <2>5. /\ Moves(r) /\ UNCHANGED <<tables, input>>
          /\ work'[r] = w /\ pc'[r] = "import" /\ answer'[r] = "none"
      BY <1>1, <2>3, GotoMoves DEF Statements
    <2>6. new \in Entry
      BY <1>1, <2>1 DEF WorkOK, Entry
    <2>7. w.rows \subseteq Entry /\ IsFiniteSet(w.rows)
      BY <1>1, <2>4, <2>6, FS_AddElement DEF WorkOK
    <2>8. WorkOK(r)'
      BY <1>1, <2>4, <2>5, <2>7 DEF WorkOK, RowsOf
    <2>9. QED BY <1>1, <2>5, <2>8, LocalKeepsRInv
  <1>5. QED BY <1>2, <1>3, <1>4

\* What a broken spreadsheet leaves: a failed import of no rows.
LEMMA ParseFailsKeepsRInv ==
  ASSUME IInv, RInv, NEW r \in Requests, ParseFails(r)
  PROVE  RInv'
  <1>1. pc[r] = "import" /\ WorkOK(r) /\ ~input[r].file.intact
    BY DEF ParseFails, RInv
  <1>2. PICK status \in {"201", "lost"} : End(r, status)
    BY DEF ParseFails
  <1>3. /\ Moves(r) /\ WorkOK(r)' /\ pc'[r] = "done" /\ answer'[r] # "200" /\ UNCHANGED input
    BY <1>2, EndMoves DEF Statuses
  <1>4. PICK i : i = ImportOf(r, "failed")
    OBVIOUS
  <1>5. /\ imports' = imports \cup {i} /\ UNCHANGED <<transactions, entries, results>>
    BY <1>4 DEF ParseFails
  <1>6. work[r].processed = 0 /\ work[r].failed = 0
    BY <1>1 DEF WorkOK
  <1>7. i.id = r /\ i \in Report /\ AddsUp(i, input'[r].file)
    BY <1>1, <1>3, <1>4, <1>6 DEF ImportOf, Report, AddsUp
  <1>8. PICK none : none = {}
    OBVIOUS
  <1>9. /\ entries' = entries \cup none /\ results' = results \cup none /\ none \subseteq work[r].rows
        /\ JudgedBy(r, none) /\ transactions' \subseteq Payments
    BY <1>5, <1>8 DEF JudgedBy, RInv, TypeOK
  <1>10. PICK is : is = {i}
    OBVIOUS
  <1>11. /\ imports' = imports \cup is /\ is \subseteq Report
         /\ \A j \in is : j.id = r /\ AddsUp(j, input'[r].file)
    BY <1>5, <1>7, <1>10
  <1>12. QED BY <1>1, <1>3, <1>9, <1>11, StepKeepsRInv

\* An import that has dealt with every row reports them all.
LEMMA FinishImportKeepsRInv ==
  ASSUME IInv, RInv, NEW r \in Requests, FinishImport(r)
  PROVE  RInv'
  <1>1. /\ pc[r] = "import" /\ WorkOK(r) /\ RequestOK(r) /\ input[r].file.intact
        /\ work[r].at > Len(RowsOf(r)) /\ input[r].file \in Files
    BY DEF FinishImport, RInv, IInv, RequestOK
  <1>2. CASE Discard(r, "500")
    BY <1>1, <1>2, DiscardKeepsRInv DEF Statuses
  <1>3. CASE /\ \E status \in {"201", "lost"} : End(r, status)
             /\ entries' = entries \cup work[r].rows
             /\ imports' = imports \cup {ImportOf(r, ImportStatus(r))}
             /\ UNCHANGED <<transactions, results>>
    <2>1. PICK status \in {"201", "lost"} : End(r, status)
      BY <1>3
    <2>2. /\ Moves(r) /\ WorkOK(r)' /\ pc'[r] = "done" /\ answer'[r] # "200" /\ UNCHANGED input
      BY <2>1, EndMoves DEF Statuses
    <2>3. PICK i : i = ImportOf(r, ImportStatus(r))
      OBVIOUS
    <2>4. /\ work[r].processed \in Nat /\ work[r].failed \in Nat
          /\ Len(RowsOf(r)) = work[r].processed + work[r].failed
          /\ work[r].processed = Cardinality({k \in DOMAIN RowsOf(r) : Readable(RowsOf(r)[k])})
      <3>1. Counted(RowsOf(r), work[r].at, work[r].processed, work[r].failed)
        BY <1>1 DEF WorkOK
      <3>2. QED BY <1>1, <3>1, FileFields, CountedAll
    <2>5. /\ i.id = r /\ i.total = Len(RowsOf(r)) /\ i.processed = work[r].processed
          /\ i.failed = work[r].failed /\ i.status = ImportStatus(r)
      BY <1>1, <2>3 DEF ImportOf
    <2>6. i.status = "failed" <=> i.processed = 0 /\ i.total > 0
      BY <2>4, <2>5 DEF ImportStatus
    <2>7. i \in Report
      <3>1. ImportStatus(r) \in {"completed", "failed"}
        BY DEF ImportStatus
      <3>2. Len(RowsOf(r)) \in Nat
        BY <2>4
      <3>3. QED BY <1>1, <2>3, <2>4, <3>1, <3>2 DEF ImportOf, Report
    <2>8. AddsUp(i, input'[r].file)
      BY <2>2, <2>4, <2>5, <2>6 DEF AddsUp, RowsOf
    <2>9. PICK is : is = {i}
      OBVIOUS
    <2>10. /\ imports' = imports \cup is /\ is \subseteq Report
           /\ \A j \in is : j.id = r /\ AddsUp(j, input'[r].file)
      BY <1>3, <2>3, <2>5, <2>7, <2>8, <2>9
    <2>11. PICK none : none = {}
      OBVIOUS
    <2>12. /\ results' = results \cup none
           /\ JudgedBy(r, none) /\ transactions' \subseteq Payments
      BY <1>3, <2>11 DEF JudgedBy, RInv, TypeOK
    <2>13. PICK rows : rows = work[r].rows
      OBVIOUS
    <2>14. rows \subseteq work[r].rows /\ entries' = entries \cup rows
      BY <1>3, <2>13
    <2>15. QED BY <1>1, <2>2, <2>10, <2>12, <2>14, StepKeepsRInv
  <1>4. QED BY <1>2, <1>3 DEF FinishImport

------------------------------------------------------------------------------
\* The import a reconciliation names has ended.
LEMMA LoadImportKeepsRInv ==
  ASSUME IInv, RInv, NEW r \in Requests, LoadImport(r)
  PROVE  RInv'
  <1>1. pc[r] = "load_import" /\ WorkOK(r)
    BY DEF LoadImport, RInv
  <1>2. CASE Discard(r, "404")
    BY <1>1, <1>2, DiscardKeepsRInv DEF Statuses
  <1>3. CASE /\ \E i \in imports : i.id = input[r].import
             /\ Goto(r, "load_entries") /\ UNCHANGED work
    <2>1. PICK w : w = work[r]
      OBVIOUS
    <2>2. UNCHANGED work /\ Goto(r, "load_entries")
      BY <1>3
    <2>3. /\ Moves(r) /\ UNCHANGED <<tables, input>>
          /\ work'[r] = w /\ pc'[r] = "load_entries" /\ answer'[r] = "none"
      BY <1>1, <2>1, <2>2, GotoMoves DEF Statements
    <2>4. input[r].import \in Imported /\ Imported' = Imported
      BY <1>3, <2>3 DEF Imported, tables
    <2>5. WorkOK(r)'
      BY <1>1, <2>1, <2>3, <2>4 DEF WorkOK
    <2>6. QED BY <1>1, <2>3, <2>5, LocalKeepsRInv
  <1>4. QED BY <1>2, <1>3 DEF LoadImport

\* All the entries of the import are queued.
LEMMA LoadEntriesKeepsRInv ==
  ASSUME IInv, RInv, NEW r \in Requests, LoadEntries(r)
  PROVE  RInv'
  <1>1. pc[r] = "load_entries" /\ WorkOK(r) /\ RequestOK(r)
    BY DEF LoadEntries, RInv, IInv
  <1>2. PICK q \in SetToSeqs(EntriesOf(input[r].import)) : work' = [work EXCEPT ![r].queue = q]
    BY DEF LoadEntries
  <1>3. PICK w : w = [work[r] EXCEPT !.queue = q]
    OBVIOUS
  <1>4. work' = [work EXCEPT ![r] = w] /\ Goto(r, "reconcile")
    BY <1>2, <1>3 DEF LoadEntries
  <1>5. /\ w.queue = q /\ w.results = work[r].results /\ w.rows = work[r].rows
        /\ w.pending = work[r].pending
    BY <1>1, <1>3 DEF RequestOK, Idle
  <1>6. /\ Moves(r) /\ UNCHANGED <<tables, input>>
        /\ work'[r] = w /\ pc'[r] = "reconcile" /\ answer'[r] = "none"
    BY <1>1, <1>4, GotoMoves DEF Statements
  <1>7. input[r].import \in Imported /\ Imported' = Imported
        /\ EntriesOf(input[r].import)' = EntriesOf(input[r].import)
    BY <1>1, <1>6 DEF WorkOK, Imported, tables, EntriesOf
  <1>8. w.results = {}
    BY <1>1, <1>5 DEF WorkOK
  <1>9. WorksOff(w.queue, EntriesOf(input[r].import), {x.entry : x \in w.results})
    <2>1. IsFiniteSet(EntriesOf(input[r].import))
      BY FS_Subset DEF RInv, EntriesOf
    <2>2. WorksOff(q, EntriesOf(input[r].import), {})
      BY <2>1, AnyOrderWorksOff
    <2>3. QED BY <1>5, <1>8, <2>2
  <1>10. JudgedBy(r, w.results)
    BY <1>8 DEF JudgedBy
  <1>11. WorkOK(r)'
    BY <1>1, <1>5, <1>6, <1>7, <1>9, <1>10 DEF WorkOK, JudgedBy, Judgement
  <1>12. QED BY <1>1, <1>6, <1>11, LocalKeepsRInv

\* The head of the queue is judged.
LEMMA ReconcileEntryKeepsRInv ==
  ASSUME IInv, RInv, NEW r \in Requests, ReconcileEntry(r)
  PROVE  RInv'
  <1>1. /\ pc[r] = "reconcile" /\ WorkOK(r) /\ RequestOK(r) /\ work[r].queue # <<>>
        /\ transactions \subseteq Payments
    BY DEF ReconcileEntry, Reconciling, RInv, IInv, TypeOK
  <1>2. PICK t \in transactions \cup {None} :
          work' = [work EXCEPT ![r].queue = Tail(@),
                     ![r].results = @ \cup {[by |-> r, entry |-> Head(work[r].queue), txn |-> t]}]
    BY DEF ReconcileEntry
  <1>3. PICK x0 : x0 = [by |-> r, entry |-> Head(work[r].queue), txn |-> t]
    OBVIOUS
  <1>4. PICK w : w = [work[r] EXCEPT !.queue = Tail(@), !.results = @ \cup {x0}]
    OBVIOUS
  <1>5. work' = [work EXCEPT ![r] = w] /\ Goto(r, "reconcile")
    BY <1>2, <1>3, <1>4 DEF ReconcileEntry
  <1>6. /\ w.queue = Tail(work[r].queue) /\ w.results = work[r].results \cup {x0}
        /\ w.rows = work[r].rows /\ w.pending = work[r].pending
    BY <1>1, <1>4 DEF RequestOK, Idle
  <1>7. /\ Moves(r) /\ UNCHANGED <<tables, input>>
        /\ work'[r] = w /\ pc'[r] = "reconcile" /\ answer'[r] = "none"
    BY <1>1, <1>5, GotoMoves DEF Statements
  <1>8. input[r].import \in Imported /\ Imported' = Imported
        /\ EntriesOf(input[r].import)' = EntriesOf(input[r].import)
    BY <1>1, <1>7 DEF WorkOK, Imported, tables, EntriesOf
  <1>9. /\ WorksOff(work[r].queue, EntriesOf(input[r].import), {x.entry : x \in work[r].results})
        /\ JudgedBy(r, work[r].results)
    BY <1>1 DEF WorkOK
  <1>10. {x.entry : x \in w.results} = {x.entry : x \in work[r].results} \cup {Head(work[r].queue)}
    BY <1>3, <1>6
  <1>11. WorksOff(w.queue, EntriesOf(input[r].import), {x.entry : x \in w.results})
    <2>1. WorksOff(Tail(work[r].queue), EntriesOf(input[r].import),
                   {x.entry : x \in work[r].results} \cup {Head(work[r].queue)})
      BY <1>1, <1>9, HeadWorkedOff
    <2>2. QED BY <1>6, <1>10, <2>1
  <1>12. JudgedBy(r, w.results)
    <2>1. /\ Head(work[r].queue) \in EntriesOf(input[r].import)
          /\ Head(work[r].queue) \notin {x.entry : x \in work[r].results}
      BY <1>1, <1>9, HeadAndTail
    <2>2. Head(work[r].queue) \in Entry
      BY <2>1 DEF EntriesOf, RInv, TypeOK
    <2>3. x0 \in Judgement /\ x0.by = r /\ \A x \in work[r].results : x.entry # x0.entry
      BY <1>1, <1>3, <2>1, <2>2 DEF Judgement
    <2>4. QED BY <1>6, <1>9, <2>3 DEF JudgedBy
  <1>13. WorkOK(r)'
    BY <1>1, <1>6, <1>7, <1>8, <1>11, <1>12 DEF WorkOK, JudgedBy, Judgement
  <1>14. QED BY <1>1, <1>7, <1>13, LocalKeepsRInv

\* A reconciliation ends when its queue is empty: each entry has been judged.
LEMMA FinishReconcileKeepsRInv ==
  ASSUME IInv, RInv, NEW r \in Requests, FinishReconcile(r)
  PROVE  RInv'
  <1>1. pc[r] = "reconcile" /\ WorkOK(r) /\ work[r].queue = <<>>
    BY DEF FinishReconcile, RInv
  <1>2. PICK status \in {"200", "lost"} : End(r, status)
    BY DEF FinishReconcile
  <1>3. /\ Moves(r) /\ WorkOK(r)' /\ pc'[r] = "done" /\ UNCHANGED input
    BY <1>2, EndMoves DEF Statuses
  <1>4. PICK js : js = work[r].results
    OBVIOUS
  <1>5. results' = results \cup js /\ UNCHANGED <<transactions, entries, imports>>
    BY <1>4 DEF FinishReconcile
  <1>6. /\ JudgedBy(r, js) /\ input[r].import \in Imported
        /\ WorksOff(<<>>, EntriesOf(input[r].import), {x.entry : x \in js})
    BY <1>1, <1>4 DEF WorkOK
  <1>7. {x.entry : x \in js} = EntriesOf(input[r].import)
    BY <1>6, AllWorkedOff
  <1>8. {x \in results' : x.by = r} = js
    <2>1. \A x \in results : x.by # r
      BY <1>1 DEF RInv
    <2>2. QED BY <1>5, <1>6, <2>1 DEF JudgedBy
  <1>9. AnsweredOK(r)'
    <2>1. /\ input'[r].import = input[r].import /\ Imported' = Imported
          /\ EntriesOf(input[r].import)' = EntriesOf(input[r].import)
      BY <1>3, <1>5 DEF Imported, EntriesOf
    <2>2. QED BY <1>6, <1>7, <1>8, <2>1 DEF AnsweredOK, JudgedBy, Judgement
  <1>10. PICK none : none = {}
    OBVIOUS
  <1>11. /\ entries' = entries \cup none /\ none \subseteq work[r].rows
         /\ imports' = imports \cup none /\ none \subseteq Report
         /\ \A i \in none : i.id = r /\ AddsUp(i, input'[r].file)
         /\ transactions' \subseteq Payments
    BY <1>5, <1>10 DEF RInv, TypeOK
  <1>12. QED BY <1>1, <1>3, <1>5, <1>6, <1>9, <1>11, StepKeepsRInv

------------------------------------------------------------------------------
\* At the start there is nothing to report.
LEMMA InitRInv == Init => RInv
  <1> SUFFICES ASSUME Init PROVE RInv
    OBVIOUS
  <1>1. /\ Idle.rows = {} /\ Idle.pending = {} /\ entries = {} /\ imports = {} /\ results = {}
        /\ \A r \in Requests : pc[r] = "idle" /\ work[r] = Idle /\ answer[r] = "none"
    BY DEF Init, Idle
  <1>2. TypeOK
    BY DEF Init, TypeOK
  <1>3. \A r \in Requests : WorkOK(r)
    BY <1>1, FS_EmptySet DEF WorkOK
  <1>4. QED BY <1>1, <1>2, <1>3, FS_EmptySet DEF RInv

\* A transaction that is recorded changes no report.
LEMMA RecordKeepsRInv ==
  ASSUME RInv, UNCHANGED <<entries, imports, results, pc, input, work, answer>>,
         transactions' \subseteq Payments
  PROVE  RInv'
  <1>1. TypeOK'
    BY DEF RInv, TypeOK
  <1>2. ASSUME NEW r \in Requests PROVE WorkOK(r)'
    <2>1. WorkOK(r)
      BY DEF RInv
    <2>2. EntriesOf(input[r].import)' = EntriesOf(input[r].import) /\ Imported' = Imported
      BY DEF EntriesOf, Imported
    <2>3. QED BY <2>1, <2>2 DEF WorkOK, RowsOf
  <1>3. ASSUME NEW r \in Requests, answer'[r] = "200" PROVE AnsweredOK(r)'
    <2>1. AnsweredOK(r)
      BY <1>3 DEF RInv
    <2>2. EntriesOf(input[r].import)' = EntriesOf(input[r].import) /\ Imported' = Imported
      BY DEF EntriesOf, Imported
    <2>3. QED BY <2>1, <2>2 DEF AnsweredOK
  <1>4. QED BY <1>1, <1>2, <1>3 DEF RInv

\* Every step keeps the invariant of the reports.
LEMMA NextKeepsRInv == IInv /\ RInv /\ [Next]_vars => RInv'
  <1> SUFFICES ASSUME IInv, RInv, [Next]_vars PROVE RInv'
    OBVIOUS
  <1>1. CASE UNCHANGED vars
    BY <1>1, RecordKeepsRInv DEF vars, RInv, TypeOK
  <1>2. CASE Record
    BY <1>2, RecordKeepsRInv DEF Record, RInv, TypeOK
  <1>3. ASSUME NEW r \in Requests, ArriveImport(r) \/ ArriveReconcile(r) PROVE RInv'
    BY <1>3, ArrivalKeepsRInv
  <1>4. ASSUME NEW r \in Requests, Step(r) PROVE RInv'
    <2>1. BreakDeadlock(r) => RInv'
      <3>1. BreakDeadlock(r) => pc[r] = "import" /\ Discard(r, "500")
        BY DEF BreakDeadlock
      <3>2. QED BY <3>1, DiscardKeepsRInv DEF Statuses
    <2>2. QED
      BY <1>4, <2>1, ParseFailsKeepsRInv, FailRowKeepsRInv, TakeRowKeepsRInv, InsertEntryKeepsRInv,
         FinishImportKeepsRInv, LoadImportKeepsRInv, LoadEntriesKeepsRInv, ReconcileEntryKeepsRInv,
         FinishReconcileKeepsRInv DEF Step
  <1>5. ASSUME NEW r \in Requests, Abort(r) PROVE RInv'
    BY <1>5, DiscardKeepsRInv DEF Abort, Statuses
  <1>6. QED BY <1>1, <1>2, <1>3, <1>4, <1>5 DEF Next

\* An import accounts for every row of its file, and a reconciliation that was
\* answered has judged each entry of its import once.
THEOREM ReportsAccountForAll == Spec => []ReportsAreExact
  <1>1. RInv => ReportsAreExact
    <2> SUFFICES ASSUME RInv PROVE ReportsAreExact
      OBVIOUS
    <2>1. TypeOK /\ ImportsAddUp
      BY DEF RInv, ImportsAddUp, AddsUp
    <2>2. ASSUME NEW r \in Requests, answer[r] = "200"
          PROVE  LET mine == {x \in results : x.by = r} IN
                 /\ {x.entry : x \in mine} = EntriesOf(input[r].import)
                 /\ Cardinality(mine) = Cardinality(EntriesOf(input[r].import))
      <3> DEFINE mine == {x \in results : x.by = r}
                 of == [x \in mine |-> x.entry]
      <3>1. {x.entry : x \in mine} = EntriesOf(input[r].import) /\ JudgedBy(r, mine)
        BY <2>2 DEF RInv, AnsweredOK
      <3>2. \A x, y \in mine : x.entry = y.entry => x = y
        BY <3>1 DEF JudgedBy
      <3> HIDE DEF mine
      <3>3. /\ DOMAIN of = mine /\ \A x \in mine : of[x] = x.entry
            /\ of \in [mine -> {x.entry : x \in mine}]
        OBVIOUS
      <3> HIDE DEF of
      <3>4. {of[x] : x \in mine} = EntriesOf(input[r].import)
        BY <3>1, <3>3
      <3>5. IsFiniteSet(mine)
        <4>1. IsFiniteSet(EntriesOf(input[r].import))
          BY FS_Subset DEF RInv, EntriesOf
        <4>2. of \in Injection(mine, EntriesOf(input[r].import))
          BY <3>1, <3>2, <3>3 DEF Injection, IsInjective
        <4>3. QED BY <4>1, <4>2, FS_Injection
      <3>6. Cardinality(mine) = Cardinality(EntriesOf(input[r].import))
        BY <3>2, <3>3, <3>4, <3>5, CountedByImage
      <3>7. QED BY <3>1, <3>6 DEF mine
    <2>3. QED BY <2>1, <2>2 DEF ReportsAreExact, ReconciliationsAreComplete
  <1>2. QED BY <1>1, InitIInv, NextKeepsIInv, InitRInv, NextKeepsRInv, PTL DEF Spec

==============================================================================
