---------------------------- MODULE Reconciliation ----------------------------
(***************************************************************************)
(* The expected payments of one merchant (every query filters by it):      *)
(* their import and their reconciliation with the transactions that arrive *)
(* (routes/reconciliation.py, services/reconciliation.py), in concurrent   *)
(* requests, one step per SQL statement at READ COMMITTED.                 *)
(***************************************************************************)
EXTENDS Matching, Sequences, SequencesExt, Relation

CONSTANTS
  Requests,   \* HTTP requests
  Earlier,    \* payments imported before
  Payments,   \* the transactions that may be recorded
  Imports,    \* the bodies that may be imported
  Ranges      \* the periods <<from, to>> that may be reconciled

VARIABLES
  transactions,   \* committed transactions
  expected,       \* committed expected_payments
  matched,        \* ids of those whose status is matched; the others are pending
  batches,        \* committed expected_payment_import_batches
  runs,           \* committed reconciliation_runs with their results, and (not in
                  \* the database) the payments and transactions they compared
  pc,             \* the statement each request executes next
  input,          \* what each request asks for
  work,           \* what each request has read and written and not committed
  answer          \* how each request was answered

vars == <<transactions, expected, matched, batches, runs, pc, input, work, answer>>
tables == <<transactions, expected, matched, batches, runs>>

\* A row the schema accepts.  The database cannot even look for an "unsearchable" one
\* (an amount beyond its column) and cannot store an "unstorable" one (a text longer
\* than its column).
Row == [form : {"good", "unsearchable", "unstorable"}, item : Expectation]

\* What validation makes of a body: the rows the schema accepts, and how many it refuses.
Body == [items : Seq(Row), errors : Nat]

ImportInput == [kind : {"import"}, received : Nat, rows : Seq(Row)]
RunInput    == [kind : {"run"}, from : Int, to : Int]

ASSUME ReconciliationAssumption ==
  /\ Payments \subseteq Payment
  /\ \A t, u \in Payments : t.id = u.id => t = u
  /\ Imports \subseteq Body
  /\ None \notin Requests
  /\ Earlier \subseteq Expectation /\ IsFiniteSet(Earlier)
  /\ \A e, f \in Earlier : e.ref = f.ref => e = f
  /\ Ranges \subseteq Int \X Int

\* The status of the response and the rows it says were inserted.
Answer(status, inserted) == [status |-> status, inserted |-> inserted]

Idle == [at |-> 1, rows |-> {}, inserted |-> 0, skipped |-> 0, rejected |-> 0, dead |-> FALSE,
         known |-> {}, queue |-> <<>>, loaded |-> {}, seen |-> {}, results |-> {}, marked |-> {}]

Init ==
  /\ transactions = {}
  /\ expected = {[id |-> <<None, e.ref>>, item |-> e] : e \in Earlier}
  /\ matched = {}
  /\ batches = {}
  /\ runs = {}
  /\ pc = [r \in Requests |-> "idle"]
  /\ input = [r \in Requests |-> None]
  /\ work = [r \in Requests |-> Idle]
  /\ answer = [r \in Requests |-> Answer("none", 0)]

Goto(r, statement) == pc' = [pc EXCEPT ![r] = statement] /\ UNCHANGED <<tables, input, answer>>

End(r, status) ==
  /\ pc' = [pc EXCEPT ![r] = "done"]
  /\ work' = [work EXCEPT ![r] = Idle]
  /\ answer' = [answer EXCEPT ![r] = Answer(status, work[r].inserted)]
  /\ UNCHANGED input

\* The transaction ends and keeps nothing.
Discard(r, status) == End(r, status) /\ UNCHANGED tables

------------------------------------------------------------------------------
\* A webhook or a sync records a transaction.
Record ==
  /\ \E t \in Payments \ transactions : transactions' = transactions \cup {t}
  /\ UNCHANGED <<expected, matched, batches, runs, pc, input, work, answer>>

\* Rows the schema refuses are rejected before the import begins.
ArriveImport(r) ==
  /\ pc[r] = "idle"
  /\ \E body \in Imports :
       LET received == Len(body.items) + body.errors IN
       /\ input' = [input EXCEPT ![r] = [kind |-> "import", received |-> received, rows |-> body.items]]
       /\ work' = [work EXCEPT ![r].rejected = received - Len(body.items)]
  /\ pc' = [pc EXCEPT ![r] = "import_row"]
  /\ UNCHANGED <<tables, answer>>

ArriveRun(r) ==
  /\ pc[r] = "idle"
  /\ \E period \in Ranges :
       /\ input' = [input EXCEPT ![r] = [kind |-> "run", from |-> period[1], to |-> period[2]]]
       /\ IF period[1] < period[2]
          THEN pc' = [pc EXCEPT ![r] = "load_expected"] /\ UNCHANGED answer
          ELSE pc' = [pc EXCEPT ![r] = "done"] /\ answer' = [answer EXCEPT ![r] = Answer("400", 0)]
  /\ UNCHANGED <<tables, work>>

------------------------------------------------------------------------------
(***************************************************************************)
(* The import.  A row is added to the session and inserted by the flush    *)
(* before the next statement, so an unstorable one among `rows` has not    *)
(* been inserted yet: that flush will fail, and leave the session dead.    *)
(***************************************************************************)
Unstorable(r) == \E row \in work[r].rows : row.form = "unstorable"

ItemAt(r) == input[r].rows[work[r].at]

Stored(r) == {e.item : e \in expected \cup work[r].rows}

Importing(r) == pc[r] = "import_row" /\ work[r].at <= Len(input[r].rows)

\* The select raises, or the flush before it does: the row is rejected.
RejectRow(r) ==
  /\ Importing(r)
  /\ work[r].dead \/ Unstorable(r) \/ ItemAt(r).form = "unsearchable"
  /\ Goto(r, "import_row")
  /\ work' = [work EXCEPT ![r].at = @ + 1, ![r].rejected = @ + 1,
                          ![r].dead = @ \/ Unstorable(r),
                          ![r].rows = IF Unstorable(r) THEN {} ELSE @]

ConsiderRow(r, there) ==
  LET row == ItemAt(r) IN
  /\ Importing(r)
  /\ ~work[r].dead /\ ~Unstorable(r) /\ row.form # "unsearchable"
  /\ Goto(r, "import_row")
  /\ work' = IF there THEN [work EXCEPT ![r].at = @ + 1, ![r].skipped = @ + 1]
             ELSE [work EXCEPT ![r].at = @ + 1, ![r].inserted = @ + 1,
                     ![r].rows = @ \cup {[id |-> <<r, work[r].at>>, form |-> row.form, item |-> row.item]}]

\* What the select compares of a row; who pays is left out.
Sought(item) == [ref |-> item.ref, amount |-> item.amount, currency |-> item.currency, day |-> item.day]

\* Altered form: the select does not see the rows of the same import.
ImportRowBlind(r) == ConsiderRow(r, \E e \in expected : Sought(e.item) = Sought(ItemAt(r).item))

ImportRow(r) == ConsiderRow(r, \E item \in Stored(r) : Sought(item) = Sought(ItemAt(r).item))

BatchOf(r) == [id |-> r, received |-> input[r].received, inserted |-> work[r].inserted,
               skipped |-> work[r].skipped, rejected |-> work[r].rejected]

\* The last flush raises for an unstorable row that came last; after an earlier one
\* it has nothing to do, and the dead transaction is closed without a word.
FinishImport(r) ==
  /\ pc[r] = "import_row" /\ work[r].at > Len(input[r].rows)
  /\ IF Unstorable(r) THEN Discard(r, "500")
     ELSE IF work[r].dead THEN Discard(r, "200")
     ELSE /\ \E status \in {"200", "lost"} : End(r, status)
          /\ expected' = expected \cup {[id |-> e.id, item |-> e.item] : e \in work[r].rows}
          /\ batches' = batches \cup {BatchOf(r)}
          /\ UNCHANGED <<transactions, matched, runs>>

------------------------------------------------------------------------------
(***************************************************************************)
(* The run.                                                                *)
(***************************************************************************)
Within(r, day) == day \in input[r].from..input[r].to

LoadExpected(r) ==
  /\ pc[r] = "load_expected"
  /\ Goto(r, "load_transactions")
  /\ work' = [work EXCEPT ![r].loaded = {e \in expected : Within(r, e.item.day)},
                          ![r].known = matched]

\* The orders the expected payments may be taken in, by their keys.
Orders(es, ts) ==
  {q \in SetToSeqs(es) : \A i, j \in DOMAIN q :
     i < j => ~Before(SortKey(q[j].item, ts), SortKey(q[i].item, ts))}

LoadTransactions(r) ==
  LET seen == {t \in transactions : Within(r, t.day)} IN
  /\ pc[r] = "load_transactions"
  /\ Goto(r, "match")
  /\ \E q \in Orders(work[r].loaded, seen) :
       work' = [work EXCEPT ![r].seen = seen, ![r].queue = q]

\* The transactions matched in this run so far.
Taken(r) == {x.txn : x \in {y \in work[r].results : y.status \notin {"unmatched", "ambiguous"}}}

Verdicts(r) == Outcome(Head(work[r].queue).item, work[r].seen, Taken(r))

\* The next payment becomes matched: its row is updated when it was read as pending.
Marks(r) ==
  IF Verdicts(r).status = "matched" THEN {Head(work[r].queue).id} \ work[r].known ELSE {}

Pairing(r) == pc[r] = "match" /\ work[r].queue # <<>>

Holds(r) == work[r].marked

WaitsFor(r, q) == r # q /\ Pairing(r) /\ Marks(r) \cap Holds(q) # {}

\* Altered forms: every result marks its payment; a payment that takes no
\* transaction is left out.
MatchMarking(r) ==
  /\ Pairing(r)
  /\ Goto(r, "match")
  /\ work' = [work EXCEPT ![r].queue = Tail(@), ![r].marked = @ \cup {Head(work[r].queue).id},
                ![r].results = @ \cup {[expected |-> Head(work[r].queue), txn |-> Verdicts(r).txn,
                                        status |-> Verdicts(r).status, score |-> Verdicts(r).score]}]

MatchFound(r) ==
  /\ Pairing(r)
  /\ \A q \in Requests : ~WaitsFor(r, q)
  /\ Goto(r, "match")
  /\ work' = [work EXCEPT ![r].queue = Tail(@), ![r].marked = @ \cup Marks(r),
                ![r].results = @ \cup
                  {x \in {[expected |-> Head(work[r].queue), txn |-> Verdicts(r).txn,
                           status |-> Verdicts(r).status, score |-> Verdicts(r).score]} : x.txn # None}]

Match(r) ==
  /\ Pairing(r)
  /\ \A q \in Requests : ~WaitsFor(r, q)
  /\ Goto(r, "match")
  /\ work' = [work EXCEPT ![r].queue = Tail(@), ![r].marked = @ \cup Marks(r),
                ![r].results = @ \cup {[expected |-> Head(work[r].queue), txn |-> Verdicts(r).txn,
                                        status |-> Verdicts(r).status, score |-> Verdicts(r).score]}]

RunOf(r) == [id |-> r, count |-> Cardinality(work[r].loaded), results |-> work[r].results,
             loaded |-> work[r].loaded, seen |-> work[r].seen]

FinishRun(r) ==
  /\ pc[r] = "match" /\ work[r].queue = <<>>
  /\ \E status \in {"200", "lost"} : End(r, status)
  /\ matched' = matched \cup work[r].marked
  /\ runs' = runs \cup {RunOf(r)}
  /\ UNCHANGED <<transactions, expected, batches>>

------------------------------------------------------------------------------
\* A statement of a run fails: the route marks the run failed and answers 500, and
\* with the error get_db rolls everything back, the mark and the run included.
FailRun(r) ==
  /\ pc[r] \in {"load_expected", "load_transactions", "match"}
  /\ Discard(r, "500")

InCycle(r) == TransitiveClosure([p, q \in Requests |-> WaitsFor(p, q)], Requests)[r, r]

BreakDeadlock(r) ==
  /\ InCycle(r)
  /\ Discard(r, "500")

\* The process or its connection dies.
Abort(r) == pc[r] \notin {"idle", "done"} /\ Discard(r, "lost")

Step(r) ==
  \/ RejectRow(r) \/ ImportRow(r) \/ FinishImport(r)
  \/ LoadExpected(r) \/ LoadTransactions(r) \/ Match(r) \/ FinishRun(r)
  \/ BreakDeadlock(r)

Next ==
  \/ Record
  \/ \E r \in Requests : ArriveImport(r) \/ ArriveRun(r) \/ Step(r) \/ FailRun(r) \/ Abort(r)

Spec == Init /\ [][Next]_vars

\* The event loop resumes a request when the database answers, and the database
\* answers or breaks the deadlock.
FairSpec == Spec /\ \A r \in Requests : WF_vars(Step(r))

------------------------------------------------------------------------------
(***************************************************************************)
(* Properties.                                                             *)
(***************************************************************************)
ExpectedRow == [id : (Requests \cup {None}) \X Nat, item : Expectation]
ResultRow == [expected : ExpectedRow, txn : Nat \cup {None}, score : 0..10000,
              status : {"matched", "weak", "unmatched", "duplicate", "underpaid", "overpaid", "ambiguous"}]

\* Every variable has its type.
TypeOK ==
  /\ transactions \subseteq Payments
  /\ expected \subseteq ExpectedRow
  /\ matched \subseteq {e.id : e \in expected}
  /\ batches \subseteq [id : Requests, received : Nat, inserted : Nat, skipped : Nat, rejected : Nat]
  /\ \A u \in runs : u.results \subseteq ResultRow /\ u.loaded \subseteq expected
  /\ pc \in [Requests -> {"idle", "import_row", "load_expected", "load_transactions", "match", "done"}]
  /\ \A r \in Requests : answer[r].status \in {"none", "200", "400", "500", "lost"}
  /\ \A r \in Requests : input[r] # None => input[r] \in ImportInput \cup RunInput

\* A batch accounts for every row it received, and the rows it says it inserted
\* are the rows in the table.
BatchesAddUp ==
  \A b \in batches :
    /\ b.received = b.inserted + b.skipped + b.rejected
    /\ b.inserted = Cardinality({e \in expected : e.id[1] = b.id})

\* One import never inserts the same payment twice, though it selects before
\* it has committed anything.
ImportsHaveNoRepeats ==
  \A e, f \in expected : e.id[1] = f.id[1] /\ Sought(e.item) = Sought(f.item) => e = f

\* What imports leave in the tables is of its type, without repeats, and what the
\* batches say it is.
ImportsAreExact == TypeOK /\ BatchesAddUp /\ ImportsHaveNoRepeats

\* A run has one result for each expected payment of its period and no other,
\* whatever was imported or reconciled meanwhile.
RunsAreComplete ==
  \A u \in runs :
    /\ {x.expected : x \in u.results} = u.loaded
    /\ Cardinality(u.results) = u.count

\* An expected payment is matched when, and only when, a run in the database
\* says so: a run rolled back or killed leaves no mark.
MatchedIsEarned ==
  matched = UNION {{x.expected.id : x \in {y \in u.results : y.status = "matched"}} : u \in runs}

\* What a run's summary calls matched was received: the expected amounts of its
\* matched results are the amounts of as many transactions.
MatchedMoneyWasReceived ==
  \A u \in runs :
    LET hits == {x \in u.results : x.status = "matched"}
        Paying(x) == CHOOSE t \in u.seen : t.id = x.txn IN
    MapThenSumSet(LAMBDA x : x.expected.item.amount, hits)
      = MapThenSumSet(LAMBDA t : t.amount, {Paying(x) : x \in hits})

\* A match is real: a run in the database made it, and with money that came in.
MatchesAreReal == MatchedIsEarned /\ MatchedMoneyWasReceived

\* The cascade agrees with score_match: a result names the one transaction of the
\* best score, is ambiguous among several and unmatched when none scores at all.
BestScoreWins ==
  \A u \in runs : \A x \in u.results :
    LET S(t) == Score(x.expected.item, t).score
        best == {t \in u.seen : S(t) > 0 /\ \A v \in u.seen : S(v) <= S(t)} IN
    /\ x.status = "unmatched" <=> best = {}
    /\ x.status = "ambiguous" <=> Cardinality(best) > 1
    /\ x.txn # None => {t.id : t \in best} = {x.txn}

\* A payment called a duplicate lost its transaction to another one of the run,
\* and never to one that names no transaction of the run when it does.
DuplicatesLostFairly ==
  \A u \in runs : \A x \in u.results : x.status = "duplicate" =>
    \E y \in u.results :
      /\ y.txn = x.txn /\ y.status # "duplicate"
      /\ (\E t \in u.seen : SameReference(x.expected.item, t)) =>
           \E t \in u.seen : SameReference(y.expected.item, t)

\* Imports and runs, waiting for one another's rows or not, are all answered.
EveryRequestEnds == \A r \in Requests : pc[r] # "idle" ~> pc[r] = "done"

------------------------------------------------------------------------------
(***************************************************************************)
(* What tests and documents of the repository say, and the code does not do. *)
(***************************************************************************)

\* test_import_expected_payments_json (tests/test_reconciliation.py:46-58): the
\* payments an import answers it has inserted are in the table.
ReportedRowsAreStored ==
  \A r \in Requests : answer[r].status = "200" =>
    Cardinality({e \in expected : e.id[1] = r}) = answer[r].inserted
=============================================================================
