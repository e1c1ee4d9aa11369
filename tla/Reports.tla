-------------------------------- MODULE Reports --------------------------------
(***************************************************************************)
(* Requests that answer from what they read.  A report reads the tables    *)
(* one SELECT after another, each of what is committed at that moment      *)
(* (READ COMMITTED), while webhooks, syncs and users commit changes.       *)
(* The reports themselves are operators of what was read; the modules that *)
(* extend this one define them, and Reporting puts them together.          *)
(*                                                                         *)
(* Time is counted in half hours.  A report takes its time when it begins  *)
(* and lasts much less than half an hour: Now does not change.             *)
(***************************************************************************)
EXTENDS Integers, SequencesExt

CONSTANTS
  Requests,    \* calls of the API
  Operations,  \* what each may ask for: records with a name and parameters
  Stores,      \* the committed rows there may be at first: sets of rows, by table
  Arrivals,    \* rows others may commit meanwhile: records [table, row]
  MaxChanges,  \* how many changes others commit
  Now,
  None

VARIABLES
  store,       \* the committed rows, by table
  changes,     \* how many changes others have committed
  pc,          \* what each request does next
  op,          \* what each request asks for
  got,         \* what it has read: for each part of the report the result of each statement
  touched,     \* rows that others have changed or inserted since the request began
  answer       \* how it was answered

vars == <<store, changes, pc, op, got, touched, answer>>

ASSUME ReportsAssumption == MaxChanges \in Nat /\ Now \in Nat

\* A row has an identity; no two rows of a table have the same.
IsRow(x) == "id" \in DOMAIN x /\ x = [column \in DOMAIN x |-> x[column]]

Tables == {"transactions", "events", "incidents", "jobs", "runs", "accounts"}

Database(s) ==
  /\ s = [table \in DOMAIN s |-> s[table]] /\ Tables \subseteq DOMAIN s
  /\ \A table \in DOMAIN s : (\A x \in s[table] : IsRow(x)) /\ \A x, y \in s[table] : x.id = y.id => x = y

\* The rows of the others have an identity, which is not what a request gives to its own.
ASSUME DatabaseAssumption ==
  /\ \A s \in Stores : Database(s) /\ \A table \in DOMAIN s : \A x \in s[table] : x.id \notin Requests \cup {None}
  /\ \A a \in Arrivals : IsRow(a.row) /\ a.row.id \notin Requests \cup {None}
  /\ None \notin {"200", "400", "403", "404", "500"} /\ \A r \in Requests : None \notin Operations[r]

Hour == 2
Day == 24 * Hour
DayOf(time) == time \div Day
Today == DayOf(Now)

TransactionStatus == {"pending", "success", "failed", "settled", "canceled"}

(* ---- Statements ---- *)

\* A query: the rows that match, how they are ordered (larger first) and how many it takes.
Every(rows) == [rows |-> rows, order |-> [t \in rows |-> 0], limit |-> Cardinality(rows)]
Some(rows, n) == [Every(rows) EXCEPT !.limit = n]
Largest(rows, Key(_), n) == [rows |-> rows, order |-> [t \in rows |-> Key(t)], limit |-> n]
Latest(rows, n) == Largest(rows, LAMBDA t : t.at, n)

\* The results a query may have: among equals any rows are taken.
Results(q) ==
  IF Cardinality(q.rows) <= q.limit THEN {q.rows}
  ELSE {taken \in kSubset(q.limit, q.rows) :
          \A t \in taken, u \in q.rows \ taken : q.order[t] >= q.order[u]}

Own(m, rows) == {t \in rows : t.merchant = m}
In(rows, statuses) == {t \in rows : t.status \in statuses}
Count(rows) == Cardinality(rows)
Amount(rows) == MapThenSumSet(LAMBDA t : t.amount, rows)

\* The rows in a sequence, each inserted after those that it does not come before.
SortedBy(rows, before) ==
  FoldSet(LAMBDA x, sorted :
            InsertAt(sorted, 1 + Cardinality({i \in DOMAIN sorted : <<x, sorted[i]>> \notin before}), x), <<>>, rows)

Sorted(rows, Before(_, _)) == LET before == {c \in rows \X rows : Before(c[1], c[2])} IN SortedBy(rows, before)

\* A percentage in hundredths; the code rounds to two digits, this truncates.
Rate(part, whole) == IF whole = 0 THEN 0 ELSE (10000 * part) \div whole

Mean(values, rows) == IF rows = {} THEN 0 ELSE values \div Cardinality(rows)

(* ---- Access: what every route checks first ---- *)

AllowedRoles == {"admin", "merchant_user", "finance"}

Effective(o) == IF o.merchant # None THEN o.merchant ELSE o.user

\* _check_merchant_access and the checks before it; None when the report may be made.
Refusal(o, roles) ==
  IF o.role \notin roles THEN "403"
  ELSE IF Effective(o) = None THEN "400"
  ELSE IF o.role # "admin" /\ o.user # Effective(o) THEN "403" ELSE None

Answer(r, status) ==
  /\ answer' = [answer EXCEPT ![r] = status]
  /\ pc' = [pc EXCEPT ![r] = "done"]

\* r has read all that a report of one of these names reads.
Reported(r, names) == pc[r] \in {"respond", "save", "done"} /\ op[r].name \in names /\ got[r] # <<>>

\* The rows that nobody has touched since r's report began.
Still(r, rows) == {x \in rows : x.id \notin touched[r]}

\* Scores and confidences are parts of ten thousand.
InScale(score) == score \in 0..10000

(* ---- The rest of the platform ---- *)

Touch(ids) ==
  touched' = [r \in Requests |-> IF pc[r] = "idle" THEN touched[r] ELSE touched[r] \cup ids]

Busy == \E r \in Requests : pc[r] \in {"read", "save"}

Change(id) ==
  /\ Busy /\ changes < MaxChanges
  /\ changes' = changes + 1
  /\ Touch({id})
  /\ UNCHANGED <<pc, op, got, answer>>

\* A webhook or a sync overwrites the status of a transaction.
ChangeStatus ==
  \E t \in store.transactions, status \in {"success", "failed", "settled"} :
    /\ t.status # status
    /\ store' = [store EXCEPT !.transactions = (@ \ {t}) \cup {[t EXCEPT !.status = status]}]
    /\ Change(t.id)

\* Another request commits a row.
CommitRow ==
  \E a \in Arrivals :
    /\ a.row.id \notin {t.id : t \in store[a.table]}
    /\ store' = [store EXCEPT ![a.table] = @ \cup {a.row}]
    /\ Change(a.row.id)
==============================================================================
