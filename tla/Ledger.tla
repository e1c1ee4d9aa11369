-------------------------------- MODULE Ledger --------------------------------
(***************************************************************************)
(* The double-entry ledger (services/ledger.py, routes/ledger.py).         *)
(* A request runs in one database transaction and takes one step per SQL   *)
(* statement; requests interleave between statements at READ COMMITTED, so *)
(* a select sees only committed rows, and an insert under a unique index   *)
(* waits for an uncommitted row with the same value.  An uncommitted row   *)
(* is not a variable: `pc` says which requests hold one.                   *)
(***************************************************************************)
EXTENDS Integers, Sequences, FiniteSetsExt

CONSTANTS
  Requests,         \* HTTP requests (and service calls), also naming the row each inserts
  Merchants, Codes, \* merchants, account codes
  Keys, EmptyKey,   \* idempotency keys; the empty string, which Python tests as false
  None,             \* Python's None: no key, no account code, no entry
  Inputs,           \* the request bodies that may arrive
  InitialAccounts   \* the accounts already in the database

VARIABLES
  accounts,         \* committed rows of ledger_accounts
  entries,          \* committed rows of journal_entries, each with its ledger_lines
  fees,             \* committed rows of fee_records
  pc,               \* the statement each request executes next
  input,            \* the body of each request
  answer            \* the status of each request, and the entry it was answered with

vars == <<accounts, entries, fees, pc, input, answer>>

Account == [merchant : Merchants, code : Codes]

Line == [code : Codes \cup {None}, amount : Int, type : {"DEBIT", "CREDIT", "OTHER"}]

JournalEntry == [id : Requests, merchant : Merchants, account : Account,
                 key : Keys \cup {None}, lines : Seq(Line)]

FeeRecord == [id : Requests, merchant : Merchants, entry : Requests, amount : Int]

AccountInput == [kind : {"account"}, account : Account]
PostInput    == [kind : {"post"}, merchant : Merchants, account : Account,
                 key : Keys \cup {None}, lines : Seq(Line)]
FeeInput     == [kind : {"fee"}, merchant : Merchants, entry : Requests, amount : Int]

Status == {"none", "200", "400", "500", "conflict", "lost"}

ASSUME LedgerAssumption ==
  /\ EmptyKey \in Keys
  /\ None \notin Keys \cup Codes \cup Requests
  /\ InitialAccounts \subseteq Account
  /\ Inputs \subseteq AccountInput \cup PostInput \cup FeeInput

------------------------------------------------------------------------------
(***************************************************************************)
(* Validation and totals.                                                  *)
(***************************************************************************)
Total(lines, type) ==
  MapThenSumSet(LAMBDA i : lines[i].amount, {i \in DOMAIN lines : lines[i].type = type})

Balanced(lines) == Total(lines, "DEBIT") = Total(lines, "CREDIT")

Valid(lines) ==
  /\ Len(lines) >= 2
  /\ \A i \in DOMAIN lines : lines[i].type \in {"DEBIT", "CREDIT"} /\ lines[i].amount > 0
  /\ Balanced(lines)

\* The NOT NULL column of ledger_lines that validation does not look at.
Storable(lines) == \A i \in DOMAIN lines : lines[i].code # None

------------------------------------------------------------------------------
Init ==
  /\ accounts = InitialAccounts
  /\ entries = {}
  /\ fees = {}
  /\ pc = [r \in Requests |-> "idle"]
  /\ input = [r \in Requests |-> None]
  /\ answer = [r \in Requests |-> [status |-> "none", entry |-> None]]

tables == <<accounts, entries, fees>>

Goto(r, statement) ==
  /\ pc' = [pc EXCEPT ![r] = statement]
  /\ UNCHANGED <<tables, input, answer>>

\* The route rolls back and answers with an error status.
Refuse(r, status) ==
  /\ pc' = [pc EXCEPT ![r] = "done"]
  /\ answer' = [answer EXCEPT ![r] = [status |-> status, entry |-> None]]
  /\ UNCHANGED <<tables, input>>

\* The rows a request inserts.
EntryOf(r) == [id |-> r, merchant |-> input[r].merchant, account |-> input[r].account,
               key |-> input[r].key, lines |-> input[r].lines]

FeeOf(r) == [id |-> r, merchant |-> input[r].merchant, entry |-> input[r].entry,
             amount |-> input[r].amount]

\* r holds the uncommitted row of an entry with this key.
Posting(r, key) ==
  /\ pc[r] \in {"insert_lines", "commit"}
  /\ answer[r].entry = r
  /\ key # None
  /\ input[r].key = key

\* Altered forms: no unique index at all; a select that reads uncommitted rows.
EntriesOfUnindexed(key) == {e \in entries : key \notin Keys \cup {None}}

EntriesOfDirty(key) == {e \in entries \cup {EntryOf(q) : q \in {p \in Requests : Posting(p, key)}} :
                          key # None /\ e.key = key}

\* The committed entries with a key; NULL keys never match one another.
EntriesOf(key) == {e \in entries : key # None /\ e.key = key}

Arrive(r) ==
  /\ pc[r] = "idle"
  /\ \E i \in Inputs :
       /\ input' = [input EXCEPT ![r] = i]
       /\ pc' = [pc EXCEPT ![r] = CASE i.kind = "account" -> "select_account"
                                    [] i.kind = "post"    -> "check_account"
                                    [] i.kind = "fee"     -> "insert_fee"]
  /\ UNCHANGED <<tables, answer>>

\* get_or_create_account: the select, and the insert of what it did not find.
SelectAccount(r) ==
  /\ pc[r] = "select_account"
  /\ Goto(r, IF input[r].account \in accounts THEN "commit" ELSE "insert_account")

\* r holds the uncommitted row of an account it opens.
Opening(r, a) == pc[r] = "commit" /\ input[r].kind = "account" /\ input[r].account = a

InsertAccount(r) ==
  LET a == input[r].account IN
  /\ pc[r] = "insert_account"
  /\ \/ /\ a \in accounts
        /\ Refuse(r, "conflict")
     \/ /\ a \notin accounts
        /\ \A q \in Requests : ~Opening(q, a)
        /\ Goto(r, "commit")

\* Altered form: any open account will do.
CheckAccountOfAnyone(r) ==
  /\ pc[r] = "check_account"
  /\ IF input[r].account \in accounts THEN Goto(r, "check_key") ELSE Refuse(r, "500")

\* The route's select of the account a posting names.
CheckAccount(r) ==
  /\ pc[r] = "check_account"
  /\ IF /\ input[r].account \in accounts
        /\ input[r].account.merchant = input[r].merchant
     THEN Goto(r, "check_key")
     ELSE Refuse(r, "500")

\* post_journal_entry up to its insert: the idempotency select, then validation.
CheckKey(r) ==
  LET found == IF input[r].key = EmptyKey THEN {} ELSE EntriesOf(input[r].key) IN
  /\ pc[r] = "check_key"
  /\ \/ \E e \in found :
          /\ pc' = [pc EXCEPT ![r] = "commit"]
          /\ answer' = [answer EXCEPT ![r].entry = e.id]
          /\ UNCHANGED <<tables, input>>
     \/ /\ found = {}
        /\ IF Valid(input[r].lines) THEN Goto(r, "insert_entry") ELSE Refuse(r, "400")

\* Altered forms: an uncommitted row is refused at once; a committed one is waited for.
InsertEntryUnwaiting(r) ==
  /\ pc[r] = "insert_entry"
  /\ IF \E q \in Requests : Posting(q, input[r].key) \/ EntriesOf(input[r].key) # {}
     THEN Refuse(r, "conflict")
     ELSE /\ pc' = [pc EXCEPT ![r] = "insert_lines"]
          /\ answer' = [answer EXCEPT ![r].entry = r]
          /\ UNCHANGED <<tables, input>>

InsertEntryPatient(r) ==
  /\ pc[r] = "insert_entry"
  /\ EntriesOf(input[r].key) = {}
  /\ \A q \in Requests : ~Posting(q, input[r].key)
  /\ pc' = [pc EXCEPT ![r] = "insert_lines"]
  /\ answer' = [answer EXCEPT ![r].entry = r]
  /\ UNCHANGED <<tables, input>>

\* The insert of the entry, which waits for an uncommitted row with its key.
InsertEntry(r) ==
  LET key == input[r].key IN
  /\ pc[r] = "insert_entry"
  /\ \/ /\ EntriesOf(key) # {}
        /\ Refuse(r, "conflict")
     \/ /\ EntriesOf(key) = {}
        /\ \A q \in Requests : ~Posting(q, key)
        /\ pc' = [pc EXCEPT ![r] = "insert_lines"]
        /\ answer' = [answer EXCEPT ![r].entry = r]
        /\ UNCHANGED <<tables, input>>

\* Altered form: the entry is committed before its lines are written.
InsertLinesLate(r) ==
  /\ pc[r] = "insert_lines"
  /\ IF Storable(input[r].lines)
     THEN Goto(r, "commit")
     ELSE /\ entries' = entries \cup {EntryOf(r)}
          /\ pc' = [pc EXCEPT ![r] = "done"]
          /\ answer' = [answer EXCEPT ![r].status = "500"]
          /\ UNCHANGED <<accounts, fees, input>>

InsertLines(r) ==
  /\ pc[r] = "insert_lines"
  /\ IF Storable(input[r].lines) THEN Goto(r, "commit") ELSE Refuse(r, "500")

\* record_fee: its check, and the insert under the foreign key to the entry.
InsertFee(r) ==
  /\ pc[r] = "insert_fee"
  /\ CASE input[r].amount <= 0 -> Refuse(r, "400")
       [] input[r].amount > 0 /\ input[r].entry \notin {e.id : e \in entries} -> Refuse(r, "500")
       [] OTHER -> Goto(r, "commit")

\* The rows of r's transaction become visible; the answer may be lost on its way.
Commit(r) ==
  LET i == input[r] IN
  /\ pc[r] = "commit"
  /\ accounts' = IF i.kind = "account" THEN accounts \cup {i.account} ELSE accounts
  /\ entries' = IF answer[r].entry = r THEN entries \cup {EntryOf(r)} ELSE entries
  /\ fees' = IF i.kind = "fee" THEN fees \cup {FeeOf(r)} ELSE fees
  /\ pc' = [pc EXCEPT ![r] = "done"]
  /\ \E s \in {"200", "lost"} : answer' = [answer EXCEPT ![r].status = s]
  /\ UNCHANGED input

\* The process or its connection dies: the database rolls the transaction back.
Abort(r) ==
  /\ pc[r] \notin {"idle", "done"}
  /\ Refuse(r, "lost")

Step(r) ==
  \/ SelectAccount(r) \/ InsertAccount(r)
  \/ CheckAccount(r) \/ CheckKey(r) \/ InsertEntry(r) \/ InsertLines(r)
  \/ InsertFee(r)
  \/ Commit(r)

Next == \E r \in Requests : Arrive(r) \/ Step(r) \/ Abort(r)

Spec == Init /\ [][Next]_vars

\* An arrived request keeps running: the event loop resumes its coroutine
\* whenever the database answers.  Nothing makes a request arrive or die.
FairSpec == Spec /\ \A r \in Requests : WF_vars(Step(r))

------------------------------------------------------------------------------
(***************************************************************************)
(* get_account_balance, and the totals of the lines naming an account.     *)
(***************************************************************************)
DebitTotal(a)  == MapThenSumSet(LAMBDA e : Total(e.lines, "DEBIT"), {e \in entries : e.account = a})
CreditTotal(a) == MapThenSumSet(LAMBDA e : Total(e.lines, "CREDIT"), {e \in entries : e.account = a})
NetBalance(a)  == DebitTotal(a) - CreditTotal(a)

LinesOn(lines, a, type) ==
  MapThenSumSet(LAMBDA i : lines[i].amount,
                {i \in DOMAIN lines : lines[i].type = type /\ lines[i].code = a.code})

NetOfLines(a) ==
  MapThenSumSet(LAMBDA e : LinesOn(e.lines, a, "DEBIT") - LinesOn(e.lines, a, "CREDIT"),
                {e \in entries : e.merchant = a.merchant})

------------------------------------------------------------------------------
(***************************************************************************)
(* Properties.                                                             *)
(***************************************************************************)

\* Every variable has its type.
TypeOK ==
  /\ accounts \subseteq Account
  /\ entries \subseteq JournalEntry
  /\ fees \subseteq FeeRecord
  /\ pc \in [Requests -> {"idle", "select_account", "insert_account", "check_account", "check_key",
                         "insert_entry", "insert_lines", "insert_fee", "commit", "done"}]
  /\ input \in [Requests -> Inputs \cup {None}]
  /\ answer \in [Requests -> [status : Status, entry : Requests \cup {None}]]

\* Posting the same idempotency key again never adds an entry, whatever the
\* requests racing between the key's select and its insert.
OneEntryPerKey ==
  \A e, f \in entries : e.key # None /\ e.key = f.key => e = f

\* Every committed entry is a complete double entry on an open account of the
\* merchant that posted it: no half-written entry outlives its transaction.
EntriesWellFormed ==
  \A e \in entries :
    /\ Valid(e.lines)
    /\ Storable(e.lines)
    /\ e.account \in accounts
    /\ e.account.merchant = e.merchant

\* A posting answered 200 names a committed entry: its own, or the one that
\* already had its key.
AnswersAreDurable ==
  \A r \in Requests :
    answer[r].status = "200" /\ input[r].kind = "post" =>
      \E e \in entries :
        /\ e.id = answer[r].entry
        /\ e.id = r \/ e.key = input[r].key

\* A request answered with an error leaves no row behind.
RefusedLeavesNothing ==
  \A r \in Requests : answer[r].status \in {"400", "500", "conflict"} =>
    /\ r \notin {e.id : e \in entries}
    /\ r \notin {f.id : f \in fees}

\* A request that lost a race on a unique index lost it to a row that is
\* there: sending it again finds that row.
ConflictMeansPresent ==
  \A r \in Requests : answer[r].status = "conflict" =>
    IF input[r].kind = "post" THEN EntriesOf(input[r].key) # {}
                              ELSE input[r].account \in accounts

\* Waiting on another request's uncommitted row never lasts for ever: every
\* request that arrives is answered.
EveryRequestEnds ==
  \A r \in Requests : pc[r] # "idle" ~> pc[r] = "done"

\* The inductive invariant.  A statement is reached only with the kind of body
\* it belongs to ...
KindsByStatement ==
  \A r \in Requests :
    /\ pc[r] # "idle" => input[r] \in Inputs
    /\ pc[r] \in {"select_account", "insert_account"} => input[r].kind = "account"
    /\ pc[r] \in {"check_account", "check_key", "insert_entry", "insert_lines"} =>
         input[r].kind = "post"
    /\ pc[r] = "insert_fee" => input[r].kind = "fee"

\* ... a request that is still running has no status yet, and the entry it will
\* be answered with is its own uncommitted row or a committed one of its key ...
EntryToAnswer ==
  \A r \in Requests :
    /\ pc[r] # "done" => answer[r].status = "none"
    /\ pc[r] \notin {"insert_lines", "commit", "done"} => answer[r].entry = None
    /\ pc[r] = "insert_lines" => answer[r].entry = r
    /\ answer[r].entry = None /\ (pc[r] = "commit" \/ answer[r].status = "200") =>
         input[r].kind # "post"
    /\ answer[r].entry # None => input[r].kind = "post"
    /\ answer[r].entry \notin {None, r} =>
         \E e \in entries : e.id = answer[r].entry /\ e.key = input[r].key
    /\ answer[r].entry = r /\ answer[r].status \in {"200", "lost"} =>
         \E e \in entries : e.id = r

\* ... an entry about to be inserted or committed has passed the checks before it ...
ChecksPassed ==
  \A r \in Requests :
    /\ pc[r] \in {"check_key", "insert_entry", "insert_lines"} =>
         input[r].account \in accounts /\ input[r].account.merchant = input[r].merchant
    /\ pc[r] \in {"insert_entry", "insert_lines"} => Valid(input[r].lines)
    /\ pc[r] = "commit" /\ answer[r].entry = r =>
         /\ input[r].account \in accounts /\ input[r].account.merchant = input[r].merchant
         /\ Valid(input[r].lines)
         /\ Storable(input[r].lines)

\* ... a committed row is its request's last act ...
RowsAreFinal ==
  /\ \A e \in entries : pc[e.id] = "done" /\ answer[e.id].status \in {"200", "lost"}
  /\ \A f \in fees : pc[f.id] = "done" /\ answer[f.id].status \in {"200", "lost"}

\* ... and an uncommitted row excludes every other row with its key.
UncommittedKeyIsExclusive ==
  \A r, q \in Requests : \A key \in Keys :
    Posting(r, key) => EntriesOf(key) = {} /\ (Posting(q, key) => q = r)

IInv ==
  /\ TypeOK
  /\ KindsByStatement
  /\ EntryToAnswer
  /\ ChecksPassed
  /\ RowsAreFinal
  /\ UncommittedKeyIsExclusive
  /\ OneEntryPerKey
  /\ EntriesWellFormed

\* The ledger implements the append-only keyed journal.
Postings == {e \in [id : Requests, merchant : Merchants, account : Account, key : Keys \cup {None},
                    lines : {i.lines : i \in {j \in Inputs : j.kind = "post"}}] :
              Valid(e.lines) /\ Storable(e.lines)}

Promise == INSTANCE Journal WITH Accounts <- Account

ImplementsJournal == Promise!Spec

------------------------------------------------------------------------------
(***************************************************************************)
(* What a comment of the code says, and the code does not do.              *)
(***************************************************************************)

\* A line's account_code is "Which account this line affects"
\* (models/ledger.py:58): the balance of an account is that of its lines.
BalanceFollowsLines == \A a \in accounts : NetBalance(a) = NetOfLines(a)
=============================================================================
