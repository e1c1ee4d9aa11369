----------------------------- MODULE LedgerProofs -----------------------------
(***************************************************************************)
(* Proofs about Ledger for every set of requests, merchants, codes, keys   *)
(* and bodies: IInv is inductive, it implies the safety properties, and    *)
(* every step appends to the journal as module Journal allows.             *)
(***************************************************************************)
EXTENDS Ledger, TLAPS

\* A body of kind "post" has the fields of a posting.
LEMMA PostFields ==
  ASSUME NEW i \in Inputs, i.kind = "post"
  PROVE  i \in PostInput
BY LedgerAssumption DEF AccountInput, PostInput, FeeInput

\* A body of kind "account" names an account.
LEMMA AccountFields ==
  ASSUME NEW i \in Inputs, i.kind = "account"
  PROVE  i \in AccountInput
BY LedgerAssumption DEF AccountInput, PostInput, FeeInput

\* A body that is of neither of these kinds is a fee.
LEMMA FeeFields ==
  ASSUME NEW i \in Inputs, i.kind = "fee"
  PROVE  i \in FeeInput
BY LedgerAssumption DEF AccountInput, PostInput, FeeInput

\* Refusing a running request keeps the invariant: it releases the row the
\* request held and commits nothing.
LEMMA RefuseKeepsIInv ==
  ASSUME IInv, NEW r \in Requests, pc[r] \notin {"idle", "done"},
         NEW s \in {"400", "500", "conflict", "lost"}, Refuse(r, s)
  PROVE  IInv'
<1> USE DEF IInv, Refuse, tables
<1>1. TypeOK'
  BY DEF TypeOK, Status
<1>2. KindsByStatement'
  BY DEF KindsByStatement, TypeOK
<1>3. EntryToAnswer'
  BY LedgerAssumption DEF EntryToAnswer, TypeOK
<1>4. ChecksPassed'
  BY LedgerAssumption DEF ChecksPassed, TypeOK
<1>5. RowsAreFinal'
  BY DEF RowsAreFinal, TypeOK, JournalEntry, FeeRecord
<1>6. UncommittedKeyIsExclusive'
  BY DEF UncommittedKeyIsExclusive, Posting, EntriesOf, TypeOK
<1>7. OneEntryPerKey' /\ EntriesWellFormed'
  BY DEF OneEntryPerKey, EntriesWellFormed
<1> QED
  BY <1>1, <1>2, <1>3, <1>4, <1>5, <1>6, <1>7

\* A request that arrives starts at the first statement of its kind.
LEMMA ArriveKeepsIInv ==
  ASSUME IInv, NEW r \in Requests, Arrive(r)
  PROVE  IInv'
<1> USE LedgerAssumption DEF IInv, Arrive, tables
<1>a. PICK i \in Inputs :
         /\ input' = [input EXCEPT ![r] = i]
         /\ pc' = [pc EXCEPT ![r] = CASE i.kind = "account" -> "select_account"
                                      [] i.kind = "post"    -> "check_account"
                                      [] i.kind = "fee"     -> "insert_fee"]
  OBVIOUS
<1>b. /\ i.kind \in {"account", "post", "fee"}
      /\ pc[r] = "idle"
      /\ UNCHANGED <<accounts, entries, fees, answer>>
  BY DEF AccountInput, PostInput, FeeInput
<1>c. \/ i.kind = "account" /\ pc' = [pc EXCEPT ![r] = "select_account"]
      \/ i.kind = "post" /\ pc' = [pc EXCEPT ![r] = "check_account"]
      \/ i.kind = "fee" /\ pc' = [pc EXCEPT ![r] = "insert_fee"]
  BY <1>a, <1>b
<1>1. TypeOK'
  BY <1>a, <1>b, <1>c DEF TypeOK
<1>2. KindsByStatement'
  BY <1>a, <1>b, <1>c DEF KindsByStatement, TypeOK
<1>3. EntryToAnswer'
  BY <1>a, <1>b, <1>c DEF EntryToAnswer, KindsByStatement, TypeOK
<1>4. ChecksPassed'
  BY <1>a, <1>b, <1>c DEF ChecksPassed, KindsByStatement, EntryToAnswer, TypeOK
<1>5. RowsAreFinal'
  BY <1>a, <1>b, <1>c DEF RowsAreFinal, TypeOK, JournalEntry, FeeRecord
<1>6. UncommittedKeyIsExclusive'
  BY <1>a, <1>b, <1>c DEF UncommittedKeyIsExclusive, EntryToAnswer, KindsByStatement, Posting, EntriesOf, TypeOK
<1>7. OneEntryPerKey'
  BY <1>a, <1>b, <1>c DEF OneEntryPerKey
<1>8. EntriesWellFormed'
  BY <1>a, <1>b, <1>c DEF EntriesWellFormed
<1> QED
  BY <1>1, <1>2, <1>3, <1>4, <1>5, <1>6, <1>7, <1>8

\* Moving on to the next statement keeps the invariant when the statement suits
\* the body and the checks before it have passed.
LEMMA GotoKeepsIInv ==
  ASSUME IInv, NEW r \in Requests, pc[r] \notin {"idle", "commit", "done"},
         NEW s \in {"insert_account", "check_key", "insert_entry", "commit"}, Goto(r, s),
         s = "insert_account" => input[r].kind = "account" /\ pc[r] # "insert_lines",
         s \in {"check_key", "insert_entry"} =>
           /\ input[r].kind = "post" /\ pc[r] # "insert_lines"
           /\ input[r].account \in accounts /\ input[r].account.merchant = input[r].merchant,
         s = "insert_entry" => Valid(input[r].lines),
         s = "commit" => IF pc[r] = "insert_lines" THEN Storable(input[r].lines)
                                                   ELSE input[r].kind # "post"
  PROVE  IInv'
<1> USE LedgerAssumption DEF IInv, Goto, tables
<1>1. TypeOK'
  BY DEF TypeOK
<1>2. KindsByStatement'
  BY DEF KindsByStatement, TypeOK
<1>3. EntryToAnswer'
  BY DEF EntryToAnswer, KindsByStatement, TypeOK
<1>4. ChecksPassed'
  BY DEF ChecksPassed, KindsByStatement, EntryToAnswer, TypeOK
<1>5. RowsAreFinal'
  BY DEF RowsAreFinal, TypeOK, JournalEntry, FeeRecord
<1>6. UncommittedKeyIsExclusive'
  BY DEF UncommittedKeyIsExclusive, EntryToAnswer, Posting, EntriesOf, TypeOK
<1>7. OneEntryPerKey' /\ EntriesWellFormed'
  BY DEF OneEntryPerKey, EntriesWellFormed
<1> QED
  BY <1>1, <1>2, <1>3, <1>4, <1>5, <1>6, <1>7

\* get_or_create_account keeps the invariant.
LEMMA AccountKeepsIInv ==
  ASSUME IInv, NEW r \in Requests, SelectAccount(r) \/ InsertAccount(r)
  PROVE  IInv'
<1>1. input[r].kind = "account" /\ pc[r] \in {"select_account", "insert_account"}
  BY DEF IInv, KindsByStatement, SelectAccount, InsertAccount
<1>2. CASE Refuse(r, "conflict")
  BY <1>1, <1>2, RefuseKeepsIInv
<1>3. ASSUME NEW s \in {"insert_account", "commit"}, Goto(r, s)
      PROVE  IInv'
  BY <1>1, <1>3, GotoKeepsIInv
<1> QED
  BY <1>2, <1>3 DEF SelectAccount, InsertAccount

\* A posting goes on only when the account is open and its merchant's own.
LEMMA CheckAccountKeepsIInv ==
  ASSUME IInv, NEW r \in Requests, CheckAccount(r)
  PROVE  IInv'
<1>1. input[r].kind = "post" /\ pc[r] = "check_account"
  BY DEF IInv, KindsByStatement, CheckAccount
<1>2. CASE Refuse(r, "500")
  BY <1>1, <1>2, RefuseKeepsIInv
<1>3. CASE /\ input[r].account \in accounts
           /\ input[r].account.merchant = input[r].merchant
           /\ Goto(r, "check_key")
  BY <1>1, <1>3, GotoKeepsIInv
<1> QED
  BY <1>2, <1>3 DEF CheckAccount

\* A key that is found is answered with its entry; otherwise the body is valid.
LEMMA CheckKeyKeepsIInv ==
  ASSUME IInv, NEW r \in Requests, CheckKey(r)
  PROVE  IInv'
<1>1. /\ input[r].kind = "post" /\ pc[r] = "check_key"
      /\ input[r].account \in accounts /\ input[r].account.merchant = input[r].merchant
  BY DEF IInv, KindsByStatement, ChecksPassed, CheckKey
<1>2. CASE Refuse(r, "400")
  BY <1>1, <1>2, RefuseKeepsIInv
<1>3. CASE Valid(input[r].lines) /\ Goto(r, "insert_entry")
  BY <1>1, <1>3, GotoKeepsIInv
<1>4. ASSUME NEW e \in EntriesOf(input[r].key),
             pc' = [pc EXCEPT ![r] = "commit"],
             answer' = [answer EXCEPT ![r].entry = e.id],
             UNCHANGED <<tables, input>>
      PROVE  IInv'
  <2>0. /\ e \in entries /\ e.id \in Requests /\ e.id # r
        /\ e.key = input[r].key /\ answer[r].status = "none"
    BY <1>1, <1>4 DEF EntriesOf, IInv, TypeOK, JournalEntry, RowsAreFinal, EntryToAnswer
  <2> USE <1>1, <1>4, <2>0, LedgerAssumption DEF IInv, tables
  <2>1. TypeOK'
    BY DEF TypeOK
  <2>2. KindsByStatement'
    BY DEF KindsByStatement, TypeOK
  <2>3. EntryToAnswer'
    BY DEF EntryToAnswer, KindsByStatement, TypeOK
  <2>4. ChecksPassed'
    BY DEF ChecksPassed, KindsByStatement, EntryToAnswer, TypeOK
  <2>5. RowsAreFinal'
    BY DEF RowsAreFinal, TypeOK, JournalEntry, FeeRecord
  <2>6. UncommittedKeyIsExclusive'
    BY DEF UncommittedKeyIsExclusive, EntryToAnswer, Posting, EntriesOf, TypeOK
  <2>7. OneEntryPerKey' /\ EntriesWellFormed'
    BY DEF OneEntryPerKey, EntriesWellFormed
  <2> QED
    BY <2>1, <2>2, <2>3, <2>4, <2>5, <2>6, <2>7
<1> QED
  BY <1>2, <1>3, <1>4 DEF CheckKey, EntriesOf

\* The unique index admits one uncommitted row per key, and none beside a
\* committed one.
LEMMA InsertEntryKeepsIInv ==
  ASSUME IInv, NEW r \in Requests, InsertEntry(r)
  PROVE  IInv'
<1>1. /\ input[r].kind = "post" /\ pc[r] = "insert_entry" /\ answer[r].status = "none"
      /\ input[r] \in PostInput
  BY PostFields DEF IInv, KindsByStatement, EntryToAnswer, InsertEntry
<1>2. CASE Refuse(r, "conflict")
  BY <1>1, <1>2, RefuseKeepsIInv
<1>3. CASE ~Refuse(r, "conflict")
  <2>0. /\ EntriesOf(input[r].key) = {}
        /\ \A q \in Requests : ~Posting(q, input[r].key)
        /\ pc' = [pc EXCEPT ![r] = "insert_lines"]
        /\ answer' = [answer EXCEPT ![r].entry = r]
        /\ UNCHANGED <<accounts, entries, fees, input>>
    BY <1>3 DEF InsertEntry, tables
  <2> USE <1>1, <2>0, LedgerAssumption DEF IInv
  <2>1. TypeOK'
    BY DEF TypeOK
  <2>2. KindsByStatement'
    BY DEF KindsByStatement, TypeOK
  <2>3. EntryToAnswer'
    BY DEF EntryToAnswer, KindsByStatement, TypeOK
  <2>4. ChecksPassed'
    BY DEF ChecksPassed, KindsByStatement, EntryToAnswer, TypeOK
  <2>5. RowsAreFinal'
    BY DEF RowsAreFinal, TypeOK, JournalEntry, FeeRecord
  <2>6. UncommittedKeyIsExclusive'
    BY DEF UncommittedKeyIsExclusive, EntryToAnswer, Posting, EntriesOf, TypeOK
  <2>7. OneEntryPerKey' /\ EntriesWellFormed'
    BY DEF OneEntryPerKey, EntriesWellFormed
  <2> QED
    BY <2>1, <2>2, <2>3, <2>4, <2>5, <2>6, <2>7
<1> QED
  BY <1>2, <1>3

\* The lines go in with their entry or take it down with them.
LEMMA InsertLinesKeepsIInv ==
  ASSUME IInv, NEW r \in Requests, InsertLines(r)
  PROVE  IInv'
<1>1. CASE Refuse(r, "500")
  BY <1>1, RefuseKeepsIInv DEF InsertLines
<1>2. CASE Storable(input[r].lines) /\ Goto(r, "commit")
  BY <1>2, GotoKeepsIInv DEF InsertLines
<1> QED
  BY <1>1, <1>2 DEF InsertLines

\* A fee is refused or waits for its commit.
LEMMA InsertFeeKeepsIInv ==
  ASSUME IInv, NEW r \in Requests, InsertFee(r)
  PROVE  IInv'
<1>1. input[r].kind = "fee" /\ pc[r] = "insert_fee"
  BY DEF IInv, KindsByStatement, InsertFee
<1>2. ASSUME NEW s \in {"400", "500"}, Refuse(r, s)
      PROVE  IInv'
  BY <1>1, <1>2, RefuseKeepsIInv
<1>3. CASE Goto(r, "commit")
  BY <1>1, <1>3, GotoKeepsIInv
<1>4. Refuse(r, "400") \/ Refuse(r, "500") \/ Goto(r, "commit")
  BY DEF InsertFee
<1> QED
  BY <1>2, <1>3, <1>4

\* What a posting commits is a well-formed entry, the only one with its key.
LEMMA CommittedEntry ==
  ASSUME IInv, NEW r \in Requests, pc[r] = "commit", answer[r].entry = r
  PROVE  /\ input[r].kind = "post" /\ input[r] \in Inputs
         /\ EntryOf(r) \in JournalEntry
         /\ EntryOf(r).account \in accounts
         /\ EntryOf(r).account.merchant = EntryOf(r).merchant
         /\ Valid(EntryOf(r).lines) /\ Storable(EntryOf(r).lines)
         /\ \A e \in entries : e.id # r /\ (e.key # None => e.key # EntryOf(r).key)
<1>1. input[r].kind = "post" /\ input[r] \in PostInput /\ input[r] \in Inputs
  BY LedgerAssumption, PostFields DEF IInv, KindsByStatement, EntryToAnswer
<1>2. EntryOf(r) \in JournalEntry
  BY <1>1 DEF EntryOf, PostInput, JournalEntry
<1>3. /\ EntryOf(r).account \in accounts
      /\ EntryOf(r).account.merchant = EntryOf(r).merchant
      /\ Valid(EntryOf(r).lines) /\ Storable(EntryOf(r).lines)
  BY DEF IInv, ChecksPassed, EntryOf
<1>4. ASSUME NEW e \in entries
      PROVE  e.id # r /\ (e.key # None => e.key # EntryOf(r).key)
  <2>1. e.id # r
    BY DEF IInv, RowsAreFinal
  <2>2. CASE input[r].key = None
    BY <2>1, <2>2 DEF EntryOf
  <2>3. CASE input[r].key \in Keys
    <3>1. Posting(r, input[r].key)
      BY <2>3, LedgerAssumption DEF Posting
    <3>2. EntriesOf(input[r].key) = {}
      BY <2>3, <3>1 DEF IInv, UncommittedKeyIsExclusive
    <3> QED
      BY <2>1, <2>3, <3>2, LedgerAssumption DEF EntriesOf, EntryOf
  <2> QED
    BY <1>1, <2>2, <2>3 DEF PostInput
<1> QED
  BY <1>1, <1>2, <1>3, <1>4

\* A commit adds the rows its transaction held and nothing else.
LEMMA CommitKeepsIInv ==
  ASSUME IInv, NEW r \in Requests, Commit(r)
  PROVE  IInv'
<1>0. PICK st \in {"200", "lost"} :
        /\ answer' = [answer EXCEPT ![r].status = st]
        /\ pc' = [pc EXCEPT ![r] = "done"]
        /\ pc[r] = "commit" /\ answer[r].status = "none"
        /\ input[r] \in Inputs
        /\ UNCHANGED input
  BY DEF Commit, IInv, EntryToAnswer, KindsByStatement
<1>1. accounts \subseteq accounts' /\ accounts' \subseteq Account
  BY <1>0, AccountFields DEF Commit, IInv, TypeOK, AccountInput
<1>2. \/ answer[r].entry # r /\ entries' = entries
      \/ answer[r].entry = r /\ entries' = entries \cup {EntryOf(r)}
  BY DEF Commit
<1>3. EntryOf(r).id = r /\ EntryOf(r).key = input[r].key
  BY DEF EntryOf
<1>4. fees' \subseteq FeeRecord /\ \A f \in fees' : f \in fees \/ f.id = r
  <2>1. CASE input[r].kind = "fee"
    BY <1>0, <2>1, FeeFields DEF Commit, FeeOf, FeeRecord, FeeInput, IInv, TypeOK
  <2>2. CASE input[r].kind # "fee"
    BY <2>2 DEF Commit, IInv, TypeOK
  <2> QED
    BY <2>1, <2>2
<1>5. answer[r].entry = r => /\ EntryOf(r) \in JournalEntry
                             /\ EntryOf(r).account \in accounts
                             /\ EntryOf(r).account.merchant = EntryOf(r).merchant
                             /\ Valid(EntryOf(r).lines) /\ Storable(EntryOf(r).lines)
                             /\ \A e \in entries :
                                  e.id # r /\ (e.key # None => e.key # EntryOf(r).key)
  BY <1>0, CommittedEntry
<1> USE LedgerAssumption DEF IInv
<1>6. TypeOK'
  BY <1>0, <1>1, <1>2, <1>4, <1>5 DEF TypeOK, Status
<1>7. KindsByStatement'
  BY <1>0 DEF KindsByStatement, TypeOK
<1>8. EntryToAnswer'
  BY <1>0, <1>2, <1>3 DEF EntryToAnswer, TypeOK
<1>9. ChecksPassed'
  BY <1>0, <1>1 DEF ChecksPassed, TypeOK
<1>10. RowsAreFinal'
  BY <1>0, <1>2, <1>3, <1>4 DEF RowsAreFinal, TypeOK, JournalEntry, FeeRecord
<1>11. UncommittedKeyIsExclusive'
  <2> SUFFICES ASSUME NEW q \in Requests, NEW p \in Requests, NEW key \in Keys, Posting(q, key)'
               PROVE  EntriesOf(key)' = {} /\ (Posting(p, key)' => p = q)
    BY DEF UncommittedKeyIsExclusive
  <2>1. q # r /\ Posting(q, key) /\ (Posting(p, key)' => Posting(p, key))
    BY <1>0 DEF Posting, TypeOK
  <2>2. EntriesOf(key) = {} /\ (Posting(p, key) => p = q) /\ ~Posting(r, key)
    BY <2>1 DEF UncommittedKeyIsExclusive
  <2>3. answer[r].entry = r => input[r].key # key
    BY <1>0, <2>2 DEF Posting
  <2> QED
    BY <1>2, <1>3, <2>1, <2>2, <2>3 DEF EntriesOf
<1>12. OneEntryPerKey' /\ EntriesWellFormed'
  BY <1>1, <1>2, <1>5 DEF OneEntryPerKey, EntriesWellFormed
<1> QED
  BY <1>6, <1>7, <1>8, <1>9, <1>10, <1>11, <1>12

\* Every step keeps the invariant.
LEMMA NextKeepsIInv == IInv /\ [Next]_vars => IInv'
<1> SUFFICES ASSUME IInv, [Next]_vars
             PROVE  IInv'
  OBVIOUS
<1>1. CASE UNCHANGED vars
  BY <1>1 DEF vars, IInv, TypeOK, KindsByStatement, EntryToAnswer, ChecksPassed, RowsAreFinal,
              UncommittedKeyIsExclusive, Posting, EntriesOf, OneEntryPerKey, EntriesWellFormed
<1>2. ASSUME NEW r \in Requests, Arrive(r) \/ Step(r) \/ Abort(r)
      PROVE  IInv'
  <2>1. CASE Arrive(r)
    BY <2>1, ArriveKeepsIInv
  <2>2. CASE SelectAccount(r) \/ InsertAccount(r)
    BY <2>2, AccountKeepsIInv
  <2>3. CASE CheckAccount(r)
    BY <2>3, CheckAccountKeepsIInv
  <2>4. CASE CheckKey(r)
    BY <2>4, CheckKeyKeepsIInv
  <2>5. CASE InsertEntry(r)
    BY <2>5, InsertEntryKeepsIInv
  <2>6. CASE InsertLines(r)
    BY <2>6, InsertLinesKeepsIInv
  <2>7. CASE InsertFee(r)
    BY <2>7, InsertFeeKeepsIInv
  <2>8. CASE Commit(r)
    BY <2>8, CommitKeepsIInv
  <2>9. CASE Abort(r)
    BY <2>9, RefuseKeepsIInv DEF Abort
  <2> QED
    BY <1>2, <2>1, <2>2, <2>3, <2>4, <2>5, <2>6, <2>7, <2>8, <2>9 DEF Step
<1> QED
  BY <1>1, <1>2 DEF Next

\* The inductive invariant holds in every reachable state.
THEOREM Invariance == Spec => []IInv
<1>1. Init => IInv
  BY LedgerAssumption DEF Init, IInv, TypeOK, Status, KindsByStatement, EntryToAnswer, ChecksPassed,
     RowsAreFinal, UncommittedKeyIsExclusive, Posting, OneEntryPerKey, EntriesWellFormed
<1> QED
  BY <1>1, NextKeepsIInv, PTL DEF Spec

\* Posting one key from any number of racing requests commits at most one entry.
THEOREM KeysAreUnique == Spec => []OneEntryPerKey
<1>1. IInv => OneEntryPerKey
  BY DEF IInv
<1> QED
  BY <1>1, Invariance, PTL

\* Every committed entry is balanced, complete and on its own merchant's account.
THEOREM JournalIsBalanced == Spec => []EntriesWellFormed
<1>1. IInv => EntriesWellFormed
  BY DEF IInv
<1> QED
  BY <1>1, Invariance, PTL

\* An answer of 200 to a posting names an entry that is committed.
THEOREM AnsweredEntriesExist == Spec => []AnswersAreDurable
<1>1. IInv => AnswersAreDurable
  <2> SUFFICES ASSUME IInv, NEW r \in Requests, answer[r].status = "200", input[r].kind = "post"
               PROVE  \E e \in entries : e.id = answer[r].entry /\ (e.id = r \/ e.key = input[r].key)
    BY DEF AnswersAreDurable
  <2>1. answer[r].entry # None
    BY DEF IInv, EntryToAnswer
  <2> QED
    BY <2>1, LedgerAssumption DEF IInv, EntryToAnswer
<1> QED
  BY <1>1, Invariance, PTL

\* A request answered with an error has left no row.
THEOREM ErrorsLeaveNoRow == Spec => []RefusedLeavesNothing
<1>1. IInv => RefusedLeavesNothing
  BY DEF IInv, RowsAreFinal, RefusedLeavesNothing
<1> QED
  BY <1>1, Invariance, PTL

\* Rows are never removed, and a body never changes once it has arrived.
LEMMA TablesGrow ==
  ASSUME IInv, [Next]_vars
  PROVE  /\ accounts \subseteq accounts' /\ entries \subseteq entries'
         /\ \A r \in Requests : pc[r] # "idle" => input'[r] = input[r]
<1>1. ASSUME NEW r \in Requests, Arrive(r) \/ Step(r) \/ Abort(r)
      PROVE  /\ accounts \subseteq accounts' /\ entries \subseteq entries'
             /\ \A q \in Requests : pc[q] # "idle" => input'[q] = input[q]
  BY <1>1 DEF IInv, TypeOK, Arrive, Step, SelectAccount, InsertAccount, CheckAccount, CheckKey,
              InsertEntry, InsertLines, InsertFee, Commit, Abort, Goto, Refuse, tables
<1>2. CASE UNCHANGED vars
  BY <1>2 DEF vars
<1> QED
  BY <1>1, <1>2 DEF Next

\* A request that lost a race on a unique index lost it to a committed row.
THEOREM ConflictsAreWithCommittedRows == Spec => []ConflictMeansPresent
<1>1. Init => ConflictMeansPresent
  BY DEF Init, ConflictMeansPresent
<1>2. ASSUME IInv, ConflictMeansPresent, [Next]_vars
      PROVE  ConflictMeansPresent'
  <2> SUFFICES ASSUME NEW r \in Requests, answer'[r].status = "conflict"
               PROVE  IF input'[r].kind = "post" THEN EntriesOf(input[r].key)' # {}
                                                 ELSE input'[r].account \in accounts'
    BY DEF ConflictMeansPresent
  <2>1. accounts \subseteq accounts' /\ entries \subseteq entries'
    BY <1>2, TablesGrow
  <2>2. CASE answer[r].status = "conflict"
    <3>1. input'[r] = input[r]
      BY <1>2, <2>2, TablesGrow DEF IInv, EntryToAnswer
    <3> QED
      BY <1>2, <2>1, <2>2, <3>1 DEF ConflictMeansPresent, EntriesOf
  <2>3. CASE answer[r].status # "conflict"
    <3>1. PICK q \in Requests : Arrive(q) \/ Step(q) \/ Abort(q)
      BY <1>2, <2>3 DEF Next, vars
    <3>a. ~Arrive(q) /\ ~SelectAccount(q) /\ ~CheckAccount(q) /\ ~CheckKey(q)
      BY <2>3, <1>2 DEF Arrive, SelectAccount, CheckAccount, CheckKey, Goto, Refuse, tables, IInv, TypeOK
    <3>b. ~InsertLines(q) /\ ~InsertFee(q) /\ ~Abort(q)
      BY <2>3, <1>2 DEF InsertLines, InsertFee, Abort, Goto, Refuse, tables, IInv, TypeOK
    <3>c. ~Commit(q)
      BY <2>3, <1>2 DEF Commit, IInv, TypeOK
    <3>d. InsertAccount(q) \/ InsertEntry(q)
      BY <3>1, <3>a, <3>b, <3>c DEF Step
    <3>e. q = r
      BY <2>3, <1>2, <3>d DEF InsertAccount, InsertEntry, Goto, Refuse, tables, IInv, TypeOK
    <3>2. CASE InsertAccount(r)
      BY <1>2, <2>3, <3>2 DEF IInv, KindsByStatement, TypeOK, InsertAccount, Goto, Refuse, tables
    <3>3. CASE InsertEntry(r)
      BY <1>2, <2>3, <3>3 DEF IInv, KindsByStatement, TypeOK, InsertEntry, EntriesOf, Refuse, tables
    <3> QED
      BY <3>d, <3>e, <3>2, <3>3
  <2> QED
    BY <2>2, <2>3
<1>3. ConflictMeansPresent /\ UNCHANGED vars => ConflictMeansPresent'
  BY DEF ConflictMeansPresent, EntriesOf, vars
<1> QED
  BY <1>1, <1>2, <1>3, Invariance, PTL DEF Spec

\* The ledger implements the append-only keyed journal of module Journal.
THEOREM Refinement == Spec => ImplementsJournal
<1>1. Init => Promise!Init
  BY LedgerAssumption DEF Init, Promise!Init
<1>2. IInv /\ [Next]_vars => [Promise!Next]_(Promise!vars)
  <2> SUFFICES ASSUME IInv, [Next]_vars
               PROVE  Promise!Next \/ UNCHANGED <<accounts, entries>>
    BY DEF Promise!vars
  <2>1. (\E r \in Requests : Commit(r)) \/ UNCHANGED <<accounts, entries>>
    BY DEF Next, vars, Arrive, Step, SelectAccount, InsertAccount, CheckAccount, CheckKey,
           InsertEntry, InsertLines, InsertFee, Abort, Goto, Refuse, tables
  <2>2. ASSUME NEW r \in Requests, Commit(r)
        PROVE  Promise!Next \/ UNCHANGED <<accounts, entries>>
    <3>1. pc[r] = "commit" /\ input[r] \in Inputs
      BY <2>2 DEF Commit, IInv, KindsByStatement
    <3>2. CASE answer[r].entry = r
      <4>1. /\ EntryOf(r) \in JournalEntry /\ input[r].kind = "post"
            /\ EntryOf(r).account \in accounts
            /\ EntryOf(r).account.merchant = EntryOf(r).merchant
            /\ Valid(EntryOf(r).lines) /\ Storable(EntryOf(r).lines)
            /\ \A e \in entries : e.id # r /\ (e.key # None => e.key # EntryOf(r).key)
        BY <3>1, <3>2, CommittedEntry
      <4>2. EntryOf(r) \in Postings
        BY <3>1, <4>1 DEF Postings, EntryOf, JournalEntry
      <4>3. entries' = entries \cup {EntryOf(r)} /\ UNCHANGED accounts /\ EntryOf(r).id = r
        BY <2>2, <3>2, <4>1 DEF Commit, EntryOf
      <4>4. Promise!Append(EntryOf(r))
        BY <4>1, <4>3 DEF Promise!Append
      <4> QED
        BY <4>2, <4>4 DEF Promise!Next
    <3>3. CASE answer[r].entry # r /\ input[r].kind = "account"
      <4>1. input[r].account \in Account
        BY <3>1, <3>3, AccountFields DEF AccountInput
      <4>2. Promise!Open(input[r].account)
        BY <2>2, <3>3 DEF Commit, Promise!Open
      <4> QED
        BY <4>1, <4>2 DEF Promise!Next
    <3>4. CASE answer[r].entry # r /\ input[r].kind # "account"
      BY <2>2, <3>4 DEF Commit
    <3> QED
      BY <3>2, <3>3, <3>4
  <2> QED
    BY <2>1, <2>2
<1> QED
  BY <1>1, <1>2, Invariance, PTL DEF Spec, ImplementsJournal, Promise!Spec
=============================================================================
