------------------------------- MODULE Accounts -------------------------------
(***************************************************************************)
(* What the platform keeps about its clients: merchants and their users    *)
(* (routes/auth.py, routes/merchant.py), the provider accounts a merchant  *)
(* has connected with their data sources (routes/providers.py,             *)
(* routes/data_sources.py) and its bank accounts (routes/bank_accounts.py).*)
(* Every route that changes something adds an audit row to its             *)
(* transaction.  An access that the caller's role refuses ends as that of  *)
(* a missing row does, with nothing written.                               *)
(***************************************************************************)
EXTENDS Sessions

CONSTANT Names   \* e-mail addresses and names of merchants

\* The other row of a request that inserts two: the merchant of a registered user,
\* the data source of a connected account.
Second(id) == <<id, 2>>
AllIds == Ids \cup {Second(id) : id \in Ids}

Directory ==
  [id : AllIds, kind : {"merchant"}, name : Names]
  \cup [id : AllIds, kind : {"user"}, name : Names, merchant : AllIds]

Connection ==
  [id : AllIds, kind : {"account"}, status : {"active", "inactive"}, secret : Ids]
  \cup [id : AllIds, kind : {"source"}, account : AllIds,
        status : {"active", "inactive", "pending_setup"}, synced : Ids \cup {None}]

BankAccount == [id : AllIds, kind : {"bank_account"}, status : {"active", "inactive", "archived"},
                verification_status : {"unverified", "pending", "verified"}]

Rows(kind) == {rows[id] : id \in {i \in DOMAIN rows : rows[i].kind = kind}}

Audit(r) == {[by |-> r, event |-> op[r].name]}

\* Requests name a row they may have read, or none that is there.
Known(kind) == {row.id : row \in Rows(kind)} \cup {None}

ArriveDirectory(r) ==
  /\ table = "directory"
  /\ \/ \E n, e \in Names : Arrive(r, [name |-> "register_user", merchant |-> n, email |-> e], "email")
     \/ \E n \in Names : Arrive(r, [name |-> "create_merchant", merchant |-> n], "write")
     \/ \E e \in Names : Arrive(r, [name |-> "login_user", email |-> e], "email")
     \/ \E id \in Known("merchant"), n \in Names :
          \/ Arrive(r, [name |-> "patch_merchant", id |-> id, merchant |-> n], "select")
          \/ Arrive(r, [name |-> "create_merchant_member", id |-> id, email |-> n], "select")

ArriveConnection(r) ==
  /\ table = "connections"
  /\ \/ Arrive(r, [name |-> "connect_provider", account |-> None], "select")
     \/ Arrive(r, [name |-> "create_provider_account"], "write")
     \/ \E id \in Known("account") :
          \/ Arrive(r, [name |-> "delete_provider_account", id |-> id], "select")
          \/ Arrive(r, [name |-> "create_data_source", account |-> id], "write")
     \/ \E id \in Known("source"), s \in {"active", "inactive"} :
          Arrive(r, [name |-> "update_data_source", id |-> id, status |-> s], "select")

ArriveBankAccount(r) ==
  /\ table = "bank_accounts"
  /\ \/ Arrive(r, [name |-> "create_bank_account"], "write")
     \/ \E id \in Known("bank_account") :
          \/ \E s \in {"active", "inactive"} :
               Arrive(r, [name |-> "update_bank_account", id |-> id, status |-> s], "select")
          \/ \E n \in {"delete_bank_account", "verify_bank_account"} :
               Arrive(r, [name |-> n, id |-> id], "select")

ArriveAccount(r) == ArriveDirectory(r) \/ ArriveConnection(r) \/ ArriveBankAccount(r)

\* The row a request names.
LoadRow(r) ==
  /\ table \in {"directory", "connections", "bank_accounts"}
  /\ pc[r] = "select" /\ op[r].name # "connect_provider"
  /\ IF op[r].id \notin DOMAIN rows THEN Discard(r, "404")
     ELSE Select(r, {rows[op[r].id]}, IF op[r].name = "create_merchant_member" THEN "email" ELSE "write")

------------------------------------------------------------------------------
\* Merchants and users.

Named(kind, name) == {row \in Rows(kind) : row.name = name}

\* The e-mail is looked for first: a registration refuses one that is there, a login
\* one that is not, or a wrong password.
SelectEmail(r) ==
  LET found == Named("user", op[r].email) IN
  /\ pc[r] = "email"
  /\ IF op[r].name = "login_user"
     THEN \/ Discard(r, "401")
          \/ /\ found # {}
             /\ Goto(r, "commit") /\ UNCHANGED <<seen, answer>>
             /\ work' = [work EXCEPT ![r].log = Audit(r)]
     ELSE IF found # {} THEN Discard(r, "409")
          ELSE /\ Goto(r, IF op[r].name = "register_user" THEN "write" ELSE "user")
               /\ UNCHANGED <<seen, work, answer>>

\* Another request has an uncommitted row that takes or gives up the name.
Undecided(r, kind, name) ==
  \E q \in Requests \ {r} : \E id \in DOMAIN work[q].rows :
    LET row == work[q].rows[id]
        before == IF id \in DOMAIN rows THEN rows[id] ELSE row
    IN /\ "name" \in DOMAIN row
       /\ before.kind = kind /\ name \in {row.name, before.name}

\* The unique index on a name: the request waits for the undecided one and fails on
\* one that is taken, which only a registration handles.
WithName(r, kind, name, Write) ==
  /\ ~Undecided(r, kind, name)
  /\ IF Named(kind, name) # {} THEN Discard(r, IF op[r].name = "register_user" THEN "400" ELSE "500")
     ELSE Write

InsertMerchant(r) ==
  LET registers == op[r].name = "register_user"
      merchant == [id |-> None, kind |-> "merchant", name |-> op[r].merchant]
  IN /\ pc[r] = "write" /\ op[r].name \in {"register_user", "create_merchant"}
     /\ WithName(r, "merchant", op[r].merchant,
          /\ Goto(r, IF registers THEN "user" ELSE "commit") /\ UNCHANGED <<seen, answer>>
          /\ IF registers THEN InsertAs(r, Second(r), merchant, {})
             ELSE Insert(r, merchant, Audit(r)))

InsertUser(r) ==
  /\ pc[r] = "user"
  /\ WithName(r, "user", op[r].email,
       /\ Goto(r, "commit") /\ UNCHANGED <<seen, answer>>
       /\ Insert(r, [id |-> None, kind |-> "user", name |-> op[r].email,
                     merchant |-> IF op[r].name = "register_user" THEN Second(r) ELSE op[r].id],
                 Audit(r)))

PatchMerchant(r) ==
  LET Write == /\ Goto(r, "commit") /\ UNCHANGED <<seen, answer>>
               /\ Update(r, [name |-> op[r].merchant], Audit(r))
  IN /\ At(r, "write", "patch_merchant")
     /\ IF op[r].merchant = seen[r].name THEN Write
        ELSE Free(r, op[r].id) /\ WithName(r, "merchant", op[r].merchant, Write)

------------------------------------------------------------------------------
\* Provider accounts and data sources.

\* upsert_provider_account: the latest active account; of those the requests insert
\* any may be it.
SelectAccount(r) ==
  LET active == {row \in Rows("account") : row.status = "active"}
      new == {row \in active : row.id \in Requests}
  IN /\ At(r, "select", "connect_provider")
     /\ \E row \in CASE new # {} -> new [] new = {} /\ active # {} -> active [] OTHER -> {None} :
          /\ seen' = [seen EXCEPT ![r] = row]
          /\ op' = [op EXCEPT ![r].account = IF row = None THEN r ELSE row.id]
     /\ pc' = [pc EXCEPT ![r] = "write"]
     /\ UNCHANGED <<committed, work, answer>>

NewAccount(r) == [id |-> None, kind |-> "account", status |-> "active", secret |-> r]

\* Altered form: credentials that have not changed are written as they were.
ConnectAccountStable(r) ==
  /\ At(r, "write", "connect_provider")
  /\ Goto(r, "source") /\ UNCHANGED <<seen, answer>>
  /\ IF seen[r] = None THEN Insert(r, NewAccount(r), {})
     ELSE Update(r, [status |-> "active"], {})

\* A secret is encrypted anew each time, so the row of the account is always written.
ConnectAccount(r) ==
  /\ At(r, "write", "connect_provider")
  /\ Goto(r, "source") /\ UNCHANGED <<seen, answer>>
  /\ IF seen[r] = None THEN Insert(r, NewAccount(r), {})
     ELSE Update(r, [secret |-> r, status |-> "active"], {})

\* upsert_provider_api_source, which fails on two sources of the account.
SelectSource(r) ==
  LET found == {row \in Rows("source") : row.account = op[r].account} IN
  /\ pc[r] = "source"
  /\ IF Cardinality(found) > 1 THEN Discard(r, "500") ELSE Select(r, found, "sync")

NewSource(account, status, synced) ==
  [id |-> None, kind |-> "source", account |-> account, status |-> status, synced |-> synced]

ConnectSource(r) ==
  /\ pc[r] = "sync"
  /\ Goto(r, "commit") /\ UNCHANGED <<seen, answer>>
  /\ IF seen[r] = None THEN InsertAs(r, Second(r), NewSource(op[r].account, "active", r), Audit(r))
     ELSE Update(r, [status |-> "active", synced |-> r], Audit(r))

\* The routes that insert without looking: an account, and a source whose account
\* must be there.
InsertConnection(r) ==
  /\ pc[r] = "write"
  /\ \/ /\ op[r].name = "create_provider_account"
        /\ Goto(r, "commit") /\ UNCHANGED <<seen, answer>>
        /\ Insert(r, NewAccount(r), Audit(r))
     \/ /\ op[r].name = "create_data_source"
        /\ IF op[r].account = None THEN Discard(r, "500")
           ELSE /\ Goto(r, "commit") /\ UNCHANGED <<seen, answer>>
                /\ Insert(r, NewSource(op[r].account, "pending_setup", None), Audit(r))

\* disable_provider_account, DataSourceService.update, BankAccountService.update and
\* soft_delete set the status, whatever it is.
SetStatus(r) ==
  /\ pc[r] = "write"
  /\ op[r].name \in {"delete_provider_account", "update_data_source", "update_bank_account", "delete_bank_account"}
  /\ Goto(r, "commit") /\ UNCHANGED <<seen, answer>>
  /\ Update(r, [status |-> CASE op[r].name = "delete_provider_account" -> "inactive"
                             [] op[r].name = "delete_bank_account" -> "archived"
                             [] OTHER -> op[r].status], Audit(r))

------------------------------------------------------------------------------
\* Bank accounts.

InsertBankAccount(r) ==
  /\ At(r, "write", "create_bank_account")
  /\ Goto(r, "commit") /\ UNCHANGED <<seen, answer>>
  /\ Insert(r, [id |-> None, kind |-> "bank_account", status |-> "active",
                verification_status |-> "unverified"], Audit(r))

\* initiate_verification, whose flush comes before the adapter is asked.
InitiateVerification(r) ==
  /\ At(r, "write", "verify_bank_account")
  /\ Goto(r, "verify") /\ UNCHANGED answer
  /\ Update(r, [verification_status |-> "pending"], {})
  /\ seen' = [seen EXCEPT ![r].verification_status = "pending"]

\* complete_verification: the adapter there is says yes.
CompleteVerification(r) ==
  /\ pc[r] = "verify"
  /\ Goto(r, "commit") /\ UNCHANGED <<seen, answer>>
  /\ Update(r, [verification_status |-> "verified"], Audit(r))

AccountStep(r) ==
  \/ LoadRow(r) \/ SelectEmail(r) \/ InsertMerchant(r) \/ InsertUser(r) \/ PatchMerchant(r)
  \/ SelectAccount(r) \/ ConnectAccount(r) \/ SelectSource(r) \/ ConnectSource(r)
  \/ InsertConnection(r) \/ SetStatus(r)
  \/ InsertBankAccount(r) \/ InitiateVerification(r) \/ CompleteVerification(r)

------------------------------------------------------------------------------
\* A registration is whole, whoever else registers or takes its names meanwhile:
\* every user has its merchant, every registered merchant its user, no two of
\* either share a name.
RegistrationsAreWhole ==
  table = "directory" =>
    /\ \A a, b \in DOMAIN rows : rows[a].kind = rows[b].kind /\ rows[a].name = rows[b].name => a = b
    /\ \A row \in Rows("user") : row.merchant \in {m.id : m \in Rows("merchant")}
    /\ \A r \in Requests : Second(r) \in DOMAIN rows => r \in DOMAIN rows

\* However often an account is connected at once, the connections make one data
\* source for it: the second has waited for the account's row.
ConnectedOnce ==
  table = "connections" =>
    \A s, t \in Rows("source") :
      LET Connected(row) == row.id \in {Second(r) : r \in Requests} IN
      Connected(s) /\ Connected(t) /\ s.account = t.account => s = t

\* No one reads a verification in between: an account is unverified, or verified by
\* a request in the audit log.
VerificationsAreWhole ==
  table = "bank_accounts" =>
    \A id \in DOMAIN rows :
      \/ rows[id].verification_status = "unverified"
      \/ /\ rows[id].verification_status = "verified"
         /\ \E e \in log : e.event = "verify_bank_account" /\ op[e.by].id = id

\* What is refused, or lost, has left neither a row nor an audit entry.
RefusedWroteNothing ==
  table \in {"directory", "connections", "bank_accounts"} =>
    \A r \in Requests :
      pc[r] = "done" =>
        IF answer[r] = "200" THEN Audit(r) \subseteq log
        ELSE {r, Second(r)} \cap DOMAIN rows = {} /\ Audit(r) \cap log = {}

\* A row changes, or is there, only at the moment the audit log says so.
ChangesAreAudited ==
  [][rows' # rows /\ table \in {"directory", "connections", "bank_accounts"} =>
       \E r \in Requests : pc[r] # "idle" /\ Audit(r) \cap log = {} /\ log' = log \cup Audit(r)]_vars
==============================================================================
