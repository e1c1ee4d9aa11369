------------------------------- MODULE Services -------------------------------
(***************************************************************************)
(* What the platform shows its users and keeps about them: alerts,         *)
(* notifications, incidents and their accounts.  The services use tables   *)
(* of their own, so that a behaviour has the requests of one of them.      *)
(***************************************************************************)
EXTENDS Alerts, Notifications, Incidents, Accounts

CONSTANT InitialRows   \* the rows that may be there, by table

Init ==
  /\ table \in DOMAIN InitialRows
  /\ rows \in InitialRows[table]
  /\ Idle

Step(r) == AlertStep(r) \/ NotificationStep(r) \/ IncidentStep(r) \/ AccountStep(r) \/ Commit(r)

Next ==
  \/ Tick
  \/ \E r \in Requests :
       \/ ArriveAlert(r) \/ ArriveNotification(r) \/ ArriveIncident(r) \/ ArriveAccount(r)
       \/ Step(r) \/ Abort(r)

Spec == Init /\ [][Next]_vars

------------------------------------------------------------------------------
Row == [alerts |-> Alert, notifications |-> Notification, incidents |-> Incident,
        directory |-> Directory, connections |-> Connection, bank_accounts |-> BankAccount]

\* What the rows that are there before are: such rows as the services insert.
Inserted(name, row) ==
  CASE name = "alerts" -> row.occurrence_count = 1
    [] name = "notifications" ->
         \E channel \in {"in_app", "email"} : row = [NewNotification(channel, row.key) EXCEPT !.id = row.id]
    [] name = "incidents" -> row = [NewIncident(row.severity) EXCEPT !.id = row.id]
    [] name = "connections" -> row.kind = "account" => row.secret \in Old
    [] name = "bank_accounts" -> row.verification_status = "unverified"
    [] OTHER -> TRUE

ASSUME ServicesAssumption ==
  /\ IsFiniteSet(Requests) /\ IsFiniteSet(Old)
  /\ None \notin AllIds /\ Ids \cap {Second(id) : id \in Ids} = {}
  /\ \A name \in DOMAIN Row : None \notin Row[name]
  /\ DOMAIN InitialRows \subseteq DOMAIN Row
  /\ \A name \in DOMAIN InitialRows : \A before \in InitialRows[name] :
       /\ before = [id \in DOMAIN before |-> before[id]]
       /\ DOMAIN before \subseteq Old \cup {Second(id) : id \in Old}
       /\ \A id \in DOMAIN before :
            before[id] \in Row[name] /\ before[id].id = id /\ Inserted(name, before[id])
       /\ name = "directory" =>
            /\ \A a, b \in DOMAIN before :
                 before[a].kind = before[b].kind /\ before[a].name = before[b].name => a = b
            /\ \A id \in DOMAIN before :
                 before[id].kind = "user" =>
                   /\ before[id].merchant \in DOMAIN before
                   /\ before[before[id].merchant].kind = "merchant"

Answers == {"none", "200", "400", "401", "404", "409", "500", "sent", "failed", "skipped", "lost"}

Statements == {"idle", "select", "email", "claim", "send", "write", "user", "source", "sync", "verify",
               "commit", "done"}

\* Every variable has its type; a row has the name it is stored under.
TypeOK ==
  /\ table \in DOMAIN Row
  /\ DOMAIN rows \subseteq AllIds
  /\ \A id \in DOMAIN rows : rows[id] \in Row[table] /\ rows[id].id = id
  /\ clock \in 0..MaxClock
  /\ pc \in [Requests -> Statements]
  /\ \A r \in Requests :
       /\ seen[r] \in Row[table] \cup {None}
       /\ DOMAIN work[r].rows \subseteq DOMAIN rows \cup {r, Second(r)}
  /\ answer \in [Requests -> Answers]

\* The rows agree with what the requests did to them and with their log.
RecordsAgree ==
  /\ TypeOK
  /\ OccurrencesWereRaised /\ SentOnce /\ AttemptsAreCounted /\ EndsAreLogged
  /\ VerificationsAreWhole /\ RefusedWroteNothing

\* Of what may be there once there is one, whoever asks for it meanwhile.
InsertedWhole == RegistrationsAreWhole /\ ConnectedOnce

\* Every change is in the log of its table at the moment it is committed.
ChangesAreLogged == IncidentChangesAreLogged /\ ChangesAreAudited
==============================================================================
