----------------------------- MODULE Notifications -----------------------------
(***************************************************************************)
(* Notifications and their delivery (services/notification.py, routes/     *)
(* notifications.py): created under a delivery key, claimed and sent by    *)
(* workers with retries, read by users.  Times are in units of             *)
(* BASE_RETRY_BACKOFF_SECONDS.                                             *)
(***************************************************************************)
EXTENDS Sessions

CONSTANTS
  Keys,           \* delivery keys
  MaxRetryCount,  \* attempts before a notification is abandoned (5)
  MaxClock        \* bound of the clock

ASSUME NotificationsAssumption == MaxRetryCount \in Nat \ {0} /\ MaxClock \in Nat /\ None \notin Nat

NotificationStatus == {"unread", "read", "pending", "sent", "retry_scheduled", "abandoned"}

Notification == [id : Ids, key : Keys \cup {None}, status : NotificationStatus, retry_count : Nat,
                 last_attempt_at : Nat \cup {None}, next_retry_at : Nat \cup {None}]

NewNotification(channel, key) ==
  [id |-> None, key |-> key, status |-> IF channel = "in_app" THEN "unread" ELSE "pending",
   retry_count |-> 0, last_attempt_at |-> None, next_retry_at |-> None]

\* attempt_delivery takes the time before it does anything else.
ArriveNotification(r) ==
  /\ table = "notifications"
  /\ \/ \E c \in {"in_app", "email"}, k \in Keys \cup {None} :
          Arrive(r, [name |-> "create_notification", channel |-> c, key |-> k], "select")
     \/ \E id \in Ids :
          \/ Arrive(r, [name |-> "attempt_delivery", id |-> id, now |-> clock], "claim")
          \/ Arrive(r, [name |-> "mark_notification_read", id |-> id], "select")

Tick ==
  /\ table = "notifications" /\ clock < MaxClock
  /\ clock' = clock + 1
  /\ UNCHANGED <<table, rows, log, pc, op, seen, work, answer>>

\* get_by_delivery_key; a key that is there is answered with its notification.
SelectNotification(r) ==
  LET same == {rows[id] : id \in {i \in DOMAIN rows : rows[i].key = op[r].key}} IN
  /\ At(r, "select", "create_notification")
  /\ IF op[r].key # None /\ same # {} THEN Select(r, same, "commit") ELSE Select(r, {}, "write")

InsertNotification(r) ==
  /\ At(r, "write", "create_notification")
  /\ Goto(r, "commit") /\ UNCHANGED <<seen, answer>>
  /\ Insert(r, NewNotification(op[r].channel, op[r].key), {})

\* Altered form: the time of the next attempt is not looked at.
ClaimableAnytime(row, now) == row.status \in {"pending", "retry_scheduled", "failed"}

Claimable(row, now) ==
  /\ row.status \in {"pending", "retry_scheduled", "failed"}
  /\ row.next_retry_at = None \/ row.next_retry_at <= now

\* Altered form: the notification is selected and then updated.
ClaimUnlocked(r) ==
  LET o == op[r] IN
  /\ At(r, "claim", "attempt_delivery")
  /\ IF o.id \in DOMAIN rows /\ Claimable(rows[o.id], o.now)
     THEN /\ Goto(r, "send") /\ UNCHANGED answer
          /\ seen' = [seen EXCEPT ![r] = rows[o.id]]
          /\ work' = [work EXCEPT ![r].rows = Single(o.id, [status |-> "sending", last_attempt_at |-> o.now])]
     ELSE Goto(r, "commit") /\ answer' = [answer EXCEPT ![r] = "skipped"] /\ UNCHANGED <<seen, work>>

\* The conditional UPDATE that claims a notification: it waits for a row that
\* matches and is locked, and looks at it again then.  The claim is not committed.
Claim(r) ==
  LET o == op[r] IN
  /\ At(r, "claim", "attempt_delivery")
  /\ IF o.id \in DOMAIN rows /\ Claimable(rows[o.id], o.now)
     THEN /\ Free(r, o.id)
          /\ Goto(r, "send") /\ UNCHANGED answer
          /\ seen' = [seen EXCEPT ![r] = rows[o.id]]
          /\ work' = [work EXCEPT ![r].rows = Single(o.id, [status |-> "sending", last_attempt_at |-> o.now])]
     ELSE Goto(r, "commit") /\ answer' = [answer EXCEPT ![r] = "skipped"] /\ UNCHANGED <<seen, work>>

\* The delay after the nth attempt, BASE_RETRY_BACKOFF_SECONDS * 2 ** (n - 1).
Delay[n \in 1..MaxRetryCount] == IF n = 1 THEN 1 ELSE 2 * Delay[n - 1]

\* _schedule_retry
Retried(row, now) ==
  LET n == row.retry_count + 1 IN
  [status |-> IF n >= MaxRetryCount THEN "abandoned" ELSE "retry_scheduled",
   retry_count |-> n, last_attempt_at |-> now,
   next_retry_at |-> IF n >= MaxRetryCount THEN None ELSE now + Delay[n]]

\* The adapter sends the message or fails.
Send(r) ==
  LET o == op[r] IN
  /\ At(r, "send", "attempt_delivery")
  /\ Goto(r, "commit") /\ UNCHANGED seen
  /\ \/ /\ answer' = [answer EXCEPT ![r] = "sent"]
        /\ work' = [work EXCEPT ![r].rows =
                      Single(o.id, [status |-> "sent", last_attempt_at |-> o.now, next_retry_at |-> None])]
     \/ /\ answer' = [answer EXCEPT ![r] = "failed"]
        /\ work' = [work EXCEPT ![r].rows = Single(o.id, Retried(seen[r], o.now))]

LoadNotification(r) ==
  /\ At(r, "select", "mark_notification_read")
  /\ SelectById(r, op[r].id)

\* mark_as_read, whatever the status is.
ReadNotification(r) ==
  /\ At(r, "write", "mark_notification_read")
  /\ Goto(r, "commit") /\ UNCHANGED <<seen, answer>>
  /\ Update(r, [status |-> "read"], {})

NotificationStep(r) ==
  \/ SelectNotification(r) \/ InsertNotification(r) \/ Claim(r) \/ Send(r)
  \/ LoadNotification(r) \/ ReadNotification(r)

------------------------------------------------------------------------------
Attempts(id, outcome) ==
  {r \in Requests : /\ pc[r] = "done" /\ answer[r] = outcome
                    /\ op[r].name = "attempt_delivery" /\ op[r].id = id}

\* However many workers deliver it, a notification is recorded as sent once (a
\* worker that dies after it has sent leaves no record).
SentOnce ==
  table = "notifications" =>
    \A id \in DOMAIN rows : Cardinality(Attempts(id, "sent")) <= 1

\* No failed attempt is lost from the count that ends the retries, and the retries
\* end with the last one, unless the user read the notification before.
AttemptsAreCounted ==
  table = "notifications" =>
    \A id \in DOMAIN rows :
      /\ rows[id].retry_count = Cardinality(Attempts(id, "failed"))
      /\ rows[id].retry_count <= MaxRetryCount
      /\ rows[id].status # "read" =>
           (rows[id].status = "abandoned" <=> rows[id].retry_count = MaxRetryCount)

\* An attempt after a failed one begins when the delay after that one is over, be
\* the worker one that has waited for the row with an older time.
RetriesBackOff ==
  [][table = "notifications" =>
       \A id \in DOMAIN rows :
         rows'[id].last_attempt_at # rows[id].last_attempt_at /\ rows[id].retry_count > 0 =>
           rows'[id].last_attempt_at >= rows[id].last_attempt_at + Delay[rows[id].retry_count]]_vars

\* A notification the user has read is neither sent nor changed any more.
ReadStaysRead ==
  [][table = "notifications" =>
       \A id \in DOMAIN rows : rows[id].status = "read" => rows'[id] = rows[id]]_vars
==============================================================================
