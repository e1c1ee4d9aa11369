-------------------------------- MODULE Alerts --------------------------------
(***************************************************************************)
(* The alerts of one merchant and one type (services/alert.py,             *)
(* routes/alerts.py): raised by what detects a failure, which counts again *)
(* on the alert of the same source event, and acknowledged, resolved or    *)
(* set to a status by users.                                               *)
(***************************************************************************)
EXTENDS Sessions

CONSTANT Sources   \* source events

AlertStatus == {"open", "acknowledged", "resolved"}

Alert == [id : Ids, source : Sources \cup {None}, status : AlertStatus,
          occurrence_count : Nat \ {0}, acknowledged_at : Requests \cup {None},
          resolved_at : Requests \cup {None}]

NewAlert(source) ==
  [id |-> None, source |-> source, status |-> "open", occurrence_count |-> 1,
   acknowledged_at |-> None, resolved_at |-> None]

ArriveAlert(r) ==
  /\ table = "alerts"
  /\ \/ \E s \in Sources \cup {None} : Arrive(r, [name |-> "create_alert", source |-> s], "select")
     \/ \E id \in Ids, s \in AlertStatus :
          Arrive(r, [name |-> "update_alert", id |-> id, status |-> s], "select")
     \/ \E id \in Ids, n \in {"acknowledge_alert", "resolve_alert"} :
          Arrive(r, [name |-> n, id |-> id], "select")

\* get_by_source_event: an alert without a source event is always a new one.
SelectAlert(r) ==
  /\ At(r, "select", "create_alert")
  /\ Select(r, IF op[r].source = None THEN {}
               ELSE {rows[id] : id \in {i \in DOMAIN rows : rows[i].source = op[r].source}},
            "write")

\* create_alert: counted on the alert that was loaded unless that one is resolved.
RaiseAlert(r) ==
  /\ At(r, "write", "create_alert")
  /\ Goto(r, "commit") /\ UNCHANGED <<seen, answer>>
  /\ IF seen[r] # None /\ seen[r].status # "resolved"
     THEN Update(r, [occurrence_count |-> seen[r].occurrence_count + 1], {})
     ELSE Insert(r, NewAlert(op[r].source), {})

AlertRoutes == {"update_alert", "acknowledge_alert", "resolve_alert"}

LoadAlert(r) ==
  /\ pc[r] = "select" /\ op[r].name \in AlertRoutes
  /\ SelectById(r, op[r].id)

\* A user's action sets the status whatever it is.
SetAlert(r) ==
  /\ pc[r] = "write" /\ op[r].name \in AlertRoutes
  /\ Goto(r, "commit") /\ UNCHANGED <<seen, answer>>
  /\ Update(r, CASE op[r].name = "update_alert" -> [status |-> op[r].status]
                 [] op[r].name = "acknowledge_alert" -> [status |-> "acknowledged", acknowledged_at |-> r]
                 [] op[r].name = "resolve_alert" -> [status |-> "resolved", resolved_at |-> r], {})

AlertStep(r) == SelectAlert(r) \/ RaiseAlert(r) \/ LoadAlert(r) \/ SetAlert(r)

------------------------------------------------------------------------------
Committed(r) == pc[r] = "done" /\ answer[r] \notin {"404", "lost"}

\* What is counted and what a user has set never undo one another, whatever both
\* requests had loaded: a step that counts an occurrence leaves the status, and a
\* step that sets the status leaves the count.
CountsAndStatusesAreKept ==
  [][table = "alerts" =>
       \A id \in DOMAIN rows :
         \/ rows'[id].occurrence_count = rows[id].occurrence_count
         \/ rows'[id].status = rows[id].status
            /\ rows'[id].resolved_at = rows[id].resolved_at]_vars

Occurrences(ids) == {<<id, n>> : id \in ids, n \in 1..Cardinality(Requests) + 1}

\* No occurrence is counted twice: the alerts count no more than was raised (they
\* count less when two raises have loaded the same count).
OccurrencesWereRaised ==
  table = "alerts" =>
    Cardinality({o \in Occurrences(DOMAIN rows) : o[2] <= rows[o[1]].occurrence_count})
      <= Cardinality(DOMAIN rows \cap Old)
         + Cardinality({r \in Requests : Committed(r) /\ op[r].name = "create_alert"})
==============================================================================
