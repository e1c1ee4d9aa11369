------------------------------- MODULE Incidents -------------------------------
(***************************************************************************)
(* Incidents and the log of their events (services/incident.py, routes/    *)
(* incidents.py).  Every operation writes the incident and appends its     *)
(* event in one transaction.                                               *)
(***************************************************************************)
EXTENDS Sessions

Severity == {"medium", "high", "critical"}
IncidentStatus == {"open", "acknowledged", "resolved"}

Incident == [id : Ids, status : IncidentStatus, severity : Severity,
             ended_at : Requests \cup {None}]

NewIncident(severity) == [id |-> None, status |-> "open", severity |-> severity, ended_at |-> None]

\* The fields update may be given, those the model has.
Updates == {{"severity"}, {"ended_at"}}

Event(r, id, type, severity) == [by |-> r, incident |-> id, type |-> type, severity |-> severity]

\* A user's own event has any type, that of a resolution too.
OwnEvents == {"comment", "resolved"}

ArriveIncident(r) ==
  /\ table = "incidents"
  /\ \/ \E s \in Severity : Arrive(r, [name |-> "create", severity |-> s], "write")
     \/ \E id \in Ids :
          \/ \E n \in {"acknowledge", "resolve", "auto_escalate_if_needed"} :
               Arrive(r, [name |-> n, id |-> id], "select")
          \/ \E t \in OwnEvents : Arrive(r, [name |-> "add_event", id |-> id, type |-> t], "select")
          \/ \E u \in Updates : Arrive(r, [name |-> "update", id |-> id, updates |-> u], "select")

CreateIncident(r) ==
  /\ At(r, "write", "create")
  /\ Goto(r, "commit") /\ UNCHANGED <<seen, answer>>
  /\ Insert(r, NewIncident(op[r].severity), {Event(r, r, "incident_created", op[r].severity)})

LoadIncident(r) ==
  /\ table = "incidents" /\ pc[r] = "select"
  /\ SelectById(r, op[r].id)

\* The write of an operation on the incident that was loaded, with its event.
Change(r, columns, type) ==
  /\ Goto(r, "commit") /\ UNCHANGED <<seen, answer>>
  /\ Update(r, columns, {Event(r, op[r].id, type, Over(columns, seen[r]).severity)})

\* Altered form: an acknowledged incident has no end.
AcknowledgeReopening(r) ==
  /\ At(r, "write", "acknowledge")
  /\ Change(r, [status |-> "acknowledged", ended_at |-> None], "acknowledged")

Acknowledge(r) ==
  /\ At(r, "write", "acknowledge")
  /\ Change(r, [status |-> "acknowledged"], "acknowledged")

Resolve(r) ==
  /\ At(r, "write", "resolve")
  /\ Change(r, [status |-> "resolved", ended_at |-> r], "resolved")

AddEvent(r) ==
  /\ At(r, "write", "add_event")
  /\ Change(r, [id |-> seen[r].id], op[r].type)

\* The fields of an update that are not null; the end may be one of them.
UpdateIncident(r) ==
  /\ At(r, "write", "update")
  /\ Change(r, [f \in op[r].updates |-> IF f = "severity" THEN "high" ELSE r], "updated")

\* auto_escalate_if_needed: an open incident that is open for `long` becomes critical, one
\* with `similar` ones high; both depend on times only.
Escalate(r) ==
  /\ At(r, "write", "auto_escalate_if_needed")
  /\ \E long, similar \in BOOLEAN :
       LET severity == IF seen[r].status = "open" /\ long THEN "critical"
                       ELSE IF seen[r].status = "open" /\ similar /\ seen[r].severity = "medium" THEN "high"
                       ELSE seen[r].severity
       IN IF severity = seen[r].severity
          THEN Goto(r, "commit") /\ UNCHANGED <<seen, work, answer>>
          ELSE Change(r, [severity |-> severity], "escalated")

IncidentStep(r) ==
  \/ CreateIncident(r) \/ LoadIncident(r) \/ Acknowledge(r) \/ Resolve(r)
  \/ AddEvent(r) \/ UpdateIncident(r) \/ Escalate(r)

------------------------------------------------------------------------------
EventsOf(id) == {e \in log : e.incident = id}

\* Whatever changes an incident's status or severity tells so in its log at the
\* same moment, and the log is only appended to.
IncidentChangesAreLogged ==
  [][table = "incidents" =>
       /\ log \subseteq log'
       /\ \A id \in DOMAIN rows :
            LET new == {e \in log' \ log : e.incident = id} IN
            /\ rows'[id].status # rows[id].status => \E e \in new : e.type = rows'[id].status
            /\ rows'[id].severity # rows[id].severity => \E e \in new : e.severity = rows'[id].severity]_vars

\* The end of an incident is the one a resolution or an update in its log has
\* given it, whatever else was done meanwhile; it has one once it was resolved, and
\* its log tells its creation.
EndsAreLogged ==
  table = "incidents" =>
    \A id \in DOMAIN rows :
      LET ended == rows[id].ended_at IN
      /\ ended # None =>
           \E e \in EventsOf(id) : e.by = ended /\ e.type \in {"resolved", "updated"}
      /\ (\E e \in EventsOf(id) : op[e.by].name = "resolve") => ended # None
      /\ rows[id].status = "resolved" => ended # None
      /\ id \in Requests => \E e \in EventsOf(id) : e.type = "incident_created" /\ e.by = id
==============================================================================
