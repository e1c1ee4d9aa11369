------------------------------- MODULE Reporting -------------------------------
(***************************************************************************)
(* All reports together, while others commit changes.                      *)
(***************************************************************************)
EXTENDS MoneyAtRisk, ProviderHealth, Dashboard, PaymentGraph, Timeline, ActionCenter, Assistant

TypeOK ==
  /\ changes \in 0..MaxChanges
  /\ pc \in [Requests -> {"idle", "read", "save", "respond", "done"}]
  /\ \A r \in Requests :
       /\ op[r] \in Operations[r] \cup {None} /\ (op[r] = None <=> pc[r] = "idle")
       /\ answer[r] \in {None, "200", "400", "403", "404", "500"} /\ (answer[r] # None <=> pc[r] = "done")
       /\ got[r] = <<>> => pc[r] \in {"idle", "done"} /\ answer[r] \notin {"200", "404", "500"}
  /\ \A table \in DOMAIN store : \A x, y \in store[table] : x.id = y.id => x = y

\* What the action centre and the assistant tell a merchant to do, and why, is what there
\* is: no work without its cause, no cause without its work.
ActionsFollowTheirCause == ListsFollowTheirCause /\ AnswersAreGrounded

\* Reports write no row twice: neither under one identity nor for one day.
RowsAreUnique == TypeOK /\ OneSnapshotPerDay

Init ==
  /\ store \in Stores
  /\ changes = 0
  /\ pc = [r \in Requests |-> "idle"]
  /\ op = [r \in Requests |-> None]
  /\ got = [r \in Requests |-> <<>>]
  /\ touched = [r \in Requests |-> {}]
  /\ answer = [r \in Requests |-> None]

\* The health routes ask for any active user; unknown parameters are refused last.
Refused(o) ==
  LET refusal == Refusal(o, CASE o.name \in GraphNames -> GraphRoles
                                 [] o.name \in AssistantNames -> AssistantRoles
                                 [] OTHER -> AllowedRoles)
      unknown ==
        \/ o.name = "dashboard_metrics" /\ o.period \notin Periods
        \/ o.name = "at_risk_transactions" /\ o.category \notin {None, "pending", "unreconciled", "failed"}
  IN IF o.name \in HealthNames THEN None
     ELSE IF refusal # None THEN refusal
     ELSE IF unknown THEN "400" ELSE None

Arrive(r) ==
  /\ pc[r] = "idle"
  /\ \E o \in Operations[r] :
       /\ op' = [op EXCEPT ![r] = o]
       /\ IF Refused(o) = None
          THEN /\ got' = [got EXCEPT ![r] = <<<<>>>>]
               /\ pc' = [pc EXCEPT ![r] = "read"]
               /\ UNCHANGED answer
          ELSE Answer(r, Refused(o)) /\ UNCHANGED got
  /\ UNCHANGED <<store, changes, touched>>

Parts(o) == IF o.name \in DashboardNames THEN DashboardParts(o) ELSE <<o.name>>

Queries(part, o, g, s) ==
  CASE o.name \in MarNames -> MarReport(o, g, s)
    [] o.name \in HealthNames -> HealthReport(o, s)
    [] o.name \in DashboardNames -> DashboardReads(part, o, g, s)
    [] o.name \in GraphNames -> GraphReads(o, g, s)
    [] o.name \in TimelineOperations -> TimelineReport(o, g, s)
    [] o.name \in AssistantNames -> AssistantReads(o, s)
    [] OTHER -> ActionReads(Effective(o), s)

\* The statements of the part that r is at, of which it has the results last(r).
Statements(r) == LET i == Len(got[r]) IN Queries(Parts(op[r])[i], op[r], got[r][i], store)

\* The next statement.
Read(r) ==
  /\ pc[r] = "read"
  /\ LET i == Len(got[r])
         n == Len(got[r][i]) + 1
     IN /\ n <= Len(Statements(r))
        /\ \E result \in Results(Statements(r)[n]) : got' = [got EXCEPT ![r][i] = Append(@, result)]
  /\ UNCHANGED <<store, changes, pc, op, touched, answer>>

\* The next part, or the end of them.
Proceed(r) ==
  /\ pc[r] = "read"
  /\ Len(got[r][Len(got[r])]) = Len(Statements(r))
  /\ IF Len(got[r]) < Len(Parts(op[r]))
     THEN got' = [got EXCEPT ![r] = Append(@, <<>>)] /\ UNCHANGED pc
     ELSE /\ pc' = [pc EXCEPT ![r] = IF op[r].name \in {"save_mar", "calculate_health"} THEN "save" ELSE "respond"]
          /\ UNCHANGED got
  /\ UNCHANGED <<store, changes, op, touched, answer>>

Save(r) ==
  /\ pc[r] = "save"
  /\ IF op[r].name = "save_mar" THEN SaveSnapshot(r) ELSE SaveMetrics(r)
  /\ Touch({r})
  /\ UNCHANGED <<changes, op, got>>

Respond(r) ==
  /\ pc[r] = "respond"
  /\ LET o == op[r]
         g == got[r][1]
     IN Answer(r, CASE o.name \in GraphNames -> GraphAnswer(o, g)
                    [] o.name \in TimelineOperations -> TimelineAnswer(o, g)
                    [] o.name \in HealthNames -> HealthAnswer(o, g)
                    [] o.name \in DashboardNames -> DashboardAnswer(o, got[r])
                    [] o.name \in AssistantNames -> AssistantAnswer(o)
                    [] OTHER -> "200")
  /\ UNCHANGED <<store, changes, op, got, touched>>

Next ==
  \/ \E r \in Requests : Arrive(r) \/ Read(r) \/ Proceed(r) \/ Save(r) \/ Respond(r)
  \/ ChangeStatus
  \/ CommitRow

Spec == Init /\ [][Next]_vars
==============================================================================
