------------------------------ MODULE ActionCenter ------------------------------
(***************************************************************************)
(* What a merchant should do (services/action_center.py, routes/           *)
(* action_center.py).                                                      *)
(***************************************************************************)
EXTENDS Reports

\* The order of the severities as strings, which the statement sorts them by.
SeverityOrder == [critical |-> 1, high |-> 2, low |-> 3, medium |-> 4]

ActionReads(m, s) ==
  <<Every(In(Own(m, s.transactions), {"failed"})),
    Every(In(Own(m, s.imports), {"uploaded"})),
    Every(In(s.results, {"unmatched", "weak"})),
    Largest(In(Own(m, s.incidents), {"open"}), LAMBDA i : SeverityOrder[i.severity], 3),
    Every({x \in In(s.results, {"unmatched"}) : x.at < Now - 3 * Day}),
    Every(In(Own(m, s.jobs), {"failed"})),
    Every({b \in Own(m, s.bank_accounts) : b.status # "verified"}),
    Every(In(Own(m, s.sources), {"error"})),
    Every({t \in In(Own(m, s.transactions), {"pending"}) : t.at < Now - 2 * Hour})>>

ActionNames == {"actions", "action_stats"}

Action(type, priority, count) == [type |-> type, priority |-> priority, count |-> count, about |-> None]

Urgent(incident) == incident.severity \in {"critical", "high"}

\* One action for each kind of work there is, and one for each incident.
Actions(g) ==
  LET when(type, priority, rows) == IF rows = {} THEN {} ELSE {Action(type, priority, Count(rows))} IN
  when("investigate_failed_payment", 1, g[1])
  \cup (IF g[2] = {} THEN {Action("upload_bank_statement", 5, 0)} ELSE when("process_bank_statement", 2, g[2]))
  \cup when("resolve_unmatched_settlement", 2, g[3])
  \cup {[Action("acknowledge_incident", IF Urgent(i) THEN 1 ELSE 3, 1) EXCEPT !.about = i.id] : i \in g[4]}
  \cup when("open_dispute", 2, g[5])
  \cup when("check_provider_sync_failure", 2, g[6])
  \cup when("verify_bank_account", 3, g[7])
  \cup when("reconnect_data_source", 2, g[8])
  \cup when("follow_up_pending_payment", 2, g[9])

\* The most urgent first.
ActionList(g) == Sorted(Actions(g), LAMBDA x, y : x.priority < y.priority)

\* The counts by type are those of the last action of a type.
ActionStats(g) ==
  LET actions == ActionList(g)
      of(p) == Cardinality({a \in Actions(g) : a.priority = p})
  IN [total |-> Len(actions), critical |-> of(1), high_priority |-> of(2),
      by_type |-> [type \in {a.type : a \in Actions(g)} |->
                     LET last == CHOOSE i \in 1..Len(actions) :
                                   /\ actions[i].type = type
                                   /\ \A j \in 1..Len(actions) : actions[j].type = type => j <= i
                     IN actions[last].count]]

------------------------------------------------------------------------------
\* The list names what there is to do and nothing else: actions that are critical are
\* listed first and are those of failed payments and of incidents that are critical or
\* high; what nothing has changed has its action; the statistics are those of the list.
ListFollows(r, m, g) ==
  LET list == ActionList(g)
      stats == ActionStats(g)
      some(type) == \E a \in ToSet(list) : a.type = type
      failed == In(Own(m, store.transactions), {"failed"})
      old == {t \in In(Own(m, store.transactions), {"pending"}) : Now - t.at > 2 * Hour}
  IN /\ \A i, j \in 1..Len(list) : i < j => list[i].priority <= list[j].priority
     /\ Still(r, failed) # {} => some("investigate_failed_payment") /\ list[1].priority = 1
     /\ Still(r, old) # {} => some("follow_up_pending_payment")
     /\ some("upload_bank_statement") <=> ~some("process_bank_statement")
     /\ \A i \in Still(r, Own(m, store.incidents)) : \A a \in ToSet(list) :
          a.about = i.id => i.status = "open" /\ (a.priority = 1 <=> i.severity \in {"high", "critical"})
     /\ stats.critical + stats.high_priority <= stats.total
     /\ stats.critical > 0 <=> list[1].priority = 1

\* Every list follows from what there is to do.
ListsFollowTheirCause ==
  \A r \in Requests : Reported(r, {"actions", "action_stats"}) => ListFollows(r, Effective(op[r]), got[r][1])
==============================================================================
