------------------------------ MODULE PaymentGraph ------------------------------
(***************************************************************************)
(* The payment graphs (services/payment_graph.py, routes/payment_graph.py): *)
(* an entity and what it is connected with.  A graph is its root, the rows *)
(* that are its other nodes, and edges between their identities.           *)
(***************************************************************************)
EXTENDS Reports

GraphRoles == AllowedRoles \cup {"support"}

OfMerchant == {"overview_graph", "network_graph"}

Ids(rows) == {x.id : x \in rows}

\* Tables whose rows name their merchant; the others' rows name a transaction.
OwnedTables ==
  {"transactions", "incidents", "settlements", "entries", "alerts", "jobs", "runs", "accounts", "sources",
   "imports", "bank_accounts"}
HangingTables == {"events", "results"}

\* The identities that the rows of a table may have.
Names(table) ==
  (UNION {Ids(s[table]) : s \in Stores}) \cup {a.row.id : a \in {b \in Arrivals : b.table = table}}

\* Identities are UUIDs, of which tables share none, and an email address is none.  The
\* graphs of a merchant have it in their path.
ASSUME GraphAssumption ==
  /\ \A s \in Stores :
       /\ OwnedTables \cup HangingTables \subseteq DOMAIN s
       /\ \A table \in OwnedTables \cup HangingTables : IsFiniteSet(s[table])
       /\ \A table \in OwnedTables : \A x \in s[table] : "merchant" \in DOMAIN x
       /\ \A table \in HangingTables : \A x \in s[table] : "merchant" \notin DOMAIN x
  /\ \A a \in Arrivals : /\ a.table \in OwnedTables => "merchant" \in DOMAIN a.row
                         /\ a.table \in HangingTables => "merchant" \notin DOMAIN a.row
  /\ \A a, b \in HangingTables \cup {"transactions"} : a # b => Names(a) \cap Names(b) = {}
  /\ \A r \in Requests : \A o \in Operations[r] :
       /\ o.name \in OfMerchant => o.merchant # None
       /\ o.name = "customer_graph" => \A table \in HangingTables \cup {"transactions"} : o.id \notin Names(table)
ById(id, m, rows) == {x \in Own(m, rows) : x.id = id}
OfTransactions(ids, rows) == {x \in rows : x.transaction \in ids}

\* Nothing else is read when there is no root.
Rooted(g, root, others) == <<Every(root)>> \o (IF g = <<>> \/ g[1] = {} THEN <<>> ELSE others)

\* A root and, for each other statement, an edge to each row.
Star(root, lists) ==
  LET rows == UNION ToSet(lists) IN
  [root |-> root, rows |-> rows, edges |-> {<<root, id>> : id \in Ids(rows)}]

TheRow(rows) == CHOOSE x \in rows : TRUE

\* Its events and reconciliation results; bank entries with its amount, settlements of its
\* provider.
TransactionGraphReads(o, g, s) ==
  LET m == Effective(o)
      t == TheRow(g[1])
  IN Rooted(g, ById(o.id, m, s.transactions),
       <<Every(OfTransactions({o.id}, s.events)), Every(OfTransactions({o.id}, s.results)),
         Some({e \in Own(m, s.entries) : t.amount \in {e.credit, e.debit}}, 5),
         Some({x \in Own(m, s.settlements) : x.provider = t.provider}, 3)>>)

\* Alerts, if it is of a provider, and failed syncs; its transactions are not known.
IncidentGraphReads(o, g, s) ==
  LET m == Effective(o) IN
  Rooted(g, ById(o.id, m, s.incidents),
    (IF TheRow(g[1]).provider = None THEN <<>> ELSE <<Some({a \in Own(m, s.alerts) : a.metadata}, 10)>>)
    \o <<Some(In(Own(m, s.jobs), {"failed", "failed_permanent"}), 5)>>)

\* An alert points to the incident it was escalated to.
IncidentGraph(o, g, rows) ==
  LET alerts == IF Len(g) = 3 THEN Ids(g[2]) ELSE {} IN
  [root |-> o.id, rows |-> rows,
   edges |-> {IF id \in alerts THEN <<id, o.id>> ELSE <<o.id, id>> : id \in Ids(rows)}]

\* Transactions of its provider made within a day of it, and their results.
SettlementGraphReads(o, g, s) ==
  LET m == Effective(o)
      x == TheRow(g[1])
      near(t) == t.at \in (x.settled - Day)..(x.settled + Day)
  IN Rooted(g, ById(o.id, m, s.settlements),
       <<Some({t \in Own(m, s.transactions) : t.provider = x.provider /\ near(t)}, 15)>>
       \o (IF Len(g) < 2 \/ g[2] = {} THEN <<>> ELSE <<Some(OfTransactions(Ids(g[2]), s.results), 15)>>))

\* The transactions with this email, and of each its events and then its results.
CustomerGraphReads(o, g, s) ==
  LET txs == IF g = <<>> THEN <<>> ELSE SetToSeq(g[1]) IN
  <<Some({t \in Own(Effective(o), s.transactions) : t.email = o.id}, 20)>>
  \o [j \in 1..(2 * Len(txs)) |->
        Every(OfTransactions({txs[(j + 1) \div 2].id}, IF j % 2 = 1 THEN s.events ELSE s.results))]

\* Altered form: the rows of every transaction hang on the first one.
CustomerGraphFlat(o, g, rows) ==
  [root |-> o.id, rows |-> rows,
   edges |-> {<<o.id, id>> : id \in Ids(g[1])}
             \cup {<<SetToSeq(g[1])[1].id, x.id>> : x \in rows \ g[1]}]

CustomerGraph(o, g, rows) ==
  [root |-> o.id, rows |-> rows,
   edges |-> {<<o.id, id>> : id \in Ids(g[1])} \cup {<<x.transaction, x.id>> : x \in rows \ g[1]}]

\* Incidents of any status, though the comment says open ones.
OverviewReads(o, s) ==
  LET m == o.merchant IN
  <<Some(Own(m, s.transactions), 20), Some(Own(m, s.settlements), 10), Some(Own(m, s.incidents), 5),
    Some(Own(m, s.accounts), 10), Some(Own(m, s.sources), 10)>>

NetworkReads(o, s) ==
  LET m == o.merchant IN
  <<Some(Own(m, s.accounts), 10), Some(Own(m, s.sources), 10), Latest(Own(m, s.transactions), 15),
    Largest(Own(m, s.settlements), LAMBDA x : x.settled, 10), Some(In(Own(m, s.incidents), {"open"}), 5),
    Some(Own(m, s.alerts), 5)>>

GraphReads(o, g, s) ==
  CASE o.name = "transaction_graph" -> TransactionGraphReads(o, g, s)
    [] o.name = "incident_graph" -> IncidentGraphReads(o, g, s)
    [] o.name = "settlement_graph" -> SettlementGraphReads(o, g, s)
    [] o.name = "customer_graph" -> CustomerGraphReads(o, g, s)
    [] o.name = "overview_graph" -> OverviewReads(o, s)
    [] OTHER -> NetworkReads(o, s)

GraphNames == {"transaction_graph", "incident_graph", "settlement_graph", "customer_graph",
               "overview_graph", "network_graph"}
GraphAnswer(o, g) == IF o.name \notin OfMerchant /\ g[1] = {} THEN "404" ELSE "200"

Graph(o, g) ==
  LET rows == UNION ToSet(Tail(g)) IN
  CASE o.name = "customer_graph" -> CustomerGraph(o, g, g[1] \cup rows)
    [] o.name = "incident_graph" -> IncidentGraph(o, g, rows)
    [] o.name \in OfMerchant -> Star(o.merchant, g)
    [] OTHER -> Star(o.id, Tail(g))

------------------------------------------------------------------------------
Nodes(graph) == Ids(graph.rows) \cup {graph.root}
Links(graph) == {{e[1], e[2]} : e \in graph.edges}
Neighbours(n, graph) == {k \in Nodes(graph) : {n, k} \in Links(graph)}

\* Edges join nodes, and from every node at most two lead to the root.
Connected(graph) ==
  /\ UNION Links(graph) \subseteq Nodes(graph)
  /\ \A n \in Nodes(graph) \ {graph.root} :
       graph.root \in Neighbours(n, graph) \cup UNION {Neighbours(k, graph) : k \in Neighbours(n, graph)}

\* A row of the merchant, or of a transaction of it, on which it hangs if that is there.
Belongs(x, m, graph) ==
  IF "merchant" \in DOMAIN x THEN x.merchant = m
  ELSE /\ \E t \in store.transactions : t.id = x.transaction /\ t.merchant = m
       /\ x.transaction \in Nodes(graph) =>
            {x.transaction, x.id} \in Links(graph) \/ {graph.root, x.id} \in Links(graph)

\* A graph that was answered hangs together: its edges join its nodes, from every node a
\* path leads to the root, and an event or result of a transaction that is in the graph
\* hangs on that transaction or on the root.  Its rows are of the merchant, those that
\* are found by another row too; and a graph read while nothing changed leaves out no
\* event or result of the transaction it is about.
GraphsHangTogether ==
  \A r \in Requests : Reported(r, GraphNames) /\ answer[r] = "200" =>
    LET o == op[r]
        first == got[r][1][1]
        graph == Graph(o, got[r][1])
        about == IF o.name = "customer_graph" THEN Ids(first) ELSE {o.id}
    IN /\ Connected(graph)
       /\ \A x \in graph.rows : Belongs(x, Effective(o), graph)
       /\ o.name \in {"transaction_graph", "customer_graph"} /\ touched[r] = {} =>
            Ids(OfTransactions(about, store.events \cup store.results)) \subseteq Nodes(graph)
       /\ o.name = "customer_graph" =>
            \A x \in graph.rows \ first : Neighbours(x.id, graph) = {x.transaction}
==============================================================================
