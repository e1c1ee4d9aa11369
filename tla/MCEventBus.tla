------------------------------ MODULE MCEventBus ------------------------------
(***************************************************************************)
(* Instances of EventBus for TLC: callers that publish events of the same  *)
(* correlation, and two replays of a history.                              *)
(***************************************************************************)
EXTENDS EventBus

CONSTANTS c1, c2, r1, r2

E(id, type, aggregate) ==
  [id |-> id, type |-> type, aggregate |-> aggregate, merchant |-> "m1", provider |-> "p1",
   large |-> FALSE, failed |-> FALSE, unmatched |-> FALSE, reference |-> None,
   transaction |-> None, correlation |-> None, at |-> 0, kept |-> 0]

Created == [E("e1", "transaction.created", "t1") EXCEPT !.large = TRUE]
Failed == [E("e2", "transaction.updated", "t1") EXCEPT !.failed = TRUE]

Stored(e, at) == [e EXCEPT !.at = at, !.kept = at]

Received(id) == [E(id, "webhook.received", "w1") EXCEPT !.correlation = "x"]

\* Two callers with a correlation in common, one of which publishes twice.
Publishing ==
  [events |-> {},
   todo |-> c1 :> <<Received("e1"), Received("e2")>> @@ c2 :> <<Received("e3")>>]

Quiet == c1 :> <<>> @@ c2 :> <<>>

Payments ==
  [events |-> {Stored(Created, 1), Stored(Failed, 2), Stored([Failed EXCEPT !.id = "e3"], 2),
               Stored(E("e4", "provider.sync.completed", "j1"), 3), Stored(E("e5", "dispute.created", "t1"), 4),
               Stored([Created EXCEPT !.id = "e6", !.aggregate = "unknown"], 5)},
   todo |-> Quiet]

Settled ==
  [events |-> {Stored([E("e1", "settlement.received", "s1") EXCEPT !.reference = "s1"], 1),
               Stored([E("e2", "settlement.received", "s2") EXCEPT !.reference = "s2"], 2),
               Stored([E("e3", "reconciliation.completed", "run") EXCEPT !.unmatched = TRUE], 3),
               Stored(E("e4", "incident.created", "i1"), 4),
               Stored([E("e5", "alert.created", "a1") EXCEPT !.merchant = "m2"], 5)},
   todo |-> Quiet]

MCSources == {<<"m1", "p1">>}

MCScenes == {Publishing, Payments, Settled}

Ask(name) == [name |-> name, merchant |-> "m1", types |-> {}, since |-> 2, aggregate |-> "t1", limit |-> 1]

Everything == Ask("merchant")
Some == [Ask("merchant") EXCEPT !.types = {"transaction.updated", "settlement.received"}]

MCOperations ==
  r1 :> ({Some} \cup {Ask(n) : n \in {"merchant", "since", "aggregate", "list_merchant", "list_aggregate"}})
  @@ r2 :> {Everything, Some}
==============================================================================
