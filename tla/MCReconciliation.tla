--------------------------- MODULE MCReconciliation ---------------------------
(***************************************************************************)
(* Instances of Reconciliation for TLC.  ada and bob are customers'        *)
(* addresses; references are numbers.                                      *)
(***************************************************************************)
EXTENDS Reconciliation, TLC

CONSTANTS r1, r2, r3, ada, bob, ngn, usd

Symmetry == Permutations(Requests)

By(who) == <<who, None, None>>

Due(ref, amount, day, customer) ==
  [ref |-> ref, amount |-> amount, currency |-> ngn, day |-> day, customer |-> customer]

Txn(id, refs, amount, currency, day, customer) ==
  [id |-> id, refs |-> refs, amount |-> amount, currency |-> currency, day |-> day, customer |-> customer]

Good(item) == [form |-> "good", item |-> item]

\* The third payment names the second expected one, and comes before or after a run.
MCPayments ==
  {Txn(1, {}, 100, ngn, 3, By(ada)), Txn(2, {2, 3}, 100, ngn, 5, <<bob, ada, None>>),
   Txn(3, {4}, 100, ngn, 4, By(None)), Txn(4, {1}, 100, usd, 4, By(ada))}

Bad(form) == [form |-> form, item |-> Due(2, 90, 3, By(None))]

Sent(items, errors) == [items |-> items, errors |-> errors]

MCImports ==
  {Sent(<<Good(Due(1, 100, 3, By(ada))), Good(Due(4, 100, 3, By(bob))), Good(Due(1, 100, 3, By(bob)))>>, 0),
   Sent(<<Good(Due(3, 100, 4, <<bob, ada, None>>)), Bad("unsearchable"),
          Good(Due(2, 90, 3, <<None, ada, None>>))>>, 1),
   Sent(<<Bad("unstorable"), Good(Due(1, 100, 3, By(ada)))>>, 0)}

MCRanges == {<<3, 4>>, <<3, 5>>, <<5, 5>>}

\* Imports with rows that are refused, at different places.
MCRefused ==
  {Sent(<<Good(Due(1, 100, 3, By(ada))), Bad("unsearchable"), Good(Due(1, 100, 3, By(bob)))>>, 1),
   Sent(<<Good(Due(1, 100, 3, By(ada))), Bad("unstorable"), Good(Due(3, 100, 4, By(bob)))>>, 0),
   Sent(<<Good(Due(3, 100, 4, By(bob))), Bad("unstorable")>>, 0)}
==============================================================================
