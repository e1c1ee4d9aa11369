------------------------------- MODULE Matching -------------------------------
(***************************************************************************)
(* How a reconciliation run compares one expected payment with the         *)
(* transactions it has loaded (services/reconciliation.py:205-267 and the  *)
(* cascade of execute_reconciliation_run).  Strings are compared stripped  *)
(* and in lower case, so a reference is its normal form; references sort,  *)
(* so they are numbers, and 0 is the empty one.                            *)
(***************************************************************************)
EXTENDS Integers, FiniteSets

CONSTANTS References, Currencies, Contacts, None

\* WEAK_MATCH_WINDOW_DAYS
Window == 2

\* email, phone and name, any of which may be missing
Customer == [1..3 -> Contacts \cup {None}]

Expectation == [ref : References, amount : Int, currency : Currencies, day : Int,
                customer : Customer]

\* refs: the internal, the external and the provider's reference, in normal form
Payment == [id : Nat, refs : SUBSET References, amount : Int, currency : Currencies, day : Int,
            customer : Customer]

ASSUME MatchingAssumption == References \subseteq Nat /\ 0 \in References /\ None \notin Contacts

------------------------------------------------------------------------------
SameReference(e, t) == e.ref \in t.refs

SameCurrency(e, t) == e.currency = t.currency

SameAmountCurrency(e, t) == e.amount = t.amount /\ SameCurrency(e, t)

\* The first contact both have decides.
SameCustomer(e, t) ==
  \E f \in 1..3 :
    /\ e.customer[f] # None /\ e.customer[f] = t.customer[f]
    /\ \A g \in 1..(f - 1) : e.customer[g] = None \/ t.customer[g] = None

WithinWindow(e, t) == t.day \in (e.day - Window)..(e.day + Window)

Verdict(score, status) == [score |-> score, status |-> status]

\* Altered form: who pays is worth more than what for.
ScoreCustomerFirst(e, t) ==
  IF SameReference(e, t) /\ SameAmountCurrency(e, t) THEN Verdict(10000, "matched")
  ELSE IF SameAmountCurrency(e, t) /\ SameCustomer(e, t) THEN Verdict(7500, "matched")
  ELSE IF SameReference(e, t) /\ SameCurrency(e, t)
    THEN Verdict(7000, IF t.amount < e.amount THEN "underpaid" ELSE "overpaid")
  ELSE IF SameAmountCurrency(e, t) /\ SameCustomer(e, t) THEN Verdict(6500, "matched")
  ELSE Verdict(0, "unmatched")

\* score_match.  Its 6000, for a reference in another currency, is out of reach:
\* the branch asks first that the currency is the same.
Score(e, t) ==
  IF SameReference(e, t) /\ SameAmountCurrency(e, t) THEN Verdict(10000, "matched")
  ELSE IF SameReference(e, t) /\ SameCurrency(e, t)
    THEN Verdict(7000, IF t.amount < e.amount THEN "underpaid" ELSE "overpaid")
  ELSE IF SameAmountCurrency(e, t) /\ SameCustomer(e, t) THEN Verdict(6500, "matched")
  ELSE IF SameAmountCurrency(e, t) /\ WithinWindow(e, t) THEN Verdict(4000, "weak")
  ELSE Verdict(0, "unmatched")

------------------------------------------------------------------------------
(***************************************************************************)
(* The cascade of execute_reconciliation_run.                              *)
(***************************************************************************)
Exact(e, ts)      == {t \in ts : SameReference(e, t) /\ SameAmountCurrency(e, t)}
Referenced(e, ts) == {t \in ts : SameReference(e, t) /\ SameCurrency(e, t)}
Paid(e, ts)       == {t \in ts : SameAmountCurrency(e, t) /\ SameCustomer(e, t)}
Near(e, ts)       == {t \in ts : SameAmountCurrency(e, t) /\ WithinWindow(e, t)}

\* The candidates of the first kind there is any of.
Candidates(e, ts) ==
  IF Exact(e, ts) # {} THEN Exact(e, ts)
  ELSE IF Referenced(e, ts) # {} THEN Referenced(e, ts)
  ELSE IF Paid(e, ts) # {} THEN Paid(e, ts)
  ELSE Near(e, ts)

Result(verdict, txn) == [score |-> verdict.score, status |-> verdict.status, txn |-> txn]

\* The result for e when the transactions with ids in `taken` are matched already.
Outcome(e, ts, taken) ==
  LET cs == Candidates(e, ts)  t == CHOOSE c \in cs : TRUE IN
  IF cs = {} THEN Result(Verdict(0, "unmatched"), None)
  ELSE IF Cardinality(cs) > 1 THEN Result(Verdict(2000, "ambiguous"), None)
  ELSE IF t.id \in taken THEN Result(Verdict(3000, "duplicate"), t.id)
  ELSE Result(Score(e, t), t.id)

------------------------------------------------------------------------------
(***************************************************************************)
(* The order in which a run takes its expected payments; the ids that      *)
(* break ties are random.                                                  *)
(***************************************************************************)
Rank(condition) == IF condition THEN 0 ELSE 1

\* Altered form: the expected payments are taken by reference.
SortKeyByReference(e, ts) == <<0, 0, e.ref, e.day>>

SortKey(e, ts) ==
  <<Rank(\E t \in ts : SameReference(e, t)),
    Rank(\E t \in ts : SameAmountCurrency(e, t) /\ SameCustomer(e, t)),
    e.ref, e.day>>

Before(k, l) == \E i \in 1..4 : k[i] < l[i] /\ \A j \in 1..(i - 1) : k[j] = l[j]
===============================================================================
