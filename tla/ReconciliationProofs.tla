------------------------- MODULE ReconciliationProofs -------------------------
(***************************************************************************)
(* Proofs about imports and reconciliation runs, among any requests,       *)
(* bodies, periods and transactions: what they leave in the tables is      *)
(* exact, complete, real, fair and the best there is.                      *)
(***************************************************************************)
EXTENDS Reconciliation, CollectionLemmas

\* The score of a transaction for an expected payment, and the transactions of ts
\* that have the highest one above zero.
Points(e, t) == Score(e, t).score

Best(e, ts) == {t \in ts : Points(e, t) > 0 /\ \A v \in ts : Points(e, v) <= Points(e, t)}

\* What BestScoreWins asks of one result, given the transactions with the best score.
Fits(x, best) ==
  /\ x.status = "unmatched" <=> best = {}
  /\ x.status = "ambiguous" <=> Cardinality(best) > 1
  /\ x.txn # None => {t.id : t \in best} = {x.txn}

BestFor(x, seen) == Fits(x, Best(x.expected.item, seen))

------------------------------------------------------------------------------
(***************************************************************************)
(* The inductive invariant.  What holds of the results of a run while it   *)
(* is computed is what holds of them once it is recorded.                  *)
(***************************************************************************)

\* A result that takes its transaction from the payments still to come.
Takes(x) == x.status \notin {"unmatched", "ambiguous", "duplicate"}

\* Payments that a transaction names are compared before the others.
Named(e, seen) == \E t \in seen : SameReference(e.item, t)

OncePerPayment(rs) == \A x, y \in rs : x.expected = y.expected => x = y

RealMatch(x, seen) ==
  x.status = "matched" => \E t \in seen : t.id = x.txn /\ t.amount = x.expected.item.amount

NoneTakenTwice(rs) == \A x, y \in rs : Takes(x) /\ Takes(y) /\ x.txn = y.txn => x = y

FairlyLost(x, rs, seen) ==
  x.status = "duplicate" =>
    \E y \in rs : Takes(y) /\ y.txn = x.txn /\ (Named(x.expected, seen) => Named(y.expected, seen))

\* The results rs of payments compared with the transactions seen.
Paired(rs, seen) ==
  /\ rs \subseteq ResultRow /\ IsFiniteSet(rs)
  /\ OncePerPayment(rs)
  /\ \A x \in rs : BestFor(x, seen) /\ RealMatch(x, seen) /\ FairlyLost(x, rs, seen)
  /\ NoneTakenTwice(rs)

\* The payments still to compare are those loaded that have no result, each once.
QueueInv(w) == WorksOff(w.queue, w.loaded, {x.expected : x \in w.results})

\* Those that no transaction names come last.
OrderInv(w) ==
  /\ \A i, j \in DOMAIN w.queue : i < j /\ Named(w.queue[j], w.seen) => Named(w.queue[i], w.seen)
  /\ \A x \in w.results : \A j \in DOMAIN w.queue : Named(w.queue[j], w.seen) => Named(x.expected, w.seen)

MatchedIds(rs) == {x.expected.id : x \in {y \in rs : y.status = "matched"}}

MarksInv(w) == w.marked \subseteq MatchedIds(w.results) /\ MatchedIds(w.results) \subseteq w.marked \cup w.known

RunState(w) == Paired(w.results, w.seen) /\ QueueInv(w) /\ OrderInv(w) /\ MarksInv(w)

\* An import accounts for every row it has considered, and has not seen a repeat.
WorkRow(r) == [id : {r} \X Nat, form : {"good", "unsearchable", "unstorable"}, item : Expectation]

NoRepeats(rows) == \A e, f \in rows : Sought(e.item) = Sought(f.item) => e = f

Tally(received, rows, at, inserted, skipped, rejected) ==
  /\ at \in Nat /\ 1 <= at /\ at <= rows + 1
  /\ inserted \in Nat /\ skipped \in Nat /\ rejected \in Nat
  /\ inserted + skipped + rejected + rows + 1 = received + at

Counted(in, w) == Tally(in.received, Len(in.rows), w.at, w.inserted, w.skipped, w.rejected)

ImportState(r, in, w) ==
  /\ in \in ImportInput
  /\ Counted(in, w)
  /\ w.rows \subseteq WorkRow(r) /\ IsFiniteSet(w.rows) /\ NoRepeats(w.rows)
  /\ w.dead \in BOOLEAN
  /\ ~w.dead => w.inserted = Cardinality(w.rows)

Fresh(w) == w.results = {} /\ w.marked = {} /\ IsFiniteSet(w.loaded)

Statements == {"idle", "import_row", "load_expected", "load_transactions", "match", "done"}

RequestInv(r) ==
  /\ pc[r] \in Statements
  /\ DOMAIN work[r] = DOMAIN Idle
  /\ pc[r] \in {"idle", "load_expected", "done"} => work[r] = Idle
  /\ pc[r] = "import_row" => ImportState(r, input[r], work[r])
  /\ pc[r] = "load_transactions" => Fresh(work[r])
  /\ pc[r] = "match" => RunState(work[r])
  /\ pc[r] \in {"load_transactions", "match"} => work[r].loaded \subseteq expected /\ work[r].known \subseteq matched
  /\ pc[r] = "match" => work[r].seen \subseteq transactions
  /\ answer[r].status \in {"none", "200", "400", "500", "lost"}
  /\ input[r] # None => input[r] \in ImportInput \cup RunInput

\* The rows of an import appear when it ends.
ExpectedInv ==
  /\ expected \subseteq ExpectedRow /\ IsFiniteSet(expected)
  /\ \A e \in expected : e.id[1] # None => pc[e.id[1]] = "done"

BatchesInv ==
  /\ batches \subseteq [id : Requests, received : Nat, inserted : Nat, skipped : Nat, rejected : Nat]
  /\ \A b \in batches : pc[b.id] = "done"

RunRow(u) ==
  /\ Paired(u.results, u.seen)
  /\ u.loaded = {x.expected : x \in u.results}
  /\ u.count = Cardinality(u.results)
  /\ u.seen \subseteq Payments

RunsInv == \A u \in runs : RunRow(u) /\ u.loaded \subseteq expected

IInv ==
  /\ transactions \subseteq Payments /\ IsFiniteSet(transactions)
  /\ pc \in [Requests -> Statements] /\ DOMAIN work = Requests /\ DOMAIN input = Requests /\ DOMAIN answer = Requests
  /\ \A r \in Requests : RequestInv(r)
  /\ ExpectedInv /\ BatchesInv /\ RunsInv
  /\ BatchesAddUp /\ ImportsHaveNoRepeats /\ MatchedIsEarned

------------------------------------------------------------------------------
(***************************************************************************)
(* The cascade of execute_reconciliation_run and the scores of score_match *)
(* are written apart; for every payment and every set of transactions they *)
(* choose the same candidates.                                             *)
(***************************************************************************)

\* What score_match gives to each kind of candidate, and that it gives no more to
\* the others.
LEMMA PointsOfKinds ==
  ASSUME NEW e, NEW t
  PROVE  /\ Points(e, t) \in Int /\ Points(e, t) <= 10000
         /\ Points(e, t) = 10000 <=> SameReference(e, t) /\ SameAmountCurrency(e, t)
         /\ Points(e, t) >= 7000 <=> SameReference(e, t) /\ SameCurrency(e, t)
         /\ Points(e, t) >= 7000 => Points(e, t) \in {7000, 10000}
         /\ Points(e, t) >= 6500 <=> \/ SameReference(e, t) /\ SameCurrency(e, t)
                                     \/ SameAmountCurrency(e, t) /\ SameCustomer(e, t)
         /\ 7000 > Points(e, t) /\ Points(e, t) >= 6500 => Points(e, t) = 6500
         /\ Points(e, t) > 0 <=> \/ Points(e, t) >= 6500
                                 \/ SameAmountCurrency(e, t) /\ WithinWindow(e, t)
         /\ 6500 > Points(e, t) /\ Points(e, t) > 0 => Points(e, t) = 4000
  <1>1. SameAmountCurrency(e, t) => SameCurrency(e, t)
    BY DEF SameAmountCurrency
  <1>2. CASE SameReference(e, t) /\ SameAmountCurrency(e, t)
    BY <1>1, <1>2 DEF Points, Score, Verdict
  <1>3. CASE SameReference(e, t) /\ SameCurrency(e, t) /\ ~SameAmountCurrency(e, t)
    BY <1>3 DEF Points, Score, Verdict
  <1>4. CASE ~(SameReference(e, t) /\ SameCurrency(e, t))
    BY <1>1, <1>4 DEF Points, Score, Verdict
  <1>5. QED BY <1>2, <1>3, <1>4

\* The candidates of the cascade are the transactions with the best score.
THEOREM CandidatesAreBest ==
  ASSUME NEW e, NEW ts
  PROVE  Candidates(e, ts) = Best(e, ts)
  <1> DEFINE P(t) == Points(e, t)
  <1>1. \A t \in ts : P(t) \in Int /\ P(t) <= 10000
    BY PointsOfKinds
  <1>2. \A t \in ts : t \in Exact(e, ts) <=> P(t) = 10000
    BY PointsOfKinds DEF Exact
  <1>3. \A t \in ts : /\ t \in Referenced(e, ts) <=> P(t) >= 7000
                      /\ P(t) >= 7000 => P(t) = 7000 \/ P(t) = 10000
    BY PointsOfKinds DEF Referenced
  <1>4. \A t \in ts : /\ P(t) >= 6500 <=> t \in Referenced(e, ts) \cup Paid(e, ts)
                      /\ 7000 > P(t) /\ P(t) >= 6500 => P(t) = 6500
    BY PointsOfKinds DEF Referenced, Paid
  <1>5. \A t \in ts : /\ P(t) > 0 <=> P(t) >= 6500 \/ t \in Near(e, ts)
                      /\ 6500 > P(t) /\ P(t) > 0 => P(t) = 4000
    BY PointsOfKinds DEF Near
  <1>6. Exact(e, ts) \subseteq ts /\ Referenced(e, ts) \subseteq ts
          /\ Paid(e, ts) \subseteq ts /\ Near(e, ts) \subseteq ts
    BY DEF Exact, Referenced, Paid, Near
  <1>7. Best(e, ts) = {t \in ts : P(t) > 0 /\ \A v \in ts : P(v) <= P(t)}
    BY DEF Best
  <1> HIDE DEF P
  <1>8. CASE Exact(e, ts) # {}
    BY <1>1, <1>2, <1>6, <1>7, <1>8 DEF Candidates
  <1>9. CASE Exact(e, ts) = {} /\ Referenced(e, ts) # {}
    BY <1>1, <1>2, <1>3, <1>6, <1>7, <1>9 DEF Candidates
  <1>10. CASE Exact(e, ts) = {} /\ Referenced(e, ts) = {} /\ Paid(e, ts) # {}
    BY <1>1, <1>3, <1>4, <1>6, <1>7, <1>10 DEF Candidates
  <1>11. CASE Exact(e, ts) = {} /\ Referenced(e, ts) = {} /\ Paid(e, ts) = {}
    BY <1>1, <1>4, <1>5, <1>6, <1>7, <1>11 DEF Candidates
  <1>12. QED BY <1>8, <1>9, <1>10, <1>11

\* A transaction that scores is matched, weak, underpaid or overpaid.
LEMMA ScoringStatus ==
  ASSUME NEW e, NEW t, Points(e, t) > 0
  PROVE  Score(e, t).status \notin {"unmatched", "ambiguous"}
BY DEF Points, Score, Verdict

\* The result of the cascade, whatever was taken before, is the best one.
THEOREM OutcomeIsBest ==
  ASSUME NEW e, NEW ts, NEW taken, IsFiniteSet(ts)
  PROVE  Fits(Outcome(e, ts, taken), Best(e, ts))
  <1> DEFINE o == Outcome(e, ts, taken)
             B == Best(e, ts)
             one == CHOOSE c \in B : TRUE
  <1>1. B = Candidates(e, ts)
    BY CandidatesAreBest
  <1>2. o = IF B = {} THEN Result(Verdict(0, "unmatched"), None)
            ELSE IF Cardinality(B) > 1 THEN Result(Verdict(2000, "ambiguous"), None)
            ELSE IF one.id \in taken THEN Result(Verdict(3000, "duplicate"), one.id)
            ELSE Result(Score(e, one), one.id)
    BY <1>1 DEF Outcome
  <1>3. IsFiniteSet(B) /\ Cardinality(B) \in Nat
    BY FS_Subset, FS_CardinalityType DEF Best
  <1>4. \A t \in B : Score(e, t).status \notin {"unmatched", "ambiguous"}
    BY ScoringStatus DEF Best
  <1>5. \A t : B = {t} => one = t
    OBVIOUS
  <1> HIDE DEF B, o, one
  <1>6. CASE B = {}
    <2>1. Cardinality(B) = 0
      BY <1>6, FS_EmptySet
    <2>2. o.status = "unmatched" /\ o.txn = None
      BY <1>2, <1>6 DEF Result, Verdict
    <2>3. Fits(o, B) BY <1>6, <2>1, <2>2 DEF Fits
    <2>4. QED BY <2>3 DEF o, B
  <1>7. CASE B # {} /\ Cardinality(B) > 1
    <2>1. o.status = "ambiguous" /\ o.txn = None
      BY <1>2, <1>7 DEF Result, Verdict
    <2>2. Fits(o, B) BY <1>7, <2>1 DEF Fits
    <2>3. QED BY <2>2 DEF o, B
  <1>8. CASE B # {} /\ ~(Cardinality(B) > 1)
    <2>1. Cardinality(B) = 1
      BY <1>3, <1>8, FS_EmptySet
    <2>2. PICK t : B = {t}
      BY <1>3, <2>1, FS_Singleton
    <2>3. one = t
      BY <1>5, <2>2
    <2>4. o.txn = t.id /\ (o.status = "duplicate" \/ o.status = Score(e, t).status)
      <3>1. o = IF t.id \in taken THEN Result(Verdict(3000, "duplicate"), t.id)
                ELSE Result(Score(e, t), t.id)
        BY <1>2, <1>8, <2>3
      <3>2. QED BY <3>1 DEF Result, Verdict
    <2>5. {v.id : v \in B} = {t.id}
      BY <2>2
    <2>6. Fits(o, B) BY <1>4, <1>8, <2>2, <2>4, <2>5 DEF Fits
    <2>7. QED BY <2>6 DEF o, B
  <1>9. QED BY <1>6, <1>7, <1>8 DEF B

\* What a result for e owes to the transactions, besides being the best.
Statuses == {"matched", "weak", "unmatched", "duplicate", "underpaid", "overpaid", "ambiguous"}

LawfulParts(txn, score, status, real, taken) ==
  /\ txn \in Nat \cup {None} /\ score \in 0..10000 /\ status \in Statuses
  /\ status = "matched" => real
  /\ status = "duplicate" => txn \in taken
  /\ status \notin {"unmatched", "ambiguous", "duplicate"} => txn \notin taken

\* Some transaction of this identity has the amount of e.
Real(txn, e, ts) == \E t \in ts : t.id = txn /\ t.amount = e.amount

Lawful(o, e, ts, taken) == LawfulParts(o.txn, o.score, o.status, Real(o.txn, e, ts), taken)

\* What scores a payment against a transaction can say.
LEMMA ScoreParts ==
  ASSUME NEW e, NEW t
  PROVE  \E score, status :
           /\ Score(e, t) = Verdict(score, status)
           /\ score \in 0..10000
           /\ status \in {"matched", "weak", "unmatched", "underpaid", "overpaid"}
           /\ status = "matched" => t.amount = e.amount
BY DEF Score, SameAmountCurrency

\* What the cascade makes of a payment is lawful.
LEMMA OutcomeFacts ==
  ASSUME NEW e, NEW ts, NEW taken, IsFiniteSet(ts), ts \subseteq Payments,
         NEW o, o = Outcome(e, ts, taken)
  PROVE  Lawful(o, e, ts, taken)
  <1> DEFINE cs == Candidates(e, ts)
             one == CHOOSE c \in cs : TRUE
  <1>1. o = IF cs = {} THEN Result(Verdict(0, "unmatched"), None)
            ELSE IF Cardinality(cs) > 1 THEN Result(Verdict(2000, "ambiguous"), None)
            ELSE IF one.id \in taken THEN Result(Verdict(3000, "duplicate"), one.id)
            ELSE Result(Score(e, one), one.id)
    BY DEF Outcome
  <1>2. cs \subseteq ts
    BY DEF Candidates, Exact, Referenced, Paid, Near
  <1>3. cs # {} => one \in cs
    OBVIOUS
  <1>4. \A t \in ts : t.id \in Nat
    BY ReconciliationAssumption DEF Payment
  <1>5. \A t \in cs : Score(e, t).status \notin {"unmatched", "ambiguous"}
    BY CandidatesAreBest, ScoringStatus DEF Best
  <1> HIDE DEF cs, one
  <1>6. CASE cs = {} \/ Cardinality(cs) > 1
    <2>1. PICK score, status : o.txn = None /\ o.score = score /\ o.status = status
                               /\ score \in {0, 2000} /\ status \in {"unmatched", "ambiguous"}
      BY <1>1, <1>6 DEF Result, Verdict
    <2>2. PICK real : real = Real(None, e, ts)
      OBVIOUS
    <2>3. LawfulParts(None, score, status, real, taken)
      BY ONLY <2>1 DEF LawfulParts, Statuses
    <2>4. QED BY ONLY <2>1, <2>2, <2>3 DEF Lawful
  <1>7. CASE cs # {} /\ ~(Cardinality(cs) > 1) /\ one.id \in taken
    <2>1. PICK txn, status : o.txn = txn /\ txn = one.id /\ o.score = 3000 /\ o.status = status
                             /\ status = "duplicate"
      BY <1>1, <1>7 DEF Result, Verdict
    <2>2. txn \in Nat /\ txn \in taken
      BY <1>2, <1>3, <1>4, <1>7, <2>1
    <2>3. PICK real : real = Real(txn, e, ts)
      OBVIOUS
    <2>4. LawfulParts(txn, 3000, status, real, taken)
      BY ONLY <2>1, <2>2 DEF LawfulParts, Statuses
    <2>5. QED BY ONLY <2>1, <2>3, <2>4 DEF Lawful
  <1>8. CASE cs # {} /\ ~(Cardinality(cs) > 1) /\ one.id \notin taken
    <2>1. PICK score, status :
            /\ Score(e, one) = Verdict(score, status)
            /\ score \in 0..10000
            /\ status \in {"matched", "weak", "unmatched", "underpaid", "overpaid"}
            /\ status = "matched" => one.amount = e.amount
      BY ScoreParts
    <2>2. PICK txn : txn = one.id
      OBVIOUS
    <2>3. o.txn = txn /\ o.score = score /\ o.status = status
      BY <1>1, <1>8, <2>1, <2>2 DEF Result, Verdict
    <2>4. one \in ts /\ txn \in Nat /\ txn \notin taken
      BY <1>2, <1>3, <1>4, <1>8, <2>2
    <2>5. status \notin {"unmatched", "ambiguous"}
      <3>1. Score(e, one).status \notin {"unmatched", "ambiguous"}
        BY <1>3, <1>5, <1>8
      <3>2. QED BY ONLY <2>1, <3>1 DEF Verdict
    <2>6. status = "matched" => Real(txn, e, ts)
      BY ONLY <2>1, <2>2, <2>4 DEF Real
    <2>7. PICK real : real = Real(txn, e, ts)
      OBVIOUS
    <2>8. LawfulParts(txn, score, status, real, taken)
      BY ONLY <2>1, <2>4, <2>5, <2>6, <2>7 DEF LawfulParts, Statuses
    <2>9. QED BY ONLY <2>3, <2>7, <2>8 DEF Lawful
  <1>9. QED BY <1>6, <1>7, <1>8

\* The transactions that results take, and the result a payment gets after the results rs.
TakenBy(rs) == {x.txn : x \in {y \in rs : y.status \notin {"unmatched", "ambiguous"}}}

ResultFor(e, rs, seen) ==
  LET o == Outcome(e.item, seen, TakenBy(rs)) IN
  [expected |-> e, txn |-> o.txn, status |-> o.status, score |-> o.score]

\* One more result, for a payment that has none and comes after those that have one,
\* leaves the results typed, one per payment, and none taken twice.
LEMMA AddResult ==
  ASSUME NEW rs, NEW seen, Paired(rs, seen), IsFiniteSet(seen), seen \subseteq Payments,
         NEW e \in ExpectedRow,
         \A x \in rs : x.expected # e /\ (Named(e, seen) => Named(x.expected, seen)),
         NEW x0, x0 = ResultFor(e, rs, seen)
  PROVE  Paired(rs \cup {x0}, seen)
  <1>a. PICK taken : taken = {x.txn : x \in {y \in rs : y.status \notin {"unmatched", "ambiguous"}}}
    OBVIOUS
  <1>b. PICK o : o = Outcome(e.item, seen, taken)
    OBVIOUS
  <1>c. x0 = [expected |-> e, txn |-> o.txn, status |-> o.status, score |-> o.score]
    BY <1>a, <1>b DEF ResultFor, TakenBy
  <1> DEFINE rs1 == rs \cup {x0}
  <1>1. Lawful(o, e.item, seen, taken)
    BY <1>b, OutcomeFacts
  <1>2. x0.expected = e /\ x0.txn = o.txn /\ x0.status = o.status /\ x0.score = o.score
    BY <1>c
  <1>3. rs1 \subseteq ResultRow /\ IsFiniteSet(rs1)
    <2>1. x0 \in ResultRow
      <3>1. PICK txn, score, status : txn = o.txn /\ score = o.score /\ status = o.status
        OBVIOUS
      <3>2. txn \in Nat \cup {None} /\ score \in 0..10000 /\ status \in Statuses
        <4>1. PICK real : real = Real(txn, e.item, seen)
          OBVIOUS
        <4>2. LawfulParts(txn, score, status, real, taken)
          BY ONLY <1>1, <3>1, <4>1 DEF Lawful
        <4>3. QED BY ONLY <4>2 DEF LawfulParts
      <3>3. x0 = [expected |-> e, txn |-> txn, status |-> status, score |-> score]
        BY ONLY <1>c, <3>1
      <3>4. QED BY ONLY <3>2, <3>3, e \in ExpectedRow DEF ResultRow, Statuses
    <2>2. QED BY <2>1, FS_AddElement DEF Paired
  <1>4. OncePerPayment(rs1)
    BY <1>2 DEF Paired, OncePerPayment
  <1>5. NoneTakenTwice(rs1)
    <2>1. \A x \in rs : Takes(x) => x.txn \in taken
      BY <1>a DEF Takes
    <2>2. Takes(x0) => x0.txn \notin taken
      BY ONLY <1>1, <1>2 DEF Takes, Lawful, LawfulParts
    <2>3. \A x, y \in rs : Takes(x) /\ Takes(y) /\ x.txn = y.txn => x = y
      BY DEF Paired, NoneTakenTwice
    <2>4. QED BY ONLY <2>1, <2>2, <2>3 DEF NoneTakenTwice
  <1>6. BestFor(x0, seen)
    <2>1. Fits(o, Best(e.item, seen))
      BY <1>b, OutcomeIsBest
    <2>2. QED BY <1>2, <2>1 DEF BestFor, Fits
  <1>7. RealMatch(x0, seen)
    BY ONLY <1>1, <1>2 DEF RealMatch, Lawful, LawfulParts, Real
  <1>8. \A x \in rs : FairlyLost(x, rs1, seen)
    BY DEF Paired, FairlyLost
  <1>9. FairlyLost(x0, rs1, seen)
    <2>0. SUFFICES ASSUME x0.status = "duplicate"
                 PROVE  \E y \in rs : Takes(y) /\ y.txn = x0.txn
                                       /\ (Named(x0.expected, seen) => Named(y.expected, seen))
      BY DEF FairlyLost
    <2>1. PICK y \in rs : y.status \notin {"unmatched", "ambiguous"} /\ y.txn = x0.txn
      <3>1. x0.txn \in taken
        BY ONLY <1>1, <1>2, <2>0 DEF Lawful, LawfulParts
      <3>2. QED BY <1>a, <3>1
    <2>2. CASE y.status # "duplicate"
      BY <1>2, <2>1, <2>2 DEF Takes
    <2>3. CASE y.status = "duplicate"
      <3>1. PICK z \in rs : Takes(z) /\ z.txn = y.txn
        BY <2>3 DEF Paired, FairlyLost
      <3>2. QED BY <1>2, <2>1, <3>1
    <2>4. QED BY <2>2, <2>3
  <1>10. \A x \in rs : BestFor(x, seen) /\ RealMatch(x, seen)
    BY DEF Paired
  <1> HIDE DEF rs1
  <1>11. \A x \in rs1 : BestFor(x, seen) /\ RealMatch(x, seen) /\ FairlyLost(x, rs1, seen)
    BY <1>6, <1>7, <1>8, <1>9, <1>10 DEF rs1
  <1>12. QED BY <1>3, <1>4, <1>5, <1>11 DEF Paired, rs1

------------------------------------------------------------------------------
(***************************************************************************)
(* The import of one row.                                                  *)
(***************************************************************************)

\* Each row is counted once.
LEMMA TallyGrows ==
  ASSUME NEW received \in Nat, NEW rows \in Nat, NEW at, NEW inserted, NEW skipped, NEW rejected,
         Tally(received, rows, at, inserted, skipped, rejected), at <= rows
  PROVE  /\ Tally(received, rows, at + 1, inserted + 1, skipped, rejected)
         /\ Tally(received, rows, at + 1, inserted, skipped + 1, rejected)
         /\ Tally(received, rows, at + 1, inserted, skipped, rejected + 1)
BY DEF Tally

\* When all rows are counted, their counts add up to what was received.
LEMMA TallyEnds ==
  ASSUME NEW received \in Nat, NEW rows \in Nat, NEW at \in Nat, NEW inserted, NEW skipped, NEW rejected,
         Tally(received, rows, at, inserted, skipped, rejected), at > rows
  PROVE  inserted + skipped + rejected = received
BY DEF Tally

\* A row that is rejected, and the death of the session that takes the rows with it.
LEMMA RowRejected ==
  ASSUME NEW r, NEW in, NEW v, ImportState(r, in, v), v.at <= Len(in.rows),
         NEW w, w.at = v.at + 1, w.rejected = v.rejected + 1,
         w.inserted = v.inserted, w.skipped = v.skipped,
         (w.rows = v.rows /\ w.dead = v.dead) \/ (w.rows = {} /\ w.dead = TRUE)
  PROVE  ImportState(r, in, w)
  <1>1. in.received \in Nat /\ Len(in.rows) \in Nat
    BY DEF ImportState, ImportInput
  <1>2. Counted(in, w)
    <2>1. Counted(in, v)
      BY DEF ImportState
    <2>2. QED BY <1>1, <2>1, TallyGrows DEF Counted
  <1>3. CASE w.rows = v.rows /\ w.dead = v.dead
    BY <1>2, <1>3 DEF ImportState
  <1>4. CASE w.rows = {} /\ w.dead = TRUE
    BY <1>2, <1>4, FS_EmptySet DEF ImportState, NoRepeats
  <1>5. QED BY <1>3, <1>4

\* A row that is there already.
LEMMA RowSkipped ==
  ASSUME NEW r, NEW in, NEW v, ImportState(r, in, v), v.at <= Len(in.rows),
         NEW w, w.at = v.at + 1, w.skipped = v.skipped + 1,
         w.inserted = v.inserted, w.rejected = v.rejected, w.rows = v.rows, w.dead = v.dead
  PROVE  ImportState(r, in, w)
  <1>1. in.received \in Nat /\ Len(in.rows) \in Nat
    BY DEF ImportState, ImportInput
  <1>2. Counted(in, w)
    <2>1. Counted(in, v)
      BY DEF ImportState
    <2>2. QED BY <1>1, <2>1, TallyGrows DEF Counted
  <1>3. QED BY <1>2 DEF ImportState

\* A row that is added: nothing the import added before is sought in the same way.
LEMMA RowInserted ==
  ASSUME NEW r, NEW in, NEW v, ImportState(r, in, v), v.at <= Len(in.rows), ~v.dead,
         NEW x, x = [id |-> <<r, v.at>>, form |-> in.rows[v.at].form, item |-> in.rows[v.at].item],
         \A y \in v.rows : Sought(y.item) # Sought(in.rows[v.at].item),
         NEW w, w.at = v.at + 1, w.inserted = v.inserted + 1,
         w.skipped = v.skipped, w.rejected = v.rejected, w.rows = v.rows \cup {x}, w.dead = v.dead
  PROVE  ImportState(r, in, w)
  <1>1. in.received \in Nat /\ Len(in.rows) \in Nat /\ in.rows \in Seq(Row) /\ v.at \in 1..Len(in.rows)
    BY DEF ImportState, ImportInput, Counted, Tally
  <1>2. Counted(in, w)
    <2>1. Counted(in, v)
      BY DEF ImportState
    <2>2. QED BY <1>1, <2>1, TallyGrows DEF Counted
  <1>3. x \in WorkRow(r)
    <2>1. in.rows[v.at] \in Row /\ v.at \in Nat
      BY <1>1
    <2>2. in.rows[v.at].form \in {"good", "unsearchable", "unstorable"} /\ in.rows[v.at].item \in Expectation
      BY <2>1 DEF Row
    <2>3. QED BY <2>1, <2>2 DEF WorkRow
  <1>4. x \notin v.rows /\ x.item = in.rows[v.at].item
    OBVIOUS
  <1>5. NoRepeats(w.rows)
    BY <1>4 DEF ImportState, NoRepeats
  <1>6. IsFiniteSet(w.rows) /\ Cardinality(w.rows) = Cardinality(v.rows) + 1
    <2>1. IsFiniteSet(v.rows)
      BY DEF ImportState
    <2>2. QED BY <1>4, <2>1, FS_AddElement
  <1>7. QED BY <1>2, <1>3, <1>5, <1>6 DEF ImportState

------------------------------------------------------------------------------
(***************************************************************************)
(* The statements of a run.                                                *)
(***************************************************************************)

\* No result is typed, fair and real.
LEMMA NoResults ==
  ASSUME NEW seen
  PROVE  Paired({}, seen) /\ MatchedIds({}) = {}
  <1>1. MatchedIds({}) = {}
    BY DEF MatchedIds
  <1>2. QED BY <1>1, FS_EmptySet DEF Paired, OncePerPayment, NoneTakenTwice

\* In an order, a payment that a transaction names comes before those none does.
LEMMA OrdersPutNamedFirst ==
  ASSUME NEW es, NEW ts, NEW q \in Orders(es, ts),
         NEW i \in DOMAIN q, NEW j \in DOMAIN q, i < j, Named(q[j], ts)
  PROVE  Named(q[i], ts)
  <1>1. ~Before(SortKey(q[j].item, ts), SortKey(q[i].item, ts))
    BY DEF Orders
  <1>2. SUFFICES ASSUME ~Named(q[i], ts) PROVE FALSE
    OBVIOUS
  <1> DEFINE k == SortKey(q[j].item, ts)
             l == SortKey(q[i].item, ts)
  <1>3. k[1] = 0 /\ l[1] = 1
    BY <1>2 DEF SortKey, Rank, Named
  <1> HIDE DEF k, l
  <1>4. Before(k, l)
    BY <1>3 DEF Before
  <1>5. QED BY <1>1, <1>4 DEF k, l

\* The state of a run whose transactions have been read.
LEMMA RunBegins ==
  ASSUME NEW v, Fresh(v), NEW seen, NEW q \in Orders(v.loaded, seen),
         NEW w, w.results = v.results, w.marked = v.marked, w.loaded = v.loaded,
         w.seen = seen, w.queue = q
  PROVE  RunState(w)
  <1>1. v.results = {} /\ v.marked = {} /\ IsFiniteSet(v.loaded)
    BY DEF Fresh
  <1>2. QueueInv(w)
    <2>1. WorksOff(q, v.loaded, {})
      BY <1>1, AnyOrderWorksOff DEF Orders
    <2>2. QED BY <1>1, <2>1 DEF QueueInv
  <1>3. OrderInv(w)
    <2>1. \A i, j \in DOMAIN q : i < j /\ Named(q[j], seen) => Named(q[i], seen)
      BY OrdersPutNamedFirst
    <2>2. QED BY <1>1, <2>1 DEF OrderInv
  <1>4. Paired(w.results, w.seen) /\ MarksInv(w)
    BY <1>1, NoResults DEF MarksInv
  <1>5. QED BY <1>2, <1>3, <1>4 DEF RunState

\* The queue keeps its meaning when its head gets a result.
LEMMA QueueAdvances ==
  ASSUME NEW v, QueueInv(v), v.queue # <<>>,
         NEW x0, x0.expected = Head(v.queue),
         NEW w, w.queue = Tail(v.queue), w.loaded = v.loaded, w.results = v.results \cup {x0}
  PROVE  QueueInv(w)
  <1>1. {x.expected : x \in w.results} = {x.expected : x \in v.results} \cup {Head(v.queue)}
    OBVIOUS
  <1>2. QED BY <1>1, HeadWorkedOff DEF QueueInv

\* So does its order.
LEMMA OrderAdvances ==
  ASSUME NEW v, QueueInv(v), OrderInv(v), v.queue # <<>>,
         NEW x0, x0.expected = Head(v.queue),
         NEW w, w.queue = Tail(v.queue), w.seen = v.seen, w.results = v.results \cup {x0}
  PROVE  OrderInv(w)
  <1> DEFINE q == v.queue
             t == Tail(v.queue)
             N(e) == Named(e, v.seen)
  <1>1. /\ Head(q) = q[1] /\ 1 \in DOMAIN q
        /\ DOMAIN t \subseteq Nat \ {0}
        /\ \A i \in DOMAIN t : i + 1 \in DOMAIN q /\ t[i] = q[i + 1]
    BY HeadAndTail DEF QueueInv
  <1>2. /\ \A i, j \in DOMAIN q : i < j /\ N(q[j]) => N(q[i])
        /\ \A x \in v.results : \A j \in DOMAIN q : N(q[j]) => N(x.expected)
    BY DEF OrderInv
  <1>3. DOMAIN t \subseteq Nat \ {0}
    BY <1>1
  <1>4. x0.expected = q[1]
    BY <1>1
  <1> HIDE DEF t, q, N
  <1>5. \A i, j \in DOMAIN t : i < j /\ N(t[j]) => N(t[i])
    <2> SUFFICES ASSUME NEW i \in DOMAIN t, NEW j \in DOMAIN t, i < j, N(t[j]) PROVE N(t[i])
      OBVIOUS
    <2>1. i + 1 < j + 1
      BY <1>3
    <2>2. QED BY <1>1, <1>2, <2>1
  <1>6. \A x \in v.results : \A j \in DOMAIN t : N(t[j]) => N(x.expected)
    BY <1>1, <1>2
  <1>7. \A j \in DOMAIN t : N(t[j]) => N(x0.expected)
    <2> SUFFICES ASSUME NEW j \in DOMAIN t, N(t[j]) PROVE N(x0.expected)
      OBVIOUS
    <2>1. 1 < j + 1
      BY <1>3
    <2>2. QED BY <1>1, <1>2, <1>4, <2>1
  <1>8. w.queue = t
    BY DEF t
  <1>9. QED BY <1>5, <1>6, <1>7, <1>8 DEF OrderInv, N

\* A payment that becomes matched is marked, unless it was read as matched.
LEMMA MarksAdvance ==
  ASSUME NEW v, MarksInv(v), NEW e, NEW x0, x0.expected = e,
         NEW w, w.known = v.known, w.results = v.results \cup {x0},
         w.marked = v.marked \cup (IF x0.status = "matched" THEN {e.id} \ v.known ELSE {})
  PROVE  MarksInv(w)
  <1>1. MatchedIds(w.results) = MatchedIds(v.results) \cup (IF x0.status = "matched" THEN {e.id} ELSE {})
    BY DEF MatchedIds
  <1>2. v.marked \subseteq MatchedIds(v.results) /\ MatchedIds(v.results) \subseteq v.marked \cup v.known
    BY DEF MarksInv
  <1>3. QED BY <1>1, <1>2 DEF MarksInv

\* The state of a run when the next payment has its result.
LEMMA RunAdvances ==
  ASSUME NEW v, RunState(v), v.queue # <<>>, v.loaded \subseteq ExpectedRow,
         IsFiniteSet(v.seen), v.seen \subseteq Payments,
         NEW e, e = Head(v.queue), NEW x0, x0 = ResultFor(e, v.results, v.seen),
         NEW w, w.queue = Tail(v.queue), w.loaded = v.loaded, w.known = v.known, w.seen = v.seen,
         w.results = v.results \cup {x0},
         w.marked = v.marked \cup (IF x0.status = "matched" THEN {e.id} \ v.known ELSE {})
  PROVE  RunState(w)
  <1>1. Paired(v.results, v.seen) /\ QueueInv(v) /\ OrderInv(v) /\ MarksInv(v)
    BY DEF RunState
  <1>2. x0.expected = e
    BY DEF ResultFor
  <1>3. x0.expected = Head(v.queue)
    BY <1>2
  <1>4. QueueInv(w)
    BY <1>1, <1>3, QueueAdvances
  <1>5. OrderInv(w)
    BY <1>1, <1>3, OrderAdvances
  <1>6. MarksInv(w)
    BY <1>1, <1>2, MarksAdvance
  <1>7. Paired(v.results \cup {x0}, v.seen)
    <2>1. e \in ExpectedRow /\ \A x \in v.results : x.expected # e
      BY <1>1, HeadAndTail DEF QueueInv
    <2>2. \A x \in v.results : Named(e, v.seen) => Named(x.expected, v.seen)
      <3>1. Head(v.queue) = v.queue[1] /\ 1 \in DOMAIN v.queue
        BY <1>1, HeadAndTail DEF QueueInv
      <3>2. \A x \in v.results : \A j \in DOMAIN v.queue : Named(v.queue[j], v.seen) => Named(x.expected, v.seen)
        BY <1>1 DEF OrderInv
      <3>3. QED BY <3>1, <3>2
    <2>3. QED BY <1>1, <2>1, <2>2, AddResult
  <1>8. QED BY <1>4, <1>5, <1>6, <1>7 DEF RunState

\* A run without anything left to compare has a result for each payment it loaded.
LEMMA RunEnds ==
  ASSUME NEW v, RunState(v), v.queue = <<>>, v.seen \subseteq Payments,
         NEW u, u.results = v.results, u.loaded = v.loaded, u.seen = v.seen, u.count = Cardinality(v.loaded)
  PROVE  RunRow(u)
  <1>1. Paired(v.results, v.seen) /\ QueueInv(v)
    BY DEF RunState
  <1>2. v.loaded = {x.expected : x \in v.results}
    BY <1>1, AllWorkedOff DEF QueueInv
  <1>3. Cardinality(v.loaded) = Cardinality(v.results)
    <2> DEFINE f == [x \in v.results |-> x.expected]
    <2>1. IsFiniteSet(v.results) /\ \A x, y \in v.results : x.expected = y.expected => x = y
      BY <1>1 DEF Paired, OncePerPayment
    <2>2. f \in Bijection(v.results, v.loaded)
      BY <1>2, <2>1 DEF Bijection, Injection, Surjection, IsInjective
    <2>3. ExistsBijection(v.results, v.loaded)
      BY <2>2 DEF ExistsBijection
    <2>4. QED BY <2>1, <2>3, FS_Bijection
  <1>4. QED BY <1>1, <1>2, <1>3 DEF RunRow

------------------------------------------------------------------------------
(***************************************************************************)
(* Steps.                                                                  *)
(***************************************************************************)

\* Only r takes a step, and r does not leave "done".
LocalStep(r) ==
  /\ pc' \in [Requests -> Statements] /\ DOMAIN work' = Requests /\ DOMAIN input' = Requests /\ DOMAIN answer' = Requests
  /\ \A q \in Requests \ {r} :
       pc'[q] = pc[q] /\ work'[q] = work[q] /\ input'[q] = input[q] /\ answer'[q] = answer[q]
  /\ pc[r] = "done" => pc'[r] = "done"

\* The tables only grow.
Growing == transactions \subseteq transactions' /\ expected \subseteq expected' /\ matched \subseteq matched'

\* A request goes from statement to statement.
LEMMA PcMoves ==
  ASSUME IInv, NEW r \in Requests, NEW s \in Statements, pc' = [pc EXCEPT ![r] = s]
  PROVE  pc' \in [Requests -> Statements] /\ pc'[r] = s /\ \A q \in Requests \ {r} : pc'[q] = pc[q]
BY DEF IInv

\* A request is not disturbed by what others add to the tables.
LEMMA OthersKeep ==
  ASSUME IInv, NEW q \in Requests, Growing,
         pc'[q] = pc[q], work'[q] = work[q], input'[q] = input[q], answer'[q] = answer[q]
  PROVE  RequestInv(q)'
  <1>1. RequestInv(q)
    BY DEF IInv
  <1>2. transactions \subseteq transactions' /\ expected \subseteq expected' /\ matched \subseteq matched'
    BY DEF Growing
  <1>3. QED BY <1>1, <1>2 DEF RequestInv

\* The parts of the invariant about the requests.
LEMMA RequestsKeep ==
  ASSUME IInv, NEW r \in Requests, LocalStep(r), RequestInv(r)', Growing
  PROVE  /\ pc' \in [Requests -> Statements] /\ DOMAIN work' = Requests /\ DOMAIN input' = Requests
            /\ DOMAIN answer' = Requests
         /\ \A q \in Requests : RequestInv(q)'
         /\ \A q \in Requests : pc[q] = "done" => pc'[q] = "done"
  <1>1. ASSUME NEW q \in Requests PROVE RequestInv(q)'
    <2>1. CASE q = r
      BY <2>1
    <2>2. CASE q # r
      BY <2>2, OthersKeep DEF LocalStep
    <2>3. QED BY <2>1, <2>2
  <1>2. QED BY <1>1 DEF LocalStep

\* A step of r that leaves the tables alone keeps the invariant if what it leaves of r
\* satisfies it.
LEMMA LocalKeepsIInv ==
  ASSUME IInv, NEW r \in Requests, LocalStep(r), RequestInv(r)', UNCHANGED tables
  PROVE  IInv'
  <1>1. /\ transactions' = transactions /\ expected' = expected /\ matched' = matched
        /\ batches' = batches /\ runs' = runs
    BY DEF tables
  <1>2. Growing
    BY <1>1 DEF Growing
  <1>3. /\ pc' \in [Requests -> Statements] /\ DOMAIN work' = Requests /\ DOMAIN input' = Requests
           /\ DOMAIN answer' = Requests
        /\ \A q \in Requests : RequestInv(q)'
        /\ \A q \in Requests : pc[q] = "done" => pc'[q] = "done"
    BY <1>2, RequestsKeep
  <1>4. ExpectedInv'
    <2>1. \A e \in expected : e.id[1] # None => e.id[1] \in Requests /\ pc[e.id[1]] = "done"
      BY DEF IInv, ExpectedInv, ExpectedRow
    <2>2. QED BY <1>1, <1>3, <2>1 DEF IInv, ExpectedInv
  <1>5. BatchesInv'
    BY <1>1, <1>3 DEF IInv, BatchesInv
  <1>6. RunsInv' /\ BatchesAddUp' /\ ImportsHaveNoRepeats' /\ MatchedIsEarned'
    BY <1>1 DEF IInv, RunsInv, BatchesAddUp, ImportsHaveNoRepeats, MatchedIsEarned
  <1>7. transactions' \subseteq Payments /\ IsFiniteSet(transactions')
    BY <1>1 DEF IInv
  <1>8. QED BY <1>3, <1>4, <1>5, <1>6, <1>7 DEF IInv

\* A statement that moves r to s and leaves w of its work.
LEMMA MoveKeepsIInv ==
  ASSUME IInv, NEW r \in Requests, NEW s \in Statements \ {"idle", "load_expected", "done"},
         Goto(r, s), pc[r] # "done",
         NEW w, work' = [work EXCEPT ![r] = w], DOMAIN w = DOMAIN Idle,
         s = "import_row" => ImportState(r, input[r], w),
         s = "load_transactions" => Fresh(w),
         s = "match" => RunState(w) /\ w.seen \subseteq transactions,
         s \in {"load_transactions", "match"} => w.loaded \subseteq expected /\ w.known \subseteq matched
  PROVE  IInv'
  <1>1. pc' = [pc EXCEPT ![r] = s] /\ UNCHANGED tables /\ input' = input /\ answer' = answer
    BY DEF Goto
  <1>2. LocalStep(r) /\ pc'[r] = s /\ work'[r] = w
    BY <1>1 DEF LocalStep, IInv
  <1>3. RequestInv(r)
    BY DEF IInv
  <1>4. RequestInv(r)'
    <2>1. transactions' = transactions /\ expected' = expected /\ matched' = matched
      BY <1>1 DEF tables
    <2>2. /\ answer[r].status \in {"none", "200", "400", "500", "lost"}
          /\ input[r] # None => input[r] \in ImportInput \cup RunInput
      BY <1>3 DEF RequestInv
    <2>3. s \in Statements /\ s \notin {"idle", "load_expected", "done"}
      OBVIOUS
    <2>4. QED BY <1>1, <1>2, <2>1, <2>2, <2>3 DEF RequestInv
  <1>5. QED BY <1>1, <1>2, <1>4, LocalKeepsIInv

\* A request that ends forgets its work.
LEMMA EndIsLocal ==
  ASSUME IInv, NEW r \in Requests, NEW status \in {"200", "400", "500", "lost"}, End(r, status)
  PROVE  LocalStep(r) /\ RequestInv(r)' /\ pc'[r] = "done"
  <1>1. LocalStep(r) /\ pc'[r] = "done" /\ work'[r] = Idle /\ input'[r] = input[r] /\ answer'[r].status = status
    <2>1. pc' \in [Requests -> Statements] /\ pc'[r] = "done" /\ \A q \in Requests \ {r} : pc'[q] = pc[q]
      BY PcMoves DEF End, Statements
    <2>2. QED BY <2>1 DEF End, LocalStep, IInv, Answer
  <1>2. input[r] # None => input[r] \in ImportInput \cup RunInput
    BY DEF IInv, RequestInv
  <1>3. QED BY <1>1, <1>2 DEF RequestInv, Statements

\* A request that ends and keeps nothing.
LEMMA DiscardKeepsIInv ==
  ASSUME IInv, NEW r \in Requests, NEW status \in {"200", "400", "500", "lost"}, Discard(r, status)
  PROVE  IInv'
  <1>1. LocalStep(r) /\ RequestInv(r)'
    BY EndIsLocal DEF Discard
  <1>2. QED BY <1>1, LocalKeepsIInv DEF Discard

\* An import begins with nothing counted but what validation refused.
LEMMA ArriveImportKeepsIInv ==
  ASSUME IInv, NEW r \in Requests, ArriveImport(r)
  PROVE  IInv'
  <1>1. /\ pc[r] = "idle" /\ pc' = [pc EXCEPT ![r] = "import_row"]
        /\ UNCHANGED tables /\ answer' = answer
    BY DEF ArriveImport
  <1>2. PICK body \in Imports :
          /\ input' = [input EXCEPT ![r] = [kind |-> "import", received |-> Len(body.items) + body.errors,
                                            rows |-> body.items]]
          /\ work' = [work EXCEPT ![r].rejected = (Len(body.items) + body.errors) - Len(body.items)]
    BY DEF ArriveImport
  <1>3. PICK n \in Nat, k \in Nat : n = Len(body.items) /\ k = body.errors
    BY ReconciliationAssumption DEF Body
  <1>4. body.items \in Seq(Row)
    BY ReconciliationAssumption DEF Body
  <1>5. work[r] = Idle
    BY <1>1 DEF IInv, RequestInv
  <1>6. PICK in : in = [kind |-> "import", received |-> n + k, rows |-> body.items]
    OBVIOUS
  <1>7. PICK w : w = [Idle EXCEPT !.rejected = (n + k) - n]
    OBVIOUS
  <1>8. /\ pc'[r] = "import_row" /\ input'[r] = in /\ work'[r] = w /\ answer'[r] = answer[r] /\ LocalStep(r)
    <2>1. /\ pc' \in [Requests -> Statements] /\ pc'[r] = "import_row"
          /\ \A q \in Requests \ {r} : pc'[q] = pc[q]
      BY <1>1, PcMoves DEF Statements
    <2>2. QED BY <1>1, <1>2, <1>3, <1>5, <1>6, <1>7, <2>1 DEF LocalStep, IInv
  <1>9. in \in ImportInput /\ in.received = n + k /\ Len(in.rows) = n
    BY <1>3, <1>4, <1>6 DEF ImportInput
  <1>10. /\ w.at = 1 /\ w.rows = {} /\ w.inserted = 0 /\ w.skipped = 0 /\ w.rejected = (n + k) - n /\ w.dead = FALSE
         /\ DOMAIN w = DOMAIN Idle
    BY <1>7 DEF Idle
  <1>11. Counted(in, w)
    <2>1. Tally(n + k, n, 1, 0, 0, (n + k) - n)
      BY DEF Tally
    <2>2. QED BY <1>9, <1>10, <2>1 DEF Counted
  <1>12. ImportState(r, in, w)
    BY <1>9, <1>10, <1>11, FS_EmptySet DEF ImportState, NoRepeats
  <1>13. answer[r].status \in {"none", "200", "400", "500", "lost"}
    BY DEF IInv, RequestInv
  <1>14. RequestInv(r)'
    BY <1>8, <1>9, <1>10, <1>12, <1>13 DEF RequestInv, Statements
  <1>15. QED BY <1>1, <1>8, <1>14, LocalKeepsIInv

\* A run is refused, or begins.
LEMMA ArriveRunKeepsIInv ==
  ASSUME IInv, NEW r \in Requests, ArriveRun(r)
  PROVE  IInv'
  <1>1. pc[r] = "idle" /\ UNCHANGED tables /\ work' = work
    BY DEF ArriveRun
  <1>2. PICK period \in Ranges :
          /\ input' = [input EXCEPT ![r] = [kind |-> "run", from |-> period[1], to |-> period[2]]]
          /\ \/ pc' = [pc EXCEPT ![r] = "load_expected"] /\ answer' = answer
             \/ pc' = [pc EXCEPT ![r] = "done"] /\ answer' = [answer EXCEPT ![r] = Answer("400", 0)]
    BY DEF ArriveRun
  <1>3. input'[r] \in RunInput
    <2>1. period[1] \in Int /\ period[2] \in Int
      BY ReconciliationAssumption
    <2>2. input'[r] = [kind |-> "run", from |-> period[1], to |-> period[2]]
      BY <1>2 DEF IInv
    <2>3. QED BY <2>1, <2>2 DEF RunInput
  <1>4. pc'[r] \in {"load_expected", "done"} /\ LocalStep(r)
    <2>1. /\ pc' \in [Requests -> Statements] /\ pc'[r] \in {"load_expected", "done"}
          /\ \A q \in Requests \ {r} : pc'[q] = pc[q]
      BY <1>2, PcMoves DEF Statements
    <2>2. QED BY <1>1, <1>2, <2>1 DEF LocalStep, IInv
  <1>5. answer'[r].status \in {"none", "200", "400", "500", "lost"}
    BY <1>2 DEF IInv, RequestInv, Answer
  <1>6. work'[r] = Idle
    BY <1>1 DEF IInv, RequestInv
  <1>7. RequestInv(r)'
    BY <1>3, <1>4, <1>5, <1>6 DEF RequestInv, Statements
  <1>8. QED BY <1>1, <1>4, <1>7, LocalKeepsIInv

\* A row is rejected.
LEMMA RejectRowKeepsIInv ==
  ASSUME IInv, NEW r \in Requests, RejectRow(r)
  PROVE  IInv'
  <1>1. pc[r] = "import_row" /\ work[r].at <= Len(input[r].rows) /\ Goto(r, "import_row")
    BY DEF RejectRow, Importing
  <1>2. ImportState(r, input[r], work[r]) /\ DOMAIN work[r] = DOMAIN Idle
    BY <1>1 DEF IInv, RequestInv
  <1>3. PICK v : v = work[r]
    OBVIOUS
  <1>4. PICK w : w = [v EXCEPT !.at = @ + 1, !.rejected = @ + 1, !.dead = @ \/ Unstorable(r),
                               !.rows = IF Unstorable(r) THEN {} ELSE @]
    OBVIOUS
  <1>5. work' = [work EXCEPT ![r] = w]
    BY <1>3, <1>4 DEF RejectRow, IInv
  <1>6. /\ w.at = v.at + 1 /\ w.rejected = v.rejected + 1 /\ w.inserted = v.inserted /\ w.skipped = v.skipped
        /\ w.dead = (v.dead \/ Unstorable(r)) /\ w.rows = (IF Unstorable(r) THEN {} ELSE v.rows)
        /\ DOMAIN w = DOMAIN Idle
    BY <1>2, <1>3, <1>4 DEF Idle
  <1>7. (w.rows = v.rows /\ w.dead = v.dead) \/ (w.rows = {} /\ w.dead = TRUE)
    <2>1. v.dead \in BOOLEAN
      BY <1>2, <1>3 DEF ImportState
    <2>2. QED BY <1>6, <2>1
  <1>8. ImportState(r, input[r], w)
    BY <1>1, <1>2, <1>3, <1>6, <1>7, RowRejected
  <1>9. QED BY <1>1, <1>5, <1>6, <1>8, MoveKeepsIInv DEF Statements

\* A row is skipped, or added.
LEMMA ImportRowKeepsIInv ==
  ASSUME IInv, NEW r \in Requests, ImportRow(r)
  PROVE  IInv'
  <1>1. /\ pc[r] = "import_row" /\ work[r].at <= Len(input[r].rows) /\ Goto(r, "import_row")
        /\ ~work[r].dead
    BY DEF ImportRow, ConsiderRow, Importing
  <1>2. ImportState(r, input[r], work[r]) /\ DOMAIN work[r] = DOMAIN Idle
    BY <1>1 DEF IInv, RequestInv
  <1>3. PICK v, row : v = work[r] /\ row = input[r].rows[v.at]
    OBVIOUS
  <1>4. CASE \E item \in Stored(r) : Sought(item) = Sought(row.item)
    <2>1. PICK w : w = [v EXCEPT !.at = @ + 1, !.skipped = @ + 1]
      OBVIOUS
    <2>2. work' = [work EXCEPT ![r] = w]
      BY <1>3, <1>4, <2>1 DEF ImportRow, ConsiderRow, ItemAt, IInv
    <2>3. /\ w.at = v.at + 1 /\ w.skipped = v.skipped + 1 /\ w.inserted = v.inserted /\ w.rejected = v.rejected
          /\ w.rows = v.rows /\ w.dead = v.dead /\ DOMAIN w = DOMAIN Idle
      BY <1>2, <1>3, <2>1 DEF Idle
    <2>4. ImportState(r, input[r], w)
      BY <1>1, <1>2, <1>3, <2>3, RowSkipped
    <2>5. QED BY <1>1, <2>2, <2>3, <2>4, MoveKeepsIInv DEF Statements
  <1>5. CASE ~\E item \in Stored(r) : Sought(item) = Sought(row.item)
    <2>1. PICK x : x = [id |-> <<r, v.at>>, form |-> row.form, item |-> row.item]
      OBVIOUS
    <2>2. PICK w : w = [v EXCEPT !.at = @ + 1, !.inserted = @ + 1, !.rows = @ \cup {x}]
      OBVIOUS
    <2>3. work' = [work EXCEPT ![r] = w]
      BY <1>3, <1>5, <2>1, <2>2 DEF ImportRow, ConsiderRow, ItemAt, IInv
    <2>4. /\ w.at = v.at + 1 /\ w.inserted = v.inserted + 1 /\ w.skipped = v.skipped /\ w.rejected = v.rejected
          /\ w.rows = v.rows \cup {x} /\ w.dead = v.dead /\ DOMAIN w = DOMAIN Idle
      BY <1>2, <1>3, <2>2 DEF Idle
    <2>5. \A y \in v.rows : Sought(y.item) # Sought(row.item)
      BY <1>3, <1>5 DEF Stored
    <2>6. ImportState(r, input[r], w)
      BY <1>1, <1>2, <1>3, <2>1, <2>4, <2>5, RowInserted
    <2>7. QED BY <1>1, <2>3, <2>4, <2>6, MoveKeepsIInv DEF Statements
  <1>6. QED BY <1>4, <1>5

\* The expected payments of the period are read.
LEMMA LoadExpectedKeepsIInv ==
  ASSUME IInv, NEW r \in Requests, LoadExpected(r)
  PROVE  IInv'
  <1>1. pc[r] = "load_expected" /\ Goto(r, "load_transactions")
    BY DEF LoadExpected
  <1>2. work[r] = Idle
    BY <1>1 DEF IInv, RequestInv
  <1>3. PICK loaded : loaded = {e \in expected : Within(r, e.item.day)}
    OBVIOUS
  <1>4. PICK w : w = [Idle EXCEPT !.loaded = loaded, !.known = matched]
    OBVIOUS
  <1>5. work' = [work EXCEPT ![r] = w]
    BY <1>2, <1>3, <1>4 DEF LoadExpected, IInv
  <1>6. w.loaded = loaded /\ w.known = matched /\ w.results = {} /\ w.marked = {} /\ DOMAIN w = DOMAIN Idle
    BY <1>4 DEF Idle
  <1>7. loaded \subseteq expected /\ IsFiniteSet(loaded)
    <2>1. IsFiniteSet(expected) /\ loaded \subseteq expected
      BY <1>3 DEF IInv, ExpectedInv
    <2>2. QED BY <2>1, FS_Subset
  <1>8. Fresh(w)
    BY <1>6, <1>7 DEF Fresh
  <1>9. w.loaded \subseteq expected /\ w.known \subseteq matched
    BY <1>6, <1>7
  <1>10. pc[r] # "done" /\ "load_transactions" \in Statements \ {"idle", "load_expected", "done"}
    BY <1>1 DEF Statements
  <1>11. QED BY <1>1, <1>5, <1>6, <1>8, <1>9, <1>10, MoveKeepsIInv

\* The transactions of the period are read, and the expected payments ordered.
LEMMA LoadTransactionsKeepsIInv ==
  ASSUME IInv, NEW r \in Requests, LoadTransactions(r)
  PROVE  IInv'
  <1>1. pc[r] = "load_transactions" /\ Goto(r, "match")
    BY DEF LoadTransactions
  <1>2. /\ Fresh(work[r]) /\ DOMAIN work[r] = DOMAIN Idle
        /\ work[r].loaded \subseteq expected /\ work[r].known \subseteq matched
    BY <1>1 DEF IInv, RequestInv
  <1>3. PICK v, seen : v = work[r] /\ seen = {t \in transactions : Within(r, t.day)}
    OBVIOUS
  <1>4. PICK q \in Orders(v.loaded, seen) : work' = [work EXCEPT ![r].seen = seen, ![r].queue = q]
    BY <1>3 DEF LoadTransactions
  <1>5. PICK w : w = [v EXCEPT !.seen = seen, !.queue = q]
    OBVIOUS
  <1>6. work' = [work EXCEPT ![r] = w]
    BY <1>3, <1>4, <1>5 DEF IInv
  <1>7. /\ w.results = v.results /\ w.marked = v.marked /\ w.loaded = v.loaded /\ w.known = v.known
        /\ w.seen = seen /\ w.queue = q /\ DOMAIN w = DOMAIN Idle
    BY <1>2, <1>3, <1>5 DEF Idle
  <1>8. RunState(w)
    BY <1>2, <1>3, <1>4, <1>7, RunBegins
  <1>9. w.seen \subseteq transactions
    BY <1>3, <1>7
  <1>10. w.loaded \subseteq expected /\ w.known \subseteq matched
    BY <1>2, <1>3, <1>7
  <1>11. pc[r] # "done" /\ "match" \in Statements \ {"idle", "load_expected", "done"}
    BY <1>1 DEF Statements
  <1>12. QED BY <1>1, <1>6, <1>7, <1>8, <1>9, <1>10, <1>11, MoveKeepsIInv

\* The next payment gets its result.
LEMMA MatchKeepsIInv ==
  ASSUME IInv, NEW r \in Requests, Match(r)
  PROVE  IInv'
  <1>1. pc[r] = "match" /\ Goto(r, "match") /\ work[r].queue # <<>>
    BY DEF Match, Pairing
  <1>2. /\ RunState(work[r]) /\ DOMAIN work[r] = DOMAIN Idle /\ work[r].seen \subseteq transactions
        /\ work[r].loaded \subseteq expected /\ work[r].known \subseteq matched
    BY <1>1 DEF IInv, RequestInv
  <1>3. PICK v : v = work[r]
    OBVIOUS
  <1>4. PICK e : e = Head(v.queue)
    OBVIOUS
  <1>5. PICK x0 : x0 = ResultFor(e, v.results, v.seen)
    OBVIOUS
  <1>6. PICK o : o = Outcome(e.item, v.seen, TakenBy(v.results))
    OBVIOUS
  <1>7. x0 = [expected |-> e, txn |-> o.txn, status |-> o.status, score |-> o.score]
    BY <1>5, <1>6 DEF ResultFor
  <1>8. Verdicts(r) = o
    BY <1>3, <1>4, <1>6 DEF Verdicts, Taken, TakenBy
  <1>9. PICK m : m = IF x0.status = "matched" THEN {e.id} \ v.known ELSE {}
    OBVIOUS
  <1>10. Marks(r) = m
    BY <1>3, <1>4, <1>7, <1>8, <1>9 DEF Marks
  <1>11. PICK w : w = [v EXCEPT !.queue = Tail(@), !.marked = @ \cup m, !.results = @ \cup {x0}]
    OBVIOUS
  <1>12. work' = [work EXCEPT ![r].queue = Tail(@), ![r].marked = @ \cup m, ![r].results = @ \cup {x0}]
    BY <1>3, <1>4, <1>7, <1>8, <1>10 DEF Match
  <1>13. work' = [work EXCEPT ![r] = w]
    BY <1>3, <1>11, <1>12 DEF IInv
  <1>14. /\ w.queue = Tail(v.queue) /\ w.marked = v.marked \cup m /\ w.results = v.results \cup {x0}
         /\ w.loaded = v.loaded /\ w.known = v.known /\ w.seen = v.seen /\ DOMAIN w = DOMAIN Idle
    BY <1>2, <1>3, <1>11 DEF Idle
  <1>15. v.loaded \subseteq ExpectedRow /\ IsFiniteSet(v.seen) /\ v.seen \subseteq Payments
    <2>1. expected \subseteq ExpectedRow /\ IsFiniteSet(transactions) /\ transactions \subseteq Payments
      BY DEF IInv, ExpectedInv
    <2>2. QED BY <1>2, <1>3, <2>1, FS_Subset
  <1>16. w.marked = v.marked \cup (IF x0.status = "matched" THEN {e.id} \ v.known ELSE {})
    BY <1>9, <1>14
  <1>17. RunState(w)
    BY <1>1, <1>2, <1>3, <1>4, <1>5, <1>14, <1>15, <1>16, RunAdvances
  <1>18. QED BY <1>1, <1>2, <1>3, <1>13, <1>14, <1>17, MoveKeepsIInv DEF Statements

\* The commit of an import: the rows it says it inserted are there, all at once.
LEMMA CommitImportKeepsIInv ==
  ASSUME IInv, NEW r \in Requests, pc[r] = "import_row", work[r].at > Len(input[r].rows), ~work[r].dead,
         NEW status \in {"200", "lost"}, End(r, status),
         expected' = expected \cup {[id |-> e.id, item |-> e.item] : e \in work[r].rows},
         batches' = batches \cup {BatchOf(r)}, UNCHANGED <<transactions, matched, runs>>
  PROVE  IInv'
  <1>1. ImportState(r, input[r], work[r])
    BY DEF IInv, RequestInv
  <1>2. PICK v, in : v = work[r] /\ in = input[r]
    OBVIOUS
  <1>3. /\ v.rows \subseteq WorkRow(r) /\ IsFiniteSet(v.rows) /\ NoRepeats(v.rows)
        /\ v.inserted = Cardinality(v.rows) /\ Counted(in, v)
        /\ in.received \in Nat /\ Len(in.rows) \in Nat
    BY <1>1, <1>2 DEF ImportState, ImportInput
  <1>4. PICK new : new = {[id |-> e.id, item |-> e.item] : e \in v.rows}
    OBVIOUS
  <1>5. PICK b : b = [id |-> r, received |-> in.received, inserted |-> v.inserted,
                      skipped |-> v.skipped, rejected |-> v.rejected]
    OBVIOUS
  <1>6. expected' = expected \cup new /\ batches' = batches \cup {b}
    BY <1>2, <1>4, <1>5 DEF BatchOf
  <1>7. LocalStep(r) /\ RequestInv(r)' /\ pc'[r] = "done"
    BY EndIsLocal
  <1>8. Growing
    BY <1>6 DEF Growing
  <1>9. /\ pc' \in [Requests -> Statements] /\ DOMAIN work' = Requests /\ DOMAIN input' = Requests
           /\ DOMAIN answer' = Requests
        /\ \A q \in Requests : RequestInv(q)'
        /\ \A q \in Requests : pc[q] = "done" => pc'[q] = "done"
    BY <1>7, <1>8, RequestsKeep
  <1>10. \A e \in new : e \in ExpectedRow /\ e.id[1] = r
    BY <1>3, <1>4 DEF WorkRow, ExpectedRow
  <1>11. IsFiniteSet(new) /\ Cardinality(new) = Cardinality(v.rows)
    <2> DEFINE f == [e \in v.rows |-> [id |-> e.id, item |-> e.item]]
    <2>1. \A x, y \in v.rows : f[x] = f[y] => x = y
      BY <1>3 DEF NoRepeats
    <2>2. f \in Bijection(v.rows, new)
      BY <1>4, <2>1 DEF Bijection, Injection, Surjection, IsInjective
    <2>3. ExistsBijection(v.rows, new)
      BY <2>2 DEF ExistsBijection
    <2>4. QED BY <1>3, <2>3, FS_Bijection
  <1>12. \A e \in expected : e.id[1] # r
    BY ReconciliationAssumption DEF IInv, ExpectedInv
  <1>13. ExpectedInv'
    <2>1. \A e \in expected : e.id[1] # None => e.id[1] \in Requests /\ pc[e.id[1]] = "done"
      BY DEF IInv, ExpectedInv, ExpectedRow
    <2>2. \A e \in expected' : e.id[1] # None => pc'[e.id[1]] = "done"
      BY <1>6, <1>7, <1>9, <1>10, <2>1
    <2>3. IsFiniteSet(expected')
      <3>1. IsFiniteSet(expected)
        BY DEF IInv, ExpectedInv
      <3>2. IsFiniteSet(expected \cup new)
        BY <1>11, <3>1, FS_Union
      <3>3. QED BY <1>6, <3>2
    <2>4. expected' \subseteq ExpectedRow
      BY <1>6, <1>10 DEF IInv, ExpectedInv
    <2>5. QED BY <2>2, <2>3, <2>4 DEF ExpectedInv
  <1>14. \A c \in batches : c.id \in Requests /\ pc[c.id] = "done" /\ c.id # r
    BY DEF IInv, BatchesInv
  <1>15. BatchesInv'
    <2>1. b \in [id : Requests, received : Nat, inserted : Nat, skipped : Nat, rejected : Nat]
      <3>1. in.received \in Nat /\ v.inserted \in Nat /\ v.skipped \in Nat /\ v.rejected \in Nat
        BY <1>3 DEF Counted, Tally
      <3>2. QED BY <1>5, <3>1
    <2>2. b.id = r
      BY <1>5
    <2>3. QED BY <1>6, <1>7, <1>9, <1>14, <2>1, <2>2 DEF IInv, BatchesInv
  <1>16. BatchesAddUp'
    <2>1. b.id = r /\ b.received = in.received /\ b.inserted = v.inserted /\ b.skipped = v.skipped
            /\ b.rejected = v.rejected
      BY <1>5
    <2>2. v.inserted + v.skipped + v.rejected = in.received
      <3>1. PICK n \in Nat, at \in Nat : n = Len(in.rows) /\ at = v.at
        BY <1>3 DEF Counted, Tally
      <3>2. Tally(in.received, n, at, v.inserted, v.skipped, v.rejected) /\ at > n
        BY <1>2, <1>3, <3>1 DEF Counted
      <3>3. PICK received, i, s, j : received \in Nat /\ received = in.received /\ i = v.inserted /\ s = v.skipped /\ j = v.rejected
        BY <1>3
      <3>4. Tally(received, n, at, i, s, j)
        BY ONLY <3>2, <3>3
      <3>5. received \in Nat /\ n \in Nat /\ at \in Nat /\ at > n
        BY ONLY <3>1, <3>2, <3>3
      <3>6. i + s + j = received
        BY ONLY <3>4, <3>5, TallyEnds
      <3>7. QED BY ONLY <3>3, <3>6
    <2>3. {e \in expected' : e.id[1] = r} = new
      BY <1>6, <1>10, <1>12
    <2>4. b.inserted = Cardinality({e \in expected' : e.id[1] = b.id})
      BY <1>3, <1>11, <2>1, <2>3
    <2>5. \A c \in batches : {e \in expected' : e.id[1] = c.id} = {e \in expected : e.id[1] = c.id}
      BY <1>6, <1>10, <1>14
    <2>6. \A c \in batches : /\ c.received = c.inserted + c.skipped + c.rejected
                             /\ c.inserted = Cardinality({e \in expected' : e.id[1] = c.id})
      BY <2>5 DEF IInv, BatchesAddUp
    <2>7. b.received = b.inserted + b.skipped + b.rejected
      BY <2>1, <2>2
    <2>8. QED BY <1>6, <2>4, <2>6, <2>7 DEF BatchesAddUp
  <1>17. ImportsHaveNoRepeats'
    <2>1. \A e, f \in expected : e.id[1] = f.id[1] /\ Sought(e.item) = Sought(f.item) => e = f
      BY DEF IInv, ImportsHaveNoRepeats
    <2>2. \A e, f \in new : Sought(e.item) = Sought(f.item) => e = f
      BY <1>3, <1>4 DEF NoRepeats
    <2>3. \A e \in expected : \A f \in new : e.id[1] # f.id[1] /\ f.id[1] # e.id[1]
      BY <1>10, <1>12
    <2>4. QED BY <1>6, <2>1, <2>2, <2>3 DEF ImportsHaveNoRepeats
  <1>18. RunsInv' /\ MatchedIsEarned'
    BY <1>6 DEF IInv, RunsInv, MatchedIsEarned
  <1>19. transactions' \subseteq Payments /\ IsFiniteSet(transactions')
    BY DEF IInv
  <1>20. QED BY <1>9, <1>13, <1>15, <1>16, <1>17, <1>18, <1>19 DEF IInv

\* The end of an import.
LEMMA FinishImportKeepsIInv ==
  ASSUME IInv, NEW r \in Requests, FinishImport(r)
  PROVE  IInv'
  <1>1. \/ \E status \in {"200", "500"} : Discard(r, status)
        \/ /\ pc[r] = "import_row" /\ work[r].at > Len(input[r].rows) /\ ~work[r].dead
           /\ \E status \in {"200", "lost"} : End(r, status)
           /\ expected' = expected \cup {[id |-> e.id, item |-> e.item] : e \in work[r].rows}
           /\ batches' = batches \cup {BatchOf(r)}
           /\ UNCHANGED <<transactions, matched, runs>>
    BY DEF FinishImport
  <1>2. QED BY <1>1, DiscardKeepsIInv, CommitImportKeepsIInv

\* The commit of a run: its marks are those of its results, and of no other.
LEMMA FinishRunKeepsIInv ==
  ASSUME IInv, NEW r \in Requests, FinishRun(r)
  PROVE  IInv'
  <1>1. /\ pc[r] = "match" /\ work[r].queue = <<>>
        /\ matched' = matched \cup work[r].marked /\ runs' = runs \cup {RunOf(r)}
        /\ transactions' = transactions /\ expected' = expected /\ batches' = batches
    BY DEF FinishRun
  <1>2. PICK status \in {"200", "lost"} : End(r, status)
    BY DEF FinishRun
  <1>3. PICK v, u : v = work[r] /\ u = RunOf(r)
    OBVIOUS
  <1>4. /\ RunState(v) /\ v.loaded \subseteq expected /\ v.known \subseteq matched
        /\ v.seen \subseteq transactions /\ transactions \subseteq Payments
    BY <1>1, <1>3 DEF IInv, RequestInv
  <1>5. /\ u.results = v.results /\ u.loaded = v.loaded /\ u.seen = v.seen
        /\ u.count = Cardinality(v.loaded)
    BY <1>3 DEF RunOf
  <1>6. LocalStep(r) /\ RequestInv(r)' /\ pc'[r] = "done"
    BY <1>2, EndIsLocal
  <1>7. Growing
    BY <1>1 DEF Growing
  <1>8. /\ pc' \in [Requests -> Statements] /\ DOMAIN work' = Requests /\ DOMAIN input' = Requests
           /\ DOMAIN answer' = Requests
        /\ \A q \in Requests : RequestInv(q)'
        /\ \A q \in Requests : pc[q] = "done" => pc'[q] = "done"
    BY <1>6, <1>7, RequestsKeep
  <1>9. ExpectedInv'
    <2>1. \A e \in expected : e.id[1] # None => e.id[1] \in Requests /\ pc[e.id[1]] = "done"
      BY DEF IInv, ExpectedInv, ExpectedRow
    <2>2. QED BY <1>1, <1>8, <2>1 DEF IInv, ExpectedInv
  <1>10. BatchesInv'
    BY <1>1, <1>8 DEF IInv, BatchesInv
  <1>11. BatchesAddUp' /\ ImportsHaveNoRepeats'
    BY <1>1 DEF IInv, BatchesAddUp, ImportsHaveNoRepeats
  <1>12. RunsInv'
    <2>1. RunRow(u) /\ u.loaded \subseteq expected
      BY <1>1, <1>3, <1>4, <1>5, RunEnds
    <2>2. QED BY <1>1, <1>3, <2>1 DEF IInv, RunsInv
  <1>13. MatchedIsEarned'
    <2>1. matched = UNION {MatchedIds(x.results) : x \in runs}
      BY DEF IInv, MatchedIsEarned, MatchedIds
    <2>2. v.marked \subseteq MatchedIds(v.results) /\ MatchedIds(v.results) \subseteq v.marked \cup v.known
      BY <1>4 DEF RunState, MarksInv
    <2>3. PICK newRuns, newMatched : newRuns = runs' /\ newMatched = matched'
      OBVIOUS
    <2>4. newRuns = runs \cup {u} /\ newMatched = matched \cup v.marked
      BY <1>1, <1>3, <2>3
    <2>5. MatchedIds(v.results) \cup matched = v.marked \cup matched
      BY <1>4, <2>2
    <2>6. UNION {MatchedIds(x.results) : x \in newRuns} = matched \cup MatchedIds(u.results)
      BY <2>1, <2>4
    <2>7. newMatched = UNION {MatchedIds(x.results) : x \in newRuns}
      BY <1>5, <2>4, <2>5, <2>6
    <2>8. QED BY <2>3, <2>7 DEF MatchedIsEarned, MatchedIds
  <1>14. transactions' \subseteq Payments /\ IsFiniteSet(transactions')
    BY <1>1 DEF IInv
  <1>15. QED BY <1>8, <1>9, <1>10, <1>11, <1>12, <1>13, <1>14 DEF IInv

\* A transaction is recorded: what requests have read stays what it was.
LEMMA RecordKeepsIInv ==
  ASSUME IInv, Record
  PROVE  IInv'
  <1>1. PICK t \in Payments : transactions' = transactions \cup {t}
    BY DEF Record
  <1>2. /\ expected' = expected /\ matched' = matched /\ batches' = batches /\ runs' = runs
        /\ pc' = pc /\ input' = input /\ work' = work /\ answer' = answer
    BY DEF Record
  <1>3. IsFiniteSet(transactions') /\ transactions' \subseteq Payments
    BY <1>1, FS_AddElement DEF IInv
  <1>4. Growing
    BY <1>1, <1>2 DEF Growing
  <1>5. \A q \in Requests : RequestInv(q)'
    BY <1>2, <1>4, OthersKeep
  <1>6. ExpectedInv' /\ BatchesInv' /\ RunsInv'
    BY <1>2 DEF IInv, ExpectedInv, BatchesInv, RunsInv
  <1>7. BatchesAddUp' /\ ImportsHaveNoRepeats' /\ MatchedIsEarned'
    BY <1>2 DEF IInv, BatchesAddUp, ImportsHaveNoRepeats, MatchedIsEarned
  <1>8. /\ pc' \in [Requests -> Statements] /\ DOMAIN work' = Requests /\ DOMAIN input' = Requests
        /\ DOMAIN answer' = Requests
    BY <1>2 DEF IInv
  <1>9. QED BY <1>3, <1>5, <1>6, <1>7, <1>8 DEF IInv

\* The tables start with the payments imported earlier, one for each reference.
LEMMA InitIInv == Init => IInv
  <1> SUFFICES ASSUME Init PROVE IInv
    OBVIOUS
  <1>1. /\ transactions = {} /\ matched = {} /\ batches = {} /\ runs = {}
        /\ expected = {[id |-> <<None, e.ref>>, item |-> e] : e \in Earlier}
        /\ pc = [r \in Requests |-> "idle"] /\ input = [r \in Requests |-> None]
        /\ work = [r \in Requests |-> Idle] /\ answer = [r \in Requests |-> Answer("none", 0)]
    BY DEF Init
  <1>2. Earlier \subseteq Expectation /\ IsFiniteSet(Earlier) /\ References \subseteq Nat
    BY ReconciliationAssumption, MatchingAssumption
  <1>3. \A r \in Requests : RequestInv(r)
    BY <1>1 DEF RequestInv, Statements, Answer
  <1>4. ExpectedInv
    <2>1. expected \subseteq ExpectedRow
      <3>1. \A e \in Earlier : e \in Expectation /\ e.ref \in Nat
        BY <1>2 DEF Expectation
      <3>2. QED BY <1>1, <3>1 DEF ExpectedRow
    <2>2. IsFiniteSet(expected)
      <3> DEFINE f == [e \in Earlier |-> [id |-> <<None, e.ref>>, item |-> e]]
      <3>1. \A x, y \in Earlier : f[x] = f[y] => x = y
        OBVIOUS
      <3>2. f \in Bijection(Earlier, expected)
        BY <1>1, <3>1 DEF Bijection, Injection, Surjection, IsInjective
      <3>3. ExistsBijection(Earlier, expected)
        BY <3>2 DEF ExistsBijection
      <3>4. QED BY <1>2, <3>3, FS_Bijection
    <2>3. \A e \in expected : e.id[1] = None
      BY <1>1
    <2>4. QED BY <2>1, <2>2, <2>3 DEF ExpectedInv
  <1>5. BatchesInv /\ RunsInv /\ BatchesAddUp /\ MatchedIsEarned
    BY <1>1 DEF BatchesInv, RunsInv, BatchesAddUp, MatchedIsEarned
  <1>6. ImportsHaveNoRepeats
    <2>1. \A e, f \in Earlier : e.ref = f.ref => e = f
      BY ReconciliationAssumption
    <2>2. QED BY <1>1, <2>1 DEF ImportsHaveNoRepeats, Sought
  <1>7. transactions \subseteq Payments /\ IsFiniteSet(transactions)
    BY <1>1, FS_EmptySet
  <1>8. pc \in [Requests -> Statements]
    BY <1>1 DEF Statements
  <1>9. QED BY <1>1, <1>3, <1>4, <1>5, <1>6, <1>7, <1>8 DEF IInv

\* Every step keeps the invariant.
LEMMA NextKeepsIInv == IInv /\ [Next]_vars => IInv'
  <1> SUFFICES ASSUME IInv, [Next]_vars PROVE IInv'
    OBVIOUS
  <1>1. CASE UNCHANGED vars
    <2>1. /\ transactions' = transactions /\ expected' = expected /\ matched' = matched /\ batches' = batches
          /\ runs' = runs /\ pc' = pc /\ input' = input /\ work' = work /\ answer' = answer
      BY <1>1 DEF vars
    <2>2. Growing
      BY <2>1 DEF Growing
    <2>3. \A q \in Requests : RequestInv(q)'
      BY <2>1, <2>2, OthersKeep
    <2>4. ExpectedInv' /\ BatchesInv' /\ RunsInv'
      BY <2>1 DEF IInv, ExpectedInv, BatchesInv, RunsInv
    <2>5. BatchesAddUp' /\ ImportsHaveNoRepeats' /\ MatchedIsEarned'
      BY <2>1 DEF IInv, BatchesAddUp, ImportsHaveNoRepeats, MatchedIsEarned
    <2>6. QED BY <2>1, <2>3, <2>4, <2>5 DEF IInv
  <1>2. CASE Record
    BY <1>2, RecordKeepsIInv
  <1>3. ASSUME NEW r \in Requests, ArriveImport(r) \/ ArriveRun(r) PROVE IInv'
    BY <1>3, ArriveImportKeepsIInv, ArriveRunKeepsIInv
  <1>4. ASSUME NEW r \in Requests, RejectRow(r) \/ ImportRow(r) \/ FinishImport(r) PROVE IInv'
    BY <1>4, RejectRowKeepsIInv, ImportRowKeepsIInv, FinishImportKeepsIInv
  <1>5. ASSUME NEW r \in Requests, LoadExpected(r) \/ LoadTransactions(r) PROVE IInv'
    BY <1>5, LoadExpectedKeepsIInv, LoadTransactionsKeepsIInv
  <1>6. ASSUME NEW r \in Requests, Match(r) \/ FinishRun(r) PROVE IInv'
    BY <1>6, MatchKeepsIInv, FinishRunKeepsIInv
  <1>7. ASSUME NEW r \in Requests, BreakDeadlock(r) \/ FailRun(r) \/ Abort(r) PROVE IInv'
    <2>1. Discard(r, "500") \/ Discard(r, "lost")
      BY <1>7 DEF BreakDeadlock, FailRun, Abort
    <2>2. QED BY <2>1, DiscardKeepsIInv
  <1>8. QED BY <1>1, <1>2, <1>3, <1>4, <1>5, <1>6, <1>7 DEF Next, Step

\* The invariant holds in every behaviour.
LEMMA AlwaysIInv == Spec => []IInv
BY InitIInv, NextKeepsIInv, PTL DEF Spec

------------------------------------------------------------------------------
(***************************************************************************)
(* What follows from the invariant.                                        *)
(***************************************************************************)

\* Whatever happens meanwhile, every result of every run is the best one.
THEOREM ResultsAreBest == Spec => []BestScoreWins
  <1>1. ASSUME IInv PROVE BestScoreWins
    <2>1. \A u \in runs : \A x \in u.results : BestFor(x, u.seen)
      BY <1>1 DEF IInv, RunsInv, RunRow, Paired
    <2>2. QED BY <2>1 DEF BestScoreWins, BestFor, Fits, Best, Points
  <1>2. IInv => BestScoreWins
    BY <1>1
  <1>3. QED BY <1>2, AlwaysIInv, PTL

\* What imports leave in the tables is of its type, without repeats, and what their
\* batches say, whatever else is imported at the same time.
THEOREM ImportsLeaveWhatTheySay == Spec => []ImportsAreExact
  <1>1. ASSUME IInv PROVE ImportsAreExact
    <2>1. /\ transactions \subseteq Payments /\ expected \subseteq ExpectedRow
          /\ batches \subseteq [id : Requests, received : Nat, inserted : Nat, skipped : Nat, rejected : Nat]
      BY <1>1 DEF IInv, ExpectedInv, BatchesInv
    <2>2. \A u \in runs : u.results \subseteq ResultRow /\ u.loaded \subseteq expected
      BY <1>1 DEF IInv, RunsInv, RunRow, Paired
    <2>3. matched \subseteq {e.id : e \in expected}
      <3>1. \A u \in runs : u.loaded = {x.expected : x \in u.results} /\ u.loaded \subseteq expected
        BY <1>1 DEF IInv, RunsInv, RunRow
      <3>2. \A u \in runs : {x.expected.id : x \in {y \in u.results : y.status = "matched"}} \subseteq {e.id : e \in expected}
        BY <3>1
      <3>3. matched = UNION {{x.expected.id : x \in {y \in u.results : y.status = "matched"}} : u \in runs}
        BY <1>1 DEF IInv, MatchedIsEarned
      <3>4. QED BY <3>2, <3>3
    <2>4. /\ \A r \in Requests : answer[r].status \in {"none", "200", "400", "500", "lost"}
          /\ \A r \in Requests : input[r] # None => input[r] \in ImportInput \cup RunInput
      BY <1>1 DEF IInv, RequestInv
    <2>5. pc \in [Requests -> {"idle", "import_row", "load_expected", "load_transactions", "match", "done"}]
      BY <1>1 DEF IInv, Statements
    <2>6. TypeOK
      BY <2>1, <2>2, <2>3, <2>4, <2>5 DEF TypeOK
    <2>7. QED BY <1>1, <2>6 DEF IInv, ImportsAreExact
  <1>2. IInv => ImportsAreExact
    BY <1>1
  <1>3. QED BY <1>2, AlwaysIInv, PTL

\* A run has one result for each expected payment of its period, whatever was imported
\* or reconciled meanwhile.
THEOREM RunsCoverTheirPeriod == Spec => []RunsAreComplete
  <1>1. IInv => RunsAreComplete
    BY DEF IInv, RunsInv, RunRow, RunsAreComplete
  <1>2. QED BY <1>1, AlwaysIInv, PTL

\* A payment called a duplicate lost its transaction to one that was rightly first.
THEOREM LosersLoseFairly == Spec => []DuplicatesLostFairly
  <1>1. ASSUME IInv PROVE DuplicatesLostFairly
    <2>1. \A u \in runs : \A x \in u.results : FairlyLost(x, u.results, u.seen)
      BY <1>1 DEF IInv, RunsInv, RunRow, Paired
    <2>2. QED BY <2>1 DEF DuplicatesLostFairly, FairlyLost, Takes, Named
  <1>2. IInv => DuplicatesLostFairly
    BY <1>1
  <1>3. QED BY <1>2, AlwaysIInv, PTL

\* The sum of the expected amounts of results, as CHOOSE happens to take them.
LEMMA SumOfExpected ==
  ASSUME NEW S, IsFiniteSet(S), NEW f \in [S -> Int], f = [x \in S |-> x.expected.item.amount]
  PROVE  \E g : SumsOf(g, f, S) /\ MapThenSumSet(LAMBDA x : x.expected.item.amount, S) = g[S]
  <1> DEFINE P(g) == g = [s \in SUBSET S |->
                            IF s = {} THEN 0
                            ELSE (CHOOSE x \in s : TRUE).expected.item.amount + g[s \ {CHOOSE x \in s : TRUE}]]
  <1>1. ASSUME NEW g PROVE P(g) <=> SumsOf(g, f, S)
    <2>1. \A s \in SUBSET S : s # {} => (CHOOSE x \in s : TRUE) \in S
      OBVIOUS
    <2>2. \A s \in SUBSET S :
            s # {} => f[CHOOSE x \in s : TRUE] = (CHOOSE x \in s : TRUE).expected.item.amount
      BY <2>1
    <2>3. \A s \in SUBSET S : Plus(f, g, s) =
            IF s = {} THEN 0
            ELSE (CHOOSE x \in s : TRUE).expected.item.amount + g[s \ {CHOOSE x \in s : TRUE}]
      BY <2>2 DEF Plus
    <2>4. QED BY <2>3 DEF SumsOf
  <1>2. MapThenSumSet(LAMBDA x : x.expected.item.amount, S) = (CHOOSE g : P(g))[S]
    BY DEF MapThenSumSet, MapThenFoldSet
  <1> HIDE DEF P
  <1>3. \E g : P(g)
    BY <1>1, SumsExist
  <1>4. P(CHOOSE g : P(g))
    BY <1>3
  <1>5. SumsOf((CHOOSE g : P(g)), f, S)
    BY <1>1, <1>4
  <1>6. QED BY <1>2, <1>5

\* The sum of the amounts of transactions.
LEMMA SumOfPaid ==
  ASSUME NEW S, IsFiniteSet(S), NEW f \in [S -> Int], f = [t \in S |-> t.amount]
  PROVE  \E g : SumsOf(g, f, S) /\ MapThenSumSet(LAMBDA t : t.amount, S) = g[S]
  <1> DEFINE P(g) == g = [s \in SUBSET S |->
                            IF s = {} THEN 0
                            ELSE (CHOOSE x \in s : TRUE).amount + g[s \ {CHOOSE x \in s : TRUE}]]
  <1>1. ASSUME NEW g PROVE P(g) <=> SumsOf(g, f, S)
    <2>1. \A s \in SUBSET S : s # {} => (CHOOSE x \in s : TRUE) \in S
      OBVIOUS
    <2>2. \A s \in SUBSET S : s # {} => f[CHOOSE x \in s : TRUE] = (CHOOSE x \in s : TRUE).amount
      BY <2>1
    <2>3. \A s \in SUBSET S : Plus(f, g, s) =
            IF s = {} THEN 0 ELSE (CHOOSE x \in s : TRUE).amount + g[s \ {CHOOSE x \in s : TRUE}]
      BY <2>2 DEF Plus
    <2>4. QED BY <2>3 DEF SumsOf
  <1>2. MapThenSumSet(LAMBDA t : t.amount, S) = (CHOOSE g : P(g))[S]
    BY DEF MapThenSumSet, MapThenFoldSet
  <1> HIDE DEF P
  <1>3. \E g : P(g)
    BY <1>1, SumsExist
  <1>4. P(CHOOSE g : P(g))
    BY <1>3
  <1>5. SumsOf((CHOOSE g : P(g)), f, S)
    BY <1>1, <1>4
  <1>6. QED BY <1>2, <1>5

\* Sums over results and transactions that pair off, with equal amounts, are equal.
LEMMA PairedAmounts ==
  ASSUME NEW hits, IsFiniteSet(hits), NEW paid, NEW pay \in [hits -> paid],
         paid = {pay[x] : x \in hits},
         \A x, y \in hits : pay[x] = pay[y] => x = y,
         \A x \in hits : x.expected.item.amount \in Int /\ pay[x].amount = x.expected.item.amount
  PROVE  MapThenSumSet(LAMBDA x : x.expected.item.amount, hits) = MapThenSumSet(LAMBDA t : t.amount, paid)
  <1>1. IsFiniteSet(paid)
    <2>1. pay \in Bijection(hits, paid)
      BY DEF Bijection, Injection, Surjection, IsInjective
    <2>2. ExistsBijection(hits, paid)
      BY <2>1 DEF ExistsBijection
    <2>3. QED BY <2>2, FS_Bijection
  <1>2. PICK f : f = [x \in hits |-> x.expected.item.amount]
    OBVIOUS
  <1>3. PICK k : k = [t \in paid |-> t.amount]
    OBVIOUS
  <1>4. f \in [hits -> Int]
    BY <1>2
  <1>5. \A t \in paid : t.amount \in Int
    OBVIOUS
  <1>6. k \in [paid -> Int]
    BY <1>3, <1>5
  <1>7. \A x \in hits : k[pay[x]] = f[x]
    BY <1>2, <1>3
  <1>8. PICK g : SumsOf(g, f, hits) /\ MapThenSumSet(LAMBDA x : x.expected.item.amount, hits) = g[hits]
    BY <1>2, <1>4, SumOfExpected
  <1>9. PICK h : SumsOf(h, k, paid) /\ MapThenSumSet(LAMBDA t : t.amount, paid) = h[paid]
    BY <1>1, <1>3, <1>6, SumOfPaid
  <1>10. SumsOf(g, f, hits) /\ SumsOf(h, k, paid)
    BY <1>8, <1>9
  <1>11. \A x, y \in hits : pay[x] = pay[y] => x = y
    OBVIOUS
  <1>12. g[hits] = h[{pay[x] : x \in hits}]
    BY ONLY IsFiniteSet(hits), f \in [hits -> Int], IsFiniteSet(paid), k \in [paid -> Int],
            pay \in [hits -> paid], <1>1, <1>4, <1>6, <1>7, <1>10, <1>11, PairedSumsAreEqual
  <1>13. QED BY <1>8, <1>9, <1>12

\* The matched results of a run pair off with transactions of the same amounts: each
\* was found for its payment, and none was taken twice.
LEMMA MatchesPairOff ==
  ASSUME NEW u, RunRow(u), NEW x \in u.results, x.status = "matched"
  PROVE  /\ (CHOOSE t \in u.seen : t.id = x.txn).id = x.txn
         /\ (CHOOSE t \in u.seen : t.id = x.txn).amount = x.expected.item.amount
         /\ x.expected.item.amount \in Int
  <1>1. /\ u.results \subseteq ResultRow /\ u.seen \subseteq Payments /\ RealMatch(x, u.seen)
    BY DEF RunRow, Paired
  <1>2. PICK t \in u.seen : t.id = x.txn /\ t.amount = x.expected.item.amount
    BY <1>1 DEF RealMatch
  <1>3. PICK c : c = CHOOSE v \in u.seen : v.id = x.txn
    OBVIOUS
  <1>4. c \in u.seen /\ c.id = x.txn
    BY <1>2, <1>3
  <1>5. c = t
    BY <1>1, <1>2, <1>4, ReconciliationAssumption
  <1>6. x.expected.item.amount \in Int
    BY <1>1 DEF ResultRow, ExpectedRow, Expectation
  <1>7. QED BY <1>2, <1>3, <1>5, <1>6

\* A match is real: a run in the database made it, and with money that came in.
THEOREM MatchesAreMoney == Spec => []MatchesAreReal
  <1>1. ASSUME IInv PROVE MatchedMoneyWasReceived
    <2> SUFFICES ASSUME NEW u \in runs
                 PROVE  LET hits == {x \in u.results : x.status = "matched"}
                            Paying(x) == CHOOSE t \in u.seen : t.id = x.txn IN
                        MapThenSumSet(LAMBDA x : x.expected.item.amount, hits)
                          = MapThenSumSet(LAMBDA t : t.amount, {Paying(x) : x \in hits})
      BY DEF MatchedMoneyWasReceived
    <2>1. RunRow(u)
      BY <1>1 DEF IInv, RunsInv
    <2>2. PICK hits : hits = {x \in u.results : x.status = "matched"}
      OBVIOUS
    <2>3. PICK pay : pay = [x \in hits |-> CHOOSE t \in u.seen : t.id = x.txn]
      OBVIOUS
    <2>4. PICK paid : paid = {CHOOSE t \in u.seen : t.id = x.txn : x \in hits}
      OBVIOUS
    <2>5. pay \in [hits -> paid] /\ paid = {pay[x] : x \in hits}
      BY <2>3, <2>4
    <2>6. IsFiniteSet(hits) /\ hits \subseteq u.results
      <3>1. IsFiniteSet(u.results)
        BY <2>1 DEF RunRow, Paired
      <3>2. QED BY <2>2, <3>1, FS_Subset
    <2>7. \A x \in hits : /\ pay[x].id = x.txn /\ pay[x].amount = x.expected.item.amount
                          /\ x.expected.item.amount \in Int
      BY <2>1, <2>2, <2>3, MatchesPairOff
    <2>8. \A x, y \in hits : x.txn = y.txn => x = y
      <3>1. \A x, y \in u.results : Takes(x) /\ Takes(y) /\ x.txn = y.txn => x = y
        BY <2>1 DEF RunRow, Paired, NoneTakenTwice
      <3>2. \A x \in hits : Takes(x)
        BY <2>2 DEF Takes
      <3>3. QED BY <2>6, <3>1, <3>2
    <2>9. \A x, y \in hits : pay[x] = pay[y] => x = y
      BY <2>7, <2>8
    <2>10. MapThenSumSet(LAMBDA x : x.expected.item.amount, hits) = MapThenSumSet(LAMBDA t : t.amount, paid)
      BY <2>5, <2>6, <2>7, <2>9, PairedAmounts
    <2>11. QED BY <2>2, <2>4, <2>10
  <1>2. IInv => MatchesAreReal
    BY <1>1 DEF IInv, MatchesAreReal
  <1>3. QED BY <1>2, AlwaysIInv, PTL

==============================================================================
