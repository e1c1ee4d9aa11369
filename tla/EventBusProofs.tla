---------------------------- MODULE EventBusProofs ----------------------------
(***************************************************************************)
(* Proofs about the event bus, for any callers, replays and events: a      *)
(* stream with its group only grows, what is read of the events is in the  *)
(* order in which it was written, and the effects of replays are what      *)
(* their audit rows say.                                                   *)
(***************************************************************************)
EXTENDS EventBus, CollectionLemmas

Ids == {e.id : e \in Drafts}

\* An event is one of a scene but for its times.
Known(e) ==
  DOMAIN e = Fields /\ \E d \in Drafts : \A x \in Fields \ {"at", "kept"} : e[x] = d[x]

------------------------------------------------------------------------------
(***************************************************************************)
(* The invariant of the publishing: ids are told apart, and the events a   *)
(* caller has inserted, or is about to, were in no transaction that ended  *)
(* before its own began.                                                   *)
(***************************************************************************)
StreamOK ==
  /\ stream \in [exists : BOOLEAN, group : BOOLEAN, entries : Seq(Ids)]
  /\ ~stream.exists => stream = NoStream

EventsOK ==
  /\ clock \in Nat
  /\ \A e \in domain_events :
       Known(e) /\ e.at \in Nat /\ e.kept \in Nat /\ e.at <= e.kept /\ e.kept < clock
  /\ \A e, f \in domain_events : e.id = f.id => e = f
  /\ PublishedTwiceOnlyTogether

\* No committed event of e's correlation was committed before `time`.
Overlaps(e, time) ==
  \A f \in domain_events : e.correlation # None /\ e.correlation = f.correlation => time < f.kept

CallerOK(c) ==
  /\ todo[c] \in Seq(Drafts)
  /\ \A i, j \in DOMAIN todo[c] : todo[c][i].id = todo[c][j].id => i = j
  /\ stage[c] \in {"begin", "done"} => flushed[c] = {}
  /\ stage[c] \notin {"begin", "done"} => began[c] \in Nat /\ began[c] < clock
  /\ stage[c] \in {"insert", "stream"} => todo[c] # <<>>
  /\ stage[c] = "insert" => Overlaps(Head(todo[c]), began[c])
  /\ \A e \in flushed[c] : Known(e) /\ e.at = began[c] /\ Overlaps(e, began[c])
  /\ \A e, f \in flushed[c] : e.id = f.id => e = f
  /\ \A e \in flushed[c] : \A i \in DOMAIN todo[c] :
       e.id = todo[c][i].id => i = 1 /\ stage[c] = "stream"
  /\ \A f \in domain_events : \A e \in flushed[c] : e.id # f.id
  /\ \A f \in domain_events : \A i \in DOMAIN todo[c] : todo[c][i].id # f.id

CallerIds(c) == {e.id : e \in flushed[c]} \cup {todo[c][i].id : i \in DOMAIN todo[c]}

PublishInv ==
  /\ stage \in [Callers -> {"begin", "check", "insert", "stream", "done"}]
  /\ DOMAIN todo = Callers /\ DOMAIN began = Callers /\ DOMAIN flushed = Callers
  /\ StreamOK
  /\ EventsOK
  /\ \A c \in Callers : CallerOK(c)
  /\ \A c, d \in Callers : c # d => CallerIds(c) \cap CallerIds(d) = {}

------------------------------------------------------------------------------
(***************************************************************************)
(* The invariant of the replays.                                           *)
(***************************************************************************)

\* A listing leaves out only what is earlier or came later.
ListingOK(r) ==
  pc[r] = "done" /\ op[r].name = "list_merchant" =>
    \A e \in chosen[r], f \in Selected(op[r]) \ chosen[r] :
      f.at > e.at => \A g \in chosen[r] : f.kept > g.kept

\* What a replay has done is earlier than what it has left to do.
ReplayOK(r) ==
  /\ left[r] \subseteq chosen[r] /\ chosen[r] \subseteq domain_events
  /\ IF pc[r] = "handle" THEN current[r] \in Earliest(left[r]) ELSE current[r] = None /\ found[r] = <<>>
  /\ pc[r] = "idle" => chosen[r] = {} /\ left[r] = {}
  /\ pc[r] = "handle" => op[r].name # "list_merchant"
  /\ pc[r] = "done" => left[r] = {}
  /\ \A e \in chosen[r] \ left[r] : \A f \in left[r] : e.at <= f.at
  /\ ListingOK(r)

\* The same row but for its count.
Alike(row, other) ==
  row.table = other.table /\ row.key = other.key /\ row.by = other.by /\ row.merchant = other.merchant

\* A row a handler has found is there, and where it found none, no handling of its own
\* replay has inserted one.
LooksOK(r) ==
  LET looks == Looks(current[r])
      merchant == current[r].merchant
  IN /\ found[r] \in Seq(Row \cup {None})
     /\ Len(found[r]) <= Len(looks)
     /\ \A i \in DOMAIN found[r] :
          IF found[r][i] = None
          THEN \A row \in Of(merchant, looks[i]) : row.by[1] # r
          ELSE \E row \in Of(merchant, looks[i]) : Alike(row, found[r][i])

AuditsOK ==
  /\ IsFiniteSet(audits)
  /\ \A by \in audits :
       by \in Replays \X Ids /\ \E e \in chosen[by[1]] \ left[by[1]] : e.id = by[2]

RowsOK ==
  /\ made \subseteq Row /\ IsFiniteSet(made)
  /\ \A row \in made : row.by \in audits
  /\ \A row, other \in made : row.table = other.table /\ row.by = other.by => row = other
  /\ RepeatsTakeTwoReplays

\* What an audited handling of e by r has left in the tables.
HandledOK(r, e) ==
  /\ \A t \in Inserts(e) : \E row \in made : row.table = t /\ row.by = <<r, e.id>>
  /\ e.type = "settlement.received" =>
       /\ \E row \in made : row.table = "settlements" /\ row.merchant = e.merchant /\ row.key = e.reference
       /\ \E row \in made : row.table = "money_at_risk" /\ row.merchant = e.merchant

\* Why the database may have refused the handling of e by r.
Cause(r, e) ==
  \/ e.merchant \notin Merchants
  \/ e.type = "transaction.created" /\ e.aggregate \notin Transactions
  \/ /\ e.type = "settlement.received"
     /\ \E row \in made : row.table = "money_at_risk" /\ row.merchant = e.merchant /\ row.by[1] # r

\* The events r has dealt with.
DealtOK(r) ==
  \A e \in chosen[r] \ left[r] :
    IF <<r, e.id>> \in audits THEN HandledOK(r, e)
    ELSE op[r].name \in {"merchant", "since", "aggregate"} => Cause(r, e)

EffectsOK ==
  /\ DOMAIN synced = Sources
  /\ \A s \in Sources :
       DOMAIN synced[s] = {"sync", "success"} /\ {synced[s].sync, synced[s].success} \subseteq audits \cup {None}
  /\ \A t \in disputed : \E by \in audits : \E e \in chosen[by[1]] : e.id = by[2] /\ t \in Disputed(e)

ReplayInv ==
  /\ pc \in [Replays -> {"idle", "handle", "done", "crashed"}]
  /\ DOMAIN op = Replays /\ DOMAIN chosen = Replays /\ DOMAIN left = Replays
  /\ DOMAIN current = Replays /\ DOMAIN found = Replays
  /\ \A r \in Replays : ReplayOK(r)
  /\ \A r \in Replays : pc[r] = "handle" => LooksOK(r)
  /\ \A r \in Replays : DealtOK(r)
  /\ AuditsOK /\ RowsOK /\ EffectsOK

------------------------------------------------------------------------------
(***************************************************************************)
(* The invariant of the counts: each handled failure is attributed to one  *)
(* health row, whose count, as it is and as any handler has read it, is at *)
(* most what is attributed to it, and exactly that if one replay handled   *)
(* them all.                                                               *)
(***************************************************************************)
FailedOf(e, s) == e.type = "transaction.updated" /\ e.failed /\ <<e.merchant, e.provider>> = s

FailuresOf(s) == {by \in audits : \E e \in chosen[by[1]] : e.id = by[2] /\ FailedOf(e, s)}

Health(s) == {row \in made : row.table = "provider_health_metrics" /\ <<row.merchant, row.key>> = s}

\* r is about to count a failure of s in the row it has found.
Counting(r, s) ==
  pc[r] = "handle" /\ FailedOf(current[r], s) /\ found[r] # <<>> /\ found[r][1] # None

CountsOK(s, to) ==
  /\ \A by \in FailuresOf(s) : \E row \in Health(s) : row.by = to[by]
  /\ \A row \in Health(s) : row.fail <= Cardinality(Share(to, row.by))
  /\ \A r \in Replays : Counting(r, s) => found[r][1].fail <= Cardinality(Share(to, found[r][1].by))
  /\ (\A by, other \in FailuresOf(s) : by[1] = other[1]) =>
        \A row \in Health(s) : row.fail = Cardinality(Share(to, row.by))

CountInv ==
  \A s \in Sources :
    /\ \E to : DOMAIN to = FailuresOf(s) /\ CountsOK(s, to)
    /\ \A r \in Replays : Counting(r, s) /\ (\A by \in FailuresOf(s) : by[1] = r) => found[r][1] \in Health(s)

IInv == PublishInv /\ ReplayInv /\ CountInv

------------------------------------------------------------------------------
(***************************************************************************)
(* Publishing.                                                             *)
(***************************************************************************)

\* A step of c keeps the invariant of the publishing, if what it commits is c's own and
\* has the present time.
LEMMA CallerKeepsPublishInv ==
  ASSUME PublishInv, NEW c \in Callers,
         NEW s \in {"begin", "check", "insert", "stream", "done"}, stage' = [stage EXCEPT ![c] = s],
         DOMAIN todo' = Callers, DOMAIN began' = Callers, DOMAIN flushed' = Callers,
         \A d \in Callers \ {c} : todo'[d] = todo[d] /\ began'[d] = began[d] /\ flushed'[d] = flushed[d],
         NEW new, domain_events' = domain_events \cup new,
         \A f \in new : f.kept = clock /\ f.id \in CallerIds(c),
         clock' \in Nat, clock <= clock',
         EventsOK', CallerOK(c)', CallerIds(c)' \subseteq CallerIds(c), StreamOK'
  PROVE  PublishInv'
  <1>1. /\ stage' \in [Callers -> {"begin", "check", "insert", "stream", "done"}]
        /\ \A d \in Callers \ {c} : stage'[d] = stage[d]
    BY DEF PublishInv
  <1>2. ASSUME NEW d \in Callers \ {c} PROVE CallerOK(d)'
    <2>1. /\ CallerOK(d) /\ CallerIds(c) \cap CallerIds(d) = {} /\ clock \in Nat
          /\ todo'[d] = todo[d] /\ began'[d] = began[d] /\ flushed'[d] = flushed[d] /\ stage'[d] = stage[d]
      BY <1>1 DEF PublishInv, EventsOK
    <2>2. \A f \in new : (\A e \in flushed[d] : e.id # f.id) /\ (\A i \in DOMAIN todo[d] : todo[d][i].id # f.id)
      BY <2>1 DEF CallerIds
    <2>3. stage[d] \notin {"begin", "done"} => began[d] \in Nat /\ began[d] < clock /\ began[d] < clock'
      BY <2>1 DEF CallerOK
    <2>4. stage[d] \notin {"begin", "done"} => \A f \in new : began[d] < f.kept
      BY <2>3
    <2>5. \A e \in flushed[d] : Overlaps(e, began[d])'
      BY <2>1, <2>4 DEF CallerOK, Overlaps
    <2>6. stage[d] = "insert" => Overlaps(Head(todo[d]), began[d])'
      BY <2>1, <2>4 DEF CallerOK, Overlaps
    <2>7. /\ \A f \in domain_events' : \A e \in flushed[d] : e.id # f.id
          /\ \A f \in domain_events' : \A i \in DOMAIN todo[d] : todo[d][i].id # f.id
      BY <2>1, <2>2 DEF CallerOK
    <2>8. QED BY <2>1, <2>3, <2>5, <2>6, <2>7 DEF CallerOK, Overlaps
  <1>3. \A d, f \in Callers : d # f => CallerIds(d)' \cap CallerIds(f)' = {}
    <2>1. \A d \in Callers \ {c} : CallerIds(d)' = CallerIds(d)
      BY DEF CallerIds
    <2>2. QED BY <2>1 DEF PublishInv
  <1>4. QED BY <1>1, <1>2, <1>3 DEF PublishInv

\* The head of a list of drafts, and what is left of it.
LEMMA HeadOfDrafts ==
  ASSUME NEW q \in Seq(Drafts), q # <<>>
  PROVE  /\ 1 \in DOMAIN q /\ Head(q) = q[1] /\ Head(q) \in Drafts
         /\ Tail(q) \in Seq(Drafts)
         /\ \A i \in DOMAIN Tail(q) : i + 1 \in DOMAIN q /\ i + 1 # 1 /\ Tail(q)[i] = q[i + 1]
         /\ \A i, j \in DOMAIN Tail(q) : i + 1 = j + 1 => i = j
  <1>1. 1 \in DOMAIN q /\ Head(q) = q[1] /\ Head(q) \in Drafts
    OBVIOUS
  <1>2. Tail(q) \in Seq(Drafts) /\ Len(Tail(q)) = Len(q) - 1
    BY HeadTailProperties
  <1>3. DOMAIN q = 1..Len(q) /\ DOMAIN Tail(q) = 1..(Len(q) - 1) /\ Len(q) \in Nat
    BY <1>2
  <1>4. ASSUME NEW i \in DOMAIN Tail(q)
        PROVE  i + 1 \in DOMAIN q /\ i + 1 # 1 /\ Tail(q)[i] = q[i + 1]
    <2>1. i \in 1..(Len(q) - 1)
      BY <1>3
    <2>2. i + 1 \in 1..Len(q) /\ i + 1 # 1
      BY <1>3, <2>1
    <2>3. Tail(q)[i] = q[i + 1]
      BY <2>1
    <2>4. QED BY <1>3, <2>2, <2>3
  <1>5. \A i, j \in DOMAIN Tail(q) : i + 1 = j + 1 => i = j
    BY <1>3
  <1>6. QED BY <1>1, <1>2, <1>4, <1>5

\* A caller that goes on to its next event has the other events left.
LEMMA TailKeepsCaller ==
  ASSUME NEW c \in Callers, CallerOK(c), todo[c] # <<>>, stage[c] \in {"check", "stream"},
         todo'[c] = Tail(todo[c]), stage'[c] = "check",
         UNCHANGED <<clock, began, flushed, domain_events>>
  PROVE  CallerOK(c)' /\ CallerIds(c)' \subseteq CallerIds(c)
  <1>1. /\ Tail(todo[c]) \in Seq(Drafts)
        /\ \A i \in DOMAIN Tail(todo[c]) :
             i + 1 \in DOMAIN todo[c] /\ i + 1 # 1 /\ Tail(todo[c])[i] = todo[c][i + 1]
        /\ \A i, j \in DOMAIN Tail(todo[c]) : i + 1 = j + 1 => i = j
    BY HeadOfDrafts DEF CallerOK
  <1>2. \A i, j \in DOMAIN todo'[c] : todo'[c][i].id = todo'[c][j].id => i = j
    BY <1>1 DEF CallerOK
  <1>3. \A e \in flushed[c] : \A i \in DOMAIN todo'[c] : e.id # todo'[c][i].id
    BY <1>1 DEF CallerOK
  <1>4. \A f \in domain_events : \A i \in DOMAIN todo'[c] : todo'[c][i].id # f.id
    BY <1>1 DEF CallerOK
  <1>5. CallerOK(c)'
    BY <1>1, <1>2, <1>3, <1>4 DEF CallerOK, Overlaps
  <1>6. CallerIds(c)' \subseteq CallerIds(c)
    BY <1>1 DEF CallerIds
  <1>7. QED BY <1>5, <1>6

\* Each step of a caller keeps the invariant.
LEMMA BeginKeepsPublishInv ==
  ASSUME PublishInv, NEW c \in Callers, Begin(c)
  PROVE  PublishInv'
  <1>1. /\ CallerOK(c) /\ StreamOK /\ EventsOK /\ stage[c] = "begin" /\ clock \in Nat
        /\ clock' = clock + 1 /\ began'[c] = clock /\ UNCHANGED <<todo, flushed, domain_events, stream>>
        /\ stage' = [stage EXCEPT ![c] = "check"] /\ stage'[c] = "check"
        /\ DOMAIN began' = Callers /\ \A d \in Callers \ {c} : began'[d] = began[d]
    BY DEF PublishInv, Begin, EventsOK
  <1>2. clock' \in Nat /\ clock <= clock' /\ clock < clock'
    BY <1>1
  <1>3. EventsOK'
    BY <1>1, <1>2 DEF EventsOK, PublishedTwiceOnlyTogether
  <1>4. CallerOK(c)'
    BY <1>1, <1>2 DEF CallerOK, Overlaps
  <1>5. CallerIds(c)' = CallerIds(c) /\ StreamOK'
    BY <1>1 DEF CallerIds, StreamOK
  <1>6. PICK new : new = {}
    OBVIOUS
  <1>7. domain_events' = domain_events \cup new /\ \A f \in new : f.kept = clock /\ f.id \in CallerIds(c)
    BY <1>1, <1>6
  <1>8. DOMAIN todo' = Callers /\ DOMAIN flushed' = Callers
    BY <1>1 DEF PublishInv
  <1>9. QED BY <1>1, <1>2, <1>3, <1>4, <1>5, <1>7, <1>8, CallerKeepsPublishInv

\* A step of c that commits nothing.
LEMMA LocalKeepsPublishInv ==
  ASSUME PublishInv, NEW c \in Callers,
         NEW s \in {"begin", "check", "insert", "stream", "done"}, stage' = [stage EXCEPT ![c] = s],
         DOMAIN todo' = Callers, DOMAIN flushed' = Callers,
         \A d \in Callers \ {c} : todo'[d] = todo[d] /\ flushed'[d] = flushed[d],
         UNCHANGED <<clock, began, domain_events>>,
         CallerOK(c)', CallerIds(c)' \subseteq CallerIds(c), StreamOK'
  PROVE  PublishInv'
  <1>1. EventsOK' /\ clock' \in Nat /\ clock <= clock'
    BY DEF PublishInv, EventsOK, PublishedTwiceOnlyTogether, Known
  <1>2. PICK new : new = {}
    OBVIOUS
  <1>3. domain_events' = domain_events \cup new /\ \A f \in new : f.kept = clock /\ f.id \in CallerIds(c)
    BY <1>2
  <1>4. DOMAIN began' = Callers /\ \A d \in Callers \ {c} : began'[d] = began[d]
    BY DEF PublishInv
  <1>5. QED BY <1>1, <1>3, <1>4, CallerKeepsPublishInv

\* An event whose correlation is there is left out; another one overlaps what will be.
LEMMA CheckKeepsPublishInv ==
  ASSUME PublishInv, NEW c \in Callers, Check(c)
  PROVE  PublishInv'
  <1>1. /\ CallerOK(c) /\ StreamOK /\ stage[c] = "check" /\ todo[c] # <<>>
        /\ UNCHANGED <<clock, began, flushed, domain_events, stream>>
    BY DEF PublishInv, Check
  <1>2. StreamOK'
    BY <1>1 DEF StreamOK
  <1>3. DOMAIN flushed' = Callers
    BY <1>1 DEF PublishInv
  <1>4. CASE check_event_exists(c, Head(todo[c]).correlation)
    <2>1. todo' = [todo EXCEPT ![c] = Tail(@)] /\ UNCHANGED stage
      BY <1>4 DEF Check
    <2>2. /\ DOMAIN todo' = Callers /\ todo'[c] = Tail(todo[c])
          /\ \A d \in Callers \ {c} : todo'[d] = todo[d]
      BY <2>1 DEF PublishInv
    <2>3. stage' = [stage EXCEPT ![c] = "check"] /\ stage'[c] = "check"
      BY <1>1, <2>1 DEF PublishInv
    <2>4. CallerOK(c)' /\ CallerIds(c)' \subseteq CallerIds(c)
      BY <1>1, <2>2, <2>3, TailKeepsCaller
    <2>5. QED BY <1>1, <1>2, <1>3, <2>2, <2>3, <2>4, LocalKeepsPublishInv
  <1>5. CASE ~check_event_exists(c, Head(todo[c]).correlation)
    <2>1. stage' = [stage EXCEPT ![c] = "insert"] /\ UNCHANGED todo
      BY <1>5 DEF Check
    <2>2. stage'[c] = "insert" /\ DOMAIN todo' = Callers
      BY <2>1 DEF PublishInv
    <2>3. \A f \in domain_events :
            ~(Head(todo[c]).correlation # None /\ Head(todo[c]).correlation = f.correlation)
      BY <1>5 DEF check_event_exists
    <2>4. CallerOK(c)'
      BY <1>1, <2>1, <2>2, <2>3 DEF CallerOK, Overlaps
    <2>5. CallerIds(c)' = CallerIds(c)
      BY <1>1, <2>1 DEF CallerIds
    <2>6. QED BY <1>1, <1>2, <1>3, <2>1, <2>2, <2>4, <2>5, LocalKeepsPublishInv
  <1>6. QED BY <1>4, <1>5

\* The event is inserted with the time of its transaction.
LEMMA InsertKeepsPublishInv ==
  ASSUME PublishInv, NEW c \in Callers, Insert(c)
  PROVE  PublishInv'
  <1>1. PICK e : e = [Head(todo[c]) EXCEPT !.at = began[c]]
    OBVIOUS
  <1>2. /\ CallerOK(c) /\ StreamOK /\ stage[c] = "insert" /\ todo[c] # <<>> /\ todo[c] \in Seq(Drafts)
        /\ Overlaps(Head(todo[c]), began[c])
        /\ UNCHANGED <<clock, began, todo, domain_events, stream>>
        /\ stage' = [stage EXCEPT ![c] = "stream"] /\ stage'[c] = "stream"
        /\ flushed'[c] = flushed[c] \cup {e} /\ DOMAIN flushed' = Callers /\ DOMAIN todo' = Callers
        /\ \A d \in Callers \ {c} : flushed'[d] = flushed[d]
    BY <1>1 DEF PublishInv, Insert, CallerOK
  <1>3. Head(todo[c]) \in Drafts /\ Head(todo[c]) = todo[c][1] /\ 1 \in DOMAIN todo[c]
    BY <1>2, HeadOfDrafts
  <1>4. /\ DOMAIN Head(todo[c]) = Fields
        /\ e.id = todo[c][1].id /\ e.correlation = Head(todo[c]).correlation /\ e.at = began[c]
    BY <1>1, <1>3, EventBusAssumption DEF Fields
  <1>5. Known(e)
    BY <1>1, <1>3, <1>4 DEF Known
  <1>6. Overlaps(e, began[c])
    BY <1>2, <1>4 DEF Overlaps
  <1>7. /\ \A f \in flushed[c] : f.id # e.id
        /\ \A i \in DOMAIN todo[c] : e.id = todo[c][i].id => i = 1
        /\ \A f \in domain_events : e.id # f.id
    BY <1>2, <1>3, <1>4 DEF CallerOK
  <1>8. CallerOK(c)'
    <2>1. \A f \in flushed'[c] : Known(f) /\ f.at = began[c] /\ Overlaps(f, began[c])
      BY <1>2, <1>4, <1>5, <1>6 DEF CallerOK
    <2>2. \A f, g \in flushed'[c] : f.id = g.id => f = g
      BY <1>2, <1>7 DEF CallerOK
    <2>3. \A f \in flushed'[c] : \A i \in DOMAIN todo[c] : f.id = todo[c][i].id => i = 1
      BY <1>2, <1>7 DEF CallerOK
    <2>4. \A f \in domain_events : \A g \in flushed'[c] : g.id # f.id
      BY <1>2, <1>7 DEF CallerOK
    <2>5. QED BY <1>2, <2>1, <2>2, <2>3, <2>4 DEF CallerOK, Overlaps
  <1>9. CallerIds(c)' \subseteq CallerIds(c)
    BY <1>2, <1>3, <1>4 DEF CallerIds
  <1>10. StreamOK'
    BY <1>2 DEF StreamOK
  <1>11. \A d \in Callers \ {c} : todo'[d] = todo[d]
    BY <1>2
  <1>12. QED BY <1>2, <1>8, <1>9, <1>10, <1>11, LocalKeepsPublishInv

\* Redis may or may not take the event.
LEMMA StreamKeepsPublishInv ==
  ASSUME PublishInv, NEW c \in Callers, PublishToStream(c)
  PROVE  PublishInv'
  <1>1. /\ CallerOK(c) /\ StreamOK /\ stage[c] = "stream" /\ todo[c] # <<>> /\ todo[c] \in Seq(Drafts)
        /\ UNCHANGED <<clock, began, flushed, domain_events>>
        /\ stage' = [stage EXCEPT ![c] = "check"] /\ stage'[c] = "check"
        /\ todo'[c] = Tail(todo[c]) /\ DOMAIN todo' = Callers /\ DOMAIN flushed' = Callers
        /\ \A d \in Callers \ {c} : todo'[d] = todo[d] /\ flushed'[d] = flushed[d]
    BY DEF PublishInv, PublishToStream, CallerOK
  <1>2. CallerOK(c)' /\ CallerIds(c)' \subseteq CallerIds(c)
    BY <1>1, TailKeepsCaller
  <1>3. StreamOK'
    <2>1. Head(todo[c]).id \in Ids
      BY <1>1, HeadOfDrafts DEF Ids
    <2>2. CASE stream' = [stream EXCEPT !.exists = TRUE, !.entries = Append(@, Head(todo[c]).id)]
      <3>1. PICK entries : entries = Append(stream.entries, Head(todo[c]).id)
        OBVIOUS
      <3>2. stream \in [exists : BOOLEAN, group : BOOLEAN, entries : Seq(Ids)] /\ stream.entries \in Seq(Ids)
        BY <1>1 DEF StreamOK
      <3>3. entries \in Seq(Ids)
        BY <2>1, <3>1, <3>2, AppendProperties
      <3>4. stream' = [stream EXCEPT !.exists = TRUE, !.entries = entries]
        BY <2>2, <3>1
      <3>5. stream' \in [exists : BOOLEAN, group : BOOLEAN, entries : Seq(Ids)] /\ stream'.exists
        BY <3>2, <3>3, <3>4
      <3>6. QED BY <3>5 DEF StreamOK
    <2>3. CASE UNCHANGED stream
      BY <1>1, <2>3 DEF StreamOK
    <2>4. QED BY <2>2, <2>3 DEF PublishToStream
  <1>4. QED BY <1>1, <1>2, <1>3, LocalKeepsPublishInv

\* A transaction that is rolled back leaves nothing.
LEMMA RollbackKeepsPublishInv ==
  ASSUME PublishInv, NEW c \in Callers, Rollback(c)
  PROVE  PublishInv'
  <1>1. /\ CallerOK(c) /\ StreamOK /\ UNCHANGED <<clock, began, todo, domain_events, stream>>
        /\ stage' = [stage EXCEPT ![c] = "done"] /\ stage'[c] = "done"
        /\ flushed'[c] = {} /\ DOMAIN todo' = Callers /\ DOMAIN flushed' = Callers
        /\ \A d \in Callers \ {c} : todo'[d] = todo[d] /\ flushed'[d] = flushed[d]
    BY DEF PublishInv, Rollback
  <1>2. CallerOK(c)' /\ CallerIds(c)' \subseteq CallerIds(c) /\ StreamOK'
    BY <1>1 DEF CallerOK, CallerIds, StreamOK
  <1>3. QED BY <1>1, <1>2, LocalKeepsPublishInv

\* What is committed has the present time, and nothing of its correlation is older than
\* its transaction.
LEMMA CommitKeepsPublishInv ==
  ASSUME PublishInv, NEW c \in Callers, Commit(c)
  PROVE  PublishInv'
  <1>1. PICK new : new = {[e EXCEPT !.kept = clock] : e \in flushed[c]}
    OBVIOUS
  <1>2. /\ CallerOK(c) /\ StreamOK /\ EventsOK /\ stage[c] = "check" /\ clock \in Nat /\ todo[c] = <<>>
        /\ clock' = clock + 1 /\ domain_events' = domain_events \cup new
        /\ UNCHANGED <<todo, began, stream>>
        /\ stage' = [stage EXCEPT ![c] = "done"] /\ stage'[c] = "done"
        /\ flushed'[c] = {} /\ DOMAIN flushed' = Callers
        /\ DOMAIN todo' = Callers /\ DOMAIN began' = Callers
        /\ \A d \in Callers \ {c} : flushed'[d] = flushed[d]
    BY <1>1 DEF PublishInv, Commit, EventsOK
  <1>3. clock' \in Nat /\ clock <= clock' /\ clock < clock' /\ began[c] \in Nat /\ began[c] < clock
    BY <1>2 DEF CallerOK
  <1>4. ASSUME NEW f \in new
        PROVE  /\ f.kept = clock /\ f.at = began[c] /\ Known(f) /\ Overlaps(f, began[c])
               /\ \E e \in flushed[c] : f.id = e.id /\ f = [e EXCEPT !.kept = clock]
    <2>1. PICK e \in flushed[c] : f = [e EXCEPT !.kept = clock]
      BY <1>1
    <2>2. Known(e) /\ e.at = began[c] /\ Overlaps(e, began[c])
      BY <1>2 DEF CallerOK
    <2>3. /\ DOMAIN f = Fields /\ \A x \in Fields \ {"kept"} : f[x] = e[x]
          /\ f.kept = clock
      BY <2>1, <2>2 DEF Known, Fields
    <2>4. f.at = e.at /\ f.id = e.id /\ f.correlation = e.correlation
      BY <2>3 DEF Fields
    <2>5. Known(f)
      BY <2>2, <2>3 DEF Known
    <2>6. Overlaps(f, began[c])
      BY <2>2, <2>4 DEF Overlaps
    <2>7. QED BY <2>1, <2>2, <2>3, <2>4, <2>5, <2>6
  <1>5. EventsOK'
    <2>1. \A e \in domain_events' :
            Known(e) /\ e.at \in Nat /\ e.kept \in Nat /\ e.at <= e.kept /\ e.kept < clock'
      BY <1>2, <1>3, <1>4 DEF EventsOK
    <2>2. \A e, f \in domain_events' : e.id = f.id => e = f
      <3>1. \A e, f \in new : e.id = f.id => e = f
        BY <1>2, <1>4 DEF CallerOK
      <3>2. \A e \in domain_events, f \in new : e.id # f.id
        BY <1>2, <1>4 DEF CallerOK
      <3>3. QED BY <1>2, <3>1, <3>2 DEF EventsOK
    <2>3. \A e, f \in new : e.at < f.kept
      BY <1>3, <1>4
    <2>4. \A e \in new, f \in domain_events :
            e.correlation # None /\ e.correlation = f.correlation => e.at < f.kept
      BY <1>4 DEF Overlaps
    <2>5. \A e \in new, f \in domain_events : f.at < e.kept
      BY <1>2, <1>4 DEF EventsOK
    <2>6. PublishedTwiceOnlyTogether'
      BY <1>2, <2>3, <2>4, <2>5 DEF EventsOK, PublishedTwiceOnlyTogether
    <2>7. QED BY <1>3, <2>1, <2>2, <2>6 DEF EventsOK
  <1>6. CallerOK(c)'
    BY <1>2, <1>3 DEF CallerOK
  <1>7. CallerIds(c)' \subseteq CallerIds(c)
    BY <1>2 DEF CallerIds
  <1>8. \A f \in new : f.kept = clock /\ f.id \in CallerIds(c)
    BY <1>4 DEF CallerIds
  <1>9. StreamOK' /\ \A d \in Callers \ {c} : todo'[d] = todo[d] /\ began'[d] = began[d]
    BY <1>2 DEF StreamOK
  <1>10. QED BY <1>2, <1>3, <1>5, <1>6, <1>7, <1>8, <1>9, CallerKeepsPublishInv

\* The operations on the stream leave it one.
LEMMA ManageKeepsStream ==
  ASSUME StreamOK, Manage
  PROVE  StreamOK'
  <1>1. stream \in [exists : BOOLEAN, group : BOOLEAN, entries : Seq(Ids)]
    BY DEF StreamOK
  <1>2. NoStream \in [exists : BOOLEAN, group : BOOLEAN, entries : Seq(Ids)]
    <2>1. <<>> \in Seq(Ids)
      OBVIOUS
    <2>2. QED BY <2>1 DEF NoStream
  <1>3. CASE setup_event_streams
    <2>1. stream.exists /\ stream'.exists
      BY <1>1, <1>3 DEF setup_event_streams
    <2>2. CASE stream.group
      BY <1>1, <1>3, <2>1, <2>2 DEF setup_event_streams, StreamOK
    <2>3. CASE ~stream.group
      <3>1. <<>> \in Seq(Ids)
        OBVIOUS
      <3>2. PICK none \in Seq(Ids) : none = <<>>
        BY <3>1
      <3>3. stream' = [stream EXCEPT !.group = TRUE, !.entries = none]
        BY <1>3, <2>3, <3>2 DEF setup_event_streams
      <3>4. stream' \in [exists : BOOLEAN, group : BOOLEAN, entries : Seq(Ids)]
        BY <1>1, <3>2, <3>3
      <3>5. QED BY <2>1, <3>4 DEF StreamOK
    <2>4. QED BY <2>2, <2>3
  <1>4. CASE consume_events \/ reset_consumer_group
    BY <1>1, <1>4 DEF consume_events, reset_consumer_group, StreamOK
  <1>5. CASE delete_consumer_group
    <2>1. stream.exists /\ stream.group
      BY <1>5 DEF StreamOK, NoStream, delete_consumer_group
    <2>2. QED BY <1>1, <1>5, <2>1 DEF delete_consumer_group, StreamOK
  <1>6. CASE purge_stream
    BY <1>2, <1>6 DEF purge_stream, StreamOK
  <1>7. QED BY <1>3, <1>4, <1>5, <1>6 DEF Manage

\* A step that is none of a caller keeps the invariant of the publishing.
LEMMA OtherStepsKeepPublishInv ==
  ASSUME PublishInv, UNCHANGED publishing, StreamOK'
  PROVE  PublishInv'
  <1>1. /\ clock' = clock /\ todo' = todo /\ stage' = stage /\ began' = began /\ flushed' = flushed
        /\ domain_events' = domain_events
    BY DEF publishing
  <1>2. EventsOK'
    BY <1>1 DEF PublishInv, EventsOK, PublishedTwiceOnlyTogether, Known
  <1>3. \A c \in Callers : CallerOK(c)' /\ CallerIds(c)' = CallerIds(c)
    BY <1>1 DEF PublishInv, CallerOK, Overlaps, CallerIds, Known
  <1>4. QED BY <1>1, <1>2, <1>3 DEF PublishInv

\* The invariant holds at first.
LEMMA InitPublishInv ==
  ASSUME Init
  PROVE  PublishInv
  <1>1. PICK scene \in Scenes : domain_events = scene.events /\ todo = scene.todo
    BY DEF Init
  <1>2. /\ clock = Cardinality(domain_events) + 1
        /\ stage = [c \in Callers |-> "begin"] /\ began = [c \in Callers |-> None]
        /\ flushed = [c \in Callers |-> {}] /\ stream = NoStream
    BY DEF Init
  <1>3. \A e \in domain_events : e \in Drafts
    BY <1>1 DEF Drafts
  <1>4. \A e \in domain_events : Known(e)
    BY <1>3, EventBusAssumption DEF Known
  <1>5. /\ IsFiniteSet(domain_events)
        /\ \A e \in domain_events : e.at \in Nat /\ e.kept \in Nat /\ e.at <= e.kept /\ e.kept <= Cardinality(domain_events)
        /\ \A e, f \in domain_events : e.id = f.id => e = f
        /\ \A e, f \in domain_events :
             e # f /\ e.correlation # None /\ e.correlation = f.correlation => e.at < f.kept
    BY <1>1, EventBusAssumption
  <1>6. Cardinality(domain_events) \in Nat
    BY <1>5, FS_CardinalityType
  <1>7. EventsOK
    BY <1>2, <1>4, <1>5, <1>6 DEF EventsOK, PublishedTwiceOnlyTogether
  <1>8. StreamOK
    <2>1. <<>> \in Seq(Ids)
      OBVIOUS
    <2>2. QED BY <1>2, <2>1 DEF StreamOK, NoStream
  <1>9. /\ DOMAIN todo = Callers
        /\ \A c \in Callers :
            /\ todo[c] \in Seq(Drafts)
            /\ \A i \in DOMAIN todo[c] :
                 /\ \A e \in domain_events : e.id # todo[c][i].id
                 /\ \A d \in Callers : \A j \in DOMAIN todo[d] :
                      todo[c][i].id = todo[d][j].id => c = d /\ i = j
    BY <1>1, EventBusAssumption
  <1>10. \A c \in Callers : stage[c] = "begin" /\ flushed[c] = {}
    BY <1>2
  <1>11. \A c \in Callers : CallerOK(c)
    BY <1>9, <1>10 DEF CallerOK
  <1>12. \A c, d \in Callers : c # d => CallerIds(c) \cap CallerIds(d) = {}
    BY <1>9, <1>10 DEF CallerIds
  <1>13. QED BY <1>2, <1>7, <1>8, <1>9, <1>11, <1>12 DEF PublishInv

\* Every step keeps the invariant of the publishing.
LEMMA NextKeepsPublishInv ==
  ASSUME PublishInv, [Next]_vars
  PROVE  PublishInv'
  <1>1. CASE \E c \in Callers : Begin(c) \/ Check(c) \/ Insert(c) \/ PublishToStream(c) \/ Commit(c) \/ Rollback(c)
    BY <1>1, BeginKeepsPublishInv, CheckKeepsPublishInv, InsertKeepsPublishInv, StreamKeepsPublishInv,
       CommitKeepsPublishInv, RollbackKeepsPublishInv
  <1>2. CASE Manage
    <2>1. StreamOK' /\ UNCHANGED publishing
      BY <1>2, ManageKeepsStream DEF PublishInv, Manage
    <2>2. QED BY <2>1, OtherStepsKeepPublishInv
  <1>3. CASE (\E r \in Replays : Start(r) \/ Look(r) \/ handle_event(r) \/ Crash(r)) \/ UNCHANGED vars
    <2>1. UNCHANGED publishing /\ stream' = stream
      BY <1>3 DEF Start, Look, handle_event, Crash, vars
    <2>2. StreamOK'
      BY <2>1 DEF PublishInv, StreamOK
    <2>3. QED BY <2>1, <2>2, OtherStepsKeepPublishInv
  <1>4. QED BY <1>1, <1>2, <1>3 DEF Next

\* What a stream that has its group has, it keeps, whatever step is taken.
LEMMA StepsGrowStream ==
  ASSUME StreamOK, [Next]_vars, stream.group, stream'.exists
  PROVE  /\ Len(stream.entries) <= Len(stream'.entries)
         /\ SubSeq(stream'.entries, 1, Len(stream.entries)) = stream.entries
  <1>1. stream \in [exists : BOOLEAN, group : BOOLEAN, entries : Seq(Ids)] /\ stream.entries \in Seq(Ids)
    BY DEF StreamOK
  <1>2. CASE \E c \in Callers : stream' = [stream EXCEPT !.exists = TRUE, !.entries = Append(@, Head(todo[c]).id)]
    <2>1. PICK c \in Callers : stream' = [stream EXCEPT !.exists = TRUE, !.entries = Append(@, Head(todo[c]).id)]
      BY <1>2
    <2>2. stream'.entries = Append(stream.entries, Head(todo[c]).id)
      BY <1>1, <2>1
    <2>3. QED BY <1>1, <2>2
  <1>3. CASE stream'.entries = stream.entries
    BY <1>1, <1>3
  <1>4. CASE purge_stream
    BY <1>4 DEF purge_stream, NoStream
  <1>5. CASE setup_event_streams \/ consume_events \/ reset_consumer_group \/ delete_consumer_group
    <2>1. stream'.entries = stream.entries
      BY <1>1, <1>5 DEF setup_event_streams, consume_events, reset_consumer_group, delete_consumer_group
    <2>2. QED BY <1>3, <2>1
  <1>6. ASSUME NEW c \in Callers,
               Begin(c) \/ Check(c) \/ Insert(c) \/ PublishToStream(c) \/ Commit(c) \/ Rollback(c)
        PROVE  \/ stream' = stream
               \/ stream' = [stream EXCEPT !.exists = TRUE, !.entries = Append(@, Head(todo[c]).id)]
    BY <1>6 DEF Begin, Check, Insert, PublishToStream, Commit, Rollback
  <1>7. CASE (\E r \in Replays : Start(r) \/ Look(r) \/ handle_event(r) \/ Crash(r)) \/ UNCHANGED vars
    <2>1. stream' = stream
      BY <1>7 DEF Start, Look, handle_event, Crash, vars
    <2>2. QED BY <1>3, <2>1
  <1>8. QED BY <1>2, <1>3, <1>4, <1>5, <1>6, <1>7 DEF Next, Manage

\* Nothing but the deletion of the stream takes entries from one that has its group.
THEOREM NothingTrimsTheStream == Spec => GroupedStreamsGrow
  <1>1. Init => PublishInv
    BY InitPublishInv
  <1>2. PublishInv /\ [Next]_vars => PublishInv'
    BY NextKeepsPublishInv
  <1>3. PublishInv /\ [Next]_vars =>
          [stream.group /\ stream'.exists =>
             /\ Len(stream.entries) <= Len(stream'.entries)
             /\ SubSeq(stream'.entries, 1, Len(stream.entries)) = stream.entries]_vars
    BY StepsGrowStream DEF PublishInv
  <1>4. QED BY <1>1, <1>2, <1>3, PTL DEF Spec, GroupedStreamsGrow

------------------------------------------------------------------------------
(***************************************************************************)
(* Handlers.                                                               *)
(***************************************************************************)
HealthLook(e) == [table |-> "provider_health_metrics", key |-> e.provider]
SettlementLook(e) == [table |-> "settlements", key |-> e.reference]
RiskLook == [table |-> "money_at_risk", key |-> "today"]

\* What the handlers of all types insert and look for.
LEMMA HandlersAre ==
  ASSUME NEW e, e.type \in EventTypes
  PROVE  /\ Inserts(e) \subseteq {"alerts", "incidents", "dashboard_snapshots", "notifications"}
         /\ "alerts" \in Inserts(e) => e.type = "transaction.created"
         /\ e.type = "settlement.received" => Looks(e) = <<SettlementLook(e), RiskLook>>
         /\ e.type = "provider.sync.completed" => Looks(e) = HealthOfToday(e.provider)
         /\ e.type = "transaction.updated" => Looks(e) = IF e.failed THEN HealthOfToday(e.provider) ELSE <<>>
         /\ e.type \notin {"settlement.received", "provider.sync.completed", "transaction.updated"} =>
              Looks(e) = <<>>
  <1>1. CASE e.type = "transaction.created"
    BY <1>1 DEF HANDLERS, handle_transaction_created, Handling, Inserts, Looks
  <1>2. CASE e.type = "transaction.updated"
    <2>1. HANDLERS(e) = handle_transaction_updated(e)
      BY <1>2 DEF HANDLERS
    <2>2. QED BY <1>2, <2>1 DEF handle_transaction_updated, AuditOnly, Handling, Inserts, Looks
  <1>3. CASE e.type = "settlement.received"
    <2>1. HANDLERS(e) = handle_settlement_received(e)
      BY <1>3 DEF HANDLERS
    <2>2. QED BY <1>3, <2>1 DEF handle_settlement_received, Handling, Inserts, Looks, SettlementLook, RiskLook
  <1>4. CASE e.type = "reconciliation.completed"
    <2>1. HANDLERS(e) = handle_reconciliation_completed(e)
      BY <1>4 DEF HANDLERS
    <2>2. QED BY <1>4, <2>1 DEF handle_reconciliation_completed, Handling, Inserts, Looks
  <1>5. CASE e.type = "incident.created" \/ e.type = "alert.created"
    <2>1. HANDLERS(e) = Handling({"notifications"}, <<>>)
      BY <1>5 DEF HANDLERS, handle_incident_created, handle_alert_created
    <2>2. QED BY <1>5, <2>1 DEF Handling, Inserts, Looks
  <1>6. CASE e.type = "provider.sync.completed"
    <2>1. HANDLERS(e) = handle_provider_sync_completed(e)
      BY <1>6 DEF HANDLERS
    <2>2. HANDLERS(e) = Handling({}, HealthOfToday(e.provider))
      BY <2>1 DEF handle_provider_sync_completed
    <2>3. Inserts(e) = {} /\ Looks(e) = HealthOfToday(e.provider)
      BY <2>2 DEF Handling, Inserts, Looks
    <2>4. QED BY <1>6, <2>3
  <1>7. CASE e.type \in {"transaction.settled", "settlement.mismatch_detected", "reconciliation.mismatch",
                         "incident.acknowledged", "incident.resolved", "alert.resolved", "dispute.created",
                         "provider.sync.failed", "webhook.received", "webhook.processed"}
    <2>1. HANDLERS(e) = AuditOnly
      BY <1>7 DEF HANDLERS, handle_transaction_settled, handle_settlement_mismatch_detected,
           handle_reconciliation_mismatch, handle_incident_acknowledged, handle_incident_resolved,
           handle_alert_resolved, handle_dispute_created, handle_provider_sync_failed,
           handle_webhook_received, handle_webhook_processed
    <2>2. QED BY <1>7, <2>1 DEF AuditOnly, Handling, Inserts, Looks
  <1>8. QED BY <1>1, <1>2, <1>3, <1>4, <1>5, <1>6, <1>7 DEF EventTypes

\* The looks of a handler are of different tables, none that it inserts into anyway.
LEMMA LooksAre ==
  ASSUME NEW e, e.type \in EventTypes
  PROVE  /\ Len(Looks(e)) \in Nat /\ DOMAIN Looks(e) = 1..Len(Looks(e))
         /\ \A i \in DOMAIN Looks(e) :
              \/ i = 1 /\ Looks(e)[i] = HealthLook(e) /\ e.provider # None
              \/ i = 1 /\ Looks(e)[i] = SettlementLook(e)
              \/ i = 2 /\ Looks(e)[i] = RiskLook /\ e.type = "settlement.received"
         /\ e.type = "settlement.received" =>
              1 \in DOMAIN Looks(e) /\ 2 \in DOMAIN Looks(e) /\ Looks(e)[1] = SettlementLook(e) /\ Looks(e)[2] = RiskLook
         /\ \A i \in DOMAIN Looks(e) : Looks(e)[i].table \notin Inserts(e)
         /\ \A i, j \in DOMAIN Looks(e) : Looks(e)[i].table = Looks(e)[j].table => i = j
  <1>1. PICK looks : looks = Looks(e)
    OBVIOUS
  <1>2. \/ looks = <<>> /\ e.type # "settlement.received"
        \/ looks = <<HealthLook(e)>> /\ e.provider # None /\ e.type # "settlement.received"
        \/ looks = <<SettlementLook(e), RiskLook>> /\ e.type = "settlement.received"
    BY <1>1, HandlersAre DEF HealthOfToday, HealthLook
  <1>3. /\ Len(looks) \in Nat /\ DOMAIN looks = 1..Len(looks)
        /\ \A i \in DOMAIN looks :
              \/ i = 1 /\ looks[i] = HealthLook(e) /\ e.provider # None
              \/ i = 1 /\ looks[i] = SettlementLook(e)
              \/ i = 2 /\ looks[i] = RiskLook /\ e.type = "settlement.received"
        /\ e.type = "settlement.received" =>
              1 \in DOMAIN looks /\ 2 \in DOMAIN looks /\ looks[1] = SettlementLook(e) /\ looks[2] = RiskLook
    BY <1>2
  <1>4. \A i \in DOMAIN looks : looks[i].table \in {"provider_health_metrics", "settlements", "money_at_risk"}
    BY <1>3 DEF HealthLook, SettlementLook, RiskLook
  <1>5. \A i \in DOMAIN looks : looks[i].table \notin Inserts(e)
    BY <1>4, HandlersAre
  <1>6. \A i, j \in DOMAIN looks : looks[i].table = looks[j].table => i = j
    BY <1>3 DEF HealthLook, SettlementLook, RiskLook
  <1>7. QED BY <1>1, <1>3, <1>5, <1>6

------------------------------------------------------------------------------
(***************************************************************************)
(* One handling of an event.                                               *)
(***************************************************************************)

\* The event in a handler is stored, has a type that has a handler, and is not audited.
LEMMA CurrentIsNew ==
  ASSUME PublishInv, ReplayInv, NEW r \in Replays, pc[r] = "handle", NEW e, e = current[r]
  PROVE  /\ e \in left[r] /\ e \in chosen[r] /\ e \in domain_events /\ Known(e)
         /\ e.type \in EventTypes /\ e.id \in Ids
         /\ \A f \in left[r] : e.at <= f.at
         /\ e.merchant \in {d.merchant : d \in Drafts}
         /\ e.provider \in {d.provider : d \in Drafts} /\ e.reference \in {d.reference : d \in Drafts}
         /\ <<r, e.id>> \notin audits
         /\ \A f \in chosen[r] : f.id = e.id => f = e
  <1>1. /\ e \in left[r] /\ left[r] \subseteq chosen[r] /\ chosen[r] \subseteq domain_events
        /\ \A f \in left[r] : e.at <= f.at
    BY DEF ReplayInv, ReplayOK, Earliest
  <1>2. Known(e) /\ \A f, g \in domain_events : f.id = g.id => f = g
    BY <1>1 DEF PublishInv, EventsOK
  <1>3. PICK d \in Drafts : \A x \in Fields \ {"at", "kept"} : e[x] = d[x]
    BY <1>2 DEF Known
  <1>4. /\ e.type = d.type /\ e.id = d.id /\ e.merchant = d.merchant /\ e.provider = d.provider
        /\ e.reference = d.reference
    BY <1>3 DEF Fields
  <1>5. e.type \in EventTypes /\ e.id \in Ids
    BY <1>4, EventBusAssumption DEF Ids
  <1>6. <<r, e.id>> \notin audits
    <2>1. SUFFICES ASSUME <<r, e.id>> \in audits PROVE FALSE
      OBVIOUS
    <2>2. PICK f \in chosen[r] \ left[r] : f.id = e.id
      BY <2>1 DEF ReplayInv, AuditsOK
    <2>3. QED BY <1>1, <1>2, <2>2
  <1>7. QED BY <1>1, <1>2, <1>4, <1>5, <1>6

\* The rows of a handling are its own, at most one in a table, and those it looked for
\* are where it found none.
LEMMA NewRowsAreOwn ==
  ASSUME PublishInv, ReplayInv, NEW r \in Replays, pc[r] = "handle", NEW e, e = current[r]
  PROVE  /\ NewRows(r) \subseteq Row
         /\ \A row \in NewRows(r) :
              /\ row.by = <<r, e.id>> /\ row.merchant = e.merchant
              /\ \/ row.table \in Inserts(e)
                 \/ \E i \in DOMAIN found[r] :
                      found[r][i] = None /\ row.table = Looks(e)[i].table /\ row.key = Looks(e)[i].key
         /\ \A row, other \in NewRows(r) : row.table = other.table => row = other
         /\ \A t \in Inserts(e) : \E row \in NewRows(r) : row.table = t
         /\ \A i \in DOMAIN found[r] : found[r][i] = None =>
              \E row \in NewRows(r) : row.table = Looks(e)[i].table /\ row.key = Looks(e)[i].key
  <1>1. /\ e.type \in EventTypes /\ e.id \in Ids /\ e.merchant \in {d.merchant : d \in Drafts}
        /\ e.provider \in {d.provider : d \in Drafts} /\ e.reference \in {d.reference : d \in Drafts}
    BY CurrentIsNew
  <1>2. \A i \in DOMAIN found[r] : i \in DOMAIN Looks(e)
    <2>1. found[r] \in Seq(Row \cup {None}) /\ Len(found[r]) <= Len(Looks(e))
      BY DEF ReplayInv, LooksOK
    <2>2. Len(Looks(e)) \in Nat /\ DOMAIN Looks(e) = 1..Len(Looks(e))
      BY <1>1, LooksAre
    <2>3. QED BY <2>1, <2>2
  <1>3. \A t, k, n : LET row == Inserted(r, t, k, n) IN
          /\ row.table = t /\ row.key = k /\ row.fail = n /\ row.by = <<r, e.id>> /\ row.merchant = e.merchant
    BY DEF Inserted
  <1>4. ASSUME NEW row \in NewRows(r)
        PROVE  \/ \E t \in Inserts(e) : row = Inserted(r, t, None, 0)
               \/ \E i \in DOMAIN found[r] :
                    found[r][i] = None /\ row = Inserted(r, Looks(e)[i].table, Looks(e)[i].key, Failures(e))
    BY DEF NewRows
  <1>5. \A row \in NewRows(r) :
          /\ row.by = <<r, e.id>> /\ row.merchant = e.merchant
          /\ \/ row.table \in Inserts(e)
             \/ \E i \in DOMAIN found[r] :
                  found[r][i] = None /\ row.table = Looks(e)[i].table /\ row.key = Looks(e)[i].key
    BY <1>3, <1>4
  <1>6. \A row, other \in NewRows(r) : row.table = other.table => row = other
    <2>1. /\ \A i \in DOMAIN Looks(e) : Looks(e)[i].table \notin Inserts(e)
          /\ \A i, j \in DOMAIN Looks(e) : Looks(e)[i].table = Looks(e)[j].table => i = j
      BY <1>1, LooksAre
    <2>2. QED BY <1>2, <1>3, <1>4, <2>1
  <1>7. /\ \A t \in Inserts(e) : Inserted(r, t, None, 0) \in NewRows(r)
        /\ \A i \in DOMAIN found[r] : found[r][i] = None =>
              Inserted(r, Looks(e)[i].table, Looks(e)[i].key, Failures(e)) \in NewRows(r)
    BY DEF NewRows
  <1>8. NewRows(r) \subseteq Row
    <2>1. ASSUME NEW t \in {"alerts", "provider_health_metrics", "settlements", "money_at_risk", "incidents",
                            "dashboard_snapshots", "notifications"},
                 NEW k \in {d.provider : d \in Drafts} \cup {d.reference : d \in Drafts} \cup {None, "today"},
                 NEW n \in Nat
          PROVE  Inserted(r, t, k, n) \in Row
      BY <1>1 DEF Inserted, Row, Ids
    <2>2. Failures(e) \in Nat
      BY DEF Failures
    <2>3. \A t \in Inserts(e) : Inserted(r, t, None, 0) \in Row
      BY <1>1, <2>1, HandlersAre
    <2>4. ASSUME NEW i \in DOMAIN found[r]
          PROVE  Inserted(r, Looks(e)[i].table, Looks(e)[i].key, Failures(e)) \in Row
      <3>1. Looks(e)[i] \in {HealthLook(e), SettlementLook(e), RiskLook}
        BY <1>1, <1>2, LooksAre
      <3>2. /\ Looks(e)[i].table \in {"provider_health_metrics", "settlements", "money_at_risk"}
            /\ Looks(e)[i].key \in {e.provider, e.reference, "today"}
        BY <3>1 DEF HealthLook, SettlementLook, RiskLook
      <3>3. QED BY <1>1, <2>1, <2>2, <3>2
    <2>5. QED BY <1>4, <2>3, <2>4
  <1>9. QED BY <1>3, <1>5, <1>6, <1>7, <1>8

\* A recount changes nothing of the rows but counts.
LEMMA RecountIsAlike ==
  ASSUME PublishInv, ReplayInv, NEW r \in Replays, pc[r] = "handle"
  PROVE  /\ Recount(r) \subseteq Row
         /\ \A row \in made : \E other \in Recount(r) : Alike(row, other)
         /\ \A row, other \in Recount(r) : \E p, q \in made :
              Alike(p, row) /\ Alike(q, other) /\ (p = q => row = other)
  <1>1. made \subseteq Row
    BY DEF ReplayInv, RowsOK
  <1>2. PICK e : e = current[r]
    OBVIOUS
  <1>3. PICK g : g = [row \in made |-> IF row \in Counted(r) THEN [row EXCEPT !.fail = found[r][1].fail + 1] ELSE row]
    OBVIOUS
  <1>4. Recount(r) = {g[row] : row \in made}
    <2>1. Counted(r) \subseteq made
      BY DEF Counted
    <2>2. QED BY <1>3, <2>1 DEF Recount
  <1>5. \A row \in made : Alike(row, g[row])
    BY <1>1, <1>3 DEF Row, Alike
  <1>6. ASSUME NEW row \in made
        PROVE  g[row] \in Row
    <2>1. CASE row \in Counted(r)
      <3>1. PICK i \in DOMAIN found[r] : Failures(e) = 1 /\ found[r][i] # None
        BY <1>2, <2>1 DEF Counted
      <3>2. e.type = "transaction.updated"
        BY <3>1 DEF Failures
      <3>3. found[r] \in Seq(Row \cup {None}) /\ Len(found[r]) <= Len(Looks(e))
        BY <1>2 DEF ReplayInv, LooksOK
      <3>4. Len(Looks(e)) \in Nat /\ DOMAIN Looks(e) = 1..Len(Looks(e))
        BY <3>2, LooksAre DEF EventTypes
      <3>5. i \in DOMAIN Looks(e)
        BY <3>3, <3>4
      <3>6. i = 1
        BY <3>2, <3>5, LooksAre DEF EventTypes
      <3>7. found[r][1] \in Row
        BY <3>1, <3>3, <3>6
      <3>8. found[r][1].fail + 1 \in Nat
        BY <3>7 DEF Row
      <3>9. QED BY <1>1, <1>3, <2>1, <3>8 DEF Row
    <2>2. CASE row \notin Counted(r)
      BY <1>1, <1>3, <2>2
    <2>3. QED BY <2>1, <2>2
  <1>7. Recount(r) \subseteq Row
    BY <1>4, <1>6
  <1>8. \A row \in made : \E other \in Recount(r) : Alike(row, other)
    BY <1>4, <1>5
  <1>9. \A row, other \in Recount(r) : \E p, q \in made :
          Alike(p, row) /\ Alike(q, other) /\ (p = q => row = other)
    BY <1>4, <1>5
  <1>10. QED BY <1>7, <1>8, <1>9

\* The tables after a handling that is not refused.
WrittenBy(r, e) ==
  /\ audits' = audits \cup {<<r, e.id>>}
  /\ made' = Recount(r) \cup NewRows(r)

\* What the handling leaves of the rows there were, and what it adds.
LEMMA RowsAreKept ==
  ASSUME PublishInv, ReplayInv, NEW r \in Replays, pc[r] = "handle", NEW e, e = current[r], WrittenBy(r, e)
  PROVE  /\ \A row \in made : \E other \in made' : Alike(row, other)
         /\ \A row \in made' :
              \/ row.by = <<r, e.id>> /\ row.merchant = e.merchant
              \/ \E p \in made : Alike(p, row)
  <1>1. made' = Recount(r) \cup NewRows(r)
    BY DEF WrittenBy
  <1>2. /\ \A row \in made : \E other \in Recount(r) : Alike(row, other)
        /\ \A row \in Recount(r) : \E p \in made : Alike(p, row)
    BY RecountIsAlike
  <1>3. \A row \in NewRows(r) : row.by = <<r, e.id>> /\ row.merchant = e.merchant
    BY NewRowsAreOwn
  <1>4. QED BY <1>1, <1>2, <1>3

\* The rows stay what they are to be.
LEMMA WritingKeepsRows ==
  ASSUME PublishInv, ReplayInv, NEW r \in Replays, pc[r] = "handle", NEW e, e = current[r], WrittenBy(r, e)
  PROVE  RowsOK'
  <1>1. /\ made' = Recount(r) \cup NewRows(r) /\ audits' = audits \cup {<<r, e.id>>}
        /\ made \subseteq Row /\ IsFiniteSet(made) /\ \A row \in made : row.by \in audits
        /\ \A row, other \in made : row.table = other.table /\ row.by = other.by => row = other
        /\ RepeatsTakeTwoReplays
    BY DEF WrittenBy, ReplayInv, RowsOK
  <1>2. <<r, e.id>> \notin audits /\ e.type \in EventTypes
    BY CurrentIsNew
  <1>3. /\ NewRows(r) \subseteq Row
        /\ \A row \in NewRows(r) :
              /\ row.by = <<r, e.id>> /\ row.merchant = e.merchant
              /\ \/ row.table \in Inserts(e)
                 \/ \E i \in DOMAIN found[r] :
                      found[r][i] = None /\ row.table = Looks(e)[i].table /\ row.key = Looks(e)[i].key
        /\ \A row, other \in NewRows(r) : row.table = other.table => row = other
    BY NewRowsAreOwn
  <1>4. /\ Recount(r) \subseteq Row
        /\ \A row, other \in Recount(r) : \E p, q \in made :
             Alike(p, row) /\ Alike(q, other) /\ (p = q => row = other)
    BY RecountIsAlike
  <1>5. \A row \in Recount(r) : \E p \in made : Alike(p, row)
    BY <1>4
  <1>6. made' \subseteq Row
    BY <1>1, <1>3, <1>4
  <1>7. \A row \in made' : row.by \in audits'
    BY <1>1, <1>3, <1>5 DEF Alike
  <1>8. \A row, other \in made' : row.table = other.table /\ row.by = other.by => row = other
    <2>1. \A row, other \in Recount(r) : row.table = other.table /\ row.by = other.by => row = other
      BY <1>1, <1>4 DEF Alike
    <2>2. \A row \in Recount(r), other \in NewRows(r) : row.by # other.by
      BY <1>1, <1>2, <1>3, <1>5 DEF Alike
    <2>3. QED BY <1>1, <1>3, <2>1, <2>2
  <1>9. RepeatsTakeTwoReplays'
    <2>1. ASSUME NEW row \in made', NEW other \in made', row # other, row.table = other.table,
                 row.table \in {"settlements", "provider_health_metrics"},
                 row.merchant = other.merchant, row.key = other.key
          PROVE  row.by[1] # other.by[1]
      <3>1. CASE row \in Recount(r) /\ other \in Recount(r)
        <4>1. PICK p \in made, q \in made : Alike(p, row) /\ Alike(q, other) /\ (p = q => row = other)
          BY <1>4, <3>1
        <4>2. p # q /\ p.table = q.table /\ p.merchant = q.merchant /\ p.key = q.key
              /\ p.table \in {"settlements", "provider_health_metrics"}
          BY <2>1, <4>1 DEF Alike
        <4>3. p \in Rows("settlements") \cup Rows("provider_health_metrics")
              /\ q \in Rows("settlements") \cup Rows("provider_health_metrics")
          BY <4>2 DEF Rows
        <4>4. p.by[1] # q.by[1]
          BY <1>1, <4>2, <4>3 DEF RepeatsTakeTwoReplays
        <4>5. QED BY <4>1, <4>4 DEF Alike
      <3>2. ASSUME NEW x \in Recount(r), NEW y \in NewRows(r), y.table = x.table,
                   x.table \in {"settlements", "provider_health_metrics"}, x.merchant = y.merchant, x.key = y.key
            PROVE  x.by[1] # y.by[1]
        <4>1. PICK p \in made : Alike(p, x)
          BY <1>5
        <4>2. y.table \notin Inserts(e)
          BY <1>2, <3>2, HandlersAre
        <4>3. PICK i \in DOMAIN found[r] :
                found[r][i] = None /\ y.table = Looks(e)[i].table /\ y.key = Looks(e)[i].key
          BY <1>3, <4>2
        <4>4. p \in Of(e.merchant, Looks(e)[i])
          BY <1>3, <3>2, <4>1, <4>3 DEF Of, Alike
        <4>5. p.by[1] # r
          BY <4>3, <4>4 DEF ReplayInv, LooksOK
        <4>6. y.by[1] = r
          BY <1>3
        <4>7. QED BY <4>1, <4>5, <4>6 DEF Alike
      <3>3. row \notin NewRows(r) \/ other \notin NewRows(r)
        BY <1>3, <2>1
      <3>4. QED BY <1>1, <2>1, <3>1, <3>2, <3>3
    <2>2. \A t : \A row \in Rows(t)' : row \in made' /\ row.table = t
      BY DEF Rows
    <2>3. QED BY <2>1, <2>2 DEF RepeatsTakeTwoReplays
  <1>10. IsFiniteSet(made')
    <2>1. IsFiniteSet(NewRows(r))
      <3>1. PICK tables : tables = {row.table : row \in NewRows(r)}
        OBVIOUS
      <3>2. PICK all : all = {"alerts", "provider_health_metrics", "settlements", "money_at_risk", "incidents",
                              "dashboard_snapshots", "notifications"}
        OBVIOUS
      <3>3. IsFiniteSet(all)
        <4>1. PICK q : q = <<"alerts", "provider_health_metrics", "settlements", "money_at_risk", "incidents",
                             "dashboard_snapshots", "notifications">>
          OBVIOUS
        <4>2. DOMAIN q = 1..7
          BY <4>1
        <4>3. IsFiniteSet({q[i] : i \in 1..7})
          <5>1. PICK a \in Int, b \in Int : a = 1 /\ b = 7
            OBVIOUS
          <5>2. IsFiniteSet(a..b)
            BY FS_Interval
          <5>3. QED BY <4>2, <5>1, <5>2, FiniteImage
        <4>4. /\ q[1] = "alerts" /\ q[2] = "provider_health_metrics" /\ q[3] = "settlements"
              /\ q[4] = "money_at_risk" /\ q[5] = "incidents" /\ q[6] = "dashboard_snapshots"
              /\ q[7] = "notifications"
          BY <4>1
        <4>5. all \subseteq {q[i] : i \in 1..7}
          BY <3>2, <4>4
        <4>6. QED BY <4>3, <4>5, FS_Subset
      <3>4. tables \subseteq all
        BY <1>3, <3>1, <3>2 DEF Row
      <3>5. IsFiniteSet(tables)
        BY <3>3, <3>4, FS_Subset
      <3>6. PICK f : f = [t \in tables |-> CHOOSE row \in NewRows(r) : row.table = t]
        OBVIOUS
      <3>7. \A row \in NewRows(r) : row.table \in tables /\ f[row.table] = row
        BY <1>3, <3>1, <3>6
      <3>8. DOMAIN f = tables
        BY <3>6
      <3>9. IsFiniteSet({f[t] : t \in tables})
        BY <3>5, <3>8, FiniteImage
      <3>10. NewRows(r) \subseteq {f[t] : t \in tables}
        BY <3>7
      <3>11. QED BY <3>9, <3>10, FS_Subset
    <2>2. IsFiniteSet(Recount(r))
      <3>1. IsFiniteSet(Counted(r)) /\ IsFiniteSet(made \ Counted(r))
        BY <1>1, FS_Subset DEF Counted
      <3>2. PICK f : f = [row \in Counted(r) |-> [row EXCEPT !.fail = found[r][1].fail + 1]]
        OBVIOUS
      <3>3. IsFiniteSet({f[row] : row \in Counted(r)})
        BY <3>1, <3>2, FiniteImage
      <3>4. Recount(r) = (made \ Counted(r)) \cup {f[row] : row \in Counted(r)}
        BY <3>2 DEF Recount
      <3>5. QED BY <3>1, <3>3, <3>4, FS_Union
    <2>3. QED BY <1>1, <2>1, <2>2, FS_Union
  <1>11. QED BY <1>6, <1>7, <1>8, <1>9, <1>10 DEF RowsOK

\* No row is lost, and those that are added are of r.
RowsGrow(r) ==
  /\ \A row \in made : \E other \in made' : Alike(row, other)
  /\ \A row \in made' : row.by[1] = r \/ \E p \in made : Alike(p, row)

\* What was handled stays so, and so does a cause.
LEMMA HandledStays ==
  ASSUME NEW r, RowsGrow(r), NEW d, NEW e
  PROVE  /\ HandledOK(d, e) => HandledOK(d, e)'
         /\ Cause(d, e) => Cause(d, e)'
  <1>1. \A row \in made : \E other \in made' : Alike(row, other)
    BY DEF RowsGrow
  <1>2. ASSUME HandledOK(d, e) PROVE HandledOK(d, e)'
    <2>1. \A t \in Inserts(e) : \E row \in made' : row.table = t /\ row.by = <<d, e.id>>
      BY <1>1, <1>2 DEF HandledOK, Alike
    <2>2. e.type = "settlement.received" =>
            /\ \E row \in made' : row.table = "settlements" /\ row.merchant = e.merchant /\ row.key = e.reference
            /\ \E row \in made' : row.table = "money_at_risk" /\ row.merchant = e.merchant
      BY <1>1, <1>2 DEF HandledOK, Alike
    <2>3. QED BY <2>1, <2>2 DEF HandledOK
  <1>3. ASSUME Cause(d, e) PROVE Cause(d, e)'
    BY <1>1, <1>3 DEF Cause, Alike
  <1>4. QED BY <1>2, <1>3

\* A step of r keeps what is so of the other replays.
LEMMA OthersAreKept ==
  ASSUME ReplayInv, NEW r \in Replays, RowsGrow(r), domain_events' = domain_events,
         audits \subseteq audits', \A by \in audits' \ audits : by[1] = r,
         NEW d \in Replays \ {r},
         /\ pc'[d] = pc[d] /\ op'[d] = op[d] /\ chosen'[d] = chosen[d] /\ left'[d] = left[d]
         /\ current'[d] = current[d] /\ found'[d] = found[d]
  PROVE  ReplayOK(d)' /\ (pc'[d] = "handle" => LooksOK(d)') /\ DealtOK(d)'
  <1>1. ReplayOK(d)'
    <2>1. ReplayOK(d)
      BY DEF ReplayInv
    <2>2. ListingOK(d)'
      BY <2>1 DEF ReplayOK, ListingOK, Selected
    <2>3. QED BY <2>1, <2>2 DEF ReplayOK, Earliest
  <1>2. ASSUME pc[d] = "handle" PROVE LooksOK(d)'
    <2>1. LooksOK(d)
      BY <1>2 DEF ReplayInv
    <2>2. ASSUME NEW i \in DOMAIN found[d], found[d][i] = None,
                 NEW row \in made', row.merchant = current[d].merchant,
                 row.table = Looks(current[d])[i].table, row.key = Looks(current[d])[i].key
          PROVE  row.by[1] # d
      <3>1. CASE row.by[1] = r
        BY <3>1
      <3>2. CASE row.by[1] # r
        <4>1. PICK p \in made : Alike(p, row)
          BY <3>2 DEF RowsGrow
        <4>2. p \in Of(current[d].merchant, Looks(current[d])[i])
          BY <2>2, <4>1 DEF Of, Alike
        <4>3. QED BY <2>1, <2>2, <4>1, <4>2 DEF LooksOK, Alike
      <3>3. QED BY <3>1, <3>2
    <2>3. ASSUME NEW i \in DOMAIN found[d], found[d][i] # None
          PROVE  \E row \in made' : /\ row.merchant = current[d].merchant
                                    /\ row.table = Looks(current[d])[i].table
                                    /\ row.key = Looks(current[d])[i].key
                                    /\ Alike(row, found[d][i])
      <3>1. PICK p \in Of(current[d].merchant, Looks(current[d])[i]) : Alike(p, found[d][i])
        BY <2>1, <2>3 DEF LooksOK
      <3>2. PICK row \in made' : Alike(p, row)
        BY <3>1 DEF Of, RowsGrow
      <3>3. QED BY <3>1, <3>2 DEF Of, Alike
    <2>4. QED BY <2>1, <2>2, <2>3 DEF LooksOK, Of
  <1>3. DealtOK(d)'
    <2>1. SUFFICES ASSUME NEW e \in chosen[d] \ left[d]
                   PROVE  IF <<d, e.id>> \in audits' THEN HandledOK(d, e)'
                          ELSE op[d].name \in {"merchant", "since", "aggregate"} => Cause(d, e)'
      BY DEF DealtOK
    <2>2. IF <<d, e.id>> \in audits THEN HandledOK(d, e)
          ELSE op[d].name \in {"merchant", "since", "aggregate"} => Cause(d, e)
      BY DEF ReplayInv, DealtOK
    <2>3. <<d, e.id>> \in audits' <=> <<d, e.id>> \in audits
      OBVIOUS
    <2>4. QED BY <2>2, <2>3, HandledStays
  <1>4. QED BY <1>1, <1>2, <1>3

\* A replay goes on to its next event.
LEMMA TurnIsOK ==
  ASSUME NEW r \in Replays, NEW remaining, Turn(r, remaining),
         DOMAIN pc = Replays, DOMAIN left = Replays, DOMAIN current = Replays, DOMAIN found = Replays
  PROVE  /\ left'[r] = remaining /\ found'[r] = <<>>
         /\ IF remaining = {} THEN pc'[r] = "done" /\ current'[r] = None
            ELSE pc'[r] = "handle" /\ current'[r] \in Earliest(remaining)
         /\ \A d \in Replays \ {r} : /\ left'[d] = left[d] /\ found'[d] = found[d]
                                     /\ pc'[d] = pc[d] /\ current'[d] = current[d]
         /\ DOMAIN left' = Replays /\ DOMAIN found' = Replays /\ DOMAIN current' = Replays
         /\ pc \in [Replays -> {"idle", "handle", "done", "crashed"}] =>
              pc' \in [Replays -> {"idle", "handle", "done", "crashed"}]
  <1>1. /\ left' = [left EXCEPT ![r] = remaining] /\ found' = [found EXCEPT ![r] = <<>>]
        /\ IF remaining = {}
           THEN pc' = [pc EXCEPT ![r] = "done"] /\ current' = [current EXCEPT ![r] = None]
           ELSE pc' = [pc EXCEPT ![r] = "handle"] /\ \E e \in Earliest(remaining) : current' = [current EXCEPT ![r] = e]
    BY DEF Turn
  <1>2. CASE remaining = {}
    BY <1>1, <1>2
  <1>3. CASE remaining # {}
    <2>1. PICK e \in Earliest(remaining) : current' = [current EXCEPT ![r] = e]
      BY <1>1, <1>3
    <2>2. QED BY <1>1, <1>3, <2>1
  <1>4. QED BY <1>2, <1>3

\* A handler that finds nothing yet has nothing to answer for.
LEMMA NothingFound ==
  ASSUME NEW r, found'[r] = <<>>, current'[r].type \in EventTypes
  PROVE  LooksOK(r)'
  <1>1. PICK e : e = current'[r]
    OBVIOUS
  <1>2. Len(Looks(e)) \in Nat
    BY <1>1, LooksAre
  <1>3. /\ found'[r] \in Seq(Row \cup {None}) /\ Len(found'[r]) = 0 /\ DOMAIN found'[r] = {}
    OBVIOUS
  <1>4. QED BY <1>1, <1>2, <1>3 DEF LooksOK

\* A replay that has dealt with its event is as it should be.
LEMMA DealingKeepsReplay ==
  ASSUME PublishInv, ReplayInv, NEW r \in Replays, pc[r] = "handle", NEW e, e = current[r], Turn(r, Rest(r)),
         RowsGrow(r), UNCHANGED <<domain_events, chosen, op>>,
         audits \subseteq audits', audits' \subseteq audits \cup {<<r, e.id>>},
         IF <<r, e.id>> \in audits' THEN HandledOK(r, e)' ELSE Cause(r, e)'
  PROVE  ReplayOK(r)' /\ (pc'[r] = "handle" => LooksOK(r)') /\ DealtOK(r)' /\ AuditsOK'
  <1>1. /\ e \in left[r] /\ e \in chosen[r] /\ <<r, e.id>> \notin audits /\ e.id \in Ids
        /\ (\A f \in left[r] : e.at <= f.at) /\ (\A f \in chosen[r] : f.id = e.id => f = e)
    BY CurrentIsNew
  <1>2. /\ left'[r] = left[r] \ {e} /\ found'[r] = <<>> /\ chosen'[r] = chosen[r] /\ op'[r] = op[r]
        /\ IF left'[r] = {} THEN pc'[r] = "done" /\ current'[r] = None
           ELSE pc'[r] = "handle" /\ current'[r] \in Earliest(left'[r])
        /\ \A d \in Replays \ {r} : left'[d] = left[d] /\ chosen'[d] = chosen[d]
    BY TurnIsOK DEF ReplayInv, Rest
  <1>3. ReplayOK(r)
    BY DEF ReplayInv
  <1>4. \A f, g \in chosen[r] : f.at \in Nat /\ g.at \in Nat
    BY <1>3 DEF ReplayOK, PublishInv, EventsOK
  <1>5. ReplayOK(r)'
    <2>1. \A f \in chosen'[r] \ left'[r] : \A g \in left'[r] : f.at <= g.at
      BY <1>1, <1>2, <1>3 DEF ReplayOK
    <2>2. ListingOK(r)'
      BY <1>2, <1>3 DEF ReplayOK, ListingOK
    <2>3. QED BY <1>2, <1>3, <2>1, <2>2 DEF ReplayOK
  <1>6. pc'[r] = "handle" => LooksOK(r)'
    <2>1. \A f \in chosen[r] : f.type \in EventTypes
      <3>1. \A f \in chosen[r] : f \in domain_events /\ Known(f)
        BY <1>3 DEF ReplayOK, PublishInv, EventsOK
      <3>2. ASSUME NEW f \in chosen[r] PROVE f.type \in EventTypes
        <4>1. PICK d \in Drafts : \A x \in Fields \ {"at", "kept"} : f[x] = d[x]
          BY <3>1 DEF Known
        <4>2. QED BY <4>1, EventBusAssumption DEF Fields
      <3>3. QED BY <3>2
    <2>2. pc'[r] = "handle" => current'[r] \in chosen[r]
      BY <1>2, <1>3 DEF ReplayOK, Earliest
    <2>3. QED BY <1>2, <2>1, <2>2, NothingFound
  <1>7. DealtOK(r)'
    <2>1. ASSUME NEW f \in chosen[r] \ left[r]
          PROVE  IF <<r, f.id>> \in audits' THEN HandledOK(r, f)'
                 ELSE op[r].name \in {"merchant", "since", "aggregate"} => Cause(r, f)'
      <3>1. <<r, f.id>> \in audits' <=> <<r, f.id>> \in audits
        BY <1>1
      <3>2. IF <<r, f.id>> \in audits THEN HandledOK(r, f)
            ELSE op[r].name \in {"merchant", "since", "aggregate"} => Cause(r, f)
        BY DEF ReplayInv, DealtOK
      <3>3. QED BY <3>1, <3>2, HandledStays
    <2>2. chosen'[r] \ left'[r] = (chosen[r] \ left[r]) \cup {e}
      BY <1>1, <1>2
    <2>3. QED BY <1>2, <2>1, <2>2 DEF DealtOK
  <1>8. AuditsOK'
    <2>1. IsFiniteSet(audits) /\ \A by \in audits :
            by \in Replays \X Ids /\ \E f \in chosen[by[1]] \ left[by[1]] : f.id = by[2]
      BY DEF ReplayInv, AuditsOK
    <2>2. IsFiniteSet(audits')
      <3>1. IsFiniteSet(audits \cup {<<r, e.id>>})
        BY <2>1, FS_AddElement
      <3>2. QED BY <3>1, FS_Subset
    <2>3. ASSUME NEW by \in audits
          PROVE  by \in Replays \X Ids /\ \E f \in chosen'[by[1]] \ left'[by[1]] : f.id = by[2]
      BY <1>2, <2>1
    <2>4. <<r, e.id>> \in Replays \X Ids /\ \E f \in chosen'[r] \ left'[r] : f.id = e.id
      BY <1>1, <1>2
    <2>5. ASSUME NEW by \in audits'
          PROVE  by \in Replays \X Ids /\ \E f \in chosen'[by[1]] \ left'[by[1]] : f.id = by[2]
      BY <2>3, <2>4
    <2>6. QED BY <2>2, <2>5 DEF AuditsOK
  <1>9. QED BY <1>5, <1>6, <1>7, <1>8

\* What the database refuses has a cause.
LEMMA RefusalsHaveCauses ==
  ASSUME PublishInv, ReplayInv, NEW r \in Replays, pc[r] = "handle", NEW e, e = current[r],
         NEW row \in NewRows(r), Refused(r, row)
  PROVE  Cause(r, e)
  <1>1. /\ row.merchant = e.merchant
        /\ \/ row.table \in Inserts(e)
           \/ \E i \in DOMAIN found[r] :
                found[r][i] = None /\ row.table = Looks(e)[i].table /\ row.key = Looks(e)[i].key
    BY NewRowsAreOwn
  <1>2. e.type \in EventTypes
    BY CurrentIsNew
  <1>3. found[r] \in Seq(Row \cup {None}) /\ Len(found[r]) <= Len(Looks(e)) /\ LooksOK(r)
    BY DEF ReplayInv, LooksOK
  <1>4. \A i \in DOMAIN found[r] : i \in DOMAIN Looks(e)
    <2>1. Len(Looks(e)) \in Nat /\ DOMAIN Looks(e) = 1..Len(Looks(e))
      BY <1>2, LooksAre
    <2>2. QED BY <1>3, <2>1
  <1>5. ASSUME NEW i \in DOMAIN found[r]
        PROVE  /\ Looks(e)[i].table # "alerts"
               /\ Looks(e)[i].table = "money_at_risk" => e.type = "settlement.received"
    <2>1. \/ Looks(e)[i] \in {HealthLook(e), SettlementLook(e)}
          \/ Looks(e)[i] = RiskLook /\ e.type = "settlement.received"
      BY <1>2, <1>4, LooksAre
    <2>2. PICK look : look = Looks(e)[i]
      OBVIOUS
    <2>3. QED BY <2>1, <2>2 DEF HealthLook, SettlementLook, RiskLook
  <1>6. CASE row.table = "alerts" /\ e.aggregate \notin Transactions
    <2>1. row.table \in Inserts(e)
      BY <1>1, <1>5, <1>6
    <2>2. QED BY <1>2, <1>6, <2>1, HandlersAre DEF Cause
  <1>7. CASE row.table = "money_at_risk" /\ Of(row.merchant, row) # {}
    <2>1. row.table \notin Inserts(e)
      BY <1>2, <1>7, HandlersAre
    <2>2. PICK i \in DOMAIN found[r] :
            found[r][i] = None /\ row.table = Looks(e)[i].table /\ row.key = Looks(e)[i].key
      BY <1>1, <2>1
    <2>3. PICK other : other \in Of(row.merchant, row)
      BY <1>7
    <2>4. other \in Of(e.merchant, Looks(e)[i]) /\ other \in made /\ other.table = "money_at_risk" /\ other.merchant = e.merchant
      BY <1>1, <1>7, <2>2, <2>3 DEF Of
    <2>5. other.by[1] # r
      BY <1>3, <2>2, <2>4 DEF LooksOK
    <2>6. e.type = "settlement.received"
      BY <1>5, <1>7, <2>2
    <2>7. QED BY <2>4, <2>5, <2>6 DEF Cause
  <1>8. QED BY <1>1, <1>6, <1>7 DEF Refused, Cause

\* A handling that is not refused has done all it is to do.
LEMMA WritingIsWhole ==
  ASSUME PublishInv, ReplayInv, NEW r \in Replays, pc[r] = "handle", NEW e, e = current[r], WrittenBy(r, e),
         Len(found[r]) = Len(Looks(e))
  PROVE  HandledOK(r, e)'
  <1>1. /\ \A t \in Inserts(e) : \E row \in NewRows(r) : row.table = t
        /\ \A row \in NewRows(r) : row.by = <<r, e.id>> /\ row.merchant = e.merchant
        /\ \A i \in DOMAIN found[r] : found[r][i] = None =>
              \E row \in NewRows(r) : row.table = Looks(e)[i].table /\ row.key = Looks(e)[i].key
        /\ NewRows(r) \subseteq made'
    BY NewRowsAreOwn DEF WrittenBy
  <1>2. \A t \in Inserts(e) : \E row \in made' : row.table = t /\ row.by = <<r, e.id>>
    BY <1>1
  <1>3. ASSUME e.type = "settlement.received", NEW i \in {1, 2}
        PROVE  \E row \in made' :
                 row.table = Looks(e)[i].table /\ row.key = Looks(e)[i].key /\ row.merchant = e.merchant
    <2>1. i \in DOMAIN found[r]
      <3>1. Len(Looks(e)) \in Nat /\ DOMAIN Looks(e) = 1..Len(Looks(e)) /\ i \in DOMAIN Looks(e)
        BY <1>3, LooksAre DEF EventTypes
      <3>2. found[r] \in Seq(Row \cup {None})
        BY DEF ReplayInv, LooksOK
      <3>3. QED BY <3>1, <3>2
    <2>2. CASE found[r][i] = None
      BY <1>1, <2>1, <2>2
    <2>3. CASE found[r][i] # None
      <3>1. PICK p : p \in Of(e.merchant, Looks(e)[i])
        BY <2>1, <2>3 DEF ReplayInv, LooksOK
      <3>2. PICK row \in made' : Alike(p, row)
        BY <3>1, RowsAreKept DEF Of
      <3>3. QED BY <3>1, <3>2 DEF Of, Alike
    <2>4. QED BY <2>2, <2>3
  <1>4. e.type = "settlement.received" =>
          /\ \E row \in made' : row.table = "settlements" /\ row.merchant = e.merchant /\ row.key = e.reference
          /\ \E row \in made' : row.table = "money_at_risk" /\ row.merchant = e.merchant
    <2>1. e.type = "settlement.received" => Looks(e)[1] = SettlementLook(e) /\ Looks(e)[2] = RiskLook
      BY LooksAre DEF EventTypes
    <2>2. QED BY <1>3, <2>1 DEF SettlementLook, RiskLook
  <1>5. QED BY <1>2, <1>4 DEF HandledOK

\* Sync times and disputes are of audited handlings.
LEMMA WritingKeepsEffects ==
  ASSUME PublishInv, ReplayInv, NEW r \in Replays, pc[r] = "handle", NEW e, e = current[r],
         audits' = audits \cup {<<r, e.id>>}, UNCHANGED chosen,
         disputed' = disputed \cup (Disputed(e) \cap Transactions), synced' = Synced(e, <<r, e.id>>)
  PROVE  EffectsOK'
  <1>1. EffectsOK /\ e \in chosen[r]
    BY CurrentIsNew DEF ReplayInv
  <1>2. PICK by : by = <<r, e.id>> /\ by \in audits'
    OBVIOUS
  <1>3. DOMAIN synced' = Sources
    BY DEF Synced
  <1>4. ASSUME NEW s \in Sources
        PROVE  DOMAIN synced'[s] = {"sync", "success"} /\ {synced'[s].sync, synced'[s].success} \subseteq audits' \cup {None}
    <2>1. DOMAIN synced[s] = {"sync", "success"} /\ {synced[s].sync, synced[s].success} \subseteq audits' \cup {None}
      BY <1>1 DEF EffectsOK
    <2>2. \/ synced'[s] = synced[s]
          \/ synced'[s] = [synced[s] EXCEPT !.sync = by]
          \/ synced'[s] = [sync |-> by, success |-> by]
      BY <1>2 DEF Synced
    <2>3. QED BY <1>2, <2>1, <2>2
  <1>5. \A t \in disputed' : \E a \in audits' : \E f \in chosen'[a[1]] : f.id = a[2] /\ t \in Disputed(f)
    <2>1. \A t \in Disputed(e) : \E a \in audits' : \E f \in chosen'[a[1]] : f.id = a[2] /\ t \in Disputed(f)
      BY <1>1, <1>2
    <2>2. QED BY <1>1, <2>1 DEF EffectsOK
  <1>6. QED BY <1>3, <1>4, <1>5 DEF EffectsOK

\* One handling of an event keeps the invariant, whether it is refused or not.
LEMMA HandlingKeepsReplayInv ==
  ASSUME PublishInv, ReplayInv, NEW r \in Replays, handle_event(r)
  PROVE  ReplayInv'
  <1>1. PICK e : e = current[r]
    OBVIOUS
  <1>2. /\ pc[r] = "handle" /\ Len(found[r]) = Len(Looks(e)) /\ Write(r) /\ Turn(r, Rest(r))
        /\ op' = op /\ chosen' = chosen /\ domain_events' = domain_events
    BY <1>1 DEF handle_event, publishing
  <1>3. CASE \E row \in NewRows(r) : Refused(r, row)
    <2>1. audits' = audits /\ made' = made /\ disputed' = disputed /\ synced' = synced
      BY <1>2, <1>3 DEF Write, effects
    <2>2. RowsGrow(r)
      BY <2>1 DEF RowsGrow, Alike
    <2>3. Cause(r, e)'
      BY <1>1, <1>2, <1>3, <2>2, RefusalsHaveCauses, HandledStays
    <2>4. <<r, e.id>> \notin audits
      BY <1>1, <1>2, CurrentIsNew
    <2>5. ReplayOK(r)' /\ (pc'[r] = "handle" => LooksOK(r)') /\ DealtOK(r)' /\ AuditsOK'
      BY <1>1, <1>2, <2>1, <2>2, <2>3, <2>4, DealingKeepsReplay
    <2>6. RowsOK' /\ EffectsOK'
      BY <1>2, <2>1 DEF ReplayInv, RowsOK, RepeatsTakeTwoReplays, Rows, EffectsOK
    <2>7. QED BY <1>2, <2>1, <2>2, <2>5, <2>6, TurnIsOK, OthersAreKept DEF ReplayInv
  <1>4. CASE ~\E row \in NewRows(r) : Refused(r, row)
    <2>1. /\ audits' = audits \cup {<<r, e.id>>} /\ made' = Recount(r) \cup NewRows(r)
          /\ disputed' = disputed \cup (Disputed(e) \cap Transactions) /\ synced' = Synced(e, <<r, e.id>>)
      BY <1>1, <1>2, <1>4 DEF Write
    <2>2. WrittenBy(r, e)
      BY <2>1 DEF WrittenBy
    <2>3. RowsGrow(r)
      BY <1>1, <1>2, <2>2, RowsAreKept DEF RowsGrow
    <2>4. HandledOK(r, e)'
      BY <1>1, <1>2, <2>2, WritingIsWhole
    <2>5. ReplayOK(r)' /\ (pc'[r] = "handle" => LooksOK(r)') /\ DealtOK(r)' /\ AuditsOK'
      BY <1>1, <1>2, <2>1, <2>3, <2>4, DealingKeepsReplay
    <2>6. RowsOK' /\ EffectsOK'
      BY <1>1, <1>2, <2>1, <2>2, WritingKeepsRows, WritingKeepsEffects
    <2>7. \A by \in audits' \ audits : by[1] = r
      BY <2>1
    <2>8. QED BY <1>2, <2>1, <2>3, <2>5, <2>6, <2>7, TurnIsOK, OthersAreKept DEF ReplayInv
  <1>5. QED BY <1>3, <1>4

\* A select of a handler finds a row that is there, or none of its own replay.
LEMMA LookingKeepsReplayInv ==
  ASSUME PublishInv, ReplayInv, NEW r \in Replays, Look(r)
  PROVE  ReplayInv'
  <1>1. PICK e, looks, n : e = current[r] /\ looks = Looks(e) /\ n = Len(found[r])
    OBVIOUS
  <1>2. PICK row \in IF Of(e.merchant, looks[n + 1]) = {} THEN {None} ELSE Of(e.merchant, looks[n + 1]) :
          found' = [found EXCEPT ![r] = Append(@, row)]
    BY <1>1 DEF Look
  <1>3. /\ pc[r] = "handle" /\ n < Len(looks) /\ LooksOK(r) /\ made \subseteq Row /\ e.type \in EventTypes
        /\ UNCHANGED <<pc, op, chosen, left, current, domain_events>>
        /\ audits' = audits /\ made' = made /\ disputed' = disputed /\ synced' = synced
    BY <1>1, CurrentIsNew DEF Look, ReplayInv, RowsOK, effects, publishing
  <1>4. /\ found'[r] = Append(found[r], row) /\ DOMAIN found' = Replays
        /\ \A d \in Replays \ {r} : found'[d] = found[d]
    BY <1>2 DEF ReplayInv
  <1>5. LooksOK(r)'
    <2>1. found[r] \in Seq(Row \cup {None}) /\ n \in Nat /\ Len(looks) \in Nat /\ DOMAIN found[r] = 1..n
      BY <1>1, <1>3, LooksAre DEF LooksOK
    <2>2. row \in Row \cup {None}
      BY <1>2, <1>3 DEF Of
    <2>3. /\ found'[r] \in Seq(Row \cup {None}) /\ Len(found'[r]) = n + 1 /\ DOMAIN found'[r] = 1..(n + 1)
          /\ found'[r][n + 1] = row /\ \A i \in 1..n : found'[r][i] = found[r][i]
      BY <1>1, <1>4, <2>1, <2>2
    <2>4. Len(found'[r]) <= Len(looks)
      BY <1>3, <2>1, <2>3
    <2>5. IF row = None THEN \A p \in Of(e.merchant, looks[n + 1]) : p.by[1] # r
          ELSE \E p \in Of(e.merchant, looks[n + 1]) : Alike(p, row)
      <3>1. Of(e.merchant, looks[n + 1]) \subseteq Row
        BY <1>3 DEF Of
      <3>2. QED BY <1>2, <3>1, EventBusAssumption DEF Alike
    <2>6. \A i \in 1..n :
            IF found[r][i] = None THEN \A p \in Of(e.merchant, looks[i]) : p.by[1] # r
            ELSE \E p \in Of(e.merchant, looks[i]) : Alike(p, found[r][i])
      BY <1>1, <1>3, <2>1 DEF LooksOK
    <2>7. \A i \in 1..(n + 1) :
            IF found'[r][i] = None THEN \A p \in Of(e.merchant, looks[i]) : p.by[1] # r
            ELSE \E p \in Of(e.merchant, looks[i]) : Alike(p, found'[r][i])
      <3>1. \A i \in 1..(n + 1) : i \in 1..n \/ i = n + 1
        BY <2>1
      <3>2. QED BY <2>3, <2>5, <2>6, <3>1
    <2>8. \A l : Of(e.merchant, l)' = Of(e.merchant, l)
      BY <1>3 DEF Of
    <2>9. QED BY <1>1, <1>3, <2>3, <2>4, <2>7, <2>8 DEF LooksOK, Of
  <1>6. RowsGrow(r)
    BY <1>3 DEF RowsGrow, Alike
  <1>7. ReplayOK(r)' /\ DealtOK(r)'
    <2>1. ReplayOK(r) /\ DealtOK(r)
      BY DEF ReplayInv
    <2>2. ListingOK(r)'
      BY <1>3, <2>1 DEF ReplayOK, ListingOK
    <2>3. DealtOK(r)'
      BY <1>3, <2>1 DEF DealtOK, HandledOK, Cause
    <2>4. QED BY <1>3, <2>1, <2>2, <2>3 DEF ReplayOK, Earliest
  <1>8. RowsOK' /\ EffectsOK' /\ AuditsOK'
    BY <1>3 DEF ReplayInv, RowsOK, RepeatsTakeTwoReplays, Rows, EffectsOK, AuditsOK
  <1>9. QED BY <1>3, <1>4, <1>5, <1>6, <1>7, <1>8, OthersAreKept DEF ReplayInv

\* A process that dies leaves what its replay had done.
LEMMA CrashKeepsReplayInv ==
  ASSUME PublishInv, ReplayInv, NEW r \in Replays, Crash(r)
  PROVE  ReplayInv'
  <1>1. /\ pc[r] = "handle" /\ UNCHANGED <<op, chosen, left, domain_events>>
        /\ audits' = audits /\ made' = made /\ disputed' = disputed /\ synced' = synced
        /\ pc' = [pc EXCEPT ![r] = "crashed"]
        /\ current' = [current EXCEPT ![r] = None] /\ found' = [found EXCEPT ![r] = <<>>]
    BY DEF Crash, effects, publishing
  <1>2. /\ pc' \in [Replays -> {"idle", "handle", "done", "crashed"}]
        /\ DOMAIN current' = Replays /\ DOMAIN found' = Replays
        /\ pc'[r] = "crashed" /\ current'[r] = None /\ found'[r] = <<>>
        /\ \A d \in Replays \ {r} : pc'[d] = pc[d] /\ current'[d] = current[d] /\ found'[d] = found[d]
    BY <1>1 DEF ReplayInv
  <1>3. RowsGrow(r)
    BY <1>1 DEF RowsGrow, Alike
  <1>4. ReplayOK(r)'
    <2>1. ReplayOK(r)
      BY DEF ReplayInv
    <2>2. ListingOK(r)'
      BY <1>2 DEF ListingOK
    <2>3. QED BY <1>1, <1>2, <2>1, <2>2 DEF ReplayOK
  <1>5. DealtOK(r)'
    <2>1. ASSUME NEW e PROVE HandledOK(r, e)' = HandledOK(r, e) /\ Cause(r, e)' = Cause(r, e)
      BY <1>1 DEF HandledOK, Cause
    <2>2. DealtOK(r)
      BY DEF ReplayInv
    <2>3. QED BY <1>1, <2>1, <2>2 DEF DealtOK
  <1>6. RowsOK' /\ EffectsOK' /\ AuditsOK'
    BY <1>1 DEF ReplayInv, RowsOK, RepeatsTakeTwoReplays, Rows, EffectsOK, AuditsOK
  <1>7. QED BY <1>1, <1>2, <1>3, <1>4, <1>5, <1>6, OthersAreKept DEF ReplayInv

\* A replay starts with all it has selected before it; a listing is the latest there is.
LEMMA StartingKeepsReplayInv ==
  ASSUME PublishInv, ReplayInv, NEW r \in Replays, Start(r)
  PROVE  ReplayInv'
  <1>1. PICK o \in Operations[r] :
       /\ op' = [op EXCEPT ![r] = o]
       /\ IF o.name \in {"list_merchant", "list_aggregate"}
          THEN /\ \E s \in IF o.name = "list_merchant" THEN Listed(Selected(o), o.limit) ELSE {Selected(o)} :
                    chosen' = [chosen EXCEPT ![r] = s]
               /\ pc' = [pc EXCEPT ![r] = "done"]
               /\ UNCHANGED <<left, current, found>>
          ELSE /\ chosen' = [chosen EXCEPT ![r] = Selected(o)]
               /\ Turn(r, Selected(o))
    BY DEF Start
  <1>2. /\ pc[r] = "idle" /\ UNCHANGED domain_events
        /\ audits' = audits /\ made' = made /\ disputed' = disputed /\ synced' = synced
    BY DEF Start, effects, publishing
  <1>3. /\ chosen[r] = {} /\ left[r] = {} /\ current[r] = None /\ found[r] = <<>>
    BY <1>2 DEF ReplayInv, ReplayOK
  <1>4. \A by \in audits : by[1] # r
    BY <1>3 DEF ReplayInv, AuditsOK
  <1>5. Selected(o) \subseteq domain_events /\ Selected(o)' = Selected(o)
    BY <1>2 DEF Selected
  <1>6. /\ op'[r] = o /\ DOMAIN op' = Replays /\ DOMAIN chosen' = Replays
        /\ \A d \in Replays \ {r} : op'[d] = op[d] /\ chosen'[d] = chosen[d]
    BY <1>1 DEF ReplayInv
  <1>7. RowsGrow(r)
    BY <1>2 DEF RowsGrow, Alike
  <1>8. RowsOK'
    BY <1>2 DEF ReplayInv, RowsOK, RepeatsTakeTwoReplays, Rows
  <1>9. \A f \in domain_events : f.at \in Nat /\ f.type \in EventTypes
    <2>1. ASSUME NEW f \in domain_events PROVE f.at \in Nat /\ f.type \in EventTypes
      <3>1. PICK d \in Drafts : \A x \in Fields \ {"at", "kept"} : f[x] = d[x]
        BY DEF PublishInv, EventsOK, Known
      <3>2. QED BY <3>1, EventBusAssumption DEF Fields, PublishInv, EventsOK
    <2>2. QED BY <2>1
  <1>10. CASE o.name \in {"list_merchant", "list_aggregate"}
    <2>1. PICK s \in IF o.name = "list_merchant" THEN Listed(Selected(o), o.limit) ELSE {Selected(o)} :
            chosen' = [chosen EXCEPT ![r] = s]
      BY <1>1, <1>10
    <2>2. /\ pc' = [pc EXCEPT ![r] = "done"] /\ left' = left /\ current' = current /\ found' = found
      BY <1>1, <1>10
    <2>3. /\ chosen'[r] = s /\ pc'[r] = "done" /\ pc' \in [Replays -> {"idle", "handle", "done", "crashed"}]
          /\ \A d \in Replays \ {r} : pc'[d] = pc[d]
      BY <2>1, <2>2 DEF ReplayInv
    <2>4. s \subseteq Selected(o)
      BY <2>1 DEF Listed
    <2>5. o.name = "list_merchant" => \A e \in s, f \in Selected(o) \ s : ~(f.at > e.at)
      <3>1. o.name = "list_merchant" => \A e \in s, f \in Selected(o) \ s : e.at >= f.at
        BY <2>1 DEF Listed
      <3>2. QED BY <1>5, <1>9, <2>4, <3>1
    <2>6. ListingOK(r)'
      BY <1>2, <1>5, <1>6, <2>3, <2>5 DEF ListingOK, Selected
    <2>7. ReplayOK(r)'
      BY <1>2, <1>3, <1>5, <2>2, <2>3, <2>4, <2>6 DEF ReplayOK
    <2>8. DealtOK(r)'
      BY <1>2, <1>4, <1>6, <1>10 DEF DealtOK
    <2>9. AuditsOK' /\ EffectsOK'
      BY <1>2, <1>4, <1>6, <2>2 DEF ReplayInv, AuditsOK, EffectsOK
    <2>10. QED BY <1>2, <1>6, <1>7, <1>8, <2>2, <2>3, <2>7, <2>8, <2>9, OthersAreKept DEF ReplayInv
  <1>11. CASE o.name \notin {"list_merchant", "list_aggregate"}
    <2>1. Turn(r, Selected(o)) /\ chosen'[r] = Selected(o)
      BY <1>1, <1>11 DEF ReplayInv
    <2>2. /\ left'[r] = Selected(o) /\ found'[r] = <<>>
          /\ IF Selected(o) = {} THEN pc'[r] = "done" /\ current'[r] = None
             ELSE pc'[r] = "handle" /\ current'[r] \in Earliest(Selected(o))
          /\ \A d \in Replays \ {r} : /\ left'[d] = left[d] /\ found'[d] = found[d]
                                      /\ pc'[d] = pc[d] /\ current'[d] = current[d]
          /\ DOMAIN left' = Replays /\ DOMAIN found' = Replays /\ DOMAIN current' = Replays
          /\ pc' \in [Replays -> {"idle", "handle", "done", "crashed"}]
      BY <2>1, TurnIsOK DEF ReplayInv
    <2>3. ReplayOK(r)'
      BY <1>2, <1>5, <1>6, <1>11, <2>1, <2>2 DEF ReplayOK, ListingOK
    <2>4. pc'[r] = "handle" => LooksOK(r)'
      <3>1. pc'[r] = "handle" => current'[r] \in domain_events
        BY <1>5, <2>2 DEF Earliest
      <3>2. QED BY <1>9, <2>2, <3>1, NothingFound
    <2>5. DealtOK(r)'
      BY <2>1, <2>2 DEF DealtOK
    <2>6. AuditsOK' /\ EffectsOK'
      BY <1>2, <1>4, <1>6, <2>2 DEF ReplayInv, AuditsOK, EffectsOK
    <2>7. QED BY <1>2, <1>6, <1>7, <1>8, <2>2, <2>3, <2>4, <2>5, <2>6, OthersAreKept DEF ReplayInv
  <1>12. QED BY <1>10, <1>11

\* What others publish comes after what replays have selected.
LEMMA PublishingKeepsReplayInv ==
  ASSUME PublishInv, ReplayInv, UNCHANGED replaying,
         NEW new, domain_events' = domain_events \cup new, \A f \in new : f.kept = clock
  PROVE  ReplayInv'
  <1>1. /\ pc' = pc /\ op' = op /\ chosen' = chosen /\ left' = left /\ current' = current /\ found' = found
        /\ audits' = audits /\ made' = made /\ disputed' = disputed /\ synced' = synced
    BY DEF replaying, effects
  <1>2. ASSUME NEW r \in Replays PROVE ReplayOK(r)'
    <2>1. ReplayOK(r)
      BY DEF ReplayInv
    <2>2. ListingOK(r)'
      <3>1. SUFFICES ASSUME pc[r] = "done", op[r].name = "list_merchant", NEW e \in chosen[r],
                            NEW f \in Selected(op[r])' \ chosen[r], f.at > e.at, NEW g \in chosen[r]
                     PROVE  f.kept > g.kept
        BY <1>1 DEF ListingOK
      <3>2. CASE f \in domain_events
        <4>1. f \in Selected(op[r])
          BY <1>1, <3>1, <3>2 DEF Selected
        <4>2. QED BY <2>1, <3>1, <4>1 DEF ReplayOK, ListingOK
      <3>3. CASE f \notin domain_events
        <4>1. f.kept = clock
          BY <3>1, <3>3 DEF Selected
        <4>2. g.kept \in Nat /\ g.kept < clock /\ clock \in Nat
          BY <2>1 DEF ReplayOK, PublishInv, EventsOK
        <4>3. QED BY <4>1, <4>2
      <3>4. QED BY <3>2, <3>3
    <2>3. QED BY <1>1, <2>1, <2>2 DEF ReplayOK, Earliest
  <1>3. ASSUME NEW r \in Replays, pc'[r] = "handle" PROVE LooksOK(r)'
    <2>1. LooksOK(r) /\ \A merchant, look : Of(merchant, look)' = Of(merchant, look)
      BY <1>1, <1>3 DEF ReplayInv, Of
    <2>2. QED BY <1>1, <2>1 DEF LooksOK
  <1>4. ASSUME NEW r \in Replays PROVE DealtOK(r)'
    <2>1. ASSUME NEW e PROVE HandledOK(r, e)' = HandledOK(r, e) /\ Cause(r, e)' = Cause(r, e)
      BY <1>1 DEF HandledOK, Cause
    <2>2. DealtOK(r)
      BY DEF ReplayInv
    <2>3. QED BY <1>1, <2>1, <2>2 DEF DealtOK
  <1>5. AuditsOK' /\ RowsOK' /\ EffectsOK'
    BY <1>1 DEF ReplayInv, AuditsOK, RowsOK, RepeatsTakeTwoReplays, Rows, EffectsOK
  <1>6. QED BY <1>1, <1>2, <1>3, <1>4, <1>5 DEF ReplayInv

\* Every step keeps the invariant of the replays.
LEMMA NextKeepsReplayInv ==
  ASSUME PublishInv, ReplayInv, [Next]_vars
  PROVE  ReplayInv'
  <1>1. ASSUME UNCHANGED <<domain_events, replaying>>
        PROVE  ReplayInv'
    <2>1. PICK new : new = {}
      OBVIOUS
    <2>2. domain_events' = domain_events \cup new /\ \A f \in new : f.kept = clock
      BY <1>1, <2>1
    <2>3. QED BY <1>1, <2>2, PublishingKeepsReplayInv
  <1>2. ASSUME NEW c \in Callers, Commit(c)
        PROVE  ReplayInv'
    <2>1. PICK new : new = {[e EXCEPT !.kept = clock] : e \in flushed[c]}
      OBVIOUS
    <2>2. domain_events' = domain_events \cup new /\ UNCHANGED replaying
      BY <1>2, <2>1 DEF Commit
    <2>3. \A f \in new : f.kept = clock
      BY <2>1 DEF PublishInv, CallerOK, Known, Fields
    <2>4. QED BY <2>2, <2>3, PublishingKeepsReplayInv
  <1>3. ASSUME NEW c \in Callers, Begin(c) \/ Check(c) \/ Insert(c) \/ PublishToStream(c) \/ Rollback(c)
        PROVE  ReplayInv'
    BY <1>1, <1>3 DEF Begin, Check, Insert, PublishToStream, Rollback
  <1>4. CASE Manage \/ UNCHANGED vars
    BY <1>1, <1>4 DEF Manage, vars, publishing
  <1>5. QED BY <1>2, <1>3, <1>4, StartingKeepsReplayInv, LookingKeepsReplayInv, HandlingKeepsReplayInv,
            CrashKeepsReplayInv DEF Next

\* No replay has done anything at first.
LEMMA InitReplayInv ==
  ASSUME Init
  PROVE  ReplayInv
  <1>1. /\ pc = [r \in Replays |-> "idle"] /\ op = [r \in Replays |-> None]
        /\ chosen = [r \in Replays |-> {}] /\ left = [r \in Replays |-> {}]
        /\ current = [r \in Replays |-> None] /\ found = [r \in Replays |-> <<>>]
        /\ audits = {} /\ made = {} /\ disputed = {}
        /\ synced = [s \in Sources |-> [sync |-> None, success |-> None]]
    BY DEF Init
  <1>2. IsFiniteSet(audits) /\ IsFiniteSet(made)
    BY <1>1, FS_EmptySet
  <1>3. AuditsOK /\ RowsOK /\ EffectsOK
    BY <1>1, <1>2 DEF AuditsOK, RowsOK, RepeatsTakeTwoReplays, Rows, EffectsOK
  <1>4. \A r \in Replays : ReplayOK(r) /\ DealtOK(r)
    BY <1>1 DEF ReplayOK, ListingOK, DealtOK
  <1>5. QED BY <1>1, <1>3, <1>4 DEF ReplayInv

\* Events are read, handled and stored in the order in which they were written.
THEOREM EventsKeepTheirOrder == Spec => []EventsAreInOrder
  <1>1. Init => PublishInv /\ ReplayInv
    BY InitPublishInv, InitReplayInv
  <1>2. PublishInv /\ ReplayInv /\ [Next]_vars => PublishInv' /\ ReplayInv'
    BY NextKeepsPublishInv, NextKeepsReplayInv
  <1>3. PublishInv /\ ReplayInv => EventsAreInOrder
    <2>1. SUFFICES ASSUME PublishInv, ReplayInv PROVE EventsAreInOrder
      OBVIOUS
    <2>2. TypeOK
      <3>1. ASSUME NEW e \in domain_events PROVE e.type \in EventTypes /\ e.at <= e.kept /\ e.kept < clock
        <4>1. PICK d \in Drafts : \A x \in Fields \ {"at", "kept"} : e[x] = d[x]
          BY <2>1 DEF PublishInv, EventsOK, Known
        <4>2. QED BY <2>1, <4>1, EventBusAssumption DEF PublishInv, EventsOK, Fields
      <3>2. \A r \in Replays :
              /\ left[r] \subseteq chosen[r] /\ chosen[r] \subseteq domain_events
              /\ IF pc[r] = "handle" THEN current[r] \in left[r] ELSE current[r] = None
        BY <2>1 DEF ReplayInv, ReplayOK, Earliest
      <3>3. QED BY <2>1, <3>1, <3>2 DEF TypeOK, PublishInv, EventsOK, StreamOK, ReplayInv, RowsOK
    <2>3. ReplayedInOrder
      <3>1. SUFFICES ASSUME NEW r \in Replays, NEW e \in chosen[r], pc[r] = "handle", <<r, e.id>> \in audits
                     PROVE  e.at <= current[r].at
        BY DEF ReplayedInOrder
      <3>2. ReplayOK(r) /\ current[r] \in left[r]
        BY <2>1, <3>1 DEF ReplayInv, ReplayOK, Earliest
      <3>3. PICK f \in chosen[r] \ left[r] : f.id = e.id
        BY <2>1, <3>1 DEF ReplayInv, AuditsOK
      <3>4. f = e
        BY <2>1, <3>2, <3>3 DEF ReplayOK, PublishInv, EventsOK
      <3>5. QED BY <3>2, <3>3, <3>4 DEF ReplayOK
    <2>4. ListingsAreLatest
      BY <2>1 DEF ListingsAreLatest, ReplayInv, ReplayOK, ListingOK
    <2>5. QED BY <2>1, <2>2, <2>3, <2>4 DEF EventsAreInOrder, PublishInv, EventsOK
  <1>4. QED BY <1>1, <1>2, <1>3, PTL DEF Spec

------------------------------------------------------------------------------
(***************************************************************************)
(* Counts.                                                                 *)
(***************************************************************************)

\* What the invariant of the replays says of health rows and handled failures.
LEMMA CountFacts ==
  ASSUME ReplayInv, NEW s
  PROVE  /\ FailuresOf(s) \subseteq audits /\ IsFiniteSet(FailuresOf(s))
         /\ Health(s) \subseteq made /\ IsFiniteSet(Health(s))
         /\ \A row \in Health(s) : row.fail \in Nat /\ row.by \in audits
         /\ \A row, other \in Health(s) : row.by = other.by => row = other
  <1>1. FailuresOf(s) \subseteq audits /\ Health(s) \subseteq made
    BY DEF FailuresOf, Health
  <1>2. /\ IsFiniteSet(audits) /\ IsFiniteSet(made) /\ made \subseteq Row
        /\ \A row \in made : row.by \in audits
        /\ \A row, other \in made : row.table = other.table /\ row.by = other.by => row = other
    BY DEF ReplayInv, AuditsOK, RowsOK
  <1>3. IsFiniteSet(FailuresOf(s)) /\ IsFiniteSet(Health(s))
    BY <1>1, <1>2, FS_Subset
  <1>4. \A row \in Health(s) : row.fail \in Nat /\ row.table = "provider_health_metrics"
    BY <1>1, <1>2 DEF Row, Health
  <1>5. QED BY <1>1, <1>2, <1>3, <1>4

\* A step keeps the counts if it writes nothing and what a handler finds is there.
LEMMA ReadingKeepsCounts ==
  ASSUME ReplayInv, CountInv, audits' = audits, made' = made,
         \A by \in audits : chosen'[by[1]] = chosen[by[1]],
         \A s \in Sources : \A r \in Replays : Counting(r, s)' =>
            \/ Counting(r, s) /\ found'[r] = found[r]
            \/ found'[r][1] \in Health(s)
  PROVE  CountInv'
  <1>1. SUFFICES ASSUME NEW s \in Sources
                 PROVE  /\ \E to : DOMAIN to = FailuresOf(s)' /\ CountsOK(s, to)'
                        /\ \A r \in Replays : Counting(r, s)' /\ (\A by \in FailuresOf(s)' : by[1] = r) =>
                              found'[r][1] \in Health(s)'
    BY DEF CountInv
  <1>2. FailuresOf(s)' = FailuresOf(s) /\ Health(s)' = Health(s)
    BY DEF FailuresOf, Health
  <1>3. PICK to : DOMAIN to = FailuresOf(s) /\ CountsOK(s, to)
    BY DEF CountInv
  <1>4. ASSUME NEW r \in Replays, Counting(r, s)'
        PROVE  /\ found'[r][1].fail <= Cardinality(Share(to, found'[r][1].by))
               /\ (\A by \in FailuresOf(s) : by[1] = r) => found'[r][1] \in Health(s)
    BY <1>3, <1>4 DEF CountsOK, CountInv
  <1>5. CountsOK(s, to)'
    BY <1>2, <1>3, <1>4 DEF CountsOK
  <1>6. QED BY <1>2, <1>3, <1>4, <1>5

\* A handler that counts in the row it has found changes that row only.
LEMMA OneIsCounted ==
  ASSUME PublishInv, ReplayInv, NEW r \in Replays, pc[r] = "handle", NEW e, e = current[r],
         Len(found[r]) = Len(Looks(e))
  PROVE  \/ /\ Counted(r) = {}
            /\ ~(e.type = "transaction.updated" /\ e.failed /\ e.provider # None /\ found[r][1] # None)
         \/ /\ e.type = "transaction.updated" /\ e.failed /\ found[r] # <<>> /\ found[r][1] # None
            /\ \E row \in Health(<<e.merchant, e.provider>>) :
                 Alike(row, found[r][1]) /\ Counted(r) = {row}
  <1>1. e.type \in EventTypes
    BY CurrentIsNew
  <1>2. /\ found[r] \in Seq(Row \cup {None}) /\ LooksOK(r)
        /\ \A row, other \in made : row.table = other.table /\ row.by = other.by => row = other
    BY DEF ReplayInv, LooksOK, RowsOK
  <1>3. Len(found[r]) \in Nat /\ DOMAIN found[r] = 1..Len(found[r])
    BY <1>2
  <1>4. CASE e.type = "transaction.updated" /\ e.failed /\ e.provider # None
    <2>1. Looks(e) = <<HealthLook(e)>>
      BY <1>1, <1>4, HandlersAre DEF HealthOfToday, HealthLook
    <2>2. DOMAIN found[r] = {1} /\ found[r] # <<>>
      <3>1. Len(found[r]) = 1
        BY <2>1
      <3>2. DOMAIN found[r] = {1}
        BY <1>3, <3>1
      <3>3. DOMAIN <<>> = {}
        OBVIOUS
      <3>4. QED BY <3>2, <3>3
    <2>3. Failures(e) = 1
      BY <1>4 DEF Failures
    <2>4. CASE found[r][1] = None
      BY <2>2, <2>4 DEF Counted
    <2>5. CASE found[r][1] # None
      <3>1. PICK row \in Of(e.merchant, HealthLook(e)) : Alike(row, found[r][1])
        BY <1>2, <2>1, <2>2, <2>5 DEF LooksOK
      <3>2. row \in made /\ row \in Health(<<e.merchant, e.provider>>)
        BY <3>1 DEF Of, Health, HealthLook
      <3>3. Counted(r) = {other \in made : other.table = found[r][1].table /\ other.by = found[r][1].by}
        BY <2>2, <2>3, <2>5 DEF Counted
      <3>4. Counted(r) = {row}
        BY <1>2, <3>1, <3>2, <3>3 DEF Alike
      <3>5. QED BY <1>4, <2>2, <2>5, <3>1, <3>2, <3>4
    <2>6. QED BY <2>4, <2>5
  <1>5. CASE ~(e.type = "transaction.updated" /\ e.failed /\ e.provider # None)
    <2>1. Failures(e) = 1 => DOMAIN found[r] = {}
      <3>1. SUFFICES ASSUME Failures(e) = 1 PROVE DOMAIN found[r] = {}
        OBVIOUS
      <3>2. e.type = "transaction.updated"
        BY <3>1 DEF Failures
      <3>3. Looks(e) = <<>>
        <4>1. Looks(e) = IF e.failed THEN HealthOfToday(e.provider) ELSE <<>>
          BY <1>1, <3>2, HandlersAre
        <4>2. CASE e.failed
          <5>1. e.provider = None
            BY <1>5, <3>2, <4>2
          <5>2. QED BY <4>1, <4>2, <5>1 DEF HealthOfToday
        <4>3. CASE ~e.failed
          BY <4>1, <4>3
        <4>4. QED BY <4>2, <4>3
      <3>4. QED BY <1>3, <3>3
    <2>2. Counted(r) = {}
      BY <2>1 DEF Counted
    <2>3. QED BY <1>5, <2>2
  <1>6. QED BY <1>4, <1>5

\* Health rows that a handling inserts are of its event's provider and count its failure.
LEMMA NewHealthRows ==
  ASSUME PublishInv, ReplayInv, NEW r \in Replays, pc[r] = "handle", NEW e, e = current[r],
         NEW row \in NewRows(r), row.table = "provider_health_metrics"
  PROVE  /\ row.by = <<r, e.id>> /\ <<row.merchant, row.key>> = <<e.merchant, e.provider>>
         /\ row.fail = Failures(e) /\ found[r][1] = None
         /\ e.type = "transaction.updated" => e.failed
  <1>1. e.type \in EventTypes
    BY CurrentIsNew
  <1>2. row.by = <<r, e.id>> /\ row.merchant = e.merchant
    BY NewRowsAreOwn
  <1>3. row.table \notin Inserts(e)
    BY <1>1, HandlersAre
  <1>4. PICK i \in DOMAIN found[r] :
          found[r][i] = None /\ row = Inserted(r, Looks(e)[i].table, Looks(e)[i].key, Failures(e))
    BY <1>3 DEF NewRows, Inserted
  <1>5. Looks(e)[i].table = "provider_health_metrics" /\ row.key = Looks(e)[i].key /\ row.fail = Failures(e)
    BY <1>4 DEF Inserted
  <1>6. i \in DOMAIN Looks(e)
    <2>1. found[r] \in Seq(Row \cup {None}) /\ Len(found[r]) <= Len(Looks(e))
      BY DEF ReplayInv, LooksOK
    <2>2. Len(Looks(e)) \in Nat /\ DOMAIN Looks(e) = 1..Len(Looks(e))
      BY <1>1, LooksAre
    <2>3. QED BY <2>1, <2>2
  <1>7. PICK look : look = Looks(e)[i]
    OBVIOUS
  <1>8. i = 1 /\ look = HealthLook(e)
    <2>1. \/ i = 1 /\ look = HealthLook(e)
          \/ i = 1 /\ look = SettlementLook(e)
          \/ i = 2 /\ look = RiskLook
      BY <1>1, <1>6, <1>7, LooksAre
    <2>2. look.table = "provider_health_metrics"
      BY <1>5, <1>7
    <2>3. QED BY <2>1, <2>2 DEF SettlementLook, RiskLook
  <1>9. look.key = e.provider
    BY <1>8 DEF HealthLook
  <1>10. e.type = "transaction.updated" => e.failed
    <2>1. SUFFICES ASSUME e.type = "transaction.updated", ~e.failed PROVE FALSE
      OBVIOUS
    <2>2. Looks(e) = IF e.failed THEN HealthOfToday(e.provider) ELSE <<>>
      BY <1>1, <2>1, HandlersAre
    <2>3. Looks(e) = <<>>
      BY <2>1, <2>2
    <2>4. QED BY <1>6, <2>3
  <1>11. QED BY <1>2, <1>4, <1>5, <1>7, <1>8, <1>9, <1>10

\* A new handling is attributed to x: its share grows by one, and no other share changes.
LEMMA OneMoreShare ==
  ASSUME NEW F, IsFiniteSet(F), NEW to, DOMAIN to = F, NEW h, h \notin F, NEW x,
         NEW more, DOMAIN more = F \cup {h}, more[h] = x, \A by \in F : more[by] = to[by]
  PROVE  /\ Cardinality(Share(more, x)) = Cardinality(Share(to, x)) + 1
         /\ \A y : y # x => Share(more, y) = Share(to, y)
         /\ \A y : Cardinality(Share(to, y)) \in Nat /\ Cardinality(Share(to, y)) <= Cardinality(Share(more, y))
  <1>1. Share(more, x) = Share(to, x) \cup {h} /\ h \notin Share(to, x)
    BY DEF Share
  <1>2. \A y : y # x => Share(more, y) = Share(to, y)
    BY DEF Share
  <1>3. ASSUME NEW y PROVE IsFiniteSet(Share(to, y)) /\ Cardinality(Share(to, y)) \in Nat
    <2>1. Share(to, y) \subseteq F
      BY DEF Share
    <2>2. QED BY <2>1, FS_Subset, FS_CardinalityType
  <1>4. Cardinality(Share(more, x)) = Cardinality(Share(to, x)) + 1
    BY <1>1, <1>3, FS_AddElement
  <1>5. \A y : Cardinality(Share(to, y)) <= Cardinality(Share(more, y))
    BY <1>2, <1>3, <1>4
  <1>6. QED BY <1>2, <1>3, <1>4, <1>5

\* A handling that is written keeps the counts: a failure adds one to a count, that of the
\* row it inserts, or finds, and nothing else changes one.
LEMMA WritingKeepsCounts ==
  ASSUME PublishInv, ReplayInv, CountInv, NEW r \in Replays, pc[r] = "handle", NEW e, e = current[r],
         WrittenBy(r, e), Len(found[r]) = Len(Looks(e)), chosen' = chosen, found'[r] = <<>>,
         \A d \in Replays \ {r} : pc'[d] = pc[d] /\ current'[d] = current[d] /\ found'[d] = found[d],
         NEW s \in Sources
  PROVE  /\ \E to : DOMAIN to = FailuresOf(s)' /\ CountsOK(s, to)'
         /\ \A d \in Replays : Counting(d, s)' /\ (\A by \in FailuresOf(s)' : by[1] = d) =>
               found'[d][1] \in Health(s)'
  <1>1. PICK new : new = <<r, e.id>>
    OBVIOUS
  <1>2. PICK F : F = FailuresOf(s)
    OBVIOUS
  <1>3. PICK H : H = Health(s)
    OBVIOUS
  <1>4. /\ new \notin audits /\ audits' = audits \cup {new} /\ new[1] = r
        /\ made' = (made \ Counted(r)) \cup {[row EXCEPT !.fail = found[r][1].fail + 1] : row \in Counted(r)} \cup NewRows(r)
    BY <1>1, CurrentIsNew DEF WrittenBy, Recount
  <1>5. /\ F \subseteq audits /\ IsFiniteSet(F) /\ H \subseteq made /\ new \notin F
        /\ \A row \in H : row.fail \in Nat /\ row.by \in audits
        /\ \A row, other \in H : row.by = other.by => row = other
    BY <1>2, <1>3, <1>4, CountFacts
  <1>6. FailuresOf(s)' = F \cup (IF FailedOf(e, s) THEN {new} ELSE {})
    <2>1. e \in chosen[r] /\ \A f \in chosen[r] : f.id = e.id => f = e
      BY CurrentIsNew
    <2>2. FailuresOf(s)' = {by \in audits \cup {new} : \E f \in chosen[by[1]] : f.id = by[2] /\ FailedOf(f, s)}
      BY <1>4 DEF FailuresOf
    <2>3. (\E f \in chosen[new[1]] : f.id = new[2] /\ FailedOf(f, s)) <=> FailedOf(e, s)
      BY <1>1, <2>1
    <2>4. QED BY <1>2, <2>2, <2>3 DEF FailuresOf
  <1>7. ASSUME NEW d \in Replays, Counting(d, s)'
        PROVE  d # r /\ Counting(d, s) /\ found'[d] = found[d]
    BY <1>7 DEF Counting
  <1>8. PICK to : DOMAIN to = F /\ CountsOK(s, to)
    BY <1>2 DEF CountInv
  <1>9. /\ \A by \in F : \E row \in H : row.by = to[by]
        /\ \A row \in H : row.fail <= Cardinality(Share(to, row.by))
        /\ \A d \in Replays : Counting(d, s) => found[d][1].fail <= Cardinality(Share(to, found[d][1].by))
        /\ (\A by, other \in F : by[1] = other[1]) => \A row \in H : row.fail = Cardinality(Share(to, row.by))
    BY <1>2, <1>3, <1>8 DEF CountsOK
  <1>10. \A x : Cardinality(Share(to, x)) \in Nat
    <2>1. \A x : Share(to, x) \subseteq F
      BY <1>8 DEF Share
    <2>2. QED BY <1>5, <2>1, FS_Subset, FS_CardinalityType
  <1>11. PICK N : N = {row \in NewRows(r) : row.table = "provider_health_metrics" /\ <<row.merchant, row.key>> = s}
    OBVIOUS
  <1>12. \A row \in N : /\ row.by = new /\ <<e.merchant, e.provider>> = s /\ row.fail = Failures(e)
                         /\ found[r][1] = None /\ (e.type = "transaction.updated" => e.failed)
    BY <1>1, <1>11, NewHealthRows
  <1>13. CASE ~FailedOf(e, s)
    <2>1. FailuresOf(s)' = F
      BY <1>6, <1>13
    <2>2. Counted(r) \cap H = {}
      <3>1. CASE Counted(r) = {}
        BY <3>1
      <3>2. ASSUME e.type = "transaction.updated", e.failed,
                   NEW row \in Health(<<e.merchant, e.provider>>), Counted(r) = {row}
            PROVE  row \notin H
        <4>1. <<e.merchant, e.provider>> # s
          BY <1>13, <3>2 DEF FailedOf
        <4>2. QED BY <1>3, <4>1 DEF Health
      <3>3. QED BY <3>1, <3>2, OneIsCounted
    <2>3. ASSUME NEW row \in Counted(r)
          PROVE  [row EXCEPT !.fail = found[r][1].fail + 1] \notin Health(s)'
      <3>1. row \in made /\ made \subseteq Row
        BY DEF Counted, ReplayInv, RowsOK
      <3>2. row \notin H
        BY <2>2
      <3>3. PICK other : other = [row EXCEPT !.fail = found[r][1].fail + 1]
        OBVIOUS
      <3>4. other.table = row.table /\ other.merchant = row.merchant /\ other.key = row.key
        BY <3>1, <3>3 DEF Row
      <3>5. QED BY <1>3, <3>1, <3>2, <3>3, <3>4 DEF Health
    <2>4. Health(s)' = H \cup N
      <3>1. ASSUME NEW row \in Health(s)' PROVE row \in H \cup N
        <4>1. row \in made' /\ row.table = "provider_health_metrics" /\ <<row.merchant, row.key>> = s
          BY DEF Health
        <4>2. row \notin {[other EXCEPT !.fail = found[r][1].fail + 1] : other \in Counted(r)}
          BY <2>3
        <4>3. CASE row \in made
          BY <1>3, <4>1, <4>3 DEF Health
        <4>4. CASE row \in NewRows(r)
          BY <1>11, <4>1, <4>4
        <4>5. QED BY <1>4, <4>1, <4>2, <4>3, <4>4
      <3>2. \A row \in H : row \in Health(s)'
        BY <1>3, <1>4, <2>2 DEF Health
      <3>3. \A row \in N : row \in Health(s)'
        BY <1>4, <1>11 DEF Health
      <3>4. QED BY <3>1, <3>2, <3>3
    <2>5. \A row \in N : row.fail = 0
      <3>1. ASSUME NEW row \in N PROVE row.fail = 0
        <4>1. e.type # "transaction.updated"
          BY <1>12, <1>13 DEF FailedOf
        <4>2. QED BY <1>12, <4>1 DEF Failures
      <3>2. QED BY <3>1
    <2>6. \A row \in N : Share(to, row.by) = {} /\ Cardinality(Share(to, row.by)) = 0
      <3>1. \A by \in F : to[by] # new
        BY <1>4, <1>5, <1>9
      <3>2. Share(to, new) = {}
        BY <1>8, <3>1 DEF Share
      <3>3. QED BY <1>12, <3>2, FS_EmptySet
    <2>7. CountsOK(s, to)'
      <3>1. \A by \in F : \E row \in H \cup N : row.by = to[by]
        BY <1>9
      <3>2. \A row \in H \cup N : row.fail <= Cardinality(Share(to, row.by))
        BY <1>9, <2>5, <2>6
      <3>3. \A d \in Replays : Counting(d, s)' => found'[d][1].fail <= Cardinality(Share(to, found'[d][1].by))
        BY <1>7, <1>9
      <3>4. (\A by, other \in F : by[1] = other[1]) =>
              \A row \in H \cup N : row.fail = Cardinality(Share(to, row.by))
        BY <1>9, <2>5, <2>6
      <3>5. QED BY <2>1, <2>4, <3>1, <3>2, <3>3, <3>4 DEF CountsOK
    <2>8. \A d \in Replays : Counting(d, s)' /\ (\A by \in F : by[1] = d) => found'[d][1] \in H \cup N
      BY <1>2, <1>3, <1>7 DEF CountInv
    <2>9. QED BY <1>8, <2>1, <2>4, <2>7, <2>8
  <1>14. CASE FailedOf(e, s)
    <2>1. /\ FailuresOf(s)' = F \cup {new} /\ s = <<e.merchant, e.provider>> /\ Failures(e) = 1
          /\ e.type = "transaction.updated" /\ e.failed /\ e.provider # None /\ e.type \in EventTypes
      BY <1>6, <1>14, EventBusAssumption DEF FailedOf, Failures, EventTypes
    <2>2. Looks(e) = <<HealthLook(e)>>
      BY <2>1, HandlersAre DEF HealthOfToday, HealthLook
    <2>3. found[r] \in Seq(Row \cup {None}) /\ DOMAIN found[r] = {1}
      <3>1. found[r] \in Seq(Row \cup {None}) /\ Len(found[r]) = 1
        BY <2>2 DEF ReplayInv, LooksOK
      <3>2. QED BY <3>1
    <2>4. \A d \in Replays : ~(Counting(d, s)' /\ \A by \in F \cup {new} : by[1] = d)
      BY <1>4, <1>7
    <2>5. (\A by, other \in F \cup {new} : by[1] = other[1]) => \A by \in F : by[1] = r
      BY <1>4
    <2>6. ASSUME NEW d \in Replays, Counting(d, s) PROVE found[d][1].fail \in Nat
      <3>1. pc[d] = "handle" /\ found[d] # <<>> /\ found[d][1] # None
        BY <2>6 DEF Counting
      <3>2. found[d] \in Seq(Row \cup {None})
        BY <3>1 DEF ReplayInv, LooksOK
      <3>3. found[d][1] \in Row
        BY <3>1, <3>2
      <3>4. QED BY <3>3 DEF Row
    <2>7. CASE found[r][1] = None
      <3>1. Counted(r) = {}
        BY <2>7, OneIsCounted
      <3>2. PICK row \in NewRows(r) :
              /\ row.table = "provider_health_metrics" /\ row.key = e.provider /\ row.merchant = e.merchant
              /\ \A other \in NewRows(r) : other.table = row.table => other = row
        BY <2>2, <2>3, <2>7, NewRowsAreOwn DEF HealthLook
      <3>3. N = {row} /\ row.by = new /\ row.fail = 1
        BY <1>11, <1>12, <2>1, <3>2
      <3>4. Health(s)' = H \cup {row}
        BY <1>3, <1>4, <1>11, <3>1, <3>3 DEF Health
      <3>5. PICK more : more = [by \in F \cup {new} |-> IF by = new THEN new ELSE to[by]]
        OBVIOUS
      <3>6. /\ Cardinality(Share(more, new)) = Cardinality(Share(to, new)) + 1
            /\ \A y : y # new => Share(more, y) = Share(to, y)
            /\ \A y : Cardinality(Share(to, y)) \in Nat /\ Cardinality(Share(to, y)) <= Cardinality(Share(more, y))
        <4>1. /\ DOMAIN more = F \cup {new} /\ more[new] = new /\ \A by \in F : more[by] = to[by]
              /\ IsFiniteSet(F) /\ DOMAIN to = F /\ new \notin F
          BY <1>5, <1>8, <3>5
        <4>2. QED BY ONLY <4>1, OneMoreShare
      <3>7. Cardinality(Share(to, new)) = 0
        <4>1. \A by \in F : to[by] # new
          BY <1>4, <1>5, <1>9
        <4>2. Share(to, new) = {}
          BY <1>8, <4>1 DEF Share
        <4>3. QED BY <4>2, FS_EmptySet
      <3>8. \A other \in H : other.by # new
        BY <1>4, <1>5
      <3>9. DOMAIN more = F \cup {new} /\ \A by \in F \cup {new} : \E other \in H \cup {row} : other.by = more[by]
        BY <1>9, <3>3, <3>5
      <3>10. \A other \in H \cup {row} : other.fail <= Cardinality(Share(more, other.by))
        BY <1>9, <3>3, <3>6, <3>7, <3>8
      <3>11. \A d \in Replays : Counting(d, s)' =>
               found'[d][1].fail <= Cardinality(Share(more, found'[d][1].by))
        <4>1. SUFFICES ASSUME NEW d \in Replays, Counting(d, s)'
                       PROVE  found[d][1].fail <= Cardinality(Share(more, found[d][1].by))
          BY <1>7
        <4>2. PICK m, n, k : /\ m = found[d][1].fail /\ n = Cardinality(Share(to, found[d][1].by))
                             /\ k = Cardinality(Share(more, found[d][1].by))
          OBVIOUS
        <4>3. m \in Nat /\ n \in Nat /\ m <= n /\ n <= k
          BY <1>7, <1>9, <2>6, <3>6, <4>1, <4>2
        <4>4. k \in Nat
          <5>1. Share(more, found[d][1].by) \subseteq F \cup {new}
            BY <3>9 DEF Share
          <5>2. QED BY <1>5, <4>2, <5>1, FS_AddElement, FS_Subset, FS_CardinalityType
        <4>5. QED BY <4>2, <4>3, <4>4
      <3>12. (\A by, other \in F \cup {new} : by[1] = other[1]) =>
               \A other \in H \cup {row} : other.fail = Cardinality(Share(more, other.by))
        BY <1>9, <3>3, <3>6, <3>7, <3>8
      <3>13. CountsOK(s, more)'
        BY <2>1, <3>4, <3>9, <3>10, <3>11, <3>12 DEF CountsOK
      <3>14. QED BY <2>1, <2>4, <3>9, <3>13
    <2>8. CASE found[r][1] # None
      <3>1. PICK row \in H : Alike(row, found[r][1]) /\ Counted(r) = {row}
        BY <1>3, <2>1, <2>8, OneIsCounted
      <3>2. N = {}
        BY <1>12, <2>8
      <3>3. PICK count : count = found[r][1].fail
        OBVIOUS
      <3>4. PICK one : one = [row EXCEPT !.fail = count + 1]
        OBVIOUS
      <3>5. Counting(r, s) /\ count \in Nat
        BY <1>14, <2>3, <2>6, <2>8, <3>3 DEF Counting
      <3>6. /\ one.table = row.table /\ one.merchant = row.merchant /\ one.key = row.key
            /\ one.by = row.by /\ one.fail = count + 1
        <4>1. row \in Row
          BY <1>5 DEF ReplayInv, RowsOK
        <4>2. QED BY <3>4, <4>1 DEF Row
      <3>7. Health(s)' = (H \ {row}) \cup {one}
        <4>1. made' = (made \ {row}) \cup {one} \cup NewRows(r)
          BY <1>4, <3>1, <3>3, <3>4
        <4>2. one.table = "provider_health_metrics" /\ <<one.merchant, one.key>> = s
          BY <1>3, <3>6 DEF Health
        <4>3. QED BY <1>3, <1>11, <3>2, <4>1, <4>2 DEF Health
      <3>8. PICK more : more = [by \in F \cup {new} |-> IF by = new THEN row.by ELSE to[by]]
        OBVIOUS
      <3>9. /\ Cardinality(Share(more, row.by)) = Cardinality(Share(to, row.by)) + 1
            /\ \A y : y # row.by => Share(more, y) = Share(to, y)
            /\ \A y : Cardinality(Share(to, y)) \in Nat /\ Cardinality(Share(to, y)) <= Cardinality(Share(more, y))
        <4>1. /\ DOMAIN more = F \cup {new} /\ more[new] = row.by /\ \A by \in F : more[by] = to[by]
              /\ IsFiniteSet(F) /\ DOMAIN to = F /\ new \notin F
          BY <1>5, <1>8, <3>8
        <4>2. QED BY ONLY <4>1, OneMoreShare
      <3>10. \A other \in H \ {row} : other.by # row.by
        BY <1>5
      <3>11. DOMAIN more = F \cup {new} /\ \A by \in F \cup {new} : \E other \in (H \ {row}) \cup {one} : other.by = more[by]
        BY <1>9, <3>6, <3>8
      <3>12. count <= Cardinality(Share(to, row.by)) /\ Cardinality(Share(to, row.by)) \in Nat
        BY <1>9, <3>1, <3>3, <3>5, <3>9 DEF Alike
      <3>13. \A other \in (H \ {row}) \cup {one} : other.fail <= Cardinality(Share(more, other.by))
        BY <1>9, <3>5, <3>6, <3>9, <3>10, <3>12
      <3>14. \A d \in Replays : Counting(d, s)' =>
               found'[d][1].fail <= Cardinality(Share(more, found'[d][1].by))
        <4>1. SUFFICES ASSUME NEW d \in Replays, Counting(d, s)'
                       PROVE  found[d][1].fail <= Cardinality(Share(more, found[d][1].by))
          BY <1>7
        <4>2. PICK m, n, k : /\ m = found[d][1].fail /\ n = Cardinality(Share(to, found[d][1].by))
                             /\ k = Cardinality(Share(more, found[d][1].by))
          OBVIOUS
        <4>3. m \in Nat /\ n \in Nat /\ m <= n /\ n <= k
          BY <1>7, <1>9, <2>6, <3>9, <4>1, <4>2
        <4>4. k \in Nat
          <5>1. Share(more, found[d][1].by) \subseteq F \cup {new}
            BY <3>11 DEF Share
          <5>2. QED BY <1>5, <4>2, <5>1, FS_AddElement, FS_Subset, FS_CardinalityType
        <4>5. QED BY <4>2, <4>3, <4>4
      <3>15. ASSUME \A by, other \in F \cup {new} : by[1] = other[1]
             PROVE  \A other \in (H \ {row}) \cup {one} : other.fail = Cardinality(Share(more, other.by))
        <4>1. \A other \in H : other.fail = Cardinality(Share(to, other.by))
          BY <1>9, <3>15
        <4>2. found[r][1] \in H
          BY <1>2, <1>3, <2>5, <3>5, <3>15 DEF CountInv
        <4>3. found[r][1] = row
          BY <1>5, <3>1, <4>2 DEF Alike
        <4>4. count = Cardinality(Share(to, row.by))
          BY <3>3, <4>1, <4>3
        <4>5. QED BY <3>6, <3>9, <3>10, <4>1, <4>4
      <3>16. CountsOK(s, more)'
        BY <2>1, <3>7, <3>11, <3>13, <3>14, <3>15 DEF CountsOK
      <3>17. QED BY <2>1, <2>4, <3>11, <3>16
    <2>9. QED BY <2>7, <2>8
  <1>15. QED BY <1>13, <1>14

\* Each step keeps the invariant of the counts.
LEMMA LookingKeepsCounts ==
  ASSUME PublishInv, ReplayInv, CountInv, NEW r \in Replays, Look(r)
  PROVE  CountInv'
  <1>1. PICK e : e = current[r]
    OBVIOUS
  <1>2. PICK row \in IF Of(e.merchant, Looks(e)[Len(found[r]) + 1]) = {} THEN {None}
                     ELSE Of(e.merchant, Looks(e)[Len(found[r]) + 1]) :
          found' = [found EXCEPT ![r] = Append(@, row)]
    BY <1>1 DEF Look
  <1>3. /\ pc[r] = "handle" /\ Len(found[r]) < Len(Looks(e)) /\ e.type \in EventTypes
        /\ UNCHANGED <<pc, chosen, current>> /\ audits' = audits /\ made' = made
        /\ found[r] \in Seq(Row \cup {None})
    BY <1>1, CurrentIsNew DEF Look, effects, ReplayInv, LooksOK
  <1>4. /\ found'[r] = Append(found[r], row) /\ \A d \in Replays \ {r} : found'[d] = found[d]
    BY <1>2 DEF ReplayInv
  <1>5. ASSUME NEW s \in Sources, NEW d \in Replays, Counting(d, s)'
        PROVE  (Counting(d, s) /\ found'[d] = found[d]) \/ found'[d][1] \in Health(s)
    <2>1. CASE d # r
      BY <1>3, <1>4, <1>5, <2>1 DEF Counting
    <2>2. CASE d = r
      <3>1. FailedOf(e, s) /\ found'[r][1] # None
        BY <1>1, <1>3, <1>5, <2>2 DEF Counting
      <3>2. e.type = "transaction.updated" /\ e.failed /\ <<e.merchant, e.provider>> = s /\ e.provider # None
        BY <3>1, EventBusAssumption DEF FailedOf
      <3>3. Looks(e) = <<HealthLook(e)>>
        BY <1>3, <3>2, HandlersAre DEF HealthOfToday, HealthLook
      <3>4. Len(found[r]) = 0
        BY <1>3, <3>3
      <3>5. found'[r][1] = row
        BY <1>3, <1>4, <3>4
      <3>6. Looks(e)[Len(found[r]) + 1] = HealthLook(e)
        BY <3>3, <3>4
      <3>7. row \in Of(e.merchant, HealthLook(e))
        BY <1>2, <3>1, <3>5, <3>6
      <3>8. row \in Health(s)
        BY <3>2, <3>7 DEF Of, Health, HealthLook
      <3>9. QED BY <2>2, <3>5, <3>8
    <2>3. QED BY <2>1, <2>2
  <1>6. QED BY <1>3, <1>5, ReadingKeepsCounts

LEMMA StartingKeepsCounts ==
  ASSUME ReplayInv, CountInv, NEW r \in Replays, Start(r)
  PROVE  CountInv'
  <1>1. PICK o \in Operations[r] :
       /\ op' = [op EXCEPT ![r] = o]
       /\ IF o.name \in {"list_merchant", "list_aggregate"}
          THEN /\ \E s \in IF o.name = "list_merchant" THEN Listed(Selected(o), o.limit) ELSE {Selected(o)} :
                    chosen' = [chosen EXCEPT ![r] = s]
               /\ pc' = [pc EXCEPT ![r] = "done"]
               /\ UNCHANGED <<left, current, found>>
          ELSE /\ chosen' = [chosen EXCEPT ![r] = Selected(o)]
               /\ Turn(r, Selected(o))
    BY DEF Start
  <1>2. /\ audits' = audits /\ made' = made /\ pc[r] = "idle"
        /\ chosen[r] = {} /\ found[r] = <<>>
    BY DEF Start, effects, ReplayInv, ReplayOK
  <1>3. \A by \in audits : by[1] \in Replays /\ by[1] # r
    BY <1>2 DEF ReplayInv, AuditsOK
  <1>4. PICK s : chosen' = [chosen EXCEPT ![r] = s]
    BY <1>1
  <1>5. \A by \in audits : chosen'[by[1]] = chosen[by[1]]
    BY <1>3, <1>4 DEF ReplayInv
  <1>6. /\ found'[r] = <<>>
        /\ \A d \in Replays \ {r} : found'[d] = found[d] /\ pc'[d] = pc[d] /\ current'[d] = current[d]
    <2>1. CASE o.name \in {"list_merchant", "list_aggregate"}
      BY <1>1, <1>2, <2>1 DEF ReplayInv
    <2>2. CASE o.name \notin {"list_merchant", "list_aggregate"}
      BY <1>1, <2>2, TurnIsOK DEF ReplayInv
    <2>3. QED BY <2>1, <2>2
  <1>7. \A d \in Replays : \A source \in Sources : Counting(d, source)' => Counting(d, source) /\ found'[d] = found[d]
    BY <1>6 DEF Counting
  <1>8. QED BY <1>2, <1>5, <1>7, ReadingKeepsCounts

LEMMA HandlingKeepsCounts ==
  ASSUME PublishInv, ReplayInv, CountInv, NEW r \in Replays, handle_event(r)
  PROVE  CountInv'
  <1>1. PICK e : e = current[r]
    OBVIOUS
  <1>2. /\ pc[r] = "handle" /\ Len(found[r]) = Len(Looks(e)) /\ Write(r) /\ Turn(r, Rest(r))
        /\ chosen' = chosen
    BY <1>1 DEF handle_event
  <1>3. /\ found'[r] = <<>>
        /\ \A d \in Replays \ {r} : found'[d] = found[d] /\ pc'[d] = pc[d] /\ current'[d] = current[d]
    BY <1>2, TurnIsOK DEF ReplayInv
  <1>4. CASE \E row \in NewRows(r) : Refused(r, row)
    <2>1. audits' = audits /\ made' = made
      BY <1>2, <1>4 DEF Write, effects
    <2>2. \A d \in Replays : \A s \in Sources : Counting(d, s)' => Counting(d, s) /\ found'[d] = found[d]
      BY <1>3 DEF Counting
    <2>3. QED BY <1>2, <2>1, <2>2, ReadingKeepsCounts
  <1>5. CASE ~\E row \in NewRows(r) : Refused(r, row)
    <2>1. WrittenBy(r, e)
      BY <1>1, <1>2, <1>5 DEF Write, WrittenBy
    <2>2. QED BY <1>1, <1>2, <1>3, <2>1, WritingKeepsCounts DEF CountInv
  <1>6. QED BY <1>4, <1>5

LEMMA NextKeepsCounts ==
  ASSUME PublishInv, ReplayInv, CountInv, [Next]_vars
  PROVE  CountInv'
  <1>1. ASSUME UNCHANGED replaying
        PROVE  CountInv'
    <2>1. /\ pc' = pc /\ chosen' = chosen /\ current' = current /\ found' = found /\ audits' = audits /\ made' = made
      BY <1>1 DEF replaying, effects
    <2>2. \A d \in Replays : \A s \in Sources : Counting(d, s)' => Counting(d, s) /\ found'[d] = found[d]
      BY <2>1 DEF Counting
    <2>3. QED BY <2>1, <2>2, ReadingKeepsCounts
  <1>2. ASSUME NEW r \in Replays, Crash(r)
        PROVE  CountInv'
    <2>1. /\ chosen' = chosen /\ audits' = audits /\ made' = made /\ found'[r] = <<>>
          /\ \A d \in Replays \ {r} : found'[d] = found[d] /\ pc'[d] = pc[d] /\ current'[d] = current[d]
      BY <1>2 DEF Crash, effects, ReplayInv
    <2>2. \A d \in Replays : \A s \in Sources : Counting(d, s)' => Counting(d, s) /\ found'[d] = found[d]
      BY <2>1 DEF Counting
    <2>3. QED BY <2>1, <2>2, ReadingKeepsCounts
  <1>3. CASE \E c \in Callers : Begin(c) \/ Check(c) \/ Insert(c) \/ PublishToStream(c) \/ Commit(c) \/ Rollback(c)
    BY <1>1, <1>3 DEF Begin, Check, Insert, PublishToStream, Commit, Rollback
  <1>4. CASE Manage \/ UNCHANGED vars
    BY <1>1, <1>4 DEF Manage, vars
  <1>5. QED BY <1>2, <1>3, <1>4, StartingKeepsCounts, LookingKeepsCounts, HandlingKeepsCounts DEF Next

LEMMA InitCounts ==
  ASSUME Init
  PROVE  CountInv
  <1>1. SUFFICES ASSUME NEW s \in Sources
                 PROVE  /\ \E to : DOMAIN to = FailuresOf(s) /\ CountsOK(s, to)
                        /\ \A r \in Replays : ~Counting(r, s)
    BY DEF CountInv
  <1>2. FailuresOf(s) = {} /\ Health(s) = {} /\ \A r \in Replays : ~Counting(r, s)
    BY DEF Init, FailuresOf, Health, Counting
  <1>3. PICK to : DOMAIN to = {}
    <2>1. DOMAIN [x \in {} |-> x] = {}
      OBVIOUS
    <2>2. QED BY <2>1
  <1>4. CountsOK(s, to)
    BY <1>2, <1>3 DEF CountsOK
  <1>5. QED BY <1>2, <1>3, <1>4

------------------------------------------------------------------------------
(***************************************************************************)
(* What replays did is what their audit rows say.                          *)
(***************************************************************************)

\* The event of an audit row is the one that was handled.
LEMMA EventOfAudit ==
  ASSUME PublishInv, ReplayInv, NEW by \in audits
  PROVE  \E e \in chosen[by[1]] \ left[by[1]] :
           /\ e = Event(by[2]) /\ e.id = by[2] /\ by = <<by[1], e.id>> /\ by[1] \in Replays
           /\ \A f \in chosen[by[1]] : f.id = by[2] => f = e
  <1>1. PICK e \in chosen[by[1]] \ left[by[1]] : e.id = by[2]
    BY DEF ReplayInv, AuditsOK
  <1>2. by \in Replays \X Ids
    BY DEF ReplayInv, AuditsOK
  <1>3. by[1] \in Replays /\ by = <<by[1], by[2]>>
    BY <1>2
  <1>4. \A r \in Replays : \A f \in chosen[r] : f.id = e.id => f = e
    BY <1>1, <1>3 DEF ReplayInv, ReplayOK, PublishInv, EventsOK
  <1>5. PICK all : all = UNION {chosen[r] : r \in Replays}
    OBVIOUS
  <1>6. e \in all /\ \A f \in all : f.id = by[2] => f = e
    BY <1>1, <1>3, <1>4, <1>5
  <1>7. Event(by[2]) = e
    BY <1>1, <1>5, <1>6 DEF Event
  <1>8. QED BY <1>1, <1>3, <1>4, <1>7

\* The sum of the counts, as CHOOSE happens to take them.
LEMMA SumOfFails ==
  ASSUME NEW S, IsFiniteSet(S), NEW f \in [S -> Int], f = [row \in S |-> row.fail]
  PROVE  \E g : SumsOf(g, f, S) /\ MapThenSumSet(LAMBDA row : row.fail, S) = g[S]
  <1> DEFINE P(g) == g = [s \in SUBSET S |->
                            IF s = {} THEN 0
                            ELSE (CHOOSE x \in s : TRUE).fail + g[s \ {CHOOSE x \in s : TRUE}]]
  <1>1. ASSUME NEW g PROVE P(g) <=> SumsOf(g, f, S)
    <2>1. \A s \in SUBSET S : s # {} => (CHOOSE x \in s : TRUE) \in S
      OBVIOUS
    <2>2. \A s \in SUBSET S : s # {} => f[CHOOSE x \in s : TRUE] = (CHOOSE x \in s : TRUE).fail
      BY <2>1
    <2>3. \A s \in SUBSET S : Plus(f, g, s) =
            IF s = {} THEN 0 ELSE (CHOOSE x \in s : TRUE).fail + g[s \ {CHOOSE x \in s : TRUE}]
      BY <2>2 DEF Plus
    <2>4. QED BY <2>3 DEF SumsOf
  <1>2. MapThenSumSet(LAMBDA row : row.fail, S) = (CHOOSE g : P(g))[S]
    BY DEF MapThenSumSet, MapThenFoldSet
  <1> HIDE DEF P
  <1>3. \E g : P(g)
    BY <1>1, SumsExist
  <1>4. P(CHOOSE g : P(g))
    BY <1>3
  <1>5. SumsOf((CHOOSE g : P(g)), f, S)
    BY <1>1, <1>4
  <1>6. QED BY <1>2, <1>5

\* A set with at most one element has no two.
LEMMA AtMostOne ==
  ASSUME NEW S, IsFiniteSet(S), Cardinality(S) <= 1, NEW x \in S, NEW y \in S
  PROVE  x = y
  <1>1. SUFFICES ASSUME x # y PROVE FALSE
    OBVIOUS
  <1>2. /\ IsFiniteSet(S \ {x}) /\ Cardinality(S) \in Nat /\ Cardinality(S \ {x}) = Cardinality(S) - 1
        /\ Cardinality(S \ {x}) \in Nat
    BY Removal
  <1>3. Cardinality(S \ {x}) = 0
    BY <1>2
  <1>4. S \ {x} = {}
    BY <1>2, <1>3, FS_EmptySet
  <1>5. QED BY <1>1, <1>4

\* The counts of a provider are at most the failures handled, and exactly those if one
\* replay handled them all.
LEMMA CountsAreSums ==
  ASSUME ReplayInv, CountInv, NEW s \in Sources, NEW count,
         count = MapThenSumSet(LAMBDA row : row.fail, Health(s))
  PROVE  /\ count <= Cardinality(FailuresOf(s))
         /\ Cardinality({by[1] : by \in FailuresOf(s)}) <= 1 => count = Cardinality(FailuresOf(s))
  <1>1. PICK H : H = Health(s)
    OBVIOUS
  <1>2. PICK F : F = FailuresOf(s)
    OBVIOUS
  <1>3. /\ IsFiniteSet(F) /\ IsFiniteSet(H) /\ \A row \in H : row.fail \in Nat
        /\ \A row, other \in H : row.by = other.by => row = other
    BY <1>1, <1>2, CountFacts
  <1>4. PICK to : DOMAIN to = F /\ CountsOK(s, to)
    BY <1>2 DEF CountInv
  <1>5. /\ \A by \in F : \E row \in H : row.by = to[by]
        /\ \A row \in H : row.fail <= Cardinality(Share(to, row.by))
        /\ (\A by, other \in F : by[1] = other[1]) => \A row \in H : row.fail = Cardinality(Share(to, row.by))
    BY <1>1, <1>2, <1>4 DEF CountsOK
  <1>6. PICK f \in [H -> Int] : f = [row \in H |-> row.fail]
    <2>1. [row \in H |-> row.fail] \in [H -> Int]
      BY <1>3
    <2>2. QED BY <2>1
  <1>7. PICK g : SumsOf(g, f, H) /\ MapThenSumSet(LAMBDA row : row.fail, H) = g[H]
    BY <1>3, <1>6, SumOfFails
  <1>8. count = g[H]
    BY <1>1, <1>7
  <1>9. PICK rows : rows = [by \in F |-> CHOOSE row \in H : row.by = to[by]]
    OBVIOUS
  <1>10. DOMAIN rows = F /\ \A by \in F : rows[by] \in H /\ rows[by].by = to[by]
    BY <1>5, <1>9
  <1>11. \A row \in H : Share(rows, row) = Share(to, row.by)
    BY <1>3, <1>4, <1>10 DEF Share
  <1>12. /\ g[H] <= Cardinality(F)
         /\ (\A row \in H : f[row] = Cardinality(Share(rows, row))) => g[H] = Cardinality(F)
    <2>1. \A row \in H : f[row] <= Cardinality(Share(rows, row))
      BY <1>5, <1>6, <1>11
    <2>2. (\A h \in DOMAIN rows : rows[h] \in H) /\ IsFiniteSet(DOMAIN rows) /\ SumsOf(g, f, H) /\ f \in [H -> Int]
      BY <1>3, <1>6, <1>7, <1>10
    <2>3. /\ g[H] <= Cardinality(DOMAIN rows)
          /\ (\A row \in H : f[row] = Cardinality(Share(rows, row))) => g[H] = Cardinality(DOMAIN rows)
      BY ONLY <1>3, <2>1, <2>2, SumOfShares
    <2>4. QED BY <1>10, <2>3
  <1>13. ASSUME Cardinality({by[1] : by \in F}) <= 1 PROVE g[H] = Cardinality(F)
    <2>1. PICK replay : replay = [by \in F |-> by[1]]
      OBVIOUS
    <2>2. IsFiniteSet({replay[by] : by \in F})
      BY <1>3, <2>1, FiniteImage
    <2>3. {replay[by] : by \in F} = {by[1] : by \in F}
      BY <2>1
    <2>4. ASSUME NEW by \in F, NEW other \in F PROVE by[1] = other[1]
      <3>1. PICK S : S = {h[1] : h \in F}
        OBVIOUS
      <3>2. by[1] \in S /\ other[1] \in S
        BY <3>1
      <3>3. IsFiniteSet(S) /\ Cardinality(S) <= 1
        BY <1>13, <2>2, <2>3, <3>1
      <3>4. QED BY ONLY <3>2, <3>3, AtMostOne
    <2>5. QED BY <1>5, <1>6, <1>11, <1>12, <2>4
  <1>14. QED BY <1>2, <1>8, <1>12, <1>13

\* What replays did is what their audit rows say.
LEMMA IInvGivesEffects ==
  ASSUME PublishInv, ReplayInv, CountInv
  PROVE  EffectsFollowAudits
  <1>1. ASSUME NEW by \in audits
        PROVE  HandledOK(by[1], Event(by[2])) /\ by = <<by[1], Event(by[2]).id>> /\ by[1] \in Replays
    BY EventOfAudit DEF ReplayInv, DealtOK
  <1>2. EffectsAreAudited
    <2>1. \A row \in made : row.by \in audits
      BY DEF ReplayInv, RowsOK
    <2>2. \A by \in audits : \A t \in Inserts(Event(by[2])) : \E row \in Rows(t) : row.by = by
      BY <1>1 DEF HandledOK, Rows
    <2>3. \A t \in disputed : \E by \in audits : t \in Disputed(Event(by[2]))
      <3>1. SUFFICES ASSUME NEW t \in disputed PROVE \E by \in audits : t \in Disputed(Event(by[2]))
        OBVIOUS
      <3>2. PICK by \in audits : \E e \in chosen[by[1]] : e.id = by[2] /\ t \in Disputed(e)
        BY DEF ReplayInv, EffectsOK
      <3>3. \A f \in chosen[by[1]] : f.id = by[2] => f = Event(by[2])
        BY EventOfAudit
      <3>4. QED BY <3>2, <3>3
    <2>4. \A s \in Sources : {synced[s].sync, synced[s].success} \ {None} \subseteq audits
      BY DEF ReplayInv, EffectsOK
    <2>5. QED BY <2>1, <2>2, <2>3, <2>4 DEF EffectsAreAudited
  <1>3. SettlementsAreKept
    BY <1>1 DEF SettlementsAreKept, HandledOK, Rows
  <1>4. RepeatsTakeTwoReplays
    BY DEF ReplayInv, RowsOK
  <1>5. FailuresAreCounted
    <2>1. ASSUME NEW s \in Sources
          PROVE  /\ FailuresOf(s) = {by \in audits : FailedOf(Event(by[2]), s)}
                 /\ Health(s) = {row \in Rows("provider_health_metrics") : <<row.merchant, row.key>> = s}
      <3>1. ASSUME NEW by \in audits
            PROVE  (\E e \in chosen[by[1]] : e.id = by[2] /\ FailedOf(e, s)) <=> FailedOf(Event(by[2]), s)
        BY EventOfAudit
      <3>2. QED BY <3>1 DEF FailuresOf, Health, Rows
    <2>2. ASSUME NEW s \in Sources
          PROVE  LET handled == {by \in audits : FailedOf(Event(by[2]), s)}
                     count == MapThenSumSet(LAMBDA row : row.fail,
                                {row \in Rows("provider_health_metrics") : <<row.merchant, row.key>> = s})
                 IN /\ count <= Cardinality(handled)
                    /\ Cardinality({by[1] : by \in handled}) <= 1 => count = Cardinality(handled)
      BY <2>1, CountsAreSums
    <2>3. QED BY <2>2 DEF FailuresAreCounted, AuditsOf, FailedOf
  <1>6. DeadLettersHaveCauses
    <2>1. SUFFICES ASSUME NEW r \in Replays, pc[r] = "done", op[r].name \in {"merchant", "since", "aggregate"},
                          NEW e \in chosen[r], <<r, e.id>> \notin audits
                   PROVE  Cause(r, e)
      BY DEF DeadLettersHaveCauses, Cause, Rows
    <2>2. left[r] = {} /\ DealtOK(r)
      BY <2>1 DEF ReplayInv, ReplayOK
    <2>3. QED BY <2>1, <2>2 DEF DealtOK
  <1>7. QED BY <1>2, <1>3, <1>4, <1>5, <1>6 DEF EffectsFollowAudits

\* The effects of replays are those of audited handlings, none of them lost or repeated,
\* and what was left out has a cause.
THEOREM EffectsAreThoseAudited == Spec => []EffectsFollowAudits
  <1>1. Init => IInv
    BY InitPublishInv, InitReplayInv, InitCounts DEF IInv
  <1>2. IInv /\ [Next]_vars => IInv'
    BY NextKeepsPublishInv, NextKeepsReplayInv, NextKeepsCounts DEF IInv
  <1>3. IInv => EffectsFollowAudits
    BY IInvGivesEffects DEF IInv
  <1>4. QED BY <1>1, <1>2, <1>3, PTL DEF Spec

==============================================================================
