---------------------------- MODULE CollectionLemmas ----------------------------
(***************************************************************************)
(* Lemmas on the collections of the models, for the proofs: sums over      *)
(* finite sets, queues, folds, sorted and short sequences, and the numbers *)
(* they are cut off at.                                                    *)
(***************************************************************************)
EXTENDS Integers, Sequences, SequencesExt, FiniteSetsExt, FiniteSetTheorems, SequenceTheorems,
        WellFoundedInduction, TLAPS

(***************************************************************************)
(* Sums: the model writes them with MapThenSumSet, which adds the elements *)
(* in the order CHOOSE takes them; nothing depends on that order.          *)
(***************************************************************************)

\* One step of the sum of f over s, when g has the sums over what is left.
Plus(f, g, s) ==
  IF s = {} THEN 0 ELSE f[CHOOSE x \in s : TRUE] + g[s \ {CHOOSE x \in s : TRUE}]

\* g has the sum of f over every subset of S.
SumsOf(g, f, S) == g = [s \in SUBSET S |-> Plus(f, g, s)]

\* Any element may be added last.
Additive(g, f, S) == \A s \in SUBSET S : \A x \in s : g[s] = f[x] + g[s \ {x}]

\* A set of numbers with 0, and with the successor of each of its elements, has all of Nat.
LEMMA SetInduction ==
  ASSUME NEW S, 0 \in S, \A n \in Nat : n \in S => n + 1 \in S
  PROVE  Nat \subseteq S
  <1> DEFINE T == {n \in Nat : n \notin S}
             R == OpToRel(<, Nat)
  <1>1. SUFFICES ASSUME T # {} PROVE FALSE
    OBVIOUS
  <1>2. \A m, n \in Nat : m < n => <<m, n>> \in R
    BY DEF OpToRel
  <1>3. IsWellFoundedOn(R, Nat)
    BY NatLessThanWellFounded
  <1> HIDE DEF R
  <1>4. PICK x \in T : \A y \in T : ~(<<y, x>> \in R)
    BY <1>1, <1>3, WFMin
  <1>5. x \in Nat /\ x # 0 /\ x \notin S
    OBVIOUS
  <1>6. x - 1 \in Nat /\ x - 1 < x /\ (x - 1) + 1 = x
    BY <1>5
  <1>7. x - 1 \in T
    BY <1>5, <1>6
  <1>8. QED BY <1>2, <1>4, <1>5, <1>6, <1>7

\* An element CHOOSE takes leaves one fewer.
LEMMA Removal ==
  ASSUME NEW s, IsFiniteSet(s), NEW x \in s
  PROVE  /\ IsFiniteSet(s \ {x})
         /\ Cardinality(s) \in Nat
         /\ Cardinality(s \ {x}) = Cardinality(s) - 1
         /\ Cardinality(s \ {x}) \in Nat
  BY FS_RemoveElement, FS_CardinalityType

\* Every function to the integers on a finite set has its sums.
LEMMA SumsExist ==
  ASSUME NEW S, IsFiniteSet(S), NEW f \in [S -> Int]
  PROVE  \E g : SumsOf(g, f, S)
  <1> DEFINE Right(g, n) == \A s \in SUBSET S : Cardinality(s) <= n => g[s] = Plus(f, g, s)
             Reached == {n \in Nat : \E g \in [SUBSET S -> Int] : Right(g, n)}
  <1>0. \A s \in SUBSET S : IsFiniteSet(s) /\ Cardinality(s) \in Nat /\ Cardinality(s) <= Cardinality(S)
    BY FS_Subset, FS_CardinalityType
  <1>1. 0 \in Reached
    <2>1. [s \in SUBSET S |-> 0] \in [SUBSET S -> Int]
      OBVIOUS
    <2>2. \A s \in SUBSET S : Cardinality(s) <= 0 => s = {}
      BY <1>0, FS_EmptySet
    <2>3. Right([s \in SUBSET S |-> 0], 0)
      BY <2>2 DEF Plus
    <2>4. QED BY <2>1, <2>3
  <1>2. \A n \in Nat : n \in Reached => n + 1 \in Reached
    <2> SUFFICES ASSUME NEW n \in Nat, n \in Reached PROVE n + 1 \in Reached
      OBVIOUS
    <2>0. PICK g \in [SUBSET S -> Int] : Right(g, n)
      OBVIOUS
    <2> DEFINE h == [s \in SUBSET S |-> Plus(f, g, s)]
    <2>1. \A s \in SUBSET S : s # {} => /\ (CHOOSE x \in s : TRUE) \in s
                                       /\ s \ {CHOOSE x \in s : TRUE} \in SUBSET S
      OBVIOUS
    <2>2. ASSUME NEW s \in SUBSET S PROVE Plus(f, g, s) \in Int
      <3>1. CASE s = {}
        BY <3>1 DEF Plus
      <3>2. CASE s # {}
        <4> DEFINE c == CHOOSE x \in s : TRUE
        <4>1. c \in S /\ s \ {c} \in SUBSET S
          BY <2>1, <3>2
        <4>2. f[c] \in Int /\ g[s \ {c}] \in Int
          BY <4>1
        <4>3. Plus(f, g, s) = f[c] + g[s \ {c}]
          BY <3>2 DEF Plus
        <4> HIDE DEF c
        <4>4. QED BY <4>2, <4>3
      <3>3. QED BY <3>1, <3>2
    <2>3. h \in [SUBSET S -> Int]
      BY <2>2
    <2>4. ASSUME NEW s \in SUBSET S, Cardinality(s) <= n + 1 PROVE h[s] = Plus(f, h, s)
      <3>1. CASE s = {}
        BY <3>1 DEF Plus
      <3>2. CASE s # {}
        <4> DEFINE c == CHOOSE x \in s : TRUE
        <4>1. c \in s /\ s \ {c} \in SUBSET S
          BY <2>1, <3>2
        <4>2. Cardinality(s \ {c}) <= n
          <5>1. Cardinality(s \ {c}) = Cardinality(s) - 1 /\ Cardinality(s) \in Nat
            BY <1>0, <4>1, Removal
          <5>2. QED BY <2>4, <5>1
        <4>3. g[s \ {c}] = Plus(f, g, s \ {c})
          BY <2>0, <4>1, <4>2
        <4>4. h[s \ {c}] = g[s \ {c}]
          BY <4>1, <4>3
        <4>5. QED BY <3>2, <4>4 DEF Plus
      <3>3. QED BY <3>1, <3>2
    <2>5. Right(h, n + 1)
      BY <2>4
    <2>6. n + 1 \in Nat
      OBVIOUS
    <2> HIDE DEF h, Right
    <2>7. QED BY <2>3, <2>5, <2>6
  <1>3. Cardinality(S) \in Reached
    <2> HIDE DEF Reached
    <2>1. Nat \subseteq Reached
      BY <1>1, <1>2, SetInduction
    <2>2. QED BY <2>1, FS_CardinalityType
  <1>4. PICK g \in [SUBSET S -> Int] : Right(g, Cardinality(S))
    BY <1>3
  <1>5. \A s \in SUBSET S : g[s] = Plus(f, g, s)
    BY <1>0, <1>4
  <1>6. g = [s \in SUBSET S |-> Plus(f, g, s)]
    BY <1>5
  <1>7. QED BY <1>6 DEF SumsOf

\* The sums are integers, and 0 for nothing.
LEMMA SumsAreIntegers ==
  ASSUME NEW S, IsFiniteSet(S), NEW f \in [S -> Int], NEW g, SumsOf(g, f, S)
  PROVE  /\ \A s \in SUBSET S : g[s] \in Int
         /\ g[{}] = 0
  <1> DEFINE Reached == {n \in Nat : \A s \in SUBSET S : Cardinality(s) = n => g[s] \in Int}
  <1>0. \A s \in SUBSET S : IsFiniteSet(s) /\ Cardinality(s) \in Nat
    BY FS_Subset, FS_CardinalityType
  <1>1. \A s \in SUBSET S : g[s] = Plus(f, g, s)
    BY DEF SumsOf
  <1>2. g[{}] = 0
    BY <1>1 DEF Plus
  <1>3. 0 \in Reached
    <2>1. \A s \in SUBSET S : Cardinality(s) = 0 => s = {}
      BY <1>0, FS_EmptySet
    <2>2. QED BY <1>2, <2>1
  <1>4. \A n \in Nat : n \in Reached => n + 1 \in Reached
    <2> SUFFICES ASSUME NEW n \in Nat, n \in Reached,
                        NEW s \in SUBSET S, Cardinality(s) = n + 1
                 PROVE  g[s] \in Int
      OBVIOUS
    <2>1. s # {}
      <3>1. n + 1 # 0
        OBVIOUS
      <3>2. QED BY <3>1, FS_EmptySet
    <2> DEFINE c == CHOOSE x \in s : TRUE
    <2>2. c \in s /\ f[c] \in Int /\ s \ {c} \in SUBSET S
      BY <2>1
    <2>3. g[s] = f[c] + g[s \ {c}]
      BY <1>1, <2>1 DEF Plus
    <2>4. Cardinality(s \ {c}) = n
      <3>1. Cardinality(s \ {c}) = Cardinality(s) - 1
        BY <1>0, <2>2, Removal
      <3>2. QED BY <3>1
    <2>5. g[s \ {c}] \in Int
      BY <2>2, <2>4
    <2> HIDE DEF c
    <2>6. QED BY <2>2, <2>3, <2>5
  <1> HIDE DEF Reached
  <1>5. Nat \subseteq Reached
    BY <1>3, <1>4, SetInduction
  <1>6. QED BY <1>0, <1>2, <1>5 DEF Reached

\* The order in which CHOOSE takes the elements makes no difference.
LEMMA SumOfOneMore ==
  ASSUME NEW S, IsFiniteSet(S), NEW f \in [S -> Int], NEW g, SumsOf(g, f, S)
  PROVE  Additive(g, f, S)
  <1> DEFINE Holds(s) == \A x \in s : g[s] = f[x] + g[s \ {x}]
             Reached == {n \in Nat : \A s \in SUBSET S : Cardinality(s) = n => Holds(s)}
  <1>0. \A s \in SUBSET S : IsFiniteSet(s) /\ Cardinality(s) \in Nat
    BY FS_Subset, FS_CardinalityType
  <1>1. \A s \in SUBSET S : g[s] = Plus(f, g, s)
    BY DEF SumsOf
  <1>2. \A s \in SUBSET S : g[s] \in Int
    BY SumsAreIntegers
  <1>3. 0 \in Reached
    <2>1. \A s \in SUBSET S : Cardinality(s) = 0 => s = {}
      BY <1>0, FS_EmptySet
    <2>2. QED BY <2>1
  <1>4. \A n \in Nat : n \in Reached => n + 1 \in Reached
    <2> SUFFICES ASSUME NEW n \in Nat, n \in Reached,
                        NEW s \in SUBSET S, Cardinality(s) = n + 1, NEW x \in s
                 PROVE  g[s] = f[x] + g[s \ {x}]
      OBVIOUS
    <2> DEFINE c == CHOOSE y \in s : TRUE
    <2>1. c \in s
      OBVIOUS
    <2>2. g[s] = f[c] + g[s \ {c}]
      BY <1>1 DEF Plus
    <2>3. CASE c = x
      BY <2>2, <2>3
    <2>4. CASE c # x
      <3>1. s \ {c} \in SUBSET S /\ s \ {x} \in SUBSET S /\ (s \ {c}) \ {x} \in SUBSET S
        OBVIOUS
      <3>2. Cardinality(s \ {c}) = n /\ Cardinality(s \ {x}) = n
        <4>1. Cardinality(s \ {c}) = Cardinality(s) - 1
          BY <1>0, <2>1, Removal
        <4>2. Cardinality(s \ {x}) = Cardinality(s) - 1
          BY <1>0, Removal
        <4>3. QED BY <4>1, <4>2
      <3>3. x \in s \ {c} /\ c \in s \ {x} /\ (s \ {c}) \ {x} = (s \ {x}) \ {c}
        BY <2>1, <2>4
      <3>4. g[s \ {c}] = f[x] + g[(s \ {c}) \ {x}]
        BY <3>1, <3>2, <3>3
      <3>5. g[s \ {x}] = f[c] + g[(s \ {c}) \ {x}]
        BY <3>1, <3>2, <3>3
      <3>6. f[c] \in Int /\ f[x] \in Int /\ g[(s \ {c}) \ {x}] \in Int
        BY <1>2, <2>1, <3>1
      <3> HIDE DEF c
      <3>7. QED BY <2>2, <3>4, <3>5, <3>6
    <2>5. QED BY <2>3, <2>4
  <1> HIDE DEF Reached
  <1>5. Nat \subseteq Reached
    BY <1>3, <1>4, SetInduction
  <1>6. QED BY <1>0, <1>5 DEF Reached, Additive

\* Sums over two sets whose elements pair off, with equal amounts, are equal.
LEMMA PairedSumsAreEqual ==
  ASSUME NEW S, IsFiniteSet(S), NEW f \in [S -> Int], NEW g, SumsOf(g, f, S),
         NEW T, IsFiniteSet(T), NEW k \in [T -> Int], NEW h, SumsOf(h, k, T),
         NEW pay \in [S -> T],
         \A x, y \in S : pay[x] = pay[y] => x = y,
         \A x \in S : k[pay[x]] = f[x]
  PROVE  g[S] = h[{pay[x] : x \in S}]
  <1> DEFINE Paid(s) == {pay[x] : x \in s}
             Reached == {n \in Nat : \A s \in SUBSET S : Cardinality(s) = n => g[s] = h[Paid(s)]}
  <1>0. \A s \in SUBSET S : IsFiniteSet(s) /\ Cardinality(s) \in Nat /\ Paid(s) \in SUBSET T
    BY FS_Subset, FS_CardinalityType
  <1>1. Additive(g, f, S) /\ Additive(h, k, T)
    BY SumOfOneMore
  <1>2. /\ \A s \in SUBSET S : \A x \in s : g[s] = f[x] + g[s \ {x}]
        /\ \A s \in SUBSET T : \A x \in s : h[s] = k[x] + h[s \ {x}]
    BY <1>1 DEF Additive
  <1>3. 0 \in Reached
    <2>1. \A s \in SUBSET S : Cardinality(s) = 0 => s = {}
      BY <1>0, FS_EmptySet
    <2>2. g[{}] = 0 /\ h[{}] = 0
      BY SumsAreIntegers
    <2>3. Paid({}) = {}
      OBVIOUS
    <2>4. QED BY <2>1, <2>2, <2>3
  <1>4. \A n \in Nat : n \in Reached => n + 1 \in Reached
    <2> SUFFICES ASSUME NEW n \in Nat, n \in Reached PROVE n + 1 \in Reached
      OBVIOUS
    <2>0. SUFFICES ASSUME NEW s \in SUBSET S, Cardinality(s) = n + 1 PROVE g[s] = h[Paid(s)]
      <3> HIDE DEF Paid
      <3>1. QED OBVIOUS
    <2>1. PICK x \in s : TRUE
      <3>1. n + 1 # 0
        OBVIOUS
      <3>2. QED BY <2>0, <3>1, FS_EmptySet
    <2>2. s \ {x} \in SUBSET S /\ Cardinality(s \ {x}) = n
      <3>1. Cardinality(s \ {x}) = Cardinality(s) - 1
        BY <1>0, Removal
      <3>2. QED BY <2>0, <3>1
    <2>3. Paid(s \ {x}) = Paid(s) \ {pay[x]} /\ pay[x] \in Paid(s) /\ k[pay[x]] = f[x]
      OBVIOUS
    <2>4. g[s \ {x}] = h[Paid(s \ {x})]
      BY <2>2
    <2>5. h[Paid(s)] = k[pay[x]] + h[Paid(s) \ {pay[x]}]
      BY <1>0, <1>2, <2>3
    <2>6. g[s] = f[x] + g[s \ {x}]
      BY <1>2
    <2> HIDE DEF Paid
    <2>7. QED BY <2>3, <2>4, <2>5, <2>6
  <1> HIDE DEF Reached
  <1>5. Nat \subseteq Reached
    BY <1>3, <1>4, SetInduction
  <1>6. QED BY <1>0, <1>5 DEF Reached

\* Two finite sets with nothing in common have as many elements as both together.
LEMMA DisjointUnion ==
  ASSUME NEW A, IsFiniteSet(A), NEW B, IsFiniteSet(B), A \cap B = {}
  PROVE  Cardinality(A \cup B) = Cardinality(A) + Cardinality(B)
  <1>1. Cardinality(A) \in Nat /\ Cardinality(B) \in Nat
    BY FS_CardinalityType
  <1>2. Cardinality(A \cup B) = Cardinality(A) + Cardinality(B) - Cardinality(A \cap B)
    BY FS_Union
  <1>3. Cardinality(A \cap B) = 0
    BY FS_EmptySet
  <1>4. QED BY <1>1, <1>2, <1>3

\* What is attributed to x, and to the elements of s.
Share(to, x) == {h \in DOMAIN to : to[h] = x}
Shares(to, s) == {h \in DOMAIN to : to[h] \in s}

\* Numbers that are at most the shares of the elements sum up to at most all of what is
\* attributed, and to exactly that if they are the shares.
LEMMA SumOfShares ==
  ASSUME NEW S, IsFiniteSet(S), NEW f \in [S -> Int], NEW g, SumsOf(g, f, S),
         NEW to, \A h \in DOMAIN to : to[h] \in S, IsFiniteSet(DOMAIN to),
         \A x \in S : f[x] <= Cardinality(Share(to, x))
  PROVE  /\ g[S] <= Cardinality(DOMAIN to)
         /\ (\A x \in S : f[x] = Cardinality(Share(to, x))) => g[S] = Cardinality(DOMAIN to)
  <1> DEFINE Exact == \A x \in S : f[x] = Cardinality(Share(to, x))
             Good(s) == g[s] <= Cardinality(Shares(to, s)) /\ (Exact => g[s] = Cardinality(Shares(to, s)))
             Reached == {n \in Nat : \A s \in SUBSET S : Cardinality(s) = n => Good(s)}
  <1>0. /\ \A s \in SUBSET S : IsFiniteSet(s) /\ Cardinality(s) \in Nat
        /\ \A s \in SUBSET S : IsFiniteSet(Shares(to, s)) /\ Cardinality(Shares(to, s)) \in Nat
        /\ \A x \in S : IsFiniteSet(Share(to, x)) /\ Cardinality(Share(to, x)) \in Nat
    BY FS_Subset, FS_CardinalityType DEF Share, Shares
  <1>1. /\ \A s \in SUBSET S : g[s] \in Int
        /\ g[{}] = 0
    BY SumsAreIntegers
  <1>2. \A s \in SUBSET S : \A x \in s : g[s] = f[x] + g[s \ {x}]
    <2>1. Additive(g, f, S)
      BY SumOfOneMore
    <2>2. QED BY <2>1 DEF Additive
  <1>3. 0 \in Reached
    <2>1. \A s \in SUBSET S : Cardinality(s) = 0 => s = {}
      BY <1>0, FS_EmptySet
    <2>2. Shares(to, {}) = {}
      BY DEF Shares
    <2>3. QED BY <1>1, <2>1, <2>2, FS_EmptySet
  <1>4. \A n \in Nat : n \in Reached => n + 1 \in Reached
    <2> SUFFICES ASSUME NEW n \in Nat, n \in Reached PROVE n + 1 \in Reached
      <3> HIDE DEF Reached
      <3>1. QED OBVIOUS
    <2>0. SUFFICES ASSUME NEW s \in SUBSET S, Cardinality(s) = n + 1 PROVE Good(s)
      <3> HIDE DEF Good
      <3>1. QED OBVIOUS
    <2>1. PICK x \in s : TRUE
      <3>1. n + 1 # 0
        OBVIOUS
      <3>2. QED BY <2>0, <3>1, FS_EmptySet
    <2>2. s \ {x} \in SUBSET S /\ Cardinality(s \ {x}) = n
      <3>1. Cardinality(s \ {x}) = Cardinality(s) - 1
        BY <1>0, Removal
      <3>2. QED BY <2>0, <3>1
    <2>3. Good(s \ {x})
      BY <2>2
    <2>4. /\ Shares(to, s) = Shares(to, s \ {x}) \cup Share(to, x)
          /\ Shares(to, s \ {x}) \cap Share(to, x) = {}
      BY DEF Shares, Share
    <2>5. Cardinality(Shares(to, s)) = Cardinality(Shares(to, s \ {x})) + Cardinality(Share(to, x))
      <3>1. IsFiniteSet(Shares(to, s \ {x})) /\ IsFiniteSet(Share(to, x))
        BY <1>0, <2>2
      <3>2. QED BY <2>4, <3>1, DisjointUnion
    <2>6. g[s] = f[x] + g[s \ {x}] /\ g[s \ {x}] \in Int /\ f[x] \in Int /\ x \in S
      BY <1>1, <1>2, <2>2
    <2>7. Cardinality(Share(to, x)) \in Nat /\ Cardinality(Shares(to, s \ {x})) \in Nat
      BY <1>0, <2>2
    <2>8. f[x] <= Cardinality(Share(to, x)) /\ (Exact => f[x] = Cardinality(Share(to, x)))
      OBVIOUS
    <2> HIDE DEF Exact
    <2>9. QED BY <2>3, <2>5, <2>6, <2>7, <2>8
  <1>5. Nat \subseteq Reached
    <2> HIDE DEF Reached
    <2>1. QED BY <1>3, <1>4, SetInduction
  <1>6. Good(S)
    BY <1>0, <1>5
  <1>7. Shares(to, S) = DOMAIN to
    BY DEF Shares
  <1>8. QED BY <1>6, <1>7

------------------------------------------------------------------------------
(***************************************************************************)
(* Queues: the elements of a set, in some order, taken one after another.  *)
(***************************************************************************)

\* The queue has, once, each element of `all` that is not yet done.
WorksOff(queue, all, done) ==
  /\ queue \in Seq(all)
  /\ \A i, j \in DOMAIN queue : queue[i] = queue[j] => i = j
  /\ \A e \in all : e \in done \/ \E i \in DOMAIN queue : queue[i] = e
  /\ done \subseteq all
  /\ \A i \in DOMAIN queue : queue[i] \notin done

\* Any order of a finite set has all its elements to do.
LEMMA AnyOrderWorksOff ==
  ASSUME NEW S, IsFiniteSet(S), NEW q \in SetToSeqs(S)
  PROVE  WorksOff(q, S, {})
  <1> DEFINE n == Cardinality(S)
  <1>1. n \in Nat
    BY FS_CardinalityType
  <1>2. q \in [1..n -> S] /\ \A i, j \in 1..n : i # j => q[i] # q[j]
    BY DEF SetToSeqs
  <1> HIDE DEF n
  <1>3. DOMAIN q = 1..n /\ q \in Seq(S)
    BY <1>1, <1>2
  <1>4. q \in Injection(1..n, S)
    BY <1>2 DEF Injection, IsInjective
  <1>5. Cardinality(1..n) = n
    BY <1>1, FS_Interval
  <1>6. q \in Surjection(1..n, S)
    BY <1>4, <1>5, FS_Injection DEF n
  <1>7. \A e \in S : \E i \in 1..n : q[i] = e
    BY <1>6 DEF Surjection
  <1>8. QED BY <1>2, <1>3, <1>7 DEF WorksOff

\* The head of a queue is still to do; the tail is the queue one place on.
LEMMA HeadAndTail ==
  ASSUME NEW all, NEW done, NEW q, WorksOff(q, all, done), q # <<>>
  PROVE  /\ Head(q) \in all \ done /\ Head(q) = q[1] /\ 1 \in DOMAIN q
         /\ Tail(q) \in Seq(all)
         /\ DOMAIN q \subseteq Nat /\ DOMAIN Tail(q) \subseteq Nat \ {0}
         /\ \A i \in DOMAIN Tail(q) : i + 1 \in DOMAIN q /\ Tail(q)[i] = q[i + 1]
         /\ \A i \in DOMAIN q : i = 1 \/ i - 1 \in DOMAIN Tail(q)
  <1>1. q \in Seq(all) /\ \A i \in DOMAIN q : q[i] \notin done
    BY DEF WorksOff
  <1>2. 1 \in DOMAIN q /\ Head(q) = q[1] /\ q[1] \in all
    BY <1>1
  <1>3. Tail(q) \in Seq(all) /\ Len(Tail(q)) = Len(q) - 1
    BY <1>1, HeadTailProperties
  <1>4. DOMAIN q = 1..Len(q) /\ DOMAIN Tail(q) = 1..(Len(q) - 1) /\ Len(q) \in Nat
    BY <1>1, <1>3
  <1>5. ASSUME NEW i \in DOMAIN Tail(q)
        PROVE  i + 1 \in DOMAIN q /\ Tail(q)[i] = q[i + 1]
    <2>1. i \in 1..(Len(q) - 1)
      BY <1>4
    <2>2. i + 1 \in 1..Len(q)
      BY <1>4, <2>1
    <2>3. Tail(q)[i] = q[i + 1]
      BY <1>1, <2>1
    <2>4. QED BY <1>4, <2>2, <2>3
  <1>6. \A i \in DOMAIN q : i = 1 \/ i - 1 \in DOMAIN Tail(q)
    BY <1>4
  <1>7. DOMAIN q \subseteq Nat /\ DOMAIN Tail(q) \subseteq Nat \ {0}
    BY <1>4
  <1>8. QED BY <1>1, <1>2, <1>3, <1>5, <1>6, <1>7

\* The tail has what is to do when the head is done.
LEMMA HeadWorkedOff ==
  ASSUME NEW all, NEW done, NEW q, WorksOff(q, all, done), q # <<>>
  PROVE  WorksOff(Tail(q), all, done \cup {Head(q)})
  <1> DEFINE t == Tail(q)
  <1>1. /\ Head(q) \in all \ done /\ Head(q) = q[1] /\ 1 \in DOMAIN q
        /\ t \in Seq(all)
        /\ DOMAIN q \subseteq Nat /\ DOMAIN t \subseteq Nat \ {0}
        /\ \A i \in DOMAIN t : i + 1 \in DOMAIN q /\ t[i] = q[i + 1]
        /\ \A i \in DOMAIN q : i = 1 \/ i - 1 \in DOMAIN t
    BY HeadAndTail
  <1>2. /\ \A i, j \in DOMAIN q : q[i] = q[j] => i = j
        /\ \A e \in all : e \in done \/ \E i \in DOMAIN q : q[i] = e
        /\ done \subseteq all
        /\ \A i \in DOMAIN q : q[i] \notin done
    BY DEF WorksOff
  <1> HIDE DEF t
  <1>3. \A i, j \in DOMAIN t : t[i] = t[j] => i = j
    <2> SUFFICES ASSUME NEW i \in DOMAIN t, NEW j \in DOMAIN t, t[i] = t[j] PROVE i = j
      OBVIOUS
    <2>1. i + 1 = j + 1
      BY <1>1, <1>2
    <2>2. QED BY <1>1, <2>1
  <1>4. \A i \in DOMAIN t : t[i] # Head(q)
    <2> SUFFICES ASSUME NEW i \in DOMAIN t, t[i] = q[1] PROVE FALSE
      BY <1>1
    <2>1. i + 1 = 1
      BY <1>1, <1>2
    <2>2. QED BY <1>1, <2>1
  <1>5. ASSUME NEW e \in all, e \notin done \cup {Head(q)}
        PROVE  \E i \in DOMAIN t : t[i] = e
    <2>1. PICK i \in DOMAIN q : q[i] = e
      BY <1>2, <1>5
    <2>2. i # 1
      BY <1>1, <1>5, <2>1
    <2>3. i - 1 \in DOMAIN t /\ (i - 1) + 1 = i
      BY <1>1, <2>2
    <2>4. t[i - 1] = e
      BY <1>1, <2>1, <2>3
    <2>5. QED BY <2>3, <2>4
  <1>6. \A i \in DOMAIN t : t[i] \notin done \cup {Head(q)}
    BY <1>1, <1>2, <1>4
  <1>7. WorksOff(t, all, done \cup {Head(q)})
    BY <1>1, <1>2, <1>3, <1>5, <1>6 DEF WorksOff
  <1>8. QED BY <1>7 DEF t

\* When the queue is empty everything is done.
LEMMA AllWorkedOff ==
  ASSUME NEW all, NEW done, WorksOff(<<>>, all, done)
  PROVE  done = all
  BY DEF WorksOff

------------------------------------------------------------------------------
(***************************************************************************)
(* Counting.                                                               *)
(***************************************************************************)

\* Elements that are told apart by a function are as many as its values.
LEMMA CountedByImage ==
  ASSUME NEW S, IsFiniteSet(S), NEW f, DOMAIN f = S, \A x, y \in S : f[x] = f[y] => x = y
  PROVE  Cardinality({f[x] : x \in S}) = Cardinality(S)
  <1> DEFINE T == {f[x] : x \in S}
             g == [x \in S |-> f[x]]
  <1>1. g \in Bijection(S, T)
    BY DEF Bijection, Injection, Surjection, IsInjective
  <1>2. ExistsBijection(S, T)
    BY <1>1 DEF ExistsBijection
  <1>3. QED BY <1>2, FS_Bijection

\* The image of a finite set is finite.
LEMMA FiniteImage ==
  ASSUME NEW S, IsFiniteSet(S), NEW f, DOMAIN f = S
  PROVE  IsFiniteSet({f[x] : x \in S})
  <1> DEFINE T == {f[x] : x \in S}
             g == [x \in S |-> f[x]]
  <1>1. g \in Surjection(S, T)
    BY DEF Surjection
  <1>2. QED BY <1>1, FS_Surjection DEF ExistsSurjection

LEMMA ImageIsNoLarger ==
  ASSUME NEW S, IsFiniteSet(S), NEW f, DOMAIN f = S
  PROVE  Cardinality({f[x] : x \in S}) <= Cardinality(S)
  <1> DEFINE T == {f[x] : x \in S}
             g == [x \in S |-> f[x]]
  <1>1. g \in Surjection(S, T)
    BY DEF Surjection
  <1>2. QED BY <1>1, FS_Surjection DEF ExistsSurjection

------------------------------------------------------------------------------
\* Numbered copies of the elements of D, no more of an element than its share of a
\* set has members: as the shares are disjoint, there are no more copies than members.
LEMMA CopiesWithinShares ==
  ASSUME NEW D, NEW share, NEW bound, NEW All, IsFiniteSet(All),
         \A d \in D : share[d] \subseteq All /\ bound[d] \in Nat /\ bound[d] <= Cardinality(share[d]),
         \A d, e \in D : d # e => share[d] \cap share[e] = {},
         NEW P, \A o \in P : /\ o = <<o[1], o[2]>> /\ o[1] \in D
                             /\ o[2] \in Nat \ {0} /\ o[2] <= bound[o[1]]
  PROVE  Cardinality(P) <= Cardinality(All)
  <1> DEFINE n(d) == Cardinality(share[d])
             Numbers(d) == Bijection(1..n(d), share[d])
             F == [d \in D |-> CHOOSE f : f \in Numbers(d)]
             g == [o \in P |-> F[o[1]][o[2]]]
  <1>1. \A d \in D : IsFiniteSet(share[d])
    BY FS_Subset
  <1>2. \A d \in D : F[d] \in Numbers(d)
    <2> SUFFICES ASSUME NEW d \in D PROVE F[d] \in Numbers(d)
      OBVIOUS
    <2>1. \E f : f \in Numbers(d)
      BY <1>1, FS_CardinalityType DEF ExistsBijection
    <2> QED
      BY <2>1
  <1>3. \A o \in P : o[1] \in D /\ o[2] \in 1..n(o[1])
    <2> SUFFICES ASSUME NEW o \in P PROVE o[1] \in D /\ o[2] \in 1..n(o[1])
      OBVIOUS
    <2>1. n(o[1]) \in Nat
      BY <1>1, FS_CardinalityType
    <2> QED
      BY <2>1
  <1>4. \A o \in P : g[o] \in share[o[1]]
    <2> SUFFICES ASSUME NEW o \in P PROVE g[o] \in share[o[1]]
      OBVIOUS
    <2> HIDE DEF F
    <2>1. F[o[1]] \in Numbers(o[1]) /\ o[2] \in 1..n(o[1])
      BY <1>2, <1>3
    <2> QED
      BY <2>1 DEF Bijection, Injection
  <1>5. \A o, p \in P : g[o] = g[p] => o = p
    <2> SUFFICES ASSUME NEW o \in P, NEW p \in P, g[o] = g[p] PROVE o = p
      OBVIOUS
    <2> HIDE DEF F
    <2>1. o[1] = p[1]
      BY <1>3, <1>4
    <2>2. F[o[1]] \in Numbers(o[1]) /\ o[2] \in 1..n(o[1]) /\ p[2] \in 1..n(o[1])
      BY <1>2, <1>3, <2>1
    <2>3. F[o[1]][o[2]] = F[o[1]][p[2]]
      BY <2>1
    <2>4. o[2] = p[2]
      BY <2>2, <2>3 DEF Bijection, Injection, IsInjective
    <2> QED
      BY <2>1, <2>4
  <1>6. g \in Injection(P, All)
    <2>1. g \in [P -> All]
      BY <1>3, <1>4
    <2> HIDE DEF g
    <2> QED
      BY <1>5, <2>1 DEF Injection, IsInjective
  <1> HIDE DEF g
  <1> QED
    BY <1>6, FS_Injection

------------------------------------------------------------------------------
(***************************************************************************)
(* Folds: what is made of a finite set by adding its elements one after    *)
(* another, in the order in which pick takes them.                         *)
(***************************************************************************)

\* One step of the fold of F from base on, when g has the folds of what is left.
Folded(F, base, pick, g, s) == IF s = {} THEN base ELSE F[<<pick[s], g[s \ {pick[s]}]>>]

\* g has the fold over every subset of S.
FoldsOf(g, F, base, pick, S) == \A s \in SUBSET S : g[s] = Folded(F, base, pick, g, s)

\* Every function has its folds.
LEMMA FoldsExist ==
  ASSUME NEW S, IsFiniteSet(S), NEW X, NEW base \in X, NEW F \in [S \X X -> X],
         NEW pick, \A s \in SUBSET S : s # {} => pick[s] \in s
  PROVE  \E g : g \in [SUBSET S -> X] /\ FoldsOf(g, F, base, pick, S)
  <1> DEFINE Right(g, n) == \A s \in SUBSET S : Cardinality(s) <= n => g[s] = Folded(F, base, pick, g, s)
             Reached == {n \in Nat : \E g \in [SUBSET S -> X] : Right(g, n)}
  <1>0. \A s \in SUBSET S : IsFiniteSet(s) /\ Cardinality(s) \in Nat /\ Cardinality(s) <= Cardinality(S)
    BY FS_Subset, FS_CardinalityType
  <1>1. 0 \in Reached
    <2>1. [s \in SUBSET S |-> base] \in [SUBSET S -> X]
      OBVIOUS
    <2>2. \A s \in SUBSET S : Cardinality(s) <= 0 => s = {}
      BY <1>0, FS_EmptySet
    <2>3. Right([s \in SUBSET S |-> base], 0)
      BY <2>2 DEF Folded
    <2>4. QED BY <2>1, <2>3
  <1>2. \A n \in Nat : n \in Reached => n + 1 \in Reached
    <2> SUFFICES ASSUME NEW n \in Nat, n \in Reached PROVE n + 1 \in Reached
      OBVIOUS
    <2>0. PICK g \in [SUBSET S -> X] : Right(g, n)
      OBVIOUS
    <2> DEFINE h == [s \in SUBSET S |-> Folded(F, base, pick, g, s)]
    <2>1. \A s \in SUBSET S : s # {} => pick[s] \in s /\ s \ {pick[s]} \in SUBSET S
      OBVIOUS
    <2>2. ASSUME NEW s \in SUBSET S PROVE Folded(F, base, pick, g, s) \in X
      <3>1. CASE s = {}
        BY <3>1 DEF Folded
      <3>2. CASE s # {}
        <4> DEFINE c == pick[s]
        <4>1. c \in S /\ s \ {c} \in SUBSET S
          BY <2>1, <3>2
        <4>2. <<c, g[s \ {c}]>> \in S \X X
          BY <4>1
        <4>3. Folded(F, base, pick, g, s) = F[<<c, g[s \ {c}]>>]
          BY <3>2 DEF Folded
        <4> HIDE DEF c
        <4>4. QED BY <4>2, <4>3
      <3>3. QED BY <3>1, <3>2
    <2>3. h \in [SUBSET S -> X]
      BY <2>2
    <2>4. ASSUME NEW s \in SUBSET S, Cardinality(s) <= n + 1 PROVE h[s] = Folded(F, base, pick, h, s)
      <3>1. CASE s = {}
        BY <3>1 DEF Folded
      <3>2. CASE s # {}
        <4> DEFINE c == pick[s]
        <4>1. c \in s /\ s \ {c} \in SUBSET S
          BY <2>1, <3>2
        <4>2. Cardinality(s \ {c}) <= n
          <5>1. Cardinality(s \ {c}) = Cardinality(s) - 1 /\ Cardinality(s) \in Nat
            BY <1>0, <4>1, Removal
          <5>2. QED BY <2>4, <5>1
        <4>3. g[s \ {c}] = Folded(F, base, pick, g, s \ {c})
          BY <2>0, <4>1, <4>2
        <4>4. h[s \ {c}] = g[s \ {c}]
          BY <4>1, <4>3
        <4>5. QED BY <3>2, <4>4 DEF Folded
      <3>3. QED BY <3>1, <3>2
    <2>5. Right(h, n + 1)
      BY <2>4
    <2>6. n + 1 \in Nat
      OBVIOUS
    <2> HIDE DEF h, Right
    <2>7. QED BY <2>3, <2>5, <2>6
  <1>3. Cardinality(S) \in Reached
    <2> HIDE DEF Reached
    <2>1. Nat \subseteq Reached
      BY <1>1, <1>2, SetInduction
    <2>2. QED BY <2>1, FS_CardinalityType
  <1>4. PICK g \in [SUBSET S -> X] : Right(g, Cardinality(S))
    BY <1>3
  <1>5. \A s \in SUBSET S : g[s] = Folded(F, base, pick, g, s)
    BY <1>0, <1>4
  <1>6. QED BY <1>5 DEF FoldsOf

\* Places of a sequence, with every place before one of them, are the first ones.
LEMMA FirstPlaces ==
  ASSUME NEW n \in Nat, NEW T \in SUBSET (1..n), \A i \in T : \A j \in 1..i : j \in T
  PROVE  /\ Cardinality(T) \in 0..n
         /\ T = 1..Cardinality(T)
  <1> DEFINE Closed(A) == \A i \in A : \A j \in 1..i : j \in A
             Reached == {m \in Nat : \A A \in SUBSET (1..m) : Closed(A) => \E k \in 0..m : A = 1..k}
  <1>1. 0 \in Reached
    <2>1. ASSUME NEW A \in SUBSET (1..0)
          PROVE  \E k \in 0..0 : A = 1..k
      <3>1. A = 1..0 /\ 0 \in 0..0
        OBVIOUS
      <3>2. QED BY <3>1
    <2> HIDE DEF Closed
    <2>2. QED BY <2>1
  <1>2. \A m \in Nat : m \in Reached => m + 1 \in Reached
    <2> SUFFICES ASSUME NEW m \in Nat, m \in Reached PROVE m + 1 \in Reached
      <3> HIDE DEF Reached
      <3>1. QED OBVIOUS
    <2>0. SUFFICES ASSUME NEW A \in SUBSET (1..(m + 1)), Closed(A)
                   PROVE  \E k \in 0..(m + 1) : A = 1..k
      <3> HIDE DEF Closed
      <3>1. QED OBVIOUS
    <2>1. CASE m + 1 \in A
      <3>1. \A j \in 1..(m + 1) : j \in A
        BY <2>0, <2>1
      <3>2. PICK k : k = m + 1
        OBVIOUS
      <3>3. k \in 0..(m + 1) /\ A \subseteq 1..k /\ \A j \in 1..k : j \in A
        BY <3>1, <3>2
      <3>4. A = 1..k
        BY <3>3
      <3>5. QED BY <3>3, <3>4
    <2>2. CASE m + 1 \notin A
      <3>1. A \in SUBSET (1..m)
        BY <2>2
      <3>2. PICK k \in 0..m : A = 1..k
        BY <2>0, <3>1
      <3>3. QED BY <3>2
    <2>3. QED BY <2>1, <2>2
  <1> HIDE DEF Reached
  <1>3. n \in Reached
    BY <1>1, <1>2, SetInduction
  <1>4. PICK k \in 0..n : T = 1..k
    BY <1>3 DEF Reached
  <1>5. Cardinality(1..k) = k
    BY <1>4, FS_Interval
  <1>6. QED BY <1>4, <1>5

\* The sequence of a finite set has all its elements.
LEMMA AllInSequence ==
  ASSUME NEW S, IsFiniteSet(S), NEW q, q = SetToSeq(S)
  PROVE  q \in Seq(S) /\ Len(q) \in Nat /\ \A e \in S : \E i \in 1..Len(q) : q[i] = e
  <1>1. PICK n : n = Cardinality(S)
    OBVIOUS
  <1>2. n \in Nat /\ ExistsBijection(1..n, S)
    BY <1>1, FS_CardinalityType
  <1>3. PICK f : f \in [1..n -> S] /\ IsInjective(f)
    BY <1>2 DEF ExistsBijection, Bijection, Injection
  <1>4. q = CHOOSE h \in [1..n -> S] : IsInjective(h)
    BY <1>1 DEF SetToSeq
  <1>5. q \in [1..n -> S] /\ IsInjective(q)
    BY ONLY <1>3, <1>4
  <1>6. q \in Seq(S) /\ Len(q) = n
    BY ONLY <1>2, <1>5
  <1>7. q \in Injection(1..n, S) /\ Cardinality(1..n) = n
    BY <1>2, <1>5, FS_Interval DEF Injection
  <1>8. q \in Surjection(1..n, S)
    BY <1>1, <1>7, FS_Injection
  <1>9. \A e \in S : \E i \in 1..n : q[i] = e
    BY <1>8 DEF Surjection
  <1>10. QED BY <1>2, <1>6, <1>9

------------------------------------------------------------------------------
(***************************************************************************)
(* More on sums: parts, groups and sums of sums.                           *)
(***************************************************************************)

\* Sums of natural numbers are natural numbers.
LEMMA SumsAreNaturals ==
  ASSUME NEW S, IsFiniteSet(S), NEW f \in [S -> Nat], NEW g, SumsOf(g, f, S)
  PROVE  \A s \in SUBSET S : g[s] \in Nat
  <1> DEFINE Reached == {n \in Nat : \A s \in SUBSET S : Cardinality(s) = n => g[s] \in Nat}
  <1>0. \A s \in SUBSET S : IsFiniteSet(s) /\ Cardinality(s) \in Nat
    BY FS_Subset, FS_CardinalityType
  <1>1. f \in [S -> Int]
    OBVIOUS
  <1>2. g[{}] = 0
    BY <1>1, SumsAreIntegers
  <1>3. \A s \in SUBSET S : \A x \in s : g[s] = f[x] + g[s \ {x}]
    <2>1. Additive(g, f, S)
      BY <1>1, SumOfOneMore
    <2>2. QED BY <2>1 DEF Additive
  <1>4. 0 \in Reached
    <2>1. \A s \in SUBSET S : Cardinality(s) = 0 => s = {}
      BY <1>0, FS_EmptySet
    <2>2. QED BY <1>2, <2>1
  <1>5. \A n \in Nat : n \in Reached => n + 1 \in Reached
    <2> SUFFICES ASSUME NEW n \in Nat, n \in Reached,
                        NEW s \in SUBSET S, Cardinality(s) = n + 1
                 PROVE  g[s] \in Nat
      OBVIOUS
    <2>1. PICK x \in s : TRUE
      <3>1. n + 1 # 0
        OBVIOUS
      <3>2. QED BY <3>1, FS_EmptySet
    <2>2. s \ {x} \in SUBSET S /\ Cardinality(s \ {x}) = n
      <3>1. Cardinality(s \ {x}) = Cardinality(s) - 1
        BY <1>0, Removal
      <3>2. QED BY <3>1
    <2>3. g[s \ {x}] \in Nat /\ f[x] \in Nat
      BY <2>2
    <2>4. g[s] = f[x] + g[s \ {x}]
      BY <1>3
    <2>5. QED BY ONLY <2>3, <2>4
  <1> HIDE DEF Reached
  <1>6. Nat \subseteq Reached
    BY <1>4, <1>5, SetInduction
  <1>7. QED BY <1>0, <1>6 DEF Reached

\* The sum over a part is the same among the sums of the whole.
LEMMA SumOfPart ==
  ASSUME NEW S, IsFiniteSet(S), NEW f \in [S -> Int], NEW g, SumsOf(g, f, S),
         NEW T \in SUBSET S, NEW k \in [T -> Int], NEW h, SumsOf(h, k, T), \A x \in T : k[x] = f[x]
  PROVE  h[T] = g[T]
  <1>1. PICK pay : pay = [x \in T |-> x]
    OBVIOUS
  <1>2. IsFiniteSet(T)
    BY FS_Subset
  <1>3. pay \in [T -> S] /\ (\A x, y \in T : pay[x] = pay[y] => x = y) /\ \A x \in T : f[pay[x]] = k[x]
    BY <1>1
  <1>4. h[T] = g[{pay[x] : x \in T}]
    BY <1>2, <1>3, PairedSumsAreEqual
  <1>5. {pay[x] : x \in T} = T
    BY <1>1
  <1>6. QED BY <1>4, <1>5

\* The sum over two parts with nothing in common.
LEMMA SumOfUnion ==
  ASSUME NEW S, IsFiniteSet(S), NEW f \in [S -> Int], NEW g, SumsOf(g, f, S),
         NEW A \in SUBSET S, NEW B \in SUBSET S, A \cap B = {}
  PROVE  g[A \cup B] = g[A] + g[B]
  <1> DEFINE Reached == {n \in Nat : \A s \in SUBSET B : Cardinality(s) = n => g[A \cup s] = g[A] + g[s]}
  <1>0. \A s \in SUBSET S : IsFiniteSet(s) /\ Cardinality(s) \in Nat
    BY FS_Subset, FS_CardinalityType
  <1>1. g[{}] = 0 /\ \A s \in SUBSET S : g[s] \in Int
    BY SumsAreIntegers
  <1>2. \A s \in SUBSET S : \A x \in s : g[s] = f[x] + g[s \ {x}]
    <2>1. Additive(g, f, S)
      BY SumOfOneMore
    <2>2. QED BY <2>1 DEF Additive
  <1>3. 0 \in Reached
    <2>1. ASSUME NEW s \in SUBSET B, Cardinality(s) = 0
          PROVE  g[A \cup s] = g[A] + g[s]
      <3>1. s = {} /\ A \cup s = A
        BY <1>0, <2>1, FS_EmptySet
      <3>2. g[A] \in Int /\ g[A \cup s] = g[A] /\ g[s] = 0
        BY <1>1, <3>1
      <3>3. QED BY ONLY <3>2
    <2>2. QED BY ONLY <2>1
  <1>4. \A n \in Nat : n \in Reached => n + 1 \in Reached
    <2> SUFFICES ASSUME NEW n \in Nat, n \in Reached
                 PROVE  n + 1 \in Reached
      OBVIOUS
    <2>0. n + 1 \in Nat
      OBVIOUS
    <2> SUFFICES ASSUME NEW s \in SUBSET B, Cardinality(s) = n + 1
                 PROVE  g[A \cup s] = g[A] + g[s]
      BY <2>0
    <2>1. PICK x \in s : TRUE
      <3>1. Cardinality(s) = n + 1 /\ Cardinality({}) = 0 /\ n + 1 # 0
        BY FS_EmptySet
      <3>2. s # {}
        BY ONLY <3>1
      <3>3. QED BY <3>2
    <2>2. PICK r : r = s \ {x}
      OBVIOUS
    <2>3. r \in SUBSET B /\ Cardinality(r) = n
      <3>1. Cardinality(s \ {x}) = Cardinality(s) - 1
        BY <1>0, Removal
      <3>2. QED BY <2>2, <3>1
    <2>4. g[A \cup r] = g[A] + g[r]
      BY <2>3
    <2>5. (A \cup s) \ {x} = A \cup r /\ x \in A \cup s /\ A \cup s \in SUBSET S /\ s \in SUBSET S /\ r \in SUBSET S
      BY <2>2
    <2>6. g[A \cup s] = f[x] + g[A \cup r] /\ g[s] = f[x] + g[r]
      BY <1>2, <2>2, <2>5
    <2>7. f[x] \in Int /\ g[A] \in Int /\ g[r] \in Int
      BY <1>1, <2>5
    <2>8. QED BY ONLY <2>4, <2>6, <2>7
  <1> HIDE DEF Reached
  <1>5. Nat \subseteq Reached
    BY <1>3, <1>4, SetInduction
  <1>6. QED BY <1>0, <1>5 DEF Reached

\* The sum of the sums of two functions.
LEMMA SumOfSums ==
  ASSUME NEW S, IsFiniteSet(S), NEW f \in [S -> Int], NEW g, SumsOf(g, f, S),
         NEW a \in [S -> Int], NEW b, SumsOf(b, a, S), NEW c \in [S -> Int], NEW d, SumsOf(d, c, S),
         \A x \in S : f[x] = a[x] + c[x]
  PROVE  g[S] = b[S] + d[S]
  <1> DEFINE Reached == {n \in Nat : \A s \in SUBSET S : Cardinality(s) = n => g[s] = b[s] + d[s]}
  <1>0. \A s \in SUBSET S : IsFiniteSet(s) /\ Cardinality(s) \in Nat
    BY FS_Subset, FS_CardinalityType
  <1>1. /\ g[{}] = 0 /\ b[{}] = 0 /\ d[{}] = 0
        /\ \A s \in SUBSET S : g[s] \in Int /\ b[s] \in Int /\ d[s] \in Int
    BY SumsAreIntegers
  <1>2. \A s \in SUBSET S : \A x \in s : /\ g[s] = f[x] + g[s \ {x}]
                                         /\ b[s] = a[x] + b[s \ {x}] /\ d[s] = c[x] + d[s \ {x}]
    <2>1. Additive(g, f, S) /\ Additive(b, a, S) /\ Additive(d, c, S)
      BY SumOfOneMore
    <2>2. QED BY <2>1 DEF Additive
  <1>3. 0 \in Reached
    <2>1. ASSUME NEW s \in SUBSET S, Cardinality(s) = 0
          PROVE  g[s] = b[s] + d[s]
      <3>1. s = {}
        BY <1>0, <2>1, FS_EmptySet
      <3>2. g[s] = 0 /\ b[s] = 0 /\ d[s] = 0
        BY <1>1, <3>1
      <3>3. QED BY ONLY <3>2
    <2>2. QED BY ONLY <2>1
  <1>4. \A n \in Nat : n \in Reached => n + 1 \in Reached
    <2> SUFFICES ASSUME NEW n \in Nat, n \in Reached,
                        NEW s \in SUBSET S, Cardinality(s) = n + 1
                 PROVE  g[s] = b[s] + d[s]
      OBVIOUS
    <2>1. PICK x \in s : TRUE
      <3>1. n + 1 # 0
        OBVIOUS
      <3>2. QED BY <3>1, FS_EmptySet
    <2>2. PICK r : r = s \ {x}
      OBVIOUS
    <2>3. r \in SUBSET S /\ Cardinality(r) = n
      <3>1. Cardinality(s \ {x}) = Cardinality(s) - 1
        BY <1>0, Removal
      <3>2. QED BY <2>2, <3>1
    <2>4. g[r] = b[r] + d[r]
      BY <2>3
    <2>5. g[s] = f[x] + g[r] /\ b[s] = a[x] + b[r] /\ d[s] = c[x] + d[r]
      BY <1>2, <2>2
    <2>6. f[x] = a[x] + c[x] /\ a[x] \in Int /\ c[x] \in Int /\ b[r] \in Int /\ d[r] \in Int
      BY <1>1, <2>3
    <2>7. QED BY ONLY <2>4, <2>5, <2>6
  <1> HIDE DEF Reached
  <1>5. Nat \subseteq Reached
    BY <1>3, <1>4, SetInduction
  <1>6. QED BY <1>0, <1>5 DEF Reached

LEMMA SumOfThree ==
  ASSUME NEW S, IsFiniteSet(S), NEW f \in [S -> Int], NEW g, SumsOf(g, f, S),
         NEW a \in [S -> Int], NEW ga, SumsOf(ga, a, S), NEW b \in [S -> Int], NEW gb, SumsOf(gb, b, S),
         NEW c \in [S -> Int], NEW gc, SumsOf(gc, c, S), \A x \in S : f[x] = a[x] + b[x] + c[x]
  PROVE  g[S] = ga[S] + gb[S] + gc[S]
  <1>1. PICK ab : ab = [x \in S |-> a[x] + b[x]]
    OBVIOUS
  <1>2. ab \in [S -> Int] /\ (\A x \in S : ab[x] = a[x] + b[x]) /\ \A x \in S : f[x] = ab[x] + c[x]
    BY <1>1
  <1>3. PICK gab : SumsOf(gab, ab, S)
    BY <1>2, SumsExist
  <1>4. gab[S] = ga[S] + gb[S]
    BY <1>2, <1>3, SumOfSums
  <1>5. g[S] = gab[S] + gc[S]
    BY <1>2, <1>3, SumOfSums
  <1>6. QED BY <1>4, <1>5

\* Sums of no more than two.
LEMMA SumOfFew ==
  ASSUME NEW S, IsFiniteSet(S), NEW f \in [S -> Int], NEW g, SumsOf(g, f, S)
  PROVE  /\ g[{}] = 0
         /\ \A a \in S : g[{a}] = f[a]
         /\ \A a, b \in S : a # b => g[{a, b}] = f[a] + f[b]
  <1>1. g[{}] = 0 /\ \A s \in SUBSET S : \A x \in s : g[s] = f[x] + g[s \ {x}]
    BY SumsAreIntegers, SumOfOneMore DEF Additive
  <1>2. ASSUME NEW a \in S PROVE g[{a}] = f[a]
    <2>1. {a} \in SUBSET S /\ a \in {a} /\ {a} \ {a} = {} /\ f[a] \in Int
      OBVIOUS
    <2>2. g[{a}] = f[a] + g[{}]
      BY <1>1, <2>1
    <2>3. QED BY ONLY <1>1, <2>1, <2>2
  <1>3. ASSUME NEW a \in S, NEW b \in S, a # b PROVE g[{a, b}] = f[a] + f[b]
    <2>1. {a, b} \in SUBSET S /\ a \in {a, b} /\ {a, b} \ {a} = {b}
      BY <1>3
    <2>2. g[{a, b}] = f[a] + g[{b}]
      BY <1>1, <2>1
    <2>3. QED BY <1>2, <2>2
  <1>4. QED BY <1>1, <1>2, <1>3

\* A sum of natural numbers is positive when one of them is.
LEMMA PositiveSum ==
  ASSUME NEW S, IsFiniteSet(S), NEW f \in [S -> Nat], NEW g, SumsOf(g, f, S)
  PROVE  g[S] > 0 <=> \E x \in S : f[x] > 0
  <1>1. f \in [S -> Int] /\ S \in SUBSET S
    OBVIOUS
  <1>2. \A s \in SUBSET S : g[s] \in Nat
    BY SumsAreNaturals
  <1>3. ASSUME NEW x \in S, f[x] > 0 PROVE g[S] > 0
    <2>1. g[S] = f[x] + g[S \ {x}]
      BY <1>1, SumOfOneMore DEF Additive
    <2>2. f[x] \in Nat /\ g[S \ {x}] \in Nat
      BY <1>2
    <2>3. QED BY ONLY <1>3, <2>1, <2>2
  <1>4. ASSUME \A x \in S : ~(f[x] > 0) PROVE ~(g[S] > 0)
    <2>1. ASSUME NEW x \in S PROVE f[x] = f[x] + f[x]
      <3>1. f[x] \in Nat /\ ~(f[x] > 0)
        BY <1>4
      <3>2. QED BY ONLY <3>1
    <2>2. g[S] = g[S] + g[S]
      BY <1>1, <2>1, SumOfSums
    <2>3. g[S] \in Nat
      BY <1>1, <1>2
    <2>4. QED BY ONLY <2>2, <2>3
  <1>5. QED BY <1>3, <1>4

\* The sum of the sums of groups is the sum of all.
LEMMA SumOfGroups ==
  ASSUME NEW S, IsFiniteSet(S), NEW f \in [S -> Int], NEW g, SumsOf(g, f, S),
         NEW P, IsFiniteSet(P), NEW k \in [P -> Int], NEW h, SumsOf(h, k, P),
         NEW by \in [S -> P], \A p \in P : k[p] = g[Share(by, p)]
  PROVE  h[P] = g[S]
  <1> DEFINE Those(s) == {x \in S : by[x] \in s}
             Reached == {n \in Nat : \A s \in SUBSET P : Cardinality(s) = n => h[s] = g[Those(s)]}
  <1>0. \A s \in SUBSET P : IsFiniteSet(s) /\ Cardinality(s) \in Nat
    BY FS_Subset, FS_CardinalityType
  <1>1. /\ g[{}] = 0 /\ h[{}] = 0
        /\ (\A s \in SUBSET S : g[s] \in Int) /\ \A s \in SUBSET P : h[s] \in Int
    BY SumsAreIntegers
  <1>2. \A s \in SUBSET P : \A x \in s : h[s] = k[x] + h[s \ {x}]
    <2>1. Additive(h, k, P)
      BY SumOfOneMore
    <2>2. QED BY <2>1 DEF Additive
  <1>3. 0 \in Reached
    <2>1. \A s \in SUBSET P : Cardinality(s) = 0 => s = {}
      BY <1>0, FS_EmptySet
    <2>2. Those({}) = {}
      OBVIOUS
    <2> HIDE DEF Those
    <2>3. QED BY <1>1, <2>1, <2>2
  <1>4. \A n \in Nat : n \in Reached => n + 1 \in Reached
    <2> SUFFICES ASSUME NEW n \in Nat, n \in Reached PROVE n + 1 \in Reached
      <3> HIDE DEF Reached
      <3>1. QED OBVIOUS
    <2>0. SUFFICES ASSUME NEW s \in SUBSET P, Cardinality(s) = n + 1 PROVE h[s] = g[Those(s)]
      <3> HIDE DEF Those
      <3>1. QED OBVIOUS
    <2>1. PICK p \in s : TRUE
      <3>1. n + 1 # 0
        OBVIOUS
      <3>2. QED BY <2>0, <3>1, FS_EmptySet
    <2>2. PICK r, A, B : r = s \ {p} /\ A = Share(by, p) /\ B = Those(r)
      OBVIOUS
    <2>3. r \in SUBSET P /\ Cardinality(r) = n
      <3>1. Cardinality(s \ {p}) = Cardinality(s) - 1
        BY <1>0, Removal
      <3>2. QED BY <2>0, <2>2, <3>1
    <2>4. h[r] = g[B]
      BY <2>2, <2>3
    <2>5. Those(s) = A \cup B /\ A \cap B = {} /\ A \in SUBSET S /\ B \in SUBSET S
      BY <2>1, <2>2 DEF Share
    <2>6. g[Those(s)] = g[A] + g[B]
      BY <2>5, SumOfUnion
    <2>7. h[s] = k[p] + h[r] /\ k[p] = g[A]
      BY <1>2, <2>1, <2>2
    <2> HIDE DEF Those
    <2>8. QED BY <2>4, <2>6, <2>7
  <1>5. Nat \subseteq Reached
    <2> HIDE DEF Reached
    <2>1. QED BY <1>3, <1>4, SetInduction
  <1>6. h[P] = g[Those(P)]
    BY <1>0, <1>5
  <1>7. Those(P) = S
    OBVIOUS
  <1>8. QED BY <1>6, <1>7

------------------------------------------------------------------------------
(***************************************************************************)
(* Sorting: what an insertion of the elements one after another gives, in  *)
(* whatever order CHOOSE takes them.                                       *)
(***************************************************************************)

\* q has the elements of s, each once, in the order of their keys.
InOrderOf(q, s, key) ==
  /\ q \in Seq(s) /\ Len(q) = Cardinality(s)
  /\ \A x \in s : \E i \in 1..Len(q) : q[i] = x
  /\ \A i, j \in 1..Len(q) : i < j => q[i] # q[j] /\ key[q[i]] <= key[q[j]]

\* The pairs of elements of S of which the first comes before the second are those of the keys.
OrderedBy(before, key, S) ==
  /\ key \in [S -> Int]
  /\ \A x, y \in S : x # y => (<<x, y>> \in before <=> key[x] < key[y])

\* Where x goes among q: after those that it does not come before.
PlaceAmong(q, x, before) == 1 + Cardinality({i \in DOMAIN q : <<x, q[i]>> \notin before})

\* What is sorted with one element more.
SortStep(h, s, c, before, S) ==
  h[s \ {c}] \in Seq(S) => h[s] = InsertAt(h[s \ {c}], PlaceAmong(h[s \ {c}], c, before), c)

\* h has every subset of S sorted by insertion.
Sorts(h, before, S) ==
  /\ h[{}] = <<>>
  /\ \A s \in SUBSET S : s # {} => SortStep(h, s, CHOOSE x \in s : TRUE, before, S)

\* p is q, of n elements, with x after the first k.
Puts(p, q, n, k, x, S) ==
  /\ p \in Seq(S) /\ Len(p) = n + 1 /\ p[k + 1] = x
  /\ \A i \in 1..k : p[i] = q[i]
  /\ \A i \in (k + 2)..(n + 1) : p[i] = q[i - 1]

LEMMA InsertionLands ==
  ASSUME NEW S, NEW q \in Seq(S), NEW x \in S, NEW k \in 0..Len(q)
  PROVE  Puts(InsertAt(q, 1 + k, x), q, Len(q), k, x, S)
  <1>0. PICK p : p = InsertAt(q, 1 + k, x)
    OBVIOUS
  <1>1. PICK n \in Nat : n = Len(q) /\ k \in 0..n
    OBVIOUS
  <1>2. PICK a, b : a = SubSeq(q, 1, k) /\ b = SubSeq(q, k + 1, n)
    OBVIOUS
  <1>3. a \in Seq(S) /\ Len(a) = k /\ \A i \in 1..k : a[i] = q[i]
    BY <1>1, <1>2
  <1>4. b \in Seq(S) /\ Len(b) = n - k /\ \A i \in 1..(n - k) : b[i] = q[k + i]
    BY <1>1, <1>2
  <1>5. p = a \o <<x>> \o b
    <2>1. (1 + k) - 1 = k /\ 1 + k = k + 1
      BY <1>1
    <2>2. p = SubSeq(q, 1, (1 + k) - 1) \o <<x>> \o SubSeq(q, 1 + k, Len(q))
      BY <1>0 DEF InsertAt
    <2>3. QED BY <1>1, <1>2, <2>1, <2>2
  <1>6. PICK c : c = a \o <<x>>
    OBVIOUS
  <1>7. c \in Seq(S) /\ Len(c) = k + 1 /\ c[k + 1] = x /\ \A i \in 1..k : c[i] = a[i]
    BY <1>1, <1>3, <1>6
  <1>8. p = c \o b
    BY <1>5, <1>6
  <1>9. /\ p \in Seq(S) /\ Len(p) = n + 1
        /\ \A i \in 1..(n + 1) : p[i] = IF i <= k + 1 THEN c[i] ELSE b[i - (k + 1)]
    <2>1. /\ p \in Seq(S) /\ Len(p) = Len(c) + Len(b)
          /\ \A i \in 1..(Len(c) + Len(b)) : p[i] = IF i <= Len(c) THEN c[i] ELSE b[i - Len(c)]
      <3>1. b \in Seq(S) /\ c \in Seq(S)
        BY <1>4, <1>7
      <3>2. /\ c \o b \in Seq(S) /\ Len(c \o b) = Len(c) + Len(b)
            /\ \A i \in 1..(Len(c) + Len(b)) : (c \o b)[i] = IF i <= Len(c) THEN c[i] ELSE b[i - Len(c)]
        BY ONLY <3>1, ConcatProperties
      <3>3. QED BY <1>8, <3>2
    <2>2. Len(c) = k + 1 /\ Len(c) + Len(b) = n + 1
      BY <1>1, <1>4, <1>7
    <2>3. QED BY <2>1, <2>2
  <1>10. \A i \in 1..(k + 1) : p[i] = c[i]
    BY <1>1, <1>9
  <1>11. \A i \in (k + 2)..(n + 1) : p[i] = b[i - (k + 1)]
    BY <1>1, <1>9
  <1>12. \A i \in (k + 2)..(n + 1) : b[i - (k + 1)] = q[i - 1]
    <2>1. SUFFICES ASSUME NEW i \in (k + 2)..(n + 1) PROVE b[i - (k + 1)] = q[i - 1]
      OBVIOUS
    <2>2. PICK j : j = i - (k + 1)
      OBVIOUS
    <2>3. j \in 1..(n - k) /\ k + j = i - 1
      BY <1>1, <2>2
    <2>4. QED BY <1>4, <2>2, <2>3
  <1>13. k + 1 \in 1..(k + 1) /\ \A i \in 1..k : i \in 1..(k + 1)
    BY <1>1
  <1>14. p[k + 1] = x /\ \A i \in 1..k : p[i] = q[i]
    BY <1>3, <1>7, <1>10, <1>13
  <1>15. \A i \in (k + 2)..(n + 1) : p[i] = q[i - 1]
    BY <1>11, <1>12
  <1>16. Puts(p, q, n, k, x, S)
    BY <1>9, <1>14, <1>15 DEF Puts
  <1>17. QED BY <1>0, <1>1, <1>16


\* A place is one of the places.
LEMMA PlaceIsPlace ==
  ASSUME NEW S, NEW q \in Seq(S), NEW x, NEW before
  PROVE  \E k \in 0..Len(q) : PlaceAmong(q, x, before) = 1 + k
  <1> DEFINE T == {i \in DOMAIN q : <<x, q[i]>> \notin before}
  <1>1. PICK n \in Nat : n = Len(q) /\ DOMAIN q = 1..n
    OBVIOUS
  <1>2. T \subseteq 1..n
    BY <1>1
  <1>3. PlaceAmong(q, x, before) = 1 + Cardinality(T)
    BY DEF PlaceAmong
  <1> HIDE DEF T
  <1>4. IsFiniteSet(1..n) /\ Cardinality(1..n) = n
    BY FS_Interval
  <1>5. Cardinality(T) \in Nat /\ Cardinality(T) <= n
    BY <1>2, <1>4, FS_Subset, FS_CardinalityType
  <1>6. PICK k \in 0..n : k = Cardinality(T)
    BY <1>5
  <1>7. QED BY <1>1, <1>3, <1>6

\* Before the place of x are those whose key is no greater, and no others.
LEMMA PlaceIsBetween ==
  ASSUME NEW S, NEW key, NEW before, OrderedBy(before, key, S), NEW s \in SUBSET S, NEW q, InOrderOf(q, s, key),
         NEW x \in S \ s
  PROVE  \E k \in 0..Len(q) : /\ PlaceAmong(q, x, before) = 1 + k
                              /\ \A i \in 1..Len(q) : i <= k <=> key[q[i]] <= key[x]
  <1> DEFINE T == {i \in DOMAIN q : <<x, q[i]>> \notin before}
  <1>1. PICK n \in Nat : n = Len(q) /\ DOMAIN q = 1..n /\ \A i \in 1..n : q[i] \in s
    BY DEF InOrderOf
  <1>2. ASSUME NEW i \in 1..n
        PROVE  i \in T <=> key[q[i]] <= key[x]
    <2>1. PICK a, b : a = key[q[i]] /\ b = key[x]
      OBVIOUS
    <2>2. q[i] \in S /\ q[i] # x /\ a \in Int /\ b \in Int
      BY <1>1, <2>1 DEF OrderedBy
    <2>3. i \in T <=> ~(b < a)
      BY <1>1, <2>1, <2>2 DEF OrderedBy
    <2>4. ~(b < a) <=> a <= b
      BY ONLY <2>2
    <2>5. QED BY <2>1, <2>3, <2>4
  <1>3. T \in SUBSET (1..n) /\ PlaceAmong(q, x, before) = 1 + Cardinality(T)
    BY <1>1 DEF PlaceAmong
  <1> HIDE DEF T
  <1>4. ASSUME NEW i \in T, NEW j \in 1..i
        PROVE  j \in T
    <2>1. j \in 1..n /\ i \in 1..n /\ (j < i \/ j = i)
      BY <1>3
    <2>2. PICK a, b, c : a = key[q[j]] /\ b = key[q[i]] /\ c = key[x]
      OBVIOUS
    <2>3. a \in Int /\ b \in Int /\ c \in Int
      BY <1>1, <2>1, <2>2 DEF OrderedBy
    <2>4. a <= b
      <3>1. j < i => a <= b
        BY <1>1, <2>1, <2>2 DEF InOrderOf
      <3>2. j = i => a = b
        BY <2>2
      <3>3. QED BY <2>1, <2>3, <3>1, <3>2
    <2>5. b <= c
      BY <1>2, <1>4, <2>1, <2>2
    <2>6. a <= c
      BY ONLY <2>3, <2>4, <2>5
    <2>7. QED BY <1>2, <2>1, <2>2, <2>6
  <1>5. PICK k \in 0..n : k = Cardinality(T) /\ T = 1..k
    BY <1>3, <1>4, FirstPlaces
  <1>6. \A i \in 1..n : i <= k <=> key[q[i]] <= key[x]
    <2>1. \A i \in 1..n : i \in 1..k <=> i <= k
      OBVIOUS
    <2>2. QED BY <1>2, <1>5, <2>1
  <1>7. QED BY <1>1, <1>3, <1>5, <1>6

LEMMA InsertionKeepsOrder ==
  ASSUME NEW S, IsFiniteSet(S), NEW key, NEW before, OrderedBy(before, key, S), NEW s \in SUBSET S, NEW q,
         InOrderOf(q, s, key), NEW x \in S \ s, NEW p, p = InsertAt(q, PlaceAmong(q, x, before), x)
  PROVE  InOrderOf(p, s \cup {x}, key)
  <1>1. PICK n \in Nat : n = Len(q) /\ DOMAIN q = 1..n /\ n = Cardinality(s) /\ \A i \in 1..n : q[i] \in s
    BY DEF InOrderOf
  <1>2. PICK k \in 0..n : PlaceAmong(q, x, before) = 1 + k /\ \A i \in 1..n : i <= k <=> key[q[i]] <= key[x]
    BY <1>1, PlaceIsBetween
  <1>3. q \in Seq(s \cup {x})
    BY DEF InOrderOf
  <1>4. /\ p \in Seq(s \cup {x}) /\ Len(p) = n + 1 /\ p[k + 1] = x
        /\ \A i \in 1..k : p[i] = q[i]
        /\ \A i \in (k + 2)..(n + 1) : p[i] = q[i - 1]
    <2>1. PICK U : U = s \cup {x}
      OBVIOUS
    <2>2. q \in Seq(U) /\ x \in U /\ k \in 0..Len(q)
      BY <1>1, <1>2, <1>3, <2>1
    <2>3. Puts(InsertAt(q, 1 + k, x), q, Len(q), k, x, U)
      BY ONLY <2>2, InsertionLands
    <2>4. Puts(p, q, n, k, x, U)
      BY <1>1, <1>2, <2>3
    <2>5. QED BY <2>1, <2>4 DEF Puts
  <1>5. Cardinality(s \cup {x}) = n + 1
    <2>1. IsFiniteSet(s)
      BY FS_Subset
    <2>2. QED BY <1>1, <2>1, FS_AddElement
  <1>6. ASSUME NEW y \in s \cup {x}
        PROVE  \E i \in 1..(n + 1) : p[i] = y
    <2>1. CASE y = x
      <3>1. k + 1 \in 1..(n + 1)
        BY <1>2
      <3>2. QED BY <1>4, <2>1, <3>1
    <2>2. CASE y \in s
      <3>1. PICK i \in 1..n : q[i] = y
        BY <1>1, <2>2 DEF InOrderOf
      <3>2. CASE i <= k
        <4>1. i \in 1..k /\ i \in 1..(n + 1)
          BY <1>2, <3>2
        <4>2. QED BY <1>4, <3>1, <4>1
      <3>3. CASE ~(i <= k)
        <4>1. i + 1 \in (k + 2)..(n + 1) /\ i + 1 \in 1..(n + 1) /\ (i + 1) - 1 = i
          BY <1>2, <3>3
        <4>2. p[i + 1] = y
          BY <1>4, <3>1, <4>1
        <4>3. QED BY <4>1, <4>2
      <3>4. QED BY <3>2, <3>3
    <2>3. QED BY <2>1, <2>2
  <1>7. /\ \A a \in 1..n : key[q[a]] \in Int /\ q[a] # x
        /\ key[x] \in Int
        /\ \A a, b \in 1..n : a < b => q[a] # q[b] /\ key[q[a]] <= key[q[b]]
        /\ \A a \in 1..n : ~(a <= k) => key[x] <= key[q[a]]
    <2>1. \A a \in 1..n : key[q[a]] \in Int /\ q[a] # x
      BY <1>1 DEF OrderedBy
    <2>2. key[x] \in Int /\ \A a, b \in 1..n : a < b => q[a] # q[b] /\ key[q[a]] <= key[q[b]]
      BY <1>1 DEF InOrderOf, OrderedBy
    <2>3. QED BY <1>2, <2>1, <2>2
  <1>8. ASSUME NEW i \in 1..(n + 1), NEW j \in 1..(n + 1), i < j
        PROVE  p[i] # p[j] /\ key[p[i]] <= key[p[j]]
    <2>1. PICK a, b : a = i - 1 /\ b = j - 1
      OBVIOUS
    <2>2. CASE j <= k
      <3>1. i \in 1..k /\ j \in 1..k /\ i \in 1..n /\ j \in 1..n
        BY <1>2, <1>8, <2>2
      <3>2. QED BY <1>4, <1>7, <1>8, <3>1
    <2>3. CASE j = k + 1
      <3>1. i \in 1..k /\ i \in 1..n /\ i <= k
        BY <1>2, <1>8, <2>3
      <3>2. QED BY <1>2, <1>4, <1>7, <2>3, <3>1
    <2>4. CASE j > k + 1
      <3>1. j \in (k + 2)..(n + 1) /\ b \in 1..n /\ ~(b <= k)
        BY <1>2, <2>1, <2>4
      <3>2. p[j] = q[b]
        BY <1>4, <2>1, <3>1
      <3>3. CASE i <= k
        <4>1. i \in 1..k /\ i \in 1..n /\ i < b
          BY <1>2, <1>8, <2>1, <2>4, <3>3
        <4>2. p[i] = q[i]
          BY ONLY <1>4, <4>1
        <4>3. q[i] # q[b] /\ key[q[i]] <= key[q[b]]
          BY ONLY <1>7, <3>1, <4>1
        <4>4. QED BY ONLY <3>2, <4>2, <4>3
      <3>4. CASE i = k + 1
        <4>1. p[i] = x
          BY ONLY <1>4, <3>4
        <4>2. x # q[b] /\ key[x] <= key[q[b]]
          BY ONLY <1>7, <3>1
        <4>3. QED BY ONLY <3>2, <4>1, <4>2
      <3>5. CASE i > k + 1
        <4>1. i \in (k + 2)..(n + 1) /\ a \in 1..n /\ a < b
          BY <1>2, <1>8, <2>1, <3>5
        <4>2. p[i] = q[a]
          BY <1>4, <2>1, <4>1
        <4>3. q[a] # q[b] /\ key[q[a]] <= key[q[b]]
          BY ONLY <1>7, <3>1, <4>1
        <4>4. QED BY ONLY <3>2, <4>2, <4>3
      <3>6. QED BY <1>2, <3>3, <3>4, <3>5
    <2>5. QED BY <1>2, <2>2, <2>3, <2>4
  <1>9. QED BY <1>4, <1>5, <1>6, <1>8 DEF InOrderOf

\* Every set can be sorted by insertion.
LEMMA SortsExist ==
  ASSUME NEW S, IsFiniteSet(S), NEW before
  PROVE  \E h \in [SUBSET S -> Seq(S)] : Sorts(h, before, S)
  <1> DEFINE F == [c \in S \X Seq(S) |-> InsertAt(c[2], PlaceAmong(c[2], c[1], before), c[1])]
  <1>1. ASSUME NEW q \in Seq(S), NEW x \in S
        PROVE  InsertAt(q, PlaceAmong(q, x, before), x) \in Seq(S)
    <2>1. PICK k \in 0..Len(q) : PlaceAmong(q, x, before) = 1 + k
      BY PlaceIsPlace
    <2>2. Puts(InsertAt(q, 1 + k, x), q, Len(q), k, x, S)
      BY <2>1, InsertionLands
    <2>3. QED BY <2>1, <2>2 DEF Puts
  <1>2. F \in [S \X Seq(S) -> Seq(S)]
    <2>1. \A c \in S \X Seq(S) : c[1] \in S /\ c[2] \in Seq(S)
      OBVIOUS
    <2>2. QED BY <1>1, <2>1
  <1>3. PICK pick : /\ \A s \in SUBSET S : pick[s] = CHOOSE x \in s : TRUE
                    /\ \A s \in SUBSET S : s # {} => pick[s] \in s
    <2>1. PICK pick : pick = [s \in SUBSET S |-> CHOOSE x \in s : TRUE]
      OBVIOUS
    <2>2. QED BY <2>1
  <1>4. PICK h \in [SUBSET S -> Seq(S)] : \A s \in SUBSET S : h[s] = Folded(F, <<>>, pick, h, s)
    <2> HIDE DEF F
    <2>1. PICK X, base, G : X = Seq(S) /\ base = <<>> /\ G = F
      OBVIOUS
    <2>2. IsFiniteSet(S) /\ base \in X /\ G \in [S \X X -> X] /\ \A s \in SUBSET S : s # {} => pick[s] \in s
      BY <1>2, <1>3, <2>1
    <2>3. \E g : g \in [SUBSET S -> X] /\ FoldsOf(g, G, base, pick, S)
      BY ONLY <2>2, FoldsExist
    <2>4. QED BY <2>1, <2>3 DEF FoldsOf
  <1>5. h[{}] = <<>>
    BY <1>4 DEF Folded
  <1>6. ASSUME NEW s \in SUBSET S, s # {}
        PROVE  SortStep(h, s, CHOOSE x \in s : TRUE, before, S)
    <2>1. PICK c : c = CHOOSE x \in s : TRUE
      OBVIOUS
    <2>2. c \in S /\ s \ {c} \in SUBSET S
      BY <1>6, <2>1
    <2>3. PICK q : q = h[s \ {c}] /\ q \in Seq(S)
      BY <1>4, <2>2
    <2>4. h[s] = F[<<c, q>>]
      <3> HIDE DEF F
      <3>1. QED BY <1>3, <1>4, <1>6, <2>1, <2>3 DEF Folded
    <2>5. F[<<c, q>>] = InsertAt(q, PlaceAmong(q, c, before), c)
      BY <2>2, <2>3
    <2> HIDE DEF F
    <2>6. QED BY <2>1, <2>3, <2>4, <2>5 DEF SortStep
  <1> HIDE DEF F
  <1>7. Sorts(h, before, S)
    BY <1>5, <1>6 DEF Sorts
  <1>8. QED BY <1>4, <1>7

\* What is sorted by insertion is a sequence of the elements.
LEMMA SortIsSequence ==
  ASSUME NEW S, IsFiniteSet(S), NEW before, NEW h, Sorts(h, before, S)
  PROVE  \A s \in SUBSET S : h[s] \in Seq(S)
  <1> DEFINE Reached == {n \in Nat : \A s \in SUBSET S : Cardinality(s) = n => h[s] \in Seq(S)}
  <1>1. \A s \in SUBSET S : IsFiniteSet(s) /\ Cardinality(s) \in Nat
    BY FS_Subset, FS_CardinalityType
  <1>2. 0 \in Reached
    <2>1. ASSUME NEW s \in SUBSET S, Cardinality(s) = 0
          PROVE  h[s] \in Seq(S)
      <3>1. s = {}
        BY <1>1, <2>1, FS_EmptySet
      <3>2. h[s] = <<>>
        BY <3>1 DEF Sorts
      <3>3. QED BY ONLY <3>2
    <2>2. QED BY <2>1
  <1>3. \A n \in Nat : n \in Reached => n + 1 \in Reached
    <2> SUFFICES ASSUME NEW n \in Nat, n \in Reached PROVE n + 1 \in Reached
      <3> HIDE DEF Reached
      <3>1. QED OBVIOUS
    <2>0. SUFFICES ASSUME NEW s \in SUBSET S, Cardinality(s) = n + 1 PROVE h[s] \in Seq(S)
      OBVIOUS
    <2>1. s # {}
      <3>1. n + 1 # 0
        OBVIOUS
      <3>2. QED BY <2>0, <3>1, FS_EmptySet
    <2>2. PICK c : c = CHOOSE x \in s : TRUE
      OBVIOUS
    <2>3. c \in s /\ s \ {c} \in SUBSET S
      BY <2>1, <2>2
    <2>4. Cardinality(s \ {c}) = n
      <3>1. Cardinality(s \ {c}) = Cardinality(s) - 1
        BY <1>1, <2>3, Removal
      <3>2. QED BY <2>0, <3>1
    <2>5. PICK q : q = h[s \ {c}] /\ q \in Seq(S)
      BY <2>3, <2>4
    <2>6. h[s] = InsertAt(q, PlaceAmong(q, c, before), c)
      BY <2>1, <2>2, <2>5 DEF Sorts, SortStep
    <2>7. PICK k \in 0..Len(q) : PlaceAmong(q, c, before) = 1 + k
      BY <2>5, PlaceIsPlace
    <2>8. c \in S
      BY <2>3
    <2>9. Puts(InsertAt(q, 1 + k, c), q, Len(q), k, c, S)
      BY ONLY <2>5, <2>7, <2>8, InsertionLands
    <2>10. QED BY <2>6, <2>7, <2>9 DEF Puts
  <1> HIDE DEF Reached
  <1>4. Nat \subseteq Reached
    BY <1>2, <1>3, SetInduction
  <1>5. QED BY <1>1, <1>4 DEF Reached

\* And it has them in order.
LEMMA SortIsInOrder ==
  ASSUME NEW S, IsFiniteSet(S), NEW before, NEW key, OrderedBy(before, key, S), NEW h, Sorts(h, before, S)
  PROVE  InOrderOf(h[S], S, key)
  <1> DEFINE Reached == {n \in Nat : \A s \in SUBSET S : Cardinality(s) = n => InOrderOf(h[s], s, key)}
  <1>1. \A s \in SUBSET S : IsFiniteSet(s) /\ Cardinality(s) \in Nat /\ h[s] \in Seq(S)
    BY FS_Subset, FS_CardinalityType, SortIsSequence
  <1>2. 0 \in Reached
    <2>1. ASSUME NEW s \in SUBSET S, Cardinality(s) = 0
          PROVE  InOrderOf(h[s], s, key)
      <3>1. s = {} /\ h[s] = <<>>
        BY <1>1, <2>1, FS_EmptySet DEF Sorts
      <3>2. <<>> \in Seq({}) /\ Len(<<>>) = 0
        OBVIOUS
      <3>3. QED BY <2>1, <3>1, <3>2 DEF InOrderOf
    <2>2. QED BY <2>1
  <1>3. \A n \in Nat : n \in Reached => n + 1 \in Reached
    <2> SUFFICES ASSUME NEW n \in Nat, n \in Reached PROVE n + 1 \in Reached
      <3> HIDE DEF Reached
      <3>1. QED OBVIOUS
    <2>0. SUFFICES ASSUME NEW s \in SUBSET S, Cardinality(s) = n + 1 PROVE InOrderOf(h[s], s, key)
      OBVIOUS
    <2>1. s # {}
      <3>1. n + 1 # 0
        OBVIOUS
      <3>2. QED BY <2>0, <3>1, FS_EmptySet
    <2>2. PICK c, left : c = (CHOOSE x \in s : TRUE) /\ left = s \ {c}
      OBVIOUS
    <2>3. c \in s /\ left \in SUBSET S /\ c \in S \ left /\ s = left \cup {c}
      BY <2>1, <2>2
    <2>4. Cardinality(left) = n
      <3>1. Cardinality(left) = Cardinality(s) - 1
        BY <1>1, <2>2, <2>3, Removal
      <3>2. QED BY <2>0, <3>1
    <2>5. PICK q : q = h[left] /\ InOrderOf(q, left, key)
      BY <2>3, <2>4
    <2>6. h[s] = InsertAt(q, PlaceAmong(q, c, before), c)
      BY <1>1, <2>1, <2>2, <2>3, <2>5 DEF Sorts, SortStep
    <2>7. InOrderOf(h[s], left \cup {c}, key)
      BY <2>3, <2>5, <2>6, InsertionKeepsOrder
    <2>8. QED BY <2>3, <2>7
  <1> HIDE DEF Reached
  <1>4. Nat \subseteq Reached
    BY <1>2, <1>3, SetInduction
  <1>5. QED BY <1>1, <1>4 DEF Reached

\* A set of the first numbers has a last one.
LEMMA LastOfSome ==
  ASSUME NEW n \in Nat, NEW T \in SUBSET (1..n), T # {}
  PROVE  Max(T) \in T /\ \A y \in T : y <= Max(T)
  <1> DEFINE Reached == {m \in Nat : \A A \in SUBSET (1..m) : A # {} => \E x \in A : \A y \in A : x >= y}
  <1>1. 0 \in Reached
    <2>1. ASSUME NEW A \in SUBSET (1..0), A # {}
          PROVE  \E x \in A : \A y \in A : x >= y
      <3>1. A = {}
        OBVIOUS
      <3>2. QED BY <2>1, <3>1
    <2>2. QED BY <2>1
  <1>2. \A m \in Nat : m \in Reached => m + 1 \in Reached
    <2> SUFFICES ASSUME NEW m \in Nat, m \in Reached PROVE m + 1 \in Reached
      <3> HIDE DEF Reached
      <3>1. QED OBVIOUS
    <2>1. ASSUME NEW A \in SUBSET (1..(m + 1)), A # {}
          PROVE  \E x \in A : \A y \in A : x >= y
      <3>1. CASE m + 1 \in A
        <4>1. \A y \in A : m + 1 >= y
          BY <2>1
        <4>2. QED BY <3>1, <4>1
      <3>2. CASE m + 1 \notin A
        <4>1. A \in SUBSET (1..m)
          BY <2>1, <3>2
        <4>2. QED BY <2>1, <4>1
      <3>3. QED BY <3>1, <3>2
    <2>2. m + 1 \in Nat
      OBVIOUS
    <2>3. QED BY <2>1, <2>2
  <1>3. n \in Reached
    <2> HIDE DEF Reached
    <2>1. QED BY <1>1, <1>2, SetInduction
  <1>4. \E x \in T : \A y \in T : x >= y
    BY <1>3
  <1>5. PICK x : x = Max(T)
    OBVIOUS
  <1>6. x \in T /\ \A y \in T : x >= y
    BY <1>4, <1>5 DEF Max
  <1>7. \A y \in T : y <= x
    BY <1>6
  <1>8. QED BY <1>5, <1>6, <1>7

LEMMA LastOfFirst ==
  ASSUME NEW k \in Nat
  PROVE  Max(1..(k + 1)) = k + 1 /\ (1..(k + 1)) \ {k + 1} = 1..k
  <1>1. PICK T : T = 1..(k + 1)
    OBVIOUS
  <1>2. k + 1 \in Nat /\ T \in SUBSET (1..(k + 1)) /\ T # {} /\ k + 1 \in T
    BY <1>1
  <1>3. PICK m : m = Max(T)
    OBVIOUS
  <1>4. m \in T /\ k + 1 <= m
    BY <1>2, <1>3, LastOfSome
  <1>5. m = k + 1
    BY <1>1, <1>4
  <1>6. (1..(k + 1)) \ {k + 1} = 1..k
    OBVIOUS
  <1>7. QED BY <1>1, <1>3, <1>5, <1>6

\* g has the fold from the left over the first places, and over every set of places.
LeftFolds(g, F, base, n) ==
  \A T \in SUBSET (1..n) : g[T] = IF T = {} THEN base ELSE F[<<Max(T), g[T \ {Max(T)}]>>]

\* Every function of the places has its folds from the left.
LEMMA LeftFoldsExist ==
  ASSUME NEW n \in Nat, NEW X, NEW base \in X, NEW F \in [(1..n) \X X -> X]
  PROVE  \E g \in [SUBSET (1..n) -> X] : LeftFolds(g, F, base, n)
  <1>1. PICK S : S = 1..n
    OBVIOUS
  <1>2. PICK pick : pick = [T \in SUBSET S |-> Max(T)]
    OBVIOUS
  <1>3. \A T \in SUBSET S : pick[T] = Max(T)
    BY <1>2
  <1>4. IsFiniteSet(S) /\ \A T \in SUBSET S : T # {} => pick[T] \in T
    <2>1. IsFiniteSet(1..n)
      BY FS_Interval
    <2>2. \A T \in SUBSET (1..n) : T # {} => Max(T) \in T
      BY LastOfSome
    <2>3. QED BY <1>1, <1>3, <2>1, <2>2
  <1>5. F \in [S \X X -> X]
    BY <1>1
  <1>6. \E g : g \in [SUBSET S -> X] /\ FoldsOf(g, F, base, pick, S)
    BY ONLY <1>4, <1>5, base \in X, FoldsExist
  <1>7. PICK g : g \in [SUBSET S -> X] /\ FoldsOf(g, F, base, pick, S)
    BY <1>6
  <1>8. LeftFolds(g, F, base, n)
    BY <1>1, <1>3, <1>7 DEF FoldsOf, Folded, LeftFolds
  <1>9. QED BY <1>1, <1>7, <1>8

------------------------------------------------------------------------------
(***************************************************************************)
(* Numbers: the larger, the smaller, a line that falls.                    *)
(***************************************************************************)

LEMMA MaxOfTwo ==
  ASSUME NEW a \in Int, NEW b \in Int
  PROVE  Max({a, b}) = IF a >= b THEN a ELSE b
  <1>1. \A x \in {a, b} : (\A y \in {a, b} : x >= y) <=> x = IF a >= b THEN a ELSE b
    OBVIOUS
  <1>2. QED BY <1>1 DEF Max

LEMMA MinOfTwo ==
  ASSUME NEW a \in Int, NEW b \in Int
  PROVE  Min({a, b}) = IF a <= b THEN a ELSE b
  <1>1. \A x \in {a, b} : (\A y \in {a, b} : x <= y) <=> x = IF a <= b THEN a ELSE b
    OBVIOUS
  <1>2. QED BY <1>1 DEF Min

LEMMA SmallerOfTwo ==
  ASSUME NEW a \in Int, NEW b \in Int, NEW c, c = Min({a, b})
  PROVE  c \in {a, b} /\ c <= a /\ c <= b
  BY DEF Min

LEMMA WithinBound ==
  ASSUME NEW n \in Nat, NEW a \in Nat
  PROVE  Min({n, a}) \in 0..n
  <1>1. PICK c : c = Min({n, a})
    OBVIOUS
  <1>2. c \in {n, a} /\ c <= n
    BY ONLY n \in Int, a \in Int, <1>1, SmallerOfTwo
  <1>3. c \in 0..n
    BY ONLY n \in Nat, a \in Nat, <1>2
  <1>4. QED BY ONLY <1>1, <1>3

LEMMA LargerOfTwo ==
  ASSUME NEW a \in Int, NEW b \in Int, NEW c, c = Max({a, b})
  PROVE  c \in {a, b} /\ c >= a /\ c >= b
  BY DEF Max

\* A number that is brought within bounds.
LEMMA Clamped ==
  ASSUME NEW n \in Nat, NEW a \in Int, NEW b, b = Min({n, a}), NEW c, c = Max({0, b})
  PROVE  c \in 0..n
  <1>1. b \in {n, a} /\ b <= n
    BY ONLY n \in Int, a \in Int, b = Min({n, a}), SmallerOfTwo
  <1>2. b \in Int
    BY ONLY n \in Nat, a \in Int, <1>1
  <1>3. c \in {0, b} /\ c >= 0
    BY ONLY 0 \in Int, <1>2, c = Max({0, b}), LargerOfTwo
  <1>4. QED BY ONLY n \in Nat, <1>1, <1>2, <1>3

\* The law of whole quotients.
LEMMA FloorLaw ==
  ASSUME NEW a \in Nat, NEW b \in Nat, b > 0, NEW c, c = a \div b
  PROVE  c \in Nat /\ b * c <= a /\ a - b * c < b
  <1>1. a = b * (a \div b) + (a % b) /\ a \div b \in Int /\ (a % b) \in 0..(b - 1)
    OBVIOUS
  <1>2. a \div b \in Nat
    OBVIOUS
  <1>3. QED BY <1>1, <1>2

LEMMA ProductGrows ==
  ASSUME NEW b \in Nat, NEW c \in Int, NEW d \in Int, d <= c
  PROVE  b * d <= b * c
  OBVIOUS

PointsOf(total, drop, length) == [d \in 1..length |-> Max({0, total - drop * (d - 1)})]

\* The points of a straight line never rise, and they are below one day's
\* reduction on the day the quotient names and not before it.
LineFallsOn(points, length, drop, clear) ==
  /\ DOMAIN points = 1..length
  /\ \A d \in 2..length : points[d] <= points[d - 1]
  /\ clear + 1 \in 1..length => points[clear + 1] < drop
  /\ \A d \in 1..length : d <= clear => points[d] >= drop

LEMMA LineFalls ==
  ASSUME NEW total \in Nat, NEW drop \in Nat, drop > 0, NEW clear, clear = total \div drop,
         NEW length \in Nat, NEW points, points = PointsOf(total, drop, length)
  PROVE  Len(points) = length /\ LineFallsOn(points, length, drop, clear)
  <1>1. clear \in Nat /\ drop * clear <= total /\ total - drop * clear < drop
    BY FloorLaw
  <1>2. points = [d \in 1..length |-> Max({0, total - drop * (d - 1)})]
    BY DEF PointsOf
  <1>3. \A d \in 1..length : total - drop * (d - 1) \in Int
    OBVIOUS
  <1>4. ASSUME NEW d \in 1..length
        PROVE  /\ points[d] \in {0, total - drop * (d - 1)} /\ points[d] >= 0 /\ points[d] >= total - drop * (d - 1)
               /\ points[d] \in Int
    <2>1. PICK y \in Int : y = total - drop * (d - 1)
      BY <1>3
    <2>2. points[d] = Max({0, y})
      BY <1>2, <2>1
    <2>3. points[d] \in {0, y} /\ points[d] >= 0 /\ points[d] >= y
      BY ONLY <2>2, 0 \in Int, y \in Int, LargerOfTwo
    <2>4. QED BY <2>1, <2>3
  <1>5. Len(points) = length /\ DOMAIN points = 1..length
    BY <1>2
  <1>6. ASSUME NEW d \in 2..length
        PROVE  points[d] <= points[d - 1]
    <2>1. d \in 1..length /\ d - 1 \in 1..length /\ d - 1 \in Int /\ (d - 1) - 1 \in Int /\ (d - 1) - 1 <= d - 1
      BY <1>6
    <2>2. drop * ((d - 1) - 1) <= drop * (d - 1)
      BY ONLY <2>1, drop \in Nat, ProductGrows
    <2>3. PICK x, y : x = drop * (d - 1) /\ y = drop * ((d - 1) - 1)
      OBVIOUS
    <2>4. x \in Int /\ y \in Int /\ y <= x
      BY ONLY <2>1, <2>2, <2>3, drop \in Nat
    <2>5. PICK p, q : p = points[d] /\ q = points[d - 1]
      OBVIOUS
    <2>6. p \in {0, total - x} /\ q >= 0 /\ q >= total - y /\ p \in Int /\ q \in Int
      BY <1>4, <2>1, <2>3, <2>5
    <2>7. p <= q
      BY ONLY <2>4, <2>6, total \in Nat
    <2>8. QED BY <2>5, <2>7
  <1>7. ASSUME clear + 1 \in 1..length
        PROVE  points[clear + 1] < drop
    <2>1. (clear + 1) - 1 = clear
      BY <1>1
    <2>2. points[clear + 1] \in {0, total - drop * clear}
      BY <1>4, <1>7, <2>1
    <2>3. QED BY <1>1, <2>2
  <1>8. ASSUME NEW d \in 1..length, d <= clear
        PROVE  points[d] >= drop
    <2>1. drop * d <= drop * clear
      BY ONLY <1>1, <1>8, d \in 1..length, drop \in Nat, ProductGrows
    <2>2. drop * (d - 1) = drop * d - drop
      OBVIOUS
    <2>3. PICK x, y : x = drop * d /\ y = drop * clear
      OBVIOUS
    <2>4. x \in Int /\ y \in Int /\ x <= y /\ y <= total
      BY <1>1, <2>1, <2>3
    <2>5. points[d] >= total - (x - drop) /\ points[d] \in Int
      BY <1>4, <2>2, <2>3
    <2>6. QED BY ONLY <2>4, <2>5, total \in Nat, drop \in Nat
  <1>9. QED BY <1>5, <1>6, <1>7, <1>8 DEF LineFallsOn

------------------------------------------------------------------------------
(***************************************************************************)
(* Sequences that grow, and one after another.                             *)
(***************************************************************************)

LEMMA AppendKeeps ==
  ASSUME NEW S, NEW g \in Seq(S), NEW x
  PROVE  /\ Len(g) \in Nat /\ Len(Append(g, x)) = Len(g) + 1
         /\ Append(g, x)[Len(g) + 1] = x /\ \A i \in 1..Len(g) : Append(g, x)[i] = g[i]
         /\ (g = <<>> <=> Len(g) = 0)
  <1>1. Len(g) = 0 => g = <<>>
    OBVIOUS
  <1>2. Len(g) \in Nat /\ Len(Append(g, x)) = Len(g) + 1 /\ Append(g, x)[Len(g) + 1] = x
    OBVIOUS
  <1>3. \A i \in 1..Len(g) : Append(g, x)[i] = g[i]
    OBVIOUS
  <1>4. QED BY <1>1, <1>2, <1>3

LEMMA TwoReversed ==
  ASSUME NEW q, Len(q) = 2
  PROVE  Reverse(q)[1] = q[2] /\ Reverse(q)[2] = q[1]
  <1>1. PICK n : n = Len(q)
    OBVIOUS
  <1>2. n = 2 /\ Reverse(q) = [i \in 1..n |-> q[(n - i) + 1]]
    BY <1>1 DEF Reverse
  <1>3. QED BY ONLY <1>2

\* The beginning of a sequence that grows.
LEMMA PrefixStays ==
  ASSUME NEW S, NEW g \in Seq(S), NEW x \in S, NEW j \in 1..(Len(g) + 1)
  PROVE  SubSeq(Append(g, x), 1, j - 1) = SubSeq(g, 1, j - 1)
  <1>1. /\ SubSeq(Append(g, x), 1, j - 1) \in Seq(S) /\ SubSeq(g, 1, j - 1) \in Seq(S)
        /\ Len(SubSeq(Append(g, x), 1, j - 1)) = j - 1 /\ Len(SubSeq(g, 1, j - 1)) = j - 1
    OBVIOUS
  <1>2. ASSUME NEW k \in 1..(j - 1)
        PROVE  SubSeq(Append(g, x), 1, j - 1)[k] = SubSeq(g, 1, j - 1)[k]
    <2>1. SubSeq(Append(g, x), 1, j - 1)[k] = Append(g, x)[k] /\ SubSeq(g, 1, j - 1)[k] = g[k]
      OBVIOUS
    <2>2. QED BY <2>1
  <1>3. PICK a, b : a = SubSeq(Append(g, x), 1, j - 1) /\ b = SubSeq(g, 1, j - 1)
    OBVIOUS
  <1>4. QED BY <1>1, <1>2, <1>3

LEMMA WholePrefix ==
  ASSUME NEW S, NEW g \in Seq(S)
  PROVE  SubSeq(g, 1, Len(g)) = g
  OBVIOUS

\* One sequence after another, of these lengths.
Joins(q, u, v, n, k) ==
  Len(q) = n + k /\ (\A i \in 1..n : q[i] = u[i]) /\ \A i \in 1..k : q[n + i] = v[i]

LEMMA Joined ==
  ASSUME NEW S, NEW u \in Seq(S), NEW v \in Seq(S), NEW n, n = Len(u), NEW k, k = Len(v), NEW q, q = u \o v
  PROVE  q \in Seq(S) /\ Joins(q, u, v, n, k)
  <1>1. q \in Seq(S) /\ Len(q) = n + k /\ \A i \in 1..(n + k) : q[i] = IF i <= n THEN u[i] ELSE v[i - n]
    BY ConcatProperties
  <1>2. n \in Nat /\ k \in Nat
    OBVIOUS
  <1>3. ASSUME NEW i \in 1..n PROVE q[i] = u[i]
    <2>1. i \in 1..(n + k) /\ i <= n
      BY <1>2
    <2>2. QED BY <1>1, <2>1
  <1>4. ASSUME NEW i \in 1..k PROVE q[n + i] = v[i]
    <2>1. n + i \in 1..(n + k) /\ ~(n + i <= n) /\ (n + i) - n = i
      BY <1>2
    <2>2. QED BY <1>1, <2>1
  <1>5. QED BY <1>1, <1>3, <1>4 DEF Joins

\* Two statements, on their own or after another one.
LEMMA PairAfter ==
  ASSUME NEW a, NEW b, NEW c
  PROVE  /\ Len(<<>> \o <<b, c>>) = 2 /\ (<<>> \o <<b, c>>)[1] = b /\ (<<>> \o <<b, c>>)[2] = c
         /\ Len(<<a>> \o <<b, c>>) = 3 /\ (<<a>> \o <<b, c>>)[2] = b /\ (<<a>> \o <<b, c>>)[3] = c
  OBVIOUS

\* The providers of the rows of three finite tables.
LEMMA FewProviders ==
  ASSUME NEW A, IsFiniteSet(A), NEW B, IsFiniteSet(B), NEW C, IsFiniteSet(C)
  PROVE  IsFiniteSet({t.provider : t \in A \cup B \cup C})
  <1>1. PICK ab : ab = A \cup B
    OBVIOUS
  <1>2. PICK all : all = ab \cup C
    OBVIOUS
  <1>3. IsFiniteSet(ab)
    BY <1>1, FS_Union
  <1>4. IsFiniteSet(all)
    BY <1>2, <1>3, FS_Union
  <1>5. PICK of : of = [t \in all |-> t.provider]
    OBVIOUS
  <1>6. IsFiniteSet({of[t] : t \in all})
    BY <1>4, <1>5, FiniteImage
  <1>7. {t.provider : t \in A \cup B \cup C} = {of[t] : t \in all}
    BY <1>1, <1>2, <1>5
  <1>8. QED BY <1>6, <1>7

\* Short sequences, and what comes of joining them.
LEMMA TuplesAre ==
  ASSUME NEW a, NEW b, NEW c, NEW d, NEW e, NEW f, NEW q
  PROVE  /\ q = <<a, b>> => Len(q) = 2 /\ q[1] = a /\ q[2] = b /\ <<>> \o q = q
         /\ q = <<a, b, c>> => Len(q) = 3 /\ q[1] = a /\ q[2] = b /\ q[3] = c /\ <<>> \o q = q
         /\ q = <<a, b, c>> \o <<d>> => Len(q) = 4 /\ q[1] = a /\ q[2] = b /\ q[4] = d /\ <<>> \o q = q
         /\ q = <<a, b, c, d>> => Len(q) = 4 /\ <<>> \o q = q
         /\ q = <<a, b, c>> \o <<d, e, f>> =>
              Len(q) = 6 /\ q[1] = a /\ q[2] = b /\ q[4] = d /\ q[5] = e /\ q[6] = f /\ <<>> \o q = q
  <1>1. q = <<a, b>> => Len(q) = 2 /\ q[1] = a /\ q[2] = b /\ <<>> \o q = q
    OBVIOUS
  <1>2. q = <<a, b, c>> => Len(q) = 3 /\ q[1] = a /\ q[2] = b /\ q[3] = c /\ <<>> \o q = q
    OBVIOUS
  <1>3. q = <<a, b, c>> \o <<d>> => Len(q) = 4 /\ q[1] = a /\ q[2] = b /\ q[4] = d /\ <<>> \o q = q
    OBVIOUS
  <1>4. q = <<a, b, c, d>> => Len(q) = 4 /\ <<>> \o q = q
    OBVIOUS
  <1>5. q = <<a, b, c>> \o <<d, e, f>> =>
          Len(q) = 6 /\ q[1] = a /\ q[2] = b /\ q[4] = d /\ q[5] = e /\ q[6] = f /\ <<>> \o q = q
    <2>1. PICK S, x, y : S = {a, b, c, d, e, f} /\ x = <<a, b, c>> /\ y = <<d, e, f>>
      OBVIOUS
    <2>2. x \in Seq(S) /\ y \in Seq(S) /\ Len(x) = 3 /\ Len(y) = 3 /\ x[1] = a /\ x[2] = b /\ y[1] = d /\ y[2] = e /\ y[3] = f
      BY ONLY <2>1
    <2>3. PICK p : p = x \o y
      OBVIOUS
    <2>4. p \in Seq(S) /\ Len(p) = 6 /\ \A i \in 1..6 : p[i] = IF i <= 3 THEN x[i] ELSE y[i - 3]
      <3>1. p \in Seq(S) /\ Len(p) = Len(x) + Len(y) /\ \A i \in 1..Len(x) + Len(y) : p[i] = IF i <= Len(x) THEN x[i] ELSE y[i - Len(x)]
        BY ONLY <2>2, <2>3, ConcatProperties
      <3>2. QED BY ONLY <2>2, <3>1
    <2>5. p[1] = x[1] /\ p[2] = x[2] /\ p[4] = y[1] /\ p[5] = y[2] /\ p[6] = y[3]
      BY ONLY <2>4
    <2>6. <<>> \o p = p
      BY ONLY <2>4, ConcatEmptySeq
    <2>7. QED BY ONLY <2>1, <2>2, <2>3, <2>4, <2>5, <2>6
  <1>6. QED BY <1>1, <1>2, <1>3, <1>4, <1>5

\* What was read before a statement.
LEMMA ReadBefore ==
  ASSUME NEW S, NEW g \in Seq(S), NEW j \in 1..Len(g), NEW h, h = SubSeq(g, 1, j - 1)
  PROVE  /\ Len(h) = j - 1 /\ (h = <<>> <=> j = 1)
         /\ j >= 2 => h[1] = g[1]
         /\ j >= 3 => h[2] = g[2]
  <1>1. PICK n : n = Len(g)
    OBVIOUS
  <1>2. n \in Nat /\ j \in 1..n /\ j - 1 \in Int
    BY ONLY <1>1
  <1>3. \A i \in 1..(j - 1) : g[i] \in S
    BY ONLY <1>1, <1>2
  <1>4. h \in Seq(S) /\ Len(h) = (IF 1 <= j - 1 THEN j - 1 - 1 + 1 ELSE 0)
        /\ \A i \in 1..(j - 1 - 1 + 1) : h[i] = g[1 + i - 1]
    <2>1. h = SubSeq(g, 1, j - 1) /\ 1 \in Int
      OBVIOUS
    <2>2. QED BY ONLY <1>2, <1>3, <2>1, SubSeqProperties
  <1>5. Len(h) = j - 1 /\ \A i \in 1..(j - 1) : h[i] = g[i]
    BY ONLY <1>2, <1>4
  <1>6. h = <<>> <=> Len(h) = 0
    BY ONLY <1>4, EmptySeq
  <1>7. j >= 2 => 1 \in 1..(j - 1)
    BY ONLY <1>2
  <1>8. j >= 3 => 2 \in 1..(j - 1)
    BY ONLY <1>2
  <1>9. j - 1 = 0 <=> j = 1
    BY ONLY <1>2
  <1>10. QED BY ONLY <1>5, <1>6, <1>7, <1>8, <1>9

\* The rows after the first statement's.
LEMMA TailRows ==
  ASSUME NEW S, NEW g \in Seq(S), g # <<>>
  PROVE  \A x : x \in UNION ToSet(Tail(g)) <=> \E j \in 2..Len(g) : x \in g[j]
  <1>1. PICK tail, n : tail = Tail(g) /\ n = Len(g)
    OBVIOUS
  <1>2. n \in Nat /\ tail \in Seq(S) /\ Len(tail) = n - 1 /\ \A i \in 1..Len(tail) : tail[i] = g[i + 1]
    BY ONLY <1>1, g \in Seq(S), g # <<>>, HeadTailProperties, EmptySeq
  <1>3. ToSet(tail) = {tail[i] : i \in 1..(n - 1)}
    <2>1. DOMAIN tail = 1..(n - 1)
      BY ONLY <1>2
    <2>2. QED BY <2>1 DEF ToSet
  <1>4. ASSUME NEW x, x \in UNION ToSet(tail)
        PROVE  \E j \in 2..n : x \in g[j]
    <2>1. PICK i \in 1..(n - 1) : x \in tail[i]
      BY ONLY <1>3, <1>4
    <2>2. PICK j : j = i + 1
      OBVIOUS
    <2>3. j \in 2..n /\ tail[i] = g[j]
      BY ONLY <1>2, <2>1, <2>2
    <2>4. QED BY ONLY <2>1, <2>3
  <1>5. ASSUME NEW x, NEW j \in 2..n, x \in g[j]
        PROVE  x \in UNION ToSet(tail)
    <2>1. PICK i : i = j - 1
      OBVIOUS
    <2>2. i \in 1..(n - 1) /\ i + 1 = j
      BY ONLY <1>2, <1>5, <2>1
    <2>3. tail[i] = g[j]
      BY ONLY <1>2, <2>2
    <2>4. QED BY ONLY <1>3, <1>5, <2>2, <2>3
  <1>6. QED BY <1>1, <1>4, <1>5

\* What is critical and what is of high priority on a list is part of it.
LEMMA StatsFit ==
  ASSUME NEW S, IsFiniteSet(S), \A a \in S : a.priority \in {1, 2, 3, 5}, NEW C, NEW H,
         C = {a \in S : a.priority = 1}, H = {a \in S : a.priority = 2}
  PROVE  /\ Cardinality(C) + Cardinality(H) <= Cardinality(S)
         /\ Cardinality(C) > 0 <=> C # {}
  <1>1. IsFiniteSet(C) /\ IsFiniteSet(H) /\ IsFiniteSet(C \cup H) /\ C \cap H = {} /\ C \cup H \subseteq S
    <2>1. C \subseteq S /\ H \subseteq S /\ C \cup H \subseteq S /\ C \cap H = {}
      OBVIOUS
    <2>2. QED BY <2>1, FS_Subset
  <1>2. PICK c, h, u, n : c = Cardinality(C) /\ h = Cardinality(H) /\ u = Cardinality(C \cup H) /\ n = Cardinality(S)
    OBVIOUS
  <1>3. c \in Nat /\ h \in Nat /\ u \in Nat /\ n \in Nat
    BY <1>1, <1>2, FS_CardinalityType
  <1>4. u = c + h
    BY <1>1, <1>2, DisjointUnion
  <1>5. u <= n
    BY <1>1, <1>2, FS_Subset
  <1>6. c = 0 <=> C = {}
    BY <1>1, <1>2, FS_EmptySet
  <1>7. c + h <= n /\ (c > 0 <=> c # 0)
    BY ONLY <1>3, <1>4, <1>5
  <1>8. QED BY <1>2, <1>6, <1>7

\* A list has its actions, each once, the most urgent first.
ListFits(list, actions) ==
  /\ list \in Seq(actions) /\ Len(list) = Cardinality(actions) /\ ToSet(list) = actions
  /\ \A i, j \in 1..Len(list) : i < j => list[i].priority <= list[j].priority

\* What is first on a list of natural numbers in order is the least there is.
LEMMA FirstIsUrgent ==
  ASSUME NEW list, NEW actions, ListFits(list, actions), actions # {}, \A a \in actions : a.priority \in {1, 2, 3, 5}
  PROVE  /\ list[1] \in actions
         /\ list[1].priority = 1 <=> \E a \in actions : a.priority = 1
  <1>1. PICK n : n = Len(list)
    OBVIOUS
  <1>2. /\ list \in Seq(actions) /\ n \in Nat /\ DOMAIN list = 1..n
        /\ \A x \in actions : \E i \in 1..n : list[i] = x
        /\ \A i, j \in 1..n : i < j => list[i].priority <= list[j].priority
    BY <1>1 DEF ListFits, ToSet
  <1>3. 1 \in 1..n
    <2>1. PICK i \in 1..n : TRUE
      BY <1>2
    <2>2. QED BY ONLY <1>2, <2>1
  <1>4. list[1] \in actions
    BY <1>2, <1>3
  <1>5. ASSUME NEW a \in actions, a.priority = 1
        PROVE  list[1].priority = 1
    <2>1. PICK i \in 1..n : list[i] = a
      BY <1>2
    <2>2. PICK p : p = list[1].priority
      OBVIOUS
    <2>3. p \in {1, 2, 3, 5} /\ p <= 1
      <3>1. p \in {1, 2, 3, 5}
        BY <1>4, <2>2
      <3>2. CASE i = 1
        BY <1>5, <2>1, <2>2, <3>2
      <3>3. CASE i # 1
        <4>1. 1 < i
          BY ONLY <1>2, <2>1, <3>3
        <4>2. QED BY <1>2, <1>3, <1>5, <2>1, <2>2, <4>1
      <3>4. QED BY <3>1, <3>2, <3>3
    <2>4. p = 1
      BY ONLY <2>3
    <2>5. QED BY <2>2, <2>4
  <1>6. QED BY <1>4, <1>5

\* The sum of a column, as CHOOSE happens to take the rows.
AmountsOf(S) == MapThenSumSet(LAMBDA t : t.amount, S)
CountsOf(S) == MapThenSumSet(LAMBDA t : t.count, S)

LEMMA AmountsAreSums ==
  ASSUME NEW S, IsFiniteSet(S), NEW f \in [S -> Int], f = [t \in S |-> t.amount]
  PROVE  \E g : SumsOf(g, f, S) /\ AmountsOf(S) = g[S]
  <1> DEFINE P(g) == g = [s \in SUBSET S |->
                            IF s = {} THEN 0
                            ELSE (CHOOSE x \in s : TRUE).amount + g[s \ {CHOOSE x \in s : TRUE}]]
  <1>1. ASSUME NEW g PROVE P(g) <=> SumsOf(g, f, S)
    <2>1. \A s \in SUBSET S : s # {} => (CHOOSE x \in s : TRUE) \in S
      OBVIOUS
    <2>2. \A s \in SUBSET S : s # {} => f[CHOOSE x \in s : TRUE] = (CHOOSE x \in s : TRUE).amount
      BY <2>1
    <2>3. \A s \in SUBSET S : Plus(f, g, s) =
            IF s = {} THEN 0 ELSE (CHOOSE x \in s : TRUE).amount + g[s \ {CHOOSE x \in s : TRUE}]
      BY <2>2 DEF Plus
    <2>4. QED BY <2>3 DEF SumsOf
  <1>2. AmountsOf(S) = (CHOOSE g : P(g))[S]
    BY DEF AmountsOf, MapThenSumSet, MapThenFoldSet
  <1> HIDE DEF P
  <1>3. \E g : P(g)
    BY <1>1, SumsExist
  <1>4. P(CHOOSE g : P(g))
    BY <1>3
  <1>5. SumsOf((CHOOSE g : P(g)), f, S)
    BY <1>1, <1>4
  <1>6. QED BY <1>2, <1>5

LEMMA CountsOfAreSums ==
  ASSUME NEW S, IsFiniteSet(S), NEW f \in [S -> Int], f = [t \in S |-> t.count]
  PROVE  \E g : SumsOf(g, f, S) /\ CountsOf(S) = g[S]
  <1> DEFINE P(g) == g = [s \in SUBSET S |->
                            IF s = {} THEN 0
                            ELSE (CHOOSE x \in s : TRUE).count + g[s \ {CHOOSE x \in s : TRUE}]]
  <1>1. ASSUME NEW g PROVE P(g) <=> SumsOf(g, f, S)
    <2>1. \A s \in SUBSET S : s # {} => (CHOOSE x \in s : TRUE) \in S
      OBVIOUS
    <2>2. \A s \in SUBSET S : s # {} => f[CHOOSE x \in s : TRUE] = (CHOOSE x \in s : TRUE).count
      BY <2>1
    <2>3. \A s \in SUBSET S : Plus(f, g, s) =
            IF s = {} THEN 0 ELSE (CHOOSE x \in s : TRUE).count + g[s \ {CHOOSE x \in s : TRUE}]
      BY <2>2 DEF Plus
    <2>4. QED BY <2>3 DEF SumsOf
  <1>2. CountsOf(S) = (CHOOSE g : P(g))[S]
    BY DEF CountsOf, MapThenSumSet, MapThenFoldSet
  <1> HIDE DEF P
  <1>3. \E g : P(g)
    BY <1>1, SumsExist
  <1>4. P(CHOOSE g : P(g))
    BY <1>3
  <1>5. SumsOf((CHOOSE g : P(g)), f, S)
    BY <1>1, <1>4
  <1>6. QED BY <1>2, <1>5

LEMMA CountsOfTwo ==
  ASSUME NEW a, NEW b, a.count \in Int, b.count \in Int
  PROVE  CountsOf({}) = 0 /\ CountsOf({a}) = a.count /\ (a # b => CountsOf({a, b}) = a.count + b.count)
  <1>1. ASSUME NEW S, IsFiniteSet(S), \A x \in S : x.count \in Int
        PROVE  /\ S = {} => CountsOf(S) = 0
               /\ S = {a} => CountsOf(S) = a.count
               /\ S = {a, b} /\ a # b => CountsOf(S) = a.count + b.count
    <2>1. PICK f : f = [x \in S |-> x.count]
      OBVIOUS
    <2>2. f \in [S -> Int]
      BY <1>1, <2>1
    <2>3. PICK g : SumsOf(g, f, S) /\ CountsOf(S) = g[S]
      BY <1>1, <2>1, <2>2, CountsOfAreSums
    <2>4. /\ g[{}] = 0
          /\ \A x \in S : g[{x}] = f[x]
          /\ \A x, y \in S : x # y => g[{x, y}] = f[x] + f[y]
      BY ONLY <1>1, <2>2, <2>3, SumOfFew
    <2>5. \A x \in S : f[x] = x.count
      BY <2>1
    <2>6. ASSUME S = {} PROVE g[S] = 0
      BY ONLY <2>4, <2>6
    <2>7. ASSUME S = {a} PROVE g[S] = a.count
      <3>1. a \in S
        BY ONLY <2>7
      <3>2. g[{a}] = a.count
        BY ONLY <2>4, <2>5, <3>1
      <3>3. QED BY ONLY <2>7, <3>2
    <2>8. ASSUME S = {a, b}, a # b PROVE g[S] = a.count + b.count
      <3>1. a \in S /\ b \in S
        BY ONLY <2>8
      <3>2. g[{a, b}] = a.count + b.count
        BY ONLY <2>4, <2>5, <2>8, <3>1
      <3>3. QED BY ONLY <2>8, <3>2
    <2>9. QED BY ONLY <2>3, <2>6, <2>7, <2>8
  <1>2. IsFiniteSet({}) /\ IsFiniteSet({a}) /\ IsFiniteSet({a, b})
    <2>1. IsFiniteSet({}) /\ IsFiniteSet({a}) /\ IsFiniteSet({b})
      BY FS_EmptySet, FS_Singleton
    <2>2. {a, b} = {a} \cup {b}
      OBVIOUS
    <2>3. QED BY <2>1, <2>2, FS_Union
  <1>3. QED BY <1>1, <1>2

\* The elements of a set, each inserted after those that it does not come before, in
\* whatever order CHOOSE takes them.
InsertedIn(S, before) ==
  FoldSet(LAMBDA x, sorted :
            InsertAt(sorted, 1 + Cardinality({i \in DOMAIN sorted : <<x, sorted[i]>> \notin before}), x), <<>>, S)

LEMMA InsertedOneByOne ==
  ASSUME NEW S, IsFiniteSet(S), NEW before
  PROVE  \E h : Sorts(h, before, S) /\ InsertedIn(S, before) = h[S]
  <1> DEFINE P(g) == g = [s \in SUBSET S |->
                            IF s = {} THEN <<>>
                            ELSE InsertAt(g[s \ {CHOOSE x \in s : TRUE}],
                                          PlaceAmong(g[s \ {CHOOSE x \in s : TRUE}], CHOOSE x \in s : TRUE, before),
                                          CHOOSE x \in s : TRUE)]
  <1>1. InsertedIn(S, before) = (CHOOSE g : P(g))[S]
    BY DEF InsertedIn, FoldSet, MapThenFoldSet, PlaceAmong
  <1>2. PICK g \in [SUBSET S -> Seq(S)] : Sorts(g, before, S)
    BY SortsExist
  <1>3. P(g)
    <2>1. ASSUME NEW s \in SUBSET S, s # {}, NEW c, c = CHOOSE x \in s : TRUE
          PROVE  g[s] = InsertAt(g[s \ {c}], PlaceAmong(g[s \ {c}], c, before), c)
      <3>1. s \ {c} \in SUBSET S
        OBVIOUS
      <3>2. g[s \ {c}] \in Seq(S)
        BY <1>2, <3>1
      <3>3. QED BY <1>2, <2>1, <3>2 DEF Sorts, SortStep
    <2>2. g[{}] = <<>>
      BY <1>2 DEF Sorts
    <2>3. QED BY <1>2, <2>1, <2>2
  <1>4. PICK h : P(h) /\ InsertedIn(S, before) = h[S]
    <2> HIDE DEF P
    <2>1. QED BY <1>1, <1>3
  <1>5. Sorts(h, before, S)
    <2>1. ASSUME NEW s \in SUBSET S, s # {}, NEW c, c = CHOOSE x \in s : TRUE
          PROVE  h[s] = InsertAt(h[s \ {c}], PlaceAmong(h[s \ {c}], c, before), c)
      BY <1>4, <2>1
    <2>2. h[{}] = <<>>
      BY <1>4
    <2>3. QED BY <2>1, <2>2 DEF Sorts, SortStep
  <1>6. QED BY <1>4, <1>5

\* The amounts of a function, in whatever order CHOOSE takes its domain.
AmountsOver(by) == FoldFunction(LAMBDA x, sum : x.amount + sum, 0, by)

LEMMA AmountsOverAreSums ==
  ASSUME NEW by, NEW S, S = DOMAIN by, IsFiniteSet(S), NEW f \in [S -> Int], \A p \in S : f[p] = by[p].amount
  PROVE  \E g : SumsOf(g, f, S) /\ AmountsOver(by) = g[S]
  <1> DEFINE P(g) == g = [s \in SUBSET S |->
                            IF s = {} THEN 0
                            ELSE by[CHOOSE x \in s : TRUE].amount + g[s \ {CHOOSE x \in s : TRUE}]]
  <1>1. ASSUME NEW g PROVE P(g) <=> SumsOf(g, f, S)
    <2>1. \A s \in SUBSET S : s # {} => (CHOOSE x \in s : TRUE) \in S
      OBVIOUS
    <2>2. \A s \in SUBSET S : s # {} => f[CHOOSE x \in s : TRUE] = by[CHOOSE x \in s : TRUE].amount
      BY <2>1
    <2>3. \A s \in SUBSET S : Plus(f, g, s) =
            IF s = {} THEN 0 ELSE by[CHOOSE x \in s : TRUE].amount + g[s \ {CHOOSE x \in s : TRUE}]
      BY <2>2 DEF Plus
    <2>4. PICK h : h = [s \in SUBSET S |-> Plus(f, g, s)]
      OBVIOUS
    <2>5. h = [s \in SUBSET S |->
                 IF s = {} THEN 0
                 ELSE by[CHOOSE x \in s : TRUE].amount + g[s \ {CHOOSE x \in s : TRUE}]]
      BY ONLY <2>3, <2>4
    <2>6. SumsOf(g, f, S) <=> g = h
      BY ONLY <2>4 DEF SumsOf
    <2>7. QED BY ONLY <2>5, <2>6
  <1>2. AmountsOver(by) = (CHOOSE g : P(g))[S]
    BY DEF AmountsOver, FoldFunction, FoldFunctionOnSet, MapThenFoldSet
  <1> HIDE DEF P
  <1>3. \E g : P(g)
    BY <1>1, SumsExist
  <1>4. P(CHOOSE g : P(g))
    BY <1>3
  <1>5. SumsOf((CHOOSE g : P(g)), f, S)
    BY <1>1, <1>4
  <1>6. QED BY <1>2, <1>5
==============================================================================
