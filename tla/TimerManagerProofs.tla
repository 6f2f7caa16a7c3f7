------------------------- MODULE TimerManagerProofs -------------------------
(***************************************************************************)
(* Proofs about TimerManager, for any number of timers and workers, any    *)
(* delays and any movement of the clock, and about LocalTime, for any      *)
(* number of threads and any calendar.                                     *)
(*                                                                         *)
(* Induction over positions of a sequence is done with WFMin, the theorem  *)
(* that a nonempty set of natural numbers has a least element, because     *)
(* that one has no operator for a parameter.                               *)
(***************************************************************************)
EXTENDS TimerManager, LocalTime, SequenceTheorems, FiniteSetTheorems,
        WellFoundedInduction, TLAPS

LEMMA LeastOf ==
  ASSUME NEW T \in SUBSET Nat, T # {}
  PROVE  \E m \in T : \A n \in T : m <= n
<1> DEFINE R == OpToRel(<, Nat)
<1>1. IsWellFoundedOn(R, Nat)
  BY NatLessThanWellFounded
<1>2. \A x, y \in Nat : <<y, x>> \in R <=> y < x
  BY DEF OpToRel
<1> HIDE DEF R
<1>3. PICK m \in T : \A n \in T : ~(<<n, m>> \in R)
  BY <1>1, WFMin
<1>4. ASSUME NEW n \in T PROVE m <= n
  <2>1. m \in Nat /\ n \in Nat
    OBVIOUS
  <2>2. ~(n < m)
    BY <1>2, <1>3, <2>1
  <2>3. QED
    BY <2>1, <2>2
<1>5. QED
  BY <1>4

LEMMA Members ==
  ASSUME NEW S, NEW s \in Seq(S)
  PROVE  /\ \A i \in 1..Len(s) : s[i] \in ToSet(s) /\ s[i] \in S
         /\ \A x \in ToSet(s) : x \in S /\ \E i \in 1..Len(s) : s[i] = x
<1>1. DOMAIN s = 1..Len(s)
  OBVIOUS
<1>2. \A i \in 1..Len(s) : s[i] \in S
  BY ElementOfSeq
<1>3. QED
  BY <1>1, <1>2 DEF ToSet

LEMMA InsertAtFacts ==
  ASSUME NEW S, NEW s \in Seq(S), NEW i \in 1..(Len(s) + 1), NEW e \in S
  PROVE  /\ InsertAt(s, i, e) \in Seq(S)
         /\ Len(InsertAt(s, i, e)) = Len(s) + 1
         /\ \A j \in 1..(Len(s) + 1) :
              InsertAt(s, i, e)[j] = IF j < i THEN s[j] ELSE IF j = i THEN e ELSE s[j - 1]
<1> DEFINE front == SubSeq(s, 1, i - 1)
           back == SubSeq(s, i, Len(s))
           one == <<e>>
           head == front \o one
<1>1. Len(s) \in Nat /\ i \in Nat
  OBVIOUS
<1>2. /\ front \in Seq(S) /\ Len(front) = i - 1
      /\ \A j \in 1..(i - 1) : front[j] = s[j]
  BY <1>1
<1>3. /\ back \in Seq(S) /\ Len(back) = Len(s) - i + 1
      /\ \A j \in 1..(Len(s) - i + 1) : back[j] = s[j + i - 1]
  BY <1>1
<1>4. one \in Seq(S) /\ Len(one) = 1 /\ one[1] = e
  OBVIOUS
<1>5. InsertAt(s, i, e) = head \o back
  BY DEF InsertAt
<1> HIDE DEF front, back, one
<1>6. /\ head \in Seq(S) /\ Len(head) = i
      /\ \A j \in 1..i : head[j] = IF j < i THEN s[j] ELSE e
  <2>1. /\ head \in Seq(S) /\ Len(head) = Len(front) + Len(one)
        /\ \A j \in 1..(Len(front) + Len(one)) :
             head[j] = IF j <= Len(front) THEN front[j] ELSE one[j - Len(front)]
    BY <1>2, <1>4, ConcatProperties, Zenon
  <2>2. QED
    BY <1>1, <1>2, <1>4, <2>1
<1> HIDE DEF head
<1>7. /\ head \o back \in Seq(S)
      /\ Len(head \o back) = Len(head) + Len(back)
      /\ \A j \in 1..(Len(head) + Len(back)) :
           (head \o back)[j] = IF j <= Len(head) THEN head[j] ELSE back[j - Len(head)]
  BY <1>3, <1>6, ConcatProperties, Zenon
<1>8. Len(head) + Len(back) = Len(s) + 1
  BY <1>1, <1>3, <1>6
<1>9. ASSUME NEW j \in 1..(Len(s) + 1)
      PROVE  (head \o back)[j] = IF j < i THEN s[j] ELSE IF j = i THEN e ELSE s[j - 1]
  <2>1. CASE j <= i
    BY <1>1, <1>6, <1>7, <1>8, <2>1
  <2>2. CASE ~(j <= i)
    <3>1. j - i \in 1..(Len(s) - i + 1) /\ (j - i) + i - 1 = j - 1
      BY <1>1, <2>2
    <3>2. (head \o back)[j] = back[j - i]
      BY <1>1, <1>6, <1>7, <1>8, <2>2
    <3>3. back[j - i] = s[j - 1]
      BY <1>3, <3>1
    <3>4. QED
      BY <1>1, <2>2, <3>2, <3>3
  <2>3. QED
    BY <2>1, <2>2
<1>10. QED
  BY <1>5, <1>7, <1>8, <1>9

-----------------------------------------------------------------------------
(* A set in the order of its due times, every timer once.                  *)
Sorted(set, start) ==
  \A i, j \in 1..Len(set) : i < j => /\ start[set[i]] <= start[set[j]]
                                     /\ set[i] # set[j]

(* Only the due times of its members matter.                               *)
LEMMA SortedSame ==
  ASSUME NEW set \in Seq(Timers), NEW start, NEW next, Sorted(set, start),
         \A t \in ToSet(set) : next[t] = start[t]
  PROVE  Sorted(set, next)
<1>1. \A i \in 1..Len(set) : set[i] \in ToSet(set)
  BY Members
<1>2. QED
  BY <1>1 DEF Sorted

(* insert keeps the set sorted and adds the timer, if it was not there.    *)
LEMMA InsertFacts ==
  ASSUME NEW set \in Seq(Timers), NEW start \in [Timers -> Nat], NEW t \in Timers,
         Sorted(set, start), t \notin ToSet(set)
  PROVE  /\ InsertTimer(set, start, t) \in Seq(Timers)
         /\ Sorted(InsertTimer(set, start, t), start)
         /\ ToSet(InsertTimer(set, start, t)) = ToSet(set) \cup {t}
<1> DEFINE P(k) == /\ \A j \in 1..(k - 1) : ~Before(start[t], start[set[j]])
                   /\ k <= Len(set) => Before(start[t], start[set[k]])
           i == CHOOSE k \in 1..(Len(set) + 1) : P(k)
           later == {k \in 1..Len(set) : start[t] <= start[set[k]]}
           r == InsertAt(set, i, t)
<1>1. Len(set) \in Nat /\ \A k \in 1..Len(set) : set[k] \in Timers /\ start[set[k]] \in Nat
  <2>1. \A k \in 1..Len(set) : set[k] \in Timers
    BY ElementOfSeq
  <2>2. QED
    BY <2>1
<1>2. \E k \in 1..(Len(set) + 1) : P(k)
  <2>1. CASE later = {}
    <3>1. P(Len(set) + 1)
      BY <1>1, <2>1 DEF Before
    <3>2. QED
      BY <1>1, <3>1
  <2>2. CASE later # {}
    <3>1. PICK m \in later : \A n \in later : m <= n
      <4>1. later \in SUBSET Nat
        BY <1>1
      <4>2. QED
        BY <4>1, <2>2, LeastOf
    <3>2. P(m)
      BY <1>1, <3>1 DEF Before
    <3>3. QED
      BY <1>1, <3>1, <3>2
  <2>3. QED
    BY <2>1, <2>2
<1>3. i \in 1..(Len(set) + 1) /\ P(i)
  BY <1>2
<1>4. InsertTimer(set, start, t) = r
  BY DEF InsertTimer
<1> HIDE DEF i
<1>5. /\ r \in Seq(Timers) /\ Len(r) = Len(set) + 1
      /\ \A j \in 1..(Len(set) + 1) :
           r[j] = IF j < i THEN set[j] ELSE IF j = i THEN t ELSE set[j - 1]
  BY <1>3, InsertAtFacts
<1> HIDE DEF r
<1>6. \A j \in 1..Len(set) : set[j] # t
  BY Members
<1>7. Sorted(r, start)
  <2> SUFFICES ASSUME NEW a \in 1..Len(r), NEW b \in 1..Len(r), a < b
               PROVE  start[r[a]] <= start[r[b]] /\ r[a] # r[b]
    BY DEF Sorted
  <2>1. a \in 1..(Len(set) + 1) /\ b \in 1..(Len(set) + 1) /\ a \in Nat /\ b \in Nat /\ i \in Nat
    BY <1>1, <1>3, <1>5
  <2>2. \A x, y \in 1..Len(set) : x < y => start[set[x]] <= start[set[y]] /\ set[x] # set[y]
    BY DEF Sorted
  <2>3. CASE b < i
    <3>1. r[a] = set[a] /\ r[b] = set[b] /\ a \in 1..Len(set) /\ b \in 1..Len(set)
      BY <1>1, <1>3, <1>5, <2>1, <2>3
    <3>2. QED
      BY <2>2, <3>1
  <2>4. CASE b = i
    <3>1. r[a] = set[a] /\ r[b] = t /\ a \in 1..Len(set) /\ a \in 1..(i - 1)
      BY <1>1, <1>3, <1>5, <2>1, <2>4
    <3>2. ~(start[t] <= start[set[a]])
      BY <1>3, <3>1 DEF Before
    <3>3. start[t] \in Nat /\ start[set[a]] \in Nat
      BY <1>1, <3>1
    <3>4. QED
      BY <1>6, <3>1, <3>2, <3>3
  <2>5. CASE b > i /\ a < i
    <3>1. r[a] = set[a] /\ r[b] = set[b - 1] /\ a \in 1..Len(set) /\ b - 1 \in 1..Len(set) /\ a < b - 1
      BY <1>1, <1>3, <1>5, <2>1, <2>5
    <3>2. QED
      BY <2>2, <3>1
  <2>6. CASE b > i /\ a = i
    <3>1. r[a] = t /\ r[b] = set[b - 1] /\ i \in 1..Len(set) /\ b - 1 \in 1..Len(set) /\ i <= b - 1
      <4>1. ~(b < i) /\ b # i /\ b - 1 \in 1..Len(set) /\ i <= b - 1 /\ i \in 1..Len(set)
        BY <1>1, <2>1, <2>6
      <4>2. r[b] = set[b - 1]
        BY <1>5, <2>1, <4>1
      <4>3. r[a] = t
        BY <1>1, <1>5, <2>1, <2>6
      <4>4. QED
        BY <4>1, <4>2, <4>3
    <3>2. start[t] <= start[set[i]]
      BY <1>1, <1>3, <3>1 DEF Before
    <3>3. start[set[i]] <= start[set[b - 1]]
      <4>1. CASE i < b - 1
        BY <2>2, <3>1, <4>1
      <4>2. CASE i = b - 1
        BY <1>1, <3>1, <4>2
      <4>3. QED
        BY <2>1, <3>1, <4>1, <4>2
    <3>4. start[t] \in Nat /\ start[set[i]] \in Nat /\ start[set[b - 1]] \in Nat
      BY <1>1, <3>1
    <3>5. QED
      BY <1>6, <3>1, <3>2, <3>3, <3>4
  <2>7. CASE b > i /\ a > i
    <3>1. /\ r[a] = set[a - 1] /\ r[b] = set[b - 1]
          /\ a - 1 \in 1..Len(set) /\ b - 1 \in 1..Len(set) /\ a - 1 < b - 1
      BY <1>1, <1>3, <1>5, <2>1, <2>7
    <3>2. QED
      BY <2>2, <3>1
  <2>8. QED
    BY <2>1, <2>3, <2>4, <2>5, <2>6, <2>7
<1>8. ToSet(r) = ToSet(set) \cup {t}
  <2>1. ASSUME NEW j \in 1..Len(r) PROVE r[j] \in ToSet(set) \cup {t}
    <3>1. j \in 1..(Len(set) + 1) /\ j \in Nat /\ i \in Nat
      BY <1>1, <1>3, <1>5
    <3>2. CASE j < i
      <4>1. r[j] = set[j] /\ j \in 1..Len(set)
        BY <1>1, <1>3, <1>5, <3>1, <3>2
      <4>2. QED
        BY <4>1, Members
    <3>3. CASE j = i
      BY <1>5, <3>1, <3>3
    <3>4. CASE j > i
      <4>1. r[j] = set[j - 1] /\ j - 1 \in 1..Len(set)
        BY <1>1, <1>3, <1>5, <3>1, <3>4
      <4>2. QED
        BY <4>1, Members
    <3>5. QED
      BY <3>1, <3>2, <3>3, <3>4
  <2>2. t \in ToSet(r)
    <3>1. i \in 1..Len(r) /\ r[i] = t
      BY <1>1, <1>3, <1>5
    <3>2. QED
      BY <3>1, <1>5, Members
  <2>3. ASSUME NEW j \in 1..Len(set) PROVE set[j] \in ToSet(r)
    <3>1. CASE j < i
      <4>1. r[j] = set[j] /\ j \in 1..Len(r)
        BY <1>1, <1>3, <1>5, <3>1
      <4>2. QED
        BY <4>1, <1>5, Members
    <3>2. CASE ~(j < i)
      <4>1. r[j + 1] = set[j] /\ j + 1 \in 1..Len(r)
        <5>1. j + 1 \in 1..(Len(set) + 1) /\ ~(j + 1 < i) /\ j + 1 # i /\ (j + 1) - 1 = j
          BY <1>1, <1>3, <3>2
        <5>2. QED
          BY <1>5, <5>1
      <4>2. QED
        BY <4>1, <1>5, Members
    <3>3. QED
      BY <3>1, <3>2
  <2>4. \A x \in ToSet(r) : \E j \in 1..Len(r) : x = r[j]
    BY <1>5, Members
  <2>5. \A x \in ToSet(set) : \E j \in 1..Len(set) : x = set[j]
    BY Members
  <2>6. QED
    BY <2>1, <2>2, <2>3, <2>4, <2>5
<1>9. QED
  BY <1>4, <1>5, <1>7, <1>8

(* lower_bound(key) divides the set into what is not after the key and     *)
(* what is.                                                                *)
LEMMA LowerBoundFacts ==
  ASSUME NEW set \in Seq(Timers), NEW start \in [Timers -> Nat], NEW key \in Nat,
         Sorted(set, start)
  PROVE  /\ LowerBound(set, start, key) \in 1..(Len(set) + 1)
         /\ \A j \in 1..Len(set) :
              start[set[j]] <= key <=> j < LowerBound(set, start, key)
<1> DEFINE P(k) == /\ \A j \in 1..(k - 1) : Before(start[set[j]], key)
                   /\ k <= Len(set) => ~Before(start[set[k]], key)
           i == CHOOSE k \in 1..(Len(set) + 1) : P(k)
           after == {k \in 1..Len(set) : ~(start[set[k]] <= key)}
<1>1. Len(set) \in Nat /\ \A k \in 1..Len(set) : set[k] \in Timers /\ start[set[k]] \in Nat
  <2>1. \A k \in 1..Len(set) : set[k] \in Timers
    BY ElementOfSeq
  <2>2. QED
    BY <2>1
<1>2. \E k \in 1..(Len(set) + 1) : P(k)
  <2>1. CASE after = {}
    <3>1. P(Len(set) + 1)
      BY <1>1, <2>1 DEF Before
    <3>2. QED
      BY <1>1, <3>1
  <2>2. CASE after # {}
    <3>1. PICK m \in after : \A n \in after : m <= n
      <4>1. after \in SUBSET Nat
        BY <1>1
      <4>2. QED
        BY <4>1, <2>2, LeastOf
    <3>2. P(m)
      BY <1>1, <3>1 DEF Before
    <3>3. QED
      BY <1>1, <3>1, <3>2
  <2>3. QED
    BY <2>1, <2>2
<1>3. i \in 1..(Len(set) + 1) /\ P(i)
  BY <1>2
<1>4. LowerBound(set, start, key) = i
  BY DEF LowerBound
<1> HIDE DEF i
<1>5. ASSUME NEW j \in 1..Len(set)
      PROVE  start[set[j]] <= key <=> j < i
  <2>1. j \in Nat /\ i \in Nat /\ start[set[j]] \in Nat
    BY <1>1, <1>3
  <2>2. CASE j < i
    BY <1>1, <1>3, <2>1, <2>2 DEF Before
  <2>3. CASE ~(j < i)
    <3>1. i \in 1..Len(set) /\ start[set[i]] \in Nat
      BY <1>1, <1>3, <2>1, <2>3
    <3>2. ~(start[set[i]] <= key)
      BY <1>3, <3>1 DEF Before
    <3>3. start[set[i]] <= start[set[j]]
      BY <2>1, <2>3, <3>1 DEF Sorted
    <3>4. QED
      BY <2>1, <2>3, <3>1, <3>2, <3>3
  <2>4. QED
    BY <2>2, <2>3
<1>6. QED
  BY <1>3, <1>4, <1>5

(* find() never finds: what lower_bound stops at comes after the key.      *)
LEMMA FindsNothing ==
  ASSUME NEW set \in Seq(Timers), NEW start \in [Timers -> Nat], NEW t \in Timers,
         Sorted(set, start)
  PROVE  Find(set, start, t) = 0
<1> DEFINE i == LowerBound(set, start, start[t])
<1>1. start[t] \in Nat /\ Len(set) \in Nat
  OBVIOUS
<1>2. /\ i \in 1..(Len(set) + 1)
      /\ \A j \in 1..Len(set) : start[set[j]] <= start[t] <=> j < i
  BY <1>1, LowerBoundFacts
<1>3. Find(set, start, t) = IF i <= Len(set) /\ ~Before(start[t], start[set[i]]) THEN i ELSE 0
  BY DEF Find
<1> HIDE DEF i
<1>4. ASSUME i <= Len(set) PROVE Before(start[t], start[set[i]])
  <2>1. i \in 1..Len(set) /\ ~(i < i)
    BY <1>1, <1>2, <1>4
  <2>2. start[set[i]] \in Nat
    BY <2>1, ElementOfSeq
  <2>3. QED
    BY <1>1, <1>2, <2>1, <2>2 DEF Before
<1>5. QED
  BY <1>3, <1>4

(* One turn of the loop that puts the cyclic ones back.                    *)
LEMMA AgainFacts ==
  ASSUME NEW set \in Seq(Timers), NEW start \in [Timers -> Nat], NEW t \in Timers,
         Sorted(set, start), t \notin ToSet(set)
  PROVE  /\ Again(set, start, t) \in Seq(Timers)
         /\ Sorted(Again(set, start, t), start)
         /\ ToSet(Again(set, start, t)) = ToSet(set) \cup ({t} \cap Cyclic)
<1>1. CASE t \in Cyclic
  BY <1>1, InsertFacts DEF Again
<1>2. CASE t \notin Cyclic
  BY <1>2 DEF Again
<1>3. QED
  BY <1>1, <1>2

(* What is in the set after each turn of the loop.                         *)
Turns(put, due, start, set) ==
  /\ put[0] = set
  /\ \A k \in 1..Len(due) : put[k] = Again(put[k - 1], start, due[k])
  /\ PutBack(due, start, set) = put[Len(due)]

(* The function by which the loop is defined does what its equation says.  *)
LEMMA PutBackUnfolds ==
  ASSUME NEW due \in Seq(Timers), NEW start, NEW set
  PROVE  \E put : Turns(put, due, start, set)
<1> DEFINE Turn(f, k) == IF k = 0 THEN set ELSE Again(f[k - 1], start, due[k])
           IsPut(f, n) == f = [k \in 0..n |-> Turn(f, k)]
           put == CHOOSE f : IsPut(f, Len(due))
           T == {n \in Nat : ~\E f : IsPut(f, n)}
<1>1. Len(due) \in Nat
  OBVIOUS
<1>2. PutBack(due, start, set) = put[Len(due)]
  BY DEF PutBack
<1>3. T = {}
  <2> SUFFICES ASSUME T # {} PROVE FALSE
    OBVIOUS
  <2>1. PICK n \in T : \A m \in T : n <= m
    <3>1. T \in SUBSET Nat
      OBVIOUS
    <3>2. QED
      BY <3>1, LeastOf
  <2>2. CASE n = 0
    <3>1. IsPut([k \in 0..0 |-> set], 0)
      OBVIOUS
    <3>2. QED
      BY <2>1, <2>2, <3>1
  <2>3. CASE n # 0
    <3>1. n \in Nat /\ n - 1 \in Nat /\ n - 1 \notin T
      <4>1. n \in Nat
        OBVIOUS
      <4> HIDE DEF T
      <4>2. n - 1 \in Nat /\ ~(n <= n - 1)
        BY <2>3, <4>1
      <4>3. QED
        BY <2>1, <4>1, <4>2
    <3>2. PICK f : IsPut(f, n - 1)
      BY <3>1
    <3> DEFINE g == [k \in 0..n |-> IF k = n THEN Again(f[n - 1], start, due[n]) ELSE f[k]]
    <3>3. ASSUME NEW k \in 0..n PROVE g[k] = Turn(g, k)
      <4>1. CASE k = n
        <5>1. g[k] = Again(f[n - 1], start, due[n]) /\ g[k - 1] = f[n - 1] /\ k # 0
          BY <2>3, <3>1, <4>1
        <5>2. QED
          BY <4>1, <5>1
      <4>2. CASE k # n /\ k # 0
        <5>1. k \in 0..(n - 1) /\ k - 1 \in 0..n /\ k - 1 # n
          BY <3>1, <4>2
        <5>2. g[k] = f[k] /\ g[k - 1] = f[k - 1]
          BY <4>2, <5>1
        <5>3. f[k] = Turn(f, k)
          BY <3>2, <5>1
        <5>4. QED
          BY <4>2, <5>2, <5>3
      <4>3. CASE k # n /\ k = 0
        <5>1. k \in 0..(n - 1)
          BY <3>1, <4>3
        <5>2. g[k] = f[k] /\ f[k] = Turn(f, k)
          BY <3>2, <4>3, <5>1
        <5>3. QED
          BY <4>3, <5>2
      <4>4. QED
        BY <4>1, <4>2, <4>3
    <3>4. g = [k \in 0..n |-> g[k]]
      OBVIOUS
    <3> HIDE DEF g
    <3>5. IsPut(g, n)
      BY <3>3, <3>4
    <3>6. QED
      BY <2>1, <3>5
  <2>4. QED
    BY <2>2, <2>3
<1>4. IsPut(put, Len(due))
  BY <1>1, <1>3
<1> HIDE DEF put
<1>5. put[0] = set
  BY <1>1, <1>4
<1>6. ASSUME NEW k \in 1..Len(due) PROVE put[k] = Again(put[k - 1], start, due[k])
  <2>1. k \in 0..Len(due) /\ k # 0
    BY <1>1
  <2>2. QED
    BY <1>4, <2>1
<1>7. QED
  BY <1>2, <1>5, <1>6 DEF Turns

(* The loop puts back what is cyclic, and keeps the set sorted.            *)
LEMMA PutBackFacts ==
  ASSUME NEW due \in Seq(Timers), NEW set \in Seq(Timers), NEW start \in [Timers -> Nat],
         Sorted(set, start),
         \A i, j \in 1..Len(due) : i < j => due[i] # due[j],
         ToSet(due) \cap ToSet(set) = {}
  PROVE  /\ PutBack(due, start, set) \in Seq(Timers)
         /\ Sorted(PutBack(due, start, set), start)
         /\ ToSet(PutBack(due, start, set)) = ToSet(set) \cup (ToSet(due) \cap Cyclic)
<1> PICK put : Turns(put, due, start, set)
  BY PutBackUnfolds
<1>1. /\ put[0] = set
      /\ \A k \in 1..Len(due) : put[k] = Again(put[k - 1], start, due[k])
      /\ PutBack(due, start, set) = put[Len(due)]
  BY DEF Turns
<1> DEFINE Handled(n) == {due[i] : i \in 1..n}
           Right(n) == /\ put[n] \in Seq(Timers)
                       /\ Sorted(put[n], start)
                       /\ ToSet(put[n]) = ToSet(set) \cup (Handled(n) \cap Cyclic)
           T == {n \in 0..Len(due) : ~Right(n)}
<1>2. Len(due) \in Nat
  OBVIOUS
<1>3. T = {}
  <2> SUFFICES ASSUME T # {} PROVE FALSE
    OBVIOUS
  <2>1. PICK n \in T : \A m \in T : n <= m
    <3>1. T \in SUBSET Nat
      BY <1>2
    <3>2. QED
      BY <3>1, LeastOf
  <2>2. n \in 0..Len(due) /\ ~Right(n)
    OBVIOUS
  <2>3. CASE n = 0
    <3>1. Handled(0) = {}
      OBVIOUS
    <3> HIDE DEF Handled
    <3>2. Right(0)
      BY <1>1, <3>1
    <3>3. QED
      BY <2>2, <2>3, <3>2
  <2>4. CASE n # 0
    <3>1. n \in 1..Len(due) /\ n - 1 \in 0..Len(due) /\ ~(n <= n - 1) /\ n \in Nat
      BY <1>2, <2>2, <2>4
    <3>2. n - 1 \notin T
      <4> HIDE DEF T
      <4>1. QED
        BY <2>1, <3>1
    <3>3. Right(n - 1)
      BY <3>1, <3>2
    <3>4. due[n] \in Timers /\ due[n] \in ToSet(due)
      BY <3>1, Members
    <3>5. due[n] \notin Handled(n - 1)
      <4> SUFFICES ASSUME NEW i \in 1..(n - 1) PROVE due[i] # due[n]
        OBVIOUS
      <4>1. i \in 1..Len(due) /\ i < n
        BY <1>2, <3>1
      <4>2. QED
        BY <3>1, <4>1
    <3>6. Handled(n) = Handled(n - 1) \cup {due[n]}
      <4>1. 1..n = 1..(n - 1) \cup {n}
        BY <3>1
      <4>2. QED
        BY <4>1
    <3>7. put[n] = Again(put[n - 1], start, due[n])
      BY <1>1, <3>1
    <3> HIDE DEF Handled
    <3>8. due[n] \notin ToSet(put[n - 1])
      BY <3>3, <3>4, <3>5
    <3>9. /\ put[n] \in Seq(Timers)
          /\ Sorted(put[n], start)
          /\ ToSet(put[n]) = ToSet(put[n - 1]) \cup ({due[n]} \cap Cyclic)
      <4> DEFINE was == put[n - 1]
                 t == due[n]
      <4>1. was \in Seq(Timers) /\ Sorted(was, start) /\ t \in Timers /\ t \notin ToSet(was)
        BY <3>3, <3>4, <3>8
      <4>2. put[n] = Again(was, start, t)
        BY <3>7
      <4> HIDE DEF was, t
      <4>3. /\ Again(was, start, t) \in Seq(Timers)
            /\ Sorted(Again(was, start, t), start)
            /\ ToSet(Again(was, start, t)) = ToSet(was) \cup ({t} \cap Cyclic)
        BY <4>1, AgainFacts
      <4>4. QED
        BY <4>2, <4>3 DEF was, t
    <3>10. Right(n)
      BY <3>3, <3>6, <3>9
    <3>11. QED
      BY <2>2, <3>10
  <2>5. QED
    BY <2>3, <2>4
<1>4. Right(Len(due))
  <2>1. Len(due) \in 0..Len(due)
    BY <1>2
  <2> HIDE DEF Right
  <2>2. Len(due) \notin T
    BY <1>3
  <2>3. QED
    BY <2>1, <2>2
<1>5. Handled(Len(due)) = ToSet(due)
  BY Members
<1>6. QED
  BY <1>1, <1>4, <1>5

(* What is collected: the timers that are due, from the front of the set.  *)
Due == SubSeq(m_timers, 1, Cardinality(Expired))

Left == Rest(Cardinality(Expired))

LEMMA CollectedFacts ==
  ASSUME m_timers \in Seq(Timers), m_start \in [Timers -> Nat], now \in Nat,
         Sorted(m_timers, m_start)
  PROVE  /\ Due \in Seq(Timers) /\ Left \in Seq(Timers)
         /\ \A i, j \in 1..Len(Due) : i < j => Due[i] # Due[j]
         /\ Sorted(Left, m_start)
         /\ ToSet(Due) = {t \in ToSet(m_timers) : m_start[t] <= now}
         /\ ToSet(Left) = {t \in ToSet(m_timers) : ~(m_start[t] <= now)}
<1> DEFINE b == LowerBound(m_timers, m_start, now)
           n == Cardinality(Expired)
<1>1. Len(m_timers) \in Nat
  OBVIOUS
<1>2. /\ b \in 1..(Len(m_timers) + 1)
      /\ \A j \in 1..Len(m_timers) : m_start[m_timers[j]] <= now <=> j < b
  BY LowerBoundFacts
<1>3. Expired = 1..(b - 1)
  BY DEF Expired
<1> HIDE DEF b
<1>4. n = b - 1
  BY <1>1, <1>2, <1>3, FS_Interval
<1> HIDE DEF n
<1>5. n \in 0..Len(m_timers)
  BY <1>1, <1>2, <1>4
<1>6. /\ Due = SubSeq(m_timers, 1, n)
      /\ Left = SubSeq(m_timers, n + 1, Len(m_timers))
  BY DEF Due, Left, Rest, n
<1>7. /\ Due \in Seq(Timers) /\ Len(Due) = n
      /\ \A i \in 1..n : Due[i] = m_timers[i]
  BY <1>1, <1>5, <1>6
<1>8. /\ Left \in Seq(Timers) /\ Len(Left) = Len(m_timers) - n
      /\ \A i \in 1..(Len(m_timers) - n) : Left[i] = m_timers[i + n]
  BY <1>1, <1>5, <1>6
<1>9. ASSUME NEW i \in 1..Len(Due), NEW j \in 1..Len(Due), i < j PROVE Due[i] # Due[j]
  <2>1. /\ i \in 1..Len(m_timers) /\ j \in 1..Len(m_timers)
        /\ Due[i] = m_timers[i] /\ Due[j] = m_timers[j]
    BY <1>1, <1>5, <1>7
  <2>2. QED
    BY <1>9, <2>1 DEF Sorted
<1>10. Sorted(Left, m_start)
  <2> SUFFICES ASSUME NEW i \in 1..Len(Left), NEW j \in 1..Len(Left), i < j
               PROVE  m_start[Left[i]] <= m_start[Left[j]] /\ Left[i] # Left[j]
    BY DEF Sorted
  <2>1. /\ i + n \in 1..Len(m_timers) /\ j + n \in 1..Len(m_timers) /\ i + n < j + n
        /\ Left[i] = m_timers[i + n] /\ Left[j] = m_timers[j + n]
    BY <1>1, <1>5, <1>8
  <2>2. QED
    BY <2>1 DEF Sorted
<1>11. ToSet(Due) = {t \in ToSet(m_timers) : m_start[t] <= now}
  <2>1. ASSUME NEW t \in ToSet(Due) PROVE t \in ToSet(m_timers) /\ m_start[t] <= now
    <3>1. PICK i \in 1..n : Due[i] = t
      BY <1>7, Members
    <3>2. i \in 1..Len(m_timers) /\ i < b /\ t = m_timers[i]
      BY <1>1, <1>2, <1>4, <1>5, <1>7, <3>1
    <3>3. QED
      BY <1>2, <3>2, Members
  <2>2. ASSUME NEW t \in ToSet(m_timers), m_start[t] <= now PROVE t \in ToSet(Due)
    <3>1. PICK i \in 1..Len(m_timers) : m_timers[i] = t
      BY Members
    <3>2. i < b
      BY <1>2, <2>2, <3>1
    <3>3. i \in 1..n
      BY <1>1, <1>2, <1>4, <3>2
    <3>4. i \in 1..Len(Due) /\ Due[i] = t
      BY <1>7, <3>1, <3>3
    <3>5. QED
      BY <1>7, <3>4, Members
  <2>3. QED
    BY <2>1, <2>2
<1>12. ToSet(Left) = {t \in ToSet(m_timers) : ~(m_start[t] <= now)}
  <2>1. ASSUME NEW t \in ToSet(Left) PROVE t \in ToSet(m_timers) /\ ~(m_start[t] <= now)
    <3>1. PICK i \in 1..(Len(m_timers) - n) : Left[i] = t
      BY <1>8, Members
    <3>2. i + n \in 1..Len(m_timers) /\ ~(i + n < b) /\ t = m_timers[i + n]
      BY <1>1, <1>2, <1>4, <1>5, <1>8, <3>1
    <3>3. QED
      BY <1>2, <3>2, Members
  <2>2. ASSUME NEW t \in ToSet(m_timers), ~(m_start[t] <= now) PROVE t \in ToSet(Left)
    <3>1. PICK i \in 1..Len(m_timers) : m_timers[i] = t
      BY Members
    <3>2. ~(i < b)
      BY <1>2, <2>2, <3>1
    <3>3. i - n \in 1..(Len(m_timers) - n) /\ (i - n) + n = i
      BY <1>1, <1>2, <1>4, <1>5, <3>2
    <3>4. i - n \in 1..Len(Left) /\ Left[i - n] = t
      BY <1>8, <3>1, <3>3
    <3>5. QED
      BY <1>8, <3>4, Members
  <2>3. QED
    BY <2>1, <2>2
<1>13. QED
  BY <1>7, <1>8, <1>9, <1>10, <1>11, <1>12

-----------------------------------------------------------------------------
(* The set has only timers that were added, and those have a due time that *)
(* the bound on the clock leaves room for.                                 *)
Waiting ==
  /\ ToSet(m_timers) \subseteq added
  /\ \A t \in added : m_delay[t] <= LastTime

(* A worker has collected nothing but while it is on its way to dispatch.  *)
Carried ==
  \A w \in Workers : /\ tasks[w] \subseteq added
                     /\ pc[w] # "dispatch" => tasks[w] = {}

(* A timer that is not cyclic is in the set, with one worker, or handed in.*)
OnePlace ==
  \A t \in Timers \ Cyclic :
    /\ handed[t] <= 1
    /\ handed[t] # 0 => t \in added /\ t \notin ToSet(m_timers)
    /\ \A w \in Workers : t \in tasks[w] => t \notin ToSet(m_timers) /\ handed[t] = 0
    /\ \A v, w \in Workers : t \in tasks[v] /\ t \in tasks[w] => v = w

(* A cyclic one is always in the set.                                      *)
CyclicStays == \A t \in Cyclic \cap added : t \in ToSet(m_timers)

TimerInv == SortedOnce /\ Waiting /\ Carried /\ OnePlace /\ CyclicStays

(* What the invariant says of the set, for the lemmas above.               *)
LEMMA SetIsSorted ==
  ASSUME TimerInv
  PROVE  /\ TypeOK /\ deleted = {}
         /\ m_timers \in Seq(Timers) /\ m_start \in [Timers -> Nat] /\ now \in Nat
         /\ Sorted(m_timers, m_start)
         /\ ToSet(m_timers) \subseteq added /\ added \subseteq Timers
<1>1. 0..(2 * LastTime) \subseteq Nat /\ 0..LastTime \subseteq Nat
  BY TimerAssumption
<1>2. TypeOK /\ deleted = {} /\ Sorted(m_timers, m_start)
  BY DEF TimerInv, SortedOnce, Sorted
<1>3. ToSet(m_timers) \subseteq added /\ added \subseteq Timers
  BY <1>2 DEF TimerInv, Waiting, TypeOK
<1>4. m_start \in [Timers -> Nat]
  BY <1>1, <1>2 DEF TypeOK
<1>5. QED
  BY <1>1, <1>2, <1>3, <1>4 DEF TypeOK

LEMMA AddKeeps ==
  ASSUME TimerInv, NEW t \in Timers, AddTimer(t)
  PROVE  TimerInv'
<1>1. /\ TypeOK /\ deleted = {}
      /\ m_timers \in Seq(Timers) /\ m_start \in [Timers -> Nat] /\ now \in Nat
      /\ Sorted(m_timers, m_start)
      /\ ToSet(m_timers) \subseteq added /\ added \subseteq Timers
  BY SetIsSorted
<1>2. t \notin ToSet(m_timers) /\ now + m_delay[t] <= LastTime /\ m_delay[t] \in Nat /\ LastTime \in Nat
  BY <1>1, TimerAssumption DEF AddTimer
<1>3. /\ m_start' = [m_start EXCEPT ![t] = now + m_delay[t]]
      /\ m_start' \in [Timers -> Nat]
      /\ m_start' \in [Timers -> 0..(2 * LastTime)]
  <2>1. m_start \in [Timers -> 0..(2 * LastTime)]
    BY <1>1 DEF TypeOK
  <2>2. now + m_delay[t] \in Nat /\ now + m_delay[t] \in 0..(2 * LastTime)
    BY <1>1, <1>2
  <2>3. m_start' = [m_start EXCEPT ![t] = now + m_delay[t]]
    BY DEF AddTimer
  <2>4. QED
    BY <1>1, <2>1, <2>2, <2>3
<1>4. Sorted(m_timers, m_start')
  <2>1. \A u \in ToSet(m_timers) : m_start'[u] = m_start[u]
    BY <1>1, <1>2, <1>3
  <2> DEFINE next == m_start'
  <2> HIDE DEF next
  <2>2. \A u \in ToSet(m_timers) : next[u] = m_start[u]
    BY <2>1 DEF next
  <2>3. Sorted(m_timers, next)
    BY <1>1, <2>2, SortedSame
  <2>4. QED
    BY <2>3 DEF next
<1>5. /\ m_timers' \in Seq(Timers) /\ Sorted(m_timers', m_start')
      /\ ToSet(m_timers') = ToSet(m_timers) \cup {t}
  <2> DEFINE next == m_start'
  <2>1. m_timers' = InsertTimer(m_timers, next, t)
    BY DEF AddTimer
  <2>2. next \in [Timers -> Nat] /\ Sorted(m_timers, next)
    BY <1>3, <1>4
  <2> HIDE DEF next
  <2>3. /\ m_timers' \in Seq(Timers) /\ Sorted(m_timers', next)
        /\ ToSet(m_timers') = ToSet(m_timers) \cup {t}
    BY <1>1, <1>2, <2>1, <2>2, InsertFacts
  <2>4. QED
    BY <2>3 DEF next
<1>6. /\ added' = added \cup {t} /\ t \notin added
      /\ UNCHANGED <<m_previous, now, refused, deleted, pc, tasks, handed>>
  BY DEF AddTimer
<1>7. TypeOK' /\ deleted' = {}
  BY <1>1, <1>3, <1>5, <1>6 DEF TypeOK
<1>8. SortedOnce'
  BY <1>5, <1>7 DEF SortedOnce, Sorted
<1>9. Waiting'
  <2>1. m_delay[t] <= LastTime
    BY <1>1, <1>2
  <2>2. QED
    BY <1>1, <1>5, <1>6, <2>1 DEF TimerInv, Waiting
<1>10. Carried'
  BY <1>6 DEF TimerInv, Carried
<1>11. OnePlace'
  BY <1>5, <1>6 DEF TimerInv, OnePlace, Carried
<1>12. CyclicStays'
  BY <1>5, <1>6 DEF TimerInv, CyclicStays
<1>13. QED
  BY <1>8, <1>9, <1>10, <1>11, <1>12 DEF TimerInv

(* Nothing is found, so nothing is deleted.                                *)
LEMMA DeleteKeeps ==
  ASSUME TimerInv, NEW t \in Timers, DeleteTimer(t)
  PROVE  TimerInv'
<1>1. Find(m_timers, m_start, t) = 0
  BY SetIsSorted, FindsNothing
<1>2. /\ refused' = TRUE /\ m_timers' = m_timers /\ deleted' = deleted
      /\ UNCHANGED <<m_start, m_previous, now, added, pc, tasks, handed>>
  BY <1>1 DEF DeleteTimer
<1>3. QED
  BY <1>2 DEF TimerInv, SortedOnce, TypeOK, Waiting, Carried, OnePlace, CyclicStays

LEMMA LookKeeps ==
  ASSUME TimerInv, NEW w \in Workers, Look(w)
  PROVE  TimerInv'
<1>1. /\ pc[w] = "idle" /\ pc' = [pc EXCEPT ![w] = "collect"]
      /\ UNCHANGED <<m_timers, m_start, m_previous, now, added, refused, deleted, tasks, handed>>
  BY DEF Look
<1>2. TypeOK /\ pc \in [Workers -> {"idle", "collect", "dispatch"}]
  BY DEF TimerInv, SortedOnce, TypeOK
<1>3. TypeOK'
  BY <1>1, <1>2 DEF TypeOK
<1>4. SortedOnce' /\ Waiting' /\ OnePlace' /\ CyclicStays'
  BY <1>1, <1>3 DEF TimerInv, SortedOnce, Waiting, OnePlace, CyclicStays
<1>5. Carried'
  BY <1>1, <1>2 DEF TimerInv, Carried
<1>6. QED
  BY <1>4, <1>5 DEF TimerInv

LEMMA DispatchKeeps ==
  ASSUME TimerInv, NEW w \in Workers, Dispatch(w)
  PROVE  TimerInv'
<1>1. /\ pc[w] = "dispatch" /\ pc' = [pc EXCEPT ![w] = "idle"]
      /\ tasks' = [tasks EXCEPT ![w] = {}]
      /\ handed' = [t \in Timers |-> IF t \in tasks[w] /\ handed[t] < 2
                                     THEN handed[t] + 1 ELSE handed[t]]
      /\ UNCHANGED <<m_timers, m_start, m_previous, now, added, refused, deleted>>
  BY DEF Dispatch
<1>2. /\ TypeOK /\ pc \in [Workers -> {"idle", "collect", "dispatch"}]
      /\ tasks \in [Workers -> SUBSET Timers] /\ handed \in [Timers -> 0..2]
  BY DEF TimerInv, SortedOnce, TypeOK
<1>3. handed' \in [Timers -> 0..2]
  <2>1. \A t \in Timers : (IF t \in tasks[w] /\ handed[t] < 2
                           THEN handed[t] + 1 ELSE handed[t]) \in 0..2
    BY <1>2
  <2>2. QED
    BY <1>1, <2>1
<1>4. TypeOK'
  BY <1>1, <1>2, <1>3 DEF TypeOK
<1>5. SortedOnce' /\ Waiting' /\ CyclicStays'
  BY <1>1, <1>4 DEF TimerInv, SortedOnce, Waiting, CyclicStays
<1>6. Carried'
  BY <1>1, <1>2 DEF TimerInv, Carried
<1>7. OnePlace'
  <2> SUFFICES ASSUME NEW t \in Timers \ Cyclic
               PROVE  /\ handed'[t] <= 1
                      /\ handed'[t] # 0 => t \in added /\ t \notin ToSet(m_timers)
                      /\ \A v \in Workers : t \in tasks'[v] =>
                           t \notin ToSet(m_timers) /\ handed'[t] = 0
                      /\ \A u, v \in Workers : t \in tasks'[u] /\ t \in tasks'[v] => u = v
    BY <1>1 DEF OnePlace
  <2>1. /\ handed[t] <= 1
        /\ handed[t] # 0 => t \in added /\ t \notin ToSet(m_timers)
        /\ \A v \in Workers : t \in tasks[v] => t \notin ToSet(m_timers) /\ handed[t] = 0
        /\ \A u, v \in Workers : t \in tasks[u] /\ t \in tasks[v] => u = v
    BY DEF TimerInv, OnePlace
  <2>2. \A v \in Workers : tasks'[v] = IF v = w THEN {} ELSE tasks[v]
    BY <1>1, <1>2
  <2>3. CASE t \in tasks[w]
    <3>1. handed[t] = 0 /\ handed'[t] = 1 /\ t \notin ToSet(m_timers)
      BY <1>1, <2>1, <2>3
    <3>2. t \in added
      BY <2>3 DEF TimerInv, Carried
    <3>3. \A v \in Workers : t \notin tasks'[v]
      BY <2>1, <2>2, <2>3
    <3>4. QED
      BY <3>1, <3>2, <3>3
  <2>4. CASE t \notin tasks[w]
    <3>1. handed'[t] = handed[t]
      BY <1>1, <2>4
    <3>2. QED
      BY <2>1, <2>2, <3>1
  <2>5. QED
    BY <2>3, <2>4
<1>8. QED
  BY <1>5, <1>6, <1>7 DEF TimerInv

(* What a worker does that gets past the test for "nothing due".           *)
Collecting(w) ==
  /\ pc[w] = "collect" /\ pc' = [pc EXCEPT ![w] = "dispatch"]
  /\ m_previous' = now
  /\ m_start' = [t \in Timers |-> IF t \in ToSet(Due) \cap Cyclic
                                  THEN now + m_delay[t] ELSE m_start[t]]
  /\ m_timers' = PutBack(Due, m_start', Left)
  /\ tasks' = [tasks EXCEPT ![w] = ToSet(Due)]
  /\ UNCHANGED <<now, added, refused, deleted, handed>>

(* And what one does that does not.                                        *)
Waits(w) ==
  /\ pc[w] = "collect" /\ pc' = [pc EXCEPT ![w] = "idle"]
  /\ m_previous' = now
  /\ UNCHANGED <<m_timers, m_start, tasks, now, added, refused, deleted, handed>>

LEMMA CollectsOrWaits ==
  ASSUME NEW w \in Workers, Collect(w)
  PROVE  Collecting(w) \/ Waits(w)
  BY DEF Collect, Collecting, Waits, Due, Left

LEMMA CollectEffect ==
  ASSUME TimerInv, NEW w \in Workers, Collecting(w)
  PROVE  /\ m_start' \in [Timers -> 0..(2 * LastTime)]
         /\ \A t \in Timers : m_start'[t] = IF t \in ToSet(Due) \cap Cyclic
                                            THEN now + m_delay[t] ELSE m_start[t]
         /\ ToSet(Due) = {t \in ToSet(m_timers) : m_start[t] <= now}
         /\ m_timers' \in Seq(Timers) /\ Sorted(m_timers', m_start')
         /\ ToSet(m_timers') = {t \in ToSet(m_timers) : ~(m_start[t] <= now)}
                                 \cup (ToSet(Due) \cap Cyclic)
<1>1. /\ TypeOK /\ deleted = {}
      /\ m_timers \in Seq(Timers) /\ m_start \in [Timers -> Nat] /\ now \in Nat
      /\ Sorted(m_timers, m_start)
      /\ ToSet(m_timers) \subseteq added /\ added \subseteq Timers
  BY SetIsSorted
<1>2. /\ Due \in Seq(Timers) /\ Left \in Seq(Timers)
      /\ \A i, j \in 1..Len(Due) : i < j => Due[i] # Due[j]
      /\ Sorted(Left, m_start)
      /\ ToSet(Due) = {t \in ToSet(m_timers) : m_start[t] <= now}
      /\ ToSet(Left) = {t \in ToSet(m_timers) : ~(m_start[t] <= now)}
  BY <1>1, CollectedFacts
<1> DEFINE due == Due
           left == Left
           next == m_start'
<1>3. /\ next = [t \in Timers |-> IF t \in ToSet(due) \cap Cyclic
                                  THEN now + m_delay[t] ELSE m_start[t]]
      /\ m_timers' = PutBack(due, next, left)
  BY DEF Collecting
<1>4. /\ due \in Seq(Timers) /\ left \in Seq(Timers)
      /\ \A i, j \in 1..Len(due) : i < j => due[i] # due[j]
      /\ Sorted(left, m_start)
      /\ ToSet(due) = {t \in ToSet(m_timers) : m_start[t] <= now}
      /\ ToSet(left) = {t \in ToSet(m_timers) : ~(m_start[t] <= now)}
  BY <1>2
<1> HIDE DEF due, left, next
<1>5. next \in [Timers -> 0..(2 * LastTime)]
  <2> SUFFICES ASSUME NEW t \in Timers
               PROVE  (IF t \in ToSet(due) \cap Cyclic THEN now + m_delay[t] ELSE m_start[t])
                        \in 0..(2 * LastTime)
    BY <1>3
  <2>1. LastTime \in Nat /\ now \in 0..LastTime /\ m_delay[t] \in Nat
        /\ m_start[t] \in 0..(2 * LastTime)
    BY <1>1, TimerAssumption DEF TypeOK
  <2>2. CASE t \in ToSet(due) \cap Cyclic
    <3>1. t \in added
      BY <1>1, <1>4, <2>2
    <3>2. m_delay[t] <= LastTime
      BY <3>1 DEF TimerInv, Waiting
    <3>3. QED
      BY <2>1, <2>2, <3>2
  <2>3. CASE ~(t \in ToSet(due) \cap Cyclic)
    BY <2>1, <2>3
  <2>4. QED
    BY <2>2, <2>3
<1>6. next \in [Timers -> Nat]
  <2>1. 0..(2 * LastTime) \subseteq Nat
    BY TimerAssumption
  <2>2. QED
    BY <1>5, <2>1
<1>7. ToSet(due) \cap ToSet(left) = {}
  BY <1>4
<1>8. Sorted(left, next)
  <2>1. \A t \in ToSet(left) : next[t] = m_start[t]
    BY <1>1, <1>3, <1>4
  <2>2. QED
    BY <1>4, <2>1, SortedSame
<1>9. /\ PutBack(due, next, left) \in Seq(Timers)
      /\ Sorted(PutBack(due, next, left), next)
      /\ ToSet(PutBack(due, next, left)) = ToSet(left) \cup (ToSet(due) \cap Cyclic)
  BY <1>4, <1>6, <1>7, <1>8, PutBackFacts
<1>10. \A t \in Timers : next[t] = IF t \in ToSet(due) \cap Cyclic
                                   THEN now + m_delay[t] ELSE m_start[t]
  BY <1>3
<1>11. QED
  BY <1>3, <1>4, <1>5, <1>9, <1>10 DEF due, next

LEMMA CollectKeeps ==
  ASSUME TimerInv, NEW w \in Workers, Collect(w)
  PROVE  TimerInv'
<1>1. TypeOK /\ deleted = {} /\ now \in 0..LastTime
      /\ pc \in [Workers -> {"idle", "collect", "dispatch"}]
      /\ tasks \in [Workers -> SUBSET Timers]
      /\ ToSet(m_timers) \subseteq added /\ added \subseteq Timers
  BY SetIsSorted DEF TypeOK
<1>2. CASE Waits(w)
  <2>1. /\ pc[w] = "collect" /\ pc' = [pc EXCEPT ![w] = "idle"] /\ m_previous' = now
        /\ m_timers' = m_timers /\ m_start' = m_start /\ tasks' = tasks /\ now' = now
        /\ added' = added /\ refused' = refused /\ deleted' = deleted /\ handed' = handed
    BY <1>2 DEF Waits
  <2>2. TypeOK'
    BY <1>1, <2>1 DEF TypeOK
  <2>3. SortedOnce' /\ Waiting' /\ OnePlace' /\ CyclicStays'
    BY <2>1, <2>2 DEF TimerInv, SortedOnce, Waiting, OnePlace, CyclicStays
  <2>4. Carried'
    BY <1>1, <2>1 DEF TimerInv, Carried
  <2>5. QED
    BY <2>3, <2>4 DEF TimerInv
<1>3. CASE Collecting(w)
  <2>1. /\ pc[w] = "collect" /\ pc' = [pc EXCEPT ![w] = "dispatch"] /\ m_previous' = now
        /\ tasks' = [tasks EXCEPT ![w] = ToSet(Due)] /\ now' = now
        /\ added' = added /\ refused' = refused /\ deleted' = deleted /\ handed' = handed
    BY <1>3 DEF Collecting
  <2>2. /\ m_start' \in [Timers -> 0..(2 * LastTime)]
        /\ m_timers' \in Seq(Timers) /\ Sorted(m_timers', m_start')
        /\ ToSet(Due) = {t \in ToSet(m_timers) : m_start[t] <= now}
        /\ ToSet(m_timers') = {t \in ToSet(m_timers) : ~(m_start[t] <= now)}
                                \cup (ToSet(Due) \cap Cyclic)
    BY <1>3, CollectEffect
  <2>3. ToSet(Due) \subseteq added /\ ToSet(m_timers') \subseteq ToSet(m_timers)
    BY <1>1, <2>2
  <2>4. TypeOK'
    <3>1. tasks' \in [Workers -> SUBSET Timers]
      BY <1>1, <2>1, <2>3
    <3>2. QED
      BY <1>1, <2>1, <2>2, <3>1 DEF TypeOK
  <2>5. SortedOnce'
    BY <1>1, <2>1, <2>2, <2>4 DEF SortedOnce, Sorted
  <2>6. Waiting'
    BY <1>1, <2>1, <2>3 DEF TimerInv, Waiting
  <2>7. \A v \in Workers : tasks'[v] = IF v = w THEN ToSet(Due) ELSE tasks[v]
    BY <1>1, <2>1
  <2>8. Carried'
    BY <1>1, <2>1, <2>3, <2>7 DEF TimerInv, Carried
  <2>9. OnePlace'
    <3> SUFFICES ASSUME NEW t \in Timers \ Cyclic
                 PROVE  /\ handed[t] <= 1
                        /\ handed[t] # 0 => t \in added /\ t \notin ToSet(m_timers')
                        /\ \A v \in Workers : t \in tasks'[v] =>
                             t \notin ToSet(m_timers') /\ handed[t] = 0
                        /\ \A u, v \in Workers : t \in tasks'[u] /\ t \in tasks'[v] => u = v
      BY <2>1 DEF OnePlace
    <3>1. /\ handed[t] <= 1
          /\ handed[t] # 0 => t \in added /\ t \notin ToSet(m_timers)
          /\ \A v \in Workers : t \in tasks[v] => t \notin ToSet(m_timers) /\ handed[t] = 0
          /\ \A u, v \in Workers : t \in tasks[u] /\ t \in tasks[v] => u = v
      BY DEF TimerInv, OnePlace
    <3>2. CASE t \in ToSet(Due)
      <4>1. t \in ToSet(m_timers) /\ t \notin ToSet(m_timers')
        BY <2>2, <3>2
      <4>2. handed[t] = 0 /\ \A v \in Workers : t \notin tasks[v]
        BY <3>1, <4>1
      <4>3. QED
        BY <2>7, <4>1, <4>2
    <3>3. CASE t \notin ToSet(Due)
      <4>1. \A v \in Workers : t \in tasks'[v] => t \in tasks[v]
        BY <2>7, <3>3
      <4>2. QED
        BY <2>3, <3>1, <4>1
    <3>4. QED
      BY <3>2, <3>3
  <2>10. CyclicStays'
    <3> SUFFICES ASSUME NEW t \in Cyclic \cap added
                 PROVE  t \in ToSet(m_timers')
      BY <2>1 DEF CyclicStays
    <3>1. t \in ToSet(m_timers)
      BY DEF TimerInv, CyclicStays
    <3>2. QED
      BY <2>2, <3>1
  <2>11. QED
    BY <2>5, <2>6, <2>8, <2>9, <2>10 DEF TimerInv
<1>4. QED
  BY <1>2, <1>3, CollectsOrWaits

-----------------------------------------------------------------------------
LEMMA TimerInvInit == Init => TimerInv
<1> SUFFICES ASSUME Init PROVE TimerInv
  OBVIOUS
<1>1. m_timers = <<>> /\ Len(m_timers) = 0 /\ ToSet(m_timers) = {}
  <2>1. m_timers \in Seq(Timers)
    BY DEF Init
  <2>2. \A x \in ToSet(m_timers) : \E i \in 1..Len(m_timers) : m_timers[i] = x
    BY <2>1, Members
  <2>3. m_timers = <<>> /\ Len(m_timers) = 0
    BY DEF Init
  <2>4. QED
    BY <2>2, <2>3
<1>2. TypeOK
  <2>1. LastTime \in Nat /\ now \in 0..LastTime /\ 0 \in 0..(2 * LastTime)
    BY TimerAssumption DEF Init
  <2>2. m_timers \in Seq(Timers) /\ m_start \in [Timers -> 0..(2 * LastTime)]
        /\ m_previous \in 0..LastTime
    BY <2>1 DEF Init
  <2>3. added \subseteq Timers /\ deleted \subseteq added /\ refused \in BOOLEAN
        /\ pc \in [Workers -> {"idle", "collect", "dispatch"}]
        /\ tasks \in [Workers -> SUBSET Timers]
    BY DEF Init
  <2>4. handed \in [Timers -> 0..2]
    BY DEF Init
  <2>5. QED
    BY <2>1, <2>2, <2>3, <2>4 DEF TypeOK
<1>3. QED
  BY <1>1, <1>2 DEF Init, TimerInv, SortedOnce, Waiting, Carried, OnePlace, CyclicStays

LEMMA TimerInvStep == TimerInv /\ [Next]_vars => TimerInv'
<1> SUFFICES ASSUME TimerInv, [Next]_vars PROVE TimerInv'
  OBVIOUS
<1>1. ASSUME NEW t \in Timers, AddTimer(t) PROVE TimerInv'
  BY <1>1, AddKeeps
<1>2. ASSUME NEW t \in Timers, DeleteTimer(t) PROVE TimerInv'
  BY <1>2, DeleteKeeps
<1>3. ASSUME NEW w \in Workers, Look(w) PROVE TimerInv'
  BY <1>3, LookKeeps
<1>4. ASSUME NEW w \in Workers, Collect(w) PROVE TimerInv'
  BY <1>4, CollectKeeps
<1>5. ASSUME NEW w \in Workers, Dispatch(w) PROVE TimerInv'
  BY <1>5, DispatchKeeps
<1>6. ASSUME Tick \/ SetBack PROVE TimerInv'
  <2>1. /\ now' \in 0..LastTime
        /\ m_timers' = m_timers /\ m_start' = m_start /\ m_previous' = m_previous
        /\ added' = added /\ refused' = refused /\ deleted' = deleted
        /\ pc' = pc /\ tasks' = tasks /\ handed' = handed
    <3>1. now \in 0..LastTime /\ LastTime \in Nat
      BY TimerAssumption DEF TimerInv, SortedOnce, TypeOK
    <3>2. QED
      BY <1>6, <3>1 DEF Tick, SetBack
  <2>2. QED
    BY <2>1 DEF TimerInv, SortedOnce, TypeOK, Waiting, Carried, OnePlace, CyclicStays
<1>7. CASE UNCHANGED vars
  BY <1>7 DEF vars, TimerInv, SortedOnce, TypeOK, Waiting, Carried, OnePlace, CyclicStays
<1>8. QED
  BY <1>1, <1>2, <1>3, <1>4, <1>5, <1>6, <1>7 DEF Next

(* The inductive invariant of the timers.                                  *)
THEOREM TimerInvHolds == Spec => []TimerInv
  BY TimerInvInit, TimerInvStep, PTL DEF Spec

(* The set of timers stays sorted by due time and holds a timer once,      *)
(* although its comparator is no ordering (timer.h:39), and DeleteTimer    *)
(* never finds a timer.                                                    *)
THEOREM SetStaysSorted == Spec => []SortedOnce
<1>1. TimerInv => SortedOnce
  BY DEF TimerInv
<1>2. QED
  BY <1>1, TimerInvHolds, PTL

(* However many workers collect, a timer that is not cyclic hands in its   *)
(* function once, and a cyclic one stays in the set (timer.cpp:103-115).   *)
THEOREM EachHandsInOnce == Spec => []OnceOrCyclic
<1>1. TimerInv => OnceOrCyclic
  <2> SUFFICES ASSUME TimerInv PROVE OnceOrCyclic
    OBVIOUS
  <2>1. ASSUME NEW t \in Timers \ Cyclic
        PROVE  handed[t] + Cardinality({w \in Workers : t \in tasks[w]}) <= 1
    <3> DEFINE W == {w \in Workers : t \in tasks[w]}
    <3>1. handed[t] \in Nat
      BY DEF TimerInv, SortedOnce, TypeOK
    <3>2. handed[t] <= 1 /\ (W # {} => handed[t] = 0)
          /\ \A v, w \in W : v = w
      BY DEF TimerInv, OnePlace
    <3> HIDE DEF W
    <3>3. CASE W = {}
      <4>1. Cardinality(W) = 0
        BY <3>3, FS_EmptySet
      <4>2. QED
        BY <3>1, <3>2, <4>1 DEF W
    <3>4. CASE W # {}
      <4>1. PICK w : W = {w}
        BY <3>2, <3>4
      <4>2. Cardinality(W) = 1
        BY <4>1, FS_Singleton
      <4>3. QED
        BY <3>2, <3>4, <4>2 DEF W
    <3>5. QED
      BY <3>3, <3>4
  <2>2. \A t \in (Cyclic \cap added) \ deleted : t \in ToSet(m_timers)
    BY DEF TimerInv, CyclicStays
  <2>3. QED
    BY <2>1, <2>2 DEF OnceOrCyclic
<1>2. QED
  BY <1>1, TimerInvHolds, PTL

(* A worker collects what is due and leaves nothing due behind             *)
(* (timer.cpp:92-104), if no cyclic timer has a delay of zero: one that    *)
(* has is due again as soon as it is put back.                             *)
THEOREM CollectsDue ==
  ASSUME \A t \in Cyclic : m_delay[t] > 0
  PROVE  Spec => CollectsExactlyDue
<1> DEFINE CollectsRight ==
             \A w \in Workers : pc[w] = "collect" /\ pc'[w] = "dispatch" =>
               /\ tasks'[w] = {t \in ToSet(m_timers) : m_start[t] <= now}
               /\ \A t \in ToSet(m_timers') : m_start'[t] > now
<1>1. TimerInv /\ [Next]_vars => [CollectsRight]_vars
  <2> SUFFICES ASSUME TimerInv, Next, NEW w \in Workers,
                      pc[w] = "collect", pc'[w] = "dispatch"
               PROVE  /\ tasks'[w] = {t \in ToSet(m_timers) : m_start[t] <= now}
                      /\ \A t \in ToSet(m_timers') : m_start'[t] > now
    OBVIOUS
  <2>1. pc \in [Workers -> {"idle", "collect", "dispatch"}] /\ tasks \in [Workers -> SUBSET Timers]
    BY DEF TimerInv, SortedOnce, TypeOK
  <2>2. Collect(w)
    BY <2>1 DEF Next, AddTimer, DeleteTimer, Look, Collect, Dispatch, Tick, SetBack
  <2>3. Collecting(w)
    BY <2>1, <2>2, CollectsOrWaits DEF Waits
  <2>4. tasks'[w] = ToSet(Due)
    BY <2>1, <2>3 DEF Collecting
  <2>5. /\ \A t \in Timers : m_start'[t] = IF t \in ToSet(Due) \cap Cyclic
                                           THEN now + m_delay[t] ELSE m_start[t]
        /\ ToSet(Due) = {t \in ToSet(m_timers) : m_start[t] <= now}
        /\ ToSet(m_timers') = {t \in ToSet(m_timers) : ~(m_start[t] <= now)}
                                \cup (ToSet(Due) \cap Cyclic)
    BY <2>3, CollectEffect
  <2>6. /\ m_start \in [Timers -> Nat] /\ now \in Nat /\ ToSet(m_timers) \subseteq Timers
    BY SetIsSorted
  <2>7. ASSUME NEW t \in ToSet(m_timers') PROVE m_start'[t] > now
    <3>1. CASE t \in ToSet(Due) \cap Cyclic
      <4>1. t \in Timers /\ m_start'[t] = now + m_delay[t]
        BY <2>5, <2>6, <3>1
      <4>2. m_delay[t] \in Nat /\ m_delay[t] > 0
        BY <3>1, <4>1, TimerAssumption
      <4>3. QED
        BY <2>6, <4>1, <4>2
    <3>2. CASE t \notin ToSet(Due) \cap Cyclic
      <4>1. t \in Timers /\ ~(m_start[t] <= now) /\ m_start'[t] = m_start[t]
        BY <2>5, <2>6, <2>7, <3>2
      <4>2. m_start[t] \in Nat
        BY <2>6, <4>1
      <4>3. QED
        BY <2>6, <4>1, <4>2
    <3>3. QED
      BY <3>1, <3>2
  <2>8. QED
    BY <2>4, <2>5, <2>7
<1>2. QED
  BY <1>1, TimerInvHolds, PTL DEF Spec, CollectsExactlyDue

-----------------------------------------------------------------------------
(* LocalTime.                                                              *)
Months == 1..Len(DaysIn)

(* A day of a month.                                                       *)
IsIn(day, m) == DaysBefore[m] <= day /\ day < DaysBefore[m] + DaysIn[m]

(* While the clock runs, no month and no week ends between a moment here   *)
(* and the same moment in the other time zone.                             *)
SameMonthAndWeek ==
  \A hour \in FirstHour..LastHour :
    /\ \E m \in Months : IsIn(hour \div Hours, m) /\ IsIn((hour + Offset) \div Hours, m)
    /\ (hour \div Hours) \div Weekdays = ((hour + Offset) \div Hours) \div Weekdays

(* Euclid: what adding at most one divisor makes of quotient and rest.     *)
LEMMA DivisionFacts ==
  ASSUME NEW h \in Nat \ {0}, NEW c \in Nat
  PROVE  c \div h \in Nat /\ c % h \in 0..(h - 1) /\ c = h * (c \div h) + (c % h)
  OBVIOUS

LEMMA QuotientIs ==
  ASSUME NEW h \in Nat \ {0}, NEW q \in Nat, NEW r \in 0..(h - 1), NEW c \in Nat, c = h * q + r
  PROVE  c \div h = q /\ c % h = r
  OBVIOUS

LEMMA Shifted ==
  ASSUME NEW h \in Nat \ {0}, NEW c \in Nat, NEW o \in 0..h
  PROVE  IF (c % h) + o < h
         THEN (c + o) \div h = c \div h /\ (c + o) % h = (c % h) + o
         ELSE (c + o) \div h = (c \div h) + 1 /\ (c + o) % h = ((c % h) + o) - h
<1> DEFINE q == c \div h
           r == c % h
<1>1. q \in Nat /\ r \in 0..(h - 1) /\ c = h * q + r
  BY DivisionFacts
<1> HIDE DEF q, r
<1>2. CASE r + o < h
  <2>1. r + o \in 0..(h - 1) /\ c + o = h * q + (r + o) /\ c + o \in Nat
    BY <1>1, <1>2
  <2>2. (c + o) \div h = q /\ (c + o) % h = r + o
    BY <1>1, <2>1, QuotientIs
  <2>3. QED
    BY <1>2, <2>2 DEF q, r
<1>3. CASE ~(r + o < h)
  <2>1. (r + o) - h \in 0..(h - 1) /\ c + o \in Nat /\ q + 1 \in Nat
    BY <1>1, <1>3
  <2>2. c + o = h * (q + 1) + ((r + o) - h)
    <3>1. h * (q + 1) = h * q + h
      BY <1>1
    <3>2. h * q \in Nat
      BY <1>1
    <3>3. QED
      BY <1>1, <3>1, <3>2
  <2> DEFINE a == q + 1
             b == (r + o) - h
             d == c + o
  <2>3. a \in Nat /\ b \in 0..(h - 1) /\ d \in Nat /\ d = h * a + b
    BY <2>1, <2>2
  <2> HIDE DEF a, b, d
  <2>4. d \div h = a /\ d % h = b
    BY <2>3, QuotientIs
  <2>5. QED
    BY <1>3, <2>4 DEF a, b, d, q, r
<1>4. QED
  BY <1>2, <1>3 DEF r

(* The first days of the months are numbers, and the months are apart.     *)
LEMMA DaysBeforeFacts ==
  \A m \in Months :
    /\ DaysIn[m] \in Nat \ {0} /\ DaysBefore[m] \in Nat
    /\ DaysBefore[m] = IF m = 1 THEN 0 ELSE DaysBefore[m - 1] + DaysIn[m - 1]
<1> DEFINE L == Len(DaysIn)
           Rule(f, n) == \A m \in 1..n : f[m] = IF m = 1 THEN 0 ELSE f[m - 1] + DaysIn[m - 1]
           B == DaysBefore
<1>1. L \in Nat /\ \A m \in 1..L : DaysIn[m] \in Nat \ {0}
  BY TimeAssumption
<1> HIDE DEF L
(* The recursive definition has a solution up to every month.              *)
<1>2. \A n \in 0..L : \E f \in [1..n -> Nat] : Rule(f, n)
  <2> DEFINE T == {n \in 0..L : ~\E f \in [1..n -> Nat] : Rule(f, n)}
  <2> SUFFICES ASSUME T # {} PROVE FALSE
    OBVIOUS
  <2>1. T \in SUBSET Nat
    BY <1>1
  <2>2. PICK n \in T : \A k \in T : n <= k
    BY <2>1, LeastOf
  <2>3. n # 0
    <3>1. [k \in {} |-> 0] \in [1..0 -> Nat] /\ Rule([k \in {} |-> 0], 0)
      OBVIOUS
    <3>2. QED
      BY <3>1
  <2>4. n \in 1..L /\ n - 1 \in 0..L /\ ~(n <= n - 1)
    BY <1>1, <2>2, <2>3
  <2>5. PICK f \in [1..(n - 1) -> Nat] : Rule(f, n - 1)
    BY <2>2, <2>4
  <2> DEFINE next == IF n = 1 THEN 0 ELSE f[n - 1] + DaysIn[n - 1]
             g == [m \in 1..n |-> IF m = n THEN next ELSE f[m]]
  <2>6. next \in Nat
    <3>1. CASE n = 1
      BY <3>1
    <3>2. CASE n # 1
      <4>1. n - 1 \in 1..L /\ n - 1 \in 1..(n - 1)
        BY <1>1, <2>4, <3>2
      <4>2. f[n - 1] \in Nat /\ DaysIn[n - 1] \in Nat
        BY <1>1, <2>5, <4>1
      <4>3. QED
        BY <3>2, <4>2
    <3>3. QED
      BY <3>1, <3>2
  <2>7. g \in [1..n -> Nat]
    <3>1. \A m \in 1..n : m # n => m \in 1..(n - 1)
      BY <2>4
    <3> HIDE DEF next
    <3>2. QED
      BY <2>5, <2>6, <3>1
  <2>8. Rule(g, n)
    <3> SUFFICES ASSUME NEW m \in 1..n
                 PROVE  g[m] = IF m = 1 THEN 0 ELSE g[m - 1] + DaysIn[m - 1]
      OBVIOUS
    <3>1. m # 1 => m - 1 \in 1..n /\ m - 1 # n /\ g[m - 1] = f[m - 1]
      BY <2>4
    <3>2. CASE m = n
      BY <3>1, <3>2
    <3>3. CASE m # n
      <4>1. m \in 1..(n - 1)
        BY <2>4, <3>3
      <4>2. g[m] = f[m]
        BY <3>3
      <4>3. f[m] = IF m = 1 THEN 0 ELSE f[m - 1] + DaysIn[m - 1]
        BY <2>5, <4>1
      <4>4. QED
        BY <3>1, <4>2, <4>3
    <3>4. QED
      BY <3>2, <3>3
  <2>9. QED
    BY <2>2, <2>7, <2>8
(* So that DaysBefore is one.                                              *)
<1>3. B = [m \in 1..L |-> IF m = 1 THEN 0 ELSE B[m - 1] + DaysIn[m - 1]]
  <2>1. PICK f \in [1..L -> Nat] : Rule(f, L)
    <3>1. L \in 0..L
      BY <1>1
    <3> HIDE DEF Rule
    <3>2. QED
      BY <1>2, <3>1
  <2>2. f = [m \in 1..L |-> IF m = 1 THEN 0 ELSE f[m - 1] + DaysIn[m - 1]]
    BY <2>1
  <2>3. QED
    BY <2>2 DEF DaysBefore, L
<1> HIDE DEF B
<1>4. \A m \in 1..L : B[m] = IF m = 1 THEN 0 ELSE B[m - 1] + DaysIn[m - 1]
  BY <1>3
<1>5. \A m \in 1..L : B[m] \in Nat
  <2> DEFINE T == {m \in 1..L : B[m] \notin Nat}
  <2> SUFFICES ASSUME T # {} PROVE FALSE
    OBVIOUS
  <2>1. T \in SUBSET Nat
    BY <1>1
  <2>2. PICK n \in T : \A k \in T : n <= k
    BY <2>1, LeastOf
  <2>3. n # 1
    BY <1>4, <2>2
  <2>4. n - 1 \in 1..L /\ ~(n <= n - 1)
    BY <1>1, <2>2, <2>3
  <2>5. B[n - 1] \in Nat /\ DaysIn[n - 1] \in Nat
    BY <1>1, <2>2, <2>4
  <2>6. B[n] = B[n - 1] + DaysIn[n - 1]
    BY <1>4, <2>2, <2>3
  <2>7. QED
    BY <2>2, <2>5, <2>6
<1>6. QED
  BY <1>1, <1>4, <1>5 DEF B, L, Months

LEMMA MonthsApart ==
  ASSUME NEW m \in Months, NEW n \in Months, m < n
  PROVE  DaysBefore[m] + DaysIn[m] <= DaysBefore[n]
<1> DEFINE B == DaysBefore
           L == Len(DaysIn)
           T == {k \in 1..L : m < k /\ ~(B[m] + DaysIn[m] <= B[k])}
<1>1. L \in Nat /\ \A k \in 1..L : /\ DaysIn[k] \in Nat \ {0} /\ B[k] \in Nat
                                   /\ B[k] = IF k = 1 THEN 0 ELSE B[k - 1] + DaysIn[k - 1]
  BY DaysBeforeFacts, TimeAssumption DEF Months
<1>2. m \in 1..L /\ n \in 1..L
  BY DEF Months
<1> HIDE DEF B, L
<1> SUFFICES ASSUME T # {} PROVE FALSE
  BY <1>2 DEF B
<1>3. T \in SUBSET Nat
  BY <1>1
<1>4. PICK k \in T : \A h \in T : k <= h
  BY <1>3, LeastOf
<1>5. k \in 1..L /\ m < k /\ ~(B[m] + DaysIn[m] <= B[k]) /\ k # 1 /\ k - 1 \in 1..L
  BY <1>1, <1>2, <1>4
<1>6. B[k] = B[k - 1] + DaysIn[k - 1] /\ B[k - 1] \in Nat /\ DaysIn[k - 1] \in Nat
  BY <1>1, <1>5
<1>7. B[m] \in Nat /\ DaysIn[m] \in Nat /\ B[k] \in Nat
  BY <1>1, <1>2, <1>5
<1>8. CASE k - 1 = m
  BY <1>5, <1>6, <1>7, <1>8
<1>9. CASE k - 1 # m
  <2>1. m < k - 1 /\ ~(k <= k - 1)
    BY <1>2, <1>5, <1>9
  <2>2. B[m] + DaysIn[m] <= B[k - 1]
    BY <1>4, <1>5, <2>1
  <2>3. QED
    BY <1>5, <1>6, <1>7, <2>2
<1>10. QED
  BY <1>8, <1>9

(* A day is of one month.                                                  *)
LEMMA DateIs ==
  ASSUME NEW hour \in Nat, NEW m \in Months, IsIn(hour \div Hours, m)
  PROVE  localtime(hour) =
           [hour |-> hour % Hours, weekday |-> (hour \div Hours) % Weekdays,
            monthday |-> (hour \div Hours) - DaysBefore[m] + 1, month |-> m]
<1> DEFINE day == hour \div Hours
           B == DaysBefore
<1>1. day \in Nat
  BY DivisionFacts, TimeAssumption
<1> HIDE DEF day
<1>2. ASSUME NEW n \in Months, B[n] <= day, day < B[n] + DaysIn[n]
      PROVE  n = m
  <2>1. /\ m \in Nat /\ n \in Nat /\ B[m] \in Nat /\ B[n] \in Nat
        /\ DaysIn[m] \in Nat /\ DaysIn[n] \in Nat
    BY DaysBeforeFacts DEF Months
  <2>2. B[m] <= day /\ day < B[m] + DaysIn[m]
    BY DEF IsIn, day
  <2>3. m < n => B[m] + DaysIn[m] <= B[n]
    BY MonthsApart
  <2>4. n < m => B[n] + DaysIn[n] <= B[m]
    BY MonthsApart
  <2> HIDE DEF B
  <2>5. ~(m < n) /\ ~(n < m)
    BY <1>1, <1>2, <2>1, <2>2, <2>3, <2>4
  <2>6. QED
    BY <2>1, <2>5
<1>3. B[m] <= day /\ day < B[m] + DaysIn[m]
  BY DEF IsIn, day
<1>4. (CHOOSE n \in 1..Len(DaysIn) : B[n] <= day /\ day < B[n] + DaysIn[n]) = m
  BY <1>2, <1>3 DEF Months
<1>5. QED
  BY <1>4 DEF localtime, day

(* What update() computes from an hour is the date in the other zone.      *)
LEMMA UpdateIsRight ==
  ASSUME SameMonthAndWeek, NEW hour \in FirstHour..LastHour
  PROVE  NextDay([localtime(hour) EXCEPT !.hour = @ + Offset])
           = localtime(hour + Offset)
<1> DEFINE d == hour \div Hours
           r == hour % Hours
           e == (hour + Offset) \div Hours
           s == (hour + Offset) % Hours
           B == DaysBefore
<1>1. /\ hour \in Nat /\ hour + Offset \in Nat /\ Hours \in Nat \ {0} /\ Offset \in 0..Hours
      /\ Weekdays \in Nat \ {0}
  BY TimeAssumption
<1>2. PICK m \in Months : IsIn(d, m) /\ IsIn(e, m)
  BY DEF SameMonthAndWeek
<1>3. localtime(hour) =
        [hour |-> r, weekday |-> d % Weekdays, monthday |-> d - B[m] + 1, month |-> m]
  BY <1>1, <1>2, DateIs
<1>4. localtime(hour + Offset) =
        [hour |-> s, weekday |-> e % Weekdays, monthday |-> e - B[m] + 1, month |-> m]
  BY <1>1, <1>2, DateIs
<1>5. d \in Nat /\ r \in 0..(Hours - 1)
  BY <1>1, DivisionFacts
<1>6. IF r + Offset < Hours THEN e = d /\ s = r + Offset
      ELSE e = d + 1 /\ s = (r + Offset) - Hours
  BY <1>1, Shifted
<1>7. B[m] \in Nat
  BY DaysBeforeFacts
<1>8. d \div Weekdays = e \div Weekdays
  BY DEF SameMonthAndWeek
<1> HIDE DEF d, r, e, s, B
<1>9. [localtime(hour) EXCEPT !.hour = @ + Offset] =
        [hour |-> r + Offset, weekday |-> d % Weekdays, monthday |-> d - B[m] + 1, month |-> m]
  BY <1>3
<1>10. CASE r + Offset < Hours
  <2>1. ~(r + Offset >= Hours)
    BY <1>1, <1>5, <1>10
  <2>2. e = d /\ s = r + Offset
    BY <1>6, <1>10
  <2>3. QED
    BY <1>4, <1>9, <2>1, <2>2 DEF NextDay
<1>11. CASE ~(r + Offset < Hours)
  <2>1. r + Offset >= Hours
    BY <1>1, <1>5, <1>11
  <2>2. e = d + 1 /\ s = (r + Offset) - Hours
    BY <1>6, <1>11
  <2>3. e % Weekdays = (d % Weekdays) + 1
    <3>1. /\ d \div Weekdays \in Nat /\ d % Weekdays \in 0..(Weekdays - 1)
          /\ d = Weekdays * (d \div Weekdays) + (d % Weekdays)
      BY <1>1, <1>5, DivisionFacts
    <3>2. /\ e % Weekdays \in 0..(Weekdays - 1)
          /\ e = Weekdays * (e \div Weekdays) + (e % Weekdays)
      <4>1. e \in Nat
        BY <1>5, <2>2
      <4>2. QED
        BY <1>1, <4>1, DivisionFacts
    <3> DEFINE x == d % Weekdays
               y == e % Weekdays
               z == Weekdays * (d \div Weekdays)
    <3>3. x \in Nat /\ y \in Nat /\ z \in Nat /\ d = z + x /\ e = z + y
      BY <1>1, <1>8, <3>1, <3>2
    <3> HIDE DEF x, y, z
    <3>4. y = x + 1
      BY <2>2, <3>3
    <3>5. QED
      BY <3>4 DEF x, y
  <2>4. e - B[m] + 1 = (d - B[m] + 1) + 1
    BY <1>5, <1>7, <2>2
  <2> DEFINE w == d % Weekdays
             x == d - B[m] + 1
             date == [hour |-> r + Offset, weekday |-> w, monthday |-> x, month |-> m]
  <2>5. NextDay(date) =
          [hour |-> (r + Offset) - Hours, weekday |-> w + 1, monthday |-> x + 1, month |-> m]
    <3>1. date.hour >= Hours
      BY <2>1
    <3>2. NextDay(date) =
            [date EXCEPT !.hour = @ - Hours, !.weekday = @ + 1, !.monthday = @ + 1]
      BY <3>1 DEF NextDay
    <3> HIDE DEF w, x
    <3>3. QED
      BY <3>2
  <2>6. QED
    BY <1>4, <1>9, <2>2, <2>3, <2>4, <2>5
<1>12. QED
  BY <1>10, <1>11

-----------------------------------------------------------------------------
(* The inductive invariant of the getters.  Who is in update() holds       *)
(* m_mutex; the date it has set is that of its own call, which was not     *)
(* before the calls of those who still have to read.                       *)
InUpdate ==
  \A t \in Threads :
    /\ at[t] \in {"set", "carry"} <=> m_mutex = t
    /\ at[t] = "carry" =>
         /\ m_local_date = [localtime(asked[t]) EXCEPT !.hour = @ + Offset]
         /\ \A u \in Threads : at[u] = "read" => asked[u] <= asked[t]

(* Outside of update() the date is that of an hour after all these calls.  *)
DateIsNew ==
  m_mutex = none /\ (\E t \in Threads : at[t] = "read") =>
    \E hour \in FirstHour..clock :
      /\ m_local_date = localtime(hour + Offset)
      /\ \A t \in Threads : at[t] = "read" => asked[t] <= hour

ClockInv ==
  /\ clock \in FirstHour..LastHour
  /\ at \in [Threads -> {"idle", "set", "carry", "read"}]
  /\ asked \in [Threads -> FirstHour..clock]
  /\ DOMAIN result = Threads
  /\ InUpdate /\ DateIsNew

LEMMA ClockInvInit ==
  ASSUME TimeInit
  PROVE  ClockInv
<1>1. /\ clock = FirstHour /\ m_mutex = none
      /\ FirstHour \in FirstHour..FirstHour /\ FirstHour \in FirstHour..LastHour
  BY TimeAssumption DEF TimeInit
<1>2. /\ at = [t \in Threads |-> "idle"]
      /\ asked = [t \in Threads |-> FirstHour]
      /\ DOMAIN result = Threads
  BY DEF TimeInit
<1>3. \A t \in Threads : t # none
  BY TimeAssumption
<1>4. QED
  BY <1>1, <1>2, <1>3 DEF ClockInv, InUpdate, DateIsNew

LEMMA ClockInvStep ==
  ASSUME SameMonthAndWeek, ClockInv, [TimeNext]_timevars
  PROVE  ClockInv'
<1>1. FirstHour \in Nat /\ LastHour \in Nat /\ \A t \in Threads : t # none
  BY TimeAssumption
<1>2. /\ clock \in FirstHour..LastHour /\ clock \in Nat
      /\ at \in [Threads -> {"idle", "set", "carry", "read"}]
      /\ asked \in [Threads -> FirstHour..clock]
      /\ InUpdate /\ DateIsNew
  BY <1>1 DEF ClockInv
<1>3. \A t \in Threads : asked[t] \in Nat /\ asked[t] <= clock /\ FirstHour <= asked[t]
  BY <1>1, <1>2
<1> DEFINE Resulting == DOMAIN result' = Threads
<1>0. Resulting
  BY DEF ClockInv, timevars, TimeNext, Step, HourPasses, Lock, SetDate,
         Carry, Read
<1> HIDE DEF Resulting
<1>4. CASE HourPasses
  <2>1. /\ clock' = clock + 1 /\ clock < LastHour
        /\ m_local_date' = m_local_date /\ m_mutex' = m_mutex /\ at' = at /\ asked' = asked
    BY <1>4 DEF HourPasses
  <2>2. clock' \in FirstHour..LastHour /\ FirstHour..clock \subseteq FirstHour..clock'
    BY <1>1, <1>2, <2>1
  <2>3. InUpdate'
    BY <1>2, <2>1 DEF InUpdate
  <2>4. DateIsNew'
    BY <1>2, <2>1, <2>2 DEF DateIsNew
  <2>5. QED
    BY <1>0, <1>2, <2>1, <2>2, <2>3, <2>4 DEF ClockInv, Resulting
<1>5. ASSUME NEW t \in Threads, Lock(t) PROVE ClockInv'
  <2>1. /\ at[t] = "idle" /\ m_mutex = none /\ m_mutex' = t /\ at' = [at EXCEPT ![t] = "set"]
        /\ clock' = clock /\ m_local_date' = m_local_date /\ asked' = asked
    BY <1>5 DEF Lock
  <2>2. \A u \in Threads : at'[u] = IF u = t THEN "set" ELSE at[u]
    BY <1>2, <2>1
  <2>3. InUpdate'
    BY <1>1, <1>2, <2>1, <2>2 DEF InUpdate
  <2>4. DateIsNew'
    BY <1>1, <2>1 DEF DateIsNew
  <2>5. QED
    BY <1>0, <1>2, <2>1, <2>3, <2>4 DEF ClockInv, Resulting
<1>6. ASSUME NEW t \in Threads, SetDate(t) PROVE ClockInv'
  <2>1. /\ at[t] = "set" /\ m_mutex' = m_mutex /\ at' = [at EXCEPT ![t] = "carry"]
        /\ clock' = clock /\ asked' = [asked EXCEPT ![t] = clock]
        /\ m_local_date' = [localtime(clock) EXCEPT !.hour = @ + Offset]
    BY <1>6 DEF SetDate
  <2>2. m_mutex = t /\ \A u \in Threads : at[u] \in {"set", "carry"} => u = t
    BY <1>2, <2>1 DEF InUpdate
  <2>3. \A u \in Threads : /\ at'[u] = IF u = t THEN "carry" ELSE at[u]
                           /\ asked'[u] = IF u = t THEN clock ELSE asked[u]
    BY <1>2, <2>1
  <2>4. asked' \in [Threads -> FirstHour..clock]
    BY <1>1, <1>2, <2>1
  <2>5. InUpdate'
    <3> SUFFICES ASSUME NEW u \in Threads
                 PROVE  /\ at'[u] \in {"set", "carry"} <=> m_mutex' = u
                        /\ at'[u] = "carry" =>
                             /\ m_local_date' =
                                  [localtime(asked'[u]) EXCEPT !.hour = @ + Offset]
                             /\ \A v \in Threads : at'[v] = "read" => asked'[v] <= asked'[u]
      BY DEF InUpdate, localtime, DaysBefore
    <3>1. CASE u = t
      <4>1. asked'[u] = clock /\ \A v \in Threads : asked'[v] <= clock
        BY <1>2, <1>3, <2>3, <3>1
      <4>2. QED
        BY <2>1, <2>2, <2>3, <3>1, <4>1
    <3>2. CASE u # t
      BY <2>1, <2>2, <2>3, <3>2
    <3>3. QED
      BY <3>1, <3>2
  <2>6. DateIsNew'
    BY <1>1, <2>1, <2>2 DEF DateIsNew
  <2>7. QED
    BY <1>0, <1>2, <2>1, <2>4, <2>5, <2>6 DEF ClockInv, Resulting
<1>7. ASSUME NEW t \in Threads, Carry(t) PROVE ClockInv'
  <2>1. /\ at[t] = "carry" /\ m_mutex' = none /\ at' = [at EXCEPT ![t] = "read"]
        /\ clock' = clock /\ asked' = asked
        /\ m_local_date' = NextDay(m_local_date)
    BY <1>7 DEF Carry
  <2>2. /\ \A u \in Threads : at[u] \in {"set", "carry"} => u = t
        /\ m_local_date = [localtime(asked[t]) EXCEPT !.hour = @ + Offset]
        /\ \A u \in Threads : at[u] = "read" => asked[u] <= asked[t]
    BY <1>2, <2>1 DEF InUpdate
  <2>3. \A u \in Threads : at'[u] = IF u = t THEN "read" ELSE at[u]
    BY <1>2, <2>1
  <2>4. asked[t] \in FirstHour..clock /\ asked[t] \in FirstHour..LastHour /\ asked[t] <= asked[t]
    BY <1>1, <1>2, <1>3
  <2>5. m_local_date' = localtime(asked[t] + Offset)
    BY <2>1, <2>2, <2>4, UpdateIsRight
  <2>6. InUpdate'
    BY <1>1, <2>1, <2>2, <2>3 DEF InUpdate
  <2>7. \A u \in Threads : at'[u] = "read" => asked'[u] <= asked[t]
    BY <2>1, <2>2, <2>3, <2>4
  <2>8. DateIsNew'
    BY <2>1, <2>4, <2>5, <2>7 DEF DateIsNew
  <2>9. QED
    BY <1>0, <1>2, <2>1, <2>6, <2>8 DEF ClockInv, Resulting
<1>8. ASSUME NEW t \in Threads, Read(t) PROVE ClockInv'
  <2>1. /\ at[t] = "read" /\ m_mutex' = m_mutex /\ at' = [at EXCEPT ![t] = "idle"]
        /\ clock' = clock /\ asked' = asked /\ m_local_date' = m_local_date
    BY <1>8 DEF Read
  <2>2. \A u \in Threads : at'[u] = IF u = t THEN "idle" ELSE at[u]
    BY <1>2, <2>1
  <2>3. InUpdate'
    BY <1>2, <2>1, <2>2 DEF InUpdate
  <2>4. DateIsNew'
    BY <1>2, <2>1, <2>2 DEF DateIsNew
  <2>5. QED
    BY <1>0, <1>2, <2>1, <2>3, <2>4 DEF ClockInv, Resulting
<1>9. CASE UNCHANGED timevars
  BY <1>0, <1>2, <1>9 DEF Resulting, timevars, ClockInv, InUpdate, DateIsNew
<1>10. QED
  BY <1>4, <1>5, <1>6, <1>7, <1>8, <1>9 DEF TimeNext, Step

(* For any number of threads, any calendar and any offset of at most a     *)
(* day: as long as no month and no week ends in between, whoever reads     *)
(* while no update() is under way gets the date of a moment of its call,   *)
(* although it reads the shared date without the mutex (times.cpp).        *)
THEOREM GettersReadTheTime ==
  ASSUME SameMonthAndWeek
  PROVE  TimeSpec => ReadsTheTime
<1> DEFINE Reads == \A t \in Threads :
                      at[t] = "read" /\ at'[t] = "idle" /\ m_mutex = none =>
                        result'[t] \in {localtime(hour + Offset) : hour \in asked[t]..clock}
<1>1. TimeInit => ClockInv
  BY ClockInvInit
<1>2. ClockInv /\ [TimeNext]_timevars => ClockInv'
  BY ClockInvStep
<1>3. ClockInv /\ [TimeNext]_timevars => [Reads]_timevars
  <2> SUFFICES ASSUME ClockInv, TimeNext, NEW t \in Threads,
                      at[t] = "read", at'[t] = "idle", m_mutex = none
               PROVE  result'[t] \in {localtime(hour + Offset) : hour \in asked[t]..clock}
    OBVIOUS
  <2>1. /\ at \in [Threads -> {"idle", "set", "carry", "read"}]
        /\ asked \in [Threads -> FirstHour..clock]
        /\ DOMAIN result = Threads
    BY DEF ClockInv
  <2>2. PICK hour \in FirstHour..clock :
          /\ m_local_date = localtime(hour + Offset)
          /\ \A u \in Threads : at[u] = "read" => asked[u] <= hour
    BY DEF ClockInv, DateIsNew
  <2>3. hour \in asked[t]..clock
    BY <2>1, <2>2, TimeAssumption DEF ClockInv
  <2>4. result'[t] = m_local_date
    <3>1. CASE HourPasses
      BY <3>1 DEF HourPasses
    <3>2. ASSUME NEW u \in Threads, Lock(u) \/ SetDate(u) \/ Carry(u)
          PROVE  FALSE
      <4>1. PICK where : where \in {"set", "carry", "read"} /\ at' = [at EXCEPT ![u] = where]
        BY <3>2 DEF Lock, SetDate, Carry
      <4>2. QED
        BY <2>1, <4>1
    <3>3. ASSUME NEW u \in Threads, Read(u)
          PROVE  result'[t] = m_local_date
      <4>1. at' = [at EXCEPT ![u] = "idle"] /\ result' = [result EXCEPT ![u] = m_local_date]
        BY <3>3 DEF Read
      <4>2. u = t
        BY <2>1, <4>1
      <4>3. QED
        BY <2>1, <4>1, <4>2
    <3>4. QED
      BY <3>1, <3>2, <3>3 DEF TimeNext, Step
  <2>5. QED
    BY <2>2, <2>3, <2>4
<1>4. QED
  BY <1>1, <1>2, <1>3, PTL DEF TimeSpec, ReadsTheTime

=============================================================================
