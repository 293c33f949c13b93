-------------------------- MODULE TaskQueueLemmas ---------------------------
(***************************************************************************)
(* What the operations on the task queue return, preserve and bound, for   *)
(* every queue and every set of tasks: the facts the proofs about the      *)
(* queue and about the dispatch cite.                                      *)
(***************************************************************************)
EXTENDS TaskQueueOps, FiniteSetTheorems, SequenceTheorems, TLAPS

\* The library's well-founded relation on numbers is the order itself.
LEMMA LessThanRelation == \A x, y \in Nat : <<x, y>> \in OpToRel(<, Nat) <=> x < y
  BY DEF OpToRel

\* A non-empty set of numbers has a least element, and Min names it.
LEMMA MinOfNaturals ==
    ASSUME NEW S \in SUBSET Nat, S # {}
    PROVE  Min(S) \in S /\ \A x \in S : Min(S) <= x
<1>1. \A T : T \subseteq Nat /\ T # {} =>
        \E x \in T : \A y \in T : ~(<<y, x>> \in OpToRel(<, Nat))
  BY NatLessThanWellFounded, WFMin
<1>2. S \subseteq Nat
  OBVIOUS
<1>3. PICK m \in S : \A y \in S : ~(<<y, m>> \in OpToRel(<, Nat))
  BY <1>1, <1>2
<1>4. \A y \in S : ~(y < m)
  BY <1>3, LessThanRelation
<1>5. \A y \in S : m <= y
  BY <1>4
<1>6. QED
  BY <1>5 DEF Min

\* InsertAt shifts the tail by one place and keeps everything else.
LEMMA InsertedElements ==
    ASSUME NEW S, NEW s \in Seq(S), NEW e \in S, NEW i \in 1..(Len(s) + 1)
    PROVE  /\ InsertAt(s, i, e) \in Seq(S)
           /\ Len(InsertAt(s, i, e)) = Len(s) + 1
           /\ \A j \in 1..(Len(s) + 1) :
                InsertAt(s, i, e)[j] = IF j < i THEN s[j]
                                       ELSE IF j = i THEN e ELSE s[j - 1]
<1> DEFINE a == SubSeq(s, 1, i - 1)
           b == SubSeq(s, i, Len(s))
<1>1. /\ a \in Seq(S) /\ Len(a) = i - 1
      /\ \A j \in 1..(i - 1) : a[j] = s[j]
  BY SubSeqProperties
<1>2. /\ b \in Seq(S) /\ Len(b) = Len(s) + 1 - i
      /\ \A j \in 1..(Len(s) + 1 - i) : b[j] = s[i + j - 1]
  BY SubSeqProperties
<1> HIDE DEF a, b
<1>3. <<e>> \in Seq(S) /\ Len(<<e>>) = 1 /\ <<e>>[1] = e
  OBVIOUS
<1>4. /\ a \o <<e>> \in Seq(S) /\ Len(a \o <<e>>) = i
      /\ \A j \in 1..i : (a \o <<e>>)[j] = IF j < i THEN s[j] ELSE e
  BY <1>1, <1>3, ConcatProperties
<1> DEFINE c == a \o <<e>>
<1>6. InsertAt(s, i, e) = c \o b
  BY DEF InsertAt, a, b
<1> HIDE DEF c
<1>7. /\ c \in Seq(S) /\ Len(c) = i
      /\ \A j \in 1..i : c[j] = IF j < i THEN s[j] ELSE e
  BY <1>4 DEF c
<1>8. /\ c \o b \in Seq(S) /\ Len(c \o b) = Len(s) + 1
      /\ \A j \in 1..(Len(s) + 1) :
           (c \o b)[j] = IF j <= i THEN c[j] ELSE b[j - i]
  BY <1>2, <1>7, ConcatProperties
<1>9. QED
  BY <1>2, <1>6, <1>7, <1>8

\* RemoveAt closes the gap it leaves and keeps everything else.
LEMMA RemovedElements ==
    ASSUME NEW S, NEW s \in Seq(S), NEW i \in 1..Len(s)
    PROVE  /\ RemoveAt(s, i) \in Seq(S)
           /\ Len(RemoveAt(s, i)) = Len(s) - 1
           /\ \A j \in 1..(Len(s) - 1) :
                RemoveAt(s, i)[j] = IF j < i THEN s[j] ELSE s[j + 1]
<1> DEFINE a == SubSeq(s, 1, i - 1)
           b == SubSeq(s, i + 1, Len(s))
<1>1. /\ a \in Seq(S) /\ Len(a) = i - 1
      /\ \A j \in 1..(i - 1) : a[j] = s[j]
  BY SubSeqProperties
<1>2. /\ b \in Seq(S) /\ Len(b) = Len(s) - i
      /\ \A j \in 1..(Len(s) - i) : b[j] = s[i + j]
  BY SubSeqProperties
<1> HIDE DEF a, b
<1>3. RemoveAt(s, i) = a \o b
  BY DEF RemoveAt, a, b
<1>4. /\ a \o b \in Seq(S) /\ Len(a \o b) = Len(a) + Len(b)
      /\ \A j \in 1..(Len(a) + Len(b)) :
           (a \o b)[j] = IF j <= Len(a) THEN a[j] ELSE b[j - Len(a)]
  BY <1>1, <1>2, ConcatProperties
<1>5. Len(s) \in Nat /\ Len(a) + Len(b) = Len(s) - 1
  BY <1>1, <1>2
<1>6. ASSUME NEW j \in 1..(Len(s) - 1)
      PROVE  (a \o b)[j] = IF j < i THEN s[j] ELSE s[j + 1]
  <2>1. CASE j < i
    BY <1>1, <1>4, <1>5, <2>1
  <2>2. CASE ~(j < i)
    <3>1. j - (i - 1) \in 1..(Len(s) - i) /\ i + (j - (i - 1)) = j + 1
      BY <1>5, <2>2
    <3>2. b[j - (i - 1)] = s[j + 1]
      BY <1>2, <3>1
    <3>3. QED
      BY <1>1, <1>4, <1>5, <2>2, <3>2
  <2>3. QED
    BY <2>1, <2>2
<1>7. QED
  BY <1>3, <1>4, <1>5, <1>6

\* The insertion point is a place of the queue, or the one behind its end;
\* the tasks before it do not yield and the first of those behind it does.
LEMMA InsertionPoint ==
    ASSUME NEW q \in Seq(Tasks), NEW t \in Tasks
    PROVE  /\ InsertIndex(q, t) \in 1..(Len(q) + 1)
           /\ \A j \in 1..Len(q) : j < InsertIndex(q, t) => PriorityOf[q[j]] <= PriorityOf[t]
           /\ InsertIndex(q, t) <= Len(q)
                => PriorityOf[q[InsertIndex(q, t)]] > PriorityOf[t]
<1> USE PriorityAssumption DEF Priorities
<1>1. Yielding(q, t) \subseteq 1..Len(q) /\ Yielding(q, t) \in SUBSET Nat
  BY DEF Yielding
<1>2. CASE Yielding(q, t) = {}
  BY <1>2 DEF InsertIndex, Yielding
<1>3. CASE Yielding(q, t) # {}
  <2>1. InsertIndex(q, t) \in Yielding(q, t)
        /\ \A x \in Yielding(q, t) : InsertIndex(q, t) <= x
    BY <1>1, <1>3, MinOfNaturals DEF InsertIndex
  <2>2. QED
    BY <2>1, <1>1 DEF Yielding
<1>4. QED
  BY <1>2, <1>3

\* An enqueue adds exactly its task, keeps the queue free of duplicates when
\* the task was not in it, and keeps it sorted.
LEMMA EnqueuedFacts ==
    ASSUME NEW q \in Seq(Tasks), NEW t \in Tasks
    PROVE  /\ Enqueued(q, t) \in Seq(Tasks)
           /\ Len(Enqueued(q, t)) = Len(q) + 1
           /\ \A x : Contains(Enqueued(q, t), x) <=> x = t \/ Contains(q, x)
           /\ IsInjective(q) /\ ~Contains(q, t) => IsInjective(Enqueued(q, t))
           /\ Sorted(q) => Sorted(Enqueued(q, t))
<1> DEFINE i == InsertIndex(q, t)
           r == InsertAt(q, i, t)
<1>1. i \in 1..(Len(q) + 1) /\ Len(q) \in Nat
  BY InsertionPoint, LenProperties
<1> HIDE DEF i
<1>2. /\ r \in Seq(Tasks) /\ Len(r) = Len(q) + 1
      /\ \A j \in 1..(Len(q) + 1) : r[j] = IF j < i THEN q[j] ELSE IF j = i THEN t ELSE q[j - 1]
  BY <1>1, InsertedElements
<1> USE DEF i
<1>3. /\ \A j \in 1..Len(q) : j < i => PriorityOf[q[j]] <= PriorityOf[t]
      /\ i <= Len(q) => PriorityOf[q[i]] > PriorityOf[t]
  BY InsertionPoint
<1> HIDE DEF i, r
<1>4. \A x : Contains(r, x) <=> x = t \/ Contains(q, x)
  <2>1. \A x : Contains(r, x) => x = t \/ Contains(q, x)
    BY <1>1, <1>2 DEF Contains
  <2>2. Contains(r, t)
    BY <1>1, <1>2 DEF Contains
  <2>3. ASSUME NEW j \in 1..Len(q)
        PROVE  Contains(r, q[j])
    <3>1. j < i => r[j] = q[j] /\ j \in 1..Len(r)
      BY <1>1, <1>2
    <3>2. ~(j < i) => r[j + 1] = q[j] /\ j + 1 \in 1..Len(r)
      BY <1>1, <1>2
    <3>3. QED
      BY <3>1, <3>2 DEF Contains
  <2>4. QED
    BY <2>1, <2>2, <2>3 DEF Contains
<1>5. IsInjective(q) /\ ~Contains(q, t) => IsInjective(r)
  <2>1. SUFFICES ASSUME IsInjective(q), ~Contains(q, t),
                        NEW j \in 1..Len(r), NEW k \in 1..Len(r), r[j] = r[k]
                 PROVE  j = k
    BY <1>2 DEF IsInjective
  <2>2. \A m, n \in 1..Len(q) : q[m] = q[n] => m = n
    BY <2>1 DEF IsInjective
  <2>3. \A m \in 1..Len(q) : q[m] # t
    BY <2>1 DEF Contains
  <2>4. CASE j = i /\ k # i
    <3>1. r[j] = t
      BY <1>1, <1>2, <2>4
    <3>2. k < i => r[k] = q[k] /\ k \in 1..Len(q)
      BY <1>1, <1>2
    <3>3. k > i => r[k] = q[k - 1] /\ k - 1 \in 1..Len(q)
      BY <1>1, <1>2
    <3>4. k < i \/ k > i
      BY <1>1, <1>2, <2>4
    <3>5. QED
      BY <2>1, <2>3, <3>1, <3>2, <3>3, <3>4
  <2>5. CASE j # i /\ k = i
    BY <1>1, <1>2, <2>1, <2>3, <2>5
  <2>6. CASE j < i /\ k < i
    BY <1>1, <1>2, <2>1, <2>2, <2>6
  <2>7. CASE j < i /\ k > i
    <3>1. q[j] = q[k - 1] /\ j \in 1..Len(q) /\ k - 1 \in 1..Len(q)
      BY <1>1, <1>2, <2>1, <2>7
    <3>2. QED
      BY <1>1, <2>2, <2>7, <3>1
  <2>8. CASE j > i /\ k < i
    <3>1. q[j - 1] = q[k] /\ j - 1 \in 1..Len(q) /\ k \in 1..Len(q)
      BY <1>1, <1>2, <2>1, <2>8
    <3>2. QED
      BY <1>1, <2>2, <2>8, <3>1
  <2>9. CASE j > i /\ k > i
    <3>1. q[j - 1] = q[k - 1] /\ j - 1 \in 1..Len(q) /\ k - 1 \in 1..Len(q)
      BY <1>1, <1>2, <2>1, <2>9
    <3>2. j - 1 = k - 1
      BY <2>2, <3>1
    <3>3. QED
      BY <1>1, <1>2, <3>2
  <2>10. QED
    BY <1>1, <1>2, <2>4, <2>5, <2>6, <2>7, <2>8, <2>9
<1>6. Sorted(q) => Sorted(r)
  <2>1. SUFFICES ASSUME Sorted(q), NEW j \in 1..Len(r), NEW k \in 1..Len(r), j < k
                 PROVE  PriorityOf[r[j]] <= PriorityOf[r[k]]
    BY DEF Sorted
  <2>2. \A m, n \in 1..Len(q) : m < n => PriorityOf[q[m]] <= PriorityOf[q[n]]
    BY <2>1 DEF Sorted
  <2>3. \A m \in 1..Len(q) : PriorityOf[q[m]] \in Int
    BY PriorityAssumption DEF Priorities
  <2>4. PriorityOf[t] \in Int
    BY PriorityAssumption DEF Priorities
  <2>5. \A m \in 1..Len(q) : i <= m => PriorityOf[q[m]] > PriorityOf[t]
    BY <1>1, <1>3, <2>2, <2>3, <2>4
  <2>6. CASE k < i
    BY <2>6, <2>1, <2>2, <1>1, <1>2
  <2>7. CASE k = i
    BY <2>7, <2>1, <1>3, <1>1, <1>2
  <2>8. CASE k > i /\ j < i
    <3>1. /\ r[j] = q[j] /\ j \in 1..Len(q)
          /\ r[k] = q[k - 1] /\ k - 1 \in 1..Len(q) /\ i <= k - 1
      BY <1>1, <1>2, <2>1, <2>8
    <3>2. PriorityOf[q[j]] <= PriorityOf[t] /\ PriorityOf[q[k - 1]] > PriorityOf[t]
      BY <1>3, <2>5, <2>8, <3>1
    <3>3. QED
      BY <2>3, <2>4, <3>1, <3>2
  <2>9. CASE k > i /\ j = i
    <3>1. r[j] = t /\ r[k] = q[k - 1] /\ k - 1 \in 1..Len(q) /\ i <= k - 1
      BY <1>1, <1>2, <2>1, <2>9
    <3>2. QED
      BY <2>3, <2>4, <2>5, <3>1
  <2>10. CASE k > i /\ j > i
    <3>1. /\ r[j] = q[j - 1] /\ j - 1 \in 1..Len(q)
          /\ r[k] = q[k - 1] /\ k - 1 \in 1..Len(q) /\ j - 1 < k - 1
      BY <1>1, <1>2, <2>1, <2>10
    <3>2. QED
      BY <2>2, <3>1
  <2>11. QED
    BY <2>6, <2>7, <2>8, <2>9, <2>10, <1>1, <1>2
<1>7. QED
  BY <1>2, <1>4, <1>5, <1>6 DEF r, i, Enqueued

\* Removing one entry leaves a queue of the others, in their order; in a queue
\* without duplicates the removed task is gone.
LEMMA RemoveAtFacts ==
    ASSUME NEW q \in Seq(Tasks), NEW i \in 1..Len(q)
    PROVE  /\ RemoveAt(q, i) \in Seq(Tasks)
           /\ \A x : Contains(RemoveAt(q, i), x) => Contains(q, x)
           /\ \A x : Contains(q, x) /\ x # q[i] => Contains(RemoveAt(q, i), x)
           /\ IsInjective(q) => /\ IsInjective(RemoveAt(q, i))
                                /\ ~Contains(RemoveAt(q, i), q[i])
           /\ Sorted(q) => Sorted(RemoveAt(q, i))
<1> DEFINE r == RemoveAt(q, i)
<1>1. /\ r \in Seq(Tasks) /\ Len(r) = Len(q) - 1
      /\ \A j \in 1..(Len(q) - 1) : r[j] = IF j < i THEN q[j] ELSE q[j + 1]
  BY RemovedElements
<1> HIDE DEF r
<1>2. \A x : Contains(r, x) => Contains(q, x)
  BY <1>1 DEF Contains
<1>3. ASSUME NEW x, Contains(q, x), x # q[i]
      PROVE  Contains(r, x)
  <2>1. PICK j \in 1..Len(q) : q[j] = x
    BY <1>3 DEF Contains
  <2>2. j < i => r[j] = x /\ j \in 1..Len(r)
    BY <1>1, <2>1
  <2>3. j > i => r[j - 1] = x /\ j - 1 \in 1..Len(r)
    BY <1>1, <2>1
  <2>4. j # i
    BY <1>3, <2>1
  <2>5. QED
    BY <2>2, <2>3, <2>4 DEF Contains
<1>4. ASSUME IsInjective(q)
      PROVE  IsInjective(r) /\ ~Contains(r, q[i])
  <2>1. \A m, n \in 1..Len(q) : q[m] = q[n] => m = n
    BY <1>4 DEF IsInjective
  <2>2. Len(q) \in Nat /\ DOMAIN r = 1..(Len(q) - 1)
    BY <1>1
  <2>3. \A j \in 1..(Len(q) - 1) :
          \/ j < i /\ r[j] = q[j] /\ j \in 1..Len(q)
          \/ j >= i /\ r[j] = q[j + 1] /\ j + 1 \in 1..Len(q)
    BY <1>1, <2>2
  <2>4. ~Contains(r, q[i])
    <3>1. SUFFICES ASSUME NEW j \in 1..(Len(q) - 1), r[j] = q[i]
                   PROVE  FALSE
      BY <1>1 DEF Contains
    <3>2. QED
      BY <2>1, <2>2, <2>3, <3>1
  <2>5. IsInjective(r)
    <3>1. SUFFICES ASSUME NEW j \in 1..(Len(q) - 1), NEW k \in 1..(Len(q) - 1), r[j] = r[k]
                   PROVE  j = k
      BY <2>2 DEF IsInjective
    <3>2. QED
      BY <2>1, <2>2, <2>3, <3>1
  <2>6. QED
    BY <2>4, <2>5
<1>5. Sorted(q) => Sorted(r)
  BY <1>1 DEF Sorted
<1>6. QED
  BY <1>1, <1>2, <1>3, <1>4, <1>5 DEF r

\* The index SelectInSeq answers is 0 or a position with the property.
LEMMA SessionIndexFacts ==
    ASSUME NEW q \in Seq(Tasks), NEW s, SessionIndex(q, s) # 0
    PROVE  /\ SessionIndex(q, s) \in 1..Len(q)
           /\ SessionOf[q[SessionIndex(q, s)]] = s
<1> DEFINE I == {i \in 1..Len(q) : SessionOf[q[i]] = s}
<1>1. SessionIndex(q, s) = IF I # {} THEN Min(I) ELSE 0
  BY DEF SessionIndex, SelectInSeq
<1>2. I # {} /\ I \in SUBSET Nat
  BY <1>1
<1>3. QED
  BY <1>1, <1>2, MinOfNaturals

\* A cancel of a queued task removes an entry of it and nothing else.
LEMMA CancelledFacts ==
    ASSUME NEW q \in Seq(Tasks), NEW t \in Tasks, Contains(q, t)
    PROVE  \E i \in 1..Len(q) : q[i] = t /\ Cancelled(q, t) = RemoveAt(q, i)
<1> DEFINE I == {i \in 1..Len(q) : q[i] = t}
<1>1. I # {} /\ I \in SUBSET Nat
  BY DEF Contains
<1>2. Min(I) \in I
  BY <1>1, MinOfNaturals
<1>3. Cancelled(q, t) = RemoveAt(q, Min(I))
  BY <1>1 DEF Cancelled, RemoveFirst, SelectInSeq, Contains
<1>4. QED
  BY <1>2, <1>3

\* Dequeue removes the first entry.
LEMMA TailFacts ==
    ASSUME NEW q \in Seq(Tasks), q # <<>>
    PROVE  /\ Head(q) \in Tasks /\ Contains(q, Head(q))
           /\ Tail(q) \in Seq(Tasks)
           /\ \A x : Contains(Tail(q), x) => Contains(q, x)
           /\ \A x : Contains(q, x) /\ x # Head(q) => Contains(Tail(q), x)
           /\ IsInjective(q) => IsInjective(Tail(q)) /\ ~Contains(Tail(q), Head(q))
           /\ Sorted(q) => Sorted(Tail(q))
<1>1. /\ Len(q) \in Nat /\ Len(q) >= 1 /\ Head(q) = q[1] /\ Head(q) \in Tasks
      /\ Tail(q) \in Seq(Tasks) /\ Len(Tail(q)) = Len(q) - 1
      /\ \A j \in 1..(Len(q) - 1) : Tail(q)[j] = q[j + 1]
  BY HeadTailProperties
<1>2. /\ Contains(q, Head(q))
      /\ \A x : Contains(Tail(q), x) => Contains(q, x)
  BY <1>1 DEF Contains
<1>3. ASSUME NEW x, Contains(q, x), x # Head(q)
      PROVE  Contains(Tail(q), x)
  <2>1. PICK j \in 1..Len(q) : q[j] = x
    BY <1>3 DEF Contains
  <2>2. j - 1 \in 1..Len(Tail(q)) /\ Tail(q)[j - 1] = x
    BY <1>1, <1>3, <2>1
  <2>3. QED
    BY <2>2 DEF Contains
<1>4. IsInjective(q) => IsInjective(Tail(q)) /\ ~Contains(Tail(q), Head(q))
  BY <1>1 DEF IsInjective, Contains
<1>5. Sorted(q) => Sorted(Tail(q))
  BY <1>1 DEF Sorted
<1>6. QED
  BY <1>1, <1>2, <1>3, <1>4, <1>5
=============================================================================
