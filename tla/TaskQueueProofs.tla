--------------------------- MODULE TaskQueueProofs --------------------------
(***************************************************************************)
(* For every set of tasks: the array stays sorted, and with its insertion  *)
(* loop it implements the three lanes of PriorityLanes.  The lanes are     *)
(* pieces of the array, so the proof follows where each piece begins.      *)
(***************************************************************************)
EXTENDS TaskQueue, TaskQueueLemmas

\* The queue keeps its type and its order.
QueueInv == TypeOK /\ QueueSorted

\* Everything a call may do to the array.
LEMMA QueueKept == ASSUME QueueInv, [Next]_vars PROVE QueueInv'
<1> USE NoTaskAssumption DEF QueueInv, TypeOK, QueueSorted
<1>1. ASSUME NEW t \in Tasks, Enqueue(t) PROVE QueueInv'
  BY <1>1, EnqueuedFacts DEF Enqueue
<1>2. CASE Dequeue
  BY <1>2, TailFacts DEF Dequeue
<1>3. ASSUME NEW t \in Tasks, Cancel(t) PROVE QueueInv'
  <2>1. CASE Contains(queue, t)
    BY <1>3, <2>1, CancelledFacts, RemoveAtFacts DEF Cancel
  <2>2. CASE ~Contains(queue, t)
    BY <1>3, <2>2 DEF Cancel, Cancelled, RemoveFirst, Contains
  <2>3. QED
    BY <2>1, <2>2
<1>4. ASSUME NEW t \in Tasks, CancelBySession(SessionOf[t]) PROVE QueueInv'
  BY <1>4, SessionIndexFacts, RemoveAtFacts DEF CancelBySession
<1>5. CASE UNCHANGED vars
  BY <1>5 DEF vars
<1>6. QED
  BY <1>1, <1>2, <1>3, <1>4, <1>5 DEF Next

LEMMA QueueFirst == Init => QueueInv
  BY DEF Init, QueueInv, TypeOK, QueueSorted, Sorted

LEMMA QueueAlways == Spec => []QueueInv
  BY QueueKept, QueueFirst, PTL DEF Spec

\* The array is in priority order whatever the calls: dequeue meets the most urgent
\* task first.
THEOREM StaysSorted == Spec => []QueueSorted
<1>1. QueueInv => QueueSorted
  BY DEF QueueInv
<1>2. QED
  BY <1>1, QueueAlways, PTL

-----------------------------------------------------------------------------
(* Where the lanes begin.                                                    *)

Bounds == 0..3

\* A number that parts the more urgent positions from the others is their count.
LEMMA AheadIs ==
    ASSUME NEW q \in Seq(Tasks), NEW p \in Bounds, NEW n \in 0..Len(q),
           \A i \in 1..Len(q) : PriorityOf[q[i]] < p <=> i <= n
    PROVE  Ahead(q, p) = n
<1>1. Len(q) \in Nat /\ n \in Int /\ 1 \in Int
  BY LenProperties
<1>2. {i \in 1..Len(q) : PriorityOf[q[i]] < p} = 1..n
  BY <1>1
<1>3. Cardinality(1..n) = IF 1 > n THEN 0 ELSE n - 1 + 1
  BY <1>1, FS_Interval
<1>4. Ahead(q, p) = Cardinality(1..n)
  BY <1>2 DEF Ahead
<1>5. IF 1 > n THEN 0 = n ELSE n - 1 + 1 = n
  BY <1>1
<1>6. QED
  BY <1>3, <1>4, <1>5

\* In a sorted array the count parts them.
LEMMA AheadFacts ==
    ASSUME NEW q \in Seq(Tasks), Sorted(q), NEW p \in Bounds
    PROVE  /\ Ahead(q, p) \in 0..Len(q)
           /\ \A i \in 1..Len(q) : PriorityOf[q[i]] < p <=> i <= Ahead(q, p)
<1> DEFINE S == {i \in 1..Len(q) : ~(PriorityOf[q[i]] < p)}
<1>1. Len(q) \in Nat /\ \A i \in 1..Len(q) : PriorityOf[q[i]] \in Priorities
  BY LenProperties, PriorityAssumption
<1>2. PICK n \in 0..Len(q) : \A i \in 1..Len(q) : PriorityOf[q[i]] < p <=> i <= n
  <2>1. CASE S = {}
    <3>1. \A i \in 1..Len(q) : PriorityOf[q[i]] < p <=> i <= Len(q)
      BY <1>1, <2>1
    <3>2. QED
      BY <1>1, <3>1
  <2>2. CASE S # {}
    <3>1. PICK m \in S : \A x \in S : m <= x
      <4>1. S \in SUBSET Nat
        BY <1>1
      <4>2. QED
        BY <2>2, <4>1, MinOfNaturals
    <3>2. /\ m \in 1..Len(q) /\ ~(PriorityOf[q[m]] < p)
          /\ \A i \in 1..Len(q) : i < m => PriorityOf[q[i]] < p
      BY <1>1, <3>1
    <3>3. \A i \in 1..Len(q) : m < i => ~(PriorityOf[q[i]] < p)
      BY <1>1, <3>2 DEF Sorted, Priorities, Bounds
    <3>4. m - 1 \in 0..Len(q) /\ \A i \in 1..Len(q) : PriorityOf[q[i]] < p <=> i <= m - 1
      BY <1>1, <3>2, <3>3
    <3>5. QED
      BY <3>4
  <2>3. QED
    BY <2>1, <2>2
<1>3. Ahead(q, p) = n
  BY <1>2, AheadIs
<1>4. QED
  BY <1>2, <1>3

\* The lanes lie one behind the other and fill the array.
LEMMA LaneFacts ==
    ASSUME NEW q \in Seq(Tasks), Sorted(q), NEW p \in Priorities
    PROVE  /\ Ahead(q, p) \in 0..Len(q) /\ Ahead(q, p + 1) \in 0..Len(q)
           /\ Ahead(q, p) <= Ahead(q, p + 1)
           /\ Lane(q, p) \in Seq(Tasks)
           /\ Len(Lane(q, p)) = Ahead(q, p + 1) - Ahead(q, p)
           /\ \A j \in 1..(Ahead(q, p + 1) - Ahead(q, p)) : Lane(q, p)[j] = q[Ahead(q, p) + j]
           /\ \A i \in 1..Len(q) :
                PriorityOf[q[i]] = p <=> Ahead(q, p) < i /\ i <= Ahead(q, p + 1)
<1>1. p \in Bounds /\ p + 1 \in Bounds /\ p \in Int
  BY DEF Priorities, Bounds
<1> DEFINE a == Ahead(q, p)
           b == Ahead(q, p + 1)
<1>2. /\ a \in 0..Len(q) /\ b \in 0..Len(q) /\ Len(q) \in Nat
      /\ \A i \in 1..Len(q) : PriorityOf[q[i]] < p <=> i <= a
      /\ \A i \in 1..Len(q) : PriorityOf[q[i]] < p + 1 <=> i <= b
      /\ \A i \in 1..Len(q) : PriorityOf[q[i]] \in Int
  BY <1>1, AheadFacts, LenProperties, PriorityAssumption DEF Priorities
<1> HIDE DEF a, b
<1>3. a <= b
  <2>1. SUFFICES ASSUME b < a PROVE FALSE
    BY <1>2
  <2>2. a \in 1..Len(q)
    BY <1>2, <2>1
  <2>3. QED
    BY <1>1, <1>2, <2>1, <2>2
<1>4. /\ SubSeq(q, a + 1, b) \in Seq(Tasks) /\ Len(SubSeq(q, a + 1, b)) = b - a
      /\ \A j \in 1..(b - a) : SubSeq(q, a + 1, b)[j] = q[a + j]
  <2>1. a + 1 \in Int /\ b \in Int /\ \A i \in (a + 1)..b : q[i] \in Tasks
    BY <1>2
  <2>2. /\ SubSeq(q, a + 1, b) \in Seq(Tasks)
        /\ Len(SubSeq(q, a + 1, b)) = IF a + 1 <= b THEN b - (a + 1) + 1 ELSE 0
        /\ \A j \in 1..(b - (a + 1) + 1) : SubSeq(q, a + 1, b)[j] = q[a + 1 + j - 1]
    BY <2>1, SubSeqProperties
  <2>3. b - (a + 1) + 1 = b - a /\ \A j \in Int : a + 1 + j - 1 = a + j
    BY <1>2
  <2>4. Len(SubSeq(q, a + 1, b)) = b - a
    BY <1>2, <1>3, <2>2, <2>3
  <2>5. ASSUME NEW j \in 1..(b - a) PROVE SubSeq(q, a + 1, b)[j] = q[a + j]
    <3>1. j \in 1..(b - (a + 1) + 1) /\ a + 1 + j - 1 = a + j
      BY <1>2, <2>3
    <3>2. QED
      BY <2>2, <3>1
  <2>6. QED
    BY <2>2, <2>4, <2>5
<1>5. \A i \in 1..Len(q) : PriorityOf[q[i]] = p <=> a < i /\ i <= b
  BY <1>1, <1>2
<1>6. QED
  BY <1>2, <1>3, <1>4, <1>5 DEF a, b, Lane

\* A task waits in the array exactly if it waits in its lane.
LEMMA InItsLane ==
    ASSUME NEW q \in Seq(Tasks), Sorted(q), NEW t \in Tasks
    PROVE  Contains(q, t) <=> Contains(Lane(q, PriorityOf[t]), t)
<1> DEFINE p == PriorityOf[t]
           a == Ahead(q, p)
           b == Ahead(q, p + 1)
           l == Lane(q, p)
<1>1. p \in Priorities
  BY PriorityAssumption
<1>2. /\ a \in 0..Len(q) /\ b \in 0..Len(q) /\ a <= b /\ Len(l) = b - a /\ Len(q) \in Nat
      /\ \A j \in 1..(b - a) : l[j] = q[a + j]
      /\ \A i \in 1..Len(q) : PriorityOf[q[i]] = p <=> a < i /\ i <= b
  BY <1>1, LaneFacts, LenProperties
<1> HIDE DEF a, b, l
<1>3. ASSUME Contains(q, t) PROVE Contains(l, t)
  <2>1. PICK i \in 1..Len(q) : q[i] = t
    BY <1>3 DEF Contains
  <2>2. i - a \in 1..(b - a) /\ a + (i - a) = i
    BY <1>2, <2>1
  <2>3. QED
    BY <1>2, <2>1, <2>2 DEF Contains
<1>4. ASSUME Contains(l, t) PROVE Contains(q, t)
  <2>1. PICK j \in 1..(b - a) : l[j] = t
    BY <1>2, <1>4 DEF Contains
  <2>2. a + j \in 1..Len(q)
    BY <1>2
  <2>3. QED
    BY <1>2, <2>1, <2>2 DEF Contains
<1>5. QED
  BY <1>3, <1>4 DEF l

-----------------------------------------------------------------------------
(* What the calls do to the lanes.                                           *)

\* Two queues of tasks with the same entries are the same.
LEMMA SameEntries ==
    ASSUME NEW q \in Seq(Tasks), NEW r \in Seq(Tasks), Len(q) = Len(r),
           \A j \in 1..Len(q) : q[j] = r[j]
    PROVE  q = r
  BY SeqEqual

\* An enqueue appends its task to its lane and leaves the others.
LEMMA EnqueuedLanes ==
    ASSUME NEW q \in Seq(Tasks), Sorted(q), NEW t \in Tasks, NEW p \in Priorities
    PROVE  Lane(Enqueued(q, t), p) =
             IF p = PriorityOf[t] THEN Append(Lane(q, p), t) ELSE Lane(q, p)
<1> DEFINE k == InsertIndex(q, t)
           r == Enqueued(q, t)
           pt == PriorityOf[t]
<1>1. /\ k \in 1..(Len(q) + 1) /\ Len(q) \in Nat
      /\ \A j \in 1..Len(q) : j < k => PriorityOf[q[j]] <= pt
      /\ k <= Len(q) => PriorityOf[q[k]] > pt
  BY InsertionPoint, LenProperties
<1>2. r \in Seq(Tasks) /\ Sorted(r)
  BY EnqueuedFacts
<1>20. r = InsertAt(q, k, t)
  BY DEF Enqueued
<1> HIDE DEF k, r
<1>3. /\ Len(r) = Len(q) + 1
      /\ \A j \in 1..(Len(q) + 1) : r[j] = IF j < k THEN q[j] ELSE IF j = k THEN t ELSE q[j - 1]
  <2>1. k \in 1..(Len(q) + 1)
    BY <1>1
  <2>2. QED
    BY SMTT(30), <1>20, <2>1, InsertedElements
<1>4. /\ \A j \in 1..Len(q) : PriorityOf[q[j]] \in Int
      /\ pt \in Int
  BY PriorityAssumption DEF Priorities
<1> HIDE DEF pt
<1>5. \A j \in 1..Len(q) : j >= k => PriorityOf[q[j]] > pt
  <2>1. SUFFICES ASSUME NEW j \in 1..Len(q), j >= k PROVE PriorityOf[q[j]] > pt
    OBVIOUS
  <2>2. k \in 1..Len(q) /\ PriorityOf[q[k]] > pt
    BY <1>1, <2>1
  <2>3. j = k \/ PriorityOf[q[k]] <= PriorityOf[q[j]]
    BY <2>1, <2>2, <1>1 DEF Sorted
  <2>4. QED
    BY <1>4, <2>2, <2>3
<1>6. ASSUME NEW b \in Bounds
      PROVE  Ahead(r, b) = IF pt < b THEN Ahead(q, b) + 1 ELSE Ahead(q, b)
  <2>1. /\ Ahead(q, b) \in 0..Len(q) /\ b \in Int
        /\ \A j \in 1..Len(q) : PriorityOf[q[j]] < b <=> j <= Ahead(q, b)
    BY AheadFacts DEF Bounds
  <2> DEFINE a == Ahead(q, b)
  <2> HIDE DEF a
  <2>2. /\ a \in 0..Len(q)
        /\ \A j \in 1..Len(q) : PriorityOf[q[j]] < b <=> j <= a
    BY <2>1 DEF a
  <2>3. CASE pt < b
    <3>1. k <= a + 1
      <4>1. CASE k = 1
        BY <2>2, <4>1
      <4>2. CASE k # 1
        <5>1. k - 1 \in 1..Len(q) /\ PriorityOf[q[k - 1]] < b
          BY <1>1, <1>4, <2>1, <2>3, <4>2
        <5>2. k - 1 <= a
          BY <2>2, <5>1
        <5>3. QED
          BY <1>1, <2>2, <5>2
      <4>3. QED
        BY <4>1, <4>2
    <3>2. ASSUME NEW j \in 1..Len(r) PROVE PriorityOf[r[j]] < b <=> j <= a + 1
      <4>1. CASE j < k
        BY <1>1, <1>3, <1>4, <2>1, <2>2, <2>3, <3>1, <4>1
      <4>2. CASE j = k
        BY <1>1, <1>3, <2>2, <2>3, <3>1, <4>2 DEF pt
      <4>3. CASE j > k
        <5>1. j - 1 \in 1..Len(q) /\ r[j] = q[j - 1]
          BY <1>1, <1>3, <4>3
        <5>2. PriorityOf[r[j]] < b <=> j - 1 <= a
          BY <2>2, <5>1
        <5>3. QED
          BY <1>1, <1>3, <2>2, <5>2
      <4>4. QED
        BY <1>1, <1>3, <4>1, <4>2, <4>3
    <3>3. a + 1 \in 0..Len(r)
      BY <1>1, <1>3, <2>2
    <3>4. Ahead(r, b) = a + 1
      BY <1>2, <3>2, <3>3, AheadIs
    <3>5. QED
      BY <2>3, <3>4 DEF a
  <2>4. CASE ~(pt < b)
    <3>1. a < k
      <4>1. CASE a = 0
        BY <1>1, <4>1
      <4>2. CASE a # 0
        <5>1. a \in 1..Len(q) /\ PriorityOf[q[a]] < b
          BY <1>1, <2>2, <4>2
        <5>2. QED
          BY <1>1, <1>4, <1>5, <2>1, <2>2, <2>4, <5>1
      <4>3. QED
        BY <4>1, <4>2
    <3>2. ASSUME NEW j \in 1..Len(r) PROVE PriorityOf[r[j]] < b <=> j <= a
      <4>1. CASE j < k
        <5>1. j \in 1..Len(q) /\ r[j] = q[j]
          BY <1>1, <1>3, <4>1
        <5>2. QED
          BY <2>2, <5>1
      <4>2. CASE j = k
        BY <1>1, <1>3, <2>1, <2>2, <2>4, <3>1, <4>2 DEF pt
      <4>3. CASE j > k
        <5>1. j - 1 \in 1..Len(q) /\ r[j] = q[j - 1] /\ j - 1 >= k
          BY <1>1, <1>3, <4>3
        <5>2. ~(PriorityOf[r[j]] < b)
          BY <1>4, <1>5, <2>1, <2>4, <5>1
        <5>3. QED
          BY <1>1, <1>3, <2>2, <3>1, <4>3, <5>2
      <4>4. QED
        BY <1>1, <1>3, <4>1, <4>2, <4>3
    <3>3. a \in 0..Len(r)
      BY <1>1, <1>3, <2>2
    <3>4. Ahead(r, b) = a
      BY <1>2, <3>2, <3>3, AheadIs
    <3>5. QED
      BY <2>4, <3>4 DEF a
  <2>5. QED
    BY <2>3, <2>4
<1> DEFINE a == Ahead(q, p)
           b == Ahead(q, p + 1)
           l == Lane(q, p)
           m == Lane(r, p)
<1>7. p \in Bounds /\ p + 1 \in Bounds /\ p \in Int
  BY DEF Priorities, Bounds
<1>8. /\ a \in 0..Len(q) /\ b \in 0..Len(q) /\ a <= b
      /\ l \in Seq(Tasks) /\ Len(l) = b - a
      /\ \A j \in 1..(b - a) : l[j] = q[a + j]
      /\ \A i \in 1..Len(q) : PriorityOf[q[i]] = p <=> a < i /\ i <= b
  BY LaneFacts
<1>9. /\ m \in Seq(Tasks) /\ Len(m) = Ahead(r, p + 1) - Ahead(r, p)
      /\ \A j \in 1..(Ahead(r, p + 1) - Ahead(r, p)) : m[j] = r[Ahead(r, p) + j]
  BY <1>2, LaneFacts
<1>10. /\ Ahead(r, p) = IF pt < p THEN a + 1 ELSE a
       /\ Ahead(r, p + 1) = IF pt < p + 1 THEN b + 1 ELSE b
  BY <1>6, <1>7
<1>11. /\ \A j \in 1..Len(q) : PriorityOf[q[j]] < p <=> j <= a
       /\ \A j \in 1..Len(q) : PriorityOf[q[j]] < p + 1 <=> j <= b
  BY <1>7, AheadFacts
<1> HIDE DEF a, b, l, m
<1>12. CASE p < pt
  <2>1. Len(m) = b - a /\ Ahead(r, p) = a
    BY <1>4, <1>7, <1>9, <1>10, <1>12
  <2>2. ASSUME NEW j \in 1..Len(l) PROVE l[j] = m[j]
    <3>1. a + j \in 1..Len(q) /\ a + j <= b
      BY <1>1, <1>8
    <3>2. a + j < k
      BY <1>1, <1>4, <1>5, <1>7, <1>8, <1>12, <3>1
    <3>3. l[j] = q[a + j] /\ m[j] = r[a + j]
      BY <1>8, <1>9, <1>10, <2>1
    <3>4. r[a + j] = q[a + j]
      BY <1>1, <1>3, <3>1, <3>2
    <3>5. QED
      BY <3>3, <3>4
  <2>3. l = m
    BY <1>8, <1>9, <2>1, <2>2, SameEntries
  <2>4. QED
    BY <1>4, <1>7, <1>12, <2>3 DEF l, m, r, pt
<1>13. CASE p > pt
  <2>1. Len(m) = b - a /\ Ahead(r, p) = a + 1
    BY <1>4, <1>7, <1>8, <1>9, <1>10, <1>13
  <2>2. ASSUME NEW j \in 1..Len(l) PROVE l[j] = m[j]
    <3>1. a + j \in 1..Len(q) /\ a + j <= b /\ PriorityOf[q[a + j]] = p
      BY <1>1, <1>8
    <3>2. a + j >= k
      BY <1>1, <1>4, <1>7, <1>13, <3>1
    <3>3. m[j] = r[a + 1 + j] /\ a + 1 + j \in 1..Len(r) /\ a + 1 + j > k /\ a + 1 + j - 1 = a + j
      BY <1>1, <1>3, <1>8, <1>9, <2>1, <3>1, <3>2
    <3>4. r[a + 1 + j] = q[a + 1 + j - 1]
      BY <1>1, <1>3, <1>8, <3>3
    <3>5. QED
      BY <1>8, <3>3, <3>4
  <2>3. l = m
    BY <1>8, <1>9, <2>1, <2>2, SameEntries
  <2>4. QED
    BY <1>4, <1>7, <1>13, <2>3 DEF l, m, r, pt
<1>14. CASE p = pt
  <2>1. Len(m) = b - a + 1 /\ Ahead(r, p) = a /\ Ahead(r, p + 1) = b + 1
    BY <1>4, <1>7, <1>8, <1>9, <1>10, <1>14
  <2>2. k = b + 1
    <3>1. ASSUME k <= b PROVE FALSE
      BY <1>1, <1>4, <1>7, <1>8, <1>11, <1>14, <3>1
    <3>2. ASSUME k > b + 1 PROVE FALSE
      <4>1. b + 1 \in 1..Len(q) /\ b + 1 < k
        BY <1>1, <1>8, <3>2
      <4>2. ~(PriorityOf[q[b + 1]] < p + 1)
        BY <1>8, <1>11, <4>1
      <4>3. QED
        BY <1>1, <1>4, <1>14, <4>1, <4>2
    <3>3. QED
      BY <1>1, <1>8, <3>1, <3>2
  <2>3. /\ Append(l, t) \in Seq(Tasks) /\ Len(Append(l, t)) = b - a + 1
        /\ \A j \in 1..(b - a) : Append(l, t)[j] = l[j]
        /\ Append(l, t)[b - a + 1] = t
    BY <1>8, AppendProperties
  <2>4. ASSUME NEW j \in 1..Len(m) PROVE m[j] = Append(l, t)[j]
    <3>1. m[j] = r[a + j] /\ a + j \in 1..Len(r)
      BY <1>1, <1>3, <1>8, <1>9, <2>1
    <3>2. CASE j \in 1..(b - a)
      <4>1. a + j < k
        BY <1>8, <2>2, <3>2
      <4>2. r[a + j] = q[a + j]
        BY <1>3, <3>1, <4>1
      <4>3. QED
        BY <1>8, <2>3, <3>1, <3>2, <4>2
    <3>3. CASE j = b - a + 1
      <4>1. a + j = k
        BY <1>8, <2>2, <3>3
      <4>2. QED
        BY <1>3, <2>3, <3>1, <3>3, <4>1
    <3>4. QED
      BY <1>8, <2>1, <3>2, <3>3
  <2>5. m = Append(l, t)
    BY <1>9, <2>1, <2>3, <2>4, SameEntries
  <2>6. QED
    BY <1>14, <2>5 DEF l, m, r, pt
<1>15. QED
  BY <1>4, <1>7, <1>12, <1>13, <1>14

\* Removing an entry removes it from its lane and leaves the others.
LEMMA RemovedLanes ==
    ASSUME NEW q \in Seq(Tasks), Sorted(q), NEW i \in 1..Len(q), NEW p \in Priorities
    PROVE  Lane(RemoveAt(q, i), p) =
             IF p = PriorityOf[q[i]] THEN RemoveAt(Lane(q, p), i - Ahead(q, p)) ELSE Lane(q, p)
<1> DEFINE r == RemoveAt(q, i)
           pi == PriorityOf[q[i]]
<1>1. Len(q) \in Nat
  BY LenProperties
<1>2. r \in Seq(Tasks) /\ Sorted(r)
  BY RemoveAtFacts
<1>3. /\ Len(r) = Len(q) - 1
      /\ \A j \in 1..(Len(q) - 1) : r[j] = IF j < i THEN q[j] ELSE q[j + 1]
  BY RemovedElements
<1>4. /\ \A j \in 1..Len(q) : PriorityOf[q[j]] \in Int
      /\ pi \in Int
  BY PriorityAssumption DEF Priorities
<1> HIDE DEF r
<1>5. ASSUME NEW b \in Bounds
      PROVE  Ahead(r, b) = IF pi < b THEN Ahead(q, b) - 1 ELSE Ahead(q, b)
  <2> DEFINE a == Ahead(q, b)
  <2>1. /\ a \in 0..Len(q) /\ b \in Int
        /\ \A j \in 1..Len(q) : PriorityOf[q[j]] < b <=> j <= a
    BY AheadFacts DEF Bounds
  <2> HIDE DEF a
  <2>2. CASE pi < b
    <3>1. i <= a
      BY <2>1, <2>2
    <3>2. ASSUME NEW j \in 1..Len(r) PROVE PriorityOf[r[j]] < b <=> j <= a - 1
      <4>1. CASE j < i
        <5>1. j \in 1..Len(q) /\ r[j] = q[j]
          BY <1>1, <1>3, <4>1
        <5>2. QED
          BY <2>1, <3>1, <4>1, <5>1
      <4>2. CASE j >= i
        <5>1. j + 1 \in 1..Len(q) /\ r[j] = q[j + 1]
          BY <1>1, <1>3, <4>2
        <5>2. PriorityOf[r[j]] < b <=> j + 1 <= a
          BY <2>1, <5>1
        <5>3. QED
          BY <1>1, <1>3, <2>1, <5>2
      <4>3. QED
        BY <1>1, <1>3, <4>1, <4>2
    <3>3. a - 1 \in 0..Len(r)
      BY <1>1, <1>3, <2>1, <3>1
    <3>4. Ahead(r, b) = a - 1
      BY <1>2, <3>2, <3>3, AheadIs
    <3>5. QED
      BY <2>2, <3>4 DEF a
  <2>3. CASE ~(pi < b)
    <3>1. a < i
      BY <1>1, <2>1, <2>3
    <3>2. ASSUME NEW j \in 1..Len(r) PROVE PriorityOf[r[j]] < b <=> j <= a
      <4>1. CASE j < i
        <5>1. j \in 1..Len(q) /\ r[j] = q[j]
          BY <1>1, <1>3, <4>1
        <5>2. QED
          BY <2>1, <5>1
      <4>2. CASE j >= i
        <5>1. j + 1 \in 1..Len(q) /\ r[j] = q[j + 1]
          BY <1>1, <1>3, <4>2
        <5>2. PriorityOf[r[j]] < b <=> j + 1 <= a
          BY <2>1, <5>1
        <5>3. QED
          BY <1>1, <1>3, <2>1, <3>1, <4>2, <5>2
      <4>3. QED
        BY <1>1, <1>3, <4>1, <4>2
    <3>3. a \in 0..Len(r)
      BY <1>1, <1>3, <2>1, <3>1
    <3>4. Ahead(r, b) = a
      BY <1>2, <3>2, <3>3, AheadIs
    <3>5. QED
      BY <2>3, <3>4 DEF a
  <2>4. QED
    BY <2>2, <2>3
<1> DEFINE a == Ahead(q, p)
           b == Ahead(q, p + 1)
           l == Lane(q, p)
           m == Lane(r, p)
<1>6. p \in Bounds /\ p + 1 \in Bounds /\ p \in Int
  BY DEF Priorities, Bounds
<1>7. /\ a \in 0..Len(q) /\ b \in 0..Len(q) /\ a <= b
      /\ l \in Seq(Tasks) /\ Len(l) = b - a
      /\ \A j \in 1..(b - a) : l[j] = q[a + j]
      /\ pi = p <=> a < i /\ i <= b
  BY LaneFacts
<1>8. /\ m \in Seq(Tasks) /\ Len(m) = Ahead(r, p + 1) - Ahead(r, p)
      /\ \A j \in 1..(Ahead(r, p + 1) - Ahead(r, p)) : m[j] = r[Ahead(r, p) + j]
  BY <1>2, LaneFacts
<1>9. /\ Ahead(r, p) = IF pi < p THEN a - 1 ELSE a
      /\ Ahead(r, p + 1) = IF pi < p + 1 THEN b - 1 ELSE b
  BY <1>5, <1>6
<1>10. (pi < p <=> i <= a) /\ (pi < p + 1 <=> i <= b)
  BY <1>6, AheadFacts
<1> HIDE DEF a, b, l, m, pi
<1>11. CASE p < pi
  <2>1. Len(m) = b - a /\ Ahead(r, p) = a /\ b < i
    BY <1>1, <1>4, <1>6, <1>7, <1>8, <1>9, <1>10, <1>11
  <2>2. ASSUME NEW j \in 1..Len(l) PROVE l[j] = m[j]
    <3>1. a + j \in 1..(Len(q) - 1) /\ a + j < i
      BY <1>1, <1>7, <2>1
    <3>2. l[j] = q[a + j] /\ m[j] = r[a + j]
      BY <1>7, <1>8, <1>9, <2>1
    <3>3. QED
      BY <1>3, <3>1, <3>2
  <2>3. l = m
    BY <1>7, <1>8, <2>1, <2>2, SameEntries
  <2>4. QED
    BY <1>4, <1>6, <1>11, <2>3 DEF l, m, r, pi
<1>12. CASE p > pi
  <2>1. Len(m) = b - a /\ Ahead(r, p) = a - 1 /\ Ahead(r, p + 1) = b - 1 /\ i <= a
    BY <1>1, <1>4, <1>6, <1>7, <1>8, <1>9, <1>10, <1>12
  <2>2. ASSUME NEW j \in 1..Len(l) PROVE l[j] = m[j]
    <3>1. a - 1 + j \in 1..(Len(q) - 1) /\ ~(a - 1 + j < i) /\ a - 1 + j + 1 = a + j
      BY <1>1, <1>7, <2>1
    <3>2. l[j] = q[a + j] /\ m[j] = r[a - 1 + j]
      <4>1. j \in 1..(b - a) /\ b - 1 - (a - 1) = b - a
        BY <1>7, <2>1
      <4>2. QED
        BY <1>7, <1>8, <2>1, <4>1
    <3>3. r[a - 1 + j] = q[a - 1 + j + 1]
      BY <1>3, <3>1
    <3>4. QED
      BY <3>1, <3>2, <3>3
  <2>3. l = m
    BY <1>7, <1>8, <2>1, <2>2, SameEntries
  <2>4. QED
    BY <1>4, <1>6, <1>12, <2>3 DEF l, m, r, pi
<1>13. CASE p = pi
  <2> DEFINE k == i - a
             n == RemoveAt(l, k)
  <2>1. Ahead(r, p) = a /\ Ahead(r, p + 1) = b - 1 /\ a < i /\ i <= b
    BY <1>4, <1>6, <1>7, <1>9, <1>13
  <2>2. Len(m) = b - a - 1 /\ k \in 1..Len(l) /\ Len(l) - 1 = b - a - 1
    BY <1>7, <1>8, <2>1
  <2> HIDE DEF k
  <2>3. /\ n \in Seq(Tasks) /\ Len(n) = b - a - 1
        /\ \A j \in 1..(b - a - 1) : n[j] = IF j < k THEN l[j] ELSE l[j + 1]
    <3>1. /\ n \in Seq(Tasks) /\ Len(n) = Len(l) - 1
          /\ \A j \in 1..(Len(l) - 1) : n[j] = IF j < k THEN l[j] ELSE l[j + 1]
      BY <1>7, <2>2, RemovedElements
    <3> HIDE DEF n
    <3>2. QED
      BY <2>2, <3>1
  <2> HIDE DEF n
  <2> USE DEF k
  <2>4. ASSUME NEW j \in 1..Len(m) PROVE m[j] = n[j]
    <3>1. m[j] = r[a + j] /\ a + j \in 1..(Len(q) - 1)
      <4>1. j \in 1..(b - 1 - a)
        BY <1>7, <2>2
      <4>2. QED
        BY <1>1, <1>7, <1>8, <2>1, <4>1
    <3>2. CASE j < i - a
      <4>1. r[a + j] = q[a + j]
        BY <1>3, <1>7, <3>1, <3>2
      <4>2. n[j] = l[j] /\ l[j] = q[a + j]
        BY <1>7, <2>2, <2>3, <3>2
      <4>3. QED
        BY <3>1, <4>1, <4>2
    <3>3. CASE ~(j < i - a)
      <4>1. r[a + j] = q[a + j + 1]
        BY <1>3, <1>7, <3>1, <3>3
      <4>2. n[j] = l[j + 1] /\ l[j + 1] = q[a + (j + 1)] /\ a + j + 1 = a + (j + 1)
        BY <1>7, <2>2, <2>3, <3>3
      <4>3. QED
        BY <3>1, <4>1, <4>2
    <3>4. QED
      BY <3>2, <3>3
  <2>5. m = n
    BY <1>8, <2>2, <2>3, <2>4, SameEntries
  <2>6. QED
    BY <1>13, <2>5 DEF l, m, n, k, r, a, pi
<1>14. QED
  BY <1>4, <1>6, <1>11, <1>12, <1>13

-----------------------------------------------------------------------------
(* The refinement.                                                           *)

\* Min names the least element.
LEMMA MinIs ==
    ASSUME NEW S \in SUBSET Nat, NEW m \in S, \A x \in S : m <= x
    PROVE  Min(S) = m
<1>1. Min(S) \in S /\ \A x \in S : Min(S) <= x
  BY MinOfNaturals
<1>2. Min(S) \in Nat /\ m \in Nat /\ Min(S) <= m /\ m <= Min(S)
  BY <1>1
<1>3. QED
  BY <1>2

\* RemoveFirst removes the entry before which there is none of the task.
LEMMA RemovesFirst ==
    ASSUME NEW q \in Seq(Tasks), NEW t \in Tasks, NEW i \in 1..Len(q), q[i] = t,
           \A j \in 1..Len(q) : q[j] = t => i <= j
    PROVE  RemoveFirst(q, t) = RemoveAt(q, i)
<1> DEFINE I == {j \in 1..Len(q) : q[j] = t}
<1>1. I \in SUBSET Nat /\ i \in I /\ \A j \in I : i <= j
  BY LenProperties
<1>2. Min(I) = i
  BY <1>1, MinIs
<1>3. RemoveFirst(q, t) = RemoveAt(q, Min(I))
  BY <1>1 DEF RemoveFirst, SelectInSeq
<1>4. QED
  BY <1>2, <1>3

\* cancelBySession takes the first task of the session, if there is one.
LEMMA SessionsFirst ==
    ASSUME NEW q \in Seq(Tasks), NEW s
    PROVE  \/ /\ SessionIndex(q, s) \in 1..Len(q)
              /\ SessionOf[q[SessionIndex(q, s)]] = s
              /\ \A j \in 1..Len(q) : SessionOf[q[j]] = s => SessionIndex(q, s) <= j
           \/ /\ SessionIndex(q, s) = 0
              /\ \A j \in 1..Len(q) : SessionOf[q[j]] # s
<1> DEFINE I == {i \in 1..Len(q) : SessionOf[q[i]] = s}
<1>1. SessionIndex(q, s) = IF I # {} THEN Min(I) ELSE 0
  BY DEF SessionIndex, SelectInSeq
<1>2. I \in SUBSET Nat
  BY LenProperties
<1>3. I # {} => Min(I) \in I /\ \A x \in I : Min(I) <= x
  BY <1>2, MinOfNaturals
<1>4. QED
  BY <1>1, <1>3

\* And an entry of the session with none before it is that one.
LEMMA SessionsFirstIs ==
    ASSUME NEW q \in Seq(Tasks), NEW s, NEW i \in 1..Len(q), SessionOf[q[i]] = s,
           \A j \in 1..Len(q) : SessionOf[q[j]] = s => i <= j
    PROVE  SessionIndex(q, s) = i
<1> DEFINE I == {j \in 1..Len(q) : SessionOf[q[j]] = s}
<1>1. I \in SUBSET Nat /\ i \in I /\ \A j \in I : i <= j
  BY LenProperties
<1>2. SessionIndex(q, s) = Min(I)
  BY <1>1 DEF SessionIndex, SelectInSeq
<1>3. QED
  BY <1>1, <1>2, MinIs

\* The lanes of an empty array are empty, and only of that are they all.
LEMMA EmptyLanes ==
    ASSUME NEW p \in Priorities
    PROVE  Lane(<<>>, p) = <<>>
<1> DEFINE q == <<>>
<1>1. q \in Seq(Tasks) /\ Sorted(q) /\ Len(q) = 0
  BY DEF Sorted
<1> HIDE DEF q
<1>2. /\ Ahead(q, p) \in 0..Len(q) /\ Ahead(q, p + 1) \in 0..Len(q)
      /\ Lane(q, p) \in Seq(Tasks) /\ Len(Lane(q, p)) = Ahead(q, p + 1) - Ahead(q, p)
  BY <1>1, LaneFacts
<1>3. Len(Lane(q, p)) = 0
  BY <1>1, <1>2
<1>4. QED
  BY <1>2, <1>3, EmptySeq DEF q

\* The first task of the array heads its lane and the more urgent lanes are empty.
LEMMA HeadServed ==
    ASSUME NEW q \in Seq(Tasks), Sorted(q), q # <<>>, NEW p \in Priorities,
           p = PriorityOf[Head(q)]
    PROVE  /\ Lane(q, p) # <<>> /\ Head(Lane(q, p)) = Head(q)
           /\ \A m \in 0..(p - 1) : Lane(q, m) = <<>>
           /\ Lane(Tail(q), p) = Tail(Lane(q, p))
           /\ \A m \in Priorities \ {p} : Lane(Tail(q), m) = Lane(q, m)
<1>1. /\ Len(q) \in Nat /\ 1 \in 1..Len(q) /\ Head(q) = q[1]
      /\ Tail(q) \in Seq(Tasks) /\ Len(Tail(q)) = Len(q) - 1
      /\ \A j \in 1..Len(Tail(q)) : Tail(q)[j] = q[j + 1]
  BY HeadTailProperties, LenProperties, EmptySeq
<1>2. Tail(q) = RemoveAt(q, 1)
  <2>1. /\ RemoveAt(q, 1) \in Seq(Tasks) /\ Len(RemoveAt(q, 1)) = Len(q) - 1
        /\ \A j \in 1..(Len(q) - 1) : RemoveAt(q, 1)[j] = IF j < 1 THEN q[j] ELSE q[j + 1]
    BY <1>1, RemovedElements
  <2>2. \A j \in 1..Len(Tail(q)) : Tail(q)[j] = RemoveAt(q, 1)[j]
    BY <1>1, <2>1
  <2>3. QED
    BY <1>1, <2>1, <2>2, SameEntries
<1> DEFINE a == Ahead(q, p)
           b == Ahead(q, p + 1)
           l == Lane(q, p)
<1>3. /\ a \in 0..Len(q) /\ b \in 0..Len(q) /\ l \in Seq(Tasks) /\ Len(l) = b - a
      /\ \A j \in 1..(b - a) : l[j] = q[a + j]
      /\ a < 1 /\ 1 <= b
  BY <1>1, LaneFacts
<1>4. Lane(Tail(q), p) = RemoveAt(l, 1 - a)
  <2>1. p \in Priorities /\ p = PriorityOf[q[1]]
    BY <1>1
  <2>2. Lane(RemoveAt(q, 1), p) = RemoveAt(Lane(q, p), 1 - Ahead(q, p))
    BY <1>1, <2>1, RemovedLanes
  <2>3. QED
    BY <1>2, <2>2
<1>5. ASSUME NEW m \in Priorities \ {p} PROVE Lane(Tail(q), m) = Lane(q, m)
  <2>1. m \in Priorities /\ m # PriorityOf[q[1]]
    BY <1>1
  <2>2. Lane(RemoveAt(q, 1), m) = Lane(q, m)
    BY <1>1, <2>1, RemovedLanes
  <2>3. QED
    BY <1>2, <2>2
<1> HIDE DEF a, b, l
<1>6. a = 0 /\ 1 - a = 1 /\ 1 \in 1..Len(l) /\ l # <<>> /\ l[1] = q[1]
  BY <1>1, <1>3, EmptySeq
<1>7. /\ Head(l) = l[1] /\ Tail(l) \in Seq(Tasks) /\ Len(Tail(l)) = Len(l) - 1
      /\ \A j \in 1..Len(Tail(l)) : Tail(l)[j] = l[j + 1]
  BY <1>3, <1>6, HeadTailProperties
<1>8. Tail(l) = RemoveAt(l, 1)
  <2>1. /\ RemoveAt(l, 1) \in Seq(Tasks) /\ Len(RemoveAt(l, 1)) = Len(l) - 1
        /\ \A j \in 1..(Len(l) - 1) : RemoveAt(l, 1)[j] = IF j < 1 THEN l[j] ELSE l[j + 1]
    BY <1>3, <1>6, RemovedElements
  <2>2. \A j \in 1..Len(Tail(l)) : Tail(l)[j] = RemoveAt(l, 1)[j]
    BY <1>3, <1>7, <2>1
  <2>3. QED
    BY <1>7, <2>1, <2>2, SameEntries
<1>9. ASSUME NEW m \in 0..(p - 1) PROVE Lane(q, m) = <<>>
  <2>1. m \in Priorities /\ m + 1 \in Bounds /\ m + 1 <= p /\ p \in Int
    BY DEF Priorities, Bounds
  <2>2. /\ Ahead(q, m) \in 0..Len(q) /\ Ahead(q, m + 1) \in 0..Len(q)
        /\ Ahead(q, m) <= Ahead(q, m + 1)
        /\ Lane(q, m) \in Seq(Tasks) /\ Len(Lane(q, m)) = Ahead(q, m + 1) - Ahead(q, m)
    BY <2>1, LaneFacts
  <2>3. PriorityOf[q[1]] < m + 1 <=> 1 <= Ahead(q, m + 1)
    BY <1>1, <2>1, AheadFacts
  <2>4. Len(Lane(q, m)) = 0
    BY <1>1, <2>1, <2>2, <2>3
  <2>5. QED
    BY <2>2, <2>4, EmptySeq
<1>10. QED
  BY <1>1, <1>4, <1>5, <1>6, <1>7, <1>8, <1>9 DEF l

\* The first entry of a task in the array is the first in its lane.
LEMMA FirstInLane ==
    ASSUME NEW q \in Seq(Tasks), Sorted(q), NEW i \in 1..Len(q), NEW p \in Priorities,
           p = PriorityOf[q[i]]
    PROVE  LET a == Ahead(q, p)
               l == Lane(q, p)
           IN  /\ a < i /\ i - a \in 1..Len(l) /\ l[i - a] = q[i]
               /\ \A j \in 1..Len(l) : a + j \in 1..Len(q) /\ l[j] = q[a + j]
<1> DEFINE a == Ahead(q, p)
           b == Ahead(q, p + 1)
           l == Lane(q, p)
<1>1. /\ a \in 0..Len(q) /\ b \in 0..Len(q) /\ Len(l) = b - a
      /\ \A j \in 1..(b - a) : l[j] = q[a + j]
      /\ a < i /\ i <= b /\ Len(q) \in Nat
  BY LaneFacts, LenProperties
<1> HIDE DEF a, b, l
<1>2. i - a \in 1..Len(l) /\ a + (i - a) = i
  BY <1>1
<1>3. \A j \in 1..Len(l) : a + j \in 1..Len(q) /\ l[j] = q[a + j]
  BY <1>1
<1>4. QED
  BY <1>1, <1>2, <1>3 DEF a, l

\* The operators the lanes' module has of its own are those of this one.
LEMMA LanesOperators ==
    /\ \A s, i : Lanes!RemoveAt(s, i) = RemoveAt(s, i)
    /\ \A s, e : Lanes!RemoveFirst(s, e) = RemoveFirst(s, e)
    /\ \A s, e : Lanes!Contains(s, e) <=> Contains(s, e)
  BY DEF Lanes!RemoveAt, RemoveAt, Lanes!RemoveFirst, RemoveFirst, Lanes!Contains, Contains,
         Lanes!SelectInSeq, SelectInSeq, Lanes!Min, Min

AllLanes == [p \in Priorities |-> Lane(queue, p)]

\* A call that takes an entry of the array takes it from its lane.
LEMMA TakenFromLane ==
    ASSUME QueueInv, NEW i \in 1..Len(queue), queue' = RemoveAt(queue, i),
           NEW p \in Priorities, p = PriorityOf[queue[i]]
    PROVE  AllLanes' = [AllLanes EXCEPT ![p] = RemoveAt(@, i - Ahead(queue, p))]
<1>1. queue \in Seq(Tasks) /\ Sorted(queue)
  BY DEF QueueInv, TypeOK, QueueSorted
<1>2. \A m \in Priorities :
        Lane(queue', m) = IF m = p THEN RemoveAt(Lane(queue, m), i - Ahead(queue, m)) ELSE Lane(queue, m)
  BY <1>1, RemovedLanes
<1>3. AllLanes' = [m \in Priorities |-> Lane(queue', m)]
  BY DEF AllLanes
<1>4. QED
  BY <1>2, <1>3 DEF AllLanes

\* enqueue.
LEMMA EnqueueImplements ==
    ASSUME QueueInv, NEW t \in Tasks, Enqueue(t)
    PROVE  Lanes!Enqueue(t)
<1>1. queue \in Seq(Tasks) /\ Sorted(queue) /\ PriorityOf[t] \in Priorities
  BY PriorityAssumption DEF QueueInv, TypeOK, QueueSorted
<1>2. queue' = Enqueued(queue, t) /\ returned' = NoTask
  BY DEF Enqueue
<1>3. \A p \in Priorities :
        Lane(queue', p) = IF p = PriorityOf[t] THEN Append(Lane(queue, p), t) ELSE Lane(queue, p)
  BY <1>1, <1>2, EnqueuedLanes
<1>4. AllLanes' = [m \in Priorities |-> Lane(queue', m)]
  BY DEF AllLanes
<1>5. AllLanes' = [AllLanes EXCEPT ![PriorityOf[t]] = Append(@, t)]
  BY <1>1, <1>3, <1>4 DEF AllLanes
<1>6. QED
  BY <1>2, <1>5 DEF Lanes!Enqueue, AllLanes

\* dequeue.
LEMMA DequeueImplements ==
    ASSUME QueueInv, Dequeue
    PROVE  Lanes!Dequeue
<1>1. queue \in Seq(Tasks) /\ Sorted(queue)
  BY DEF QueueInv, TypeOK, QueueSorted
<1>2. CASE queue = <<>>
  <2>1. queue' = queue /\ returned' = NoTask
    BY <1>2 DEF Dequeue
  <2>2. \A p \in 0..2 : AllLanes[p] = <<>>
    BY <1>2, EmptyLanes DEF AllLanes, Priorities
  <2>3. AllLanes' = AllLanes
    BY <2>1 DEF AllLanes
  <2>4. QED
    BY <2>1, <2>2, <2>3 DEF Lanes!Dequeue, AllLanes
<1>3. CASE queue # <<>>
  <2>1. queue' = Tail(queue) /\ returned' = Head(queue) /\ Head(queue) \in Tasks
    BY <1>1, <1>3, HeadTailProperties DEF Dequeue
  <2> DEFINE p == PriorityOf[Head(queue)]
  <2>2. p \in Priorities
    BY <2>1, PriorityAssumption
  <2>3. /\ Lane(queue, p) # <<>> /\ Head(Lane(queue, p)) = Head(queue)
        /\ \A m \in 0..(p - 1) : Lane(queue, m) = <<>>
        /\ Lane(Tail(queue), p) = Tail(Lane(queue, p))
        /\ \A m \in Priorities \ {p} : Lane(Tail(queue), m) = Lane(queue, m)
    BY <1>1, <1>3, <2>2, HeadServed
  <2> HIDE DEF p
  <2>4. AllLanes' = [AllLanes EXCEPT ![p] = Tail(@)]
    <3>1. AllLanes' = [m \in Priorities |-> Lane(queue', m)]
      BY DEF AllLanes
    <3>2. QED
      BY <2>1, <2>2, <2>3, <3>1 DEF AllLanes
  <2>5. \A m \in 0..(p - 1) : m \in Priorities
    BY <2>2 DEF Priorities
  <2>6. Lanes!Served(p)
    BY <2>2, <2>3, <2>5 DEF Lanes!Served
  <2>7. returned' = Head(AllLanes[p])
    BY <2>1, <2>2, <2>3 DEF AllLanes
  <2>8. QED
    BY <2>2, <2>4, <2>6, <2>7 DEF Lanes!Dequeue, AllLanes, Priorities
<1>4. QED
  BY <1>2, <1>3

\* cancel.
LEMMA CancelImplements ==
    ASSUME QueueInv, NEW t \in Tasks, Cancel(t)
    PROVE  Lanes!Cancel(t)
<1> DEFINE p == PriorityOf[t]
           l == Lane(queue, p)
<1>1. queue \in Seq(Tasks) /\ Sorted(queue) /\ p \in Priorities
  BY PriorityAssumption DEF QueueInv, TypeOK, QueueSorted
<1>2. Contains(queue, t) <=> Contains(l, t)
  BY <1>1, InItsLane
<1>3. AllLanes[p] = l
  BY <1>1 DEF AllLanes
<1>4. CASE Contains(queue, t)
  <2>1. returned' = t
    BY <1>4 DEF Cancel
  <2>2. PICK i \in 1..Len(queue) : queue[i] = t /\ \A j \in 1..Len(queue) : queue[j] = t => i <= j
    <3> DEFINE I == {i \in 1..Len(queue) : queue[i] = t}
    <3>1. I # {} /\ I \in SUBSET Nat
      BY <1>4 DEF Contains
    <3>2. Min(I) \in I /\ \A x \in I : Min(I) <= x
      BY <3>1, MinOfNaturals
    <3>3. QED
      BY <3>2
  <2>3. queue' = RemoveAt(queue, i)
    BY <1>1, <2>2, RemovesFirst DEF Cancel, Cancelled
  <2> DEFINE a == Ahead(queue, p)
             k == i - a
  <2>4. /\ a < i /\ k \in 1..Len(l) /\ l[k] = t
        /\ \A j \in 1..Len(l) : a + j \in 1..Len(queue) /\ l[j] = queue[a + j]
        /\ l \in Seq(Tasks) /\ a \in 0..Len(queue) /\ Len(queue) \in Nat
    <3>1. p = PriorityOf[queue[i]]
      BY <2>2
    <3>2. /\ a < i /\ k \in 1..Len(l) /\ l[k] = queue[i]
          /\ \A j \in 1..Len(l) : a + j \in 1..Len(queue) /\ l[j] = queue[a + j]
      BY <1>1, <3>1, FirstInLane
    <3>3. l \in Seq(Tasks) /\ a \in 0..Len(queue) /\ Len(queue) \in Nat
      BY <1>1, LaneFacts, LenProperties
    <3>4. QED
      BY <2>2, <3>2, <3>3
  <2>5. AllLanes' = [AllLanes EXCEPT ![p] = RemoveAt(@, k)]
    BY <1>1, <2>2, <2>3, TakenFromLane
  <2> HIDE DEF a, l
  <2>6. ASSUME NEW j \in 1..Len(l), l[j] = t PROVE k <= j
    <3>1. a + j \in 1..Len(queue) /\ queue[a + j] = t
      BY <2>4, <2>6
    <3>2. i <= a + j
      BY <2>2, <3>1
    <3>3. QED
      BY <2>4, <3>2
  <2> HIDE DEF k
  <2>7. RemoveFirst(l, t) = RemoveAt(l, k)
    BY <2>4, <2>6, RemovesFirst
  <2>8. AllLanes' = [AllLanes EXCEPT ![p] = RemoveFirst(@, t)]
    BY <1>1, <1>3, <2>5, <2>7 DEF AllLanes
  <2>9. QED
    BY <1>2, <1>3, <1>4, <2>1, <2>8, LanesOperators DEF Lanes!Cancel, AllLanes
<1>5. CASE ~Contains(queue, t)
  <2>1. returned' = NoTask /\ queue' = queue
    BY <1>5 DEF Cancel, Cancelled, RemoveFirst, Contains
  <2>2. AllLanes' = AllLanes
    BY <2>1 DEF AllLanes
  <2>3. QED
    BY <1>2, <1>3, <1>5, <2>1, <2>2, LanesOperators DEF Lanes!Cancel, AllLanes
<1>6. QED
  BY <1>4, <1>5

\* cancelBySession.
LEMMA CancelBySessionImplements ==
    ASSUME QueueInv, NEW s, CancelBySession(s)
    PROVE  Lanes!CancelBySession(s)
<1>1. queue \in Seq(Tasks) /\ Sorted(queue)
  BY DEF QueueInv, TypeOK, QueueSorted
<1>2. Lanes!CancelBySession(s) <=>
        \/ \E p \in 0..2 :
              /\ SessionIndex(AllLanes[p], s) # 0
              /\ \A m \in 0..(p - 1) : SessionIndex(AllLanes[m], s) = 0
              /\ returned' = AllLanes[p][SessionIndex(AllLanes[p], s)]
              /\ AllLanes' = [AllLanes EXCEPT ![p] = RemoveAt(@, SessionIndex(AllLanes[p], s))]
        \/ /\ \A p \in 0..2 : SessionIndex(AllLanes[p], s) = 0
           /\ returned' = NoTask
           /\ AllLanes' = AllLanes
  BY DEF Lanes!CancelBySession, SessionIndex, SelectInSeq, Lanes!SelectInSeq, Lanes!Min, Min,
         Lanes!RemoveAt, RemoveAt, AllLanes
<1>3. \A p \in Priorities : AllLanes[p] = Lane(queue, p)
  BY DEF AllLanes
<1> DEFINE i == SessionIndex(queue, s)
<1>4. CASE i = 0
  <2>1. queue' = queue /\ returned' = NoTask
    BY <1>4 DEF CancelBySession
  <2>2. \A j \in 1..Len(queue) : SessionOf[queue[j]] # s
    BY <1>1, <1>4, SessionsFirst
  <2>3. ASSUME NEW p \in 0..2 PROVE SessionIndex(AllLanes[p], s) = 0
    <3> DEFINE l == Lane(queue, p)
               a == Ahead(queue, p)
    <3>1. p \in Priorities
      BY DEF Priorities
    <3>2. l \in Seq(Tasks) /\ \A j \in 1..Len(l) : a + j \in 1..Len(queue) /\ l[j] = queue[a + j]
      <4>1. /\ a \in 0..Len(queue) /\ Ahead(queue, p + 1) \in 0..Len(queue) /\ l \in Seq(Tasks)
            /\ Len(l) = Ahead(queue, p + 1) - a /\ Len(queue) \in Nat
            /\ \A j \in 1..(Ahead(queue, p + 1) - a) : l[j] = queue[a + j]
        BY <1>1, <3>1, LaneFacts, LenProperties
      <4> HIDE DEF a, l
      <4>2. QED
        BY <4>1
    <3> HIDE DEF l, a
    <3>3. SessionIndex(l, s) = 0
      BY <2>2, <3>2, SessionsFirst
    <3>4. QED
      BY <1>3, <3>1, <3>3 DEF l
  <2>4. AllLanes' = AllLanes
    BY <2>1 DEF AllLanes
  <2>5. QED
    BY <1>2, <2>1, <2>3, <2>4
<1>5. CASE i # 0
  <2>1. /\ i \in 1..Len(queue) /\ SessionOf[queue[i]] = s
        /\ \A j \in 1..Len(queue) : SessionOf[queue[j]] = s => i <= j
    BY <1>1, <1>5, SessionsFirst
  <2>2. queue' = RemoveAt(queue, i) /\ returned' = queue[i]
    BY <1>5 DEF CancelBySession
  <2> HIDE DEF i
  <2> DEFINE p == PriorityOf[queue[i]]
             a == Ahead(queue, p)
             l == Lane(queue, p)
             k == i - a
  <2>3. queue[i] \in Tasks /\ p \in Priorities /\ p \in 0..2
    BY <1>1, <2>1, ElementOfSeq, PriorityAssumption DEF Priorities
  <2>4. /\ a < i /\ k \in 1..Len(l) /\ l[k] = queue[i]
        /\ \A j \in 1..Len(l) : a + j \in 1..Len(queue) /\ l[j] = queue[a + j]
        /\ l \in Seq(Tasks) /\ a \in 0..Len(queue) /\ Len(queue) \in Nat
    BY <1>1, <2>1, <2>3, FirstInLane, LaneFacts, LenProperties
  <2>5. AllLanes' = [AllLanes EXCEPT ![p] = RemoveAt(@, k)]
    BY <1>1, <2>1, <2>2, <2>3, TakenFromLane
  <2>6. ASSUME NEW m \in 0..(p - 1) PROVE SessionIndex(AllLanes[m], s) = 0
    <3> DEFINE c == Ahead(queue, m)
               d == Ahead(queue, m + 1)
               n == Lane(queue, m)
    <3>1. m \in Priorities /\ m + 1 \in Bounds /\ m + 1 <= p /\ p \in Int /\ m \in Int
      BY <2>3 DEF Priorities, Bounds
    <3>2. /\ c \in 0..Len(queue) /\ d \in 0..Len(queue) /\ n \in Seq(Tasks) /\ Len(n) = d - c
          /\ \A j \in 1..(d - c) : n[j] = queue[c + j]
          /\ (p < m + 1 <=> i <= d)
      BY <1>1, <2>1, <3>1, LaneFacts, AheadFacts
    <3> HIDE DEF c, d, n
    <3>3. d < i /\ i \in Int
      <4>1. p \in Int /\ ~(p < m + 1)
        BY <3>1
      <4>2. QED
        BY <2>1, <2>4, <3>2, <4>1
    <3>4. ASSUME NEW j \in 1..Len(n) PROVE SessionOf[n[j]] # s
      <4>1. j \in 1..(d - c)
        BY <3>2
      <4>a. n[j] = queue[c + j]
        BY <3>2, <4>1
      <4>b. c + j \in 1..Len(queue) /\ c + j < i
        BY <2>4, <3>2, <3>3, <4>1
      <4>2. PICK x \in 1..Len(queue) : n[j] = queue[x] /\ x < i
        BY <4>a, <4>b
      <4>3. SessionOf[queue[x]] = s => i <= x
        BY <2>1
      <4>4. QED
        BY <2>4, <3>3, <4>2, <4>3
    <3>5. SessionIndex(n, s) = 0
      BY <3>2, <3>4, SessionsFirst
    <3>6. QED
      BY <1>3, <3>1, <3>5 DEF n
  <2> HIDE DEF a, l
  <2>7. \A j \in 1..Len(l) : SessionOf[l[j]] = s => k <= j
    BY <2>1, <2>4
  <2> HIDE DEF k
  <2>8. SessionIndex(l, s) = k /\ k # 0
    <3>1. SessionOf[l[k]] = s
      BY <2>1, <2>4
    <3>2. SessionIndex(l, s) = k
      BY <2>4, <2>7, <3>1, SessionsFirstIs
    <3>3. QED
      BY <2>4, <3>2
  <2>9. AllLanes[p] = l
    BY <1>3, <2>3 DEF l
  <2> HIDE DEF p
  <2>10. QED
    BY <1>2, <2>2, <2>3, <2>4, <2>5, <2>6, <2>8, <2>9
<1>6. QED
  BY <1>4, <1>5

\* The array with its insertion loop and its two cancels is a first-in-first-out lane
\* per priority, served by priority, for every set of tasks.
THEOREM QueueIsLanes == Spec => ImplementsLanes
<1>1. Init => Lanes!Init
  <2>1. ASSUME Init PROVE AllLanes = [p \in 0..2 |-> <<>>]
    BY <2>1, EmptyLanes DEF Init, AllLanes, Priorities
  <2>2. QED
    BY <2>1 DEF Init, Lanes!Init, AllLanes
<1>2. ASSUME QueueInv, [Next]_vars PROVE [Lanes!Next]_(Lanes!vars)
  <2>1. ASSUME NEW t \in Tasks, Enqueue(t) PROVE Lanes!Next
    BY <1>2, <2>1, EnqueueImplements DEF Lanes!Next
  <2>2. CASE Dequeue
    BY <1>2, <2>2, DequeueImplements DEF Lanes!Next
  <2>3. ASSUME NEW t \in Tasks, Cancel(t) PROVE Lanes!Next
    BY <1>2, <2>3, CancelImplements DEF Lanes!Next
  <2>4. ASSUME NEW t \in Tasks, CancelBySession(SessionOf[t]) PROVE Lanes!Next
    BY <1>2, <2>4, CancelBySessionImplements DEF Lanes!Next
  <2>5. CASE UNCHANGED vars
    BY <2>5 DEF vars, Lanes!vars
  <2>6. QED
    BY <1>2, <2>1, <2>2, <2>3, <2>4, <2>5 DEF Next
<1>3. QED
  BY <1>1, <1>2, QueueAlways, PTL DEF Spec, ImplementsLanes, Lanes!Spec
=============================================================================
