-------------------------- MODULE EventReplayProofs -------------------------
(***************************************************************************)
(* For any number of events, restarts, polls and connections: the session's *)
(* file holds what was emitted, in the order it was emitted, whenever the  *)
(* buffered tokens are flushed; who polls it by a cursor gets it without a *)
(* gap or a repetition; and a dashboard that was sent it while it grew     *)
(* shows all of it, once and in its order.                                 *)
(***************************************************************************)
EXTENDS EventReplay, SequenceTheorems, FiniteSetTheorems, WellFoundedInduction, TLAPS

\* What the file may hold, without the bound on events.
LogEntry == [seq : Nat, k : {"text", "tool", "turn.done"}, id : Nat, ids : SUBSET Nat]
LogTypes ==
    /\ emitted \in Nat /\ counter \in Nat /\ file \in Seq(LogEntry)
    /\ buffer \in SUBSET Nat /\ final \in SUBSET Nat

LogInv == LogTypes /\ LogKeepsOrder

Ordered(f) == \A i, j \in DOMAIN f : i < j => Before(Ids(f[i]), Ids(f[j]))
Held(f) == UNION {Ids(f[i]) : i \in DOMAIN f}

\* LogKeepsOrder in these words.
LEMMA OrderParts ==
    LogKeepsOrder <=>
      /\ Ordered(file)
      /\ \A i \in DOMAIN file : Before(Ids(file[i]), buffer)
      /\ Held(file) \cup buffer \cup lost = 1..emitted
  BY DEF LogKeepsOrder, Ordered, Held

\* A set of numbers up to a bound has a newest.
LEMMA NewestFacts ==
    ASSUME NEW n \in Nat, NEW S \in SUBSET (1..n), S # {}
    PROVE  Newest(S) \in S
<1> DEFINE U == {m \in Nat : \A y \in S : y <= m}
<1>1. n \in U
  OBVIOUS
<1>2. \A T : T \subseteq Nat /\ T # {} =>
        \E x \in T : \A y \in T : ~(<<y, x>> \in OpToRel(<, Nat))
  BY NatLessThanWellFounded, WFMin
<1>3. PICK u \in U : \A y \in U : ~(<<y, u>> \in OpToRel(<, Nat))
  <2>1. U \subseteq Nat /\ U # {}
    BY <1>1
  <2> HIDE DEF U
  <2>2. QED
    BY <1>2, <2>1
<1>4. \A y \in U : ~(y < u)
  BY <1>3 DEF OpToRel
<1>5. u \in S
  <2>1. SUFFICES ASSUME u \notin S PROVE FALSE
    OBVIOUS
  <2>2. u \in Nat /\ \A y \in S : y \in Nat /\ y <= u /\ y # u /\ y >= 1
    BY <2>1
  <2>3. u - 1 \in Nat /\ \A y \in S : y <= u - 1
    <3>1. PICK z \in S : TRUE
      OBVIOUS
    <3>2. u - 1 \in Nat
      BY <2>2, <3>1
    <3>3. QED
      BY <2>2, <3>2
  <2>4. QED
    BY <1>4, <2>2, <2>3
<1>6. \E x \in S : \A y \in S : y <= x
  BY <1>5
<1>7. QED
  BY <1>6 DEF Newest

\* An entry behind all others.
LEMMA EntryAppended ==
    ASSUME NEW f \in Seq(LogEntry), Ordered(f), NEW e \in LogEntry,
           \A i \in DOMAIN f : Before(Ids(f[i]), Ids(e))
    PROVE  /\ Append(f, e) \in Seq(LogEntry) /\ Ordered(Append(f, e))
           /\ Held(Append(f, e)) = Held(f) \cup Ids(e)
<1> DEFINE g == Append(f, e)
<1>1. /\ g \in Seq(LogEntry) /\ DOMAIN f = 1..Len(f) /\ Len(f) \in Nat
      /\ DOMAIN g = 1..(Len(f) + 1)
      /\ \A i \in 1..Len(f) : g[i] = f[i]
      /\ g[Len(f) + 1] = e
  BY AppendProperties, LenProperties
<1> HIDE DEF g
<1>2. Ordered(g)
  <2>1. SUFFICES ASSUME NEW i \in 1..(Len(f) + 1), NEW j \in 1..(Len(f) + 1), i < j
                 PROVE  Before(Ids(g[i]), Ids(g[j]))
    BY <1>1 DEF Ordered
  <2>2. i \in 1..Len(f) /\ g[i] = f[i]
    BY <1>1, <2>1
  <2>3. CASE j \in 1..Len(f)
    BY <1>1, <2>1, <2>2, <2>3 DEF Ordered
  <2>4. CASE j = Len(f) + 1
    BY <1>1, <2>2, <2>4
  <2>5. QED
    BY <1>1, <2>3, <2>4
<1>3. Held(g) = Held(f) \cup Ids(e)
  <2>1. \A i \in DOMAIN f : i \in DOMAIN g /\ g[i] = f[i]
    BY <1>1
  <2>2. Len(f) + 1 \in DOMAIN g
    BY <1>1
  <2>3. \A i \in DOMAIN g : i \in DOMAIN f \/ i = Len(f) + 1
    BY <1>1
  <2>4. Held(f) \cup Ids(e) \subseteq Held(g)
    BY <1>1, <2>1, <2>2 DEF Held
  <2>5. Held(g) \subseteq Held(f) \cup Ids(e)
    BY <1>1, <2>1, <2>3 DEF Held
  <2>6. QED
    BY <2>4, <2>5
<1>4. QED
  BY <1>1, <1>2, <1>3 DEF g

\* flushTokens.
LEMMA FlushKeeps ==
    ASSUME LogInv
    PROVE  /\ file \o Flushed \in Seq(LogEntry) /\ Ordered(file \o Flushed)
           /\ Held(file \o Flushed) = Held(file) \cup buffer
           /\ Flushed \in Seq(LogEntry)
<1>1. LogTypes /\ Ordered(file) /\ \A i \in DOMAIN file : Before(Ids(file[i]), buffer)
  BY OrderParts DEF LogInv
<1>2. Held(file) \cup buffer \cup lost = 1..emitted
  BY OrderParts DEF LogInv
<1>3. CASE buffer = {}
  <2>1. Flushed = <<>>
    BY <1>3 DEF Flushed
  <2>2. file \o <<>> = file
    BY <1>1, ConcatEmptySeq DEF LogTypes
  <2>3. QED
    BY <1>1, <1>3, <2>1, <2>2 DEF LogTypes
<1>4. CASE buffer # {}
  <2> DEFINE e == [seq |-> counter + 1, k |-> "text", id |-> Newest(buffer), ids |-> buffer]
  <2>1. Newest(buffer) \in Nat
    BY <1>1, <1>2, <1>4, NewestFacts DEF LogTypes
  <2>2. e \in LogEntry /\ Ids(e) = buffer
    BY <1>1, <2>1 DEF LogTypes, LogEntry, Ids
  <2>3. Flushed = <<e>>
    BY <1>4 DEF Flushed
  <2> HIDE DEF e
  <2>4. file \o <<e>> = Append(file, e)
    BY <1>1, <2>2, AppendIsConcat DEF LogTypes
  <2>5. /\ Append(file, e) \in Seq(LogEntry) /\ Ordered(Append(file, e))
        /\ Held(Append(file, e)) = Held(file) \cup Ids(e)
    BY <1>1, <2>2, EntryAppended DEF LogTypes
  <2>6. <<e>> \in Seq(LogEntry)
    BY <2>2
  <2>7. QED
    BY <2>2, <2>3, <2>4, <2>5, <2>6
<1>5. QED
  BY <1>3, <1>4

\* append of an event that is not a token, behind the tokens that came before it.
LEMMA AppendKeeps ==
    ASSUME LogInv, NEW k \in {"tool", "turn.done"}, NEW ids \in SUBSET Nat
    PROVE  /\ file \o Logged(k, ids) \in Seq(LogEntry) /\ Ordered(file \o Logged(k, ids))
           /\ Held(file \o Logged(k, ids)) = Held(file) \cup buffer \cup {emitted + 1}
           /\ Len(Logged(k, ids)) \in Nat
<1> DEFINE f == file \o Flushed
           e == [seq |-> counter + Len(Flushed) + 1, k |-> k, id |-> emitted + 1, ids |-> ids]
<1>1. LogTypes /\ Held(file) \cup buffer \subseteq 1..emitted
  BY OrderParts DEF LogInv
<1>2. f \in Seq(LogEntry) /\ Ordered(f) /\ Held(f) = Held(file) \cup buffer /\ Flushed \in Seq(LogEntry)
  BY FlushKeeps
<1>3. e \in LogEntry /\ Ids(e) = {emitted + 1}
  BY <1>1, <1>2, LenProperties DEF LogTypes, LogEntry, Ids
<1>4. Logged(k, ids) = Append(Flushed, e)
  BY DEF Logged
<1> HIDE DEF f, e
<1>5. \A i \in DOMAIN f : Before(Ids(f[i]), Ids(e))
  <2>1. \A i \in DOMAIN f : Ids(f[i]) \subseteq 1..emitted
    BY <1>1, <1>2 DEF Held
  <2>2. QED
    BY <1>1, <1>3, <2>1 DEF Before, LogTypes
<1>6. /\ Append(f, e) \in Seq(LogEntry) /\ Ordered(Append(f, e))
      /\ Held(Append(f, e)) = Held(f) \cup Ids(e)
  BY <1>2, <1>3, <1>5, EntryAppended
<1>7. file \o Append(Flushed, e) = Append(f, e)
  <2>1. Append(Flushed, e) = Flushed \o <<e>> /\ Append(f, e) = f \o <<e>> /\ <<e>> \in Seq(LogEntry)
    BY <1>2, <1>3, AppendIsConcat
  <2>2. file \o (Flushed \o <<e>>) = f \o <<e>>
    BY <1>1, <1>2, <2>1, ConcatAssociative DEF f, LogTypes
  <2>3. QED
    BY <2>1, <2>2
<1>8. Len(Append(Flushed, e)) \in Nat
  BY <1>2, <1>3, AppendProperties, LenProperties
<1>9. QED
  BY <1>2, <1>3, <1>4, <1>6, <1>7, <1>8

\* Every step keeps the order.
LEMMA OrderKept == ASSUME LogInv, [Next]_vars PROVE LogInv'
<1>1. LogTypes /\ LogKeepsOrder
  BY DEF LogInv
<1>2. /\ Ordered(file)
      /\ \A i \in DOMAIN file : Before(Ids(file[i]), buffer)
      /\ Held(file) \cup buffer \cup lost = 1..emitted
  BY <1>1, OrderParts
<1>3. LogKeepsOrder' <=>
        /\ Ordered(file')
        /\ \A i \in DOMAIN file' : Before(Ids(file'[i]), buffer')
        /\ Held(file') \cup buffer' \cup lost' = 1..emitted'
  BY DEF LogKeepsOrder, Ordered, Held
<1>4. CASE EmitsToken
  <2>1. emitted' = emitted + 1 /\ buffer' = buffer \cup {emitted + 1}
        /\ file' = file /\ lost' = lost /\ counter' = counter
        /\ final' = (IF emitted \in final THEN final ELSE {}) \cup {emitted + 1}
    BY <1>4 DEF EmitsToken
  <2>2. LogTypes'
    BY <1>1, <2>1 DEF LogTypes
  <2>3. \A i \in DOMAIN file : Ids(file[i]) \subseteq 1..emitted
    BY <1>2 DEF Held
  <2>4. \A i \in DOMAIN file' : Before(Ids(file'[i]), buffer')
    BY <1>1, <1>2, <2>1, <2>3 DEF Before, LogTypes
  <2>5. 1..(emitted + 1) = 1..emitted \cup {emitted + 1}
    BY <1>1 DEF LogTypes
  <2>6. QED
    BY <1>2, <1>3, <2>1, <2>2, <2>4, <2>5 DEF LogInv
<1>5. ASSUME NEW k \in {"tool", "turn.done"}, NEW ids \in SUBSET Nat, Writes(Logged(k, ids)),
             emitted' = emitted + 1, lost' = lost, final' \in SUBSET Nat
      PROVE  LogInv'
  <2>1. /\ file' = file \o Logged(k, ids) /\ counter' = counter + Len(Logged(k, ids)) /\ buffer' = {}
    BY <1>5 DEF Writes
  <2>2. /\ file' \in Seq(LogEntry) /\ Ordered(file')
        /\ Held(file') = Held(file) \cup buffer \cup {emitted + 1}
        /\ Len(Logged(k, ids)) \in Nat
    BY <2>1, AppendKeeps
  <2>3. LogTypes'
    BY <1>1, <1>5, <2>1, <2>2 DEF LogTypes
  <2>4. 1..(emitted + 1) = 1..emitted \cup {emitted + 1}
    BY <1>1 DEF LogTypes
  <2>5. \A i \in DOMAIN file' : Before(Ids(file'[i]), buffer')
    BY <2>1 DEF Before
  <2>6. QED
    BY <1>2, <1>3, <1>5, <2>1, <2>2, <2>3, <2>4, <2>5 DEF LogInv
<1>6. CASE EmitsTool
  <2>1. {emitted + 1} \in SUBSET Nat
    BY <1>1 DEF LogTypes
  <2>2. QED
    BY <1>1, <1>5, <1>6, <2>1 DEF EmitsTool, LogTypes
<1>7. CASE EmitsDone
  BY <1>1, <1>5, <1>7 DEF EmitsDone, LogTypes, historyVars
<1>8. CASE Polls
  <2>1. /\ file' = file \o Flushed /\ counter' = counter + Len(Flushed) /\ buffer' = {}
        /\ emitted' = emitted /\ lost' = lost /\ final' = final
    BY <1>8 DEF Polls, Writes, historyVars
  <2>2. /\ file' \in Seq(LogEntry) /\ Ordered(file') /\ Held(file') = Held(file) \cup buffer
        /\ Flushed \in Seq(LogEntry)
    BY <2>1, FlushKeeps
  <2>3. LogTypes'
    BY <1>1, <2>1, <2>2, LenProperties DEF LogTypes
  <2>4. \A i \in DOMAIN file' : Before(Ids(file'[i]), buffer')
    BY <2>1 DEF Before
  <2>5. QED
    BY <1>2, <1>3, <2>1, <2>2, <2>3, <2>4 DEF LogInv
<1>9. CASE Restarts
  <2>1. /\ file' = file /\ counter' = 0 /\ buffer' = {} /\ lost' = lost \cup buffer
        /\ emitted' = emitted /\ final' = {}
    BY <1>9 DEF Restarts
  <2>2. QED
    BY <1>1, <1>2, <1>3, <2>1 DEF LogInv, LogTypes, Before
<1>10. CASE UNCHANGED <<emitted, final, counter, buffer, file, lost>>
  BY <1>1, <1>2, <1>3, <1>10 DEF LogInv, LogTypes
<1>11. CASE SendsDone \/ \E h \in Resumes : Resuming(h)
  BY <1>10, <1>11 DEF SendsDone, Resuming, ResumeArrives, Reads, SendsNext, logVars, historyVars
<1>12. CASE Connects \/ Disconnects \/ Revisits \/ Receives \/ UNCHANGED vars
  BY <1>10, <1>12 DEF Connects, Disconnects, Revisits, Receives, logVars, historyVars, vars
<1>13. QED
  BY <1>4, <1>6, <1>7, <1>8, <1>9, <1>11, <1>12 DEF Next, Relays

\* Nothing is logged at first.
LEMMA OrderFirst == Init => LogInv
<1>1. ASSUME Init PROVE LogInv
  <2>1. file = <<>> /\ buffer = {} /\ lost = {} /\ emitted = 0 /\ counter = 0 /\ final = {}
    BY <1>1 DEF Init
  <2>2. DOMAIN <<>> = {} /\ 1..0 = {} /\ <<>> \in Seq(LogEntry)
    OBVIOUS
  <2>3. QED
    BY <2>1, <2>2 DEF LogInv, LogTypes, LogKeepsOrder
<1>2. QED
  BY <1>1

\* The file holds what was emitted, in order, each text exactly the tokens between its
\* neighbours; missing is only what is buffered, or was when a server stopped.
THEOREM LogInOrder == Spec => []LogKeepsOrder
<1>1. LogInv => LogKeepsOrder
  BY DEF LogInv
<1>2. QED
  BY <1>1, OrderKept, OrderFirst, PTL DEF Spec

-----------------------------------------------------------------------------
(* Places in order.                                                           *)

\* A set of numbers has a least.
LEMMA LeastOf ==
    ASSUME NEW S \in SUBSET Nat, S # {}
    PROVE  \E x \in S : \A y \in S : x <= y
<1>1. \A T : T \subseteq Nat /\ T # {} =>
        \E x \in T : \A y \in T : ~(<<y, x>> \in OpToRel(<, Nat))
  BY NatLessThanWellFounded, WFMin
<1>2. PICK x \in S : \A y \in S : ~(<<y, x>> \in OpToRel(<, Nat))
  BY <1>1
<1>3. \A y \in S : ~(y < x)
  BY <1>2 DEF OpToRel
<1>4. QED
  BY <1>3

\* The n-th place of a set of places.
LEMMA CountedPlace ==
    ASSUME NEW m \in Nat, NEW S \in SUBSET (1..m), NEW n \in 1..Cardinality(S)
    PROVE  \E i \in S : Cardinality({j \in S : j <= i}) = n
<1> DEFINE U(k) == {j \in S : j <= k}
<1>1. \A k \in 0..m : IsFiniteSet(U(k)) /\ Cardinality(U(k)) \in Nat
  <2>1. IsFiniteSet(1..m)
    BY FS_Interval
  <2>2. \A k : U(k) \in SUBSET (1..m)
    OBVIOUS
  <2> HIDE DEF U
  <2>3. QED
    BY <2>1, <2>2, FS_Subset, FS_CardinalityType
<1>0. \A j \in S : j \in Nat /\ 1 <= j /\ j <= m
  OBVIOUS
<1>2. U(0) = {} /\ U(m) = S
  <2>1. \A j : j \in U(0) => j \in S /\ j <= 0
    OBVIOUS
  <2>2. \A j : j \in U(m) <=> j \in S
    BY <1>0
  <2> HIDE DEF U
  <2>3. QED
    BY <1>0, <2>1, <2>2
<1>3. Cardinality(U(0)) = 0
  BY <1>2, FS_EmptySet
<1> DEFINE K == {k \in 0..m : Cardinality(U(k)) >= n}
<1>4. n \in Nat \ {0}
  <2>1. Cardinality(S) \in Nat
    BY <1>1, <1>2
  <2>2. QED
    BY <2>1
<1>5. m \in K
  <2>1. Cardinality(U(m)) >= n
    <3> HIDE DEF U
    <3>1. QED
      BY <1>1, <1>2
  <2>2. QED
    BY <2>1
<1>6. PICK k \in K : \A l \in K : k <= l
  <2> HIDE DEF U
  <2>1. K \in SUBSET Nat /\ K # {}
    BY <1>5
  <2> HIDE DEF K
  <2>2. QED
    BY <2>1, LeastOf
<1>7. k \in 0..m /\ Cardinality(U(k)) >= n
  OBVIOUS
<1>8. k # 0
  <2> HIDE DEF U, K
  <2>1. QED
    BY <1>3, <1>4, <1>7
<1>9. k - 1 \in 0..m /\ ~(Cardinality(U(k - 1)) >= n)
  <2>1. k - 1 \in 0..m
    BY <1>7, <1>8
  <2>2. k - 1 \notin K
    <3> HIDE DEF K, U
    <3>1. QED
      BY <1>6, <1>7, <1>8
  <2> HIDE DEF U
  <2>3. QED
    BY <2>1, <2>2
<1>10. k \in S
  <2>1. SUFFICES ASSUME k \notin S PROVE FALSE
    OBVIOUS
  <2>2. U(k) = U(k - 1)
    <3>1. \A j \in S : j <= k <=> j <= k - 1
      BY <1>0, <1>7, <2>1
    <3>2. QED
      BY <3>1
  <2> HIDE DEF U, K
  <2>3. QED
    BY <1>7, <1>9, <2>2
<1>11. U(k) = U(k - 1) \cup {k}
  <2>1. \A j \in S : j <= k <=> j <= k - 1 \/ j = k
    BY <1>0, <1>7
  <2>2. QED
    BY <1>10, <2>1
<1>12. Cardinality(U(k)) = Cardinality(U(k - 1)) + 1
  <2>1. k \notin U(k - 1)
    BY <1>7, <1>8
  <2>2. IsFiniteSet(U(k - 1))
    BY <1>1, <1>9
  <2> HIDE DEF U, K
  <2>3. QED
    BY <1>11, <2>1, <2>2, FS_AddElement
<1>13. Cardinality(U(k)) = n
  <2> HIDE DEF U, K
  <2>1. QED
    BY <1>1, <1>4, <1>7, <1>9, <1>12
<1>14. QED
  BY <1>10, <1>13

\* Places in order are places.
LEMMA InOrderType ==
    ASSUME NEW m \in Nat, NEW S \in SUBSET (1..m)
    PROVE  InOrder(S) \in Seq(S)
<1>1. Cardinality(S) \in Nat
  <2>1. IsFiniteSet(1..m)
    BY FS_Interval
  <2>2. QED
    BY <2>1, FS_Subset, FS_CardinalityType
<1>2. \A n \in 1..Cardinality(S) : (CHOOSE i \in S : Cardinality({j \in S : j <= i}) = n) \in S
  BY CountedPlace
<1> DEFINE e(n) == CHOOSE i \in S : Cardinality({j \in S : j <= i}) = n
<1>3. \A n \in 1..Cardinality(S) : e(n) \in S
  BY <1>2
<1>4. InOrder(S) = [n \in 1..Cardinality(S) |-> e(n)]
  BY DEF InOrder
<1> HIDE DEF e
<1>5. QED
  BY <1>1, <1>3, <1>4

\* The places behind one, without a gap, are those that follow it.
LEMMA InOrderInterval ==
    ASSUME NEW a \in Nat, NEW b \in Nat, a <= b
    PROVE  InOrder((a + 1)..b) = [n \in 1..(b - a) |-> a + n]
<1> DEFINE S == (a + 1)..b
<1>1. Cardinality(S) = b - a
  <2>1. a + 1 \in Int /\ b \in Int /\ ~(a + 1 > b) => b - (a + 1) + 1 = b - a
    OBVIOUS
  <2>2. Cardinality((a + 1)..b) = IF a + 1 > b THEN 0 ELSE b - (a + 1) + 1
    BY <2>1, FS_Interval
  <2>3. a + 1 > b => b - a = 0
    OBVIOUS
  <2>4. QED
    BY <2>1, <2>2, <2>3
<1>2. ASSUME NEW i \in S PROVE Cardinality({j \in S : j <= i}) = i - a
  <2>1. {j \in S : j <= i} = (a + 1)..i
    OBVIOUS
  <2>2. i \in Int /\ a + 1 \in Int /\ i >= a + 1
    OBVIOUS
  <2>3. Cardinality((a + 1)..i) = i - a
    BY <2>2, FS_Interval
  <2>4. QED
    BY <2>1, <2>3
<1>3. ASSUME NEW n \in 1..(b - a)
      PROVE  (CHOOSE i \in S : Cardinality({j \in S : j <= i}) = n) = a + n
  <2>1. a + n \in S
    OBVIOUS
  <2>2. \A i \in S : Cardinality({j \in S : j <= i}) = n <=> i = a + n
    <3>1. TAKE i \in S
    <3>2. Cardinality({j \in S : j <= i}) = i - a
      BY <1>2
    <3> HIDE DEF S
    <3>3. i \in Int
      BY DEF S
    <3>4. QED
      BY <3>2, <3>3
  <2> HIDE DEF S
  <2>3. QED
    BY <2>1, <2>2
<1> HIDE DEF S
<1>4. InOrder(S) = [n \in 1..(b - a) |-> a + n]
  BY <1>1, <1>3 DEF InOrder
<1>5. QED
  BY <1>4 DEF S

-----------------------------------------------------------------------------
(* Types.                                                                     *)

\* What the dashboard may show and remember.
Chat == {c \in [messages : Seq(SUBSET Events), stream : SUBSET Events,
                target : Nat, last : SUBSET Events] : c.target <= Len(c.messages)}
\* A handler that is sending has something left to send.
Sending == \A h \in Resumes : resume[h].step = "sending" => resume[h].todo # <<>>

TypeInv == TypeOK /\ Sending

\* What a flush writes are entries.
LEMMA FlushedType ==
    ASSUME TypeOK
    PROVE  Flushed \in Seq(Entry)
<1>1. buffer \in SUBSET (1..MaxEvents) /\ counter + 1 \in Nat /\ MaxEvents \in Nat
  <2>1. Len(file) \in Nat
    BY LenProperties DEF TypeOK
  <2>2. QED
    BY <2>1, BoundsAssumption DEF TypeOK, Events
<1>2. buffer # {} => Newest(buffer) \in Events
  BY <1>1, NewestFacts DEF Events
<1> DEFINE e == [seq |-> counter + 1, k |-> "text", id |-> Newest(buffer), ids |-> buffer]
<1>3. buffer # {} => e \in Entry
  BY <1>1, <1>2 DEF Entry, Events
<1>4. Flushed = IF buffer = {} THEN <<>> ELSE <<e>>
  BY DEF Flushed
<1> HIDE DEF e
<1>5. QED
  BY <1>3, <1>4

\* What append writes are entries, the event's the last.
LEMMA LoggedType ==
    ASSUME TypeOK, emitted < MaxEvents, NEW k \in {"tool", "turn.done"}, NEW ids \in SUBSET Events
    PROVE  /\ Logged(k, ids) \in Seq(Entry) /\ Logged(k, ids) # <<>>
           /\ Logged(k, ids)[Len(Logged(k, ids))] =
                [seq |-> counter + Len(Flushed) + 1, k |-> k, id |-> emitted + 1, ids |-> ids]
<1> DEFINE e == [seq |-> counter + Len(Flushed) + 1, k |-> k, id |-> emitted + 1, ids |-> ids]
<1>1. Flushed \in Seq(Entry) /\ Len(Flushed) \in Nat
  BY FlushedType, LenProperties
<1>2. counter \in Nat
  <2>1. Len(file) \in Nat
    BY LenProperties DEF TypeOK
  <2>2. QED
    BY <2>1 DEF TypeOK
<1>3. emitted + 1 \in Events
  BY BoundsAssumption DEF TypeOK, Events
<1>4. e \in Entry
  BY <1>1, <1>2, <1>3 DEF Entry
<1>5. Logged(k, ids) = Append(Flushed, e)
  BY DEF Logged
<1> HIDE DEF e
<1>6. QED
  BY <1>1, <1>4, <1>5, AppendProperties DEF e

\* Writing entries keeps the log in its types.
LEMMA WritesType ==
    ASSUME TypeOK, NEW entries \in Seq(Entry), Writes(entries)
    PROVE  file' \in Seq(Entry) /\ counter' \in 0..Len(file') /\ buffer' \subseteq Events
<1>1. file \in Seq(Entry) /\ counter \in 0..Len(file)
  BY DEF TypeOK
<1>2. file' = file \o entries /\ counter' = counter + Len(entries) /\ buffer' = {}
  BY DEF Writes
<1>3. file' \in Seq(Entry) /\ Len(file') = Len(file) + Len(entries)
  BY <1>1, <1>2, ConcatProperties
<1>4. Len(file) \in Nat /\ Len(entries) \in Nat
  BY <1>1, LenProperties
<1>5. QED
  BY <1>1, <1>2, <1>3, <1>4

\* A relayed event is a message on the wire.
LEMMA ToSessionType ==
    ASSUME TypeOK, NEW k, NEW ids, NEW ends, ToSession(k, ids, ends), [k |-> k, ids |-> ids] \in Message
    PROVE  wire' \in Seq(Message) /\ disturbed' \in BOOLEAN
<1>1. wire \in Seq(Message) /\ disturbed \in BOOLEAN /\ subscribed \in BOOLEAN
  BY DEF TypeOK
<1>2. Append(wire, [k |-> k, ids |-> ids]) \in Seq(Message)
  BY <1>1, AppendProperties
<1>3. QED
  BY <1>1, <1>2 DEF ToSession

\* A burst is no longer than what is left to send.
LEMMA BurstType ==
    ASSUME NEW todo \in Seq(Entry)
    PROVE  Burst(todo) \in 0..Len(todo)
<1>1. Len(todo) \in Nat /\ DOMAIN todo = 1..Len(todo)
  BY LenProperties
<1> DEFINE texts == {i \in DOMAIN todo : todo[i].k # "tool"}
<1>2. texts \in SUBSET Nat /\ \A i \in texts : i \in 1..Len(todo)
  BY <1>1
<1>3. Burst(todo) = IF texts = {} THEN Len(todo)
                    ELSE (CHOOSE i \in texts : \A j \in texts : i <= j) - 1
  BY DEF Burst
<1> HIDE DEF texts
<1>4. CASE texts = {}
  BY <1>1, <1>3, <1>4
<1>5. CASE texts # {}
  <2>1. \E i \in texts : \A j \in texts : i <= j
    BY <1>2, <1>5, LeastOf
  <2> DEFINE x == CHOOSE i \in texts : \A j \in texts : i <= j
  <2>2. x \in texts
    BY <2>1
  <2>3. Burst(todo) = x - 1
    BY <1>3, <1>5
  <2> HIDE DEF x
  <2>4. x \in 1..Len(todo)
    BY <1>2, <2>2
  <2>5. QED
    BY <1>1, <2>3, <2>4
<1>6. QED
  BY <1>4, <1>5

\* Entries become messages one by one.
LEMMA SentType ==
    ASSUME NEW entries \in Seq(Entry)
    PROVE  /\ Sent(entries) \in Seq(Message) /\ Len(Sent(entries)) = Len(entries)
           /\ \A i \in 1..Len(entries) : Sent(entries)[i] = [k |-> entries[i].k, ids |-> entries[i].ids]
<1>1. Len(entries) \in Nat /\ DOMAIN entries = 1..Len(entries)
  BY LenProperties
<1>2. \A i \in 1..Len(entries) : entries[i] \in Entry
  BY ElementOfSeq
<1>3. \A i \in 1..Len(entries) : [k |-> entries[i].k, ids |-> entries[i].ids] \in Message
  BY <1>2 DEF Entry, Message
<1>4. Sent(entries) = [i \in 1..Len(entries) |-> [k |-> entries[i].k, ids |-> entries[i].ids]]
  BY <1>1 DEF Sent
<1>5. QED
  BY <1>1, <1>3, <1>4

\* What a handler sends and what it leaves.
LEMMA SendsType ==
    ASSUME TypeInv, NEW h \in Resumes, NEW todo \in Seq(Entry), NEW n \in 0..Len(todo),
           NEW before \in Seq(Message), Sends(h, todo, n, before)
    PROVE  /\ wire' \in Seq(Message) /\ Sending'
           /\ resume' \in [Resumes -> [step : {"idle", "waking", "sending"}, todo : Seq(Entry)]]
<1>1. Len(todo) \in Nat
  BY LenProperties
<1>2. \A i \in 1..n : todo[i] \in Entry
  BY <1>1, ElementOfSeq
<1>3. SubSeq(todo, 1, n) \in Seq(Entry)
  BY <1>1, <1>2, SubSeqProperties
<1>4. Sent(SubSeq(todo, 1, n)) \in Seq(Message)
  BY <1>3, SentType
<1>5. wire \in Seq(Message) /\ wire \o before \in Seq(Message)
  BY ConcatProperties DEF TypeInv, TypeOK
<1>6. wire' \in Seq(Message)
  BY <1>4, <1>5, ConcatProperties DEF Sends
<1> DEFINE rest == SubSeq(todo, n + 1, Len(todo))
<1>7. n # Len(todo) => rest \in Seq(Entry) /\ Len(rest) = Len(todo) - n /\ rest # <<>>
  <2>1. \A i \in (n + 1)..Len(todo) : todo[i] \in Entry
    BY <1>1, ElementOfSeq
  <2>2. n + 1 \in Int /\ Len(todo) \in Int /\ (n # Len(todo) => n + 1 <= Len(todo))
    BY <1>1
  <2>3. rest \in Seq(Entry) /\ Len(rest) = IF n + 1 <= Len(todo) THEN Len(todo) - (n + 1) + 1 ELSE 0
    BY <2>1, <2>2, SubSeqProperties
  <2> HIDE DEF rest
  <2>4. QED
    BY <1>1, <2>2, <2>3, EmptySeq
<1>8. resume' = [resume EXCEPT ![h] = IF n = Len(todo) THEN Idle ELSE [step |-> "sending", todo |-> rest]]
  BY DEF Sends
<1> HIDE DEF rest
<1>9. resume \in [Resumes -> [step : {"idle", "waking", "sending"}, todo : Seq(Entry)]] /\ Sending
  BY DEF TypeInv, TypeOK
<1>10. Idle \in [step : {"idle", "waking", "sending"}, todo : Seq(Entry)] /\ Idle.step = "idle"
  BY DEF Idle
<1>11. resume' \in [Resumes -> [step : {"idle", "waking", "sending"}, todo : Seq(Entry)]]
  BY <1>7, <1>8, <1>9, <1>10
<1>12. Sending'
  BY <1>7, <1>8, <1>9, <1>10 DEF Sending
<1>13. QED
  BY <1>6, <1>11, <1>12

\* What a message makes of a state.
LEMMA TokenIs ==
    ASSUME NEW c \in Chat, NEW m \in Message, m.k = "token"
    PROVE  /\ c.target = 0 =>
                After(c, m) = [messages |-> Append(c.messages, c.stream \cup m.ids),
                               stream |-> c.stream \cup m.ids, target |-> Len(c.messages) + 1,
                               last |-> c.last]
           /\ c.target # 0 =>
                After(c, m) = [messages |-> [c.messages EXCEPT ![c.target] = c.stream \cup m.ids],
                               stream |-> c.stream \cup m.ids, target |-> c.target, last |-> c.last]
<1> DEFINE text == c.stream \cup m.ids
<1>1. After(c, m) = OnToken(c, m.ids)
  BY DEF After
<1>2. c = [messages |-> c.messages, stream |-> c.stream, target |-> c.target, last |-> c.last]
  BY DEF Chat
<1>3. CASE c.target = 0
  BY <1>1, <1>2, <1>3 DEF OnToken, Shows
<1>4. CASE c.target # 0
  <2>1. OnToken(c, m.ids) = [c EXCEPT !.stream = text, !.messages[c.target] = text]
    BY <1>4 DEF OnToken
  <2> HIDE DEF text
  <2>2. OnToken(c, m.ids) = [messages |-> [c.messages EXCEPT ![c.target] = text], stream |-> text,
                             target |-> c.target, last |-> c.last]
    BY <1>2, <2>1
  <2>3. QED
    BY <1>1, <1>4, <2>2 DEF text
<1>5. QED
  BY <1>3, <1>4
\* What a message does to the dashboard: a text from the log,
LEMMA TextIs ==
    ASSUME NEW c \in Chat, NEW m \in Message, m.k = "text"
    PROVE  After(c, m) = [messages |-> Append(c.messages, m.ids), stream |-> c.stream,
                          target |-> c.target, last |-> m.ids]
  BY DEF After, OnText, Shows, Chat
\* a tool's event,
LEMMA ToolIs ==
    ASSUME NEW c \in Chat, NEW m \in Message, m.k = "tool"
    PROVE  After(c, m) = [messages |-> Append(c.messages, m.ids), stream |-> {}, target |-> 0,
                          last |-> IF c.stream = {} THEN c.last ELSE c.stream]
  BY DEF After, OnTool, Shows, Chat
\* and the end of a turn, whose text is there already, is missing, or takes the place of what was streamed.
LEMMA DoneIs ==
    ASSUME NEW c \in Chat, NEW m \in Message, m.k = "turn.done"
    PROVE  /\ After(c, m) = [messages |-> After(c, m).messages, stream |-> {}, target |-> 0, last |-> {}]
           /\ c.stream = {} /\ (m.ids = {} \/ m.ids = c.last) => After(c, m).messages = c.messages
           /\ c.stream = {} /\ ~(m.ids = {} \/ m.ids = c.last) =>
                After(c, m).messages = Append(c.messages, m.ids)
           /\ c.stream # {} /\ c.target # 0 =>
                After(c, m).messages = [c.messages EXCEPT ![c.target] = IF m.ids = {} THEN c.stream ELSE m.ids]
  BY DEF After, OnDone, Shows, Chat

\* A message leaves the chat in its types.
LEMMA AfterType ==
    ASSUME NEW c \in Chat, NEW m \in Message
    PROVE  After(c, m) \in Chat
<1>1. /\ c.messages \in Seq(SUBSET Events) /\ c.stream \in SUBSET Events /\ c.last \in SUBSET Events
      /\ c.target \in Nat /\ c.target <= Len(c.messages)
      /\ c = [messages |-> c.messages, stream |-> c.stream, target |-> c.target, last |-> c.last]
  BY DEF Chat
<1>2. Len(c.messages) \in Nat /\ DOMAIN c.messages = 1..Len(c.messages)
  BY <1>1, LenProperties
<1>3. ASSUME NEW x \in SUBSET Events
      PROVE  /\ Append(c.messages, x) \in Seq(SUBSET Events)
             /\ Len(Append(c.messages, x)) = Len(c.messages) + 1
             /\ [c.messages EXCEPT ![c.target] = x] \in Seq(SUBSET Events)
             /\ Len([c.messages EXCEPT ![c.target] = x]) = Len(c.messages)
  <2>1. Append(c.messages, x) \in Seq(SUBSET Events) /\ Len(Append(c.messages, x)) = Len(c.messages) + 1
    BY <1>1, AppendProperties
  <2>2. CASE c.target \in 1..Len(c.messages)
    BY <1>1, <2>1, <2>2, ExceptSeq
  <2>3. CASE c.target = 0
    <3>1. [c.messages EXCEPT ![c.target] = x] = c.messages
      BY <1>1, <1>2, <2>3
    <3>2. QED
      BY <1>1, <2>1, <3>1
  <2>4. QED
    BY <1>1, <1>2, <2>2, <2>3
<1>4. m.ids \in SUBSET Events
  BY DEF Message
<1>5. CASE m.k = "token"
  <2> DEFINE text == c.stream \cup m.ids
  <2>1. text \in SUBSET Events
    BY <1>1, <1>4
  <2>2. After(c, m) = IF c.target = 0
          THEN [messages |-> Append(c.messages, text), stream |-> text,
                target |-> Len(c.messages) + 1, last |-> c.last]
          ELSE [messages |-> [c.messages EXCEPT ![c.target] = text], stream |-> text,
                target |-> c.target, last |-> c.last]
    BY <1>5, TokenIs
  <2> HIDE DEF text
  <2>3. QED
    BY <1>1, <1>2, <1>3, <2>1, <2>2 DEF Chat
<1>6. CASE m.k = "text"
  <2>1. After(c, m) = [messages |-> Append(c.messages, m.ids), stream |-> c.stream,
                       target |-> c.target, last |-> m.ids]
    BY <1>6, TextIs
  <2>2. QED
    BY <1>1, <1>2, <1>3, <1>4, <2>1 DEF Chat
<1>7. CASE m.k = "tool"
  <2>1. After(c, m) = [messages |-> Append(c.messages, m.ids), stream |-> {},
                       target |-> 0, last |-> IF c.stream = {} THEN c.last ELSE c.stream]
    BY <1>7, ToolIs
  <2>2. QED
    BY <1>1, <1>2, <1>3, <1>4, <2>1 DEF Chat
<1>8. CASE m.k = "turn.done"
  <2>1. \E x \in SUBSET Events :
          /\ After(c, m).messages \in {c.messages, Append(c.messages, x), [c.messages EXCEPT ![c.target] = x]}
          /\ After(c, m) = [messages |-> After(c, m).messages, stream |-> {}, target |-> 0, last |-> {}]
    BY <1>1, <1>4, <1>8 DEF After, OnDone, Shows
  <2>2. After(c, m).messages \in Seq(SUBSET Events)
    BY <1>1, <1>3, <2>1
  <2>3. Len(After(c, m).messages) \in Nat
    BY <2>2, LenProperties
  <2>4. QED
    BY <2>1, <2>2, <2>3 DEF Chat
<1>9. CASE m.k = "replay_start"
  <2>1. After(c, m) = [messages |-> <<>>, stream |-> {}, target |-> 0, last |-> c.last]
    BY <1>1, <1>9 DEF After, OnReplayStart
  <2>2. QED
    BY <1>1, <2>1 DEF Chat
<1>10. QED
  BY <1>5, <1>6, <1>7, <1>8, <1>9 DEF Message

\* The first n of a sequence.
LEMMA PrefixType ==
    ASSUME NEW S, NEW s, NEW n \in Nat, \A i \in 1..n : s[i] \in S
    PROVE  SubSeq(s, 1, n) \in Seq(S)
  BY SubSeqProperties

\* The page a poller gets.
LEMMA PageType ==
    ASSUME NEW f \in Seq(Entry), NEW seq \in Nat,
           NEW after, after = EventsAfter(f, seq),
           NEW page, page = SubSeq(after, 1, IF Len(after) < PageSize THEN Len(after) ELSE PageSize),
           page # <<>>
    PROVE  page \in Seq(Nat) /\ f[page[Len(page)]].seq \in Nat
<1>1. Len(f) \in Nat /\ DOMAIN f = 1..Len(f)
  BY LenProperties
<1> DEFINE S == {i \in DOMAIN f : f[i].seq > seq}
<1>2. S \in SUBSET (1..Len(f)) /\ after = InOrder(S)
  BY <1>1 DEF EventsAfter
<1>3. after \in Seq(S)
  <2> HIDE DEF S
  <2>1. QED
    BY <1>1, <1>2, InOrderType
<1> DEFINE n == IF Len(after) < PageSize THEN Len(after) ELSE PageSize
<1>4. n \in Nat /\ n <= Len(after) /\ Len(after) \in Nat
  <2>1. Len(after) \in Nat
    BY <1>3, LenProperties
  <2>2. QED
    BY <2>1, BoundsAssumption
<1>5. \A i \in 1..n : after[i] \in S
  <2> HIDE DEF S
  <2>1. QED
    BY <1>3, <1>4, ElementOfSeq
<1>6. page \in Seq(S)
  <2> HIDE DEF S
  <2>1. page = SubSeq(after, 1, n)
    OBVIOUS
  <2> HIDE DEF n
  <2>2. QED
    BY <1>4, <1>5, <2>1, PrefixType
<1>7. Len(page) \in 1..Len(page)
  <2>1. Len(page) \in Nat \ {0}
    BY <1>6, EmptySeq
  <2>2. \A l \in Nat \ {0} : l \in 1..l
    OBVIOUS
  <2>3. QED
    BY <2>1, <2>2
<1>8. page[Len(page)] \in S
  BY <1>6, <1>7, ElementOfSeq
<1>9. f[page[Len(page)]] \in Entry
  BY <1>1, <1>8, ElementOfSeq
<1>10. S \subseteq Nat
  BY <1>1
<1>11. page \in Seq(Nat)
  <2> HIDE DEF S
  <2>1. QED
    BY <1>6, <1>10, SeqMonotonic
<1>12. QED
  BY <1>9, <1>11 DEF Entry

\* A connection that drops takes with it what was under way.
LEMMA DropType == ASSUME Drop PROVE
    /\ connected' = FALSE /\ asked' = 0 /\ wire' = <<>> /\ subscribed' = FALSE
    /\ wire' \in Seq(Message) /\ Sending'
    /\ resume' \in [Resumes -> [step : {"idle", "waking", "sending"}, todo : Seq(Entry)]]
  BY DEF Drop, Idle, Sending

\* Every step leaves the state in its types.
LEMMA TypeStep == ASSUME TypeInv, [Next]_vars PROVE TypeInv'
<1> USE DEF TypeInv
<1>0. TypeOK /\ Sending
  OBVIOUS
<1>a. emitted \in Nat /\ Len(file) \in Nat /\ Len(file) >= counter /\ counter \in Nat
  <2>1. Len(file) \in Nat
    BY LenProperties DEF TypeOK
  <2>2. QED
    BY <2>1 DEF TypeOK
<1>1. CASE EmitsToken
  <2>1. emitted + 1 \in Events /\ emitted' \in 0..MaxEvents
    BY <1>1, BoundsAssumption DEF EmitsToken, TypeOK, Events
  <2>2. [k |-> "token", ids |-> {emitted + 1}] \in Message
    BY <2>1 DEF Message
  <2>3. wire' \in Seq(Message) /\ disturbed' \in BOOLEAN
    BY <1>1, <2>2, ToSessionType DEF EmitsToken
  <2>4. buffer' \subseteq Events /\ final' \subseteq Events
    BY <1>1, <2>1 DEF EmitsToken, TypeOK
  <2>5. UNCHANGED <<counter, file, serverVars, clientVars, poller, cut, lost, synced, boundVars>>
    BY <1>1 DEF EmitsToken
  <2>6. QED
    BY <2>1, <2>3, <2>4, <2>5 DEF TypeOK, Sending, serverVars, clientVars, boundVars
<1>2. CASE EmitsTool
  <2>1. emitted + 1 \in Events /\ emitted' \in 0..MaxEvents /\ emitted < MaxEvents
    BY <1>2, BoundsAssumption DEF EmitsTool, TypeOK, Events
  <2>2. [k |-> "tool", ids |-> {emitted + 1}] \in Message
    BY <2>1 DEF Message
  <2>3. wire' \in Seq(Message) /\ disturbed' \in BOOLEAN
    BY <1>2, <2>2, ToSessionType DEF EmitsTool
  <2>4. {emitted + 1} \in SUBSET Events /\ Writes(Logged("tool", {emitted + 1}))
    BY <1>2, <2>1 DEF EmitsTool
  <2>5. file' \in Seq(Entry) /\ counter' \in 0..Len(file') /\ buffer' \subseteq Events
    BY <2>1, <2>4, LoggedType, WritesType
  <2>6. UNCHANGED <<final, serverVars, clientVars, poller, cut, lost, synced, boundVars>>
    BY <1>2 DEF EmitsTool
  <2>7. QED
    BY <2>1, <2>3, <2>5, <2>6 DEF TypeOK, Sending, serverVars, clientVars, boundVars
<1>3. CASE EmitsDone
  <2> DEFINE entries == Logged("turn.done", final)
  <2>1. emitted' \in 0..MaxEvents /\ emitted < MaxEvents /\ final' = {}
    BY <1>3, BoundsAssumption DEF EmitsDone, TypeOK
  <2>2. entries \in Seq(Entry) /\ entries # <<>>
    BY <2>1, LoggedType DEF TypeOK
  <2>3. Writes(entries) /\ signing' = signing \cup {entries[Len(entries)]}
    BY <1>3 DEF EmitsDone
  <2>4. UNCHANGED <<subscribed, resume, wire, clientVars, poller, historyVars, boundVars>>
    BY <1>3 DEF EmitsDone
  <2> HIDE DEF entries
  <2>5. file' \in Seq(Entry) /\ counter' \in 0..Len(file') /\ buffer' \subseteq Events
    BY <2>2, <2>3, WritesType
  <2>6. entries[Len(entries)] \in Entry
    <3>1. Len(entries) \in Nat \ {0}
      BY <2>2, EmptySeq
    <3>2. QED
      BY <2>2, <3>1, ElementOfSeq
  <2>7. signing' \subseteq Entry
    BY <2>3, <2>6 DEF TypeOK
  <2>8. QED
    BY <2>1, <2>4, <2>5, <2>7 DEF TypeOK, Sending, clientVars, historyVars, boundVars
<1>4. CASE SendsDone
  <2>1. PICK e \in signing : /\ signing' = signing \ {e}
                             /\ ToSession("turn.done", e.ids, signing \ {e})
                             /\ UNCHANGED <<emitted, final, logVars, subscribed, resume, clientVars,
                                            poller, cut, lost, synced, boundVars>>
    BY <1>4 DEF SendsDone
  <2>2. [k |-> "turn.done", ids |-> e.ids] \in Message
    BY DEF TypeOK, Entry, Message
  <2>3. wire' \in Seq(Message) /\ disturbed' \in BOOLEAN
    BY <2>1, <2>2, ToSessionType
  <2>4. QED
    BY <2>1, <2>3 DEF TypeOK, Sending, logVars, clientVars, boundVars
<1>5. ASSUME NEW h \in Resumes, ResumeArrives(h) PROVE TypeInv'
  <2>1. asked' \in Nat
    <3>1. asked' = asked - 1 /\ asked > 0
      BY <1>5 DEF ResumeArrives
    <3>2. asked \in Nat
      BY DEF TypeOK
    <3>3. QED
      BY <3>1, <3>2
  <2>2. /\ resume' \in [Resumes -> [step : {"idle", "waking", "sending"}, todo : Seq(Entry)]]
        /\ Sending'
    BY <1>5 DEF ResumeArrives, TypeOK, Sending
  <2>3. subscribed' = TRUE
        /\ UNCHANGED <<emitted, final, logVars, signing, wire, connected, chat, poller, historyVars, boundVars>>
    BY <1>5 DEF ResumeArrives
  <2>4. QED
    BY <2>1, <2>2, <2>3 DEF TypeOK, logVars, historyVars, boundVars
<1>6. ASSUME NEW h \in Resumes, Reads(h) PROVE TypeInv'
  <2> DEFINE before == IF file = <<>> THEN <<>> ELSE <<[k |-> "replay_start", ids |-> {}]>>
  <2>1. before \in Seq(Message)
    <3>1. [k |-> "replay_start", ids |-> {}] \in Message
      BY DEF Message
    <3>2. QED
      BY <3>1
  <2>2. file \in Seq(Entry) /\ Sends(h, file, Burst(file), before) /\ Burst(file) \in 0..Len(file)
    BY <1>6, BurstType DEF Reads, TypeOK
  <2> HIDE DEF before
  <2>3. /\ wire' \in Seq(Message) /\ Sending'
        /\ resume' \in [Resumes -> [step : {"idle", "waking", "sending"}, todo : Seq(Entry)]]
    BY <2>1, <2>2, SendsType
  <2>4. cut' = buffer /\ synced' = TRUE /\ disturbed' \in BOOLEAN
        /\ UNCHANGED <<emitted, final, logVars, signing, subscribed, clientVars, poller, lost, boundVars>>
    BY <1>6 DEF Reads
  <2>5. QED
    BY <2>3, <2>4 DEF TypeOK, logVars, clientVars, boundVars
<1>7. ASSUME NEW h \in Resumes, SendsNext(h) PROVE TypeInv'
  <2> DEFINE todo == resume[h].todo
  <2>1. todo \in Seq(Entry) /\ todo # <<>>
    BY <1>7 DEF SendsNext, TypeOK, Sending
  <2>2. Sends(h, todo, 1 + Burst(Tail(todo)), <<>>)
        /\ UNCHANGED <<emitted, final, logVars, signing, subscribed, clientVars, poller, historyVars, boundVars>>
    BY <1>7 DEF SendsNext
  <2> HIDE DEF todo
  <2>3. Tail(todo) \in Seq(Entry) /\ Len(Tail(todo)) = Len(todo) - 1 /\ Len(todo) \in Nat
    BY <2>1, HeadTailProperties, LenProperties
  <2>4. 1 + Burst(Tail(todo)) \in 0..Len(todo)
    <3>1. Burst(Tail(todo)) \in 0..Len(Tail(todo))
      BY <2>3, BurstType
    <3>2. QED
      BY <2>3, <3>1
  <2>5. <<>> \in Seq(Message)
    OBVIOUS
  <2>6. /\ wire' \in Seq(Message) /\ Sending'
        /\ resume' \in [Resumes -> [step : {"idle", "waking", "sending"}, todo : Seq(Entry)]]
    BY <2>1, <2>2, <2>4, <2>5, SendsType
  <2>7. QED
    BY <2>2, <2>6 DEF TypeOK, logVars, clientVars, historyVars, boundVars
<1>8. CASE Connects \/ Revisits
  <2>1. resumes' \in 0..MaxResumes /\ asked' \in Nat /\ synced' = FALSE
    <3>1. resumes \in 0..MaxResumes /\ asked \in Nat /\ MaxResumes \in Nat
      BY BoundsAssumption DEF TypeOK
    <3>2. /\ resumes < MaxResumes /\ resumes' = resumes + 1 /\ synced' = FALSE
          /\ asked' = 1 \/ asked' = asked + 1
      BY <1>8 DEF Connects, Revisits
    <3>3. QED
      BY <3>1, <3>2
  <2>2. /\ chat' \in [messages : Seq(SUBSET Events), stream : SUBSET Events, target : Nat,
                      last : SUBSET Events]
        /\ chat'.target <= Len(chat'.messages)
    <3>1. CASE chat' = chat
      BY <3>1 DEF TypeOK
    <3>2. CASE chat' = [chat EXCEPT !.messages = <<>>, !.stream = {}, !.target = 0]
      <4>1. chat' = [messages |-> <<>>, stream |-> {}, target |-> 0, last |-> chat.last]
        BY <3>2 DEF TypeOK
      <4>2. QED
        BY <4>1, EmptySeq DEF TypeOK
    <3>3. QED
      BY <1>8, <3>1, <3>2 DEF Connects, Revisits
  <2>3. connected' \in BOOLEAN
        /\ UNCHANGED <<emitted, final, logVars, serverVars, wire, poller, cut, lost, disturbed, polls, restarts>>
    BY <1>8 DEF Connects, Revisits, TypeOK
  <2>4. QED
    BY <2>1, <2>2, <2>3 DEF TypeOK, Sending, logVars, serverVars
<1>9. CASE Disconnects
  <2>1. Drop /\ UNCHANGED <<emitted, final, logVars, signing, chat, poller, historyVars, boundVars>>
    BY <1>9 DEF Disconnects
  <2>2. QED
    BY <2>1, DropType DEF TypeOK, logVars, historyVars, boundVars
<1>10. CASE Receives
  <2>1. wire # <<>> /\ wire' = Tail(wire) /\ chat' = After(chat, Head(wire))
        /\ UNCHANGED <<emitted, final, logVars, serverVars, asked, connected, poller, historyVars, boundVars>>
    BY <1>10 DEF Receives
  <2>2. Head(wire) \in Message /\ wire' \in Seq(Message)
    BY <2>1, HeadTailProperties DEF TypeOK
  <2>3. chat' \in Chat
    BY <2>1, <2>2, AfterType DEF TypeOK, Chat
  <2>4. QED
    BY <2>1, <2>2, <2>3 DEF TypeOK, Sending, Chat, logVars, serverVars, historyVars, boundVars
<1>11. CASE Polls
  <2>1. polls' \in 0..MaxPolls /\ Writes(Flushed)
        /\ UNCHANGED <<emitted, final, serverVars, wire, clientVars, historyVars, resumes, restarts>>
    BY <1>11, BoundsAssumption DEF Polls, TypeOK
  <2>2. file' \in Seq(Entry) /\ counter' \in 0..Len(file') /\ buffer' \subseteq Events
    BY <2>1, FlushedType, WritesType
  <2> DEFINE after == EventsAfter(file', poller.cursor)
             page == SubSeq(after, 1, IF Len(after) < PageSize THEN Len(after) ELSE PageSize)
  <2>3. poller' = IF page = <<>> THEN poller
                  ELSE [cursor |-> file'[page[Len(page)]].seq, got |-> poller.got \o page]
    BY <1>11 DEF Polls
  <2>4. poller.cursor \in Nat /\ poller.got \in Seq(Nat)
    BY DEF TypeOK
  <2>5. page # <<>> => page \in Seq(Nat) /\ file'[page[Len(page)]].seq \in Nat
    BY <2>2, <2>4, PageType
  <2> HIDE DEF page
  <2>6. page # <<>> => poller.got \o page \in Seq(Nat)
    BY <2>4, <2>5, ConcatProperties
  <2>7. poller' \in [cursor : Nat, got : Seq(Nat)]
    BY <2>3, <2>5, <2>6 DEF TypeOK
  <2>8. QED
    BY <2>1, <2>2, <2>7 DEF TypeOK, Sending, serverVars, clientVars, historyVars
<1>12. CASE Restarts
  <2>1. /\ restarts' \in 0..MaxRestarts /\ counter' = 0 /\ buffer' = {} /\ lost' = lost \cup buffer
        /\ final' = {} /\ signing' = {} /\ Drop
        /\ UNCHANGED <<emitted, file, chat, poller, cut, disturbed, synced, resumes, polls>>
    BY <1>12, BoundsAssumption DEF Restarts, TypeOK
  <2>2. lost' \subseteq Events
    BY <2>1 DEF TypeOK
  <2>3. QED
    BY <1>a, <2>1, <2>2, DropType DEF TypeOK
<1>13. CASE UNCHANGED vars
  BY <1>13 DEF TypeOK, Sending, vars, logVars, serverVars, clientVars, historyVars, boundVars
<1>14. QED
  BY <1>1, <1>2, <1>3, <1>4, <1>5, <1>6, <1>7, <1>8, <1>9, <1>10, <1>11, <1>12, <1>13
     DEF Next, Relays, Resuming

\* So it is in every behaviour.
LEMMA TypeAlways == Spec => []TypeInv
<1>1. ASSUME Init PROVE TypeInv
  <2>1. <<>> \in Seq(Entry) /\ <<>> \in Seq(Message) /\ <<>> \in Seq(Nat)
        /\ <<>> \in Seq(SUBSET Events) /\ Len(<<>>) = 0
    OBVIOUS
  <2>2. /\ chat \in [messages : Seq(SUBSET Events), stream : SUBSET Events, target : Nat,
                      last : SUBSET Events]
        /\ chat.target <= Len(chat.messages)
    BY <1>1, <2>1 DEF Init, Blank
  <2>3. /\ resume \in [Resumes -> [step : {"idle", "waking", "sending"}, todo : Seq(Entry)]]
        /\ Sending
    BY <1>1, <2>1 DEF Init, Idle, Sending
  <2>4. poller \in [cursor : Nat, got : Seq(Nat)]
    BY <1>1, <2>1 DEF Init
  <2>5. counter \in 0..Len(file) /\ file \in Seq(Entry) /\ wire \in Seq(Message)
    BY <1>1, <2>1 DEF Init
  <2>6. /\ emitted = 0 /\ final = {} /\ buffer = {} /\ signing = {} /\ subscribed = FALSE
        /\ asked = 0 /\ connected = FALSE /\ cut = {} /\ lost = {} /\ disturbed = FALSE
        /\ synced = FALSE /\ resumes = 0 /\ polls = 0 /\ restarts = 0
    BY <1>1 DEF Init
  <2>7. emitted \in 0..MaxEvents /\ resumes \in 0..MaxResumes /\ polls \in 0..MaxPolls
        /\ restarts \in 0..MaxRestarts
    BY <2>6, BoundsAssumption
  <2>8. QED
    BY <2>2, <2>3, <2>4, <2>5, <2>6, <2>7 DEF TypeInv, TypeOK
<1>2. QED
  BY <1>1, TypeStep, PTL DEF Spec

\* Log, wire, handlers, chat and poller stay in their types, however often the server
\* restarts and whatever is read in the middle of whatever is written.
THEOREM TypeCorrect == Spec => []TypeOK
<1>1. TypeInv => TypeOK
  BY DEF TypeInv
<1>2. QED
  BY <1>1, TypeAlways, PTL

-----------------------------------------------------------------------------
(* The poller.                                                                *)

\* The file is numbered from one, and the counter is its length.
Numbered(f, n) == n = Len(f) /\ \A i \in 1..Len(f) : f[i].seq = i
\* Until the first restart numbers are places, and the poller has the file up to its cursor.
PollInv ==
    restarts = 0 =>
      /\ Numbered(file, counter)
      /\ poller.cursor = Len(poller.got) /\ poller.cursor <= Len(file)
      /\ \A i \in 1..Len(poller.got) : poller.got[i] = i

\* Entries that go on with the numbers keep the file numbered.
LEMMA NumberedKept ==
    ASSUME NEW f \in Seq(Entry), NEW n, Numbered(f, n), NEW entries \in Seq(Entry),
           \A i \in 1..Len(entries) : entries[i].seq = n + i
    PROVE  Numbered(f \o entries, n + Len(entries)) /\ Len(f) <= Len(f \o entries)
<1>1. Len(f) \in Nat /\ Len(entries) \in Nat /\ n = Len(f)
  BY LenProperties DEF Numbered
<1>2. Len(f \o entries) = Len(f) + Len(entries)
  BY ConcatProperties
<1>3. \A i \in 1..(Len(f) + Len(entries)) :
        (f \o entries)[i] = IF i <= Len(f) THEN f[i] ELSE entries[i - Len(f)]
  BY ConcatProperties
<1>4. ASSUME NEW i \in 1..(Len(f) + Len(entries)) PROVE (f \o entries)[i].seq = i
  <2>1. CASE i <= Len(f)
    BY <1>1, <1>3, <2>1 DEF Numbered
  <2>2. CASE ~(i <= Len(f))
    <3>1. i - Len(f) \in 1..Len(entries) /\ n + (i - Len(f)) = i
      BY <1>1, <2>2
    <3>2. QED
      BY <1>3, <2>2, <3>1
  <2>3. QED
    BY <2>1, <2>2
<1>5. QED
  BY <1>1, <1>2, <1>4 DEF Numbered

\* What a flush writes goes on with the numbers,
LEMMA FlushedNumbers ==
    ASSUME TypeOK
    PROVE  \A i \in 1..Len(Flushed) : Flushed[i].seq = counter + i
  BY DEF Flushed

\* and so does what append writes.
LEMMA LoggedNumbers ==
    ASSUME TypeOK, emitted < MaxEvents, NEW k \in {"tool", "turn.done"}, NEW ids \in SUBSET Events
    PROVE  \A i \in 1..Len(Logged(k, ids)) : Logged(k, ids)[i].seq = counter + i
<1> DEFINE e == [seq |-> counter + Len(Flushed) + 1, k |-> k, id |-> emitted + 1, ids |-> ids]
<1>1. Flushed \in Seq(Entry) /\ Len(Flushed) \in Nat
  BY FlushedType, LenProperties
<1>2. Logged(k, ids) = Append(Flushed, e) /\ e.seq = counter + Len(Flushed) + 1
  BY DEF Logged
<1>3. counter \in Nat
  <2>1. Len(file) \in Nat
    BY LenProperties DEF TypeOK
  <2>2. QED
    BY <2>1 DEF TypeOK
<1>4. emitted + 1 \in Events
  BY BoundsAssumption DEF TypeOK, Events
<1>5. e \in Entry
  BY <1>1, <1>3, <1>4 DEF Entry
<1> HIDE DEF e
<1>6. /\ Len(Append(Flushed, e)) = Len(Flushed) + 1
      /\ \A i \in 1..Len(Flushed) : Append(Flushed, e)[i] = Flushed[i]
      /\ Append(Flushed, e)[Len(Flushed) + 1] = e
  BY <1>1, <1>5, AppendProperties
<1>7. \A i \in 1..(Len(Flushed) + 1) : i \in 1..Len(Flushed) \/ i = Len(Flushed) + 1
  BY <1>1
<1>8. TAKE i \in 1..Len(Logged(k, ids))
<1>9. CASE i \in 1..Len(Flushed)
  <2>1. Flushed[i].seq = counter + i
    BY <1>9, FlushedNumbers
  <2>2. QED
    BY <1>2, <1>6, <1>9, <2>1
<1>10. CASE i = Len(Flushed) + 1
  <2>1. Logged(k, ids)[i] = e
    BY <1>2, <1>6, <1>10
  <2>2. QED
    BY <1>1, <1>2, <1>3, <1>10, <2>1
<1>11. QED
  <2>1. i \in 1..(Len(Flushed) + 1)
    BY <1>2, <1>6
  <2>2. QED
    BY <1>7, <1>9, <1>10, <2>1

\* The page a poller gets.
PageOf(f, seq) ==
    LET after == EventsAfter(f, seq) IN
    SubSeq(after, 1, IF Len(after) < PageSize THEN Len(after) ELSE PageSize)

\* In a numbered file a page is what follows the cursor.
LEMMA PageFollows ==
    ASSUME NEW f \in Seq(Entry), NEW n, Numbered(f, n), NEW seq \in Nat, seq <= Len(f),
           NEW page, page = PageOf(f, seq)
    PROVE  /\ page \in Seq(Nat) /\ Len(page) \in Nat /\ seq + Len(page) <= Len(f)
           /\ \A i \in 1..Len(page) : page[i] = seq + i
<1>1. Len(f) \in Nat /\ DOMAIN f = 1..Len(f)
  BY LenProperties
<1>2. {i \in DOMAIN f : f[i].seq > seq} = (seq + 1)..Len(f)
  BY <1>1 DEF Numbered
<1> DEFINE after == EventsAfter(f, seq)
           k == IF Len(after) < PageSize THEN Len(after) ELSE PageSize
<1>3. after = [i \in 1..(Len(f) - seq) |-> seq + i]
  BY <1>1, <1>2, InOrderInterval DEF EventsAfter
<1>4. Len(f) - seq \in Nat
  BY <1>1
<1>a. page = SubSeq(after, 1, k)
  BY DEF PageOf
<1> HIDE DEF after
<1>5. after \in Seq(Nat) /\ Len(after) = Len(f) - seq
  BY <1>3, <1>4
<1>6. k \in Nat /\ k <= Len(f) - seq
  BY <1>4, <1>5, BoundsAssumption
<1>7. page = SubSeq(after, 1, k)
  BY <1>a
<1> HIDE DEF k
<1>8. (\A i \in 1..k : after[i] \in Nat) /\ \A i \in 1..k : after[i] = seq + i
  BY <1>3, <1>4, <1>6
<1>9. /\ page \in Seq(Nat) /\ Len(page) = (IF 1 <= k THEN k - 1 + 1 ELSE 0)
      /\ \A i \in 1..(k - 1 + 1) : page[i] = after[1 + i - 1]
  <2>1. 1 \in Int /\ k \in Int
    BY <1>6
  <2>2. \A i \in 1..k : after[i] \in Nat
    BY <1>8
  <2>3. /\ SubSeq(after, 1, k) \in Seq(Nat)
        /\ Len(SubSeq(after, 1, k)) = (IF 1 <= k THEN k - 1 + 1 ELSE 0)
        /\ \A i \in 1..(k - 1 + 1) : SubSeq(after, 1, k)[i] = after[1 + i - 1]
    BY <2>1, <2>2, SubSeqProperties
  <2>4. QED
    BY <1>7, <2>3
<1>10. Len(page) = k /\ \A i \in 1..k : page[i] = after[i]
  BY <1>6, <1>9
<1>11. QED
  BY <1>1, <1>6, <1>8, <1>9, <1>10

\* Every step keeps the poller at the place its cursor says.
LEMMA PollStep == ASSUME TypeInv, TypeInv', PollInv, [Next]_vars PROVE PollInv'
<1>1. /\ file \in Seq(Entry) /\ Len(file) \in Nat /\ counter \in Nat /\ restarts \in Nat
      /\ poller.cursor \in Nat /\ poller.got \in Seq(Nat) /\ Len(poller.got) \in Nat
  <2>1. file \in Seq(Entry) /\ counter \in 0..Len(file) /\ poller.got \in Seq(Nat)
    BY DEF TypeInv, TypeOK
  <2>2. Len(file) \in Nat /\ Len(poller.got) \in Nat
    BY <2>1, LenProperties
  <2>3. QED
    BY <2>1, <2>2 DEF TypeInv, TypeOK
<1>2. ASSUME NEW k \in {"tool", "turn.done"}, NEW ids \in SUBSET Events, Writes(Logged(k, ids)),
             emitted < MaxEvents, UNCHANGED <<poller, restarts>>
      PROVE  PollInv'
  <2> DEFINE entries == Logged(k, ids)
  <2>1. entries \in Seq(Entry) /\ \A i \in 1..Len(entries) : entries[i].seq = counter + i
    BY <1>2, LoggedType, LoggedNumbers DEF TypeInv
  <2>2. file' = file \o entries /\ counter' = counter + Len(entries)
    BY <1>2 DEF Writes
  <2> HIDE DEF entries
  <2>3. restarts = 0 => Numbered(file', counter') /\ Len(file) <= Len(file')
    BY <1>1, <2>1, <2>2, NumberedKept DEF PollInv
  <2>4. Len(file') \in Nat
    BY <2>1, <2>2, <1>1, ConcatProperties, LenProperties
  <2>5. QED
    BY <1>1, <1>2, <2>3, <2>4 DEF PollInv
<1>3. CASE EmitsTool
  <2>1. {emitted + 1} \in SUBSET Events
    BY <1>3, BoundsAssumption DEF EmitsTool, TypeInv, TypeOK, Events
  <2>2. QED
    BY <1>2, <1>3, <2>1 DEF EmitsTool, boundVars
<1>4. CASE EmitsDone
  BY <1>2, <1>4 DEF EmitsDone, boundVars, TypeInv, TypeOK
<1>5. CASE Polls
  <2>1. file' = file \o Flushed /\ counter' = counter + Len(Flushed) /\ restarts' = restarts
    BY <1>5 DEF Polls, Writes
  <2> DEFINE after == EventsAfter(file', poller.cursor)
             page == SubSeq(after, 1, IF Len(after) < PageSize THEN Len(after) ELSE PageSize)
  <2>2. poller' = IF page = <<>> THEN poller
                  ELSE [cursor |-> file'[page[Len(page)]].seq, got |-> poller.got \o page]
    BY <1>5 DEF Polls
  <2>3. SUFFICES ASSUME restarts = 0
                 PROVE  /\ Numbered(file', counter')
                        /\ poller'.cursor = Len(poller'.got) /\ poller'.cursor <= Len(file')
                        /\ \A i \in 1..Len(poller'.got) : poller'.got[i] = i
    BY <2>1 DEF PollInv
  <2>4. file' \in Seq(Entry) /\ Len(file') \in Nat
    BY LenProperties DEF TypeInv, TypeOK
  <2>5. Numbered(file', counter') /\ Len(file) <= Len(file')
    <3>1. Flushed \in Seq(Entry) /\ \A i \in 1..Len(Flushed) : Flushed[i].seq = counter + i
      BY FlushedType, FlushedNumbers DEF TypeInv
    <3>2. QED
      BY <1>1, <2>1, <2>3, <3>1, NumberedKept DEF PollInv
  <2>6. poller.cursor = Len(poller.got) /\ poller.cursor <= Len(file')
        /\ \A i \in 1..Len(poller.got) : poller.got[i] = i
    BY <1>1, <2>3, <2>4, <2>5 DEF PollInv
  <2>7. /\ page \in Seq(Nat) /\ Len(page) \in Nat /\ poller.cursor + Len(page) <= Len(file')
        /\ \A i \in 1..Len(page) : page[i] = poller.cursor + i
    <3>1. page = PageOf(file', poller.cursor)
      BY DEF PageOf
    <3> HIDE DEF page
    <3>3. file' \in Seq(Entry) /\ Numbered(file', counter') /\ poller.cursor \in Nat
          /\ poller.cursor <= Len(file')
      BY <1>1, <2>4, <2>5, <2>6
    <3>4. QED
      BY <3>1, <3>3, PageFollows
  <2> HIDE DEF page
  <2>8. CASE page = <<>>
    BY <2>2, <2>5, <2>6, <2>8
  <2>9. CASE page # <<>>
    <3>1. Len(page) \in 1..Len(page)
      <4>1. Len(page) \in Nat \ {0}
        BY <2>7, <2>9, EmptySeq
      <4>2. \A l \in Nat \ {0} : l \in 1..l
        OBVIOUS
      <4>3. QED
        BY <4>1, <4>2
    <3>2. page[Len(page)] = poller.cursor + Len(page)
      BY <2>7, <3>1
    <3>3. poller.cursor + Len(page) \in 1..Len(file')
      BY <1>1, <2>4, <2>7, <3>1
    <3>4. file'[page[Len(page)]].seq = poller.cursor + Len(page)
      BY <2>5, <3>2, <3>3 DEF Numbered
    <3>5. /\ Len(poller.got \o page) = Len(poller.got) + Len(page)
          /\ \A i \in 1..(Len(poller.got) + Len(page)) :
               (poller.got \o page)[i] = IF i <= Len(poller.got) THEN poller.got[i]
                                         ELSE page[i - Len(poller.got)]
      BY <1>1, <2>7, ConcatProperties
    <3>6. \A i \in 1..(Len(poller.got) + Len(page)) : (poller.got \o page)[i] = i
      <4>1. TAKE i \in 1..(Len(poller.got) + Len(page))
      <4>2. CASE i <= Len(poller.got)
        BY <1>1, <2>6, <3>5, <4>2
      <4>3. CASE ~(i <= Len(poller.got))
        <5>1. i - Len(poller.got) \in 1..Len(page) /\ Len(poller.got) + (i - Len(poller.got)) = i
          BY <1>1, <2>7, <4>3
        <5>2. QED
          BY <2>6, <2>7, <3>5, <4>3, <5>1
      <4>4. QED
        BY <4>2, <4>3
    <3>7. poller' = [cursor |-> poller.cursor + Len(page), got |-> poller.got \o page]
      BY <2>2, <2>9, <3>4
    <3>8. QED
      BY <2>5, <2>6, <2>7, <3>5, <3>6, <3>7
  <2>10. QED
    BY <2>8, <2>9
<1>6. CASE Restarts
  <2>1. restarts' # 0
    BY <1>1, <1>6 DEF Restarts
  <2>2. QED
    BY <2>1 DEF PollInv
<1>7. CASE UNCHANGED <<counter, file, poller, restarts>>
  BY <1>7 DEF PollInv
<1>8. CASE EmitsToken \/ SendsDone \/ \E h \in Resumes : Resuming(h)
  BY <1>7, <1>8 DEF EmitsToken, SendsDone, Resuming, ResumeArrives, Reads, SendsNext, logVars, boundVars
<1>9. CASE Connects \/ Disconnects \/ Revisits \/ Receives \/ UNCHANGED vars
  BY <1>7, <1>9 DEF Connects, Disconnects, Revisits, Receives, logVars, boundVars, vars
<1>10. QED
  BY <1>3, <1>4, <1>5, <1>6, <1>8, <1>9 DEF Next, Relays

\* Until the server restarts, whoever polls the log by its cursor gets every place of the
\* file once and in order, though each poll flushes and the task goes on.
THEOREM PolledInOrderCorrect == Spec => []PolledInOrder
<1>1. Init => PollInv
  BY DEF Init, PollInv, Numbered
<1>2. TypeInv /\ PollInv => PolledInOrder
  <2>1. ASSUME TypeInv, PollInv PROVE PolledInOrder
    <3>1. poller.got \in Seq(Nat)
      BY <2>1 DEF TypeInv, TypeOK
    <3>2. poller.got = [i \in 1..Len(poller.got) |-> poller.got[i]]
      BY <3>1
    <3>3. QED
      BY <2>1, <3>2 DEF PollInv, PolledInOrder
  <2>2. QED
    BY <2>1
<1>3. TypeInv /\ TypeInv' /\ PollInv /\ [Next]_vars => PollInv'
  BY PollStep
<1>4. QED
  BY <1>1, <1>2, <1>3, TypeAlways, PTL DEF Spec

-----------------------------------------------------------------------------
(* What the dashboard is going to show.                                       *)

\* What the dashboard will show once it has received the messages s is known before it
\* has: there is a course of states that starts from c and ends in p.
Course(c, s, h) == h[0] = c /\ \A n \in 1..Len(s) : h[n] = After(h[n - 1], s[n])
Leads(c, s, p) == \E h \in [0..Len(s) -> Chat] : Course(c, s, h) /\ h[Len(s)] = p

\* Nothing received, nothing changed.
LEMMA LeadsNowhere ==
    ASSUME NEW c \in Chat
    PROVE  \A p : Leads(c, <<>>, p) <=> p = c
<1>1. Len(<<>>) = 0 /\ 1..0 = {}
  OBVIOUS
<1>2. [n \in 0..0 |-> c] \in [0..0 -> Chat] /\ [n \in 0..0 |-> c][0] = c
  OBVIOUS
<1>3. QED
  BY <1>1, <1>2 DEF Leads, Course

\* Receiving the first message comes nearer to the same end.
LEMMA LeadsFirst ==
    ASSUME NEW c \in Chat, NEW s \in Seq(Message), s # <<>>, NEW p, Leads(After(c, Head(s)), Tail(s), p)
    PROVE  Leads(c, s, p)
<1> DEFINE d == After(c, Head(s))
           t == Tail(s)
<1>1. /\ t \in Seq(Message) /\ Len(s) \in Nat \ {0} /\ Len(t) = Len(s) - 1
      /\ \A i \in 1..Len(t) : t[i] = s[i + 1]
  BY EmptySeq, HeadTailProperties
<1>2. Head(s) = s[1]
  OBVIOUS
<1> HIDE DEF t
<1>3. PICK g \in [0..Len(t) -> Chat] : Course(d, t, g) /\ g[Len(t)] = p
  BY DEF Leads, t
<1> HIDE DEF d
<1> DEFINE h == [n \in 0..Len(s) |-> IF n = 0 THEN c ELSE g[n - 1]]
<1>4. \A n \in 0..Len(s) : h[n] = IF n = 0 THEN c ELSE g[n - 1]
  OBVIOUS
<1>5. h \in [0..Len(s) -> Chat]
  BY <1>1
<1> HIDE DEF h
<1>6. h[0] = c /\ h[Len(s)] = p
  BY <1>1, <1>3, <1>4
<1>7. ASSUME NEW n \in 1..Len(s) PROVE h[n] = After(h[n - 1], s[n])
  <2>1. n \in 0..Len(s) /\ n - 1 \in 0..Len(s) /\ n # 0
    BY <1>1
  <2>2. CASE n = 1
    BY <1>2, <1>3, <1>4, <2>1, <2>2 DEF Course, d
  <2>3. CASE n # 1
    <3>1. n - 1 \in 1..Len(t) /\ n - 1 # 0
      BY <1>1, <2>3
    <3>2. g[n - 1] = After(g[n - 1 - 1], t[n - 1]) /\ t[n - 1] = s[n - 1 + 1] /\ n - 1 + 1 = n
      BY <1>1, <1>3, <3>1 DEF Course
    <3>3. h[n] = g[n - 1] /\ h[n - 1] = g[n - 1 - 1]
      BY <1>4, <2>1, <3>1
    <3>4. QED
      BY <3>2, <3>3
  <2>4. QED
    BY <2>2, <2>3
<1>8. QED
  BY <1>5, <1>6, <1>7 DEF Leads, Course

\* One message.
LEMMA LeadsOne ==
    ASSUME NEW c, NEW m, NEW p, Leads(c, <<m>>, p)
    PROVE  p = After(c, m)
<1>1. Len(<<m>>) = 1 /\ <<m>>[1] = m /\ 1 \in 1..1 /\ 1 - 1 = 0
  OBVIOUS
<1>2. PICK h \in [0..1 -> Chat] : Course(c, <<m>>, h) /\ h[1] = p
  BY <1>1 DEF Leads
<1>3. h[0] = c /\ h[1] = After(h[1 - 1], <<m>>[1])
  BY <1>1, <1>2 DEF Course
<1>4. QED
  BY <1>1, <1>2, <1>3

\* Some messages, and then others.
LEMMA LeadsThrough ==
    ASSUME NEW c \in Chat, NEW s \in Seq(Message), NEW t \in Seq(Message), NEW p, Leads(c, s \o t, p)
    PROVE  \E q \in Chat : Leads(c, s, q) /\ Leads(q, t, p)
<1>1. Len(s) \in Nat /\ Len(t) \in Nat /\ Len(s \o t) = Len(s) + Len(t)
  BY LenProperties, ConcatProperties
<1>2. /\ \A i \in 1..Len(s) : (s \o t)[i] = s[i]
      /\ \A i \in 1..Len(t) : (s \o t)[Len(s) + i] = t[i]
  <2>1. \A i \in 1..(Len(s) + Len(t)) :
          (s \o t)[i] = IF i <= Len(s) THEN s[i] ELSE t[i - Len(s)]
    BY ConcatProperties
  <2>2. \A i \in 1..Len(s) : i \in 1..(Len(s) + Len(t)) /\ i <= Len(s)
    BY <1>1
  <2>3. \A i \in 1..Len(t) : Len(s) + i \in 1..(Len(s) + Len(t)) /\ ~(Len(s) + i <= Len(s))
                             /\ Len(s) + i - Len(s) = i
    BY <1>1
  <2>4. QED
    BY <2>1, <2>2, <2>3
<1> DEFINE u == s \o t
<1>a. Leads(c, u, p)
  OBVIOUS
<1>b. /\ Len(u) = Len(s) + Len(t)
      /\ \A i \in 1..Len(s) : u[i] = s[i]
      /\ \A i \in 1..Len(t) : u[Len(s) + i] = t[i]
  BY <1>1, <1>2
<1> HIDE DEF u
<1>3. PICK h \in [0..Len(u) -> Chat] : Course(c, u, h) /\ h[Len(u)] = p
  BY <1>a DEF Leads
<1>4. h[0] = c /\ \A n \in 1..(Len(s) + Len(t)) : h[n] = After(h[n - 1], u[n])
  BY <1>b, <1>3 DEF Course
<1> DEFINE f == [n \in 0..Len(s) |-> h[n]]
           g == [n \in 0..Len(t) |-> h[Len(s) + n]]
           q == h[Len(s)]
<1>5. f \in [0..Len(s) -> Chat] /\ g \in [0..Len(t) -> Chat] /\ q \in Chat
  <2>1. /\ \A n \in 0..Len(s) : n \in 0..Len(u)
        /\ \A n \in 0..Len(t) : Len(s) + n \in 0..Len(u)
        /\ Len(s) \in 0..Len(s)
    BY <1>1, <1>b
  <2>2. \A n \in 0..Len(u) : h[n] \in Chat
    BY <1>3
  <2>3. QED
    BY <2>1, <2>2
<1>6. Course(c, s, f) /\ f[Len(s)] = q
  <2>1. \A n \in 1..Len(s) : f[n] = h[n] /\ f[n - 1] = h[n - 1] /\ n \in 1..(Len(s) + Len(t))
    BY <1>1
  <2>2. f[0] = h[0] /\ f[Len(s)] = q
    BY <1>1
  <2> HIDE DEF f, q
  <2>3. QED
    BY <1>4, <1>b, <2>1, <2>2 DEF Course
<1>7. Course(q, t, g) /\ g[Len(t)] = p
  <2>1. \A n \in 1..Len(t) : /\ g[n] = h[Len(s) + n] /\ g[n - 1] = h[Len(s) + n - 1]
                             /\ Len(s) + n \in 1..(Len(s) + Len(t))
    <3>1. TAKE n \in 1..Len(t)
    <3>2. n \in 0..Len(t) /\ n - 1 \in 0..Len(t) /\ Len(s) + (n - 1) = Len(s) + n - 1
      BY <1>1
    <3>3. QED
      BY <1>1, <3>2
  <2>2. g[0] = q /\ g[Len(t)] = h[Len(s) + Len(t)]
    BY <1>1
  <2> HIDE DEF g, q
  <2>3. ASSUME NEW n \in 1..Len(t) PROVE g[n] = After(g[n - 1], t[n])
    <3>1. h[Len(s) + n] = After(h[Len(s) + n - 1], u[Len(s) + n])
      BY <1>4, <2>1
    <3>2. QED
      BY <1>b, <2>1, <3>1
  <2>4. g[Len(t)] = p
    BY <1>3, <1>b, <2>2
  <2>5. QED
    BY <2>2, <2>3, <2>4 DEF Course
<1>8. QED
  BY <1>5, <1>6, <1>7 DEF Leads

\* What every message keeps, all of them keep.
LEMMA LeadsWithin ==
    ASSUME NEW c \in Chat, NEW s \in Seq(Message), NEW p, Leads(c, s, p),
           NEW J, c \in J, \A n \in 1..Len(s) : \A x \in J \cap Chat : After(x, s[n]) \in J
    PROVE  p \in J
<1>1. Len(s) \in Nat
  BY LenProperties
<1>2. PICK h \in [0..Len(s) -> Chat] : Course(c, s, h) /\ h[Len(s)] = p
  BY DEF Leads
<1> DEFINE K == {n \in 0..Len(s) : h[n] \notin J}
<1>3. SUFFICES ASSUME K # {} PROVE FALSE
  BY <1>1, <1>2
<1>4. PICK k \in K : \A n \in K : k <= n
  <2>1. K \in SUBSET Nat
    BY <1>1
  <2> HIDE DEF K
  <2>2. QED
    BY <1>3, <2>1, LeastOf
<1>5. k # 0 /\ k \in 0..Len(s)
  BY <1>2 DEF Course
<1>6. k \in 1..Len(s) /\ k - 1 \in 0..Len(s) /\ ~(k <= k - 1)
  BY <1>1, <1>5
<1>7. h[k - 1] \in J
  BY <1>4, <1>6
<1>8. h[k] = After(h[k - 1], s[k]) /\ h[k - 1] \in Chat
  BY <1>2, <1>6 DEF Course
<1>9. QED
  BY <1>6, <1>7, <1>8

\* What a handler that is sending still has to send, and all that the dashboard is to
\* receive if nothing else happens.
Backlog ==
    IF Replaying = {} THEN <<>> ELSE Sent(resume[CHOOSE h \in Replaying : TRUE].todo)
Coming == wire \o Backlog

\* The messages of a log are those of its parts.
LEMMA SentConcat ==
    ASSUME NEW a \in Seq(Entry), NEW b \in Seq(Entry)
    PROVE  Sent(a \o b) = Sent(a) \o Sent(b)
<1>1. Len(a) \in Nat /\ Len(b) \in Nat
  BY LenProperties
<1>2. /\ a \o b \in Seq(Entry) /\ Len(a \o b) = Len(a) + Len(b)
      /\ \A i \in 1..(Len(a) + Len(b)) : (a \o b)[i] = IF i <= Len(a) THEN a[i] ELSE b[i - Len(a)]
  BY ConcatProperties
<1> DEFINE msg(e) == [k |-> e.k, ids |-> e.ids]
<1>3. /\ Sent(a) \in Seq(Message) /\ Len(Sent(a)) = Len(a)
      /\ \A i \in 1..Len(a) : Sent(a)[i] = msg(a[i])
  BY SentType
<1>4. /\ Sent(b) \in Seq(Message) /\ Len(Sent(b)) = Len(b)
      /\ \A i \in 1..Len(b) : Sent(b)[i] = msg(b[i])
  BY SentType
<1> DEFINE ab == a \o b
<1>a. ab \in Seq(Entry)
  BY <1>2
<1>b. Len(ab) = Len(a) + Len(b) /\ \A i \in 1..(Len(a) + Len(b)) : ab[i] = IF i <= Len(a) THEN a[i] ELSE b[i - Len(a)]
  BY <1>2
<1> HIDE DEF ab
<1>5. /\ Sent(ab) \in Seq(Message) /\ Len(Sent(ab)) = Len(ab)
      /\ \A i \in 1..Len(ab) : Sent(ab)[i] = msg(ab[i])
  BY <1>a, SentType
<1> HIDE DEF msg
<1> DEFINE sa == Sent(a)
           sb == Sent(b)
<1>c. sa \in Seq(Message) /\ sb \in Seq(Message)
  BY <1>3, <1>4
<1> HIDE DEF sa, sb
<1>6. /\ sa \o sb \in Seq(Message) /\ Len(sa \o sb) = Len(sa) + Len(sb)
      /\ \A i \in 1..(Len(sa) + Len(sb)) : (sa \o sb)[i] = IF i <= Len(sa) THEN sa[i] ELSE sb[i - Len(sa)]
  BY <1>c, ConcatProperties
<1>7. ASSUME NEW i \in 1..Len(Sent(ab)) PROVE Sent(ab)[i] = (sa \o sb)[i]
  <2>0. i \in 1..(Len(a) + Len(b)) /\ Len(sa) = Len(a) /\ Len(sb) = Len(b)
    BY <1>b, <1>3, <1>4, <1>5 DEF sa, sb
  <2>1. CASE i <= Len(a)
    <3>1. i \in 1..Len(a)
      BY <1>1, <2>0, <2>1
    <3>2. QED
      BY <1>b, <1>3, <1>5, <1>6, <2>0, <2>1, <3>1 DEF sa
  <2>2. CASE ~(i <= Len(a))
    <3>1. i - Len(a) \in 1..Len(b)
      BY <1>1, <2>0, <2>2
    <3>2. QED
      BY <1>b, <1>4, <1>5, <1>6, <2>0, <2>2, <3>1 DEF sb
  <2>3. QED
    BY <2>1, <2>2
<1>8. Len(Sent(ab)) = Len(sa \o sb)
  BY <1>b, <1>3, <1>4, <1>5, <1>6 DEF sa, sb
<1>9. Sent(ab) = sa \o sb
  BY <1>5, <1>6, <1>7, <1>8, SeqEqual
<1>10. QED
  BY <1>9 DEF ab, sa, sb

\* What is sent in one go and what is left are all of it.
LEMMA SentParts ==
    ASSUME NEW todo \in Seq(Entry), NEW n \in 0..Len(todo)
    PROVE  /\ SubSeq(todo, 1, n) \in Seq(Entry) /\ SubSeq(todo, n + 1, Len(todo)) \in Seq(Entry)
           /\ Sent(todo) = Sent(SubSeq(todo, 1, n)) \o Sent(SubSeq(todo, n + 1, Len(todo)))
<1>1. Len(todo) \in Nat
  BY LenProperties
<1>2. /\ 1 \in Int /\ n \in Int /\ n + 1 \in Int /\ Len(todo) \in Int
      /\ 1 \in 1..(Len(todo) + 1) /\ n \in (1 - 1)..Len(todo) /\ Len(todo) \in n..Len(todo)
  BY <1>1
<1>3. (\A i \in 1..n : todo[i] \in Entry) /\ \A i \in (n + 1)..Len(todo) : todo[i] \in Entry
  BY <1>1, ElementOfSeq
<1>4. SubSeq(todo, 1, n) \in Seq(Entry) /\ SubSeq(todo, n + 1, Len(todo)) \in Seq(Entry)
  BY <1>2, <1>3, SubSeqProperties
<1>5. SubSeq(todo, 1, n) \o SubSeq(todo, n + 1, Len(todo)) = SubSeq(todo, 1, Len(todo))
  BY <1>2, ConcatAdjacentSubSeq
<1>6. SubSeq(todo, 1, Len(todo)) = todo
  BY SubSeqFull
<1> DEFINE a == SubSeq(todo, 1, n)
           b == SubSeq(todo, n + 1, Len(todo))
<1>7. a \in Seq(Entry) /\ b \in Seq(Entry) /\ todo = a \o b
  BY <1>4, <1>5, <1>6
<1> HIDE DEF a, b
<1>8. Sent(todo) = Sent(a) \o Sent(b)
  BY <1>7, SentConcat
<1>9. QED
  BY <1>7, <1>8 DEF a, b

\* An empty log sends nothing.
LEMMA SentNothing == Sent(<<>>) = <<>>
<1>1. Len(Sent(<<>>)) = 0 /\ Sent(<<>>) \in Seq(Message)
  BY SentType, EmptySeq
<1>2. QED
  BY <1>1, EmptySeq

\* What is coming are messages.
LEMMA ComingType ==
    ASSUME TypeOK
    PROVE  Backlog \in Seq(Message) /\ Coming \in Seq(Message) /\ wire \in Seq(Message)
           /\ (Replaying = {} => Coming = wire)
<1>1. wire \in Seq(Message)
  BY DEF TypeOK
<1>2. CASE Replaying = {}
  <2>1. Backlog = <<>> /\ <<>> \in Seq(Message)
    BY <1>2 DEF Backlog
  <2>2. QED
    BY <1>1, <2>1, ConcatEmptySeq DEF Coming
<1>3. CASE Replaying # {}
  <2> DEFINE h == CHOOSE h \in Replaying : TRUE
  <2>1. h \in Resumes
    BY <1>3 DEF Replaying
  <2>2. Backlog = Sent(resume[h].todo)
    BY <1>3 DEF Backlog
  <2> HIDE DEF h
  <2>3. resume[h].todo \in Seq(Entry)
    BY <2>1 DEF TypeOK
  <2>4. Backlog \in Seq(Message)
    BY <2>2, <2>3, SentType
  <2>5. QED
    BY <1>1, <1>3, <2>4, ConcatProperties DEF Coming
<1>4. QED
  BY <1>2, <1>3

\* Concatenation of three sequences, from the left and from the right.
Joined(s, t, u) == (s \o t) \o u = s \o (t \o u)

\* They are the same.
LEMMA ConcatThree ==
    ASSUME NEW S, NEW s \in Seq(S), NEW t \in Seq(S), NEW u \in Seq(S)
    PROVE  Joined(s, t, u)
  BY ConcatAssociative DEF Joined

\* Concatenation of four sequences, from the left and from the right.
Glued(w, x, a, b) == ((w \o x) \o a) \o b = w \o (x \o (a \o b))

\* They are the same.
LEMMA ConcatFour ==
    ASSUME NEW S, NEW w \in Seq(S), NEW x \in Seq(S), NEW a \in Seq(S), NEW b \in Seq(S)
    PROVE  Glued(w, x, a, b)
<1> DEFINE y == w \o x
           z == a \o b
<1>1. y \in Seq(S) /\ z \in Seq(S)
  BY ConcatProperties
<1>2. y = w \o x /\ z = a \o b
  OBVIOUS
<1> HIDE DEF y, z
<1>3. Joined(y, a, b)
  BY <1>1, ConcatThree
<1>4. Joined(w, x, z)
  BY <1>1, ConcatThree
<1>5. (y \o a) \o b = y \o z
  BY <1>2, <1>3 DEF Joined
<1>6. y \o z = w \o (x \o z)
  BY <1>2, <1>4 DEF Joined
<1>7. QED
  BY <1>2, <1>5, <1>6 DEF Glued

\* A handler that sends moves its entries from the backlog to the wire.
LEMMA ComingSent ==
    ASSUME TypeInv, NEW h \in Resumes, NEW todo \in Seq(Entry), NEW n \in 0..Len(todo),
           NEW before \in Seq(Message), Sends(h, todo, n, before), \A g \in Replaying : g = h
    PROVE  Coming' = wire \o (before \o Sent(todo)) /\ \A g \in Replaying' : g = h
<1> DEFINE now == SubSeq(todo, 1, n)
           rest == SubSeq(todo, n + 1, Len(todo))
<1>1. now \in Seq(Entry) /\ rest \in Seq(Entry) /\ Sent(todo) = Sent(now) \o Sent(rest)
  BY SentParts
<1>2. wire' = wire \o before \o Sent(now)
  BY DEF Sends
<1>3. resume' = [resume EXCEPT ![h] = IF n = Len(todo) THEN Idle ELSE [step |-> "sending", todo |-> rest]]
  BY DEF Sends
<1>4. DOMAIN resume = Resumes
  BY DEF TypeInv, TypeOK
<1>5. Len(todo) \in Nat
  BY LenProperties
<1>6. n = Len(todo) => rest = <<>>
  BY <1>5, SubSeqEmpty
<1> HIDE DEF now, rest
<1>7. \A g \in Replaying' : g = h
  BY <1>3, <1>4 DEF Replaying
<1>8. Backlog' = Sent(rest)
  <2>1. CASE n = Len(todo)
    <3>1. Replaying' = {}
      BY <1>3, <1>4, <1>7, <2>1 DEF Replaying, Idle
    <3>2. QED
      BY <1>6, <2>1, <3>1, SentNothing DEF Backlog
  <2>2. CASE n # Len(todo)
    <3>1. Replaying' = {h}
      BY <1>3, <1>4, <1>7, <2>2 DEF Replaying
    <3>2. (CHOOSE g \in Replaying' : TRUE) = h
      BY <3>1
    <3>3. resume'[h].todo = rest
      BY <1>3, <1>4, <2>2
    <3>4. QED
      BY <3>1, <3>2, <3>3 DEF Backlog
  <2>3. QED
    BY <2>1, <2>2
<1>9. wire \in Seq(Message) /\ Sent(now) \in Seq(Message) /\ Sent(rest) \in Seq(Message)
  BY <1>1, SentType DEF TypeInv, TypeOK
<1> DEFINE a == Sent(now)
           b == Sent(rest)
<1>10. a \in Seq(Message) /\ b \in Seq(Message)
  BY <1>9
<1> HIDE DEF a, b
<1>11. ((wire \o before) \o a) \o b = wire \o (before \o (a \o b))
  <2>1. wire \in Seq(Message) /\ before \in Seq(Message)
    BY <1>9
  <2>2. Glued(wire, before, a, b)
    BY <1>10, <2>1, ConcatFour
  <2>3. QED
    BY <2>2 DEF Glued
<1>12. QED
  BY <1>1, <1>2, <1>7, <1>8, <1>11 DEF Coming, a, b

-----------------------------------------------------------------------------
(* The running text.                                                          *)

Ends(f) == {f[i].id : i \in {j \in DOMAIN f : f[j].k = "turn.done"}}
EndsInText(f) == f # <<>> /\ f[Len(f)].k = "text"
\* Two texts in a row: what a poll wrote, and the rest of the same text.
Torn(f) == \E i \in 1..Len(f) : i < Len(f) /\ f[i].k = "text" /\ f[i + 1].k = "text"

\* The ends of turns in the file, under the name the property has for them.
LEMMA TurnEndsAre == TurnEnds = Ends(file)
  BY DEF TurnEnds, Ends

\* One more entry.
LEMMA LogGrows ==
    ASSUME NEW f \in Seq(Entry), NEW e \in Entry
    PROVE  LET g == Append(f, e) IN
           /\ g \in Seq(Entry) /\ g # <<>> /\ g[Len(g)] = e
           /\ Held(g) = Held(f) \cup Ids(e)
           /\ Ends(g) = Ends(f) \cup (IF e.k = "turn.done" THEN {e.id} ELSE {})
           /\ EndsInText(g) <=> e.k = "text"
           /\ Torn(f) \/ (EndsInText(f) /\ e.k = "text") => Torn(g)
<1> DEFINE g == Append(f, e)
<1>1. /\ g \in Seq(Entry) /\ g # <<>> /\ Len(g) = Len(f) + 1 /\ Len(f) \in Nat
      /\ DOMAIN f = 1..Len(f) /\ DOMAIN g = 1..(Len(f) + 1)
      /\ \A i \in 1..Len(f) : g[i] = f[i]
      /\ g[Len(f) + 1] = e
  BY AppendProperties, LenProperties
<1>2. \A i \in DOMAIN f : i \in DOMAIN g /\ g[i] = f[i]
  BY <1>1
<1>3. Len(f) + 1 \in DOMAIN g /\ g[Len(f) + 1] = e
  BY <1>1
<1>4. \A i \in DOMAIN g : i \in DOMAIN f \/ i = Len(f) + 1
  BY <1>1
<1> HIDE DEF g
<1>5. Held(g) = Held(f) \cup Ids(e)
  <2>1. Held(f) \cup Ids(e) \subseteq Held(g)
    BY <1>2, <1>3 DEF Held
  <2>2. Held(g) \subseteq Held(f) \cup Ids(e)
    BY <1>2, <1>3, <1>4 DEF Held
  <2>3. QED
    BY <2>1, <2>2
<1>6. Ends(g) = Ends(f) \cup (IF e.k = "turn.done" THEN {e.id} ELSE {})
  <2>1. Ends(f) \cup (IF e.k = "turn.done" THEN {e.id} ELSE {}) \subseteq Ends(g)
    BY <1>2, <1>3 DEF Ends
  <2>2. Ends(g) \subseteq Ends(f) \cup (IF e.k = "turn.done" THEN {e.id} ELSE {})
    BY <1>2, <1>3, <1>4 DEF Ends
  <2>3. QED
    BY <2>1, <2>2
<1>7. EndsInText(g) <=> e.k = "text"
  BY <1>1 DEF EndsInText
<1>8. ASSUME Torn(f) PROVE Torn(g)
  <2>1. PICK i \in 1..Len(f) : i < Len(f) /\ f[i].k = "text" /\ f[i + 1].k = "text"
    BY <1>8 DEF Torn
  <2>2. i \in 1..Len(g) /\ i < Len(g) /\ i + 1 \in 1..Len(f)
    BY <1>1, <2>1
  <2>3. QED
    BY <1>1, <2>1, <2>2 DEF Torn
<1>9. ASSUME EndsInText(f), e.k = "text" PROVE Torn(g)
  <2>1. Len(f) # 0
    BY <1>9, EmptySeq DEF EndsInText
  <2>2. Len(f) \in 1..Len(g) /\ Len(f) < Len(g) /\ Len(f) \in 1..Len(f)
    BY <1>1, <2>1
  <2>3. QED
    BY <1>1, <1>9, <2>2 DEF Torn, EndsInText
<1>10. QED
  BY <1>1, <1>3, <1>5, <1>6, <1>7, <1>8, <1>9 DEF g

\* What one more entry adds to what the log holds.
LEMMA HeldGrows ==
    ASSUME NEW f \in Seq(Entry), NEW e \in Entry
    PROVE  Held(Append(f, e)) = Held(f) \cup Ids(e)
  BY LogGrows

\* and to the turns it has seen the end of.
LEMMA EndsGrow ==
    ASSUME NEW f \in Seq(Entry), NEW e \in Entry
    PROVE  /\ Ends(f) \subseteq Ends(Append(f, e))
           /\ e.k = "turn.done" => e.id \in Ends(Append(f, e))
<1>1. Ends(Append(f, e)) = Ends(f) \cup (IF e.k = "turn.done" THEN {e.id} ELSE {})
  BY LogGrows
<1>2. QED
  BY <1>1

\* What flushTokens writes.
LEMMA FlushWritten ==
    ASSUME TypeOK
    PROVE  /\ file \o Flushed \in Seq(Entry) /\ file \in Seq(Entry)
           /\ buffer = {} => file \o Flushed = file
           /\ buffer # {} => \E e \in Entry : /\ e.k = "text" /\ e.ids = buffer /\ Ids(e) = buffer
                                              /\ file \o Flushed = Append(file, e)
<1>1. file \in Seq(Entry) /\ Flushed \in Seq(Entry)
  BY FlushedType DEF TypeOK
<1>2. file \o Flushed \in Seq(Entry)
  BY <1>1, ConcatProperties
<1>3. ASSUME buffer = {} PROVE file \o Flushed = file
  <2>1. Flushed = <<>>
    BY <1>3 DEF Flushed
  <2>2. QED
    BY <1>1, <2>1, ConcatEmptySeq
<1>4. ASSUME buffer # {}
      PROVE  \E e \in Entry : /\ e.k = "text" /\ e.ids = buffer /\ Ids(e) = buffer
                              /\ file \o Flushed = Append(file, e)
  <2> DEFINE e == [seq |-> counter + 1, k |-> "text", id |-> Newest(buffer), ids |-> buffer]
  <2>1. Flushed = <<e>> /\ e.k = "text" /\ e.ids = buffer /\ Ids(e) = buffer
    BY <1>4 DEF Flushed, Ids
  <2> HIDE DEF e
  <2>2. e \in Entry
    <3>1. Len(<<e>>) = 1 /\ <<e>>[1] = e /\ 1 \in 1..1
      OBVIOUS
    <3>2. QED
      BY <1>1, <2>1, <3>1, ElementOfSeq
  <2>3. file \o <<e>> = Append(file, e)
    BY <1>1, <2>2, AppendIsConcat
  <2>4. QED
    BY <2>1, <2>2, <2>3
<1>5. QED
  BY <1>1, <1>2, <1>3, <1>4

\* What that adds to the log: the buffered tokens, and no end of a turn.
LEMMA FlushHolds ==
    ASSUME TypeOK
    PROVE  /\ file \o Flushed \in Seq(Entry)
           /\ Held(file \o Flushed) = Held(file) \cup buffer
           /\ Ends(file) \subseteq Ends(file \o Flushed)
<1>1. file \o Flushed \in Seq(Entry) /\ file \in Seq(Entry)
  BY FlushWritten
<1>2. CASE buffer = {}
  <2>1. file \o Flushed = file
    BY <1>2, FlushWritten
  <2>2. QED
    BY <1>1, <1>2, <2>1
<1>3. CASE buffer # {}
  <2>1. PICK e \in Entry : Ids(e) = buffer /\ file \o Flushed = Append(file, e)
    BY <1>3, FlushWritten
  <2>2. Held(Append(file, e)) = Held(file) \cup buffer
    BY <1>1, <2>1, HeldGrows
  <2>3. Ends(file) \subseteq Ends(Append(file, e))
    BY <1>1, EndsGrow
  <2>4. QED
    BY <1>1, <2>1, <2>2, <2>3
<1>4. QED
  BY <1>2, <1>3

\* What append writes behind it for an event that is not a token.
WritesLast(e, k, ids) ==
    /\ e.k = k /\ e.id = emitted + 1 /\ e.ids = ids /\ Ids(e) = {emitted + 1}
    /\ file \o Logged(k, ids) = Append(file \o Flushed, e)
    /\ Logged(k, ids)[Len(Logged(k, ids))] = e
\* It is one entry, behind the flushed ones.
LEMMA LogWritten ==
    ASSUME TypeOK, emitted < MaxEvents, NEW k \in {"tool", "turn.done"}, NEW ids \in SUBSET Events
    PROVE  \E e \in Entry : WritesLast(e, k, ids)
<1> DEFINE e == [seq |-> counter + Len(Flushed) + 1, k |-> k, id |-> emitted + 1, ids |-> ids]
           L == Logged(k, ids)
<1>1. L \in Seq(Entry) /\ L # <<>> /\ L[Len(L)] = e
  BY LoggedType
<1>2. e.k = k /\ e.id = emitted + 1 /\ e.ids = ids /\ Ids(e) = {emitted + 1}
  BY DEF Ids
<1>3. L = Append(Flushed, e)
  BY DEF Logged
<1> HIDE DEF e, L
<1>4. e \in Entry
  <2>1. Len(L) \in Nat \ {0}
    BY <1>1, EmptySeq
  <2>2. Len(L) \in 1..Len(L)
    BY <2>1
  <2>3. QED
    BY <1>1, <2>2, ElementOfSeq
<1>5. file \in Seq(Entry) /\ Flushed \in Seq(Entry) /\ file \o Flushed \in Seq(Entry)
  BY FlushWritten, FlushedType
<1>6. file \o Append(Flushed, e) = Append(file \o Flushed, e)
  <2> DEFINE f == file \o Flushed
  <2>1. Append(Flushed, e) = Flushed \o <<e>> /\ <<e>> \in Seq(Entry)
    BY <1>4, <1>5, AppendIsConcat
  <2>2. file \o (Flushed \o <<e>>) = f \o <<e>>
    BY <1>5, <2>1, ConcatAssociative
  <2>3. f \in Seq(Entry)
    BY <1>5
  <2> HIDE DEF f
  <2>4. Append(f, e) = f \o <<e>>
    BY <1>4, <2>3, AppendIsConcat
  <2>5. QED
    BY <2>1, <2>2, <2>4 DEF f
<1>7. QED
  BY <1>1, <1>2, <1>3, <1>4, <1>6 DEF L, WritesLast

\* Where the running text is: buffered, whole or behind a part that a poll wrote, or, when
\* nothing is buffered, at the end of the file.
TurnInv ==
    /\ buffer # {} => emitted \in final /\ buffer \subseteq final
    /\ final \subseteq Held(file) \cup buffer
    /\ buffer = {} /\ emitted \in final => EndsInText(file)
    /\ buffer # {} /\ buffer # final => EndsInText(file)
    /\ \A e \in signing : e.id <= emitted /\ e.ids \subseteq 1..emitted

\* Nothing is held that was not emitted.
LEMMA TurnBelow ==
    ASSUME LogInv, TurnInv
    PROVE  /\ emitted \in Nat /\ emitted + 1 \notin 1..emitted
           /\ 1..(emitted + 1) = 1..emitted \cup {emitted + 1}
           /\ Held(file) \subseteq 1..emitted /\ buffer \subseteq 1..emitted
           /\ final \subseteq 1..emitted /\ Held(file) \cup buffer \cup lost = 1..emitted
<1>1. Held(file) \cup buffer \cup lost = 1..emitted /\ emitted \in Nat
  BY OrderParts DEF LogInv, LogTypes
<1>2. QED
  BY <1>1 DEF TurnInv

\* The ends of turns still to be sent were emitted.
LEMMA SigningBelow ==
    ASSUME TypeInv, TurnInv, NEW x \in signing
    PROVE  x.id <= emitted /\ x.ids \subseteq 1..emitted /\ x.id \in Int
<1>1. x \in Entry
  BY DEF TypeInv, TypeOK
<1>2. x.id \in Int
  BY <1>1 DEF Entry, Events
<1>3. QED
  BY <1>2 DEF TurnInv

\* What Connects, Disconnects and the like leave alone.
LEMMA OtherSteps ==
    ASSUME [Next]_vars, ~Relays, ~SendsDone, ~Polls, ~Restarts
    PROVE  UNCHANGED <<emitted, final, buffer, file, signing, lost>>
  BY DEF Next, Resuming, ResumeArrives, Reads, SendsNext, Connects, Disconnects, Revisits, Receives,
         vars, logVars, serverVars, historyVars

\* Every step keeps what is remembered of the running text true of the log.
LEMMA TurnStep == ASSUME TypeInv, LogInv, TurnInv, [Next]_vars PROVE TurnInv'
<1>1. /\ emitted \in Nat /\ emitted + 1 \notin 1..emitted
      /\ 1..(emitted + 1) = 1..emitted \cup {emitted + 1}
      /\ Held(file) \subseteq 1..emitted /\ buffer \subseteq 1..emitted /\ final \subseteq 1..emitted
  BY TurnBelow
<1>2. /\ file \o Flushed \in Seq(Entry) /\ file \in Seq(Entry)
      /\ buffer = {} => file \o Flushed = file
      /\ buffer # {} => \E e \in Entry : /\ e.k = "text" /\ e.ids = buffer /\ Ids(e) = buffer
                                         /\ file \o Flushed = Append(file, e)
  BY FlushWritten DEF TypeInv
<1>3. Held(file \o Flushed) = Held(file) \cup buffer
  BY FlushHolds DEF TypeInv
<1>4. CASE EmitsToken
  <2>1. /\ emitted' = emitted + 1 /\ buffer' = buffer \cup {emitted + 1} /\ file' = file
        /\ final' = (IF emitted \in final THEN final ELSE {}) \cup {emitted + 1}
        /\ signing' = signing
    BY <1>4 DEF EmitsToken, serverVars
  <2>2. buffer' # {} /\ emitted' \in final'
    BY <2>1
  <2>3. buffer' \subseteq final'
    BY <2>1 DEF TurnInv
  <2>4. final' \subseteq Held(file') \cup buffer'
    BY <2>1 DEF TurnInv
  <2>5. buffer' # final' => EndsInText(file')
    BY <1>1, <2>1 DEF TurnInv
  <2>6. \A e \in signing' : e.id <= emitted' /\ e.ids \subseteq 1..emitted'
    <3>1. TAKE e \in signing'
    <3>2. e.id <= emitted /\ e.ids \subseteq 1..emitted /\ e.id \in Int
      BY <2>1, SigningBelow
    <3>3. QED
      BY <1>1, <2>1, <3>2
  <2>7. QED
    BY <2>2, <2>3, <2>4, <2>5, <2>6 DEF TurnInv
<1>5. CASE EmitsTool
  <2>1. /\ emitted' = emitted + 1 /\ buffer' = {} /\ file' = file \o Logged("tool", {emitted + 1})
        /\ final' = final /\ signing' = signing /\ emitted < MaxEvents
    BY <1>5 DEF EmitsTool, Writes, serverVars
  <2>2. {emitted + 1} \in SUBSET Events
    BY <1>1, <2>1, BoundsAssumption DEF Events
  <2>a. PICK e \in Entry : WritesLast(e, "tool", {emitted + 1})
    BY <2>1, <2>2, LogWritten DEF TypeInv
  <2>3. file' = Append(file \o Flushed, e)
    BY <2>1, <2>a DEF WritesLast
  <2>4. Held(file') = Held(file \o Flushed) \cup Ids(e)
    BY <1>2, <2>3, HeldGrows
  <2>5. final' \subseteq Held(file') \cup buffer'
    BY <1>3, <2>1, <2>4 DEF TurnInv
  <2>6. emitted' \notin final'
    BY <1>1, <2>1
  <2>7. \A x \in signing' : x.id <= emitted' /\ x.ids \subseteq 1..emitted'
    <3>1. TAKE x \in signing'
    <3>2. x.id <= emitted /\ x.ids \subseteq 1..emitted /\ x.id \in Int
      BY <2>1, SigningBelow
    <3>3. QED
      BY <1>1, <2>1, <3>2
  <2>8. QED
    BY <2>1, <2>5, <2>6, <2>7 DEF TurnInv
<1>6. CASE EmitsDone
  <2> DEFINE L == Logged("turn.done", final)
  <2>1. /\ emitted' = emitted + 1 /\ buffer' = {} /\ emitted < MaxEvents
        /\ final' = {} /\ signing' = signing \cup {L[Len(L)]}
    BY <1>6 DEF EmitsDone, Writes
  <2>a. TypeOK /\ final \in SUBSET Events
    BY DEF TypeInv, TypeOK
  <2>b. PICK e \in Entry : WritesLast(e, "turn.done", final)
    BY <2>1, <2>a, LogWritten
  <2>2. e.id = emitted + 1 /\ e.ids = final /\ L[Len(L)] = e
    BY <2>b DEF WritesLast
  <2> HIDE DEF L
  <2>3. \A x \in signing' : x.id <= emitted' /\ x.ids \subseteq 1..emitted'
    <3>1. TAKE x \in signing'
    <3>2. CASE x = e
      <4>1. x.id <= emitted'
        BY <1>1, <2>1, <2>2, <3>2
      <4>2. final \subseteq 1..emitted'
        BY <1>1, <2>1
      <4>3. QED
        BY <2>2, <3>2, <4>1, <4>2
    <3>3. CASE x \in signing
      <4>1. x.id <= emitted /\ x.ids \subseteq 1..emitted /\ x.id \in Int
        BY <3>3, SigningBelow
      <4>2. QED
        BY <1>1, <2>1, <4>1
    <3>4. QED
      BY <2>1, <2>2, <3>2, <3>3
  <2>4. QED
    BY <2>1, <2>3 DEF TurnInv
<1>7. CASE SendsDone
  <2>1. UNCHANGED <<emitted, final, buffer, file>> /\ signing' \subseteq signing
    BY <1>7 DEF SendsDone, logVars
  <2>2. QED
    BY <2>1 DEF TurnInv
<1>8. CASE Polls
  <2>1. /\ UNCHANGED <<emitted, final, signing>> /\ buffer' = {} /\ file' = file \o Flushed
    BY <1>8 DEF Polls, Writes, serverVars
  <2>2. final' \subseteq Held(file') \cup buffer'
    BY <1>3, <2>1 DEF TurnInv
  <2>3. emitted' \in final' => EndsInText(file')
    <3>1. CASE buffer = {}
      BY <1>2, <2>1, <3>1 DEF TurnInv
    <3>2. CASE buffer # {}
      BY <1>2, <2>1, <3>2, LogGrows
    <3>3. QED
      BY <3>1, <3>2
  <2>4. QED
    BY <2>1, <2>2, <2>3 DEF TurnInv
<1>9. CASE Restarts
  BY <1>9 DEF Restarts, TurnInv
<1>10. CASE UNCHANGED <<emitted, final, buffer, file, signing, lost>>
  BY <1>10 DEF TurnInv
<1>11. QED
  BY <1>4, <1>5, <1>6, <1>7, <1>8, <1>9, <1>10, OtherSteps DEF Relays

-----------------------------------------------------------------------------
(* Handlers and the wire.                                                     *)

\* One replay at a time, unless the last to begin found another one.
Alone == ~disturbed => \A g, h \in Replaying : g = h
\* Whoever waits for a replay or has had one hears what happens.
Hearing ==
    /\ \A h \in Resumes : resume[h].step # "idle" => subscribed
    /\ connected /\ synced => subscribed
ChatInv == chat.target = 0 => chat.stream = {}
\* While the file is empty there was nothing but tokens of the running text.
EmptyInv ==
    file = <<>> =>
      /\ \A i \in 1..Len(wire) : wire[i].k = "token" /\ wire[i].ids \subseteq final
      /\ signing = {} /\ \A h \in Resumes : resume[h].todo = <<>>

\* A handler that has read the file sends from its beginning, after a replay_start if there is anything.
LEMMA ReadsSends ==
    ASSUME TypeInv, NEW h \in Resumes, Reads(h)
    PROVE  \E n \in 0..Len(file), before \in Seq(Message) :
             /\ Sends(h, file, n, before) /\ file \in Seq(Entry)
             /\ file = <<>> => before = <<>>
             /\ file # <<>> => before = <<[k |-> "replay_start", ids |-> {}]>>
<1> DEFINE m == [k |-> "replay_start", ids |-> {}]
           before == IF file = <<>> THEN <<>> ELSE <<m>>
<1>1. file \in Seq(Entry)
  BY DEF TypeInv, TypeOK
<1>2. Burst(file) \in 0..Len(file)
  BY <1>1, BurstType
<1>3. m \in Message
  BY DEF Message
<1>4. Sends(h, file, Burst(file), before)
  BY DEF Reads
<1> HIDE DEF m
<1>5. before \in Seq(Message)
  BY <1>3
<1>6. (file = <<>> => before = <<>>) /\ (file # <<>> => before = <<m>>)
  OBVIOUS
<1> HIDE DEF before
<1>7. QED
  BY <1>1, <1>2, <1>4, <1>5, <1>6 DEF m

\* A handler that goes on sends the next burst of what is left.
LEMMA SendsNextSends ==
    ASSUME TypeInv, NEW h \in Resumes, SendsNext(h)
    PROVE  /\ h \in Replaying /\ resume[h].todo \in Seq(Entry) /\ resume[h].todo # <<>>
           /\ \E n \in 0..Len(resume[h].todo) : Sends(h, resume[h].todo, n, <<>>)
<1> DEFINE todo == resume[h].todo
           n == 1 + Burst(Tail(todo))
<1>1. resume[h].step = "sending" /\ Sends(h, todo, n, <<>>)
  BY DEF SendsNext
<1>2. h \in Replaying /\ todo \in Seq(Entry) /\ todo # <<>>
  BY <1>1 DEF Replaying, TypeInv, TypeOK, Sending
<1> HIDE DEF todo
<1>3. Tail(todo) \in Seq(Entry) /\ Len(Tail(todo)) = Len(todo) - 1 /\ Len(todo) \in Nat \ {0}
  BY <1>2, HeadTailProperties, EmptySeq
<1>4. Burst(Tail(todo)) \in 0..Len(Tail(todo))
  BY <1>3, BurstType
<1>5. n \in 0..Len(todo)
  BY <1>3, <1>4
<1> HIDE DEF n
<1>6. QED
  BY <1>1, <1>2, <1>5 DEF todo

\* A connection that drops leaves nothing under way.
LEMMA DropClears ==
    ASSUME Drop
    PROVE  connected' = FALSE /\ wire' = <<>> /\ Replaying' = {} /\ subscribed' = FALSE
           /\ \A h \in Resumes : resume'[h].step = "idle" /\ resume'[h].todo = <<>>
  BY DEF Drop, Idle, Replaying

\* Unless disturbed, one handler at most is sending.
LEMMA AloneStep == ASSUME TypeInv, Alone, [Next]_vars PROVE Alone'
<1>1. CASE resume' = resume /\ (~disturbed' => ~disturbed)
  BY <1>1 DEF Alone, Replaying
<1>2. CASE Drop
  BY <1>2, DropClears DEF Alone
<1>3. ASSUME NEW h \in Resumes, ResumeArrives(h) PROVE Alone'
  <2>1. disturbed' = disturbed /\ resume' = [resume EXCEPT ![h].step = "waking"]
    BY <1>3 DEF ResumeArrives, historyVars
  <2>2. Replaying' \subseteq Replaying
    BY <2>1 DEF Replaying, TypeInv, TypeOK
  <2>3. QED
    BY <2>1, <2>2 DEF Alone
<1>4. ASSUME NEW h \in Resumes, Reads(h) PROVE Alone'
  <2>1. SUFFICES ASSUME ~disturbed' PROVE \A g \in Replaying' : g = h
    BY DEF Alone
  <2>2. Replaying = {}
    BY <1>4, <2>1 DEF Reads
  <2>3. QED
    BY <1>4, <2>2, ReadsSends, ComingSent
<1>5. ASSUME NEW h \in Resumes, SendsNext(h) PROVE Alone'
  <2>1. SUFFICES ASSUME ~disturbed' PROVE \A g \in Replaying' : g = h
    BY DEF Alone
  <2>2. ~disturbed
    BY <1>5, <2>1 DEF SendsNext, historyVars
  <2>3. h \in Replaying /\ \A g \in Replaying : g = h
    BY <1>5, <2>2, SendsNextSends DEF Alone
  <2>4. <<>> \in Seq(Message)
    BY EmptySeq
  <2>5. QED
    BY <1>5, <2>3, <2>4, SendsNextSends, ComingSent
<1>6. CASE EmitsToken \/ EmitsTool \/ EmitsDone \/ SendsDone
  BY <1>1, <1>6 DEF EmitsToken, EmitsTool, EmitsDone, SendsDone, ToSession, serverVars, historyVars
<1>7. CASE Connects \/ Revisits \/ Receives \/ Polls \/ UNCHANGED vars
  BY <1>1, <1>7 DEF Connects, Revisits, Receives, Polls, serverVars, historyVars, vars
<1>8. QED
  BY <1>2, <1>3, <1>4, <1>5, <1>6, <1>7 DEF Next, Relays, Resuming, Disconnects, Restarts

\* A synced dashboard is subscribed.
LEMMA HearingStep == ASSUME TypeInv, Hearing, [Next]_vars PROVE Hearing'
<1>1. CASE UNCHANGED <<resume, subscribed>> /\ (connected' /\ synced' => connected /\ synced)
  BY <1>1 DEF Hearing
<1>2. CASE Drop
  BY <1>2, DropClears DEF Hearing
<1>3. ASSUME NEW h \in Resumes, ResumeArrives(h) PROVE Hearing'
  BY <1>3 DEF ResumeArrives, Hearing
<1>4. ASSUME NEW h \in Resumes, Reads(h) \/ SendsNext(h) PROVE Hearing'
  <2>1. subscribed' = subscribed /\ resume[h].step # "idle"
    BY <1>4 DEF Reads, SendsNext
  <2>2. QED
    BY <2>1 DEF Hearing
<1>5. CASE EmitsToken \/ EmitsTool \/ EmitsDone \/ SendsDone
  BY <1>1, <1>5 DEF EmitsToken, EmitsTool, EmitsDone, SendsDone, serverVars, clientVars, historyVars
<1>6. CASE Connects \/ Revisits \/ Receives \/ Polls \/ UNCHANGED vars
  BY <1>1, <1>6 DEF Connects, Revisits, Receives, Polls, serverVars, clientVars, historyVars, vars
<1>7. QED
  BY <1>2, <1>3, <1>4, <1>5, <1>6 DEF Next, Relays, Resuming, Disconnects, Restarts

\* The streamed text goes to a message that is there.
LEMMA ChatStep == ASSUME TypeInv, ChatInv, [Next]_vars PROVE ChatInv'
<1>1. CASE chat' = chat
  BY <1>1 DEF ChatInv
<1>2. CASE Receives
  <2>1. wire # <<>> /\ chat' = After(chat, Head(wire))
    BY <1>2 DEF Receives
  <2>2. PICK m \in Message : chat' = After(chat, m)
    BY <2>1, HeadTailProperties DEF TypeInv, TypeOK
  <2>3. Len(chat.messages) \in Nat /\ chat \in [messages : Seq(SUBSET Events), stream : SUBSET Events,
                                                target : Nat, last : SUBSET Events]
    BY LenProperties DEF TypeInv, TypeOK
  <2>4. CASE m.k = "token"
    <3>1. chat' = OnToken(chat, m.ids)
      BY <2>2, <2>4 DEF After
    <3>2. chat'.target # 0
      BY <2>3, <3>1 DEF OnToken
    <3>3. QED
      BY <3>2 DEF ChatInv
  <2>5. CASE m.k = "text"
    BY <2>2, <2>3, <2>5 DEF After, OnText, ChatInv
  <2>6. CASE m.k \in {"tool", "turn.done", "replay_start"}
    BY <2>2, <2>3, <2>6 DEF After, OnTool, OnDone, OnReplayStart, ChatInv
  <2>7. QED
    BY <2>4, <2>5, <2>6 DEF Message
<1>3. CASE Revisits
  BY <1>3 DEF Revisits, ChatInv, TypeInv, TypeOK
<1>4. CASE EmitsToken \/ EmitsTool \/ EmitsDone \/ SendsDone \/ \E h \in Resumes : Resuming(h)
  BY <1>1, <1>4 DEF EmitsToken, EmitsTool, EmitsDone, SendsDone, Resuming, ResumeArrives, Reads, SendsNext,
                    clientVars
<1>5. CASE Connects \/ Disconnects \/ Polls \/ Restarts \/ UNCHANGED vars
  BY <1>1, <1>5 DEF Connects, Disconnects, Polls, Restarts, clientVars, vars
<1>6. QED
  BY <1>2, <1>3, <1>4, <1>5 DEF Next, Relays

\* Nothing but tokens is under way while the file is empty.
LEMMA EmptyStep == ASSUME TypeInv, LogInv, TurnInv, EmptyInv, [Next]_vars PROVE EmptyInv'
<1>1. CASE UNCHANGED <<file, final, wire, signing>> /\ \A h \in Resumes : resume'[h].todo = resume[h].todo
  BY <1>1 DEF EmptyInv
<1>2. CASE Drop /\ file' = file /\ signing' \subseteq signing
  <2>1. Len(<<>>) = 0 /\ 1..0 = {}
    OBVIOUS
  <2>2. QED
    BY <1>2, <2>1, DropClears DEF EmptyInv
<1>3. wire \in Seq(Message) /\ Len(wire) \in Nat
  BY LenProperties DEF TypeInv, TypeOK
<1>4. CASE EmitsToken
  <2>1. /\ file' = file /\ signing' = signing /\ resume' = resume
        /\ final' = (IF emitted \in final THEN final ELSE {}) \cup {emitted + 1}
        /\ wire' \in {wire, Append(wire, [k |-> "token", ids |-> {emitted + 1}])}
        /\ emitted < MaxEvents
    BY <1>4 DEF EmitsToken, ToSession, serverVars
  <2>2. SUFFICES ASSUME file = <<>>
                 PROVE  \A i \in 1..Len(wire') : wire'[i].k = "token" /\ wire'[i].ids \subseteq final'
    BY <2>1 DEF EmptyInv
  <2>3. final \subseteq final'
    <3>1. DOMAIN file = {}
      BY <2>2
    <3>2. Held(file) = {}
      BY <3>1 DEF Held
    <3>3. QED
      BY <2>1, <3>2 DEF TurnInv
  <2>4. \A i \in 1..Len(wire) : wire[i].k = "token" /\ wire[i].ids \subseteq final'
    BY <2>2, <2>3 DEF EmptyInv
  <2> DEFINE m == [k |-> "token", ids |-> {emitted + 1}]
  <2>5. m.k = "token" /\ m.ids \subseteq final' /\ m \in Message
    BY <2>1, BoundsAssumption DEF Message, TypeInv, TypeOK, Events
  <2> HIDE DEF m
  <2>6. \A i \in 1..Len(Append(wire, m)) : Append(wire, m)[i] = m \/ (i \in 1..Len(wire) /\ Append(wire, m)[i] = wire[i])
    BY <1>3, <2>5, AppendProperties
  <2>7. QED
    BY <2>1, <2>4, <2>5, <2>6 DEF m
<1>5. CASE EmitsTool \/ EmitsDone
  <2>1. /\ emitted < MaxEvents
        /\ \E k \in {"tool", "turn.done"}, ids \in SUBSET Events : file' = file \o Logged(k, ids)
    <3>1. CASE EmitsTool
      <4>1. emitted < MaxEvents /\ file' = file \o Logged("tool", {emitted + 1})
        BY <3>1 DEF EmitsTool, Writes
      <4>2. {emitted + 1} \in SUBSET Events
        BY <4>1, BoundsAssumption DEF TypeInv, TypeOK, Events
      <4>3. QED
        BY <4>1, <4>2
    <3>2. CASE EmitsDone
      <4>1. emitted < MaxEvents /\ file' = file \o Logged("turn.done", final)
        BY <3>2 DEF EmitsDone, Writes
      <4>2. final \in SUBSET Events
        BY DEF TypeInv, TypeOK
      <4>3. QED
        BY <4>1, <4>2
    <3>3. QED
      BY <1>5, <3>1, <3>2
  <2>2. PICK e \in Entry : file' = Append(file \o Flushed, e)
    BY <2>1, LogWritten DEF TypeInv, WritesLast
  <2>3. file' # <<>>
    BY <2>2, FlushWritten, LogGrows DEF TypeInv
  <2>4. QED
    BY <2>3 DEF EmptyInv
<1>6. CASE SendsDone
  BY <1>6 DEF SendsDone, EmptyInv, logVars
<1>7. ASSUME NEW h \in Resumes, ResumeArrives(h) PROVE EmptyInv'
  BY <1>1, <1>7 DEF ResumeArrives, logVars, TypeInv, TypeOK
<1>8. ASSUME NEW h \in Resumes, Reads(h) PROVE EmptyInv'
  <2>1. file' = file /\ final' = final /\ signing' = signing
    BY <1>8 DEF Reads, logVars
  <2>2. SUFFICES ASSUME file = <<>> PROVE wire' = wire /\ \A g \in Resumes : resume'[g].todo = <<>>
    BY <2>1 DEF EmptyInv
  <2>3. PICK n \in 0..Len(file) : Sends(h, file, n, <<>>)
    BY <1>8, <2>2, ReadsSends
  <2>4. Len(file) = 0 /\ n = 0
    BY <2>2, <2>3
  <2>5. SubSeq(file, 1, n) = <<>>
    BY <2>4, SubSeqEmpty
  <2>6. wire' = wire \o <<>> \o <<>>
    BY <2>3, <2>5, SentNothing DEF Sends
  <2>7. wire' = wire
    BY <1>3, <2>6, ConcatEmptySeq
  <2>8. resume' = [resume EXCEPT ![h] = Idle]
    BY <2>3, <2>4 DEF Sends
  <2>9. QED
    BY <2>2, <2>7, <2>8 DEF Idle, EmptyInv, TypeInv, TypeOK
<1>9. ASSUME NEW h \in Resumes, SendsNext(h) PROVE EmptyInv'
  <2>1. file' = file
    BY <1>9 DEF SendsNext, logVars
  <2>2. file # <<>>
    BY <1>9, SendsNextSends DEF EmptyInv
  <2>3. QED
    BY <2>1, <2>2 DEF EmptyInv
<1>10. CASE Receives
  <2>1. wire # <<>> /\ wire' = Tail(wire) /\ UNCHANGED <<file, final, signing, resume>>
    BY <1>10 DEF Receives, logVars, serverVars
  <2>2. /\ Len(Tail(wire)) = Len(wire) - 1
        /\ \A i \in 1..Len(Tail(wire)) : Tail(wire)[i] = wire[i + 1]
    BY <1>3, <2>1, HeadTailProperties
  <2>3. \A i \in 1..Len(Tail(wire)) : i + 1 \in 1..Len(wire)
    BY <1>3, <2>2
  <2>4. QED
    BY <2>1, <2>2, <2>3 DEF EmptyInv
<1>11. CASE Polls
  <2>1. UNCHANGED <<final, wire, signing, resume>> /\ file' = file \o Flushed
    BY <1>11 DEF Polls, Writes, serverVars
  <2>2. file' = file \/ file' # <<>>
    BY <2>1, FlushHolds DEF TypeInv
  <2>3. QED
    BY <2>1, <2>2 DEF EmptyInv
<1>12. CASE Connects \/ Revisits \/ UNCHANGED vars
  BY <1>1, <1>12 DEF Connects, Revisits, logVars, serverVars, vars
<1>13. CASE Disconnects
  BY <1>2, <1>13 DEF Disconnects, logVars
<1>14. CASE Restarts
  BY <1>2, <1>14 DEF Restarts
<1>15. QED
  BY <1>4, <1>5, <1>6, <1>7, <1>8, <1>9, <1>10, <1>11, <1>12, <1>13, <1>14 DEF Next, Relays, Resuming

-----------------------------------------------------------------------------
(* Replays of the file.                                                       *)

\* All that messages show; and their order, but for those that hold something late.
AllOf(ms) == UNION {ms[i] : i \in DOMAIN ms}
Ascending(ms, late) ==
    \A i, j \in DOMAIN ms : i < j /\ ms[j] \cap late = {} => Before(ms[i], ms[j])

\* A message more, behind all others.
LEMMA MessageAppended ==
    ASSUME NEW ms \in Seq(SUBSET Events), NEW x \in SUBSET Events
    PROVE  /\ Append(ms, x) \in Seq(SUBSET Events) /\ Len(Append(ms, x)) = Len(ms) + 1
           /\ Len(ms) \in Nat /\ Append(ms, x)[Len(ms) + 1] = x
           /\ AllOf(Append(ms, x)) = AllOf(ms) \cup x
           /\ \A late : /\ Ascending(ms, late)
                        /\ x \cap late = {} => Before(AllOf(ms), x)
                        => Ascending(Append(ms, x), late)
<1> DEFINE g == Append(ms, x)
<1>1. /\ g \in Seq(SUBSET Events) /\ Len(g) = Len(ms) + 1 /\ Len(ms) \in Nat
      /\ DOMAIN ms = 1..Len(ms) /\ DOMAIN g = 1..(Len(ms) + 1)
      /\ \A i \in 1..Len(ms) : g[i] = ms[i]
      /\ g[Len(ms) + 1] = x
  BY AppendProperties, LenProperties
<1> HIDE DEF g
<1>2. \A i \in DOMAIN g : (i \in DOMAIN ms /\ g[i] = ms[i]) \/ (i = Len(ms) + 1 /\ g[i] = x)
  BY <1>1
<1>3. (\A i \in DOMAIN ms : i \in DOMAIN g /\ g[i] = ms[i]) /\ Len(ms) + 1 \in DOMAIN g
  BY <1>1
<1>4. AllOf(g) = AllOf(ms) \cup x
  <2>1. AllOf(g) \subseteq AllOf(ms) \cup x
    BY <1>2 DEF AllOf
  <2>2. AllOf(ms) \cup x \subseteq AllOf(g)
    BY <1>1, <1>3 DEF AllOf
  <2>3. QED
    BY <2>1, <2>2
<1>5. ASSUME NEW late, Ascending(ms, late), x \cap late = {} => Before(AllOf(ms), x)
      PROVE  Ascending(g, late)
  <2>1. SUFFICES ASSUME NEW i \in DOMAIN g, NEW j \in DOMAIN g, i < j, g[j] \cap late = {}
                 PROVE  Before(g[i], g[j])
    BY DEF Ascending
  <2>2. i \in DOMAIN ms /\ g[i] = ms[i]
    BY <1>1, <2>1
  <2>3. CASE j \in DOMAIN ms
    <3>1. g[j] = ms[j]
      BY <1>3, <2>3
    <3>2. QED
      BY <1>5, <2>1, <2>2, <2>3, <3>1 DEF Ascending
  <2>4. CASE j = Len(ms) + 1
    <3>1. g[j] = x /\ ms[i] \subseteq AllOf(ms)
      BY <1>1, <2>2, <2>4 DEF AllOf
    <3>2. QED
      BY <1>5, <2>1, <2>2, <3>1 DEF Before
  <2>5. QED
    BY <1>2, <2>3, <2>4
<1>6. QED
  BY <1>1, <1>4, <1>5 DEF g

\* The last message replaced.
LEMMA MessageReplaced ==
    ASSUME NEW ms \in Seq(SUBSET Events), NEW x \in SUBSET Events, Len(ms) # 0
    PROVE  LET g == [ms EXCEPT ![Len(ms)] = x] IN
           /\ g \in Seq(SUBSET Events) /\ Len(g) = Len(ms) /\ g[Len(ms)] = x
           /\ AllOf(ms) \subseteq AllOf(g) \cup ms[Len(ms)] /\ ms[Len(ms)] \subseteq AllOf(ms)
           /\ AllOf(g) \subseteq AllOf(ms) \cup x /\ x \subseteq AllOf(g)
           /\ \A late : /\ Ascending(ms, late)
                        /\ x \cap late = {} =>
                             \A i \in DOMAIN ms : i < Len(ms) => Before(ms[i], x)
                        => Ascending(g, late)
<1> DEFINE t == Len(ms)
           g == [ms EXCEPT ![t] = x]
<1>1. t \in Nat /\ t \in 1..t /\ DOMAIN ms = 1..t
  <2>1. t \in Nat /\ DOMAIN ms = 1..t
    BY LenProperties
  <2>2. QED
    BY <2>1
<1>2. /\ g \in Seq(SUBSET Events) /\ Len(g) = t /\ DOMAIN g = 1..t
      /\ \A i \in 1..t : g[i] = IF i = t THEN x ELSE ms[i]
  BY <1>1, ExceptSeq, LenProperties
<1> HIDE DEF g, t
<1>3. AllOf(ms) \subseteq AllOf(g) \cup ms[t] /\ ms[t] \subseteq AllOf(ms)
  BY <1>1, <1>2 DEF AllOf
<1>4. AllOf(g) \subseteq AllOf(ms) \cup x /\ x \subseteq AllOf(g)
  BY <1>1, <1>2 DEF AllOf
<1>5. ASSUME NEW late, Ascending(ms, late),
             x \cap late = {} => \A i \in DOMAIN ms : i < t => Before(ms[i], x)
      PROVE  Ascending(g, late)
  <2>1. SUFFICES ASSUME NEW i \in 1..t, NEW j \in 1..t, i < j, g[j] \cap late = {}
                 PROVE  Before(g[i], g[j])
    BY <1>2 DEF Ascending
  <2>0. i # t /\ i < t
    BY <1>1, <2>1
  <2>2. g[i] = ms[i]
    BY <1>2, <2>0
  <2>3. CASE j = t
    BY <2>0, <1>1, <1>2, <1>5, <2>1, <2>2, <2>3
  <2>4. CASE j # t
    BY <1>1, <1>2, <1>5, <2>1, <2>2, <2>4 DEF Ascending
  <2>5. QED
    BY <2>3, <2>4
<1>6. QED
  BY <1>1, <1>2, <1>3, <1>4, <1>5 DEF g, t

Cleared(l) == [messages |-> <<>>, stream |-> {}, target |-> 0, last |-> l]

\* A cleared dashboard is a dashboard,
LEMMA ClearedType == \A l \in SUBSET Events : Cleared(l) \in Chat
<1>1. <<>> \in Seq(SUBSET Events) /\ Len(<<>>) = 0
  OBVIOUS
<1>2. QED
  BY <1>1 DEF Cleared, Chat

\* and what a replay_start leaves.
LEMMA ReplayStartIs ==
    ASSUME NEW c \in Chat, NEW m \in Message, m.k = "replay_start"
    PROVE  After(c, m) = Cleared(c.last) /\ Cleared(c.last) \in Chat
<1>1. After(c, m) = Cleared(c.last)
  BY DEF After, OnReplayStart, Chat, Cleared
<1>2. After(c, m) \in Chat
  BY AfterType
<1>3. QED
  BY <1>1, <1>2

\* Messages lead from one state of a dashboard to another.
LEMMA LeadsType ==
    ASSUME NEW c, NEW s \in Seq(Message), NEW p, Leads(c, s, p)
    PROVE  p \in Chat
<1>1. Len(s) \in 0..Len(s)
  <2>1. Len(s) \in Nat
    BY LenProperties
  <2>2. QED
    BY <2>1
<1>2. QED
  BY <1>1 DEF Leads

\* An entry more, a message more.
LEMMA SentAppend ==
    ASSUME NEW f \in Seq(Entry), NEW e \in Entry
    PROVE  /\ Sent(Append(f, e)) = Sent(f) \o <<[k |-> e.k, ids |-> e.ids]>>
           /\ [k |-> e.k, ids |-> e.ids] \in Message
<1>1. Append(f, e) = f \o <<e>> /\ <<e>> \in Seq(Entry)
  BY AppendIsConcat
<1>2. Sent(f \o <<e>>) = Sent(f) \o Sent(<<e>>)
  BY <1>1, SentConcat
<1>3. Sent(<<e>>) = <<[k |-> e.k, ids |-> e.ids]>>
  BY DEF Sent
<1>4. [k |-> e.k, ids |-> e.ids] \in Message
  BY DEF Entry, Message
<1>5. QED
  BY <1>1, <1>2, <1>3, <1>4

\* A dashboard that shows what a file holds, each event once and in order, in a text
\* that is over.
Faithful(p, f) ==
    /\ p.stream = {} /\ p.target = 0
    /\ AllOf(p.messages) \subseteq Held(f) /\ Held(f) \subseteq AllOf(p.messages) \cup Ends(f)
    /\ Ascending(p.messages, {})
\* That is what a replay of the file leads to, from whatever was remembered; and when nothing
\* is buffered it remembers the running text, which the end of the turn will repeat.
ReplayInv ==
    ~Torn(file) =>
      \A l \in SUBSET Events : \A p : Leads(Cleared(l), Sent(file), p) =>
        Faithful(p, file) /\ (buffer = {} => final = {} \/ p.last = final)

\* One entry more, replayed.
LEMMA EntryReplayed ==
    ASSUME NEW f \in Seq(Entry), NEW q \in Chat, Faithful(q, f), NEW e \in Entry,
           NEW m \in Message, m = [k |-> e.k, ids |-> e.ids],
           Before(Held(f), Ids(e)),
           e.k = "text" => e.ids = Ids(e),
           e.k = "tool" => e.ids = Ids(e),
           e.k = "turn.done" => e.ids = {} \/ e.ids = q.last
    PROVE  /\ Faithful(After(q, m), Append(f, e))
           /\ e.k = "text" => After(q, m).last = e.ids
           /\ e.k = "tool" => After(q, m).last = q.last
<1>1. /\ Held(Append(f, e)) = Held(f) \cup Ids(e)
      /\ Ends(Append(f, e)) = Ends(f) \cup (IF e.k = "turn.done" THEN {e.id} ELSE {})
  BY LogGrows
<1>2. m.k = e.k /\ m.ids = e.ids
  OBVIOUS
<1>3. q.messages \in Seq(SUBSET Events) /\ m.ids \in SUBSET Events
  BY DEF Chat, Message
<1>4. CASE e.k \in {"text", "tool"}
  <2>1. /\ After(q, m).messages = Append(q.messages, m.ids)
        /\ After(q, m).stream = {} /\ After(q, m).target = 0
        /\ e.k = "text" => After(q, m).last = e.ids
        /\ e.k = "tool" => After(q, m).last = q.last
    BY <1>2, <1>4, TextIs, ToolIs DEF Faithful
  <2>2. Before(AllOf(q.messages), m.ids)
    BY <1>2, <1>4 DEF Faithful, Before
  <2>3. /\ AllOf(Append(q.messages, m.ids)) = AllOf(q.messages) \cup m.ids
        /\ Ascending(Append(q.messages, m.ids), {})
    BY <1>3, <2>2, MessageAppended DEF Faithful
  <2>4. /\ Held(Append(f, e)) = Held(f) \cup Ids(e)
        /\ Ends(Append(f, e)) = Ends(f)
        /\ m.ids = Ids(e)
    BY <1>1, <1>2, <1>4
  <2>5. /\ AllOf(After(q, m).messages) = AllOf(q.messages) \cup Ids(e)
        /\ Ascending(After(q, m).messages, {})
    BY <2>1, <2>3, <2>4
  <2>6. AllOf(q.messages) \subseteq Held(f) /\ Held(f) \subseteq AllOf(q.messages) \cup Ends(f)
    BY DEF Faithful
  <2>7. /\ AllOf(After(q, m).messages) \subseteq Held(Append(f, e))
        /\ Held(Append(f, e)) \subseteq AllOf(After(q, m).messages) \cup Ends(Append(f, e))
    BY <2>4, <2>5, <2>6
  <2>8. Faithful(After(q, m), Append(f, e))
    BY <2>1, <2>5, <2>7 DEF Faithful
  <2>9. QED
    BY <2>1, <2>8
<1>5. CASE e.k = "turn.done"
  <2>1. After(q, m).messages = q.messages /\ After(q, m).stream = {} /\ After(q, m).target = 0
    <3>1. q.stream = {} /\ m.k = "turn.done" /\ (m.ids = {} \/ m.ids = q.last)
      BY <1>2, <1>5 DEF Faithful
    <3>2. /\ After(q, m) = [messages |-> After(q, m).messages, stream |-> {}, target |-> 0, last |-> {}]
          /\ After(q, m).messages = q.messages
      BY <3>1, DoneIs
    <3>3. After(q, m).stream = {}
      BY <3>2
    <3>4. After(q, m).target = 0
      BY <3>2
    <3>5. QED
      BY <3>2, <3>3, <3>4
  <2>2. Ids(e) = {e.id}
    BY <1>5 DEF Ids
  <2>3. QED
    BY <1>1, <1>5, <2>1, <2>2 DEF Faithful
<1>6. QED
  BY <1>4, <1>5 DEF Entry

\* The file with what is buffered behind it.
LEMMA FlushReplayed ==
    ASSUME TypeInv, LogInv, TurnInv, ReplayInv, ~Torn(file \o Flushed), NEW l \in SUBSET Events,
           NEW p, Leads(Cleared(l), Sent(file \o Flushed), p)
    PROVE  Faithful(p, file \o Flushed) /\ (final = {} \/ p.last = final)
<1>1. /\ file \o Flushed \in Seq(Entry) /\ file \in Seq(Entry)
      /\ buffer = {} => file \o Flushed = file
      /\ buffer # {} => \E e \in Entry : /\ e.k = "text" /\ e.ids = buffer /\ Ids(e) = buffer
                                         /\ file \o Flushed = Append(file, e)
  BY FlushWritten DEF TypeInv
<1>2. CASE buffer = {}
  BY <1>1, <1>2 DEF ReplayInv
<1>3. CASE buffer # {}
  <2>1. PICK e \in Entry : /\ e.k = "text" /\ e.ids = buffer /\ Ids(e) = buffer
                           /\ file \o Flushed = Append(file, e)
    BY <1>1, <1>3
  <2> DEFINE m == [k |-> e.k, ids |-> e.ids]
  <2>2. Sent(Append(file, e)) = Sent(file) \o <<m>> /\ m \in Message /\ Sent(file) \in Seq(Message)
        /\ <<m>> \in Seq(Message)
    BY <1>1, SentAppend, SentType
  <2>3. ~Torn(file) /\ ~EndsInText(file)
    BY <1>1, <2>1, LogGrows
  <2>4. buffer = final
    BY <1>3, <2>3 DEF TurnInv
  <2>a. m = [k |-> e.k, ids |-> e.ids]
    OBVIOUS
  <2> HIDE DEF m
  <2>5. Cleared(l) \in Chat
    BY ClearedType
  <2>6. PICK q \in Chat : Leads(Cleared(l), Sent(file), q) /\ Leads(q, <<m>>, p)
    <3>1. Leads(Cleared(l), Sent(file) \o <<m>>, p)
      BY <2>1, <2>2
    <3>2. QED
      BY <2>2, <2>5, <3>1, LeadsThrough
  <2>7. p = After(q, m)
    BY <2>6, LeadsOne
  <2>8. Faithful(q, file)
    BY <2>3, <2>6 DEF ReplayInv
  <2>9. Before(Held(file), Ids(e))
    BY <2>1, OrderParts DEF LogInv, Held, Before
  <2>10. Faithful(After(q, m), Append(file, e)) /\ After(q, m).last = e.ids
    BY <1>1, <2>1, <2>2, <2>8, <2>9, <2>a, EntryReplayed
  <2>11. QED
    BY <2>1, <2>4, <2>7, <2>10
<1>4. QED
  BY <1>2, <1>3

\* Every step keeps the file's replay faithful to the file.
LEMMA ReplayStep == ASSUME TypeInv, LogInv, TurnInv, ReplayInv, [Next]_vars PROVE ReplayInv'
<1>0. /\ file \o Flushed \in Seq(Entry) /\ file \in Seq(Entry)
      /\ Held(file \o Flushed) = Held(file) \cup buffer
  BY FlushWritten, LogGrows DEF TypeInv
<1>1. ASSUME NEW k \in {"tool", "turn.done"}, NEW ids \in SUBSET Events, emitted < MaxEvents,
             file' = file \o Logged(k, ids), k = "tool" => ids = {emitted + 1} /\ final' = final,
             k = "turn.done" => ids = final /\ final' = {}
      PROVE  ReplayInv'
  <2>0. PICK e \in Entry : WritesLast(e, k, ids)
    BY <1>1, LogWritten DEF TypeInv
  <2>1. /\ e.k = k /\ e.id = emitted + 1 /\ e.ids = ids /\ Ids(e) = {emitted + 1}
        /\ file' = Append(file \o Flushed, e)
    BY <1>1, <2>0 DEF WritesLast
  <2> DEFINE f == file \o Flushed
             m == [k |-> e.k, ids |-> e.ids]
  <2>2. f \in Seq(Entry) /\ Held(f) = Held(file) \cup buffer /\ file' = Append(f, e)
    BY <1>0, <2>1
  <2>3. \A l \in SUBSET Events : \A p : ~Torn(f) /\ Leads(Cleared(l), Sent(f), p) =>
          Faithful(p, f) /\ (final = {} \/ p.last = final)
    BY FlushReplayed
  <2>4. m = [k |-> e.k, ids |-> e.ids]
    OBVIOUS
  <2> HIDE DEF f, m
  <2>5. Sent(Append(f, e)) = Sent(f) \o <<m>> /\ m \in Message /\ Sent(f) \in Seq(Message)
        /\ <<m>> \in Seq(Message)
    BY <2>2, <2>4, SentAppend, SentType
  <2>6. SUFFICES ASSUME ~Torn(file'), NEW l \in SUBSET Events, NEW p, Leads(Cleared(l), Sent(file'), p)
                 PROVE  Faithful(p, file') /\ (final' = {} \/ p.last = final')
    BY DEF ReplayInv
  <2>7. ~Torn(f)
    BY <2>2, <2>6, LogGrows
  <2>8. Cleared(l) \in Chat
    BY ClearedType
  <2>9. PICK q \in Chat : Leads(Cleared(l), Sent(f), q) /\ Leads(q, <<m>>, p)
    <3>1. Leads(Cleared(l), Sent(f) \o <<m>>, p)
      BY <2>2, <2>5, <2>6
    <3>2. QED
      BY <2>5, <2>8, <3>1, LeadsThrough
  <2>10. p = After(q, m)
    BY <2>9, LeadsOne
  <2>11. Faithful(q, f) /\ (final = {} \/ q.last = final)
    BY <2>3, <2>7, <2>9
  <2>12. Before(Held(f), Ids(e))
    BY <2>1, <2>2, TurnBelow DEF Before
  <2>13. /\ Faithful(After(q, m), Append(f, e))
         /\ e.k = "tool" => After(q, m).last = q.last
    <3>1. (e.k = "text" => e.ids = Ids(e)) /\ (e.k = "tool" => e.ids = Ids(e))
      BY <1>1, <2>1
    <3>2. e.k = "turn.done" => e.ids = {} \/ e.ids = q.last
      BY <1>1, <2>1, <2>11
    <3>3. QED
      BY <2>2, <2>4, <2>5, <2>11, <2>12, <3>1, <3>2, EntryReplayed
  <2>14. final' = {} \/ p.last = final'
    BY <1>1, <2>1, <2>10, <2>11, <2>13
  <2>15. QED
    BY <2>2, <2>10, <2>13, <2>14
<1>2. CASE EmitsToken
  <2>1. file' = file /\ buffer' # {}
    BY <1>2 DEF EmitsToken
  <2>2. QED
    BY <2>1 DEF ReplayInv
<1>3. CASE EmitsTool
  <2>1. emitted < MaxEvents /\ file' = file \o Logged("tool", {emitted + 1}) /\ final' = final
    BY <1>3 DEF EmitsTool, Writes
  <2>2. {emitted + 1} \in SUBSET Events
    BY <2>1, BoundsAssumption DEF TypeInv, TypeOK, Events
  <2>3. QED
    BY <1>1, <2>1, <2>2
<1>4. CASE EmitsDone
  <2>1. emitted < MaxEvents /\ file' = file \o Logged("turn.done", final) /\ final' = {}
    BY <1>4 DEF EmitsDone, Writes
  <2>2. final \in SUBSET Events
    BY DEF TypeInv, TypeOK
  <2>3. QED
    BY <1>1, <2>1, <2>2
<1>5. CASE Polls
  <2>1. file' = file \o Flushed /\ final' = final
    BY <1>5 DEF Polls, Writes
  <2>2. QED
    BY <2>1, FlushReplayed DEF ReplayInv
<1>6. CASE Restarts
  BY <1>6 DEF Restarts, ReplayInv
<1>7. CASE UNCHANGED <<file, buffer, final>>
  BY <1>7 DEF ReplayInv
<1>8. CASE SendsDone
  BY <1>7, <1>8 DEF SendsDone, logVars
<1>9. QED
  BY <1>2, <1>3, <1>4, <1>5, <1>6, <1>7, <1>8, OtherSteps DEF Relays

\* The replay of nothing shows nothing.
LEMMA ReplayFirst == Init => ReplayInv
<1>1. ASSUME Init PROVE ReplayInv
  <2>1. file = <<>> /\ final = {}
    BY <1>1 DEF Init
  <2>2. SUFFICES ASSUME NEW l \in SUBSET Events, NEW p, Leads(Cleared(l), Sent(file), p)
                 PROVE  Faithful(p, file)
    BY <2>1 DEF ReplayInv
  <2>3. Cleared(l) \in Chat
    BY ClearedType
  <2>4. p = Cleared(l)
    BY <2>1, <2>2, <2>3, SentNothing, LeadsNowhere
  <2>5. DOMAIN <<>> = {}
    OBVIOUS
  <2>6. QED
    BY <2>1, <2>4, <2>5 DEF Faithful, Cleared, AllOf, Held, Ascending
<1>2. QED
  BY <1>1

-----------------------------------------------------------------------------
(* What comes to the dashboard leads to a faithful view.                      *)

\* What the dashboard is shown of a text, and remembers, so that the end of the turn, which
\* holds the text X, adds nothing twice.
Due(p, X) ==
    /\ p.stream \subseteq X
    /\ X = {} \/ X \cap cut # {} \/ (p.stream = {} /\ p.last = X) \/ p.stream = X
\* The text that is being shown is the last message.
Streams(p) ==
    /\ p.target # 0 => p.target = Len(p.messages) /\ p.messages[p.target] = p.stream
    /\ p.target = 0 => p.stream = {}
ShowsAll(p) ==
    /\ AllOf(p.messages) \subseteq 1..emitted
    /\ 1..emitted \subseteq AllOf(p.messages) \cup Ends(file) \cup cut \cup lost
    /\ Ascending(p.messages, cut)
Remembers(p) ==
    /\ signing = {} => Due(p, final)
    /\ \A e \in signing : signing = {e} => Due(p, e.ids)
    /\ signing = {} /\ p.stream # {} => emitted \in final
    /\ signing = {} /\ emitted \in final => final \cap cut # {} \/ p.stream = final
Fine(p) == Streams(p) /\ ShowsAll(p) /\ Remembers(p)

\* Where what is on the wire and still to be sent leads to.
FollowInv ==
    connected /\ synced /\ ~disturbed =>
      /\ signing # {} => final = {}
      /\ \A p : Leads(chat, Coming, p) => Fine(p)

\* A token relayed to a dashboard that is up to date leaves it up to date;
LEMMA TokenFine ==
    ASSUME NEW q \in Chat, Fine(q), NEW m \in Message, m.k = "token", m.ids = {emitted + 1},
           signing = {}, signing' = {}, emitted' = emitted + 1,
           final' = (IF emitted \in final THEN final ELSE {}) \cup {emitted + 1},
           UNCHANGED <<file, cut, lost>>,
           emitted \in Nat, final \subseteq 1..emitted
    PROVE  Fine(After(q, m))'
<1> DEFINE text == q.stream \cup {emitted + 1}
           p == After(q, m)
<1>1. /\ q.messages \in Seq(SUBSET Events) /\ q.target \in Nat /\ q.target <= Len(q.messages)
      /\ Len(q.messages) \in Nat
  BY LenProperties DEF Chat
<1>2. m.ids \in SUBSET Events /\ text \in SUBSET Events
  BY DEF Chat, Message
<1>3. /\ Streams(q) /\ ShowsAll(q) /\ Due(q, final)
      /\ q.stream # {} => emitted \in final
      /\ emitted \in final => final \cap cut # {} \/ q.stream = final
  BY DEF Fine, Remembers
<1>4. 1..(emitted + 1) = 1..emitted \cup {emitted + 1} /\ \A x \in 1..emitted : x < emitted + 1
  BY DEF Events
<1>5. /\ p.stream = text /\ p.target # 0
      /\ q.target = 0 => p.messages = Append(q.messages, text) /\ p.target = Len(q.messages) + 1
      /\ q.target # 0 => p.messages = [q.messages EXCEPT ![q.target] = text] /\ p.target = q.target
  <2>1. CASE q.target = 0
    <3>1. p = [messages |-> Append(q.messages, text), stream |-> text,
               target |-> Len(q.messages) + 1, last |-> q.last]
      BY <2>1, TokenIs
    <3> HIDE DEF p, text
    <3>2. QED
      BY <1>1, <2>1, <3>1
  <2>2. CASE q.target # 0
    <3>1. p = [messages |-> [q.messages EXCEPT ![q.target] = text], stream |-> text,
               target |-> q.target, last |-> q.last]
      BY <2>2, TokenIs
    <3> HIDE DEF p, text
    <3>2. QED
      BY <2>2, <3>1
  <2>3. QED
    BY <2>1, <2>2
<1>6. text \subseteq final'
  BY <1>3 DEF Due
<1>7. final' \cap cut # {} \/ text = final'
  BY <1>3 DEF Due
<1>a. q.stream \subseteq 1..emitted
  BY <1>3 DEF Due
<1> HIDE DEF p
<1>8. CASE q.target = 0
  <2>1. q.stream = {} /\ text = {emitted + 1}
    BY <1>3, <1>8 DEF Streams
  <2>2. Before(AllOf(q.messages), text)
    BY <1>3, <1>4, <2>1 DEF ShowsAll, Before
  <2>3. /\ AllOf(p.messages) = AllOf(q.messages) \cup text /\ Ascending(p.messages, cut)
        /\ Len(p.messages) = Len(q.messages) + 1 /\ p.messages[Len(q.messages) + 1] = text
    <3> DEFINE ms == q.messages
               g == Append(ms, text)
    <3>1. ms \in Seq(SUBSET Events) /\ text \in SUBSET Events /\ Ascending(ms, cut) /\ Before(AllOf(ms), text)
      BY <1>1, <1>2, <1>3, <2>2 DEF ShowsAll
    <3> HIDE DEF text, ms
    <3>2. /\ AllOf(g) = AllOf(ms) \cup text /\ Ascending(g, cut)
          /\ Len(g) = Len(ms) + 1 /\ g[Len(ms) + 1] = text
      BY <3>1, MessageAppended
    <3> HIDE DEF g
    <3>3. p.messages = g
      BY <1>5, <1>8 DEF g, ms
    <3>4. QED
      BY <3>2, <3>3 DEF ms
  <2> HIDE DEF text
  <2>4. Streams(p)'
    BY <1>5, <1>8, <2>3 DEF Streams
  <2>5. ShowsAll(p)'
    BY <1>3, <1>4, <2>1, <2>3 DEF ShowsAll
  <2>6. Remembers(p)'
    BY <1>5, <1>6, <1>7 DEF Remembers, Due
  <2>7. QED
    BY <2>4, <2>5, <2>6 DEF Fine, p
<1>9. CASE q.target # 0
  <2>1. q.target = Len(q.messages) /\ q.messages[Len(q.messages)] = q.stream /\ Len(q.messages) # 0
    BY <1>3, <1>9 DEF Streams
  <2>2. text \cap cut = {} => \A i \in DOMAIN q.messages : i < Len(q.messages) => Before(q.messages[i], text)
    <3>1. SUFFICES ASSUME text \cap cut = {}, NEW i \in DOMAIN q.messages, i < Len(q.messages)
                   PROVE  Before(q.messages[i], text)
      OBVIOUS
    <3>2. Len(q.messages) \in DOMAIN q.messages
      <4>1. DOMAIN q.messages = 1..Len(q.messages)
        BY <1>1, LenProperties
      <4>2. QED
        BY <1>1, <2>1, <4>1
    <3>3. Before(q.messages[i], q.stream)
      BY <1>3, <2>1, <3>1, <3>2 DEF ShowsAll, Ascending
    <3>4. q.messages[i] \subseteq 1..emitted
      BY <1>3 DEF ShowsAll, AllOf
    <3>5. QED
      BY <1>4, <3>3, <3>4 DEF Before
  <2>3. /\ AllOf(q.messages) \subseteq AllOf(p.messages) \cup q.stream
        /\ AllOf(p.messages) \subseteq AllOf(q.messages) \cup text /\ text \subseteq AllOf(p.messages)
        /\ Ascending(p.messages, cut)
        /\ Len(p.messages) = Len(q.messages) /\ p.messages[Len(q.messages)] = text
    <3> DEFINE ms == q.messages
               g == [ms EXCEPT ![Len(ms)] = text]
    <3>1. /\ ms \in Seq(SUBSET Events) /\ text \in SUBSET Events /\ Ascending(ms, cut) /\ Len(ms) # 0
          /\ text \cap cut = {} => \A i \in DOMAIN ms : i < Len(ms) => Before(ms[i], text)
      BY <1>1, <1>2, <1>3, <2>1, <2>2 DEF ShowsAll
    <3>2. ms[Len(ms)] = q.stream
      BY <2>1
    <3> HIDE DEF text, ms
    <3>3. /\ AllOf(ms) \subseteq AllOf(g) \cup ms[Len(ms)]
          /\ AllOf(g) \subseteq AllOf(ms) \cup text /\ text \subseteq AllOf(g)
          /\ Ascending(g, cut)
          /\ Len(g) = Len(ms) /\ g[Len(ms)] = text
      BY <3>1, MessageReplaced
    <3> HIDE DEF g
    <3>4. p.messages = g
      BY <1>5, <1>9, <2>1 DEF g, ms
    <3>5. QED
      BY <3>2, <3>3, <3>4 DEF ms
  <2>4. Streams(p)'
    BY <1>5, <1>9, <2>1, <2>3 DEF Streams
  <2>5. ShowsAll(p)'
    BY <1>3, <1>4, <1>a, <2>3 DEF ShowsAll
  <2> HIDE DEF text
  <2>6. Remembers(p)'
    BY <1>5, <1>6, <1>7 DEF Remembers, Due
  <2>7. QED
    BY <2>4, <2>5, <2>6 DEF Fine, p
<1>10. QED
  BY <1>8, <1>9

\* so does a tool's event, which ends the streamed text.
LEMMA ToolFine ==
    ASSUME NEW q \in Chat, Fine(q), NEW m \in Message, m.k = "tool", m.ids = {emitted + 1},
           signing = {}, signing' = {}, emitted' = emitted + 1,
           UNCHANGED <<final, cut, lost>>, Ends(file) \subseteq Ends(file'),
           emitted \in Nat, final \subseteq 1..emitted
    PROVE  Fine(After(q, m))'
<1> DEFINE p == After(q, m)
           ms == q.messages
           g == Append(ms, m.ids)
<1>1. ms \in Seq(SUBSET Events) /\ m.ids \in SUBSET Events
  BY DEF Chat, Message
<1>2. /\ Streams(q) /\ ShowsAll(q) /\ Due(q, final)
  BY DEF Fine, Remembers
<1>3. /\ 1..(emitted + 1) = 1..emitted \cup {emitted + 1} /\ \A x \in 1..emitted : x < emitted + 1
      /\ emitted + 1 \notin 1..emitted
  OBVIOUS
<1>4. p = [messages |-> g, stream |-> {}, target |-> 0, last |-> IF q.stream = {} THEN q.last ELSE q.stream]
  BY ToolIs
<1> HIDE DEF p, ms
<1>5. Before(AllOf(ms), m.ids)
  BY <1>2, <1>3 DEF ShowsAll, Before, ms
<1>6. AllOf(g) = AllOf(ms) \cup m.ids /\ Ascending(g, cut)
  BY <1>1, <1>2, <1>5, MessageAppended DEF ShowsAll, ms
<1> HIDE DEF g
<1>7. /\ p.messages = g /\ p.stream = {} /\ p.target = 0
      /\ p.last = IF q.stream = {} THEN q.last ELSE q.stream
  BY <1>4
<1>8. Streams(p)'
  BY <1>7 DEF Streams
<1>9. ShowsAll(p)'
  BY <1>2, <1>3, <1>6, <1>7 DEF ShowsAll, ms
<1>10. Remembers(p)'
  <2>1. Due(p, final)'
    BY <1>2, <1>7 DEF Due
  <2>2. emitted' \notin final'
    BY <1>3
  <2>3. QED
    BY <1>7, <2>1, <2>2 DEF Remembers
<1>11. QED
  BY <1>8, <1>9, <1>10 DEF Fine, p

\* The end of the turn, when it is sent.
LEMMA DoneFine ==
    ASSUME NEW q \in Chat, Fine(q), NEW m \in Message, m.k = "turn.done",
           NEW e, signing = {e}, signing' = {}, m.ids = e.ids, m.ids \subseteq 1..emitted,
           final = {}, UNCHANGED <<emitted, final, file, cut, lost>>
    PROVE  Fine(After(q, m))'
<1> DEFINE p == After(q, m)
           ms == q.messages
<1>1. /\ ms \in Seq(SUBSET Events) /\ m.ids \in SUBSET Events /\ Len(ms) \in Nat
      /\ DOMAIN ms = 1..Len(ms)
  BY LenProperties DEF Chat, Message
<1>2. /\ Streams(q) /\ ShowsAll(q) /\ Due(q, m.ids)
  BY DEF Fine, Remembers
<1>3. /\ p = [messages |-> p.messages, stream |-> {}, target |-> 0, last |-> {}]
      /\ q.stream = {} /\ (m.ids = {} \/ m.ids = q.last) => p.messages = ms
      /\ q.stream = {} /\ ~(m.ids = {} \/ m.ids = q.last) => p.messages = Append(ms, m.ids)
      /\ q.stream # {} /\ q.target # 0 =>
           p.messages = [ms EXCEPT ![q.target] = IF m.ids = {} THEN q.stream ELSE m.ids]
  BY DoneIs
<1> HIDE DEF p
<1>4. p.stream = {} /\ p.target = 0
  <2>1. p.stream = {}
    BY <1>3
  <2>2. p.target = 0
    BY <1>3
  <2>3. QED
    BY <2>1, <2>2
<1>5. AllOf(ms) \subseteq 1..emitted /\ Ascending(ms, cut)
      /\ 1..emitted \subseteq AllOf(ms) \cup Ends(file) \cup cut \cup lost
  BY <1>2 DEF ShowsAll
<1> HIDE DEF ms
<1>6. SUFFICES /\ AllOf(p.messages) \subseteq AllOf(ms) \cup m.ids
               /\ AllOf(ms) \subseteq AllOf(p.messages) /\ Ascending(p.messages, cut)
  <2>1. ASSUME AllOf(p.messages) \subseteq AllOf(ms) \cup m.ids,
               AllOf(ms) \subseteq AllOf(p.messages), Ascending(p.messages, cut)
        PROVE  Fine(p)'
    <3>1. ShowsAll(p)'
      BY <1>5, <2>1 DEF ShowsAll
    <3>2. Streams(p)' /\ Remembers(p)'
      BY <1>4 DEF Streams, Remembers, Due
    <3>3. QED
      BY <3>1, <3>2 DEF Fine
  <2>2. QED
    BY <2>1 DEF p
<1>7. CASE q.stream = {} /\ (m.ids = {} \/ m.ids = q.last)
  BY <1>3, <1>5, <1>7
<1>8. CASE q.stream = {} /\ ~(m.ids = {} \/ m.ids = q.last)
  <2>1. m.ids \cap cut # {}
    BY <1>2, <1>8 DEF Due
  <2> DEFINE g == Append(ms, m.ids)
  <2>2. AllOf(g) = AllOf(ms) \cup m.ids /\ Ascending(g, cut)
    BY <1>1, <1>5, <2>1, MessageAppended
  <2>3. p.messages = g
    BY <1>3, <1>8
  <2> HIDE DEF g
  <2>4. QED
    BY <2>2, <2>3
<1>9. CASE q.stream # {}
  <2>1. /\ m.ids # {} /\ q.stream \subseteq m.ids
        /\ m.ids \cap cut # {} \/ q.stream = m.ids
    BY <1>2, <1>9 DEF Due
  <2>2. q.target # 0 /\ q.target = Len(ms) /\ ms[Len(ms)] = q.stream /\ Len(ms) # 0
    BY <1>2, <1>9 DEF Streams, ms
  <2> DEFINE g == [ms EXCEPT ![Len(ms)] = m.ids]
  <2>3. p.messages = g
    BY <1>3, <1>9, <2>1, <2>2
  <2>4. m.ids \cap cut = {} => \A i \in DOMAIN ms : i < Len(ms) => Before(ms[i], m.ids)
    <3>1. SUFFICES ASSUME m.ids \cap cut = {}, NEW i \in DOMAIN ms, i < Len(ms)
                   PROVE  Before(ms[i], m.ids)
      OBVIOUS
    <3>2. ms[Len(ms)] = m.ids /\ Len(ms) \in DOMAIN ms
      BY <1>1, <2>1, <2>2, <3>1
    <3>3. QED
      BY <1>5, <3>1, <3>2 DEF Ascending
  <2>5. /\ AllOf(ms) \subseteq AllOf(g) \cup ms[Len(ms)]
        /\ AllOf(g) \subseteq AllOf(ms) \cup m.ids /\ m.ids \subseteq AllOf(g)
        /\ Ascending(g, cut)
    BY <1>1, <1>5, <2>2, <2>4, MessageReplaced
  <2> HIDE DEF g
  <2>6. QED
    BY <2>1, <2>2, <2>3, <2>5
<1>10. QED
  BY <1>7, <1>8, <1>9

\* What the log leads to.
LEMMA ReplayFine ==
    ASSUME LogInv, TurnInv, file # <<>>, ~Torn(file), ~EndsInText(file), signing = {},
           NEW p, Faithful(p, file), buffer = {} => final = {} \/ p.last = final,
           cut' = buffer, UNCHANGED <<emitted, final, file, signing, lost>>
    PROVE  Fine(p)'
<1>1. Held(file) \subseteq 1..emitted /\ Held(file) \cup buffer \cup lost = 1..emitted
  BY TurnBelow
<1>2. Streams(p)'
  BY DEF Faithful, Streams
<1>3. ShowsAll(p)'
  <2>1. Ascending(p.messages, buffer)
    BY DEF Faithful, Ascending
  <2>2. QED
    BY <1>1, <2>1 DEF Faithful, ShowsAll
<1>4. Remembers(p)'
  <2>1. final = {} \/ final \cap buffer # {} \/ p.last = final
    BY DEF TurnInv
  <2>2. emitted \in final => final \cap buffer # {}
    BY DEF TurnInv
  <2>3. QED
    BY <2>1, <2>2 DEF Remembers, Due, Faithful
<1>5. QED
  BY <1>2, <1>3, <1>4 DEF Fine

\* What a few tokens lead to that the dashboard did receive while the file was empty.
LEMMA TokensFine ==
    ASSUME TypeInv, LogInv, TurnInv, EmptyInv, ChatInv, file = <<>>, chat.messages = <<>>,
           NEW p, Leads(chat, wire, p),
           cut' = buffer, UNCHANGED <<emitted, final, file, signing, lost>>
    PROVE  Fine(p)'
<1>1. /\ Held(file) \cup buffer \cup lost = 1..emitted /\ emitted \in Nat
      /\ Held(file) = {} /\ final \subseteq buffer /\ signing = {}
  <2>1. DOMAIN file = {}
    <3>1. DOMAIN <<>> = {}
      OBVIOUS
    <3>2. QED
      BY <3>1
  <2>2. Held(file) = {}
    BY <2>1 DEF Held
  <2>3. QED
    BY <2>2, TurnBelow DEF TurnInv, EmptyInv
<1>2. final # {} => emitted \in final /\ final \cap buffer # {}
  BY <1>1 DEF TurnInv
<1> DEFINE J == {x \in Chat : \/ x.messages = <<>> /\ x.target = 0 /\ x.stream = {}
                              \/ /\ Len(x.messages) = 1 /\ x.target = 1
                                 /\ x.messages[1] = x.stream /\ x.stream \subseteq final}
<1>3. wire \in Seq(Message) /\ chat \in Chat
  BY DEF TypeInv, TypeOK, Chat
<1>4. chat \in J
  <2>1. Len(<<>>) = 0
    OBVIOUS
  <2>2. chat.target = 0
    BY <1>3, <2>1 DEF Chat
  <2>3. QED
    BY <1>3, <2>2 DEF ChatInv
<1>5. ASSUME NEW n \in 1..Len(wire), NEW x \in J \cap Chat PROVE After(x, wire[n]) \in J
  <2> DEFINE m == wire[n]
             text == x.stream \cup m.ids
  <2>1. m \in Message /\ m.k = "token" /\ m.ids \subseteq final
    BY <1>3, ElementOfSeq DEF EmptyInv
  <2> HIDE DEF m
  <2>2. After(x, m) \in Chat /\ x \in Chat /\ text \in SUBSET Events
    BY <2>1, AfterType DEF Chat, Message
  <2>3. CASE x.messages = <<>> /\ x.target = 0 /\ x.stream = {}
    <3>1. After(x, m) = [messages |-> Append(x.messages, text), stream |-> text,
                         target |-> Len(x.messages) + 1, last |-> x.last]
      BY <2>1, <2>2, <2>3, TokenIs
    <3>2. Append(<<>>, text) = <<text>> /\ Len(<<>>) = 0 /\ Len(<<text>>) = 1 /\ <<text>>[1] = text
      OBVIOUS
    <3>3. text \subseteq final
      BY <2>1, <2>3
    <3> HIDE DEF text
    <3>4. QED
      BY <2>2, <2>3, <3>1, <3>2, <3>3 DEF m
  <2>4. CASE /\ Len(x.messages) = 1 /\ x.target = 1
             /\ x.messages[1] = x.stream /\ x.stream \subseteq final
    <3>1. After(x, m) = [messages |-> [x.messages EXCEPT ![1] = text], stream |-> text,
                         target |-> 1, last |-> x.last]
      BY <2>1, <2>2, <2>4, TokenIs
    <3>2. text \subseteq final
      BY <2>1, <2>4
    <3>3. x.messages \in Seq(SUBSET Events) /\ 1 \in 1..Len(x.messages)
      BY <2>2, <2>4 DEF Chat
    <3> HIDE DEF text
    <3>4. /\ Len([x.messages EXCEPT ![1] = text]) = 1
          /\ [x.messages EXCEPT ![1] = text][1] = text
      BY <2>2, <2>4, <3>3, ExceptSeq
    <3>5. QED
      BY <2>2, <3>1, <3>2, <3>4 DEF m
  <2>5. QED
    BY <2>3, <2>4 DEF m
<1>6. p \in J
  <2> HIDE DEF J
  <2>1. QED
    BY <1>3, <1>4, <1>5, LeadsWithin
<1>7. /\ Streams(p) /\ p.stream \subseteq final /\ Len(p.messages) \in {0, 1}
      /\ AllOf(p.messages) \subseteq final /\ p.messages \in Seq(SUBSET Events)
  <2>1. p.messages \in Seq(SUBSET Events)
    BY <1>6 DEF Chat
  <2>2. DOMAIN p.messages = 1..Len(p.messages)
    BY <2>1, LenProperties
  <2>3. Len(<<>>) = 0
    OBVIOUS
  <2>4. CASE p.messages = <<>> /\ p.target = 0 /\ p.stream = {}
    <3>1. Len(p.messages) = 0
      BY <2>3, <2>4
    <3>2. DOMAIN p.messages = {}
      BY <2>2, <3>1
    <3>3. AllOf(p.messages) = {}
      BY <3>2 DEF AllOf
    <3>4. QED
      BY <2>1, <2>4, <3>1, <3>3 DEF Streams
  <2>5. CASE /\ Len(p.messages) = 1 /\ p.target = 1
             /\ p.messages[1] = p.stream /\ p.stream \subseteq final
    <3>1. DOMAIN p.messages = {1}
      BY <2>2, <2>5
    <3>2. AllOf(p.messages) = p.stream
      BY <2>5, <3>1 DEF AllOf
    <3>3. QED
      BY <2>1, <2>5, <3>2 DEF Streams
  <2>6. QED
    BY <1>6, <2>4, <2>5
<1> HIDE DEF J
<1>8. Streams(p)'
  BY <1>7 DEF Streams
<1>9. ShowsAll(p)'
  <2>1. DOMAIN p.messages = 1..Len(p.messages)
    BY <1>7, LenProperties
  <2>2. Ascending(p.messages, buffer)
    BY <1>7, <2>1 DEF Ascending
  <2>3. QED
    BY <1>1, <1>7, <2>2 DEF ShowsAll
<1>10. Remembers(p)'
  BY <1>1, <1>2, <1>7 DEF Remembers, Due
<1>11. QED
  BY <1>8, <1>9, <1>10 DEF Fine

\* What is relayed undisturbed comes last.
LEMMA Relayed ==
    ASSUME TypeInv, TypeInv', Hearing, connected, synced, NEW k, NEW ids, NEW ends,
           ToSession(k, ids, ends), [k |-> k, ids |-> ids] \in Message, ~disturbed',
           UNCHANGED <<resume, chat>>, NEW p, Leads(chat', Coming', p)
    PROVE  /\ ends = {} /\ ~disturbed
           /\ \E q \in Chat : Leads(chat, Coming, q) /\ p = After(q, [k |-> k, ids |-> ids])
<1> DEFINE m == [k |-> k, ids |-> ids]
<1>1. subscribed
  BY DEF Hearing
<1>2. ends = {} /\ ~disturbed /\ Replaying = {} /\ wire' = Append(wire, m)
  BY <1>1 DEF ToSession
<1>3. Replaying' = {}
  BY <1>2 DEF Replaying
<1>4. Coming = wire /\ wire \in Seq(Message) /\ Coming' = wire'
  <2>1. Coming = wire /\ wire \in Seq(Message)
    BY <1>2, ComingType DEF TypeInv
  <2>2. Coming' = wire' \o <<>> /\ wire' \in Seq(Message)
    BY <1>3 DEF Coming, Backlog, TypeInv, TypeOK
  <2>3. QED
    BY <2>1, <2>2, ConcatEmptySeq
<1>5. m \in Message
  OBVIOUS
<1> HIDE DEF m
<1>6. Append(wire, m) = wire \o <<m>> /\ <<m>> \in Seq(Message)
  BY <1>4, <1>5, AppendIsConcat
<1>7. Leads(chat, wire \o <<m>>, p)
  BY <1>2, <1>4, <1>6
<1>8. chat \in Chat
  BY DEF TypeInv, TypeOK, Chat
<1>9. PICK q \in Chat : Leads(chat, wire, q) /\ Leads(q, <<m>>, p)
  BY <1>4, <1>6, <1>7, <1>8, LeadsThrough
<1>10. p = After(q, m)
  BY <1>9, LeadsOne
<1>11. QED
  BY <1>2, <1>4, <1>9, <1>10 DEF m

\* A relay puts one message behind all that is coming.
LEMMA FollowRelays ==
    ASSUME TypeInv, TypeInv', LogInv, TurnInv, Hearing, FollowInv,
           EmitsToken \/ EmitsTool \/ SendsDone
    PROVE  FollowInv'
<1>1. SUFFICES ASSUME connected', synced', ~disturbed'
               PROVE  (signing # {} => final = {})' /\ \A p : Leads(chat', Coming', p) => Fine(p)'
  BY DEF FollowInv
<1>2. UNCHANGED <<connected, synced, chat, resume, cut, lost>>
  BY DEF EmitsToken, EmitsTool, SendsDone, serverVars, clientVars
<1>3. /\ emitted \in Nat /\ final \subseteq 1..emitted
  BY TurnBelow
<1>4. CASE EmitsToken
  <2> DEFINE ids == {emitted + 1}
             relayed == [k |-> "token", ids |-> ids]
  <2>1. /\ ToSession("token", ids, signing) /\ signing' = signing /\ emitted' = emitted + 1 /\ emitted < MaxEvents
        /\ final' = (IF emitted \in final THEN final ELSE {}) \cup {emitted + 1} /\ file' = file
    BY <1>4 DEF EmitsToken, serverVars
  <2>2. relayed \in Message
    BY <1>3, <2>1, BoundsAssumption DEF Message, Events
  <2>b. PICK m \in Message : m = relayed /\ m.k = "token" /\ m.ids = {emitted + 1}
    BY <2>2
  <2>3. ASSUME NEW p, Leads(chat', Coming', p)
        PROVE  signing = {} /\ ~disturbed /\ \E q \in Chat : Leads(chat, Coming, q) /\ p = After(q, m)
    <3>1. connected /\ synced /\ UNCHANGED <<resume, chat>>
      BY <1>1, <1>2
    <3>2. signing = {} /\ ~disturbed /\ \E q \in Chat : Leads(chat, Coming, q) /\ p = After(q, relayed)
      BY <1>1, <2>1, <2>2, <2>3, <3>1, Relayed
    <3>3. QED
      BY <2>b, <3>2
  <2>4. ASSUME NEW p, Leads(chat', Coming', p) PROVE Fine(p)'
    <3>1. PICK q \in Chat : Leads(chat, Coming, q) /\ p = After(q, m)
      BY <2>3, <2>4
    <3>2. Fine(q) /\ signing = {}
      BY <1>1, <1>2, <2>3, <2>4, <3>1 DEF FollowInv
    <3>3. Fine(After(q, m))'
      BY <1>2, <1>3, <2>1, <2>b, <3>2, TokenFine
    <3>4. QED
      BY <3>1, <3>3
  <2>5. signing' = {}
    <3>1. subscribed
      BY <1>1, <1>2 DEF Hearing
    <3>2. QED
      BY <1>1, <2>1, <3>1 DEF ToSession
  <2>6. QED
    BY <2>4, <2>5
<1>5. CASE EmitsTool
  <2> DEFINE ids == {emitted + 1}
             relayed == [k |-> "tool", ids |-> ids]
  <2>1. /\ ToSession("tool", ids, signing) /\ signing' = signing /\ emitted' = emitted + 1 /\ emitted < MaxEvents
        /\ final' = final /\ file' = file \o Logged("tool", ids)
    BY <1>5 DEF EmitsTool, serverVars, Writes
  <2>2. relayed \in Message /\ ids \in SUBSET Events
    BY <1>3, <2>1, BoundsAssumption DEF Message, Events
  <2>b. PICK m \in Message : m = relayed /\ m.k = "tool" /\ m.ids = {emitted + 1}
    BY <2>2
  <2>3. ASSUME NEW p, Leads(chat', Coming', p)
        PROVE  signing = {} /\ ~disturbed /\ \E q \in Chat : Leads(chat, Coming, q) /\ p = After(q, m)
    <3>1. connected /\ synced /\ UNCHANGED <<resume, chat>>
      BY <1>1, <1>2
    <3>2. signing = {} /\ ~disturbed /\ \E q \in Chat : Leads(chat, Coming, q) /\ p = After(q, relayed)
      BY <1>1, <2>1, <2>2, <2>3, <3>1, Relayed
    <3>3. QED
      BY <2>b, <3>2
  <2>a. Ends(file) \subseteq Ends(file')
    <3>1. PICK e \in Entry : WritesLast(e, "tool", ids)
      BY <2>1, <2>2, LogWritten DEF TypeInv
    <3>2. file' = Append(file \o Flushed, e)
      BY <2>1, <3>1 DEF WritesLast
    <3>3. Ends(file) \subseteq Ends(file \o Flushed) /\ file \o Flushed \in Seq(Entry)
      BY FlushHolds DEF TypeInv
    <3>4. Ends(file \o Flushed) \subseteq Ends(Append(file \o Flushed, e))
      BY <3>3, EndsGrow
    <3>5. QED
      BY <3>2, <3>3, <3>4
  <2>4. ASSUME NEW p, Leads(chat', Coming', p) PROVE Fine(p)'
    <3>1. PICK q \in Chat : Leads(chat, Coming, q) /\ p = After(q, m)
      BY <2>3, <2>4
    <3>2. Fine(q) /\ signing = {}
      BY <1>1, <1>2, <2>3, <2>4, <3>1 DEF FollowInv
    <3>3. Fine(After(q, m))'
      BY <1>2, <1>3, <2>1, <2>b, <2>a, <3>2, ToolFine
    <3>4. QED
      BY <3>1, <3>3
  <2>5. signing' = {}
    <3>1. subscribed
      BY <1>1, <1>2 DEF Hearing
    <3>2. QED
      BY <1>1, <2>1, <3>1 DEF ToSession
  <2>6. QED
    BY <2>4, <2>5
<1>6. CASE SendsDone
  <2>1. PICK e \in signing : /\ signing' = signing \ {e} /\ ToSession("turn.done", e.ids, signing \ {e})
                             /\ UNCHANGED <<emitted, final, file>>
    BY <1>6 DEF SendsDone, logVars
  <2> DEFINE m == [k |-> "turn.done", ids |-> e.ids]
  <2>2. m \in Message /\ m.k = "turn.done" /\ m.ids = e.ids /\ m.ids \subseteq 1..emitted
    BY <2>1 DEF Message, TypeInv, TypeOK, Entry, TurnInv
  <2>3. ASSUME NEW p, Leads(chat', Coming', p)
        PROVE  signing \ {e} = {} /\ ~disturbed
               /\ \E q \in Chat : Leads(chat, Coming, q) /\ p = After(q, m)
    BY <1>1, <1>2, <2>1, <2>2, <2>3, Relayed
  <2> HIDE DEF m
  <2>4. signing' = {} /\ signing = {e} /\ ~disturbed
    <3>1. subscribed
      BY <1>1, <1>2 DEF Hearing
    <3>2. QED
      BY <1>1, <2>1, <3>1 DEF ToSession
  <2>5. ASSUME NEW p, Leads(chat', Coming', p) PROVE Fine(p)'
    <3>1. PICK q \in Chat : Leads(chat, Coming, q) /\ p = After(q, m)
      BY <2>3, <2>5
    <3>2. Fine(q) /\ final = {}
      BY <1>1, <1>2, <2>4, <3>1 DEF FollowInv
    <3>3. Fine(After(q, m))'
      BY <1>2, <2>1, <2>2, <2>4, <3>2, DoneFine
    <3>4. QED
      BY <3>1, <3>3
  <2>6. QED
    BY <2>4, <2>5
<1>7. QED
  BY <1>4, <1>5, <1>6

\* The end of a turn is logged; nothing is sent.
LEMMA FollowDone ==
    ASSUME TypeInv, TypeInv', LogInv, TurnInv, FollowInv, EmitsDone
    PROVE  FollowInv'
<1> DEFINE L == Logged("turn.done", final)
<1>1. SUFFICES ASSUME connected', synced', ~disturbed'
               PROVE  (signing # {} => final = {})' /\ \A p : Leads(chat', Coming', p) => Fine(p)'
  BY DEF FollowInv
<1>2. /\ UNCHANGED <<connected, synced, disturbed, chat, wire, resume, cut, lost>>
      /\ emitted < MaxEvents /\ emitted' = emitted + 1 /\ final' = {}
      /\ signing' = signing \cup {L[Len(L)]} /\ file' = file \o L
  BY DEF EmitsDone, clientVars, historyVars, Writes
<1>3. Coming' = Coming
  BY <1>2 DEF Coming, Backlog, Replaying
<1>4. /\ emitted \in Nat /\ final \subseteq 1..emitted /\ 1..(emitted + 1) = 1..emitted \cup {emitted + 1}
  BY TurnBelow
<1>5. PICK e \in Entry : WritesLast(e, "turn.done", final)
  BY <1>2, LogWritten DEF TypeInv, TypeOK
<1>6. e.k = "turn.done" /\ e.id = emitted + 1 /\ e.ids = final /\ L[Len(L)] = e
  BY <1>5 DEF WritesLast
<1>7. file' = Append(file \o Flushed, e)
  BY <1>2, <1>5 DEF WritesLast
<1>8. Ends(file) \cup {emitted + 1} \subseteq Ends(file')
  <2>1. Ends(file) \subseteq Ends(file \o Flushed) /\ file \o Flushed \in Seq(Entry)
    BY FlushHolds DEF TypeInv
  <2>2. Ends(file \o Flushed) \cup {emitted + 1} \subseteq Ends(Append(file \o Flushed, e))
    BY <1>6, <2>1, EndsGrow
  <2>3. QED
    BY <1>7, <2>1, <2>2
<1> HIDE DEF L
<1>9. e \notin signing
  <2>1. \A x \in signing : x.id <= emitted
    BY DEF TurnInv
  <2>2. QED
    BY <1>4, <1>6, <2>1
<1>10. ASSUME NEW p, Leads(chat', Coming', p) PROVE Fine(p)'
  <2>1. Fine(p)
    BY <1>1, <1>2, <1>3, <1>10 DEF FollowInv
  <2>2. Streams(p)'
    BY <2>1 DEF Fine, Streams
  <2>3. ShowsAll(p)'
    BY <1>2, <1>4, <1>8, <2>1 DEF Fine, ShowsAll
  <2>4. signing' # {} /\ \A x \in signing' : signing' = {x} => signing = {} /\ x = e
    BY <1>2, <1>6, <1>9
  <2>5. Remembers(p)'
    BY <1>2, <1>6, <2>1, <2>4 DEF Fine, Remembers, Due
  <2>6. QED
    BY <2>2, <2>3, <2>5 DEF Fine
<1>11. QED
  BY <1>2, <1>10

\* Nothing that was to come has changed, and nothing that it is measured by.
LEMMA FollowSame ==
    ASSUME FollowInv, Coming' = Coming, Ends(file) \subseteq Ends(file'),
           UNCHANGED <<connected, synced, disturbed, chat, signing, final, emitted, cut, lost>>
    PROVE  FollowInv'
<1>1. ASSUME NEW p, Fine(p) PROVE Fine(p)'
  BY <1>1 DEF Fine, Streams, ShowsAll, Remembers, Due
<1>2. QED
  BY <1>1 DEF FollowInv

\* A handler that reads the file makes what is coming the replay of the file.
LEMMA FollowReads ==
    ASSUME TypeInv, LogInv, TurnInv, EmptyInv, ChatInv, ReplayInv, NEW h \in Resumes, Reads(h)
    PROVE  FollowInv'
<1>1. SUFFICES ASSUME ~disturbed'
               PROVE  (signing # {} => final = {})' /\ \A p : Leads(chat', Coming', p) => Fine(p)'
  BY DEF FollowInv
<1>2. /\ UNCHANGED <<emitted, final, file, signing, lost, chat>> /\ cut' = buffer
      /\ Replaying = {} /\ signing = {} /\ ~TextCut
      /\ file = <<>> => chat.messages = <<>>
  BY <1>1 DEF Reads, logVars, clientVars
<1>3. PICK n \in 0..Len(file), before \in Seq(Message) :
        /\ Sends(h, file, n, before) /\ file \in Seq(Entry)
        /\ file = <<>> => before = <<>>
        /\ file # <<>> => before = <<[k |-> "replay_start", ids |-> {}]>>
  BY ReadsSends
<1>4. Coming' = wire \o (before \o Sent(file))
  BY <1>2, <1>3, ComingSent
<1>5. wire \in Seq(Message) /\ chat \in Chat /\ Sent(file) \in Seq(Message)
  BY <1>3, SentType DEF TypeInv, TypeOK, Chat
<1>6. CASE file = <<>>
  <2>1. before \o Sent(file) = <<>> \o <<>>
    BY <1>3, <1>6, SentNothing
  <2>2. <<>> \o <<>> = <<>>
    BY <1>5, EmptySeq, ConcatEmptySeq
  <2>3. wire \o <<>> = wire
    BY <1>5, ConcatEmptySeq
  <2>4. Coming' = wire
    BY <1>4, <2>1, <2>2, <2>3
  <2>5. QED
    BY <1>2, <1>6, <2>4, TokensFine
<1>7. CASE file # <<>>
  <2>0. [k |-> "replay_start", ids |-> {}] \in Message
    BY DEF Message
  <2>1. PICK m \in Message : m = [k |-> "replay_start", ids |-> {}] /\ m.k = "replay_start"
    BY <2>0
  <2>2. before = <<m>>
    BY <1>3, <1>7, <2>1
  <2> DEFINE f == Sent(file)
  <2>3. <<m>> \o f \in Seq(Message) /\ <<m>> \in Seq(Message) /\ f \in Seq(Message)
    BY <1>5, ConcatProperties
  <2>4. ~Torn(file) /\ ~EndsInText(file)
    <3>1. DOMAIN file = 1..Len(file) /\ Len(file) \in Nat \ {0}
      BY <1>3, <1>7, LenProperties, EmptySeq
    <3>2. Len(file) \in DOMAIN file
      BY <3>1
    <3>3. QED
      BY <1>2, <3>1, <3>2 DEF TextCut, Torn, EndsInText
  <2> HIDE DEF f
  <2>5. ASSUME NEW p, Leads(chat', Coming', p) PROVE Fine(p)'
    <3>1. Leads(chat, wire \o (<<m>> \o f), p)
      BY <1>2, <1>4, <2>2, <2>5 DEF f
    <3>2. PICK q \in Chat : Leads(q, <<m>> \o f, p)
      <4> DEFINE t == <<m>> \o f
      <4>1. t \in Seq(Message) /\ Leads(chat, wire \o t, p)
        BY <2>3, <3>1
      <4> HIDE DEF t
      <4>2. \E q \in Chat : Leads(chat, wire, q) /\ Leads(q, t, p)
        BY <1>5, <4>1, LeadsThrough
      <4>3. QED
        BY <4>2 DEF t
    <3>3. PICK r \in Chat : Leads(q, <<m>>, r) /\ Leads(r, f, p)
      BY <2>3, <3>2, LeadsThrough
    <3>4. r = Cleared(q.last) /\ q.last \in SUBSET Events
      BY <2>1, <3>3, LeadsOne, ReplayStartIs DEF Chat
    <3>5. Faithful(p, file) /\ (buffer = {} => final = {} \/ p.last = final)
      BY <2>4, <3>3, <3>4 DEF ReplayInv, f
    <3>6. QED
      BY <1>2, <1>7, <2>4, <3>5, ReplayFine
  <2>6. QED
    BY <1>2, <2>5
<1>8. QED
  BY <1>6, <1>7

\* Sending the next burst moves messages, it does not change what is coming.
LEMMA FollowSendsNext ==
    ASSUME TypeInv, Alone, FollowInv, NEW h \in Resumes, SendsNext(h)
    PROVE  FollowInv'
<1>1. UNCHANGED <<connected, synced, disturbed, chat, signing, final, emitted, file, cut, lost>>
  BY DEF SendsNext, logVars, clientVars, historyVars
<1>2. CASE disturbed
  BY <1>1, <1>2 DEF FollowInv
<1>3. CASE ~disturbed
  <2> DEFINE todo == resume[h].todo
  <2>1. /\ h \in Replaying /\ todo \in Seq(Entry)
        /\ \E n \in 0..Len(todo) : Sends(h, todo, n, <<>>)
    BY SendsNextSends
  <2>2. \A g \in Replaying : g = h
    BY <1>3, <2>1 DEF Alone
  <2>3. <<>> \in Seq(Message) /\ Sent(todo) \in Seq(Message) /\ wire \in Seq(Message)
    BY <2>1, EmptySeq, SentType DEF TypeInv, TypeOK
  <2>4. (CHOOSE g \in Replaying : TRUE) = h
    BY <2>1, <2>2
  <2>5. Coming = wire \o Sent(todo)
    BY <2>1, <2>4 DEF Coming, Backlog
  <2> HIDE DEF todo
  <2>6. Coming' = wire \o (<<>> \o Sent(todo))
    BY <2>1, <2>2, <2>3, ComingSent
  <2>7. <<>> \o Sent(todo) = Sent(todo)
    BY <2>3, ConcatEmptySeq
  <2>8. Coming' = Coming
    BY <2>5, <2>6, <2>7
  <2>9. QED
    BY <1>1, <2>8, FollowSame
<1>4. QED
  BY <1>2, <1>3

\* The first of two sequences in a row.
LEMMA HeadTailConcat ==
    ASSUME NEW s \in Seq(Message), s # <<>>, NEW t \in Seq(Message)
    PROVE  /\ s \o t # <<>> /\ s \o t \in Seq(Message)
           /\ Head(s \o t) = Head(s) /\ Tail(s \o t) = Tail(s) \o t
<1> DEFINE u == s \o t
           v == Tail(s)
           w == v \o t
<1>1. Len(s) \in Nat \ {0} /\ Len(t) \in Nat
  BY EmptySeq, LenProperties
<1>2. /\ u \in Seq(Message) /\ Len(u) = Len(s) + Len(t)
      /\ \A i \in 1..(Len(s) + Len(t)) : u[i] = IF i <= Len(s) THEN s[i] ELSE t[i - Len(s)]
  BY ConcatProperties
<1>3. v \in Seq(Message) /\ Len(v) = Len(s) - 1 /\ \A i \in 1..Len(v) : v[i] = s[i + 1]
  BY HeadTailProperties
<1> HIDE DEF u, v
<1>4. /\ w \in Seq(Message) /\ Len(w) = Len(v) + Len(t)
      /\ \A i \in 1..(Len(v) + Len(t)) : w[i] = IF i <= Len(v) THEN v[i] ELSE t[i - Len(v)]
  BY <1>3, ConcatProperties
<1> HIDE DEF w
<1>5. u # <<>>
  BY <1>1, <1>2, EmptySeq
<1>6. /\ Tail(u) \in Seq(Message) /\ Len(Tail(u)) = Len(u) - 1
      /\ \A i \in 1..Len(Tail(u)) : Tail(u)[i] = u[i + 1]
  BY <1>2, <1>5, HeadTailProperties
<1>7. ASSUME NEW i \in 1..Len(Tail(u)) PROVE Tail(u)[i] = w[i]
  <2>1. i \in 1..(Len(s) - 1 + Len(t)) /\ i + 1 \in 1..(Len(s) + Len(t))
    BY <1>1, <1>2, <1>6
  <2>2. CASE i + 1 <= Len(s)
    BY <1>1, <1>2, <1>3, <1>4, <1>6, <2>1, <2>2
  <2>3. CASE ~(i + 1 <= Len(s))
    <3>1. ~(i <= Len(v)) /\ i + 1 - Len(s) = i - Len(v) /\ i \in 1..(Len(v) + Len(t))
      BY <1>1, <1>3, <2>1, <2>3
    <3>2. u[i + 1] = t[i + 1 - Len(s)]
      BY <1>2, <2>1, <2>3
    <3>3. w[i] = t[i - Len(v)]
      BY <1>4, <3>1
    <3>4. QED
      BY <1>6, <3>1, <3>2, <3>3
  <2>4. QED
    BY <2>2, <2>3
<1>8. Tail(u) = w
  BY <1>1, <1>2, <1>3, <1>4, <1>6, <1>7, SeqEqual
<1>9. u[1] = s[1]
  BY <1>1, <1>2
<1>10. Head(u) = Head(s)
  BY <1>9
<1>11. QED
  BY <1>2, <1>5, <1>8, <1>10 DEF u, v, w

\* Receiving a message is a step on the way that is predicted.
LEMMA FollowReceives ==
    ASSUME TypeInv, FollowInv, Receives
    PROVE  FollowInv'
<1>1. /\ wire # <<>> /\ wire' = Tail(wire) /\ chat' = After(chat, Head(wire))
      /\ UNCHANGED <<connected, synced, disturbed, signing, final, emitted, file, cut, lost, resume>>
  BY DEF Receives, logVars, serverVars, historyVars
<1>2. Backlog' = Backlog
  BY <1>1 DEF Backlog, Replaying
<1>3. wire \in Seq(Message) /\ Backlog \in Seq(Message) /\ chat \in Chat
  BY ComingType DEF TypeInv, TypeOK, Chat
<1>4. /\ Coming # <<>> /\ Coming \in Seq(Message)
      /\ Head(Coming) = Head(wire) /\ Tail(Coming) = Coming'
  BY <1>1, <1>2, <1>3, HeadTailConcat DEF Coming
<1>5. ASSUME NEW p, Leads(chat', Coming', p) PROVE Leads(chat, Coming, p)
  <2>1. Leads(After(chat, Head(Coming)), Tail(Coming), p)
    BY <1>1, <1>4, <1>5
  <2>2. QED
    BY <1>3, <1>4, <2>1, LeadsFirst
<1>6. ASSUME NEW p, Fine(p) PROVE Fine(p)'
  BY <1>1, <1>6 DEF Fine, Streams, ShowsAll, Remembers, Due
<1>7. QED
  BY <1>1, <1>5, <1>6 DEF FollowInv

\* Every step keeps the prediction true.
LEMMA FollowStep ==
    ASSUME TypeInv, TypeInv', LogInv, TurnInv, Alone, Hearing, ChatInv, EmptyInv, ReplayInv,
           FollowInv, [Next]_vars
    PROVE  FollowInv'
<1>1. CASE EmitsToken \/ EmitsTool \/ SendsDone
  BY <1>1, FollowRelays
<1>2. CASE EmitsDone
  BY <1>2, FollowDone
<1>3. ASSUME NEW h \in Resumes, ResumeArrives(h) PROVE FollowInv'
  <2>1. /\ UNCHANGED <<connected, synced, disturbed, chat, wire, signing, final, emitted, file, cut, lost>>
        /\ resume[h].step = "idle" /\ resume' = [resume EXCEPT ![h].step = "waking"]
    BY <1>3 DEF ResumeArrives, logVars, historyVars
  <2>2. /\ \A g \in Resumes : g # h => resume'[g] = resume[g]
        /\ resume'[h].step = "waking"
    BY <2>1 DEF TypeInv, TypeOK
  <2>3. Replaying' = Replaying /\ h \notin Replaying
    BY <2>1, <2>2 DEF Replaying
  <2>4. ASSUME Replaying # {} PROVE (CHOOSE g \in Replaying : TRUE) \in Resumes \ {h}
    <3>1. (CHOOSE g \in Replaying : TRUE) \in Replaying
      BY <2>4
    <3>2. QED
      BY <2>3, <3>1 DEF Replaying
  <2>5. Backlog' = Backlog
    BY <2>2, <2>3, <2>4 DEF Backlog
  <2>6. QED
    BY <2>1, <2>5, FollowSame DEF Coming
<1>4. ASSUME NEW h \in Resumes, Reads(h) PROVE FollowInv'
  BY <1>4, FollowReads
<1>5. ASSUME NEW h \in Resumes, SendsNext(h) PROVE FollowInv'
  BY <1>5, FollowSendsNext
<1>6. CASE Connects \/ Revisits
  BY <1>6 DEF Connects, Revisits, FollowInv
<1>7. CASE Disconnects \/ Restarts
  BY <1>7, DropClears DEF Disconnects, Restarts, FollowInv
<1>8. CASE Receives
  BY <1>8, FollowReceives
<1>9. CASE Polls
  <2>1. /\ UNCHANGED <<connected, synced, disturbed, chat, wire, resume, signing, final, emitted, cut, lost>>
        /\ file' = file \o Flushed
    BY <1>9 DEF Polls, Writes, serverVars, clientVars, historyVars
  <2>2. Ends(file) \subseteq Ends(file')
    BY <2>1, FlushHolds DEF TypeInv
  <2>3. Coming' = Coming
    BY <2>1 DEF Coming, Backlog, Replaying
  <2>4. QED
    BY <2>1, <2>2, <2>3, FollowSame
<1>10. CASE UNCHANGED vars
  <2>1. Coming' = Coming
    BY <1>10 DEF Coming, Backlog, Replaying, vars, serverVars
  <2>2. QED
    BY <1>10, <2>1, FollowSame DEF vars, logVars, serverVars, clientVars, historyVars
<1>11. QED
  BY <1>1, <1>2, <1>3, <1>4, <1>5, <1>6, <1>7, <1>8, <1>9, <1>10 DEF Next, Relays, Resuming

\* All of it, from the beginning.
ChatsInv == /\ TypeInv /\ LogInv /\ TurnInv
            /\ Alone /\ Hearing /\ ChatInv /\ EmptyInv /\ ReplayInv /\ FollowInv

\* So all of it holds in every behaviour.
LEMMA ChatsAlways == Spec => []ChatsInv
<1>1. ASSUME Init PROVE TurnInv /\ Alone /\ Hearing /\ ChatInv /\ EmptyInv /\ FollowInv
  <2>1. /\ emitted = 0 /\ final = {} /\ buffer = {} /\ file = <<>> /\ signing = {} /\ wire = <<>>
        /\ connected = FALSE /\ chat = Blank /\ resume = [h \in Resumes |-> Idle]
    BY <1>1 DEF Init
  <2>2. \A h \in Resumes : resume[h].step = "idle" /\ resume[h].todo = <<>>
    BY <2>1 DEF Idle
  <2>3. Len(<<>>) = 0 /\ 1..0 = {}
    OBVIOUS
  <2>4. QED
    BY <2>1, <2>2, <2>3 DEF TurnInv, Alone, Hearing, ChatInv, EmptyInv, FollowInv, Replaying, Blank
<1>2. Init => TurnInv /\ Alone /\ Hearing /\ ChatInv /\ EmptyInv /\ FollowInv
  BY <1>1
<1>3. TypeInv /\ TypeInv' /\ LogInv /\ TurnInv /\ Alone /\ Hearing /\ ChatInv /\ EmptyInv /\ ReplayInv
      /\ FollowInv /\ [Next]_vars
      => TurnInv' /\ Alone' /\ Hearing' /\ ChatInv' /\ EmptyInv' /\ ReplayInv' /\ FollowInv'
  BY TurnStep, AloneStep, HearingStep, ChatStep, EmptyStep, ReplayStep, FollowStep
<1>4. QED
  BY <1>2, <1>3, ReplayFirst, OrderFirst, OrderKept, TypeAlways, PTL DEF Spec, ChatsInv

\* What the dashboard shows when nothing is on its way.
LEMMA QuietFine == ASSUME ChatsInv, Quiet, ~disturbed PROVE ShowsAll(chat)
<1>1. connected /\ synced /\ wire = <<>> /\ \A h \in Resumes : resume[h] = Idle
  BY DEF Quiet
<1>2. Replaying = {}
  BY <1>1 DEF Replaying, Idle
<1>3. Coming = <<>> /\ chat \in Chat
  BY <1>1, <1>2, ComingType DEF ChatsInv, TypeInv, TypeOK, Chat
<1>4. Leads(chat, Coming, chat)
  BY <1>3, LeadsNowhere
<1>5. QED
  BY <1>1, <1>4 DEF ChatsInv, FollowInv, Fine

\* However relay, replay, polls, reconnections and restarts are interleaved: a dashboard whose
\* connection has fallen silent shows every event, except tokens that were buffered when the
\* log was read, or when a server stopped.
THEOREM CaughtUpCorrect == Spec => []CaughtUp
<1>1. ChatsInv => CaughtUp
  <2>1. ASSUME ChatsInv, Quiet, ~disturbed PROVE 1..emitted \subseteq Shown \cup TurnEnds \cup cut \cup lost
    BY <2>1, QuietFine, TurnEndsAre DEF ShowsAll, AllOf, Shown
  <2>2. QED
    BY <2>1 DEF CaughtUp
<1>2. QED
  BY <1>1, ChatsAlways, PTL

\* And each event once and in order, but for a text that comes late with the end of its turn.
THEOREM ShownFaithfullyCorrect == Spec => []ShownFaithfully
<1>1. ChatsInv => ShownFaithfully
  <2>1. ASSUME ChatsInv, Quiet, ~disturbed
        PROVE  \A i, j \in DOMAIN chat.messages :
                 i < j /\ chat.messages[j] \cap cut = {} => Before(chat.messages[i], chat.messages[j])
    BY <2>1, QuietFine DEF ShowsAll, Ascending
  <2>2. QED
    BY <2>1 DEF ShownFaithfully
<1>2. QED
  BY <1>1, ChatsAlways, PTL
=============================================================================
