------------------------- MODULE TaskDispatchProofs -------------------------
(***************************************************************************)
(* Theorems about the dispatch of tasks, for every set of tasks, profiles  *)
(* and cancel requests, every limit and every bound.                       *)
(***************************************************************************)
EXTENDS TaskDispatch, TaskQueueLemmas

\* A cancel call in progress names a task.
LEMMA RequestedTask ==
    ASSUME TypeOK, NEW c \in Cancellers,
           request[c].step \in {"dequeued", "aborting", "writing"}
    PROVE  request[c].task \in Tasks
BY DEF TypeOK, NoRequest

\* Every step keeps the state in its types.
LEMMA TypeStep ==
    ASSUME TypeOK, [Next]_vars
    PROVE  TypeOK'
<1> USE ProfileAssumption, LimitAssumption, AttemptsAssumption, BoundsAssumption
    DEF Settled, Phases, Running
<1>1. ASSUME LoopDispatch
      PROVE  TypeOK'
  <2> DEFINE t == Head(queue)
  <2>1. t \in Tasks /\ Tail(queue) \in Seq(Tasks)
    BY <1>1, TailFacts DEF LoopDispatch, TypeOK
  <2>2. ProfileOf[t] \in Profiles
    BY <2>1
  <2>3. slots' = [slots EXCEPT ![ProfileOf[t]] = @ + 1]
    BY <1>1 DEF LoopDispatch
  <2>4. pc' = [pc EXCEPT ![t] = "starting"]
    BY <1>1 DEF LoopDispatch
  <2>5. queue' = Tail(queue)
    BY <1>1 DEF LoopDispatch
  <2> HIDE DEF t
  <2>6. slots' \in [Profiles -> Nat]
    BY <2>2, <2>3 DEF TypeOK
  <2>7. QED
    BY <1>1, <2>1, <2>4, <2>5, <2>6
       DEF LoopDispatch, TypeOK, dispatchVars, boundVars, historyVars
<1>2. ASSUME LoopBackOff
      PROVE  TypeOK'
  BY <1>2, TailFacts, EnqueuedFacts DEF LoopBackOff, TypeOK, dispatchVars, boundVars, historyVars
<1>3. ASSUME LoopEnds
      PROVE  TypeOK'
  BY <1>3 DEF LoopEnds, TypeOK, dispatchVars, boundVars, historyVars
<1>4. ASSUME NEW t \in Tasks, Submit(t)
      PROVE  TypeOK'
  BY <1>4 DEF Submit, TypeOK, dispatchVars, boundVars, historyVars
<1>5. ASSUME NEW t \in Tasks, EnqueueNew(t)
      PROVE  TypeOK'
  BY <1>5, EnqueuedFacts DEF EnqueueNew, Notified, TypeOK, dispatchVars, boundVars, historyVars
<1>6. ASSUME NEW t \in Tasks, Started(t)
      PROVE  TypeOK'
  BY <1>6 DEF Started, TypeOK, dispatchVars, boundVars, historyVars
<1>7. ASSUME NEW t \in Tasks, StartFails(t)
      PROVE  TypeOK'
  <2>1. leaked' \in [Profiles -> Nat] /\ stranded' \subseteq Tasks
    BY <1>7 DEF StartFails, TypeOK
  <2>2. pc' \in [Tasks -> {"new", "inserted", "out"} \cup Phases] /\ errors' \in 0..MaxErrors
    BY <1>7 DEF StartFails, TypeOK
  <2>3. QED
    BY <1>7, <2>1, <2>2 DEF StartFails, TypeOK
<1>8. ASSUME NEW t \in Tasks, Prepared(t)
      PROVE  TypeOK'
  BY <1>8 DEF Prepared, TypeOK, dispatchVars, boundVars, historyVars
<1>9. ASSUME NEW t \in Tasks, SetupDone(t)
      PROVE  TypeOK'
  BY <1>9 DEF SetupDone, TypeOK, dispatchVars, boundVars, historyVars
<1>10. ASSUME NEW t \in Tasks, ExecReturns(t)
       PROVE  TypeOK'
  BY <1>10 DEF ExecReturns, TypeOK, dispatchVars, boundVars, historyVars
<1>11. ASSUME NEW t \in Tasks, Revives(t)
       PROVE  TypeOK'
  BY <1>11 DEF Revives, TypeOK, dispatchVars, boundVars, historyVars
<1>12. ASSUME NEW t \in Tasks, Revived(t)
       PROVE  TypeOK'
  BY <1>12 DEF Revived, TypeOK, dispatchVars, boundVars, historyVars
<1>13. ASSUME NEW t \in Tasks, BodyThrows(t)
       PROVE  TypeOK'
  BY <1>13 DEF BodyThrows, Throw, TypeOK, dispatchVars, boundVars, historyVars
<1>14. ASSUME NEW t \in Tasks, Completed(t)
       PROVE  TypeOK'
  <2>1. CASE HasSession(t) /\ Finish(t)
    <3>1. slots' \in [Profiles -> Nat]
      BY <1>14, <2>1 DEF Finish, ReleasedSlots, TypeOK
    <3>2. /\ pc' \in [Tasks -> {"new", "inserted", "out"} \cup Phases]
          /\ watchdog' \in [Tasks -> {"off", "armed", "fired"}] /\ active' \subseteq Tasks
      BY <2>1 DEF Finish, TypeOK
    <3>3. /\ status' = [status EXCEPT ![t] = "done"]
          /\ terminals' = [terminals EXCEPT ![t] = @ + 1]
          /\ UNCHANGED <<queue, loop, attempt, failed, hung, killed, retryWait, request, errors,
                         restarts, extra, leaked, cancelled, stranded>>
      BY <1>14 DEF Completed, boundVars
    <3>4. terminals' \in [Tasks -> Nat]
      BY <3>3 DEF TypeOK
    <3>5. QED
      BY <3>1, <3>2, <3>3, <3>4 DEF TypeOK
  <2>2. CASE ~HasSession(t)
    <3>1. /\ pc' = [pc EXCEPT ![t] = "cleanup"]
          /\ UNCHANGED <<watchdog, slots, active>>
      BY <1>14, <2>2 DEF Completed
    <3>2. terminals' \in [Tasks -> Nat]
      BY <1>14 DEF Completed, TypeOK
    <3>3. QED
      BY <1>14, <3>1, <3>2 DEF Completed, TypeOK, boundVars
  <2>3. QED
    BY <1>14, <2>1, <2>2 DEF Completed
<1>15. ASSUME NEW t \in Tasks, CompleteFails(t)
       PROVE  TypeOK'
  <2>1. pc' \in [Tasks -> {"new", "inserted", "out"} \cup Phases]
    BY <1>15 DEF CompleteFails, Throw, TypeOK
  <2>2. failed' \in [Tasks -> BOOLEAN] /\ errors' \in 0..MaxErrors
    BY <1>15 DEF CompleteFails, Throw, TypeOK
  <2>3. QED
    BY <1>15, <2>1, <2>2 DEF CompleteFails, TypeOK, historyVars
<1>16. ASSUME NEW t \in Tasks, CleanedUp(t)
       PROVE  TypeOK'
  <2>1. CASE failed[t]
    BY <1>16, <2>1 DEF CleanedUp, TypeOK, boundVars, historyVars
  <2>2. CASE ~failed[t] /\ Finish(t)
    BY <1>16, <2>2 DEF CleanedUp, Finish, ReleasedSlots, TypeOK, boundVars, historyVars
  <2>3. QED
    BY <1>16, <2>1, <2>2 DEF CleanedUp
<1>17. ASSUME NEW t \in Tasks, CleanupThrows(t)
       PROVE  TypeOK'
  <2>1. pc' \in [Tasks -> {"new", "inserted", "out"} \cup Phases]
    BY <1>17 DEF CleanupThrows, TypeOK
  <2>2. failed' \in [Tasks -> BOOLEAN] /\ errors' \in 0..MaxErrors
    BY <1>17 DEF CleanupThrows, TypeOK
  <2>3. QED
    BY <1>17, <2>1, <2>2 DEF CleanupThrows, TypeOK, historyVars
<1>18. ASSUME NEW t \in Tasks, Retries(t)
       PROVE  TypeOK'
  BY <1>18 DEF Retries, Finish, ReleasedSlots, TypeOK, dispatchVars, boundVars, historyVars
<1>19. ASSUME NEW t \in Tasks, Fails(t)
       PROVE  TypeOK'
  BY <1>19 DEF Fails, Finish, ReleasedSlots, TypeOK, dispatchVars, boundVars, historyVars
<1>20. ASSUME NEW t \in Tasks, FailureWriteFails(t)
       PROVE  TypeOK'
  <2>1. slots' \in [Profiles -> Nat]
    BY <1>20 DEF FailureWriteFails, Finish, ReleasedSlots, TypeOK
  <2>2. /\ pc' \in [Tasks -> {"new", "inserted", "out"} \cup Phases]
        /\ watchdog' \in [Tasks -> {"off", "armed", "fired"}] /\ active' \subseteq Tasks
    BY <1>20 DEF FailureWriteFails, Finish, TypeOK
  <2>3. /\ errors' \in 0..MaxErrors /\ stranded' \subseteq Tasks
        /\ UNCHANGED <<queue, loop, status, attempt, failed, hung, killed, retryWait, request,
                       restarts, extra, leaked, cancelled, terminals>>
    BY <1>20 DEF FailureWriteFails, TypeOK
  <2>4. QED
    BY <2>1, <2>2, <2>3 DEF TypeOK
<1>21. ASSUME NEW t \in Tasks, RetryTimer(t)
       PROVE  TypeOK'
  BY <1>21, EnqueuedFacts DEF RetryTimer, Notified, TypeOK, dispatchVars, boundVars, historyVars
<1>22. ASSUME NEW t \in Tasks, WatchdogFires(t)
       PROVE  TypeOK'
  BY <1>22 DEF WatchdogFires, Abort, TypeOK, dispatchVars, boundVars, historyVars
<1>23. ASSUME NEW c \in Cancellers, NEW t \in Tasks, CancelQueued(c, t)
       PROVE  TypeOK'
  <2>1. Cancelled(queue, t) \in Seq(Tasks)
    BY <1>23, CancelledFacts, RemoveAtFacts DEF CancelQueued, TypeOK
  <2>2. QED
    BY <1>23, <2>1 DEF CancelQueued, Calls, TypeOK, dispatchVars, boundVars, historyVars
<1>24. ASSUME NEW c \in Cancellers, NEW t \in Tasks, CancelActive(c, t)
       PROVE  TypeOK'
  BY <1>24 DEF CancelActive, Abort, Calls, Idle, TypeOK, dispatchVars, boundVars, historyVars
<1>25. ASSUME NEW c \in Cancellers, NEW t \in Tasks, CancelRefused(c, t)
       PROVE  TypeOK'
  BY <1>25 DEF CancelRefused, Calls, TypeOK, dispatchVars, boundVars, historyVars
<1>26. ASSUME NEW c \in Cancellers, CancelQueuedWritten(c)
       PROVE  TypeOK'
  BY <1>26, RequestedTask DEF CancelQueuedWritten, Calls, TypeOK, dispatchVars, boundVars, historyVars
<1>27. ASSUME NEW c \in Cancellers, CancelAborted(c)
       PROVE  TypeOK'
  BY <1>27, RequestedTask DEF CancelAborted, Calls, TypeOK, dispatchVars, boundVars, historyVars
<1>28. ASSUME NEW c \in Cancellers, CancelActiveWritten(c)
       PROVE  TypeOK'
  <2> DEFINE t == request[c].task
             p == ProfileOf[t]
  <2>1. t \in Tasks /\ p \in Profiles
    BY <1>28, RequestedTask DEF CancelActiveWritten
  <2> HIDE DEF t, p
  <2>2. slots' \in [Profiles -> Nat]
    BY <1>28, <2>1 DEF CancelActiveWritten, ReleasedSlots, TypeOK, t, p
  <2>3. extra' \in [Profiles -> Nat]
    BY <1>28, <2>1 DEF CancelActiveWritten, TypeOK, t, p
  <2>4. request' = [request EXCEPT ![c] = [step |-> "answered", task |-> t]]
    BY <1>28 DEF CancelActiveWritten, Calls, t
  <2>5. QED
    BY <1>28, <2>1, <2>2, <2>3, <2>4 DEF CancelActiveWritten, TypeOK, boundVars, t
<1>29. ASSUME NEW c \in Cancellers, CancelWriteFails(c)
       PROVE  TypeOK'
  <2>1. request[c].task \in Tasks
    BY <1>29, RequestedTask DEF CancelWriteFails
  <2>2. errors' \in 0..MaxErrors
    BY <1>29 DEF CancelWriteFails, TypeOK
  <2>3. stranded' \subseteq Tasks
    BY <1>29, <2>1 DEF CancelWriteFails, TypeOK
  <2>4. QED
    BY <1>29, <2>1, <2>2, <2>3 DEF CancelWriteFails, Calls, TypeOK, dispatchVars
<1>30. ASSUME NEW c \in Cancellers, NEW s, CancelBySession(c, s)
       PROVE  TypeOK'
  <2>1. CASE \E t \in active : SessionOf[t] = s /\ CancelActive(c, t)
    BY <2>1, <1>24 DEF TypeOK
  <2>2. CASE ~(\E t \in active : SessionOf[t] = s /\ CancelActive(c, t))
    <3> DEFINE i == SessionIndex(queue, s)
    <3>1. i \in 1..Len(queue)
      BY <1>30, <2>2, SessionIndexFacts DEF CancelBySession, TypeOK
    <3>2. queue' = RemoveAt(queue, i) /\ Calls(c, "dequeued", queue[i])
      BY <1>30, <2>2 DEF CancelBySession
    <3> HIDE DEF i
    <3>3. queue' \in Seq(Tasks)
      BY <3>1, <3>2, RemoveAtFacts DEF TypeOK
    <3>4. queue[i] \in Tasks
      BY <3>1 DEF TypeOK
    <3>5. UNCHANGED <<loop, slots, status, attempt, dispatchVars, retryWait, boundVars,
                      historyVars>>
      BY <1>30, <2>2 DEF CancelBySession
    <3>6. QED
      BY <3>2, <3>3, <3>4, <3>5 DEF Calls, TypeOK, dispatchVars, boundVars, historyVars
  <2>3. QED
    BY <2>1, <2>2
<1>31. CASE Restart
  <2>1. request' \in [Cancellers ->
                      [step : {"dequeued", "aborting", "writing", "refused", "answered"},
                       task : Tasks] \cup {NoRequest}]
    <3>1. SUFFICES ASSUME NEW c \in Cancellers, request[c] # NoRequest
                   PROVE  [request[c] EXCEPT !.step = "answered"] \in
                            [step : {"dequeued", "aborting", "writing", "refused", "answered"},
                             task : Tasks]
      BY <1>31 DEF Restart
    <3>2. QED
      BY <3>1 DEF TypeOK
  <2>2. pc' = [t \in Tasks |-> IF pc[t] = "new" THEN "new" ELSE "out"]
    BY <1>31 DEF Restart
  <2>3. restarts' \in 0..MaxRestarts
    <3>1. restarts < MaxRestarts /\ restarts' = restarts + 1
      BY <1>31 DEF Restart
    <3>2. QED
      BY <3>1 DEF TypeOK
  <2>4. stranded' \subseteq Tasks
    BY <1>31 DEF Restart
  <2>5. status' = [t \in Tasks |-> IF status[t] \in Live THEN "failed" ELSE status[t]]
    BY <1>31 DEF Restart, StaleFailed
  <2>6. QED
    BY <1>31, <2>1, <2>2, <2>3, <2>4, <2>5 DEF Restart, TypeOK
<1>32. CASE UNCHANGED vars
  BY <1>32 DEF vars, TypeOK, dispatchVars, boundVars, historyVars
<1>33. QED
  BY <1>1, <1>2, <1>3, <1>4, <1>5, <1>6, <1>7, <1>8, <1>9, <1>10, <1>11, <1>12,
     <1>13, <1>14, <1>15, <1>16, <1>17, <1>18, <1>19, <1>20, <1>21, <1>22, <1>23,
     <1>24, <1>25, <1>26, <1>27, <1>28, <1>29, <1>30, <1>31, <1>32
     DEF Next, Loop, Dispatch, Failure, CancelCall, CancelProgress

\* The state is always well typed.
THEOREM TypeCorrect == Spec => []TypeOK
<1>1. Init => TypeOK
  BY ProfileAssumption, LimitAssumption, AttemptsAssumption, BoundsAssumption
     DEF Init, TypeOK
<1>2. TypeOK /\ [Next]_vars => TypeOK'
  BY TypeStep
<1>3. QED
  BY <1>1, <1>2, PTL DEF Spec
-----------------------------------------------------------------------------
\* A step that moves nothing into or out of the queue and the retry timers, and
\* starts no dispatch, keeps every task in one place.
LEMMA PlacesKept ==
    ASSUME TypeOK, OnePlace, UNCHANGED <<queue, retryWait>>,
           \A t \in Tasks : pc[t] = "out" => pc'[t] = "out"
    PROVE  OnePlace'
BY DEF OnePlace, Contains, IsInjective

\* Every step keeps every task in one place.
LEMMA PlaceStep ==
    ASSUME TypeOK, OnePlace, [Next]_vars
    PROVE  OnePlace'
<1>1. ASSUME LoopDispatch
      PROVE  OnePlace'
  <2> DEFINE u == Head(queue)
             q == Tail(queue)
  <2>1. /\ u \in Tasks /\ Contains(queue, u)
        /\ \A x : Contains(q, x) => Contains(queue, x)
        /\ IsInjective(q) /\ ~Contains(q, u)
    BY <1>1, TailFacts DEF LoopDispatch, OnePlace, TypeOK
  <2>2. queue' = q /\ pc' = [pc EXCEPT ![u] = "starting"] /\ retryWait' = retryWait
    BY <1>1 DEF LoopDispatch
  <2> HIDE DEF u, q
  <2>3. \A x \in Tasks \ {u} : pc'[x] = pc[x]
    BY <2>1, <2>2 DEF TypeOK
  <2>4. pc[u] = "out" /\ u \notin retryWait
    BY <2>1 DEF OnePlace
  <2>5. IsInjective(queue')
    BY <2>1, <2>2
  <2>6. ASSUME NEW x \in Tasks, Contains(queue', x)
        PROVE  pc'[x] = "out" /\ x \notin retryWait'
    BY <2>1, <2>2, <2>3, <2>6 DEF OnePlace
  <2>7. ASSUME NEW x \in Tasks, x \in retryWait'
        PROVE  pc'[x] = "out"
    BY <2>2, <2>3, <2>4, <2>7 DEF OnePlace
  <2>8. QED
    BY <2>5, <2>6, <2>7 DEF OnePlace
<1>2. ASSUME LoopBackOff
      PROVE  OnePlace'
  <2> DEFINE u == Head(queue)
             q == Tail(queue)
  <2>1. /\ u \in Tasks /\ Contains(queue, u) /\ q \in Seq(Tasks)
        /\ \A x : Contains(q, x) => Contains(queue, x)
        /\ IsInjective(q) /\ ~Contains(q, u)
    BY <1>2, TailFacts DEF LoopBackOff, OnePlace, TypeOK
  <2>2. queue' = Enqueued(q, u) /\ UNCHANGED <<pc, retryWait>>
    BY <1>2 DEF LoopBackOff, dispatchVars
  <2> HIDE DEF u, q
  <2>3. IsInjective(queue') /\ \A x : Contains(queue', x) => Contains(queue, x)
    BY <2>1, <2>2, EnqueuedFacts
  <2>4. QED
    BY <2>2, <2>3 DEF OnePlace
<1>3. ASSUME LoopEnds
      PROVE  OnePlace'
  BY <1>3, PlacesKept DEF LoopEnds, dispatchVars
<1>4. ASSUME NEW t \in Tasks, Submit(t)
      PROVE  OnePlace'
  BY <1>4, PlacesKept DEF Submit, TypeOK, Phases
<1>5. ASSUME NEW t \in Tasks, EnqueueNew(t)
      PROVE  OnePlace'
  <2>1. queue' = Enqueued(queue, t) /\ ~Contains(queue, t)
    BY <1>5 DEF EnqueueNew, OnePlace
  <2>2. IsInjective(queue') /\ \A x : Contains(queue', x) <=> x = t \/ Contains(queue, x)
    BY <2>1, EnqueuedFacts DEF OnePlace, TypeOK
  <2>3. t \notin retryWait /\ retryWait' = retryWait /\ pc' = [pc EXCEPT ![t] = "out"]
    BY <1>5 DEF EnqueueNew, OnePlace
  <2>4. QED
    BY <2>2, <2>3 DEF OnePlace, TypeOK
<1>6. ASSUME NEW t \in Tasks, Started(t)
      PROVE  OnePlace'
  BY <1>6, PlacesKept DEF Started, TypeOK, Phases
<1>7. ASSUME NEW t \in Tasks, StartFails(t)
      PROVE  OnePlace'
  BY <1>7, PlacesKept DEF StartFails, TypeOK, Phases
<1>8. ASSUME NEW t \in Tasks, Prepared(t)
      PROVE  OnePlace'
  BY <1>8, PlacesKept DEF Prepared, TypeOK, Phases
<1>9. ASSUME NEW t \in Tasks, SetupDone(t)
      PROVE  OnePlace'
  BY <1>9, PlacesKept DEF SetupDone, TypeOK, Phases
<1>10. ASSUME NEW t \in Tasks, ExecReturns(t)
       PROVE  OnePlace'
  BY <1>10, PlacesKept DEF ExecReturns, ExecEnds, Running, TypeOK, Phases
<1>11. ASSUME NEW t \in Tasks, Revives(t)
       PROVE  OnePlace'
  BY <1>11, PlacesKept DEF Revives, TypeOK, Phases
<1>12. ASSUME NEW t \in Tasks, Revived(t)
       PROVE  OnePlace'
  BY <1>12, PlacesKept DEF Revived, TypeOK, Phases
<1>13. ASSUME NEW t \in Tasks, BodyThrows(t)
       PROVE  OnePlace'
  BY <1>13, PlacesKept DEF BodyThrows, ExecEnds, Running, Throw, TypeOK, Phases
<1>14. ASSUME NEW t \in Tasks, Completed(t)
       PROVE  OnePlace'
  BY <1>14, PlacesKept DEF Completed, Finish, TypeOK, Phases
<1>15. ASSUME NEW t \in Tasks, CompleteFails(t)
       PROVE  OnePlace'
  BY <1>15, PlacesKept DEF CompleteFails, Throw, TypeOK, Phases
<1>16. ASSUME NEW t \in Tasks, CleanedUp(t)
       PROVE  OnePlace'
  BY <1>16, PlacesKept DEF CleanedUp, Finish, TypeOK, Phases
<1>17. ASSUME NEW t \in Tasks, CleanupThrows(t)
       PROVE  OnePlace'
  BY <1>17, PlacesKept DEF CleanupThrows, TypeOK, Phases
<1>18. ASSUME NEW t \in Tasks, Retries(t)
       PROVE  OnePlace'
  <2>1. /\ pc[t] = "failing" /\ pc' = [pc EXCEPT ![t] = "out"]
        /\ retryWait' = retryWait \cup {t} /\ queue' = queue
    BY <1>18 DEF Retries, Finish
  <2>2. ~Contains(queue, t)
    BY <2>1 DEF OnePlace
  <2>3. QED
    BY <2>1, <2>2 DEF OnePlace, TypeOK, Contains, IsInjective
<1>19. ASSUME NEW t \in Tasks, Fails(t)
       PROVE  OnePlace'
  BY <1>19, PlacesKept DEF Fails, Finish, TypeOK, Phases
<1>20. ASSUME NEW t \in Tasks, FailureWriteFails(t)
       PROVE  OnePlace'
  BY <1>20, PlacesKept DEF FailureWriteFails, Finish, TypeOK, Phases
<1>21. ASSUME NEW t \in Tasks, RetryTimer(t)
       PROVE  OnePlace'
  <2>1. queue' = Enqueued(queue, t) /\ ~Contains(queue, t)
    BY <1>21 DEF RetryTimer, OnePlace
  <2>2. IsInjective(queue') /\ \A x : Contains(queue', x) <=> x = t \/ Contains(queue, x)
    BY <2>1, EnqueuedFacts DEF OnePlace, TypeOK
  <2>3. pc[t] = "out" /\ pc' = pc /\ retryWait' = retryWait \ {t}
    BY <1>21 DEF RetryTimer, dispatchVars, OnePlace
  <2>4. QED
    BY <2>2, <2>3 DEF OnePlace
<1>22. ASSUME NEW t \in Tasks, WatchdogFires(t)
       PROVE  OnePlace'
  BY <1>22, PlacesKept DEF WatchdogFires
<1>23. ASSUME NEW c \in Cancellers, NEW t \in Tasks, CancelQueued(c, t)
       PROVE  OnePlace'
  <2>1. PICK i \in 1..Len(queue) : queue' = RemoveAt(queue, i)
    BY <1>23, CancelledFacts DEF CancelQueued, TypeOK
  <2>2. IsInjective(queue') /\ \A x : Contains(queue', x) => Contains(queue, x)
    BY <2>1, RemoveAtFacts DEF OnePlace, TypeOK
  <2>3. QED
    BY <1>23, <2>2 DEF CancelQueued, OnePlace, dispatchVars
<1>24. ASSUME NEW c \in Cancellers, NEW t \in Tasks, CancelActive(c, t)
       PROVE  OnePlace'
  BY <1>24, PlacesKept DEF CancelActive
<1>25. ASSUME NEW c \in Cancellers, NEW t \in Tasks, CancelRefused(c, t)
       PROVE  OnePlace'
  BY <1>25, PlacesKept DEF CancelRefused, dispatchVars
<1>26. ASSUME NEW c \in Cancellers, CancelQueuedWritten(c)
       PROVE  OnePlace'
  BY <1>26, PlacesKept DEF CancelQueuedWritten, dispatchVars
<1>27. ASSUME NEW c \in Cancellers, CancelAborted(c)
       PROVE  OnePlace'
  BY <1>27, PlacesKept DEF CancelAborted, dispatchVars
<1>28. ASSUME NEW c \in Cancellers, CancelActiveWritten(c)
       PROVE  OnePlace'
  BY <1>28, PlacesKept DEF CancelActiveWritten
<1>29. ASSUME NEW c \in Cancellers, CancelWriteFails(c)
       PROVE  OnePlace'
  BY <1>29, PlacesKept DEF CancelWriteFails, dispatchVars
<1>30. ASSUME NEW c \in Cancellers, NEW s, CancelBySession(c, s)
       PROVE  OnePlace'
  <2>1. CASE \E t \in active : SessionOf[t] = s /\ CancelActive(c, t)
    BY <2>1, <1>24 DEF TypeOK
  <2>2. CASE ~(\E t \in active : SessionOf[t] = s /\ CancelActive(c, t))
    <3>1. /\ SessionIndex(queue, s) \in 1..Len(queue)
          /\ queue' = RemoveAt(queue, SessionIndex(queue, s)) /\ UNCHANGED <<pc, retryWait>>
      BY <1>30, <2>2, SessionIndexFacts DEF CancelBySession, TypeOK, dispatchVars
    <3>2. IsInjective(queue') /\ \A x : Contains(queue', x) => Contains(queue, x)
      BY <3>1, RemoveAtFacts DEF OnePlace, TypeOK
    <3>3. QED
      BY <3>1, <3>2 DEF OnePlace
  <2>3. QED
    BY <2>1, <2>2
<1>31. CASE Restart
  BY <1>31 DEF Restart, OnePlace, Contains, IsInjective
<1>32. CASE UNCHANGED vars
  BY <1>32, PlacesKept DEF vars, dispatchVars
<1>33. QED
  BY <1>1, <1>2, <1>3, <1>4, <1>5, <1>6, <1>7, <1>8, <1>9, <1>10, <1>11, <1>12,
     <1>13, <1>14, <1>15, <1>16, <1>17, <1>18, <1>19, <1>20, <1>21, <1>22, <1>23, <1>24,
     <1>25, <1>26, <1>27, <1>28, <1>29, <1>30, <1>31, <1>32
     DEF Next, Loop, Dispatch, Failure, CancelCall, CancelProgress

-----------------------------------------------------------------------------
\* The dispatches in flight are finitely many.
LEMMA FlightsFinite ==
    ASSUME NEW p \in Profiles
    PROVE  IsFiniteSet(InFlight(p)) /\ Cardinality(InFlight(p)) \in Nat
<1>1. InFlight(p) \subseteq Tasks
  BY DEF InFlight
<1>2. QED
  BY <1>1, TasksAssumption, FS_Subset, FS_CardinalityType

\* A step that moves no task into or out of flight and touches no slot.
LEMMA SlotsKept ==
    ASSUME SlotAccounting, UNCHANGED <<slots, leaked, extra>>,
           \A t \in Tasks : pc'[t] \in Phases <=> pc[t] \in Phases
    PROVE  SlotAccounting'
<1>1. \A p \in Profiles : InFlight(p)' = InFlight(p)
  BY DEF InFlight
<1>2. QED
  BY <1>1 DEF SlotAccounting

\* A dispatch that leaves flight counts one less at its profile, no less at the
\* others.
LEMMA Landed ==
    ASSUME TypeOK, NEW t \in Tasks, pc[t] \in Phases, pc' = [pc EXCEPT ![t] = "out"],
           NEW p \in Profiles
    PROVE  /\ p = ProfileOf[t] => /\ Cardinality(InFlight(p)) \in Nat \ {0}
                                  /\ Cardinality(InFlight(p))' = Cardinality(InFlight(p)) - 1
           /\ p # ProfileOf[t] => Cardinality(InFlight(p))' = Cardinality(InFlight(p))
<1>1. CASE p = ProfileOf[t]
  <2>1. t \in InFlight(p) /\ InFlight(p)' = InFlight(p) \ {t}
    BY <1>1 DEF InFlight, TypeOK, Phases
  <2>2. Cardinality(InFlight(p) \ {t}) = Cardinality(InFlight(p)) - 1
    BY <2>1, FlightsFinite, FS_RemoveElement
  <2>3. Cardinality(InFlight(p)) # 0
    BY <2>1, FlightsFinite, FS_EmptySet
  <2>4. QED
    BY <1>1, <2>1, <2>2, <2>3, FlightsFinite
<1>2. CASE p # ProfileOf[t]
  <2>1. InFlight(p)' = InFlight(p)
    BY <1>2 DEF InFlight, TypeOK
  <2>2. QED
    BY <1>2, <2>1
<1>3. QED
  BY <1>1, <1>2

\* dispatchTask's finally keeps the books: one dispatch and one slot less, or no
\* slot less when a cancel already took the last one.
LEMMA FinishBalances ==
    ASSUME TypeOK, SlotAccounting, NEW t \in Tasks, pc[t] \in Phases, Finish(t),
           UNCHANGED <<leaked, extra>>
    PROVE  SlotAccounting'
<1> SUFFICES ASSUME NEW p \in Profiles
             PROVE  /\ slots'[p] <= Cardinality(InFlight(p))' + leaked'[p]
                    /\ Cardinality(InFlight(p))' <= slots'[p] + extra'[p]
                    /\ slots'[p] <= Limit
  BY DEF SlotAccounting
<1>1. /\ slots[p] \in Nat /\ leaked[p] \in Nat /\ extra[p] \in Nat
      /\ Cardinality(InFlight(p)) \in Nat /\ Limit \in Nat
  BY FlightsFinite, LimitAssumption DEF TypeOK
<1>2. /\ slots[p] <= Cardinality(InFlight(p)) + leaked[p]
      /\ Cardinality(InFlight(p)) <= slots[p] + extra[p]
      /\ slots[p] <= Limit
  BY DEF SlotAccounting
<1>3. pc' = [pc EXCEPT ![t] = "out"] /\ slots' = ReleasedSlots(ProfileOf[t])
  BY DEF Finish
<1>4. CASE p = ProfileOf[t]
  <2>1. slots'[p] = IF slots[p] > 0 THEN slots[p] - 1 ELSE 0
    BY <1>3, <1>4 DEF ReleasedSlots, TypeOK
  <2>2. /\ Cardinality(InFlight(p)) \in Nat \ {0}
        /\ Cardinality(InFlight(p))' = Cardinality(InFlight(p)) - 1
    BY <1>3, <1>4, Landed
  <2>3. QED
    BY <1>1, <1>2, <2>1, <2>2
<1>5. CASE p # ProfileOf[t]
  <2>1. slots'[p] = slots[p]
    BY <1>3, <1>5 DEF ReleasedSlots, TypeOK
  <2>2. Cardinality(InFlight(p))' = Cardinality(InFlight(p))
    BY <1>3, <1>5, Landed
  <2>3. QED
    BY <1>2, <2>1, <2>2
<1>6. QED
  BY <1>4, <1>5

\* Every step keeps the books of the limiter.
LEMMA SlotStep ==
    ASSUME TypeOK, OnePlace, SlotAccounting, [Next]_vars
    PROVE  SlotAccounting'
<1>1. ASSUME LoopDispatch
      PROVE  SlotAccounting'
  <2> SUFFICES ASSUME NEW p \in Profiles
               PROVE  /\ slots'[p] <= Cardinality(InFlight(p))' + leaked'[p]
                      /\ Cardinality(InFlight(p))' <= slots'[p] + extra'[p]
                      /\ slots'[p] <= Limit
    BY DEF SlotAccounting
  <2>1. /\ slots[p] \in Nat /\ leaked[p] \in Nat /\ extra[p] \in Nat
        /\ Cardinality(InFlight(p)) \in Nat /\ Limit \in Nat
    BY FlightsFinite, LimitAssumption DEF TypeOK
  <2>2. /\ slots[p] <= Cardinality(InFlight(p)) + leaked[p]
        /\ Cardinality(InFlight(p)) <= slots[p] + extra[p]
        /\ slots[p] <= Limit
    BY DEF SlotAccounting
  <2> DEFINE u == Head(queue)
  <2>3. u \in Tasks /\ pc[u] = "out"
    BY <1>1, TailFacts DEF LoopDispatch, OnePlace, TypeOK
  <2>4. /\ slots[ProfileOf[u]] < Limit /\ slots' = [slots EXCEPT ![ProfileOf[u]] = @ + 1]
        /\ pc' = [pc EXCEPT ![u] = "starting"] /\ UNCHANGED <<leaked, extra>>
    BY <1>1 DEF LoopDispatch, Acquirable, historyVars
  <2> HIDE DEF u
  <2>5. CASE p = ProfileOf[u]
    <3>1. u \notin InFlight(p) /\ InFlight(p)' = InFlight(p) \cup {u}
      BY <2>3, <2>4, <2>5 DEF InFlight, TypeOK, Phases
    <3>2. Cardinality(InFlight(p))' = Cardinality(InFlight(p)) + 1
      BY <3>1, FlightsFinite, FS_AddElement
    <3>3. slots'[p] = slots[p] + 1
      BY <2>4, <2>5 DEF TypeOK
    <3>4. QED
      BY <2>1, <2>2, <2>4, <2>5, <3>2, <3>3
  <2>6. CASE p # ProfileOf[u]
    <3>1. InFlight(p)' = InFlight(p) /\ slots'[p] = slots[p]
      BY <2>3, <2>4, <2>6 DEF InFlight, TypeOK
    <3>2. QED
      BY <2>2, <2>4, <3>1
  <2>7. QED
    BY <2>5, <2>6
<1>2. ASSUME LoopBackOff
      PROVE  SlotAccounting'
  BY <1>2, SlotsKept DEF LoopBackOff, dispatchVars, historyVars
<1>3. ASSUME LoopEnds
      PROVE  SlotAccounting'
  BY <1>3, SlotsKept DEF LoopEnds, dispatchVars, historyVars
<1>4. ASSUME NEW t \in Tasks, Submit(t)
      PROVE  SlotAccounting'
  BY <1>4, SlotsKept DEF Submit, historyVars, TypeOK, Phases
<1>5. ASSUME NEW t \in Tasks, EnqueueNew(t)
      PROVE  SlotAccounting'
  BY <1>5, SlotsKept DEF EnqueueNew, historyVars, TypeOK, Phases
<1>6. ASSUME NEW t \in Tasks, Started(t)
      PROVE  SlotAccounting'
  BY <1>6, SlotsKept DEF Started, historyVars, TypeOK, Phases
<1>7. ASSUME NEW t \in Tasks, StartFails(t)
      PROVE  SlotAccounting'
  <2> SUFFICES ASSUME NEW p \in Profiles
               PROVE  /\ slots'[p] <= Cardinality(InFlight(p))' + leaked'[p]
                      /\ Cardinality(InFlight(p))' <= slots'[p] + extra'[p]
                      /\ slots'[p] <= Limit
    BY DEF SlotAccounting
  <2>1. /\ slots[p] \in Nat /\ leaked[p] \in Nat /\ extra[p] \in Nat
        /\ Cardinality(InFlight(p)) \in Nat /\ Limit \in Nat
    BY FlightsFinite, LimitAssumption DEF TypeOK
  <2>2. /\ slots[p] <= Cardinality(InFlight(p)) + leaked[p]
        /\ Cardinality(InFlight(p)) <= slots[p] + extra[p]
        /\ slots[p] <= Limit
    BY DEF SlotAccounting
  <2>3. /\ pc[t] \in Phases /\ pc' = [pc EXCEPT ![t] = "out"]
        /\ leaked' = [leaked EXCEPT ![ProfileOf[t]] = @ + 1] /\ UNCHANGED <<slots, extra>>
    BY <1>7 DEF StartFails, Phases
  <2>4. CASE p = ProfileOf[t]
    <3>1. leaked'[p] = leaked[p] + 1
      BY <2>3, <2>4 DEF TypeOK
    <3>2. Cardinality(InFlight(p))' = Cardinality(InFlight(p)) - 1
      BY <2>3, <2>4, Landed
    <3>3. QED
      BY <2>1, <2>2, <2>3, <3>1, <3>2
  <2>5. CASE p # ProfileOf[t]
    <3>1. leaked'[p] = leaked[p]
      BY <2>3, <2>5 DEF TypeOK
    <3>2. Cardinality(InFlight(p))' = Cardinality(InFlight(p))
      BY <2>3, <2>5, Landed
    <3>3. QED
      BY <2>2, <2>3, <3>1, <3>2
  <2>6. QED
    BY <2>4, <2>5
<1>8. ASSUME NEW t \in Tasks, Prepared(t)
      PROVE  SlotAccounting'
  BY <1>8, SlotsKept DEF Prepared, historyVars, TypeOK, Phases
<1>9. ASSUME NEW t \in Tasks, SetupDone(t)
      PROVE  SlotAccounting'
  BY <1>9, SlotsKept DEF SetupDone, historyVars, TypeOK, Phases
<1>10. ASSUME NEW t \in Tasks, ExecReturns(t)
       PROVE  SlotAccounting'
  BY <1>10, SlotsKept DEF ExecReturns, ExecEnds, Running, historyVars, TypeOK, Phases
<1>11. ASSUME NEW t \in Tasks, Revives(t)
       PROVE  SlotAccounting'
  BY <1>11, SlotsKept DEF Revives, historyVars, TypeOK, Phases
<1>12. ASSUME NEW t \in Tasks, Revived(t)
       PROVE  SlotAccounting'
  BY <1>12, SlotsKept DEF Revived, historyVars, TypeOK, Phases
<1>13. ASSUME NEW t \in Tasks, BodyThrows(t)
       PROVE  SlotAccounting'
  BY <1>13, SlotsKept DEF BodyThrows, ExecEnds, Running, Throw, historyVars, TypeOK, Phases
<1>14. ASSUME NEW t \in Tasks, Completed(t)
       PROVE  SlotAccounting'
  <2>1. CASE HasSession(t) /\ Finish(t)
    BY <1>14, <2>1, FinishBalances DEF Completed, Phases
  <2>2. CASE ~(HasSession(t) /\ Finish(t))
    BY <1>14, <2>2, SlotsKept DEF Completed, TypeOK, Phases
  <2>3. QED
    BY <2>1, <2>2
<1>15. ASSUME NEW t \in Tasks, CompleteFails(t)
       PROVE  SlotAccounting'
  BY <1>15, SlotsKept DEF CompleteFails, Throw, historyVars, TypeOK, Phases
<1>16. ASSUME NEW t \in Tasks, CleanedUp(t)
       PROVE  SlotAccounting'
  <2>1. CASE failed[t]
    BY <1>16, <2>1, SlotsKept DEF CleanedUp, historyVars, TypeOK, Phases
  <2>2. CASE ~failed[t]
    BY <1>16, <2>2, FinishBalances DEF CleanedUp, historyVars, Phases
  <2>3. QED
    BY <2>1, <2>2
<1>17. ASSUME NEW t \in Tasks, CleanupThrows(t)
       PROVE  SlotAccounting'
  BY <1>17, SlotsKept DEF CleanupThrows, historyVars, TypeOK, Phases
<1>18. ASSUME NEW t \in Tasks, Retries(t)
       PROVE  SlotAccounting'
  BY <1>18, FinishBalances DEF Retries, historyVars, Phases
<1>19. ASSUME NEW t \in Tasks, Fails(t)
       PROVE  SlotAccounting'
  BY <1>19, FinishBalances DEF Fails, Phases
<1>20. ASSUME NEW t \in Tasks, FailureWriteFails(t)
       PROVE  SlotAccounting'
  BY <1>20, FinishBalances DEF FailureWriteFails, Phases
<1>21. ASSUME NEW t \in Tasks, RetryTimer(t)
       PROVE  SlotAccounting'
  BY <1>21, SlotsKept DEF RetryTimer, dispatchVars, historyVars, TypeOK, Phases
<1>22. ASSUME NEW t \in Tasks, WatchdogFires(t)
       PROVE  SlotAccounting'
  BY <1>22, SlotsKept DEF WatchdogFires, historyVars, TypeOK, Phases
<1>23. ASSUME NEW c \in Cancellers, NEW t \in Tasks, CancelQueued(c, t)
       PROVE  SlotAccounting'
  BY <1>23, SlotsKept DEF CancelQueued, dispatchVars, historyVars
<1>24. ASSUME NEW c \in Cancellers, NEW t \in Tasks, CancelActive(c, t)
       PROVE  SlotAccounting'
  BY <1>24, SlotsKept DEF CancelActive, historyVars
<1>25. ASSUME NEW c \in Cancellers, NEW t \in Tasks, CancelRefused(c, t)
       PROVE  SlotAccounting'
  BY <1>25, SlotsKept DEF CancelRefused, dispatchVars, historyVars
<1>26. ASSUME NEW c \in Cancellers, CancelQueuedWritten(c)
       PROVE  SlotAccounting'
  BY <1>26, SlotsKept DEF CancelQueuedWritten, dispatchVars, historyVars
<1>27. ASSUME NEW c \in Cancellers, CancelAborted(c)
       PROVE  SlotAccounting'
  BY <1>27, SlotsKept DEF CancelAborted, dispatchVars, historyVars
<1>28. ASSUME NEW c \in Cancellers, CancelActiveWritten(c)
       PROVE  SlotAccounting'
  <2> SUFFICES ASSUME NEW p \in Profiles
               PROVE  /\ slots'[p] <= Cardinality(InFlight(p))' + leaked'[p]
                      /\ Cardinality(InFlight(p))' <= slots'[p] + extra'[p]
                      /\ slots'[p] <= Limit
    BY DEF SlotAccounting
  <2>1. /\ slots[p] \in Nat /\ leaked[p] \in Nat /\ extra[p] \in Nat
        /\ Cardinality(InFlight(p)) \in Nat /\ Limit \in Nat
    BY FlightsFinite, LimitAssumption DEF TypeOK
  <2>2. /\ slots[p] <= Cardinality(InFlight(p)) + leaked[p]
        /\ Cardinality(InFlight(p)) <= slots[p] + extra[p]
        /\ slots[p] <= Limit
    BY DEF SlotAccounting
  <2> DEFINE r == ProfileOf[request[c].task]
  <2>3. /\ slots' = ReleasedSlots(r) /\ extra' = [extra EXCEPT ![r] = @ + 1]
        /\ UNCHANGED <<pc, leaked>>
    BY <1>28 DEF CancelActiveWritten
  <2> HIDE DEF r
  <2>4. Cardinality(InFlight(p))' = Cardinality(InFlight(p))
    BY <2>3 DEF InFlight
  <2>5. CASE p = r
    <3>1. /\ slots'[p] = IF slots[p] > 0 THEN slots[p] - 1 ELSE 0
          /\ extra'[p] = extra[p] + 1
      BY <2>3, <2>5 DEF ReleasedSlots, TypeOK
    <3>2. QED
      BY <2>1, <2>2, <2>3, <2>4, <3>1
  <2>6. CASE p # r
    <3>1. slots'[p] = slots[p] /\ extra'[p] = extra[p]
      BY <2>3, <2>6 DEF ReleasedSlots, TypeOK
    <3>2. QED
      BY <2>2, <2>3, <2>4, <3>1
  <2>7. QED
    BY <2>5, <2>6
<1>29. ASSUME NEW c \in Cancellers, CancelWriteFails(c)
       PROVE  SlotAccounting'
  BY <1>29, SlotsKept DEF CancelWriteFails, dispatchVars
<1>30. ASSUME NEW c \in Cancellers, NEW s, CancelBySession(c, s)
       PROVE  SlotAccounting'
  <2>1. CASE \E t \in active : SessionOf[t] = s /\ CancelActive(c, t)
    BY <2>1, <1>24 DEF TypeOK
  <2>2. CASE ~(\E t \in active : SessionOf[t] = s /\ CancelActive(c, t))
    BY <1>30, <2>2, SlotsKept DEF CancelBySession, dispatchVars, historyVars
  <2>3. QED
    BY <2>1, <2>2
<1>31. CASE Restart
  <2>1. \A p \in Profiles : InFlight(p)' = {}
    BY <1>31 DEF Restart, InFlight, Phases
  <2>2. \A p \in Profiles : Cardinality(InFlight(p))' = 0
    BY <2>1, FS_EmptySet
  <2>3. \A p \in Profiles : slots'[p] = 0 /\ leaked'[p] = 0 /\ extra'[p] = 0
    BY <1>31 DEF Restart
  <2>4. QED
    BY <2>2, <2>3, LimitAssumption DEF SlotAccounting
<1>32. CASE UNCHANGED vars
  BY <1>32, SlotsKept DEF vars, dispatchVars, historyVars
<1>33. QED
  BY <1>1, <1>2, <1>3, <1>4, <1>5, <1>6, <1>7, <1>8, <1>9, <1>10, <1>11, <1>12,
     <1>13, <1>14, <1>15, <1>16, <1>17, <1>18, <1>19, <1>20, <1>21, <1>22, <1>23, <1>24,
     <1>25, <1>26, <1>27, <1>28, <1>29, <1>30, <1>31, <1>32
     DEF Next, Loop, Dispatch, Failure, CancelCall, CancelProgress

-----------------------------------------------------------------------------
(* The watchdog and the registry of active tasks.                            *)

\* The phases in which an agent has a container and is, or soon will be, at work.
Working == {"setup", "reviving", "saving"} \cup Running

\* Supervised of one task, and that the watchdog is armed before its container is ready.
Watched(t) ==
    /\ pc[t] \in Working /\ t \notin cancelled => t \in active
    /\ pc[t] \in Working \cup {"preparing"} /\ t \notin cancelled => watchdog[t] # "off"
    /\ t \in active => pc[t] \in Phases \ {"starting", "preparing"}
    /\ watchdog[t] # "off" => pc[t] \in Phases \ {"starting"}

WatchInv == \A t \in Tasks : Watched(t)

\* A step that leaves phases, timers and registry alone.
LEMMA WatchKept ==
    ASSUME WatchInv, UNCHANGED <<pc, active, watchdog>>, cancelled \subseteq cancelled'
    PROVE  WatchInv'
BY DEF WatchInv, Watched, Working, Phases, Running

\* Every step keeps the agents at work supervised.
LEMMA WatchStep ==
    ASSUME TypeOK, OnePlace, WatchInv, [Next]_vars
    PROVE  WatchInv'
<1> USE DEF WatchInv
<1>1. ASSUME LoopDispatch
      PROVE  WatchInv'
  <2> DEFINE u == Head(queue)
  <2>1. u \in Tasks /\ pc[u] = "out"
    BY <1>1, TailFacts DEF LoopDispatch, OnePlace, TypeOK
  <2>2. pc' = [pc EXCEPT ![u] = "starting"] /\ UNCHANGED <<active, watchdog, cancelled>>
    BY <1>1 DEF LoopDispatch, historyVars
  <2> HIDE DEF u
  <2>3. QED
    BY <2>1, <2>2 DEF Watched, Working, Phases, Running, TypeOK
<1>2. ASSUME LoopBackOff
      PROVE  WatchInv'
  BY <1>2, WatchKept DEF LoopBackOff, dispatchVars, historyVars
<1>3. ASSUME LoopEnds
      PROVE  WatchInv'
  BY <1>3, WatchKept DEF LoopEnds, dispatchVars, historyVars
<1>4. ASSUME NEW t \in Tasks, Submit(t)
      PROVE  WatchInv'
  BY <1>4 DEF Submit, Watched, Working, Phases, Running, TypeOK, historyVars
<1>5. ASSUME NEW t \in Tasks, EnqueueNew(t)
      PROVE  WatchInv'
  BY <1>5
     DEF EnqueueNew, Notified, Watched, Working, Phases, Running, TypeOK, historyVars
<1>6. ASSUME NEW t \in Tasks, Started(t)
      PROVE  WatchInv'
  BY <1>6 DEF Started, Watched, Working, Phases, Running, TypeOK, historyVars
<1>7. ASSUME NEW t \in Tasks, StartFails(t)
      PROVE  WatchInv'
  BY <1>7 DEF StartFails, Watched, Working, Phases, Running, TypeOK, historyVars
<1>8. ASSUME NEW t \in Tasks, Prepared(t)
      PROVE  WatchInv'
  BY <1>8 DEF Prepared, Watched, Working, Phases, Running, TypeOK, historyVars
<1>9. ASSUME NEW t \in Tasks, SetupDone(t)
      PROVE  WatchInv'
  BY <1>9 DEF SetupDone, Watched, Working, Phases, Running, TypeOK, historyVars
<1>10. ASSUME NEW t \in Tasks, ExecReturns(t)
      PROVE  WatchInv'
  BY <1>10
     DEF ExecReturns, ExecEnds, Watched, Working, Phases, Running, TypeOK, historyVars
<1>11. ASSUME NEW t \in Tasks, Revives(t)
      PROVE  WatchInv'
  BY <1>11 DEF Revives, Watched, Working, Phases, Running, TypeOK, historyVars
<1>12. ASSUME NEW t \in Tasks, Revived(t)
      PROVE  WatchInv'
  BY <1>12 DEF Revived, Watched, Working, Phases, Running, TypeOK, historyVars
<1>13. ASSUME NEW t \in Tasks, BodyThrows(t)
      PROVE  WatchInv'
  <2>1. PICK f \in {"cleanup", "failing"} : pc' = [pc EXCEPT ![t] = f]
    BY <1>13 DEF BodyThrows, Throw
  <2>2. pc[t] \in Phases \ {"starting"} /\ UNCHANGED <<active, watchdog, cancelled>>
    BY <1>13 DEF BodyThrows, ExecEnds, Running, Phases, historyVars
  <2>3. QED
    BY <2>1, <2>2 DEF Watched, Working, Phases, Running, TypeOK
<1>14. ASSUME NEW t \in Tasks, Completed(t)
      PROVE  WatchInv'
  <2>1. pc[t] = "saving" /\ UNCHANGED cancelled
    BY <1>14 DEF Completed
  <2>2. CASE Finish(t)
    BY <2>1, <2>2 DEF Finish, Watched, Working, Phases, Running, TypeOK
  <2>3. CASE pc' = [pc EXCEPT ![t] = "cleanup"] /\ UNCHANGED <<watchdog, active>>
    BY <2>1, <2>3 DEF Watched, Working, Phases, Running, TypeOK
  <2>4. QED
    BY <1>14, <2>2, <2>3 DEF Completed
<1>15. ASSUME NEW t \in Tasks, CompleteFails(t)
      PROVE  WatchInv'
  BY <1>15
     DEF CompleteFails, Throw, Watched, Working, Phases, Running, TypeOK, historyVars
<1>16. ASSUME NEW t \in Tasks, CleanedUp(t)
      PROVE  WatchInv'
  <2>1. pc[t] = "cleanup" /\ UNCHANGED cancelled
    BY <1>16 DEF CleanedUp, historyVars
  <2>2. CASE Finish(t)
    BY <2>1, <2>2 DEF Finish, Watched, Working, Phases, Running, TypeOK
  <2>3. CASE pc' = [pc EXCEPT ![t] = "failing"] /\ UNCHANGED <<watchdog, active>>
    BY <2>1, <2>3 DEF Watched, Working, Phases, Running, TypeOK
  <2>4. QED
    BY <1>16, <2>2, <2>3 DEF CleanedUp
<1>17. ASSUME NEW t \in Tasks, CleanupThrows(t)
      PROVE  WatchInv'
  BY <1>17 DEF CleanupThrows, Watched, Working, Phases, Running, TypeOK, historyVars
<1>18. ASSUME NEW t \in Tasks, Retries(t)
      PROVE  WatchInv'
  BY <1>18 DEF Retries, Finish, Watched, Working, Phases, Running, TypeOK, historyVars
<1>19. ASSUME NEW t \in Tasks, Fails(t)
      PROVE  WatchInv'
  BY <1>19 DEF Fails, Finish, Watched, Working, Phases, Running, TypeOK, historyVars
<1>20. ASSUME NEW t \in Tasks, FailureWriteFails(t)
      PROVE  WatchInv'
  BY <1>20
     DEF FailureWriteFails, Finish, Watched, Working, Phases, Running, TypeOK, historyVars
<1>21. ASSUME NEW t \in Tasks, RetryTimer(t)
      PROVE  WatchInv'
  BY <1>21, WatchKept DEF RetryTimer, dispatchVars, historyVars
<1>22. ASSUME NEW t \in Tasks, WatchdogFires(t)
      PROVE  WatchInv'
  BY <1>22
     DEF WatchdogFires, Abort, Watched, Working, Phases, Running, TypeOK, historyVars
<1>23. ASSUME NEW c \in Cancellers, NEW t \in Tasks, CancelQueued(c, t)
      PROVE  WatchInv'
  BY <1>23, WatchKept DEF CancelQueued, Calls, Idle, dispatchVars, historyVars
<1>24. ASSUME NEW c \in Cancellers, NEW t \in Tasks, CancelActive(c, t)
      PROVE  WatchInv'
  BY <1>24, WatchKept DEF CancelActive, Calls, Idle, Abort, dispatchVars, historyVars
<1>25. ASSUME NEW c \in Cancellers, NEW t \in Tasks, CancelRefused(c, t)
      PROVE  WatchInv'
  BY <1>25, WatchKept DEF CancelRefused, Calls, Idle, dispatchVars, historyVars
<1>26. ASSUME NEW c \in Cancellers, CancelQueuedWritten(c)
      PROVE  WatchInv'
  BY <1>26, WatchKept DEF CancelQueuedWritten, Calls, dispatchVars, historyVars
<1>27. ASSUME NEW c \in Cancellers, CancelAborted(c)
      PROVE  WatchInv'
  BY <1>27, WatchKept DEF CancelAborted, Calls, dispatchVars, historyVars
<1>28. ASSUME NEW c \in Cancellers, CancelActiveWritten(c)
      PROVE  WatchInv'
  <2> DEFINE u == request[c].task
  <2>1. u \in Tasks
    BY <1>28, RequestedTask DEF CancelActiveWritten
  <2>2. /\ watchdog' = [watchdog EXCEPT ![u] = "off"] /\ active' = active \ {u}
        /\ cancelled' = cancelled \cup {u} /\ UNCHANGED pc
    BY <1>28 DEF CancelActiveWritten
  <2> HIDE DEF u
  <2>3. QED
    BY <2>1, <2>2 DEF Watched, Working, Phases, Running, TypeOK
<1>29. ASSUME NEW c \in Cancellers, CancelWriteFails(c)
      PROVE  WatchInv'
  BY <1>29, WatchKept DEF CancelWriteFails, Calls, dispatchVars, historyVars
<1>30. ASSUME NEW c \in Cancellers, NEW s, CancelBySession(c, s)
      PROVE  WatchInv'
  <2>1. CASE \E t \in active : SessionOf[t] = s /\ CancelActive(c, t)
    BY <2>1, <1>24 DEF TypeOK
  <2>2. CASE ~(\E t \in active : SessionOf[t] = s /\ CancelActive(c, t))
    BY <1>30, <2>2, WatchKept DEF CancelBySession, dispatchVars, historyVars
  <2>3. QED
    BY <2>1, <2>2
<1>31. CASE Restart
  BY <1>31
     DEF Restart, StaleFailed, Watched, Working, Phases, Running, TypeOK, historyVars
<1>32. CASE UNCHANGED vars
  BY <1>32, WatchKept DEF vars, dispatchVars, historyVars
<1>33. QED
  BY <1>1, <1>2, <1>3, <1>4, <1>5, <1>6, <1>7, <1>8, <1>9, <1>10, <1>11, <1>12,
     <1>13, <1>14, <1>15, <1>16, <1>17, <1>18, <1>19, <1>20, <1>21, <1>22, <1>23,
     <1>24, <1>25, <1>26, <1>27, <1>28, <1>29, <1>30, <1>31, <1>32
     DEF Next, Loop, Dispatch, Failure, CancelCall, CancelProgress

-----------------------------------------------------------------------------
(* The status rows.                                                          *)

\* What a task's row says, given where the task is.
RowOf(t) ==
    /\ pc[t] = "new" => status[t] = "none"
    /\ pc[t] \in {"inserted", "starting"} \/ Contains(queue, t) \/ t \in retryWait
         => status[t] \in {"queued", "cancelled"}
    /\ pc[t] \in Working \cup {"preparing"} => status[t] \in {"running", "cancelled"}
    /\ pc[t] \in {"cleanup", "failing"} => status[t] \in {"running", "cancelled", "done"}
    /\ pc[t] = "cleanup" /\ ~failed[t] => status[t] # "running"

\* What a cancel call in progress knows of its task.
CallOf(c) ==
    /\ request[c].step \in {"aborting", "writing"} => pc[request[c].task] # "new"
    /\ request[c].step = "dequeued" =>
         /\ pc[request[c].task] = "out" /\ request[c].task \notin retryWait
         /\ ~Contains(queue, request[c].task)
         /\ status[request[c].task] \in {"queued", "cancelled"}

RowInv == /\ \A t \in Tasks : RowOf(t)
          /\ \A c \in Cancellers : CallOf(c)

\* A step that leaves rows, places and calls alone.
LEMMA RowsKept ==
    ASSUME RowInv, UNCHANGED <<pc, failed, status, queue, retryWait, request>>
    PROVE  RowInv'
BY DEF RowInv, RowOf, CallOf, Working, Phases, Running

\* A dispatched task moves on; its own row is looked at apart.
LEMMA TaskMoves ==
    ASSUME TypeOK, RowInv, NEW t \in Tasks, pc[t] \in Phases,
           NEW f, f # "new", pc' = [pc EXCEPT ![t] = f], RowOf(t)',
           \A x \in Tasks \ {t} : status'[x] = status[x] /\ failed'[x] = failed[x],
           UNCHANGED <<queue, retryWait, request>>
    PROVE  RowInv'
<1>1. ASSUME NEW x \in Tasks
      PROVE  RowOf(x)'
  BY DEF RowInv, RowOf, TypeOK
<1>2. ASSUME NEW c \in Cancellers
      PROVE  CallOf(c)'
  BY RequestedTask DEF RowInv, CallOf, Phases, TypeOK
<1>3. QED
  BY <1>1, <1>2 DEF RowInv

\* Tasks are queued from a submission or a retry timer, or taken by the loop.
LEMMA QueueMoves ==
    ASSUME TypeOK, RowInv, UNCHANGED <<status, failed, request>>,
           \A x \in Tasks : Contains(queue', x) =>
               Contains(queue, x) \/ pc[x] = "inserted" \/ x \in retryWait,
           retryWait' \subseteq retryWait,
           \A x \in Tasks : \/ pc'[x] = pc[x]
                            \/ pc[x] = "inserted" /\ pc'[x] = "out"
                            \/ Contains(queue, x) /\ pc'[x] = "starting"
    PROVE  RowInv'
<1>1. ASSUME NEW x \in Tasks
      PROVE  RowOf(x)'
  BY DEF RowInv, RowOf, Working, Running
<1>2. ASSUME NEW c \in Cancellers
      PROVE  CallOf(c)'
  BY RequestedTask DEF RowInv, CallOf
<1>3. QED
  BY <1>1, <1>2 DEF RowInv

\* A cancel takes a task out of the queue.
LEMMA TakenOut ==
    ASSUME TypeOK, OnePlace, RowInv, NEW c \in Cancellers, NEW i \in 1..Len(queue),
           queue' = RemoveAt(queue, i), Calls(c, "dequeued", queue[i]),
           UNCHANGED <<pc, failed, status, retryWait>>
    PROVE  RowInv'
<1> DEFINE u == queue[i]
<1>1. u \in Tasks /\ Contains(queue, u)
  BY DEF TypeOK, Contains
<1>2. ~Contains(queue', u) /\ \A x : Contains(queue', x) => Contains(queue, x)
  BY RemoveAtFacts DEF OnePlace, TypeOK
<1>3. request' = [request EXCEPT ![c] = [step |-> "dequeued", task |-> u]]
  BY DEF Calls
<1> HIDE DEF u
<1>4. /\ pc[u] = "out" /\ u \notin retryWait /\ status[u] \in {"queued", "cancelled"}
  BY <1>1 DEF OnePlace, RowInv, RowOf
<1>5. ASSUME NEW x \in Tasks
      PROVE  RowOf(x)'
  BY <1>2 DEF RowInv, RowOf
<1>6. ASSUME NEW d \in Cancellers
      PROVE  CallOf(d)'
  BY <1>2, <1>3, <1>4 DEF RowInv, CallOf, TypeOK
<1>7. QED
  BY <1>5, <1>6 DEF RowInv

\* A cancel call moves on, and may write its task's row.
LEMMA CallMoves ==
    ASSUME TypeOK, RowInv, NEW c \in Cancellers, NEW t \in Tasks, NEW s, Calls(c, s, t),
           s \in {"aborting", "writing", "refused", "answered"}, pc[t] # "new",
           UNCHANGED <<pc, failed, queue, retryWait>>,
           status' = status \/ status' = [status EXCEPT ![t] = "cancelled"]
    PROVE  RowInv'
<1>1. ASSUME NEW x \in Tasks
      PROVE  RowOf(x)'
  <2>1. status'[x] = status[x] \/ (status'[x] = "cancelled" /\ pc[x] # "new")
    BY DEF TypeOK
  <2>2. QED
    BY <2>1 DEF RowInv, RowOf
<1>2. ASSUME NEW d \in Cancellers
      PROVE  CallOf(d)'
  <2>1. CASE d = c
    BY <2>1 DEF Calls, CallOf, TypeOK
  <2>2. CASE d # c
    <3>1. request'[d] = request[d]
      BY <2>2 DEF Calls, TypeOK
    <3>2. \A x \in Tasks : status'[x] = status[x] \/ status'[x] = "cancelled"
      BY DEF TypeOK
    <3>3. request[d].step = "dequeued" => request[d].task \in Tasks
      BY RequestedTask
    <3>4. QED
      BY <3>1, <3>2, <3>3 DEF RowInv, CallOf
  <2>3. QED
    BY <2>1, <2>2
<1>3. QED
  BY <1>1, <1>2 DEF RowInv

\* Every step keeps the rows in agreement with the tasks' places.
LEMMA RowStep ==
    ASSUME TypeOK, OnePlace, WatchInv, RowInv, [Next]_vars
    PROVE  RowInv'
<1>1. ASSUME LoopDispatch
      PROVE  RowInv'
  <2> DEFINE u == Head(queue)
  <2>1. u \in Tasks /\ Contains(queue, u) /\ \A x : Contains(Tail(queue), x) => Contains(queue, x)
    BY <1>1, TailFacts DEF LoopDispatch, TypeOK
  <2>2. /\ queue' = Tail(queue) /\ pc' = [pc EXCEPT ![u] = "starting"]
        /\ UNCHANGED <<status, failed, request, retryWait>>
    BY <1>1 DEF LoopDispatch
  <2> HIDE DEF u
  <2>3. QED
    BY <2>1, <2>2, QueueMoves DEF TypeOK
<1>2. ASSUME LoopBackOff
      PROVE  RowInv'
  <2>1. /\ Head(queue) \in Tasks /\ Contains(queue, Head(queue)) /\ Tail(queue) \in Seq(Tasks)
        /\ \A x : Contains(Tail(queue), x) => Contains(queue, x)
    BY <1>2, TailFacts DEF LoopBackOff, TypeOK
  <2>2. \A x : Contains(queue', x) => Contains(queue, x)
    BY <1>2, <2>1, EnqueuedFacts DEF LoopBackOff
  <2>3. QED
    BY <1>2, <2>2, QueueMoves DEF LoopBackOff, dispatchVars
<1>3. ASSUME LoopEnds
      PROVE  RowInv'
  BY <1>3, RowsKept DEF LoopEnds, dispatchVars
<1>4. ASSUME NEW t \in Tasks, Submit(t)
      PROVE  RowInv'
  BY <1>4, RequestedTask
     DEF Submit, RowInv, RowOf, CallOf, Working, Phases, Running, TypeOK
<1>5. ASSUME NEW t \in Tasks, EnqueueNew(t)
      PROVE  RowInv'
  <2>1. \A x : Contains(queue', x) <=> x = t \/ Contains(queue, x)
    BY <1>5, EnqueuedFacts DEF EnqueueNew, TypeOK
  <2>2. QED
    BY <1>5, <2>1, QueueMoves DEF EnqueueNew, TypeOK
<1>6. ASSUME NEW t \in Tasks, Started(t)
      PROVE  RowInv'
  <2>1. /\ pc[t] = "starting" /\ pc' = [pc EXCEPT ![t] = "preparing"]
        /\ status' = [status EXCEPT ![t] = "running"] /\ failed' = [failed EXCEPT ![t] = FALSE]
        /\ UNCHANGED <<queue, retryWait, request>>
    BY <1>6 DEF Started
  <2>2. RowOf(t)'
    BY <2>1 DEF RowOf, OnePlace, Working, Running, TypeOK
  <2>3. QED
    BY <2>1, <2>2, TaskMoves DEF Phases, TypeOK
<1>7. ASSUME NEW t \in Tasks, StartFails(t)
      PROVE  RowInv'
  <2>1. /\ pc[t] = "starting" /\ pc' = [pc EXCEPT ![t] = "out"]
        /\ UNCHANGED <<status, failed, queue, retryWait, request>>
    BY <1>7 DEF StartFails, dispatchVars
  <2>2. RowOf(t)'
    BY <2>1 DEF RowInv, RowOf, OnePlace, Working, Running, Phases, TypeOK
  <2>3. QED
    BY <2>1, <2>2, TaskMoves DEF Phases, TypeOK
<1>8. ASSUME NEW t \in Tasks, Prepared(t)
      PROVE  RowInv'
  <2>1. /\ pc[t] = "preparing" /\ pc' = [pc EXCEPT ![t] = "setup"]
        /\ UNCHANGED <<status, failed, queue, retryWait, request>>
    BY <1>8 DEF Prepared, dispatchVars
  <2>2. RowOf(t)'
    BY <2>1 DEF RowInv, RowOf, OnePlace, Working, Running, Phases, TypeOK
  <2>3. QED
    BY <2>1, <2>2, TaskMoves DEF Phases, TypeOK
<1>9. ASSUME NEW t \in Tasks, SetupDone(t)
      PROVE  RowInv'
  BY <1>9, RequestedTask
     DEF SetupDone, RowInv, RowOf, CallOf, Working, Phases, Running, TypeOK
<1>10. ASSUME NEW t \in Tasks, ExecReturns(t)
      PROVE  RowInv'
  <2>1. /\ pc[t] \in Running /\ pc' = [pc EXCEPT ![t] = "saving"]
        /\ UNCHANGED <<status, failed, queue, retryWait, request>>
    BY <1>10 DEF ExecReturns, ExecEnds
  <2>2. RowOf(t)'
    BY <2>1 DEF RowInv, RowOf, Working, Running, TypeOK
  <2>3. QED
    BY <2>1, <2>2, TaskMoves DEF Phases, Running, TypeOK
<1>11. ASSUME NEW t \in Tasks, Revives(t)
      PROVE  RowInv'
  <2>1. /\ pc[t] = "setup" /\ pc' = [pc EXCEPT ![t] = "reviving"]
        /\ UNCHANGED <<status, failed, queue, retryWait, request>>
    BY <1>11 DEF Revives, dispatchVars
  <2>2. RowOf(t)'
    BY <2>1 DEF RowInv, RowOf, OnePlace, Working, Running, Phases, TypeOK
  <2>3. QED
    BY <2>1, <2>2, TaskMoves DEF Phases, TypeOK
<1>12. ASSUME NEW t \in Tasks, Revived(t)
      PROVE  RowInv'
  BY <1>12, RequestedTask
     DEF Revived, RowInv, RowOf, CallOf, Working, Phases, Running, TypeOK
<1>13. ASSUME NEW t \in Tasks, BodyThrows(t)
      PROVE  RowInv'
  BY <1>13, RequestedTask
     DEF BodyThrows, ExecEnds, Throw, RowInv, RowOf, CallOf, Working, Phases, Running, TypeOK
<1>14. ASSUME NEW t \in Tasks, Completed(t)
      PROVE  RowInv'
  <2>1. /\ pc[t] = "saving" /\ status' = [status EXCEPT ![t] = "done"]
        /\ UNCHANGED <<failed, queue, retryWait, request>>
    BY <1>14 DEF Completed
  <2>2. PICK f \in {"out", "cleanup"} : pc' = [pc EXCEPT ![t] = f]
    BY <1>14 DEF Completed, Finish
  <2>3. RowOf(t)'
    BY <2>1, <2>2 DEF RowOf, OnePlace, Working, Running, TypeOK
  <2>4. QED
    BY <2>1, <2>2, <2>3, TaskMoves DEF Phases, TypeOK
<1>15. ASSUME NEW t \in Tasks, CompleteFails(t)
      PROVE  RowInv'
  <2>1. /\ pc[t] = "saving" /\ failed' = [failed EXCEPT ![t] = TRUE]
        /\ UNCHANGED <<status, queue, retryWait, request>>
    BY <1>15 DEF CompleteFails, Throw
  <2>2. PICK f \in {"failing", "cleanup"} : pc' = [pc EXCEPT ![t] = f]
    BY <1>15 DEF CompleteFails, Throw
  <2>3. RowOf(t)'
    BY <2>1, <2>2 DEF RowInv, RowOf, Working, Running, TypeOK
  <2>4. QED
    BY <2>1, <2>2, <2>3, TaskMoves DEF Phases, TypeOK
<1>16. ASSUME NEW t \in Tasks, CleanedUp(t)
      PROVE  RowInv'
  <2>1. pc[t] = "cleanup" /\ UNCHANGED <<status, failed, queue, retryWait, request>>
    BY <1>16 DEF CleanedUp
  <2>2. PICK f \in {"failing", "out"} : pc' = [pc EXCEPT ![t] = f]
    BY <1>16 DEF CleanedUp, Finish
  <2>3. RowOf(t)'
    BY <2>1, <2>2 DEF RowInv, RowOf, Working, Running, TypeOK
  <2>4. QED
    BY <2>1, <2>2, <2>3, TaskMoves DEF Phases, TypeOK
<1>17. ASSUME NEW t \in Tasks, CleanupThrows(t)
      PROVE  RowInv'
  <2>1. /\ pc[t] = "cleanup" /\ pc' = [pc EXCEPT ![t] = "failing"]
        /\ failed' = [failed EXCEPT ![t] = TRUE]
        /\ UNCHANGED <<status, queue, retryWait, request>>
    BY <1>17 DEF CleanupThrows
  <2>2. RowOf(t)'
    BY <2>1 DEF RowInv, RowOf, Working, Running, TypeOK
  <2>3. QED
    BY <2>1, <2>2, TaskMoves DEF Phases, TypeOK
<1>18. ASSUME NEW t \in Tasks, Retries(t)
      PROVE  RowInv'
  BY <1>18, RequestedTask
     DEF Retries, Finish, RowInv, RowOf, CallOf, Working, Phases, Running, TypeOK
<1>19. ASSUME NEW t \in Tasks, Fails(t)
      PROVE  RowInv'
  <2>1. /\ pc[t] = "failing" /\ status' = [status EXCEPT ![t] = "failed"]
        /\ UNCHANGED <<failed, queue, retryWait, request>> /\ pc' = [pc EXCEPT ![t] = "out"]
    BY <1>19 DEF Fails, Finish
  <2>2. RowOf(t)'
    BY <2>1 DEF RowOf, OnePlace, Working, Running, TypeOK
  <2>3. QED
    BY <2>1, <2>2, TaskMoves DEF Phases, TypeOK
<1>20. ASSUME NEW t \in Tasks, FailureWriteFails(t)
      PROVE  RowInv'
  BY <1>20, RequestedTask
     DEF FailureWriteFails, Finish, RowInv, RowOf, CallOf, Working, Phases, Running, TypeOK
<1>21. ASSUME NEW t \in Tasks, RetryTimer(t)
      PROVE  RowInv'
  <2>1. \A x : Contains(queue', x) <=> x = t \/ Contains(queue, x)
    BY <1>21, EnqueuedFacts DEF RetryTimer, TypeOK
  <2>2. QED
    BY <1>21, <2>1, QueueMoves DEF RetryTimer, dispatchVars
<1>22. ASSUME NEW t \in Tasks, WatchdogFires(t)
      PROVE  RowInv'
  BY <1>22, RowsKept DEF WatchdogFires, Abort, dispatchVars
<1>23. ASSUME NEW c \in Cancellers, NEW t \in Tasks, CancelQueued(c, t)
      PROVE  RowInv'
  <2>1. PICK i \in 1..Len(queue) : queue[i] = t /\ queue' = RemoveAt(queue, i)
    BY <1>23, CancelledFacts DEF CancelQueued, TypeOK
  <2>2. QED
    BY <1>23, <2>1, TakenOut DEF CancelQueued, dispatchVars
<1>24. ASSUME NEW c \in Cancellers, NEW t \in Tasks, CancelActive(c, t)
      PROVE  RowInv'
  <2>1. pc[t] # "new"
    BY <1>24 DEF CancelActive, WatchInv, Watched, Phases
  <2>2. QED
    BY <1>24, <2>1, CallMoves DEF CancelActive
<1>25. ASSUME NEW c \in Cancellers, NEW t \in Tasks, CancelRefused(c, t)
      PROVE  RowInv'
  BY <1>25, CallMoves DEF CancelRefused, dispatchVars
<1>26. ASSUME NEW c \in Cancellers, CancelQueuedWritten(c)
      PROVE  RowInv'
  <2>1. request[c].task \in Tasks /\ pc[request[c].task] # "new"
    BY <1>26, RequestedTask DEF CancelQueuedWritten, RowInv, CallOf
  <2>2. QED
    BY <1>26, <2>1, CallMoves DEF CancelQueuedWritten, dispatchVars, TypeOK
<1>27. ASSUME NEW c \in Cancellers, CancelAborted(c)
      PROVE  RowInv'
  <2>1. request[c].task \in Tasks /\ pc[request[c].task] # "new"
    BY <1>27, RequestedTask DEF CancelAborted, RowInv, CallOf
  <2>2. QED
    BY <1>27, <2>1, CallMoves DEF CancelAborted, dispatchVars
<1>28. ASSUME NEW c \in Cancellers, CancelActiveWritten(c)
      PROVE  RowInv'
  <2>1. request[c].task \in Tasks /\ pc[request[c].task] # "new"
    BY <1>28, RequestedTask DEF CancelActiveWritten, RowInv, CallOf
  <2>2. QED
    BY <1>28, <2>1, CallMoves DEF CancelActiveWritten, TypeOK
<1>29. ASSUME NEW c \in Cancellers, CancelWriteFails(c)
      PROVE  RowInv'
  <2>1. request[c].task \in Tasks /\ pc[request[c].task] # "new"
    BY <1>29, RequestedTask DEF CancelWriteFails, RowInv, CallOf
  <2>2. QED
    BY <1>29, <2>1, CallMoves DEF CancelWriteFails, dispatchVars
<1>30. ASSUME NEW c \in Cancellers, NEW s, CancelBySession(c, s)
      PROVE  RowInv'
  <2>1. CASE \E t \in active : SessionOf[t] = s /\ CancelActive(c, t)
    BY <2>1, <1>24 DEF TypeOK
  <2>2. CASE ~(\E t \in active : SessionOf[t] = s /\ CancelActive(c, t))
    <3>1. SessionIndex(queue, s) \in 1..Len(queue)
      BY <1>30, <2>2, SessionIndexFacts DEF CancelBySession, TypeOK
    <3>2. QED
      BY <1>30, <2>2, <3>1, TakenOut
         DEF CancelBySession, dispatchVars
  <2>3. QED
    BY <2>1, <2>2
<1>31. CASE Restart
  <2>1. /\ pc' = [t \in Tasks |-> IF pc[t] = "new" THEN "new" ELSE "out"]
        /\ status' = [t \in Tasks |-> IF status[t] \in Live THEN "failed" ELSE status[t]]
        /\ queue' = <<>> /\ retryWait' = {}
    BY <1>31 DEF Restart, StaleFailed
  <2>2. \A c \in Cancellers : request'[c].step \in {"idle", "answered"}
    BY <1>31 DEF Restart, NoRequest, TypeOK
  <2>3. ASSUME NEW t \in Tasks
        PROVE  RowOf(t)'
    BY <2>1 DEF RowInv, RowOf, Contains, Live, Working, Running
  <2>4. QED
    BY <2>2, <2>3 DEF RowInv, CallOf
<1>32. CASE UNCHANGED vars
  BY <1>32, RowsKept DEF vars, dispatchVars
<1>33. QED
  BY <1>1, <1>2, <1>3, <1>4, <1>5, <1>6, <1>7, <1>8, <1>9, <1>10, <1>11, <1>12,
     <1>13, <1>14, <1>15, <1>16, <1>17, <1>18, <1>19, <1>20, <1>21, <1>22, <1>23,
     <1>24, <1>25, <1>26, <1>27, <1>28, <1>29, <1>30, <1>31, <1>32
     DEF Next, Loop, Dispatch, Failure, CancelCall, CancelProgress

\* Where a task with a live row is.
Placed(t) ==
    \/ pc[t] \in Phases \cup {"inserted"}
    \/ Contains(queue, t) \/ t \in retryWait
    \/ \E c \in Cancellers : request[c] = [step |-> "dequeued", task |-> t]

LEMMA LostMeansUnplaced ==
    NoTaskLost <=> \A t \in Tasks : t \notin stranded /\ status[t] \in Live => Placed(t)
  BY DEF NoTaskLost, Placed

\* A step that leaves rows and places alone.
LEMMA AllKept ==
    ASSUME NoTaskLost, UNCHANGED <<status, pc, queue, retryWait, request, stranded>>
    PROVE  NoTaskLost'
BY DEF NoTaskLost

\* A task moves on to a phase, a retry timer, a settled row, or a failed write.
LEMMA TaskKept ==
    ASSUME NoTaskLost, UNCHANGED <<queue, request>>, NEW t \in Tasks,
           stranded \subseteq stranded',
           \A x \in Tasks \ {t} : /\ pc'[x] = pc[x] /\ status'[x] = status[x]
                                  /\ x \in retryWait => x \in retryWait',
           \/ t \in stranded' \/ status'[t] \notin Live \/ t \in retryWait'
           \/ pc'[t] \in Phases \cup {"inserted"}
    PROVE  NoTaskLost'
<1>1. ASSUME NEW x \in Tasks, x \notin stranded', status'[x] \in Live
      PROVE  Placed(x)'
  <2>1. CASE x = t
    BY <1>1, <2>1 DEF Placed
  <2>2. CASE x # t
    <3>1. Placed(x)
      BY <1>1, <2>2, LostMeansUnplaced
    <3>2. QED
      BY <2>2, <3>1 DEF Placed
  <2>3. QED
    BY <2>1, <2>2
<1>2. QED
  BY <1>1 DEF NoTaskLost, Placed

\* Tasks go from one place to another.
LEMMA PlacesMove ==
    ASSUME NoTaskLost, UNCHANGED <<status, request, stranded>>,
           \A x \in Tasks :
               (pc[x] \in Phases \cup {"inserted"} \/ Contains(queue, x) \/ x \in retryWait) =>
                 (pc'[x] \in Phases \cup {"inserted"} \/ Contains(queue', x) \/ x \in retryWait')
    PROVE  NoTaskLost'
<1>1. ASSUME NEW x \in Tasks, x \notin stranded', status'[x] \in Live
      PROVE  Placed(x)'
  <2>1. Placed(x)
    BY <1>1, LostMeansUnplaced
  <2>2. QED
    BY <2>1 DEF Placed
<1>2. QED
  BY <1>1 DEF NoTaskLost, Placed

\* The task a cancel takes out of the queue is in that call's hands.
LEMMA DequeuedKept ==
    ASSUME TypeOK, NoTaskLost, NEW c \in Cancellers, request[c] = NoRequest,
           NEW i \in 1..Len(queue), queue' = RemoveAt(queue, i), Calls(c, "dequeued", queue[i]),
           UNCHANGED <<pc, status, retryWait, stranded>>
    PROVE  NoTaskLost'
<1>1. \A x : Contains(queue, x) /\ x # queue[i] => Contains(queue', x)
  BY RemoveAtFacts DEF TypeOK
<1>2. /\ request'[c] = [step |-> "dequeued", task |-> queue[i]]
      /\ \A d \in Cancellers \ {c} : request'[d] = request[d]
      /\ request[c].step # "dequeued"
  BY DEF Calls, TypeOK, NoRequest
<1>3. ASSUME NEW x \in Tasks, x \notin stranded', status'[x] \in Live
      PROVE  Placed(x)'
  <2>1. Placed(x)
    BY <1>3, LostMeansUnplaced
  <2>2. CASE \E d \in Cancellers : request[d] = [step |-> "dequeued", task |-> x]
    BY <1>2, <2>2 DEF Placed
  <2>3. CASE x = queue[i]
    BY <1>2, <2>3 DEF Placed
  <2>4. QED
    BY <1>1, <2>1, <2>2, <2>3 DEF Placed
<1>4. QED
  BY <1>3 DEF NoTaskLost, Placed

\* A cancel call moves on; the task it had in its hands is settled or stranded.
LEMMA CallKept ==
    ASSUME TypeOK, NoTaskLost, NEW c \in Cancellers, NEW s, NEW t \in Tasks, Calls(c, s, t),
           UNCHANGED <<pc, queue, retryWait>>, stranded \subseteq stranded',
           request[c].step = "dequeued" =>
             t = request[c].task /\ (status'[t] \notin Live \/ t \in stranded'),
           \A x \in Tasks : status'[x] # status[x] => status'[x] \notin Live
    PROVE  NoTaskLost'
<1>1. \A d \in Cancellers \ {c} : request'[d] = request[d]
  BY DEF Calls, TypeOK
<1>2. ASSUME NEW x \in Tasks, x \notin stranded', status'[x] \in Live
      PROVE  Placed(x)'
  <2>1. Placed(x)
    BY <1>2, LostMeansUnplaced
  <2>2. request[c] # [step |-> "dequeued", task |-> x]
    BY <1>2
  <2>3. QED
    BY <1>1, <2>1, <2>2 DEF Placed
<1>3. QED
  BY <1>2 DEF NoTaskLost, Placed

\* Every step knows where each task with a live row is.
LEMMA LostStep ==
    ASSUME TypeOK, RowInv, NoTaskLost, [Next]_vars
    PROVE  NoTaskLost'
<1>1. ASSUME LoopDispatch
      PROVE  NoTaskLost'
  <2> DEFINE u == Head(queue)
  <2>1. u \in Tasks /\ \A x : Contains(queue, x) /\ x # u => Contains(Tail(queue), x)
    BY <1>1, TailFacts DEF LoopDispatch, TypeOK
  <2>2. /\ queue' = Tail(queue) /\ pc' = [pc EXCEPT ![u] = "starting"]
        /\ UNCHANGED <<status, request, stranded, retryWait>>
    BY <1>1 DEF LoopDispatch, historyVars
  <2> HIDE DEF u
  <2>3. QED
    BY <2>1, <2>2, PlacesMove DEF TypeOK, Phases
<1>2. ASSUME LoopBackOff
      PROVE  NoTaskLost'
  <2>1. /\ Head(queue) \in Tasks /\ Tail(queue) \in Seq(Tasks)
        /\ \A x : Contains(queue, x) /\ x # Head(queue) => Contains(Tail(queue), x)
    BY <1>2, TailFacts DEF LoopBackOff, TypeOK
  <2>2. \A x : Contains(queue, x) => Contains(queue', x)
    BY <1>2, <2>1, EnqueuedFacts DEF LoopBackOff
  <2>3. QED
    BY <1>2, <2>2, PlacesMove DEF LoopBackOff, dispatchVars, historyVars
<1>3. ASSUME LoopEnds
      PROVE  NoTaskLost'
  BY <1>3, AllKept DEF LoopEnds, dispatchVars, historyVars
<1>4. ASSUME NEW t \in Tasks, Submit(t)
      PROVE  NoTaskLost'
  BY <1>4, TaskKept DEF Submit, TypeOK, Phases, Running, Live, historyVars
<1>5. ASSUME NEW t \in Tasks, EnqueueNew(t)
      PROVE  NoTaskLost'
  <2>1. \A x : Contains(queue', x) <=> x = t \/ Contains(queue, x)
    BY <1>5, EnqueuedFacts DEF EnqueueNew, TypeOK
  <2>2. QED
    BY <1>5, <2>1, PlacesMove DEF EnqueueNew, TypeOK, Phases, historyVars
<1>6. ASSUME NEW t \in Tasks, Started(t)
      PROVE  NoTaskLost'
  BY <1>6, TaskKept DEF Started, TypeOK, Phases, Running, Live, historyVars
<1>7. ASSUME NEW t \in Tasks, StartFails(t)
      PROVE  NoTaskLost'
  BY <1>7, TaskKept DEF StartFails, TypeOK, Phases, Running, Live, historyVars
<1>8. ASSUME NEW t \in Tasks, Prepared(t)
      PROVE  NoTaskLost'
  BY <1>8, TaskKept DEF Prepared, TypeOK, Phases, Running, Live, historyVars
<1>9. ASSUME NEW t \in Tasks, SetupDone(t)
      PROVE  NoTaskLost'
  BY <1>9, TaskKept DEF SetupDone, TypeOK, Phases, Running, Live, historyVars
<1>10. ASSUME NEW t \in Tasks, ExecReturns(t)
      PROVE  NoTaskLost'
  BY <1>10, TaskKept
     DEF ExecReturns, ExecEnds, TypeOK, Phases, Running, Live, historyVars
<1>11. ASSUME NEW t \in Tasks, Revives(t)
      PROVE  NoTaskLost'
  BY <1>11, TaskKept DEF Revives, TypeOK, Phases, Running, Live, historyVars
<1>12. ASSUME NEW t \in Tasks, Revived(t)
      PROVE  NoTaskLost'
  BY <1>12, TaskKept DEF Revived, TypeOK, Phases, Running, Live, historyVars
<1>13. ASSUME NEW t \in Tasks, BodyThrows(t)
      PROVE  NoTaskLost'
  BY <1>13, TaskKept
     DEF BodyThrows, ExecEnds, Throw, TypeOK, Phases, Running, Live, historyVars
<1>14. ASSUME NEW t \in Tasks, Completed(t)
      PROVE  NoTaskLost'
  <2>1. /\ status' = [status EXCEPT ![t] = "done"]
        /\ UNCHANGED <<queue, request, retryWait, stranded>>
        /\ \E f : pc' = [pc EXCEPT ![t] = f]
    BY <1>14 DEF Completed, Finish
  <2>2. QED
    BY <2>1, TaskKept DEF TypeOK, Live
<1>15. ASSUME NEW t \in Tasks, CompleteFails(t)
      PROVE  NoTaskLost'
  BY <1>15, TaskKept
     DEF CompleteFails, Throw, TypeOK, Phases, Running, Live, historyVars
<1>16. ASSUME NEW t \in Tasks, CleanedUp(t)
      PROVE  NoTaskLost'
  <2>1. /\ pc[t] = "cleanup" /\ status[t] \in {"running", "cancelled", "done"}
        /\ ~failed[t] => status[t] \notin Live
    BY <1>16 DEF CleanedUp, RowInv, RowOf, Live
  <2>2. UNCHANGED <<queue, request, retryWait, status, stranded>>
    BY <1>16 DEF CleanedUp, historyVars
  <2>3. PICK f \in {"out", "failing"} : pc' = [pc EXCEPT ![t] = f] /\ (f = "out" => ~failed[t])
    BY <1>16 DEF CleanedUp, Finish
  <2>4. QED
    BY <2>1, <2>2, <2>3, TaskKept DEF TypeOK, Phases
<1>17. ASSUME NEW t \in Tasks, CleanupThrows(t)
      PROVE  NoTaskLost'
  BY <1>17, TaskKept DEF CleanupThrows, TypeOK, Phases, Running, Live, historyVars
<1>18. ASSUME NEW t \in Tasks, Retries(t)
      PROVE  NoTaskLost'
  BY <1>18, TaskKept DEF Retries, Finish, TypeOK, Phases, Running, Live, historyVars
<1>19. ASSUME NEW t \in Tasks, Fails(t)
      PROVE  NoTaskLost'
  <2>1. /\ status' = [status EXCEPT ![t] = "failed"] /\ pc' = [pc EXCEPT ![t] = "out"]
        /\ UNCHANGED <<queue, request, retryWait, stranded>>
    BY <1>19 DEF Fails, Finish
  <2>2. QED
    BY <2>1, TaskKept DEF TypeOK, Live
<1>20. ASSUME NEW t \in Tasks, FailureWriteFails(t)
      PROVE  NoTaskLost'
  BY <1>20, TaskKept
     DEF FailureWriteFails, Finish, TypeOK, Phases, Running, Live, historyVars
<1>21. ASSUME NEW t \in Tasks, RetryTimer(t)
      PROVE  NoTaskLost'
  <2>1. \A x : Contains(queue', x) <=> x = t \/ Contains(queue, x)
    BY <1>21, EnqueuedFacts DEF RetryTimer, TypeOK
  <2>2. QED
    BY <1>21, <2>1, PlacesMove DEF RetryTimer, dispatchVars, historyVars
<1>22. ASSUME NEW t \in Tasks, WatchdogFires(t)
      PROVE  NoTaskLost'
  BY <1>22, AllKept DEF WatchdogFires, Abort, dispatchVars, historyVars
<1>23. ASSUME NEW c \in Cancellers, NEW t \in Tasks, CancelQueued(c, t)
      PROVE  NoTaskLost'
  <2>1. PICK i \in 1..Len(queue) : queue[i] = t /\ queue' = RemoveAt(queue, i)
    BY <1>23, CancelledFacts DEF CancelQueued, TypeOK
  <2>2. QED
    BY <1>23, <2>1, DequeuedKept DEF CancelQueued, Idle, dispatchVars, historyVars
<1>24. ASSUME NEW c \in Cancellers, NEW t \in Tasks, CancelActive(c, t)
      PROVE  NoTaskLost'
  BY <1>24, CallKept DEF CancelActive, Idle, NoRequest, historyVars
<1>25. ASSUME NEW c \in Cancellers, NEW t \in Tasks, CancelRefused(c, t)
      PROVE  NoTaskLost'
  BY <1>25, CallKept DEF CancelRefused, Idle, NoRequest, dispatchVars, historyVars
<1>26. ASSUME NEW c \in Cancellers, CancelQueuedWritten(c)
      PROVE  NoTaskLost'
  <2>1. request[c].task \in Tasks
    BY <1>26, RequestedTask DEF CancelQueuedWritten
  <2>2. QED
    BY <1>26, <2>1, CallKept DEF CancelQueuedWritten, dispatchVars, historyVars, Live, TypeOK
<1>27. ASSUME NEW c \in Cancellers, CancelAborted(c)
      PROVE  NoTaskLost'
  <2>1. request[c].task \in Tasks
    BY <1>27, RequestedTask DEF CancelAborted
  <2>2. QED
    BY <1>27, <2>1, CallKept DEF CancelAborted, dispatchVars, historyVars
<1>28. ASSUME NEW c \in Cancellers, CancelActiveWritten(c)
      PROVE  NoTaskLost'
  <2>1. request[c].task \in Tasks
    BY <1>28, RequestedTask DEF CancelActiveWritten
  <2>2. QED
    BY <1>28, <2>1, CallKept DEF CancelActiveWritten, Live, TypeOK
<1>29. ASSUME NEW c \in Cancellers, CancelWriteFails(c)
      PROVE  NoTaskLost'
  <2>1. request[c].task \in Tasks
    BY <1>29, RequestedTask DEF CancelWriteFails
  <2>2. QED
    BY <1>29, <2>1, CallKept DEF CancelWriteFails, dispatchVars
<1>30. ASSUME NEW c \in Cancellers, NEW s, CancelBySession(c, s)
      PROVE  NoTaskLost'
  <2>1. CASE \E t \in active : SessionOf[t] = s /\ CancelActive(c, t)
    BY <2>1, <1>24 DEF TypeOK
  <2>2. CASE ~(\E t \in active : SessionOf[t] = s /\ CancelActive(c, t))
    <3>1. SessionIndex(queue, s) \in 1..Len(queue)
      BY <1>30, <2>2, SessionIndexFacts DEF CancelBySession, TypeOK
    <3>2. QED
      BY <1>30, <2>2, <3>1, DequeuedKept DEF CancelBySession, Idle, dispatchVars, historyVars
  <2>3. QED
    BY <2>1, <2>2
<1>31. CASE Restart
  <2>1. \A t \in Tasks : status'[t] \notin Live
    BY <1>31 DEF Restart, StaleFailed, Live
  <2>2. QED
    BY <2>1 DEF NoTaskLost
<1>32. CASE UNCHANGED vars
  BY <1>32, AllKept DEF vars, dispatchVars, historyVars
<1>33. QED
  BY <1>1, <1>2, <1>3, <1>4, <1>5, <1>6, <1>7, <1>8, <1>9, <1>10, <1>11, <1>12,
     <1>13, <1>14, <1>15, <1>16, <1>17, <1>18, <1>19, <1>20, <1>21, <1>22, <1>23,
     <1>24, <1>25, <1>26, <1>27, <1>28, <1>29, <1>30, <1>31, <1>32
     DEF Next, Loop, Dispatch, Failure, CancelCall, CancelProgress

\* How a settled row of a task may change in a step.
Rewritten(t) ==
    status[t] \in Settled /\ status'[t] # status[t] =>
       \/ /\ status'[t] = "cancelled"
          /\ \E c \in Cancellers : request[c] = [step |-> "writing", task |-> t]
       \/ status[t] = "done" /\ pc[t] = "failing"
       \/ status[t] = "cancelled" /\ pc[t] \in Phases

\* No step rewrites a settled row in another way.
LEMMA RewriteStep ==
    ASSUME TypeOK, RowInv, [Next]_vars, NEW x \in Tasks
    PROVE  Rewritten(x)
<1>1. ASSUME LoopDispatch
      PROVE  Rewritten(x)
  BY <1>1 DEF LoopDispatch, Rewritten, dispatchVars
<1>2. ASSUME LoopBackOff
      PROVE  Rewritten(x)
  BY <1>2 DEF LoopBackOff, Rewritten, dispatchVars
<1>3. ASSUME LoopEnds
      PROVE  Rewritten(x)
  BY <1>3 DEF LoopEnds, Rewritten, dispatchVars
<1>4. ASSUME NEW t \in Tasks, Submit(t)
      PROVE  Rewritten(x)
  BY <1>4 DEF Submit, RowInv, RowOf, Rewritten, Settled, TypeOK
<1>5. ASSUME NEW t \in Tasks, EnqueueNew(t)
      PROVE  Rewritten(x)
  BY <1>5 DEF EnqueueNew, Notified, Rewritten, dispatchVars
<1>6. ASSUME NEW t \in Tasks, Started(t)
      PROVE  Rewritten(x)
  BY <1>6 DEF Started, RowInv, RowOf, Rewritten, Working, Phases, Running, Settled, TypeOK
<1>7. ASSUME NEW t \in Tasks, StartFails(t)
      PROVE  Rewritten(x)
  BY <1>7 DEF StartFails, Rewritten, dispatchVars
<1>8. ASSUME NEW t \in Tasks, Prepared(t)
      PROVE  Rewritten(x)
  BY <1>8 DEF Prepared, Rewritten, dispatchVars
<1>9. ASSUME NEW t \in Tasks, SetupDone(t)
      PROVE  Rewritten(x)
  BY <1>9 DEF SetupDone, Rewritten, dispatchVars
<1>10. ASSUME NEW t \in Tasks, ExecReturns(t)
      PROVE  Rewritten(x)
  BY <1>10 DEF ExecReturns, ExecEnds, Rewritten, dispatchVars
<1>11. ASSUME NEW t \in Tasks, Revives(t)
      PROVE  Rewritten(x)
  BY <1>11 DEF Revives, Rewritten, dispatchVars
<1>12. ASSUME NEW t \in Tasks, Revived(t)
      PROVE  Rewritten(x)
  BY <1>12 DEF Revived, Rewritten, dispatchVars
<1>13. ASSUME NEW t \in Tasks, BodyThrows(t)
      PROVE  Rewritten(x)
  BY <1>13 DEF BodyThrows, ExecEnds, Throw, Rewritten, dispatchVars
<1>14. ASSUME NEW t \in Tasks, Completed(t)
      PROVE  Rewritten(x)
  BY <1>14 DEF Completed, RowInv, RowOf, Rewritten, Working, Phases, Running, Settled, TypeOK
<1>15. ASSUME NEW t \in Tasks, CompleteFails(t)
      PROVE  Rewritten(x)
  BY <1>15 DEF CompleteFails, Throw, Rewritten, dispatchVars
<1>16. ASSUME NEW t \in Tasks, CleanedUp(t)
      PROVE  Rewritten(x)
  BY <1>16 DEF CleanedUp, Finish, Rewritten, dispatchVars
<1>17. ASSUME NEW t \in Tasks, CleanupThrows(t)
      PROVE  Rewritten(x)
  BY <1>17 DEF CleanupThrows, Rewritten, dispatchVars
<1>18. ASSUME NEW t \in Tasks, Retries(t)
      PROVE  Rewritten(x)
  BY <1>18 DEF Retries, RowInv, RowOf, Rewritten, Working, Phases, Running, Settled, TypeOK
<1>19. ASSUME NEW t \in Tasks, Fails(t)
      PROVE  Rewritten(x)
  BY <1>19 DEF Fails, RowInv, RowOf, Rewritten, Working, Phases, Running, Settled, TypeOK
<1>20. ASSUME NEW t \in Tasks, FailureWriteFails(t)
      PROVE  Rewritten(x)
  BY <1>20 DEF FailureWriteFails, Finish, Rewritten, dispatchVars
<1>21. ASSUME NEW t \in Tasks, RetryTimer(t)
      PROVE  Rewritten(x)
  BY <1>21 DEF RetryTimer, Rewritten, dispatchVars
<1>22. ASSUME NEW t \in Tasks, WatchdogFires(t)
      PROVE  Rewritten(x)
  BY <1>22 DEF WatchdogFires, Abort, Rewritten, dispatchVars
<1>23. ASSUME NEW c \in Cancellers, NEW t \in Tasks, CancelQueued(c, t)
      PROVE  Rewritten(x)
  BY <1>23 DEF CancelQueued, Calls, Idle, Rewritten, dispatchVars
<1>24. ASSUME NEW c \in Cancellers, NEW t \in Tasks, CancelActive(c, t)
      PROVE  Rewritten(x)
  BY <1>24 DEF CancelActive, Calls, Idle, Abort, Rewritten, dispatchVars
<1>25. ASSUME NEW c \in Cancellers, NEW t \in Tasks, CancelRefused(c, t)
      PROVE  Rewritten(x)
  BY <1>25 DEF CancelRefused, Calls, Idle, Rewritten, dispatchVars
<1>26. ASSUME NEW c \in Cancellers, CancelQueuedWritten(c)
      PROVE  Rewritten(x)
  BY <1>26, RequestedTask DEF CancelQueuedWritten, RowInv, CallOf, Rewritten, Settled, TypeOK
<1>27. ASSUME NEW c \in Cancellers, CancelAborted(c)
      PROVE  Rewritten(x)
  BY <1>27 DEF CancelAborted, Calls, Rewritten, dispatchVars
<1>28. ASSUME NEW c \in Cancellers, CancelActiveWritten(c)
      PROVE  Rewritten(x)
  <2> DEFINE u == request[c].task
  <2>1. u \in Tasks /\ request[c] = [step |-> "writing", task |-> u]
    BY <1>28, RequestedTask DEF CancelActiveWritten, TypeOK, NoRequest
  <2>2. status' = [status EXCEPT ![u] = "cancelled"]
    BY <1>28 DEF CancelActiveWritten
  <2> HIDE DEF u
  <2>3. QED
    BY <2>1, <2>2 DEF Rewritten, TypeOK
<1>29. ASSUME NEW c \in Cancellers, CancelWriteFails(c)
      PROVE  Rewritten(x)
  BY <1>29 DEF CancelWriteFails, Calls, Rewritten, dispatchVars
<1>30. ASSUME NEW c \in Cancellers, NEW s, CancelBySession(c, s)
      PROVE  Rewritten(x)
  <2>1. CASE \E t \in active : SessionOf[t] = s /\ CancelActive(c, t)
    BY <2>1, <1>24 DEF TypeOK
  <2>2. CASE ~(\E t \in active : SessionOf[t] = s /\ CancelActive(c, t))
    BY <1>30, <2>2 DEF CancelBySession, Rewritten, dispatchVars
  <2>3. QED
    BY <2>1, <2>2
<1>31. CASE Restart
  BY <1>31 DEF Restart, StaleFailed, Rewritten, Settled, Live, TypeOK
<1>32. CASE UNCHANGED vars
  BY <1>32 DEF vars, Rewritten, dispatchVars
<1>33. QED
  BY <1>1, <1>2, <1>3, <1>4, <1>5, <1>6, <1>7, <1>8, <1>9, <1>10, <1>11, <1>12,
     <1>13, <1>14, <1>15, <1>16, <1>17, <1>18, <1>19, <1>20, <1>21, <1>22, <1>23,
     <1>24, <1>25, <1>26, <1>27, <1>28, <1>29, <1>30, <1>31, <1>32
     DEF Next, Loop, Dispatch, Failure, CancelCall, CancelProgress

\* Every step keeps the queue in the order of the priorities.
LEMMA SortedStep ==
    ASSUME TypeOK, QueueSorted, [Next]_vars
    PROVE  QueueSorted'
<1>1. ASSUME LoopDispatch
      PROVE  QueueSorted'
  BY <1>1, TailFacts DEF LoopDispatch, QueueSorted, TypeOK
<1>2. ASSUME LoopBackOff
      PROVE  QueueSorted'
  BY <1>2, TailFacts, EnqueuedFacts DEF LoopBackOff, QueueSorted, TypeOK
<1>3. ASSUME LoopEnds
      PROVE  QueueSorted'
  BY <1>3 DEF LoopEnds, QueueSorted
<1>4. ASSUME NEW t \in Tasks, Submit(t)
      PROVE  QueueSorted'
  BY <1>4 DEF Submit, QueueSorted
<1>5. ASSUME NEW t \in Tasks, EnqueueNew(t)
      PROVE  QueueSorted'
  BY <1>5, EnqueuedFacts DEF EnqueueNew, Notified, QueueSorted, TypeOK
<1>6. ASSUME NEW t \in Tasks, Started(t)
      PROVE  QueueSorted'
  BY <1>6 DEF Started, QueueSorted
<1>7. ASSUME NEW t \in Tasks, StartFails(t)
      PROVE  QueueSorted'
  BY <1>7 DEF StartFails, QueueSorted
<1>8. ASSUME NEW t \in Tasks, Prepared(t)
      PROVE  QueueSorted'
  BY <1>8 DEF Prepared, QueueSorted
<1>9. ASSUME NEW t \in Tasks, SetupDone(t)
      PROVE  QueueSorted'
  BY <1>9 DEF SetupDone, QueueSorted
<1>10. ASSUME NEW t \in Tasks, ExecReturns(t)
      PROVE  QueueSorted'
  BY <1>10 DEF ExecReturns, ExecEnds, QueueSorted
<1>11. ASSUME NEW t \in Tasks, Revives(t)
      PROVE  QueueSorted'
  BY <1>11 DEF Revives, QueueSorted
<1>12. ASSUME NEW t \in Tasks, Revived(t)
      PROVE  QueueSorted'
  BY <1>12 DEF Revived, QueueSorted
<1>13. ASSUME NEW t \in Tasks, BodyThrows(t)
      PROVE  QueueSorted'
  BY <1>13 DEF BodyThrows, ExecEnds, Throw, QueueSorted
<1>14. ASSUME NEW t \in Tasks, Completed(t)
      PROVE  QueueSorted'
  BY <1>14 DEF Completed, Finish, QueueSorted
<1>15. ASSUME NEW t \in Tasks, CompleteFails(t)
      PROVE  QueueSorted'
  BY <1>15 DEF CompleteFails, Throw, QueueSorted
<1>16. ASSUME NEW t \in Tasks, CleanedUp(t)
      PROVE  QueueSorted'
  BY <1>16 DEF CleanedUp, Finish, QueueSorted
<1>17. ASSUME NEW t \in Tasks, CleanupThrows(t)
      PROVE  QueueSorted'
  BY <1>17 DEF CleanupThrows, QueueSorted
<1>18. ASSUME NEW t \in Tasks, Retries(t)
      PROVE  QueueSorted'
  BY <1>18 DEF Retries, Finish, QueueSorted
<1>19. ASSUME NEW t \in Tasks, Fails(t)
      PROVE  QueueSorted'
  BY <1>19 DEF Fails, Finish, QueueSorted
<1>20. ASSUME NEW t \in Tasks, FailureWriteFails(t)
      PROVE  QueueSorted'
  BY <1>20 DEF FailureWriteFails, Finish, QueueSorted
<1>21. ASSUME NEW t \in Tasks, RetryTimer(t)
      PROVE  QueueSorted'
  BY <1>21, EnqueuedFacts DEF RetryTimer, QueueSorted, TypeOK
<1>22. ASSUME NEW t \in Tasks, WatchdogFires(t)
      PROVE  QueueSorted'
  BY <1>22 DEF WatchdogFires, Abort, QueueSorted
<1>23. ASSUME NEW c \in Cancellers, NEW t \in Tasks, CancelQueued(c, t)
      PROVE  QueueSorted'
  BY <1>23, CancelledFacts, RemoveAtFacts
     DEF CancelQueued, Calls, Idle, QueueSorted, TypeOK
<1>24. ASSUME NEW c \in Cancellers, NEW t \in Tasks, CancelActive(c, t)
      PROVE  QueueSorted'
  BY <1>24 DEF CancelActive, Calls, Idle, Abort, QueueSorted
<1>25. ASSUME NEW c \in Cancellers, NEW t \in Tasks, CancelRefused(c, t)
      PROVE  QueueSorted'
  BY <1>25 DEF CancelRefused, Calls, Idle, QueueSorted
<1>26. ASSUME NEW c \in Cancellers, CancelQueuedWritten(c)
      PROVE  QueueSorted'
  BY <1>26 DEF CancelQueuedWritten, Calls, QueueSorted
<1>27. ASSUME NEW c \in Cancellers, CancelAborted(c)
      PROVE  QueueSorted'
  BY <1>27 DEF CancelAborted, Calls, QueueSorted
<1>28. ASSUME NEW c \in Cancellers, CancelActiveWritten(c)
      PROVE  QueueSorted'
  BY <1>28 DEF CancelActiveWritten, Calls, QueueSorted
<1>29. ASSUME NEW c \in Cancellers, CancelWriteFails(c)
      PROVE  QueueSorted'
  BY <1>29 DEF CancelWriteFails, Calls, QueueSorted
<1>30. ASSUME NEW c \in Cancellers, NEW s, CancelBySession(c, s)
      PROVE  QueueSorted'
  <2>1. CASE \E t \in active : SessionOf[t] = s /\ CancelActive(c, t)
    BY <2>1, <1>24 DEF TypeOK
  <2>2. CASE ~(\E t \in active : SessionOf[t] = s /\ CancelActive(c, t))
    BY <1>30, <2>2, SessionIndexFacts, RemoveAtFacts DEF CancelBySession, QueueSorted, TypeOK
  <2>3. QED
    BY <2>1, <2>2
<1>31. CASE Restart
  BY <1>31 DEF Restart, QueueSorted, Sorted
<1>32. CASE UNCHANGED vars
  BY <1>32 DEF vars, QueueSorted
<1>33. QED
  BY <1>1, <1>2, <1>3, <1>4, <1>5, <1>6, <1>7, <1>8, <1>9, <1>10, <1>11, <1>12,
     <1>13, <1>14, <1>15, <1>16, <1>17, <1>18, <1>19, <1>20, <1>21, <1>22, <1>23,
     <1>24, <1>25, <1>26, <1>27, <1>28, <1>29, <1>30, <1>31, <1>32
     DEF Next, Loop, Dispatch, Failure, CancelCall, CancelProgress

-----------------------------------------------------------------------------
(* The theorems.                                                            *)

\* The inductive invariant.
DispatchInv == /\ TypeOK /\ OnePlace /\ SlotAccounting
               /\ WatchInv /\ RowInv /\ NoTaskLost /\ QueueSorted

\* The dispatch's inductive invariant always holds.
LEMMA DispatchInvariant == Spec => []DispatchInv
<1>1. Init => DispatchInv
  <2> SUFFICES ASSUME Init
               PROVE  DispatchInv
    OBVIOUS
  <2>1. TypeOK
    BY ProfileAssumption, LimitAssumption, AttemptsAssumption, BoundsAssumption
       DEF Init, TypeOK
  <2>2. OnePlace
    BY DEF Init, OnePlace, Contains, IsInjective
  <2>3. \A p \in Profiles : InFlight(p) = {}
    BY DEF Init, InFlight, Phases
  <2>4. SlotAccounting
    <3>1. \A p \in Profiles : Cardinality(InFlight(p)) = 0
      BY <2>3, FS_EmptySet
    <3>2. QED
      BY <3>1, LimitAssumption DEF Init, SlotAccounting
  <2>5. WatchInv
    BY DEF Init, WatchInv, Watched, Working, Phases, Running
  <2>6. RowInv
    BY DEF Init, RowInv, RowOf, CallOf, NoRequest, Working, Running, Contains
  <2>7. NoTaskLost /\ QueueSorted
    BY DEF Init, NoTaskLost, QueueSorted, Sorted, Live
  <2>8. QED
    BY <2>1, <2>2, <2>4, <2>5, <2>6, <2>7 DEF DispatchInv
<1>2. DispatchInv /\ [Next]_vars => DispatchInv'
  BY TypeStep, PlaceStep, SlotStep, WatchStep, RowStep, LostStep, SortedStep DEF DispatchInv
<1>3. QED
  BY <1>1, <1>2, PTL DEF Spec

\* A task is never in two places: no two attempts of it ever run at once, and
\* no enqueue finds it in the queue already.
THEOREM OnePlaceCorrect == Spec => []OnePlace
<1>1. DispatchInv => OnePlace
  BY DEF DispatchInv
<1>2. QED
  BY <1>1, DispatchInvariant, PTL

\* The limiter's books agree with the dispatches in flight up to the slots that
\* cancels gave back early and those a failed first write kept.
THEOREM SlotAccountingCorrect == Spec => []SlotAccounting
<1>1. DispatchInv => SlotAccounting
  BY DEF DispatchInv
<1>2. QED
  BY <1>1, DispatchInvariant, PTL

\* A profile exceeds its limit by no more than the cancels of its running tasks.
THEOREM OvercommitBounded == Spec => []BoundedOvercommit
<1>1. DispatchInv => BoundedOvercommit
  <2> SUFFICES ASSUME DispatchInv, NEW p \in Profiles
               PROVE  Cardinality(InFlight(p)) <= Limit + extra[p]
    BY DEF BoundedOvercommit
  <2>1. /\ slots[p] \in Nat /\ extra[p] \in Nat /\ Limit \in Nat
        /\ Cardinality(InFlight(p)) \in Nat
    BY FlightsFinite, LimitAssumption DEF DispatchInv, TypeOK
  <2>2. Cardinality(InFlight(p)) <= slots[p] + extra[p] /\ slots[p] <= Limit
    BY DEF DispatchInv, SlotAccounting
  <2>3. QED
    BY <2>1, <2>2
<1>2. QED
  BY <1>1, DispatchInvariant, PTL

\* An agent at work is known to cancel and to the watchdog unless a cancel took it
\* out; no timer and no entry outlives its attempt, over any number of retries.
THEOREM SupervisedCorrect == Spec => []Supervised
<1>1. DispatchInv => Supervised
  BY DEF DispatchInv, WatchInv, Watched, Working, Supervised
<1>2. QED
  BY <1>1, DispatchInvariant, PTL

\* Whatever is cancelled, retried or restarted, a row that is live belongs to a task
\* that memory still moves, unless a write of it failed.
THEOREM NoTaskLostCorrect == Spec => []NoTaskLost
<1>1. DispatchInv => NoTaskLost
  BY DEF DispatchInv
<1>2. QED
  BY <1>1, DispatchInvariant, PTL

\* The loop's queue stays in order with tasks coming back from retries and back-offs.
THEOREM LoopQueueSorted == Spec => []QueueSorted
<1>1. DispatchInv => QueueSorted
  BY DEF DispatchInv
<1>2. QED
  BY <1>1, DispatchInvariant, PTL

\* The three ways listed are all in which the row of a settled task ever changes.
THEOREM RewritesAreKnown == Spec => SettledRowRewrites
<1> DEFINE A == \A t \in Tasks : Rewritten(t)
<1>1. DispatchInv /\ [Next]_vars => [A]_vars
  BY RewriteStep DEF DispatchInv
<1>2. Spec => [][A]_vars
  BY <1>1, DispatchInvariant, PTL DEF Spec
<1>3. QED
  BY <1>2 DEF SettledRowRewrites, Rewritten
=============================================================================
