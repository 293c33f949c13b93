------------------------ MODULE ContainerPoolProofs -------------------------
(***************************************************************************)
(* Theorems about the pool of warm containers, for every set of            *)
(* containers, dispatches and passes, every size and every number of       *)
(* failing Docker calls.                                                   *)
(***************************************************************************)
EXTENDS ContainerPool, TLAPS

\* A dispatch or pass that works with a container names one.
Named == /\ \A u \in Users : user[u].step \in Holding \cup {"removing"} => user[u].c \in Containers
         /\ \A h \in Checks : check[h].step = "removing" => check[h].c \in Containers
         /\ \A d \in Drains : drain[d].step = "removing" => drain[d].c \in Containers

\* BusyIsHeld, container by container.
Held(c) == \E u \in Users : user[u].step \in Holding /\ user[u].c = c
BusyHeld == \A c \in pool : c \in busy <=> Held(c)

\* What a drain pass has still to look at is not old once it has been claimed:
\* claim renews lastUsed and the pass compares with the time it began.
DrainSparesBusy == \A d \in Drains : drain[d].todo \cap old \cap busy = {}

\* Before shutdown nothing is being closed.
Books == NothingEscapes /\ (server = "up" => closing = {})

\* What is being removed has left the map, and what is in it exists.
PoolExists ==
    /\ \A c \in pool : docker[c] # "none" /\ c \notin closing
    /\ \A u \in Users : user[u].step = "removing" => user[u].c \notin pool
    /\ \A h \in Checks : check[h].step = "removing" => check[h].c \notin pool
    /\ \A d \in Drains : drain[d].step = "removing" => drain[d].c \notin pool

\* The inductive invariant.
PoolInv == /\ TypeOK /\ Named
           /\ ExclusiveUse /\ BusyHeld
           /\ DrainSparesBusy /\ Books /\ PoolExists
-----------------------------------------------------------------------------
\* An entry that leaves the map leaves the pool's fields in their types.
LEMMA UntracksTypes ==
    ASSUME TypeOK, NEW c, Untracks(c)
    PROVE  /\ pool' \subseteq Containers /\ busy' \subseteq pool' /\ old' \subseteq pool'
           /\ uses' \in [Containers -> 0..(MaxRecycles - 1)]
<1>1. 0 \in 0..(MaxRecycles - 1)
  BY SizesAssumption
<1>2. QED
  BY <1>1 DEF TypeOK, Untracks

\* So does a removal that Docker answers.
LEMMA RemovalTypes ==
    ASSUME TypeOK, NEW c \in Containers, RemovalAnswered(c)
    PROVE  /\ pool' \subseteq Containers /\ busy' \subseteq pool' /\ old' \subseteq pool'
           /\ uses' \in [Containers -> 0..(MaxRecycles - 1)]
           /\ docker' \in [Containers -> {"none", "running", "dead"}]
           /\ errors' \in 0..MaxErrors /\ strays' \subseteq Containers
           /\ server' \in {"up", "closing", "crashed"}
<1>1. errors' \in 0..MaxErrors
  BY SizesAssumption DEF TypeOK, RemovalAnswered
<1>2. QED
  BY <1>1 DEF TypeOK, RemovalAnswered

\* Every step keeps the state in its types.
LEMMA TypeStep ==
    ASSUME TypeOK, Named, [Next]_vars
    PROVE  TypeOK' /\ Named'
<1> USE NoContainerAssumption, SizesAssumption
<1>1. ASSUME NEW u \in Users, ClaimIdle(u)
      PROVE  TypeOK' /\ Named'
  BY <1>1 DEF ClaimIdle, Claims, Goes, TypeOK, Named, Holding, passVars, hostVars
<1>2. ASSUME NEW u \in Users, ClaimNew(u)
      PROVE  TypeOK' /\ Named'
  BY <1>2 DEF ClaimNew, Claims, Goes, TypeOK, Named, Holding, passVars, hostVars
<1>3. ASSUME NEW u \in Users, Claimed(u)
      PROVE  TypeOK' /\ Named'
  BY <1>3 DEF Claimed, Created, Fresh, Goes, TypeOK, Named, Holding, passVars, hostVars
<1>4. ASSUME NEW u \in Users, ClaimFails(u)
      PROVE  TypeOK' /\ Named'
  BY <1>4 DEF ClaimFails, CreationFails, Fresh, Goes, TypeOK, Named, Holding, passVars, hostVars
<1>5. ASSUME NEW u \in Users, ReleaseForgotten(u)
      PROVE  TypeOK' /\ Named'
  BY <1>5 DEF ReleaseForgotten, Goes, TypeOK, Named, Holding, passVars, hostVars
<1>6. ASSUME NEW u \in Users, Release(u)
      PROVE  TypeOK' /\ Named'
  <2>1. user[u].c \in Containers /\ uses[user[u].c] + 1 \in Nat
    BY <1>6 DEF Release, Named, Holding, TypeOK
  <2>2. CASE Untracks(user[u].c) /\ Goes(u, "removing", user[u].c)
    BY <1>6, <2>1, <2>2, UntracksTypes DEF Release, Goes, TypeOK, Named, Holding, passVars, hostVars
  <2>3. CASE /\ uses[user[u].c] + 1 < MaxRecycles /\ uses' = [uses EXCEPT ![user[u].c] = @ + 1]
             /\ Goes(u, "cleaning", user[u].c) /\ UNCHANGED <<pool, busy, old>>
    <3>1. uses' \in [Containers -> 0..(MaxRecycles - 1)]
      BY <2>1, <2>3 DEF TypeOK
    <3>2. QED
      BY <1>6, <2>1, <2>3, <3>1 DEF Release, Goes, TypeOK, Named, Holding, passVars, hostVars
  <2>4. QED
    BY <1>6, <2>2, <2>3 DEF Release
<1>7. ASSUME NEW u \in Users, Cleaned(u)
      PROVE  TypeOK' /\ Named'
  BY <1>7 DEF Cleaned, Goes, TypeOK, Named, Holding, passVars, hostVars
<1>8. ASSUME NEW u \in Users, CleanFails(u)
      PROVE  TypeOK' /\ Named'
  BY <1>8 DEF CleanFails, Untracks, Goes, TypeOK, Named, Holding, passVars, hostVars
<1>9. ASSUME NEW u \in Users, Removed(u)
      PROVE  TypeOK' /\ Named'
  BY <1>9 DEF Removed, RemovalAnswered, Goes, TypeOK, Named, Holding, passVars, hostVars
<1>10. ASSUME NEW u \in Users, Replaced(u)
      PROVE  TypeOK' /\ Named'
  BY <1>10 DEF Replaced, Created, Fresh, Goes, TypeOK, Named, Holding, passVars, hostVars
<1>11. ASSUME NEW u \in Users, ReplaceFails(u)
      PROVE  TypeOK' /\ Named'
  BY <1>11 DEF ReplaceFails, CreationFails, Fresh, Goes, TypeOK, Named, Holding, passVars, hostVars
<1>12. ASSUME NEW h \in Checks, CheckStarts(h)
      PROVE  TypeOK' /\ Named'
  BY <1>12 DEF CheckStarts, CheckGoesOn, NoPass, TypeOK, Named, Holding, passVars, hostVars
<1>13. ASSUME NEW h \in Checks, CheckAlive(h)
      PROVE  TypeOK' /\ Named'
  BY <1>13 DEF CheckAlive, CheckGoesOn, NoPass, TypeOK, Named, Holding, passVars, hostVars
<1>14. ASSUME NEW h \in Checks, CheckDead(h)
      PROVE  TypeOK' /\ Named'
  BY <1>14 DEF CheckDead, Untracks, CheckGoes, TypeOK, Named, Holding, passVars, hostVars
<1>15. ASSUME NEW h \in Checks, CheckRemoved(h)
      PROVE  TypeOK' /\ Named'
  <2>1. check[h].c \in Containers /\ RemovalAnswered(check[h].c)
    BY <1>15 DEF CheckRemoved, Named
  <2>2. check' \in [Checks -> [step : {"idle", "asking", "removing", "replacing"},
                               c : Containers \cup {NoContainer}, todo : SUBSET Containers]]
    <3>1. CASE Cardinality(pool) < MinSize
      BY <1>15, <3>1 DEF CheckRemoved, CheckGoes, TypeOK
    <3>2. CASE ~(Cardinality(pool) < MinSize)
      BY <1>15, <3>2 DEF CheckRemoved, CheckGoesOn, NoPass, TypeOK
    <3>3. QED
      BY <3>1, <3>2
  <2>3. \A g \in Checks : check'[g].step = "removing" => check'[g].c \in Containers
    BY <1>15 DEF CheckRemoved, CheckGoes, CheckGoesOn, NoPass, TypeOK, Named
  <2>4. QED
    BY <1>15, <2>1, <2>2, <2>3, RemovalTypes DEF CheckRemoved, TypeOK, Named
<1>16. ASSUME NEW h \in Checks, CheckReplaced(h)
      PROVE  TypeOK' /\ Named'
  BY <1>16 DEF CheckReplaced, Created, Fresh, CheckGoesOn, NoPass, TypeOK, Named, Holding, passVars, hostVars
<1>17. ASSUME NEW h \in Checks, CheckFails(h)
      PROVE  TypeOK' /\ Named'
  BY <1>17 DEF CheckFails, NoPass, TypeOK, Named, Holding, passVars, hostVars
<1>18. ASSUME NEW d \in Drains, DrainStarts(d)
      PROVE  TypeOK' /\ Named'
  BY <1>18 DEF DrainStarts, TypeOK, Named, Holding, passVars, hostVars
<1>19. ASSUME NEW d \in Drains, DrainTakes(d)
      PROVE  TypeOK' /\ Named'
  BY <1>19 DEF DrainTakes, Untracks, TypeOK, Named, Holding, passVars, hostVars
<1>20. ASSUME NEW d \in Drains, DrainRemoved(d)
      PROVE  TypeOK' /\ Named'
  BY <1>20 DEF DrainRemoved, RemovalAnswered, TypeOK, Named, Holding, passVars, hostVars
<1>21. ASSUME NEW d \in Drains, DrainEnds(d)
      PROVE  TypeOK' /\ Named'
  BY <1>21 DEF DrainEnds, TypeOK, Named, Holding, passVars, hostVars
<1>22. ASSUME NEW c \in Containers, Ages(c)
      PROVE  TypeOK' /\ Named'
  BY <1>22 DEF Ages, TypeOK, Named, Holding, passVars, hostVars
<1>23. ASSUME NEW c \in Containers, Dies(c)
      PROVE  TypeOK' /\ Named'
  BY <1>23 DEF Dies, TypeOK, Named, Holding, passVars, hostVars
<1>24. ASSUME NEW c \in Containers, ShutdownRemoved(c)
      PROVE  TypeOK' /\ Named'
  BY <1>24 DEF ShutdownRemoved, RemovalAnswered, TypeOK, Named, Holding, passVars, hostVars
<1>25. ASSUME Shutdown
      PROVE  TypeOK' /\ Named'
  BY <1>25 DEF Shutdown, TypeOK, Named, Holding, passVars
<1>26. ASSUME UNCHANGED vars
      PROVE  TypeOK' /\ Named'
  BY <1>26 DEF vars, TypeOK, Named, Holding, passVars, hostVars
<1>27. QED
  BY <1>1, <1>2, <1>3, <1>4, <1>5, <1>6, <1>7, <1>8, <1>9, <1>10, <1>11, <1>12, <1>13, <1>14, <1>15, <1>16, <1>17, <1>18, <1>19, <1>20, <1>21, <1>22, <1>23, <1>24, <1>25, <1>26 DEF Next, Claim, UserProgress, CheckProgress, DrainProgress

\* No step gives a container to a second dispatch: claim takes one that is not
\* busy, so that nobody holds it, or a new one.
LEMMA UseStep ==
    ASSUME TypeOK, ExclusiveUse, BusyHeld, [Next]_vars
    PROVE  ExclusiveUse'
<1>1. ASSUME NEW u \in Users, ClaimIdle(u)
      PROVE  ExclusiveUse'
  BY <1>1 DEF ClaimIdle, Goes, TypeOK, ExclusiveUse, BusyHeld, Held, Holding
<1>2. ASSUME NEW u \in Users, Claimed(u)
      PROVE  ExclusiveUse'
  BY <1>2 DEF Claimed, Created, Fresh, Goes, TypeOK, ExclusiveUse, Holding
<1>3. ASSUME NEW u \in Users, Release(u)
      PROVE  ExclusiveUse'
  BY <1>3 DEF Release, Goes, TypeOK, ExclusiveUse, Holding
<1>4. CASE \A v \in Users : user'[v].step \in Holding => user'[v] = user[v]
  BY <1>4 DEF ExclusiveUse
<1>5. ASSUME NEW u \in Users,
             \/ ClaimNew(u) \/ ClaimFails(u) \/ ReleaseForgotten(u) \/ Cleaned(u) \/ CleanFails(u)
             \/ Removed(u) \/ Replaced(u) \/ ReplaceFails(u)
      PROVE  \A v \in Users : user'[v].step \in Holding => user'[v] = user[v]
  BY <1>5 DEF ClaimNew, ClaimFails, ReleaseForgotten, Cleaned, CleanFails, Removed, Replaced, ReplaceFails,
              Goes, TypeOK, Holding
<1>6. ASSUME NEW h \in Checks, CheckFails(h)
      PROVE  \A v \in Users : user'[v].step \notin Holding
  BY <1>6 DEF CheckFails, Holding
<1>7. ASSUME \/ \E h \in Checks : CheckStarts(h) \/ CheckProgress(h)
             \/ \E d \in Drains : DrainStarts(d) \/ DrainProgress(d)
             \/ \E c \in Containers : Ages(c) \/ Dies(c) \/ ShutdownRemoved(c)
             \/ Shutdown \/ UNCHANGED vars
      PROVE  user' = user
  BY <1>7 DEF CheckStarts, CheckProgress, CheckAlive, CheckDead, CheckRemoved, CheckReplaced, DrainStarts,
              DrainProgress, DrainTakes, DrainRemoved, DrainEnds, Ages, Dies, ShutdownRemoved, Shutdown, vars
<1>8. QED
  BY <1>1, <1>2, <1>3, <1>4, <1>5, <1>6, <1>7 DEF Next, Claim, UserProgress

\* Every step that begins or ends a dispatch's hold changes the entry with it.
LEMMA BusyStep ==
    ASSUME TypeOK, ExclusiveUse, BusyHeld, [Next]_vars
    PROVE  BusyHeld'
<1>1. ASSUME NEW u \in Users, ClaimIdle(u)
      PROVE  BusyHeld'
  BY <1>1 DEF ClaimIdle, Goes, Claims, TypeOK, BusyHeld, Held, Holding
<1>2. ASSUME NEW u \in Users, Claimed(u)
      PROVE  BusyHeld'
  BY <1>2 DEF Claimed, Created, Fresh, Goes, TypeOK, BusyHeld, Held, Holding
<1>3. ASSUME NEW u \in Users, Release(u)
      PROVE  BusyHeld'
  <2>1. CASE Untracks(user[u].c) /\ Goes(u, "removing", user[u].c)
    BY <1>3, <2>1 DEF Release, Untracks, Goes, TypeOK, ExclusiveUse, BusyHeld, Held, Holding
  <2>2. CASE Goes(u, "cleaning", user[u].c) /\ UNCHANGED <<pool, busy, old>>
    BY <1>3, <2>2 DEF Release, Goes, TypeOK, ExclusiveUse, BusyHeld, Held, Holding
  <2>3. QED
    BY <1>3, <2>1, <2>2 DEF Release
<1>4. ASSUME NEW u \in Users, Cleaned(u)
      PROVE  BusyHeld'
  BY <1>4 DEF Cleaned, Goes, TypeOK, ExclusiveUse, BusyHeld, Held, Holding
<1>5. ASSUME NEW u \in Users, CleanFails(u)
      PROVE  BusyHeld'
  BY <1>5 DEF CleanFails, Untracks, Goes, TypeOK, ExclusiveUse, BusyHeld, Held, Holding
<1>6. ASSUME NEW u \in Users, ReleaseForgotten(u)
      PROVE  BusyHeld'
  BY <1>6 DEF ReleaseForgotten, Goes, TypeOK, BusyHeld, Held, Holding
<1>7. ASSUME NEW u \in Users, Replaced(u)
      PROVE  BusyHeld'
  BY <1>7 DEF Replaced, Created, Fresh, Goes, TypeOK, BusyHeld, Held, Holding
<1>8. ASSUME NEW u \in Users, ClaimNew(u) \/ ClaimFails(u) \/ Removed(u) \/ ReplaceFails(u)
      PROVE  BusyHeld'
  <2>1. CASE ClaimNew(u)
    BY <2>1 DEF ClaimNew, Claims, Goes, TypeOK, BusyHeld, Held, Holding
  <2>2. CASE ClaimFails(u)
    BY <2>2 DEF ClaimFails, CreationFails, Goes, TypeOK, BusyHeld, Held, Holding
  <2>3. CASE Removed(u)
    BY <2>3 DEF Removed, RemovalAnswered, Goes, TypeOK, BusyHeld, Held, Holding
  <2>4. CASE ReplaceFails(u)
    BY <2>4 DEF ReplaceFails, CreationFails, Goes, TypeOK, BusyHeld, Held, Holding
  <2>5. QED
    BY <1>8, <2>1, <2>2, <2>3, <2>4
<1>9. ASSUME NEW h \in Checks, CheckDead(h)
      PROVE  BusyHeld'
  BY <1>9 DEF CheckDead, Untracks, BusyHeld, Held
<1>10. ASSUME NEW h \in Checks, CheckReplaced(h)
       PROVE  BusyHeld'
  BY <1>10 DEF CheckReplaced, Created, Fresh, TypeOK, BusyHeld, Held
<1>11. ASSUME NEW d \in Drains, DrainTakes(d)
       PROVE  BusyHeld'
  BY <1>11 DEF DrainTakes, Untracks, BusyHeld, Held
<1>12. ASSUME Shutdown \/ \E h \in Checks : CheckFails(h)
       PROVE  BusyHeld'
  BY <1>12 DEF Shutdown, CheckFails, BusyHeld
<1>13. ASSUME \/ \E h \in Checks : CheckStarts(h) \/ CheckAlive(h) \/ CheckRemoved(h)
              \/ \E d \in Drains : DrainStarts(d) \/ DrainRemoved(d) \/ DrainEnds(d)
              \/ \E c \in Containers : Ages(c) \/ Dies(c) \/ ShutdownRemoved(c)
              \/ UNCHANGED vars
       PROVE  BusyHeld'
  <2>1. UNCHANGED <<pool, busy, user>>
    BY <1>13 DEF CheckStarts, CheckAlive, CheckRemoved, RemovalAnswered, DrainStarts, DrainRemoved,
                 DrainEnds, Ages, Dies, ShutdownRemoved, vars
  <2>2. QED
    BY <2>1 DEF BusyHeld, Held
<1>14. QED
  BY <1>1, <1>2, <1>3, <1>4, <1>5, <1>6, <1>7, <1>8, <1>9, <1>10, <1>11, <1>12, <1>13
     DEF Next, Claim, UserProgress, CheckProgress, DrainProgress

\* A claim makes a container young, and it does not age under a pass that has it
\* in its snapshot.
LEMMA DrainStep ==
    ASSUME TypeOK, DrainSparesBusy, [Next]_vars
    PROVE  DrainSparesBusy'
<1>1. ASSUME NEW u \in Users, ClaimIdle(u)
      PROVE  DrainSparesBusy'
  BY <1>1 DEF ClaimIdle, passVars, DrainSparesBusy
<1>2. ASSUME NEW u \in Users, Claimed(u)
      PROVE  DrainSparesBusy'
  BY <1>2 DEF Claimed, Created, Fresh, passVars, TypeOK, DrainSparesBusy
<1>3. ASSUME NEW d \in Drains, DrainStarts(d)
      PROVE  DrainSparesBusy'
  BY <1>3 DEF DrainStarts, TypeOK, DrainSparesBusy
<1>4. ASSUME NEW c \in Containers, Ages(c)
      PROVE  DrainSparesBusy'
  BY <1>4 DEF Ages, passVars, DrainSparesBusy
<1>5. CASE /\ old' \subseteq old /\ busy' \subseteq busy
           /\ \A d \in Drains : drain'[d].todo \subseteq drain[d].todo
  BY <1>5 DEF DrainSparesBusy
<1>6. ASSUME NEW u \in Users,
             \/ ClaimNew(u) \/ ClaimFails(u) \/ ReleaseForgotten(u) \/ Release(u) \/ Cleaned(u)
             \/ CleanFails(u) \/ Removed(u) \/ Replaced(u) \/ ReplaceFails(u)
      PROVE  old' \subseteq old /\ busy' \subseteq busy /\ drain' = drain
  BY <1>6 DEF ClaimNew, ClaimFails, CreationFails, ReleaseForgotten, Release, Untracks, Cleaned, CleanFails,
              Removed, RemovalAnswered, Replaced, Created, ReplaceFails, passVars
<1>7. ASSUME NEW h \in Checks, CheckStarts(h) \/ CheckProgress(h)
      PROVE  old' \subseteq old /\ busy' \subseteq busy /\ drain' = drain
  BY <1>7 DEF CheckStarts, CheckProgress, CheckAlive, CheckDead, Untracks, CheckRemoved, RemovalAnswered,
              CheckReplaced, Created
<1>8. ASSUME NEW h \in Checks, CheckFails(h)
      PROVE  busy' = {}
  BY <1>8 DEF CheckFails
<1>9. ASSUME NEW d \in Drains, DrainProgress(d)
      PROVE  /\ old' \subseteq old /\ busy' \subseteq busy
             /\ \A e \in Drains : drain'[e].todo \subseteq drain[e].todo
  BY <1>9 DEF DrainProgress, DrainTakes, Untracks, DrainRemoved, RemovalAnswered, DrainEnds, TypeOK
<1>10. ASSUME \/ Shutdown \/ \E c \in Containers : Dies(c) \/ ShutdownRemoved(c)
              \/ UNCHANGED vars
       PROVE  old' \subseteq old /\ busy' \subseteq busy /\ drain' = drain
  BY <1>10 DEF Shutdown, Dies, ShutdownRemoved, RemovalAnswered, passVars, vars
<1>11. QED
  BY <1>1, <1>2, <1>3, <1>4, <1>5, <1>6, <1>7, <1>8, <1>9, <1>10 DEF Next, Claim, UserProgress, DrainSparesBusy

\* A container leaves the books only when Docker has removed it.
LEMMA BooksStep ==
    ASSUME TypeOK, Books, [Next]_vars
    PROVE  Books'
<1> USE NoContainerAssumption, SizesAssumption
<1>1. ASSUME NEW u \in Users, ClaimIdle(u)
      PROVE  Books'
  BY <1>1 DEF ClaimIdle, Claims, Goes, TypeOK, Books, NothingEscapes, passVars, hostVars
<1>2. ASSUME NEW u \in Users, ClaimNew(u)
      PROVE  Books'
  BY <1>2 DEF ClaimNew, Claims, Goes, TypeOK, Books, NothingEscapes, passVars, hostVars
<1>3. ASSUME NEW u \in Users, Claimed(u)
      PROVE  Books'
  BY <1>3 DEF Claimed, Created, Fresh, Goes, TypeOK, Books, NothingEscapes, passVars, hostVars
<1>4. ASSUME NEW u \in Users, ClaimFails(u)
      PROVE  Books'
  BY <1>4 DEF ClaimFails, CreationFails, Fresh, Goes, TypeOK, Books, NothingEscapes, passVars, hostVars
<1>5. ASSUME NEW u \in Users, ReleaseForgotten(u)
      PROVE  Books'
  BY <1>5 DEF ReleaseForgotten, Goes, TypeOK, Books, NothingEscapes, passVars, hostVars
<1>6. ASSUME NEW u \in Users, Release(u)
      PROVE  Books'
  <2>1. CASE Untracks(user[u].c) /\ Goes(u, "removing", user[u].c)
    BY <1>6, <2>1 DEF Release, Untracks, Goes, TypeOK, Books, NothingEscapes, passVars, hostVars
  <2>2. CASE Goes(u, "cleaning", user[u].c) /\ UNCHANGED <<pool, busy, old>>
    BY <1>6, <2>2 DEF Release, Goes, TypeOK, Books, NothingEscapes, passVars, hostVars
  <2>3. QED
    BY <1>6, <2>1, <2>2 DEF Release
<1>7. ASSUME NEW u \in Users, Cleaned(u)
      PROVE  Books'
  BY <1>7 DEF Cleaned, Goes, TypeOK, Books, NothingEscapes, passVars, hostVars
<1>8. ASSUME NEW u \in Users, CleanFails(u)
      PROVE  Books'
  BY <1>8 DEF CleanFails, Untracks, Goes, TypeOK, Books, NothingEscapes, passVars, hostVars
<1>9. ASSUME NEW u \in Users, Removed(u)
      PROVE  Books'
  BY <1>9 DEF Removed, RemovalAnswered, Goes, TypeOK, Books, NothingEscapes, passVars, hostVars
<1>10. ASSUME NEW u \in Users, Replaced(u)
      PROVE  Books'
  BY <1>10 DEF Replaced, Created, Fresh, Goes, TypeOK, Books, NothingEscapes, passVars, hostVars
<1>11. ASSUME NEW u \in Users, ReplaceFails(u)
      PROVE  Books'
  BY <1>11 DEF ReplaceFails, CreationFails, Fresh, Goes, TypeOK, Books, NothingEscapes, passVars, hostVars
<1>12. ASSUME NEW h \in Checks, CheckStarts(h)
      PROVE  Books'
  BY <1>12 DEF CheckStarts, CheckGoesOn, NoPass, TypeOK, Books, NothingEscapes, passVars, hostVars
<1>13. ASSUME NEW h \in Checks, CheckAlive(h)
      PROVE  Books'
  BY <1>13 DEF CheckAlive, CheckGoesOn, NoPass, TypeOK, Books, NothingEscapes, passVars, hostVars
<1>14. ASSUME NEW h \in Checks, CheckDead(h)
      PROVE  Books'
  BY <1>14 DEF CheckDead, Untracks, CheckGoes, TypeOK, Books, NothingEscapes, passVars, hostVars
<1>15. ASSUME NEW h \in Checks, CheckRemoved(h)
      PROVE  Books'
  <2>1. /\ check'[h].step # "removing"
        /\ \A g \in Checks : g # h => check'[g] = check[g]
    BY <1>15 DEF CheckRemoved, CheckGoes, CheckGoesOn, NoPass, TypeOK
  <2>2. \A c \in Containers : docker'[c] # "none" => docker[c] # "none" /\ (c = check[h].c => c \in strays')
    BY <1>15 DEF CheckRemoved, RemovalAnswered, TypeOK
  <2>3. UNCHANGED <<pool, closing, server, user, drain>> /\ strays \subseteq strays'
    BY <1>15 DEF CheckRemoved, RemovalAnswered
  <2>4. QED
    BY <2>1, <2>2, <2>3 DEF Books, NothingEscapes
<1>16. ASSUME NEW h \in Checks, CheckReplaced(h)
      PROVE  Books'
  <2>1. /\ check'[h].step # "removing" /\ check[h].step # "removing"
        /\ \A g \in Checks : g # h => check'[g] = check[g]
    BY <1>16 DEF CheckReplaced, CheckGoesOn, NoPass, TypeOK
  <2>2. PICK c \in Containers : /\ pool' = pool \cup {c}
                                /\ \A e \in Containers : e # c => docker'[e] = docker[e]
    BY <1>16 DEF CheckReplaced, Created, TypeOK
  <2>3. UNCHANGED <<closing, server, user, drain, strays>>
    BY <1>16 DEF CheckReplaced, hostVars
  <2>4. QED
    BY <2>1, <2>2, <2>3 DEF Books, NothingEscapes
<1>17. ASSUME NEW h \in Checks, CheckFails(h)
      PROVE  Books'
  BY <1>17 DEF CheckFails, NoPass, TypeOK, Books, NothingEscapes, passVars, hostVars
<1>18. ASSUME NEW d \in Drains, DrainStarts(d)
      PROVE  Books'
  BY <1>18 DEF DrainStarts, TypeOK, Books, NothingEscapes, passVars, hostVars
<1>19. ASSUME NEW d \in Drains, DrainTakes(d)
      PROVE  Books'
  BY <1>19 DEF DrainTakes, Untracks, TypeOK, Books, NothingEscapes, passVars, hostVars
<1>20. ASSUME NEW d \in Drains, DrainRemoved(d)
      PROVE  Books'
  <2>1. /\ drain'[d].step # "removing"
        /\ \A g \in Drains : g # d => drain'[g] = drain[g]
    BY <1>20 DEF DrainRemoved, TypeOK
  <2>2. \A c \in Containers : docker'[c] # "none" => docker[c] # "none" /\ (c = drain[d].c => c \in strays')
    BY <1>20 DEF DrainRemoved, RemovalAnswered, TypeOK
  <2>3. UNCHANGED <<pool, closing, server, user, check>> /\ strays \subseteq strays'
    BY <1>20 DEF DrainRemoved, RemovalAnswered
  <2>4. QED
    BY <2>1, <2>2, <2>3 DEF Books, NothingEscapes
<1>21. ASSUME NEW d \in Drains, DrainEnds(d)
      PROVE  Books'
  BY <1>21 DEF DrainEnds, TypeOK, Books, NothingEscapes, passVars, hostVars
<1>22. ASSUME NEW c \in Containers, Ages(c)
      PROVE  Books'
  BY <1>22 DEF Ages, TypeOK, Books, NothingEscapes, passVars, hostVars
<1>23. ASSUME NEW c \in Containers, Dies(c)
      PROVE  Books'
  BY <1>23 DEF Dies, TypeOK, Books, NothingEscapes, passVars, hostVars
<1>24. ASSUME NEW c \in Containers, ShutdownRemoved(c)
      PROVE  Books'
  BY <1>24 DEF ShutdownRemoved, RemovalAnswered, TypeOK, Books, NothingEscapes, passVars, hostVars
<1>25. ASSUME Shutdown
      PROVE  Books'
  BY <1>25 DEF Shutdown, TypeOK, Books, NothingEscapes, passVars
<1>26. ASSUME UNCHANGED vars
      PROVE  Books'
  BY <1>26 DEF vars, TypeOK, Books, NothingEscapes, passVars, hostVars
<1>27. QED
  BY <1>1, <1>2, <1>3, <1>4, <1>5, <1>6, <1>7, <1>8, <1>9, <1>10, <1>11, <1>12, <1>13, <1>14, <1>15, <1>16, <1>17, <1>18, <1>19, <1>20, <1>21, <1>22, <1>23, <1>24, <1>25, <1>26 DEF Next, Claim, UserProgress, CheckProgress, DrainProgress

\* An entry leaves the map before its container is removed, and a new one names
\* a container nobody is removing.
LEMMA ExistStep ==
    ASSUME TypeOK, Named, PoolExists, [Next]_vars
    PROVE  PoolExists'
<1> USE NoContainerAssumption, SizesAssumption
<1>1. ASSUME NEW u \in Users, ClaimIdle(u)
      PROVE  PoolExists'
  BY <1>1 DEF ClaimIdle, Claims, Goes, TypeOK, Named, PoolExists, passVars, hostVars
<1>2. ASSUME NEW u \in Users, ClaimNew(u)
      PROVE  PoolExists'
  BY <1>2 DEF ClaimNew, Claims, Goes, TypeOK, Named, PoolExists, passVars, hostVars
<1>3. ASSUME NEW u \in Users, Claimed(u)
      PROVE  PoolExists'
  BY <1>3 DEF Claimed, Created, Fresh, Goes, TypeOK, Named, PoolExists, passVars, hostVars
<1>4. ASSUME NEW u \in Users, ClaimFails(u)
      PROVE  PoolExists'
  BY <1>4 DEF ClaimFails, CreationFails, Fresh, Goes, TypeOK, Named, PoolExists, passVars, hostVars
<1>5. ASSUME NEW u \in Users, ReleaseForgotten(u)
      PROVE  PoolExists'
  BY <1>5 DEF ReleaseForgotten, Goes, TypeOK, Named, PoolExists, passVars, hostVars
<1>6. ASSUME NEW u \in Users, Release(u)
      PROVE  PoolExists'
  BY <1>6 DEF Release, Untracks, Goes, TypeOK, Named, PoolExists, passVars, hostVars
<1>7. ASSUME NEW u \in Users, Cleaned(u)
      PROVE  PoolExists'
  BY <1>7 DEF Cleaned, Goes, TypeOK, Named, PoolExists, passVars, hostVars
<1>8. ASSUME NEW u \in Users, CleanFails(u)
      PROVE  PoolExists'
  BY <1>8 DEF CleanFails, Untracks, Goes, TypeOK, Named, PoolExists, passVars, hostVars
<1>9. ASSUME NEW u \in Users, Removed(u)
      PROVE  PoolExists'
  BY <1>9 DEF Removed, RemovalAnswered, Goes, TypeOK, Named, PoolExists, passVars, hostVars
<1>10. ASSUME NEW u \in Users, Replaced(u)
      PROVE  PoolExists'
  BY <1>10 DEF Replaced, Created, Fresh, Goes, TypeOK, Named, PoolExists, passVars, hostVars
<1>11. ASSUME NEW u \in Users, ReplaceFails(u)
      PROVE  PoolExists'
  BY <1>11 DEF ReplaceFails, CreationFails, Fresh, Goes, TypeOK, Named, PoolExists, passVars, hostVars
<1>12. ASSUME NEW h \in Checks, CheckStarts(h)
      PROVE  PoolExists'
  BY <1>12 DEF CheckStarts, CheckGoesOn, NoPass, TypeOK, Named, PoolExists, passVars, hostVars
<1>13. ASSUME NEW h \in Checks, CheckAlive(h)
      PROVE  PoolExists'
  BY <1>13 DEF CheckAlive, CheckGoesOn, NoPass, TypeOK, Named, PoolExists, passVars, hostVars
<1>14. ASSUME NEW h \in Checks, CheckDead(h)
      PROVE  PoolExists'
  BY <1>14 DEF CheckDead, Untracks, CheckGoes, TypeOK, Named, PoolExists, passVars, hostVars
<1>15. ASSUME NEW h \in Checks, CheckRemoved(h)
      PROVE  PoolExists'
  <2>1. /\ check'[h].step # "removing"
        /\ \A k \in Checks : k # h => check'[k] = check[k]
    BY <1>15 DEF CheckRemoved, CheckGoes, CheckGoesOn, NoPass, TypeOK
  <2>2. \A c \in pool : docker'[c] = docker[c]
    BY <1>15 DEF CheckRemoved, RemovalAnswered, TypeOK, Named, PoolExists
  <2>3. UNCHANGED <<pool, closing, user, drain>>
    BY <1>15 DEF CheckRemoved, RemovalAnswered
  <2>4. QED
    BY <2>1, <2>2, <2>3 DEF PoolExists
<1>16. ASSUME NEW h \in Checks, CheckReplaced(h)
      PROVE  PoolExists'
  BY <1>16 DEF CheckReplaced, Created, Fresh, CheckGoesOn, NoPass, TypeOK, Named, PoolExists, passVars, hostVars
<1>17. ASSUME NEW h \in Checks, CheckFails(h)
      PROVE  PoolExists'
  BY <1>17 DEF CheckFails, NoPass, TypeOK, Named, PoolExists, passVars, hostVars
<1>18. ASSUME NEW d \in Drains, DrainStarts(d)
      PROVE  PoolExists'
  BY <1>18 DEF DrainStarts, TypeOK, Named, PoolExists, passVars, hostVars
<1>19. ASSUME NEW d \in Drains, DrainTakes(d)
      PROVE  PoolExists'
  BY <1>19 DEF DrainTakes, Untracks, TypeOK, Named, PoolExists, passVars, hostVars
<1>20. ASSUME NEW d \in Drains, DrainRemoved(d)
      PROVE  PoolExists'
  BY <1>20 DEF DrainRemoved, RemovalAnswered, TypeOK, Named, PoolExists, passVars, hostVars
<1>21. ASSUME NEW d \in Drains, DrainEnds(d)
      PROVE  PoolExists'
  BY <1>21 DEF DrainEnds, TypeOK, Named, PoolExists, passVars, hostVars
<1>22. ASSUME NEW c \in Containers, Ages(c)
      PROVE  PoolExists'
  BY <1>22 DEF Ages, TypeOK, Named, PoolExists, passVars, hostVars
<1>23. ASSUME NEW c \in Containers, Dies(c)
      PROVE  PoolExists'
  BY <1>23 DEF Dies, TypeOK, Named, PoolExists, passVars, hostVars
<1>24. ASSUME NEW c \in Containers, ShutdownRemoved(c)
      PROVE  PoolExists'
  BY <1>24 DEF ShutdownRemoved, RemovalAnswered, TypeOK, Named, PoolExists, passVars, hostVars
<1>25. ASSUME Shutdown
      PROVE  PoolExists'
  BY <1>25 DEF Shutdown, TypeOK, Named, PoolExists, passVars
<1>26. ASSUME UNCHANGED vars
      PROVE  PoolExists'
  BY <1>26 DEF vars, TypeOK, Named, PoolExists, passVars, hostVars
<1>27. QED
  BY <1>1, <1>2, <1>3, <1>4, <1>5, <1>6, <1>7, <1>8, <1>9, <1>10, <1>11, <1>12, <1>13, <1>14, <1>15, <1>16, <1>17, <1>18, <1>19, <1>20, <1>21, <1>22, <1>23, <1>24, <1>25, <1>26 DEF Next, Claim, UserProgress, CheckProgress, DrainProgress
-----------------------------------------------------------------------------
\* The invariant holds in every state of every behaviour.
LEMMA PoolInvariant == Spec => []PoolInv
<1>1. Init => PoolInv
  BY NoContainerAssumption, SizesAssumption
     DEF Init, PoolInv, TypeOK, Named, ExclusiveUse, BusyHeld, Held, Holding, DrainSparesBusy, Books,
         NothingEscapes, PoolExists, NoPass
<1>2. PoolInv /\ [Next]_vars => PoolInv'
  BY TypeStep, UseStep, BusyStep, DrainStep, BooksStep, ExistStep DEF PoolInv
<1>3. QED
  BY <1>1, <1>2, PTL DEF Spec

\* The pool's state stays in its types.
THEOREM PoolTypeCorrect == Spec => []TypeOK
<1>1. PoolInv => TypeOK
  BY DEF PoolInv
<1>2. QED
  BY <1>1, PoolInvariant, PTL

\* No two dispatches ever hold the same container.
THEOREM ExclusiveUseCorrect == Spec => []ExclusiveUse
<1>1. PoolInv => ExclusiveUse
  BY DEF PoolInv
<1>2. QED
  BY <1>1, PoolInvariant, PTL

\* An entry is busy exactly while a dispatch holds its container.
THEOREM BusyIsHeldCorrect == Spec => []BusyIsHeld
<1>1. PoolInv => BusyIsHeld
  BY DEF PoolInv, TypeOK, BusyHeld, Held, BusyIsHeld
<1>2. QED
  BY <1>1, PoolInvariant, PTL

\* Every container in Docker is on the pool's books, being removed, or was left
\* by a failed call.
THEOREM NothingEscapesCorrect == Spec => []NothingEscapes
<1>1. PoolInv => NothingEscapes
  BY DEF PoolInv, Books
<1>2. QED
  BY <1>1, PoolInvariant, PTL

\* While a dispatch uses a container, its entry leaves the map in few ways: a
\* health check found it dead, the process crashed or shut down.
LEMMA UseEnds ==
    ASSUME PoolInv, Next, NEW u \in Users, user[u].step = "using", user'[u] = user[u],
           user[u].c \in pool, user[u].c \notin pool'
    PROVE  docker[user[u].c] = "dead" \/ server' # "up"
<1> DEFINE c == user[u].c
<1>1. c \in busy
  BY DEF PoolInv, BusyHeld, Held, Holding
<1>2. ASSUME NEW v \in Users, Release(v) \/ CleanFails(v)
      PROVE  FALSE
  <2>1. v # u
    BY <1>2 DEF Release, CleanFails, Goes, PoolInv, TypeOK
  <2>2. user[v].c # c
    BY <1>2, <2>1 DEF Release, CleanFails, PoolInv, ExclusiveUse, Holding
  <2>3. QED
    BY <1>2, <2>2 DEF Release, CleanFails, Untracks
<1>3. ASSUME NEW h \in Checks, CheckDead(h)
      PROVE  docker[c] = "dead"
  BY <1>3 DEF CheckDead, Untracks, PoolInv, TypeOK, PoolExists
<1>4. ASSUME NEW d \in Drains, DrainTakes(d)
      PROVE  FALSE
  BY <1>1, <1>4 DEF DrainTakes, Untracks, PoolInv, DrainSparesBusy
<1>5. CASE \/ Shutdown
           \/ \E h \in Checks : CheckFails(h)
  BY <1>5 DEF Shutdown, CheckFails
<1>6. CASE pool \subseteq pool'
  BY <1>6
<1>7. \/ pool \subseteq pool'
      \/ \E v \in Users : Release(v) \/ CleanFails(v)
      \/ \E h \in Checks : CheckDead(h) \/ CheckFails(h)
      \/ \E d \in Drains : DrainTakes(d)
      \/ Shutdown
  BY DEF Next, Claim, UserProgress, CheckProgress, DrainProgress, ClaimIdle, ClaimNew, Claimed, Created,
         ClaimFails, CreationFails, ReleaseForgotten, Cleaned, Removed, RemovalAnswered, Replaced,
         ReplaceFails, CheckStarts, CheckAlive, CheckRemoved, CheckReplaced, DrainStarts, DrainRemoved,
         DrainEnds, Ages, Dies, ShutdownRemoved
<1>8. QED
  BY <1>2, <1>3, <1>4, <1>5, <1>6, <1>7

\* Until its own dispatch releases it, a live container in use stays in the map.
THEOREM InUseStaysCorrect == Spec => InUseStays
<1>1. ASSUME PoolInv, Next, NEW u \in Users, user[u].step = "using", user'[u] = user[u],
             user[u].c \in pool, user[u].c \notin pool'
      PROVE  docker[user[u].c] = "dead" \/ server' # "up"
  BY <1>1, UseEnds
<1>2. PoolInv /\ [Next]_vars =>
        [\A u \in Users :
           /\ user[u].step = "using" /\ user'[u] = user[u]
           /\ user[u].c \in pool /\ user[u].c \notin pool'
           => docker[user[u].c] = "dead" \/ server' # "up"]_vars
  BY <1>1
<1>3. QED
  BY <1>2, PoolInvariant, PTL DEF Spec, InUseStays
=============================================================================
