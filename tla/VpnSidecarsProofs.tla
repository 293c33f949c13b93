--------------------------- MODULE VpnSidecarsProofs ---------------------------
(***************************************************************************)
(* Theorems about the sharing of a sidecar, for every finite set of agents *)
(* and warm-ups and every number of updates, mishaps and restarts.         *)
(***************************************************************************)
EXTENDS VpnSidecars, FiniteSetTheorems, TLAPS

StepNames == {"asked", "checking", "new", "resolved", "evicting", "waiting", "done"}
               \cup CreatingSteps \cup HoldingSteps
CallerType == [step : StepNames, v : 0..MaxUpdates, side : Sidecar]
EntryType == [side : Sidecar, refCount : Int, version : 0..MaxUpdates]
SharedTypes ==
    /\ version \in 0..MaxUpdates /\ entry \in EntryType
    /\ inFlight \in Sidecar /\ timer \in Sidecar /\ pairs \subseteq Agents
    /\ up \subseteq Callers /\ doomed \subseteq Callers
    /\ cleanup \in [step : {"done", "listing", "removing"}, todo : SUBSET Callers]
HistoryTypes ==
    /\ updated \in BOOLEAN /\ leaky \in BOOLEAN
    /\ mishaps \in 0..MaxMishaps /\ restarts \in 0..MaxRestarts
CallerTypes == caller \in [Callers -> CallerType]

\* The types of the shared state, of the histories and of the callers make up TypeOK.
LEMMA Parts == TypeOK <=> SharedTypes /\ HistoryTypes /\ CallerTypes
  BY DEF TypeOK, SharedTypes, HistoryTypes, CallerTypes, CallerType, EntryType, StepNames

LEMMA PartsNext == ASSUME SharedTypes', HistoryTypes', CallerTypes' PROVE TypeOK'
  BY DEF TypeOK, SharedTypes, HistoryTypes, CallerTypes, CallerType, EntryType, StepNames

\* A caller that is moved is where it is put, and no other one has moved.
Becomes(c, s, v, side) ==
    /\ caller' \in [Callers -> CallerType]
    /\ caller'[c].step = s /\ caller'[c].v = v /\ caller'[c].side = side
    /\ \A d \in Callers \ {c} : caller'[d] = caller[d]

\* A caller that moves leaves the others alone.
LEMMA Moved ==
    ASSUME CallerTypes, NEW c \in Callers,
           NEW s \in StepNames, NEW v \in 0..MaxUpdates, NEW side \in Sidecar
    PROVE  /\ caller' = [caller EXCEPT ![c] = [step |-> s, v |-> v, side |-> side]]
                => Becomes(c, s, v, side)
           /\ Goes(c, s) => Becomes(c, s, caller[c].v, caller[c].side)
           /\ Done(c) => Becomes(c, "done", 0, NoCaller)
           /\ caller' = [caller EXCEPT ![c] = NoCall(s)] => Becomes(c, s, 0, NoCaller)
           /\ caller' = [caller EXCEPT ![c].step = s, ![c].v = v] => Becomes(c, s, v, caller[c].side)
           /\ caller' = [caller EXCEPT ![c].step = s, ![c].side = side]
                => Becomes(c, s, caller[c].v, side)
<1>1. ASSUME NEW on \in CallerType, caller' = [caller EXCEPT ![c] = on]
      PROVE  Becomes(c, on.step, on.v, on.side)
  BY <1>1 DEF CallerTypes, Becomes
<1>2. caller[c] \in CallerType /\ "done" \in StepNames /\ 0 \in 0..MaxUpdates /\ NoCaller \in Sidecar
  BY BoundsAssumption DEF CallerTypes, StepNames, Sidecar
<1>3. ASSUME NEW a \in StepNames, NEW b \in 0..MaxUpdates, NEW k \in Sidecar,
             caller' = [caller EXCEPT ![c] = [step |-> a, v |-> b, side |-> k]]
      PROVE  Becomes(c, a, b, k)
  <2> DEFINE on == [step |-> a, v |-> b, side |-> k]
  <2>1. on \in CallerType /\ on.step = a /\ on.v = b /\ on.side = k
    BY DEF CallerType
  <2> HIDE DEF on
  <2>2. Becomes(c, on.step, on.v, on.side)
    BY <1>1, <1>3, <2>1 DEF on
  <2>3. QED
    BY <2>1, <2>2
<1>4. ASSUME Goes(c, s) PROVE Becomes(c, s, caller[c].v, caller[c].side)
  <2> DEFINE on == [caller[c] EXCEPT !.step = s]
  <2>1. on \in CallerType /\ on.step = s /\ on.v = caller[c].v /\ on.side = caller[c].side
    BY <1>2 DEF CallerType
  <2>2. caller' = [caller EXCEPT ![c] = on]
    BY <1>4 DEF Goes, CallerTypes
  <2> HIDE DEF on
  <2>3. Becomes(c, on.step, on.v, on.side)
    BY <1>1, <2>1, <2>2
  <2>4. QED
    BY <2>1, <2>3
<1>5. ASSUME caller' = [caller EXCEPT ![c].step = s, ![c].v = v] PROVE Becomes(c, s, v, caller[c].side)
  <2> DEFINE on == [caller[c] EXCEPT !.step = s, !.v = v]
  <2>1. on \in CallerType /\ on.step = s /\ on.v = v /\ on.side = caller[c].side
    BY <1>2 DEF CallerType
  <2>2. caller' = [caller EXCEPT ![c] = on]
    BY <1>5 DEF CallerTypes
  <2> HIDE DEF on
  <2>3. Becomes(c, on.step, on.v, on.side)
    BY <1>1, <2>1, <2>2
  <2>4. QED
    BY <2>1, <2>3
<1>6. ASSUME caller' = [caller EXCEPT ![c].step = s, ![c].side = side]
      PROVE  Becomes(c, s, caller[c].v, side)
  <2> DEFINE on == [caller[c] EXCEPT !.step = s, !.side = side]
  <2>1. on \in CallerType /\ on.step = s /\ on.v = caller[c].v /\ on.side = side
    BY <1>2 DEF CallerType
  <2>2. caller' = [caller EXCEPT ![c] = on]
    BY <1>6 DEF CallerTypes
  <2> HIDE DEF on
  <2>3. Becomes(c, on.step, on.v, on.side)
    BY <1>1, <2>1, <2>2
  <2>4. QED
    BY <2>1, <2>3
<1>7. Done(c) => Becomes(c, "done", 0, NoCaller)
  BY <1>2, <1>3 DEF Done, NoCall
<1>8. caller' = [caller EXCEPT ![c] = NoCall(s)] => Becomes(c, s, 0, NoCaller)
  BY <1>2, <1>3 DEF NoCall
<1>9. caller' = [caller EXCEPT ![c] = [step |-> s, v |-> v, side |-> side]] => Becomes(c, s, v, side)
  BY <1>3
<1>10. QED
  BY <1>4, <1>5, <1>6, <1>7, <1>8, <1>9

\* The forms in which the actions move callers.
LEMMA Forms ==
    ASSUME TypeOK, NEW c \in Callers
    PROVE  /\ WarmupResolves(c) => Becomes(c, "checking", version, caller[c].side)
           /\ WarmupChecks(c) => Becomes(c, "done", 0, NoCaller) \/ Becomes(c, "new", 0, NoCaller)
           /\ Resolves(c) => Becomes(c, "resolved", version, caller[c].side)
           /\ Reuses(c) => Becomes(c, "ensured", 0, entry.side)
           /\ WaitsOrCreates(c) =>
                \/ inFlight # NoCaller /\ inFlight' = inFlight /\ Becomes(c, "waiting", 0, NoCaller)
                \/ inFlight = NoCaller /\ inFlight' = c /\ Becomes(c, "creating", caller[c].v, NoCaller)
           /\ EvictsIdle(c) => Becomes(c, "evicting", caller[c].v, entry.side)
           /\ Creates(c) => Becomes(c, "starting", caller[c].v, c)
           /\ Registers(c) => Becomes(c, "registered", caller[c].v, caller[c].side)
           /\ AgentCreated(c) => Becomes(c, "attached", caller[c].v, caller[c].side)
           /\ AgentFails(c) => Becomes(c, "leaked", caller[c].v, caller[c].side)
           /\ AgentVanishes(c) => Becomes(c, "stray", caller[c].v, caller[c].side)
           /\ Leaves(c) => IF c \in pairs THEN Becomes(c, "leaving", caller[c].v, caller[c].side)
                                          ELSE Becomes(c, "done", 0, NoCaller)
           /\ Discounts(c) => Becomes(c, "done", 0, NoCaller)
           /\ Releases(c) => Becomes(c, "done", 0, NoCaller)
<1>1. /\ CallerTypes /\ version \in 0..MaxUpdates /\ entry.side \in Sidecar /\ inFlight \in Sidecar
      /\ caller[c].v \in 0..MaxUpdates /\ caller[c].side \in Sidecar
  BY Parts DEF SharedTypes, EntryType, CallerTypes, CallerType
<1>2. /\ {"checking", "done", "new", "resolved", "ensured", "waiting", "creating", "evicting"} \subseteq StepNames
      /\ {"starting", "registered", "attached", "leaked", "stray", "leaving"} \subseteq StepNames
      /\ 0 \in 0..MaxUpdates /\ NoCaller \in Sidecar /\ c \in Sidecar
  BY BoundsAssumption DEF StepNames, CreatingSteps, HoldingSteps, Sidecar
<1>3. WarmupResolves(c) => Becomes(c, "checking", version, caller[c].side)
  BY <1>1, <1>2, Moved DEF WarmupResolves
<1>4. WarmupChecks(c) => Becomes(c, "done", 0, NoCaller) \/ Becomes(c, "new", 0, NoCaller)
  BY <1>1, <1>2, Moved DEF WarmupChecks
<1>5. Resolves(c) => Becomes(c, "resolved", version, caller[c].side)
  BY <1>1, <1>2, Moved DEF Resolves
<1>6. Reuses(c) => Becomes(c, "ensured", 0, entry.side)
  BY <1>1, <1>2, Moved DEF Reuses, Answer
<1>7. WaitsOrCreates(c) =>
        \/ inFlight # NoCaller /\ inFlight' = inFlight /\ Becomes(c, "waiting", 0, NoCaller)
        \/ inFlight = NoCaller /\ inFlight' = c /\ Becomes(c, "creating", caller[c].v, NoCaller)
  BY <1>1, <1>2, Moved DEF WaitsOrCreates
<1>8. EvictsIdle(c) => Becomes(c, "evicting", caller[c].v, entry.side)
  BY <1>1, <1>2, Moved DEF EvictsIdle
<1>9. Creates(c) => Becomes(c, "starting", caller[c].v, c)
  BY <1>1, <1>2, Moved DEF Creates
<1>10. /\ Registers(c) => Becomes(c, "registered", caller[c].v, caller[c].side)
       /\ AgentCreated(c) => Becomes(c, "attached", caller[c].v, caller[c].side)
  BY <1>1, <1>2, Moved DEF Registers, AgentCreated
<1>11. /\ AgentFails(c) => Becomes(c, "leaked", caller[c].v, caller[c].side)
       /\ AgentVanishes(c) => Becomes(c, "stray", caller[c].v, caller[c].side)
  BY <1>1, <1>2, Moved DEF AgentFails, AgentVanishes
<1>12. Leaves(c) => IF c \in pairs THEN Becomes(c, "leaving", caller[c].v, caller[c].side)
                                   ELSE Becomes(c, "done", 0, NoCaller)
  BY <1>1, <1>2, Moved DEF Leaves
<1>13. /\ Discounts(c) => Becomes(c, "done", 0, NoCaller)
       /\ Releases(c) => Becomes(c, "done", 0, NoCaller)
  BY <1>1, <1>2, Moved DEF Discounts, Releases
<1>14. QED
  BY <1>3, <1>4, <1>5, <1>6, <1>7, <1>8, <1>9, <1>10, <1>11, <1>12, <1>13

\* The creation's callers have their answer, the others have not moved.
AllAnswered(c, side) ==
    /\ caller' \in [Callers -> CallerType]
    /\ \A d \in Waiting \cup {c} :
         caller'[d].step = "ensured" /\ caller'[d].v = 0 /\ caller'[d].side = side
    /\ \A d \in Callers \ (Waiting \cup {c}) : caller'[d] = caller[d]

\* The answer to a creation reaches everyone who waited for it.
LEMMA Answers ==
    ASSUME TypeOK, NEW c \in Callers, NEW side \in Sidecar, Settled(c, side)
    PROVE  AllAnswered(c, side)
<1> DEFINE on == Answer(side)
<1>1. on \in CallerType /\ on.step = "ensured" /\ on.v = 0 /\ on.side = side
  BY BoundsAssumption DEF Answer, CallerType, StepNames, HoldingSteps
<1>2. caller' = [d \in Callers |-> IF d \in Waiting \cup {c} THEN on ELSE caller[d]]
  BY DEF Settled
<1> HIDE DEF on
<1>3. QED
  BY <1>1, <1>2, Parts DEF AllAnswered, CallerTypes, Waiting

\* Who survives a restart: calls yet to come, and containers.
AllRestarted ==
    /\ caller' \in [Callers -> CallerType]
    /\ \A c \in Callers :
         \/ ~Called(c) /\ caller'[c] = caller[c]
         \/ /\ caller[c].step \in {"attached", "leaving"} /\ caller'[c].step = "attached"
            /\ caller'[c].v = caller[c].v /\ caller'[c].side = caller[c].side
         \/ caller'[c].step = "done" /\ caller'[c].v = 0 /\ caller'[c].side = NoCaller

\* After a restart agents keep running or are lost, and no one is in between.
LEMMA Survivors == ASSUME TypeOK, Restarts PROVE AllRestarted
<1> DEFINE on(c) == [caller[c] EXCEPT !.step = "attached"]
           off == NoCall("done")
<1>1. \A c \in Callers : caller[c] \in CallerType
  BY Parts DEF CallerTypes
<1>2. ASSUME NEW c \in Callers
      PROVE  on(c) \in CallerType /\ on(c).step = "attached" /\ on(c).v = caller[c].v
             /\ on(c).side = caller[c].side
  BY <1>1 DEF CallerType, StepNames, HoldingSteps
<1>3. off \in CallerType /\ off.step = "done" /\ off.v = 0 /\ off.side = NoCaller
  BY BoundsAssumption DEF NoCall, CallerType, StepNames, Sidecar
<1>4. caller' = [c \in Callers |->
         CASE ~Called(c) -> caller[c]
           [] caller[c].step \in {"attached", "leaving"} -> on(c)
           [] OTHER -> off]
  BY DEF Restarts
<1> HIDE DEF on, off
<1>5. ASSUME NEW c \in Callers
      PROVE  \/ ~Called(c) /\ caller'[c] = caller[c]
             \/ caller[c].step \in {"attached", "leaving"} /\ caller'[c] = on(c)
             \/ caller'[c] = off
  BY <1>4
<1>6. caller' \in [Callers -> CallerType]
  BY <1>1, <1>2, <1>3, <1>4, <1>5
<1>7. QED
  BY <1>2, <1>3, <1>5, <1>6 DEF AllRestarted

\* Each step keeps the types.
LEMMA TypesKept == ASSUME TypeOK, [Next]_vars PROVE TypeOK'
<1> USE DEF mapVars, dockerVars, historyVars
<1>1. SharedTypes /\ HistoryTypes /\ CallerTypes
  BY Parts
<1>2. ASSUME Mishap PROVE HistoryTypes'
  BY <1>1, <1>2, BoundsAssumption DEF Mishap, HistoryTypes
<1>3. ASSUME UNCHANGED historyVars PROVE HistoryTypes'
  BY <1>1, <1>3 DEF HistoryTypes
<1>4. \A c \in Callers : \A s, v, side : Becomes(c, s, v, side) => CallerTypes'
  BY DEF Becomes, CallerTypes
<1>5. Uncount => entry' \in EntryType /\ timer' \in Sidecar
  BY <1>1 DEF Uncount, SharedTypes, EntryType
<1>6. NoEntry \in EntryType
  BY BoundsAssumption DEF NoEntry, EntryType, Sidecar
<1>7. ASSUME NEW c \in Callers, Proceeds(c) PROVE TypeOK'
  <2>1. HistoryTypes'
    BY <1>3, <1>7 DEF Proceeds, WarmupResolves, WarmupChecks, Resolves, Reuses, Misses, EvictsHeld,
         EvictsIdle, Evicted, Creates, Registers, CreationSettles, AgentCreated, Discounts, Releases
  <2>2. CASE WarmupResolves(c) \/ WarmupChecks(c) \/ Resolves(c)
    <3>1. SharedTypes'
      BY <1>1, <2>2 DEF WarmupResolves, WarmupChecks, Resolves, SharedTypes
    <3>2. QED
      BY <1>4, <2>1, <2>2, <3>1, Forms, PartsNext
  <2>3. CASE Reuses(c)
    <3>1. SharedTypes'
      BY <1>1, <2>3 DEF Reuses, SharedTypes, EntryType, Sidecar
    <3>2. QED
      BY <1>4, <2>1, <2>3, <3>1, Forms, PartsNext
  <2>4. CASE Misses(c) \/ EvictsHeld(c) \/ Evicted(c)
    <3>1. WaitsOrCreates(c)
      BY <2>4 DEF Misses, EvictsHeld, Evicted
    <3>2. inFlight' \in Sidecar
      BY <1>1, <3>1, Forms DEF SharedTypes, Sidecar
    <3>3. SharedTypes'
      BY <1>1, <1>6, <2>4, <3>2 DEF Misses, EvictsHeld, Evicted, SharedTypes, Sidecar
    <3>4. QED
      BY <1>4, <2>1, <3>1, <3>3, Forms, PartsNext
  <2>5. CASE EvictsIdle(c)
    <3>1. SharedTypes'
      BY <1>1, <1>6, <2>5 DEF EvictsIdle, SharedTypes, Sidecar
    <3>2. QED
      BY <1>4, <2>1, <2>5, <3>1, Forms, PartsNext
  <2>6. CASE Creates(c) \/ AgentCreated(c)
    <3>1. SharedTypes'
      BY <1>1, <2>6 DEF Creates, AgentCreated, SharedTypes
    <3>2. QED
      BY <1>4, <2>1, <2>6, <3>1, Forms, PartsNext
  <2>7. CASE Registers(c)
    <3>1. entry' \in EntryType
      BY <1>1, <2>7 DEF Registers, EntryType, CallerTypes, CallerType, Sidecar
    <3>2. SharedTypes'
      BY <1>1, <2>7, <3>1 DEF Registers, SharedTypes
    <3>3. QED
      BY <1>4, <2>1, <2>7, <3>2, Forms, PartsNext
  <2>8. CASE CreationSettles(c)
    <3>1. Cardinality(Waiting) \in Nat
      BY CallersAssumption, FS_Subset, FS_CardinalityType DEF Waiting
    <3>2. SharedTypes'
      BY <1>1, <2>8, <3>1 DEF CreationSettles, Settled, SharedTypes, EntryType, Sidecar
    <3>3. AllAnswered(c, c)
      BY <2>8, Answers DEF CreationSettles, Sidecar
    <3>4. QED
      BY <2>1, <3>2, <3>3, PartsNext DEF AllAnswered, CallerTypes
  <2>9. CASE Discounts(c) \/ Releases(c)
    <3>1. SharedTypes'
      BY <1>1, <1>5, <2>9 DEF Discounts, Releases, SharedTypes
    <3>2. QED
      BY <1>4, <2>1, <2>9, <3>1, Forms, PartsNext
  <2>10. QED
    BY <1>7, <2>2, <2>3, <2>4, <2>5, <2>6, <2>7, <2>8, <2>9 DEF Proceeds
<1>8. ASSUME NEW c \in Callers, CreationFails(c) PROVE TypeOK'
  <2>1. AllAnswered(c, NoCaller)
    BY <1>8, Answers DEF CreationFails, Sidecar
  <2>2. SharedTypes'
    BY <1>1, <1>8 DEF CreationFails, Settled, SharedTypes, Sidecar
  <2>3. QED
    BY <1>2, <1>8, <2>1, <2>2, PartsNext DEF CreationFails, AllAnswered, CallerTypes
<1>9. ASSUME NEW a \in Agents, AgentFails(a) \/ AgentVanishes(a) \/ Leaves(a) PROVE TypeOK'
  <2>1. a \in Callers /\ SharedTypes'
    BY <1>1, <1>9 DEF AgentFails, AgentVanishes, Leaves, SharedTypes, Callers
  <2>2. HistoryTypes'
    BY <1>2, <1>3, <1>9 DEF AgentFails, AgentVanishes, Leaves
  <2>3. QED
    BY <1>4, <1>9, <2>1, <2>2, Forms, PartsNext
<1>10. ASSUME TimerFires \/ (\E s \in Callers : TornDown(s) \/ TeardownFails(s)) PROVE TypeOK'
  <2>1. HistoryTypes'
    BY <1>2, <1>3, <1>10 DEF TimerFires, TornDown, TeardownFails
  <2>2. CallerTypes'
    BY <1>1, <1>10 DEF TimerFires, TornDown, TeardownFails, CallerTypes
  <2>3. SharedTypes'
    BY <1>1, <1>6, <1>10 DEF TimerFires, TornDown, TeardownFails, SharedTypes, Sidecar
  <2>4. QED
    BY <2>1, <2>2, <2>3, PartsNext
<1>11. CASE Updates
  <2>1. SharedTypes' /\ HistoryTypes' /\ CallerTypes'
    BY <1>1, <1>11, BoundsAssumption DEF Updates, SharedTypes, HistoryTypes, CallerTypes
  <2>2. QED
    BY <2>1, PartsNext
<1>12. CASE Restarts
  <2>1. CallerTypes'
    BY <1>12, Survivors DEF AllRestarted, CallerTypes
  <2>2. HistoryTypes'
    <3>1. restarts < MaxRestarts /\ restarts' = restarts + 1 /\ mishaps' = mishaps
      BY <1>12 DEF Restarts
    <3>2. updated' \in BOOLEAN /\ leaky' \in BOOLEAN
      BY <1>12, Zenon DEF Restarts
    <3>3. restarts' \in 0..MaxRestarts /\ mishaps' \in 0..MaxMishaps
      BY <1>1, <3>1, BoundsAssumption DEF HistoryTypes
    <3>4. QED
      BY <3>2, <3>3 DEF HistoryTypes
  <2>3. SharedTypes'
    BY <1>1, <1>6, <1>12 DEF Restarts, SharedTypes, Sidecar
  <2>4. QED
    BY <2>1, <2>2, <2>3, PartsNext
<1>13. CASE Cleanup \/ CleanupFails
  <2>1. HistoryTypes' /\ CallerTypes'
    BY <1>1, <1>2, <1>3, <1>13 DEF Cleanup, CleanupLists, CleanupRemoves, CleanupFails, CallerTypes
  <2>2. cleanup' \in [step : {"done", "listing", "removing"}, todo : SUBSET Callers]
    BY <1>1, <1>13 DEF Cleanup, CleanupLists, CleanupRemoves, CleanupFails, SharedTypes
  <2>3. SharedTypes'
    BY <1>1, <1>13, <2>2 DEF Cleanup, CleanupLists, CleanupRemoves, CleanupFails, SharedTypes
  <2>4. QED
    BY <2>1, <2>3, PartsNext
<1>14. CASE UNCHANGED vars
  BY <1>14 DEF TypeOK, vars
<1>15. QED
  BY <1>7, <1>8, <1>9, <1>10, <1>11, <1>12, <1>13, <1>14 DEF Next

\* Types and births hold at the start and after every step.
LEMMA TypesFirst == Init => TypeOK
<1>1. 0 \in 0..MaxUpdates /\ 0 \in 0..MaxMishaps /\ 0 \in 0..MaxRestarts
  BY BoundsAssumption
<1>2. /\ NoCall("asked") \in CallerType /\ NoCall("new") \in CallerType /\ NoEntry \in EntryType
  BY <1>1 DEF NoCall, CallerType, StepNames, NoEntry, EntryType, Sidecar
<1>3. ASSUME Init PROVE CallerTypes
  BY <1>2, <1>3 DEF Init, CallerTypes
<1>4. ASSUME Init PROVE SharedTypes
  BY <1>1, <1>2, <1>4 DEF Init, SharedTypes, Sidecar
<1>5. ASSUME Init PROVE HistoryTypes
  <2>1. updated \in BOOLEAN /\ leaky \in BOOLEAN
    BY <1>5, Zenon DEF Init
  <2>2. QED
    BY <1>1, <1>5, <2>1 DEF Init, HistoryTypes
<1>6. QED
  BY <1>3, <1>4, <1>5, Parts

\* VpnSidecars: types are kept.
THEOREM TypeCorrect == Spec => []TypeOK
  BY TypesFirst, TypesKept, PTL DEF Spec

-----------------------------------------------------------------------------
(* A sidecar's name is used once.                                            *)

UnbornSteps == {"asked", "checking", "new", "resolved", "evicting", "waiting", "creating", "starting"}
\* What has no sidecar yet, or one that is not registered, is known to nobody else.
Unborn(c) ==
    /\ entry.side # c /\ timer # c /\ c \notin doomed
    /\ \A d \in Callers \ {c} : caller[d].side # c
BornOnce(c) ==
    /\ inFlight = c <=> caller[c].step \in CreatingSteps
    /\ caller[c].step \in {"starting", "registered"} => caller[c].side = c
    /\ caller[c].step = "registered" => entry.side \in {NoCaller, c}
    /\ caller[c].step \in UnbornSteps => Unborn(c)
Births == TypeOK /\ \A c \in Callers : BornOnce(c)

\* The steps of a caller that create and register no sidecar.
LEMMA BirthsApart ==
    ASSUME Births, NEW c \in Callers,
           \A d \in Callers \ {c} : caller'[d] = caller[d],
           caller'[c].side \in {NoCaller, caller[c].side, entry.side},
           caller[c].step \notin CreatingSteps, caller'[c].step \notin {"starting", "registered"},
           caller'[c].step \in UnbornSteps => caller[c].step \in UnbornSteps,
           IF caller'[c].step = "creating" THEN inFlight = NoCaller /\ inFlight' = c ELSE inFlight' = inFlight,
           entry'.side \in {entry.side, NoCaller}, timer' \in {timer, entry.side, NoCaller}, doomed' = doomed
    PROVE  \A d \in Callers : BornOnce(d)'
<1>1. NoCaller \notin Callers /\ \A d \in Callers : BornOnce(d)
  BY CallersAssumption DEF Births
<1> SUFFICES ASSUME NEW d \in Callers PROVE BornOnce(d)'
  OBVIOUS
<1>2. BornOnce(c) /\ BornOnce(d)
  BY <1>1
<1>3. caller'[d].step \in UnbornSteps => caller[d].step \in UnbornSteps
  OBVIOUS
<1>4. caller'[d].step \in UnbornSteps => Unborn(d)'
  BY <1>1, <1>2, <1>3 DEF BornOnce, Unborn
<1>5. inFlight' = d <=> caller'[d].step \in CreatingSteps
  BY <1>1, <1>2 DEF BornOnce, CreatingSteps
<1>6. /\ caller'[d].step \in {"starting", "registered"} => caller'[d].side = d
      /\ caller'[d].step = "registered" => entry'.side \in {NoCaller, d}
  BY <1>2 DEF BornOnce
<1>7. QED
  BY <1>4, <1>5, <1>6 DEF BornOnce

LEMMA BirthsKept == ASSUME Births, [Next]_vars PROVE Births'
<1> USE DEF mapVars, dockerVars
<1>1. /\ TypeOK /\ TypeOK' /\ \A c \in Callers : BornOnce(c)
      /\ NoCaller \notin Callers /\ entry.side \in Sidecar /\ timer \in Sidecar /\ NoEntry.side = NoCaller
      /\ \A c \in Callers : caller[c].step \in StepNames
  BY TypesKept, CallersAssumption, Parts
  DEF Births, SharedTypes, EntryType, NoEntry, CallerTypes, CallerType
<1>2. SUFFICES \A c \in Callers : BornOnce(c)'
  BY <1>1 DEF Births
<1>3. ASSUME NEW c \in Callers, Proceeds(c) PROVE \A d \in Callers : BornOnce(d)'
  <2>1. CASE WarmupResolves(c) \/ WarmupChecks(c) \/ Resolves(c)
    <3>1. /\ UNCHANGED <<entry, inFlight, timer, doomed>>
          /\ caller[c].step \in {"asked", "checking", "new"}
          /\ \A d \in Callers \ {c} : caller'[d] = caller[d]
          /\ caller'[c].step \in {"checking", "done", "new", "resolved"}
          /\ caller'[c].side \in {NoCaller, caller[c].side}
      BY <1>1, <2>1, Forms DEF WarmupResolves, WarmupChecks, Resolves, At, Becomes
    <3>2. QED
      BY <3>1, BirthsApart DEF CreatingSteps, UnbornSteps
  <2>2. CASE Reuses(c)
    <3>1. /\ entry'.side = entry.side /\ timer' = NoCaller /\ UNCHANGED <<inFlight, doomed>>
          /\ caller[c].step = "resolved" /\ caller'[c].step = "ensured"
          /\ \A d \in Callers \ {c} : caller'[d] = caller[d]
          /\ caller'[c].side = entry.side
      BY <1>1, <2>2, Forms, Parts DEF Reuses, At, Becomes, SharedTypes, EntryType
    <3>2. QED
      BY <3>1, BirthsApart DEF CreatingSteps, UnbornSteps
  <2>3. CASE Misses(c) \/ EvictsHeld(c) \/ Evicted(c)
    <3>1. /\ entry'.side \in {entry.side, NoCaller} /\ timer' \in {timer, NoCaller} /\ doomed' = doomed
          /\ caller[c].step \in {"resolved", "evicting"} /\ WaitsOrCreates(c)
      BY <1>1, <2>3 DEF Misses, EvictsHeld, Evicted, At
    <3>2. /\ IF caller'[c].step = "creating" THEN inFlight = NoCaller /\ inFlight' = c ELSE inFlight' = inFlight
          /\ caller'[c].step \in {"waiting", "creating"} /\ caller'[c].side = NoCaller
          /\ \A d \in Callers \ {c} : caller'[d] = caller[d]
      BY <1>1, <3>1, Forms DEF Becomes
    <3>3. QED
      BY <3>1, <3>2, BirthsApart DEF CreatingSteps, UnbornSteps
  <2>4. CASE EvictsIdle(c)
    <3>1. /\ entry'.side = NoCaller /\ timer' = NoCaller /\ UNCHANGED <<inFlight, doomed>>
          /\ caller[c].step = "resolved" /\ caller'[c].step = "evicting"
          /\ \A d \in Callers \ {c} : caller'[d] = caller[d]
          /\ caller'[c].side = entry.side
      BY <1>1, <2>4, Forms DEF EvictsIdle, At, Becomes
    <3>2. QED
      BY <3>1, BirthsApart DEF CreatingSteps, UnbornSteps
  <2>5. CASE Creates(c)
    <3>1. /\ UNCHANGED <<entry, inFlight, timer, doomed>>
          /\ caller[c].step = "creating" /\ caller'[c].step = "starting" /\ caller'[c].side = c
          /\ \A d \in Callers \ {c} : caller'[d] = caller[d]
      BY <1>1, <2>5, Forms DEF Creates, At, Becomes
    <3>2. QED
      BY <1>1, <3>1 DEF BornOnce, Unborn, CreatingSteps, UnbornSteps
  <2>6. CASE Registers(c)
    <3>1. /\ UNCHANGED <<inFlight, timer, doomed>> /\ entry'.side = c
          /\ caller[c].step = "starting" /\ caller'[c].step = "registered" /\ caller'[c].side = caller[c].side
          /\ \A d \in Callers \ {c} : caller'[d] = caller[d]
      BY <1>1, <2>6, Forms DEF Registers, At, Becomes
    <3>2. \A d \in Callers : inFlight = d => d = c
      BY <1>1, <3>1 DEF BornOnce, CreatingSteps
    <3>3. QED
      BY <1>1, <3>1, <3>2 DEF BornOnce, Unborn, CreatingSteps, UnbornSteps
  <2>7. CASE CreationSettles(c)
    <3>1. AllAnswered(c, c)
      BY <1>1, <2>7, Answers DEF CreationSettles, Sidecar
    <3>2. /\ inFlight' = NoCaller /\ timer' = timer /\ doomed' = doomed /\ entry'.side = entry.side
          /\ caller[c].step = "registered"
      BY <1>1, <2>7, Parts DEF CreationSettles, Settled, SharedTypes, EntryType, At
    <3>3. \A d \in Callers : caller[d].step \in CreatingSteps => d = c
      BY <1>1, <3>2 DEF BornOnce, CreatingSteps
    <3>4. \A d \in Callers : caller'[d] = caller[d] \/ (caller'[d].step = "ensured" /\ caller'[d].side = c)
      BY <3>1 DEF AllAnswered
    <3>5. caller'[c].step = "ensured"
      BY <3>1 DEF AllAnswered
    <3>6. QED
      BY <1>1, <3>2, <3>3, <3>4, <3>5 DEF BornOnce, Unborn, CreatingSteps, UnbornSteps
  <2>8. CASE AgentCreated(c)
    <3>1. /\ UNCHANGED <<entry, inFlight, timer, doomed>>
          /\ caller[c].step = "ensured" /\ caller'[c].step = "attached" /\ caller'[c].side = caller[c].side
          /\ \A d \in Callers \ {c} : caller'[d] = caller[d]
      BY <1>1, <2>8, Forms DEF AgentCreated, At, Becomes
    <3>2. QED
      BY <3>1, BirthsApart DEF CreatingSteps, UnbornSteps
  <2>9. CASE Discounts(c) \/ Releases(c)
    <3>1. /\ entry'.side = entry.side /\ timer' \in {timer, entry.side} /\ UNCHANGED <<inFlight, doomed>>
          /\ caller[c].step \in {"leaving", "ensured"}
      BY <1>1, <2>9, Parts DEF Discounts, Releases, Uncount, At, SharedTypes, EntryType
    <3>2. /\ caller'[c].step = "done" /\ caller'[c].side = NoCaller
          /\ \A d \in Callers \ {c} : caller'[d] = caller[d]
      BY <1>1, <2>9, Forms DEF Becomes
    <3>3. QED
      BY <3>1, <3>2, BirthsApart DEF CreatingSteps, UnbornSteps
  <2>10. QED
    BY <1>3, <2>1, <2>2, <2>3, <2>4, <2>5, <2>6, <2>7, <2>8, <2>9 DEF Proceeds
<1>4. ASSUME NEW c \in Callers, CreationFails(c) PROVE \A d \in Callers : BornOnce(d)'
  <2>1. AllAnswered(c, NoCaller)
    BY <1>4, Answers DEF Births, CreationFails, Sidecar
  <2>2. /\ inFlight' = NoCaller /\ UNCHANGED <<entry, timer, doomed>> /\ caller[c].step \in CreatingSteps
    BY <1>4 DEF CreationFails, Settled, At, CreatingSteps
  <2>3. \A d \in Callers : caller[d].step \in CreatingSteps => d = c
    BY <1>1, <2>2 DEF BornOnce
  <2>4. /\ caller'[c].step = "ensured"
        /\ \A d \in Callers : caller'[d] = caller[d] \/ (caller'[d].step = "ensured" /\ caller'[d].side = NoCaller)
    BY <2>1 DEF AllAnswered
  <2>5. QED
    BY <1>1, <2>2, <2>3, <2>4 DEF BornOnce, Unborn, UnbornSteps, CreatingSteps
<1>5. ASSUME NEW a \in Agents, AgentFails(a) \/ AgentVanishes(a) \/ Leaves(a)
      PROVE  \A d \in Callers : BornOnce(d)'
  <2>1. a \in Callers /\ UNCHANGED <<entry, inFlight, timer, doomed>>
    BY <1>5 DEF AgentFails, AgentVanishes, Leaves, Callers
  <2>2. /\ caller[a].step \in {"ensured", "attached", "stray"}
        /\ caller'[a].step \in {"leaked", "stray", "leaving", "done"}
        /\ caller'[a].side \in {caller[a].side, NoCaller}
        /\ \A d \in Callers \ {a} : caller'[d] = caller[d]
    BY <1>5, <2>1, Forms DEF Births, Becomes, AgentFails, AgentVanishes, Leaves, At
  <2>3. QED
    BY <2>1, <2>2, BirthsApart DEF UnbornSteps, CreatingSteps
<1>6. ASSUME TimerFires PROVE \A d \in Callers : BornOnce(d)'
  BY <1>1, <1>6 DEF TimerFires, BornOnce, Unborn
<1>7. ASSUME NEW s \in Callers, TornDown(s) \/ TeardownFails(s) PROVE \A d \in Callers : BornOnce(d)'
  BY <1>1, <1>7 DEF TornDown, TeardownFails, BornOnce, Unborn
<1>8. ASSUME Restarts PROVE \A d \in Callers : BornOnce(d)'
  <2>1. AllRestarted /\ entry' = NoEntry /\ inFlight' = NoCaller /\ timer' = NoCaller /\ doomed' = {}
    BY <1>8, Survivors DEF Births, Restarts
  <2>2. QED
    BY <1>1, <2>1 DEF AllRestarted, Called, At, BornOnce, Unborn, UnbornSteps, CreatingSteps
<1>9. ASSUME Updates \/ Cleanup \/ CleanupFails \/ UNCHANGED vars PROVE \A d \in Callers : BornOnce(d)'
  BY <1>1, <1>9 DEF Updates, Cleanup, CleanupLists, CleanupRemoves, CleanupFails, vars, BornOnce, Unborn
<1>10. QED
  BY <1>3, <1>4, <1>5, <1>6, <1>7, <1>8, <1>9 DEF Next

-----------------------------------------------------------------------------
(* The count and its holders.                                                *)

Holds(d, s) == caller[d].side = s /\ caller[d].step \in HoldingSteps \cup {"registered"}
\* Whose hold safeRemoveContainer, a release or nothing will give back: all but the
\* agents that survived a restart.
Counted(d) ==
    \/ caller[d].step \in {"ensured", "leaked", "leaving", "registered"}
    \/ caller[d].step \in {"attached", "stray"} /\ d \in pairs
Known(c) ==
    /\ c \in pairs \/ caller[c].step = "leaving" => caller[c].side # NoCaller
    /\ c \in pairs => caller[c].step \in {"attached", "stray"}
    /\ caller[c].step \in {"attached", "stray"} /\ caller[c].side # NoCaller
       /\ caller[c].side = entry.side => c \in pairs
\* While the tunnel is as it was: nobody has read another version, what is counted holds
\* the entry's sidecar, and what is being removed is neither in use nor offered.
FreshCaller(c) ==
    /\ caller[c].step \in {"checking", "resolved", "creating", "starting"} => caller[c].v = version
    /\ caller[c].step # "evicting"
    /\ caller[c].step \in {"creating", "starting"} => entry.side = NoCaller
    /\ Counted(c) /\ caller[c].side # NoCaller => caller[c].side = entry.side
FreshShared ==
    /\ entry.side # NoCaller => entry.version = version
    /\ timer \in {NoCaller, entry.side}
    /\ \A s \in doomed : s # entry.side /\ ~InUse(s)
Fresh == ~updated => FreshShared /\ \A c \in Callers : FreshCaller(c)
\* What is up and stays is offered, being created, or left to the cleanup.
OneUp == ~updated /\ ~leaky =>
    \A s \in up \ doomed :
       s \in {entry.side, inFlight} \/ cleanup.step = "listing" \/ s \in cleanup.todo
CleanupOver == cleanup.step # "removing" => cleanup.todo = {}

SharingInv ==
    /\ Births /\ (\A c \in Callers : Known(c)) /\ Fresh /\ HoldersCounted
    /\ OneUp /\ CleanupOver

\* Holders can be counted.
LEMMA HoldersFinite ==
    ASSUME NEW s
    PROVE  /\ Holders(s) = {d \in Callers : Holds(d, s)}
           /\ IsFiniteSet(Holders(s)) /\ Cardinality(Holders(s)) \in Nat
<1>1. Holders(s) = {d \in Callers : Holds(d, s)} /\ Holders(s) \in SUBSET Callers
  BY DEF Holders, Holds
<1>2. QED
  BY <1>1, CallersAssumption, FS_Subset, FS_CardinalityType

\* As long as the entry and who holds its sidecar stay the same, the count is right.
LEMMA SameCount ==
    ASSUME TypeOK, HoldersCounted, entry' = entry, updated' = updated \/ updated',
           entry.side # NoCaller => \A d \in Callers : Holds(d, entry.side)' <=> Holds(d, entry.side)
    PROVE  HoldersCounted'
<1> SUFFICES ASSUME entry.side # NoCaller
    PROVE  entry.refCount <= Cardinality(Holders(entry.side)')
           /\ (~updated' => entry.refCount = Cardinality(Holders(entry.side)'))
  BY DEF HoldersCounted
<1>1. Holders(entry.side)' = Holders(entry.side)
  BY DEF Holders, Holds
<1>2. QED
  BY <1>1 DEF HoldersCounted, TypeOK

\* One caller more holds the sidecar, or one less.
LEMMA OneMore ==
    ASSUME NEW s, NEW c \in Callers, ~Holds(c, s),
           NEW H, H = {d \in Callers : Holds(d, s)} \cup {c}
    PROVE  Cardinality(H) = Cardinality(Holders(s)) + 1
<1>1. c \notin Holders(s) /\ H = Holders(s) \cup {c}
  BY HoldersFinite
<1>2. QED
  BY <1>1, HoldersFinite, FS_AddElement

LEMMA OneLess ==
    ASSUME NEW s, NEW c \in Callers, Holds(c, s),
           NEW H, H = {d \in Callers : Holds(d, s)} \ {c}
    PROVE  Cardinality(H) = Cardinality(Holders(s)) - 1
<1>1. c \in Holders(s) /\ H = Holders(s) \ {c}
  BY HoldersFinite
<1>2. QED
  BY <1>1, HoldersFinite, FS_RemoveElement

\* Those who waited join the holders together.
LEMMA SomeMore ==
    ASSUME NEW s, NEW W \in SUBSET Callers, \A d \in W : ~Holds(d, s),
           NEW H, H = {d \in Callers : Holds(d, s)} \cup W
    PROVE  Cardinality(H) = Cardinality(Holders(s)) + Cardinality(W)
<1>1. H = Holders(s) \cup W /\ Holders(s) \cap W = {}
  BY HoldersFinite
<1>2. IsFiniteSet(W) /\ Cardinality(W) \in Nat
  BY CallersAssumption, FS_Subset, FS_CardinalityType
<1>3. Cardinality(H) = Cardinality(Holders(s)) + Cardinality(W) - Cardinality(Holders(s) \cap W)
  BY <1>1, <1>2, HoldersFinite, FS_Union
<1>4. Cardinality(Holders(s) \cap W) = 0
  BY <1>1, FS_EmptySet
<1>5. QED
  BY <1>2, <1>3, <1>4, HoldersFinite

\* A step that leaves the callers and the entry as they are.
LEMMA SharingApart ==
    ASSUME SharingInv, UNCHANGED <<version, entry, inFlight, timer, pairs, caller>>,
           updated' = updated \/ updated',
           doomed' \subseteq doomed
    PROVE  (\A c \in Callers : Known(c)') /\ Fresh' /\ HoldersCounted'
<1>1. TypeOK /\ (\A c \in Callers : Known(c)) /\ Fresh /\ HoldersCounted
  BY DEF SharingInv, Births
<1>2. \A c \in Callers : Known(c)'
  BY <1>1 DEF Known
<1>3. Fresh'
  BY <1>1 DEF Fresh, FreshShared, FreshCaller, Counted, InUse
<1>4. HoldersCounted'
  BY <1>1, SameCount DEF Holds
<1>5. QED
  BY <1>2, <1>3, <1>4

\* A caller that holds no sidecar moves on and still holds none.
LEMMA SharingUnheld ==
    ASSUME SharingInv, NEW c \in Callers,
           \A d \in Callers \ {c} : caller'[d] = caller[d],
           UNCHANGED <<version, pairs, doomed, updated>>,
           caller[c].step \in {"asked", "checking", "new", "resolved", "evicting", "creating"},
           caller'[c].step \in {"checking", "new", "resolved", "waiting", "evicting", "creating", "starting", "done"},
           caller'[c].step = "starting" => caller[c].step = "creating" /\ caller'[c].side = c,
           caller'[c].step = "evicting" => updated,
           caller'[c].step = "creating" /\ ~updated => entry.side = NoCaller,
           caller'[c].step \in {"checking", "resolved", "creating", "starting"} /\ ~updated
             => caller'[c].v = version,
           \/ entry' = entry /\ timer' = timer
           \/ updated /\ entry' = NoEntry
    PROVE  (\A d \in Callers : Known(d)') /\ Fresh' /\ HoldersCounted'
<1>1. TypeOK /\ (\A d \in Callers : BornOnce(d) /\ Known(d)) /\ Fresh /\ HoldersCounted
      /\ NoCaller \notin Callers
  BY CallersAssumption DEF SharingInv, Births
<1>2. \A d \in Callers : Known(d)'
  BY <1>1 DEF Known, NoEntry
<1>3. Fresh'
  <2> SUFFICES ASSUME ~updated PROVE FreshShared' /\ \A d \in Callers : FreshCaller(d)'
    BY DEF Fresh
  <2>1. FreshShared /\ (\A d \in Callers : FreshCaller(d)) /\ entry' = entry /\ timer' = timer
    BY <1>1 DEF Fresh
  <2>2. \A d \in Callers : FreshCaller(d)'
    BY <1>1, <2>1 DEF FreshCaller, Counted, Known
  <2>3. \A s \in doomed : InUse(s)' => InUse(s)
    BY <1>1, <2>1 DEF InUse, BornOnce, Unborn, UnbornSteps
  <2>4. QED
    BY <2>1, <2>2, <2>3 DEF FreshShared
<1>4. HoldersCounted'
  <2>1. CASE entry' = entry
    BY <1>1, <2>1, SameCount DEF Holds, HoldingSteps
  <2>2. CASE entry' = NoEntry
    BY <2>2 DEF HoldersCounted, NoEntry
  <2>3. QED
    BY <2>1, <2>2
<1>5. QED
  BY <1>2, <1>3, <1>4

\* The count after a step in which one caller gains a hold on the entry's sidecar.
LEMMA ReusesSharing ==
    ASSUME SharingInv, NEW c \in Callers, Reuses(c)
    PROVE  (\A d \in Callers : Known(d)') /\ Fresh' /\ HoldersCounted'
<1>1. TypeOK /\ (\A d \in Callers : BornOnce(d) /\ Known(d)) /\ Fresh /\ HoldersCounted
      /\ entry \in EntryType
  BY Parts DEF SharingInv, Births, SharedTypes
<1>2. /\ caller[c].step = "resolved" /\ caller'[c].step = "ensured" /\ caller'[c].side = entry.side
      /\ \A d \in Callers \ {c} : caller'[d] = caller[d]
      /\ UNCHANGED <<version, pairs, doomed, updated>> /\ timer' = NoCaller
      /\ entry.side # NoCaller
  BY <1>1, Forms DEF Reuses, At, Becomes, dockerVars, historyVars
<1>3. entry'.side = entry.side /\ entry'.refCount = entry.refCount + 1 /\ entry'.version = entry.version
  BY <1>1 DEF Reuses, EntryType
<1>4. \A d \in Callers : Known(d)'
  BY <1>1, <1>2, <1>3 DEF Known
<1>5. Fresh'
  <2> SUFFICES ASSUME ~updated PROVE FreshShared' /\ \A d \in Callers : FreshCaller(d)'
    BY <1>2 DEF Fresh
  <2>1. FreshShared /\ (\A d \in Callers : FreshCaller(d))
    BY DEF Fresh, SharingInv
  <2>2. \A d \in Callers : FreshCaller(d)'
    BY <1>2, <1>3, <2>1 DEF FreshCaller, Counted
  <2>3. \A s \in doomed : InUse(s)' => InUse(s)
    BY <1>2, <2>1 DEF InUse, FreshShared
  <2>4. QED
    BY <1>2, <1>3, <2>1, <2>2, <2>3 DEF FreshShared
<1>6. HoldersCounted'
  <2> DEFINE H == Holders(entry.side)'
  <2>1. H = {d \in Callers : Holds(d, entry.side)} \cup {c} /\ ~Holds(c, entry.side)
    BY <1>2, <1>3 DEF Holders, Holds, HoldingSteps
  <2>2. Cardinality(H) = Cardinality(Holders(entry.side)) + 1
    BY <2>1, OneMore
  <2>3. Cardinality(Holders(entry.side)) \in Nat
    BY HoldersFinite
  <2>4. Cardinality(Holders(entry.side)') = Cardinality(Holders(entry.side)) + 1
    BY <2>2
  <2>5. QED
    BY <1>1, <1>2, <1>3, <2>3, <2>4 DEF HoldersCounted, EntryType
<1>7. QED
  BY <1>4, <1>5, <1>6

\* A sidecar that is registered has its creator as only holder.
LEMMA RegistersSharing ==
    ASSUME SharingInv, NEW c \in Callers, Registers(c)
    PROVE  (\A d \in Callers : Known(d)') /\ Fresh' /\ HoldersCounted'
<1>1. TypeOK /\ (\A d \in Callers : BornOnce(d) /\ Known(d)) /\ Fresh /\ NoCaller \notin Callers
      /\ \A d \in Callers : caller[d].step \in StepNames
  BY CallersAssumption, Parts DEF SharingInv, Births, CallerTypes, CallerType
<1>2. /\ caller[c].step = "starting" /\ caller'[c].step = "registered"
      /\ caller'[c].side = caller[c].side
      /\ \A d \in Callers \ {c} : caller'[d] = caller[d]
      /\ UNCHANGED <<version, timer, pairs, doomed, updated>>
      /\ entry' = [side |-> c, refCount |-> 1, version |-> caller[c].v]
  BY <1>1, Forms DEF Registers, At, Becomes, dockerVars, historyVars
<1>3. /\ entry'.side = c /\ entry'.refCount = 1 /\ entry'.version = caller[c].v
      /\ caller[c].side = c /\ Unborn(c)
  BY <1>1, <1>2 DEF BornOnce, UnbornSteps
<1>4. \A d \in Callers : Known(d)'
  BY <1>1, <1>2, <1>3 DEF Known, Unborn
<1>5. Fresh'
  <2> SUFFICES ASSUME ~updated PROVE FreshShared' /\ \A d \in Callers : FreshCaller(d)'
    BY <1>2 DEF Fresh
  <2>1. /\ FreshShared /\ \A d \in Callers : FreshCaller(d)
        /\ entry.side = NoCaller /\ caller[c].v = version
    BY <1>1, <1>2 DEF Fresh, FreshCaller
  <2>2. \A d \in Callers : caller[d].step \in {"creating", "starting"} => d = c
    BY <1>1, <1>2 DEF BornOnce, CreatingSteps
  <2>3. \A d \in Callers : FreshCaller(d)'
    BY <1>1, <1>2, <1>3, <2>1, <2>2 DEF FreshCaller, Counted
  <2>4. \A s \in doomed : s # c /\ (InUse(s)' => InUse(s))
    BY <1>2, <1>3, <2>1 DEF InUse, Unborn
  <2>5. QED
    BY <1>2, <1>3, <2>1, <2>3, <2>4 DEF FreshShared
<1>6. HoldersCounted'
  <2>1. Holders(entry.side)' = {c}
    BY <1>2, <1>3 DEF Holders, Unborn
  <2>2. Cardinality(Holders(entry.side)') = 1
    BY <2>1, FS_Singleton
  <2>3. QED
    BY <1>3, <2>2 DEF HoldersCounted
<1>7. QED
  BY <1>4, <1>5, <1>6

\* Whoever waited for the creation holds its sidecar and is counted.
LEMMA SettlesSharing ==
    ASSUME SharingInv, NEW c \in Callers, CreationSettles(c)
    PROVE  (\A d \in Callers : Known(d)') /\ Fresh' /\ HoldersCounted'
<1>1. /\ TypeOK /\ (\A d \in Callers : BornOnce(d) /\ Known(d)) /\ Fresh /\ HoldersCounted
      /\ NoCaller \notin Callers /\ entry \in EntryType
  BY CallersAssumption, Parts DEF SharingInv, Births, SharedTypes
<1>2. AllAnswered(c, c)
  BY <1>1, Answers DEF CreationSettles, Sidecar
<1>3. /\ caller[c].step = "registered" /\ caller[c].side = c /\ entry.side \in {NoCaller, c}
      /\ UNCHANGED <<version, timer, pairs, doomed, updated>>
      /\ \A d \in Waiting : d \in Callers /\ caller[d].step = "waiting"
      /\ c \notin Waiting
  BY <1>1 DEF CreationSettles, At, dockerVars, historyVars, BornOnce, Waiting
<1>4. /\ Cardinality(Waiting) \in Nat
      /\ entry'.side = entry.side /\ entry'.version = entry.version
      /\ entry.side # NoCaller => entry'.refCount = entry.refCount + Cardinality(Waiting)
  <2>1. Cardinality(Waiting) \in Nat
    BY CallersAssumption, FS_Subset, FS_CardinalityType DEF Waiting
  <2>2. QED
    BY <1>1, <2>1 DEF CreationSettles, EntryType
<1>5. \A d \in Callers : \/ caller'[d] = caller[d] /\ d \notin Waiting
                         \/ /\ d \in Waiting \cup {c} /\ caller'[d].step = "ensured"
                            /\ caller'[d].side = c
  BY <1>2 DEF AllAnswered
<1>6. \A d \in Callers : Known(d)'
  BY <1>1, <1>3, <1>4, <1>5 DEF Known
<1>7. Fresh'
  <2> SUFFICES ASSUME ~updated PROVE FreshShared' /\ \A d \in Callers : FreshCaller(d)'
    BY <1>3 DEF Fresh
  <2>1. FreshShared /\ (\A d \in Callers : FreshCaller(d)) /\ entry.side = c
    BY <1>1, <1>3 DEF Fresh, FreshCaller, Counted
  <2>2. \A d \in Callers : FreshCaller(d)'
    BY <1>1, <1>3, <1>4, <1>5, <2>1 DEF FreshCaller, Counted
  <2>3. \A s \in doomed : InUse(s)' => InUse(s)
    BY <1>3, <1>5 DEF InUse
  <2>4. QED
    BY <1>3, <1>4, <2>1, <2>2, <2>3 DEF FreshShared
<1>8. HoldersCounted'
  <2> SUFFICES ASSUME entry.side = c
      PROVE  entry'.refCount <= Cardinality(Holders(entry.side)')
             /\ (~updated => entry'.refCount = Cardinality(Holders(entry.side)'))
    BY <1>1, <1>3, <1>4 DEF HoldersCounted
  <2> DEFINE H == Holders(entry.side)'
  <2>1. /\ \A d \in Waiting : ~Holds(d, c)
        /\ H = {d \in Callers : Holds(d, c)} \cup Waiting
    BY <1>2, <1>3, <1>4, <1>5 DEF Holders, Holds, HoldingSteps
  <2>2. Cardinality(H) = Cardinality(Holders(c)) + Cardinality(Waiting)
    BY <1>3, <2>1, SomeMore
  <2>3. Cardinality(Holders(c)) \in Nat
    BY HoldersFinite
  <2> HIDE DEF H
  <2>4. entry'.refCount <= Cardinality(H) /\ (~updated => entry'.refCount = Cardinality(H))
    BY <1>1, <1>3, <1>4, <2>2, <2>3 DEF HoldersCounted, EntryType
  <2>5. QED
    BY <2>4 DEF H
<1>9. QED
  BY <1>6, <1>7, <1>8

\* A caller's hold is given back and the entry of the moment counted down.
LEMMA UncountsSharing ==
    ASSUME SharingInv, NEW c \in Callers, Uncount,
           caller[c].step \in {"ensured", "leaving"}, caller[c].side # NoCaller,
           caller'[c].step = "done", caller'[c].side = NoCaller,
           \A d \in Callers \ {c} : caller'[d] = caller[d],
           UNCHANGED <<version, pairs, doomed, updated>>
    PROVE  (\A d \in Callers : Known(d)') /\ Fresh' /\ HoldersCounted'
<1>1. /\ TypeOK /\ (\A d \in Callers : Known(d)) /\ Fresh /\ HoldersCounted /\ entry \in EntryType
  BY Parts DEF SharingInv, Births, SharedTypes
<1>2. /\ entry'.side = entry.side /\ entry'.version = entry.version /\ timer' \in {timer, entry.side}
      /\ entry.side # NoCaller => entry'.refCount = entry.refCount - 1
  BY <1>1 DEF Uncount, EntryType
<1>3. \A d \in Callers : Known(d)'
  BY <1>1, <1>2 DEF Known
<1>4. Fresh'
  <2> SUFFICES ASSUME ~updated PROVE FreshShared' /\ \A d \in Callers : FreshCaller(d)'
    BY DEF Fresh
  <2>1. FreshShared /\ \A d \in Callers : FreshCaller(d)
    BY <1>1 DEF Fresh
  <2>2. \A d \in Callers : FreshCaller(d)'
    BY <1>2, <2>1 DEF FreshCaller, Counted
  <2>3. \A s \in doomed : InUse(s)' => InUse(s)
    BY DEF InUse
  <2>4. QED
    BY <1>2, <2>1, <2>2, <2>3 DEF FreshShared
<1>5. HoldersCounted'
  <2> SUFFICES ASSUME entry.side # NoCaller
      PROVE  entry'.refCount <= Cardinality(Holders(entry.side)')
             /\ (~updated => entry'.refCount = Cardinality(Holders(entry.side)'))
    BY <1>2 DEF HoldersCounted
  <2>1. ~updated => Holds(c, entry.side)
    BY <1>1 DEF Fresh, FreshCaller, Counted, Holds, HoldingSteps
  <2> DEFINE H == Holders(entry.side)'
  <2>2. H = {d \in Callers : Holds(d, entry.side)} \ {c}
    BY <1>2 DEF Holders, Holds, HoldingSteps
  <2>3. Cardinality(H) = Cardinality(Holders(entry.side)) - 1 \/ ~Holds(c, entry.side)
    BY <2>2, OneLess
  <2>4. ~Holds(c, entry.side) => H = Holders(entry.side)
    BY <2>2, HoldersFinite
  <2>5. Cardinality(Holders(entry.side)) \in Nat
    BY HoldersFinite
  <2> HIDE DEF H
  <2>6. entry'.refCount <= Cardinality(H) /\ (~updated => entry'.refCount = Cardinality(H))
    BY <1>1, <1>2, <2>1, <2>3, <2>4, <2>5 DEF HoldersCounted, EntryType
  <2>7. QED
    BY <2>6 DEF H
<1>6. QED
  BY <1>3, <1>4, <1>5

\* A creation that fails gives nobody a hold.
LEMMA FailsSharing ==
    ASSUME SharingInv, NEW c \in Callers, CreationFails(c)
    PROVE  (\A d \in Callers : Known(d)') /\ Fresh' /\ HoldersCounted'
<1>1. /\ TypeOK /\ (\A d \in Callers : Known(d)) /\ Fresh /\ HoldersCounted
  BY DEF SharingInv, Births
<1>2. AllAnswered(c, NoCaller)
  BY <1>1, Answers DEF CreationFails, Sidecar
<1>3. /\ UNCHANGED <<version, entry, timer, pairs, doomed, updated>>
      /\ caller[c].step \in {"creating", "starting"}
      /\ \A d \in Waiting : caller[d].step = "waiting"
  BY DEF CreationFails, Mishap, At, dockerVars, Waiting
<1>4. \A d \in Callers : \/ caller'[d] = caller[d]
                         \/ /\ caller[d].step \in {"creating", "starting", "waiting"}
                            /\ caller'[d].step = "ensured" /\ caller'[d].side = NoCaller
  BY <1>2, <1>3 DEF AllAnswered
<1>5. \A d \in Callers : Known(d)'
  BY <1>1, <1>3, <1>4 DEF Known
<1>6. Fresh'
  <2> SUFFICES ASSUME ~updated PROVE FreshShared' /\ \A d \in Callers : FreshCaller(d)'
    BY <1>3 DEF Fresh
  <2>1. FreshShared /\ \A d \in Callers : FreshCaller(d)
    BY <1>1 DEF Fresh
  <2>2. \A d \in Callers : FreshCaller(d)'
    BY <1>3, <1>4, <2>1 DEF FreshCaller, Counted
  <2>3. \A s \in Callers : InUse(s)' => InUse(s)
    BY <1>4, CallersAssumption DEF InUse
  <2>4. doomed \subseteq Callers
    BY <1>1 DEF TypeOK
  <2>5. QED
    BY <1>3, <2>1, <2>2, <2>3, <2>4 DEF FreshShared
<1>7. \A d \in Callers : entry.side # NoCaller => (Holds(d, entry.side)' <=> Holds(d, entry.side))
  BY <1>3, <1>4 DEF Holds, HoldingSteps
<1>8. QED
  BY <1>1, <1>3, <1>5, <1>6, <1>7, SameCount

\* An agent keeps its hold until it has left, and leaves with one only if it is counted.
LEMMA AgentsSharing ==
    ASSUME SharingInv, NEW c \in Callers,
           AgentCreated(c) \/ AgentFails(c) \/ AgentVanishes(c) \/ Leaves(c)
    PROVE  (\A d \in Callers : Known(d)') /\ Fresh' /\ HoldersCounted'
<1>1. TypeOK /\ (\A d \in Callers : Known(d)) /\ Fresh /\ HoldersCounted
  BY DEF SharingInv, Births
<1>2. /\ UNCHANGED <<version, entry, timer, doomed, updated>>
      /\ \A d \in Callers \ {c} : caller'[d] = caller[d] /\ (d \in pairs' <=> d \in pairs)
  BY <1>1, Forms
  DEF AgentCreated, AgentFails, AgentVanishes, Leaves, Mishap, Becomes, mapVars, dockerVars, historyVars
<1>3. \/ /\ caller[c].step = "ensured" /\ caller'[c].step = "attached" /\ caller'[c].side = caller[c].side
         /\ c \in pairs' <=> c \in pairs \/ caller[c].side # NoCaller
      \/ /\ caller[c].step = "ensured" /\ caller'[c].step = "leaked" /\ caller'[c].side = caller[c].side
         /\ c \in pairs' <=> c \in pairs
      \/ /\ caller[c].step = "attached" /\ caller'[c].step = "stray" /\ caller'[c].side = caller[c].side
         /\ c \in pairs' <=> c \in pairs
      \/ /\ caller[c].step \in {"attached", "stray"} /\ c \in pairs /\ c \notin pairs'
         /\ caller'[c].step = "leaving" /\ caller'[c].side = caller[c].side
      \/ /\ caller[c].step \in {"attached", "stray"} /\ c \notin pairs /\ c \notin pairs'
         /\ caller'[c].step = "done" /\ caller'[c].side = NoCaller
  <2>1. CASE AgentCreated(c)
    BY <1>1, <2>1, Forms DEF AgentCreated, At, Becomes
  <2>2. CASE AgentFails(c)
    BY <1>1, <2>2, Forms DEF AgentFails, At, Becomes
  <2>3. CASE AgentVanishes(c)
    BY <1>1, <2>3, Forms DEF AgentVanishes, At, Becomes
  <2>4. CASE Leaves(c)
    BY <1>1, <2>4, Forms DEF Leaves, At, Becomes
  <2>5. QED
    BY <2>1, <2>2, <2>3, <2>4
<1>4. Known(c) /\ \A d \in Callers : Known(d)'
  BY <1>1, <1>2, <1>3 DEF Known
<1>5. Fresh'
  <2> SUFFICES ASSUME ~updated PROVE FreshShared' /\ \A d \in Callers : FreshCaller(d)'
    BY <1>2 DEF Fresh
  <2>1. FreshShared /\ \A d \in Callers : FreshCaller(d)
    BY <1>1 DEF Fresh
  <2>2. \A d \in Callers : FreshCaller(d)'
    BY <1>2, <1>3, <2>1 DEF FreshCaller, Counted
  <2>3. caller[c].step = "stray" /\ caller'[c].step = "leaving" => caller[c].side = entry.side
    BY <1>3, <1>4, <2>1 DEF FreshCaller, Counted, Known
  <2>4. doomed \subseteq Callers
    BY <1>1 DEF TypeOK
  <2>5. \A s \in doomed : InUse(s)' => InUse(s)
    BY <1>2, <1>3, <2>1, <2>3, <2>4, CallersAssumption DEF InUse, FreshShared
  <2>6. QED
    BY <1>2, <2>1, <2>2, <2>5 DEF FreshShared
<1>6. \A d \in Callers : entry.side # NoCaller => (Holds(d, entry.side)' <=> Holds(d, entry.side))
  BY <1>2, <1>3, <1>4 DEF Holds, HoldingSteps, Known
<1>7. QED
  BY <1>1, <1>2, <1>4, <1>5, <1>6, SameCount

\* The timer takes only what nobody holds.
LEMMA TimerSharing ==
    ASSUME SharingInv, TimerFires
    PROVE  (\A d \in Callers : Known(d)') /\ Fresh' /\ HoldersCounted'
<1>1. /\ TypeOK /\ (\A d \in Callers : BornOnce(d) /\ Known(d)) /\ Fresh /\ HoldersCounted
      /\ NoCaller \notin Callers /\ entry \in EntryType
  BY CallersAssumption, Parts DEF SharingInv, Births, SharedTypes
<1>2. timer # NoCaller /\ timer' = NoCaller /\ UNCHANGED <<version, pairs, caller, updated>>
  BY DEF TimerFires, historyVars
<1>3. CASE entry.side = NoCaller \/ entry.refCount > 0
  <2>1. entry' = entry /\ doomed' = doomed
    BY <1>3 DEF TimerFires
  <2>2. Fresh'
    BY <1>1, <1>2, <2>1 DEF Fresh, FreshShared, FreshCaller, Counted, InUse
  <2>3. QED
    BY <1>1, <1>2, <2>1, <2>2, SameCount DEF Known, Holds
<1>4. CASE ~(entry.side = NoCaller \/ entry.refCount > 0)
  <2>1. entry'.side = NoCaller /\ doomed' = doomed \cup {timer}
    BY <1>4 DEF TimerFires, NoEntry
  <2>2. \A d \in Callers : Known(d)'
    BY <1>1, <1>2, <2>1 DEF Known
  <2>3. Fresh'
    <3> SUFFICES ASSUME ~updated PROVE FreshShared' /\ \A d \in Callers : FreshCaller(d)'
      BY <1>2 DEF Fresh
    <3>1. FreshShared /\ (\A d \in Callers : FreshCaller(d)) /\ timer = entry.side
      BY <1>1, <1>2 DEF Fresh, FreshShared
    <3>2. Cardinality(Holders(entry.side)) = 0
      BY <1>1, <1>4, HoldersFinite DEF HoldersCounted, EntryType
    <3>3. \A d \in Callers : ~Holds(d, entry.side)
      BY <3>2, HoldersFinite, FS_EmptySet
    <3>4. \A d \in Callers : FreshCaller(d)'
      BY <1>2, <2>1, <3>1, <3>3 DEF FreshCaller, Counted, Holds, HoldingSteps
    <3>5. ~InUse(entry.side)
      BY <1>1, <1>4, <3>3 DEF InUse, Holds, HoldingSteps, BornOnce, Unborn, UnbornSteps
    <3>6. \A s \in doomed' : ~InUse(s)' /\ s # NoCaller
      <4>1. doomed \subseteq Callers
        BY <1>1 DEF TypeOK
      <4>2. QED
        BY <1>1, <1>2, <2>1, <3>1, <3>5, <4>1 DEF FreshShared, InUse
    <3>7. QED
      BY <1>2, <2>1, <3>4, <3>6 DEF FreshShared
  <2>4. QED
    BY <2>1, <2>2, <2>3 DEF HoldersCounted
<1>5. QED
  BY <1>3, <1>4

\* After a restart nothing is counted.
LEMMA RestartSharing ==
    ASSUME SharingInv, Restarts
    PROVE  (\A d \in Callers : Known(d)') /\ Fresh' /\ HoldersCounted'
<1>1. AllRestarted /\ entry'.side = NoCaller /\ timer' = NoCaller /\ pairs' = {} /\ doomed' = {}
  BY Survivors DEF SharingInv, Births, Restarts, NoEntry
<1>2. \A d \in Callers : caller'[d].step \in {"asked", "new", "attached", "done"}
  BY <1>1 DEF AllRestarted, Called, At
<1>3. \A d \in Callers : Known(d)'
  BY <1>1, <1>2 DEF Known
<1>4. Fresh'
  BY <1>1, <1>2 DEF Fresh, FreshShared, FreshCaller, Counted
<1>5. QED
  BY <1>1, <1>3, <1>4 DEF HoldersCounted

\* Who knows what, and the count, after every step.
LEMMA SharingKept ==
    ASSUME SharingInv, [Next]_vars PROVE (\A d \in Callers : Known(d)') /\ Fresh' /\ HoldersCounted'
<1>1. TypeOK /\ (\A d \in Callers : BornOnce(d) /\ Known(d)) /\ Fresh
  BY DEF SharingInv, Births
<1>2. ASSUME NEW c \in Callers, Proceeds(c)
      PROVE  (\A d \in Callers : Known(d)') /\ Fresh' /\ HoldersCounted'
  <2> USE DEF mapVars, dockerVars, historyVars
  <2>1. CASE WarmupResolves(c) \/ WarmupChecks(c) \/ Resolves(c)
    <3>1. /\ UNCHANGED <<version, entry, timer, pairs, doomed, updated>>
          /\ caller[c].step \in {"asked", "checking", "new"}
          /\ \A d \in Callers \ {c} : caller'[d] = caller[d]
          /\ caller'[c].step \in {"checking", "done", "new", "resolved"}
          /\ caller'[c].step \in {"checking", "resolved"} => caller'[c].v = version
      BY <1>1, <2>1, Forms DEF WarmupResolves, WarmupChecks, Resolves, At, Becomes
    <3>2. QED
      BY <3>1, SharingUnheld
  <2>2. CASE Misses(c) \/ EvictsHeld(c) \/ Evicted(c)
    <3>1. /\ UNCHANGED <<version, pairs, doomed, updated>>
          /\ caller[c].step \in {"resolved", "evicting"} /\ WaitsOrCreates(c)
      BY <2>2 DEF Misses, EvictsHeld, Evicted, At
    <3>2. /\ caller'[c].step \in {"waiting", "creating"}
          /\ caller'[c].step = "creating" => caller'[c].v = caller[c].v
          /\ \A d \in Callers \ {c} : caller'[d] = caller[d]
      BY <1>1, <3>1, Forms DEF Becomes
    <3>3. ~updated => caller[c].v = version /\ entry.side = NoCaller /\ ~EvictsHeld(c) /\ ~Evicted(c)
      BY <1>1, <2>2 DEF Misses, EvictsHeld, Evicted, At, Fresh, FreshShared, FreshCaller
    <3>4. \/ entry' = entry /\ timer' = timer
          \/ updated /\ entry' = NoEntry
      BY <1>1, <2>2, <3>3 DEF Misses, EvictsHeld, Evicted, TypeOK
    <3>5. QED
      BY <3>1, <3>2, <3>3, <3>4, SharingUnheld
  <2>3. CASE EvictsIdle(c)
    <3>1. /\ UNCHANGED <<version, pairs, doomed, updated>>
          /\ caller[c].step = "resolved" /\ caller'[c].step = "evicting" /\ entry' = NoEntry
          /\ \A d \in Callers \ {c} : caller'[d] = caller[d]
      BY <1>1, <2>3, Forms DEF EvictsIdle, At, Becomes
    <3>2. updated
      BY <1>1, <2>3, <3>1 DEF EvictsIdle, Fresh, FreshShared, FreshCaller
    <3>3. QED
      BY <3>1, <3>2, SharingUnheld
  <2>4. CASE Creates(c)
    <3>1. /\ UNCHANGED <<version, entry, timer, pairs, doomed, updated>>
          /\ caller[c].step = "creating" /\ caller'[c].step = "starting" /\ caller'[c].side = c
          /\ caller'[c].v = caller[c].v
          /\ \A d \in Callers \ {c} : caller'[d] = caller[d]
      BY <1>1, <2>4, Forms DEF Creates, At, Becomes
    <3>2. ~updated => caller[c].v = version
      BY <1>1, <3>1 DEF Fresh, FreshCaller
    <3>3. QED
      BY <3>1, <3>2, SharingUnheld
  <2>5. CASE Reuses(c) \/ Registers(c) \/ CreationSettles(c)
    BY <2>5, ReusesSharing, RegistersSharing, SettlesSharing
  <2>6. CASE AgentCreated(c)
    BY <2>6, AgentsSharing
  <2>7. CASE Discounts(c) \/ (Releases(c) /\ caller[c].side # NoCaller)
    <3>1. /\ UNCHANGED <<version, pairs, doomed, updated>> /\ Uncount
          /\ caller[c].step \in {"ensured", "leaving"} /\ caller[c].side # NoCaller
      BY <1>1, <2>7 DEF Discounts, Releases, At, Known
    <3>2. /\ caller'[c].step = "done" /\ caller'[c].side = NoCaller
          /\ \A d \in Callers \ {c} : caller'[d] = caller[d]
      BY <1>1, <2>7, Forms DEF Becomes
    <3>3. QED
      BY <3>1, <3>2, UncountsSharing
  <2>8. CASE Releases(c) /\ caller[c].side = NoCaller
    <3>1. /\ UNCHANGED <<version, entry, timer, pairs, doomed, updated>>
          /\ caller[c].step = "ensured" /\ caller'[c].step = "done" /\ caller'[c].side = NoCaller
          /\ \A d \in Callers \ {c} : caller'[d] = caller[d]
      BY <1>1, <2>8, Forms DEF Releases, At, Becomes
    <3>2. HoldersCounted'
      BY <1>1, <2>8, <3>1, SameCount DEF SharingInv, Holds
    <3>3. \A d \in Callers : Known(d)'
      BY <1>1, <3>1 DEF Known
    <3>4. doomed \subseteq Callers
      BY <1>1 DEF TypeOK
    <3>5. Fresh'
      BY <1>1, <3>1, <3>4, CallersAssumption DEF Fresh, FreshShared, FreshCaller, Counted, InUse
    <3>6. QED
      BY <3>2, <3>3, <3>5
  <2>9. QED
    BY <1>2, <2>1, <2>2, <2>3, <2>4, <2>5, <2>6, <2>7, <2>8 DEF Proceeds
<1>3. ASSUME NEW a \in Agents, AgentFails(a) \/ AgentVanishes(a) \/ Leaves(a)
      PROVE  (\A d \in Callers : Known(d)') /\ Fresh' /\ HoldersCounted'
  BY <1>3, AgentsSharing DEF Callers
<1>4. ASSUME \/ \E s \in Callers : TornDown(s) \/ TeardownFails(s)
             \/ Cleanup \/ CleanupFails \/ UNCHANGED vars
      PROVE  (\A d \in Callers : Known(d)') /\ Fresh' /\ HoldersCounted'
  <2>1. /\ UNCHANGED <<version, entry, inFlight, timer, pairs, caller, updated>>
        /\ doomed' \subseteq doomed
    BY <1>4 DEF TornDown, TeardownFails, Cleanup, CleanupLists, CleanupRemoves, CleanupFails, vars,
         mapVars, dockerVars, historyVars, Mishap
  <2>2. QED
    BY <2>1, SharingApart
<1>5. ASSUME Updates PROVE (\A d \in Callers : Known(d)') /\ Fresh' /\ HoldersCounted'
  <2>1. UNCHANGED <<entry, timer, pairs, caller, doomed>> /\ updated'
    BY <1>5 DEF Updates, mapVars, dockerVars
  <2>2. HoldersCounted'
    BY <1>1, <2>1, SameCount DEF SharingInv, Holds
  <2>3. QED
    BY <1>1, <2>1, <2>2 DEF Fresh, Known
<1>6. QED
  BY <1>2, <1>3, <1>4, <1>5, FailsSharing, TimerSharing, RestartSharing DEF Next

-----------------------------------------------------------------------------
(* What is up, and the theorems.                                             *)

\* A second sidecar stays up only where the cleanup will come for it.
LEMMA OneUpKept == ASSUME SharingInv, [Next]_vars PROVE OneUp'
<1> USE DEF mapVars, dockerVars, historyVars
<1>1. /\ TypeOK /\ (\A d \in Callers : BornOnce(d)) /\ Fresh /\ OneUp
      /\ NoCaller \notin Callers /\ up \subseteq Callers
  BY CallersAssumption DEF SharingInv, Births, TypeOK
<1>2. ASSUME NEW c \in Callers, Proceeds(c) PROVE OneUp'
  <2> SUFFICES ASSUME ~updated', ~leaky', NEW s \in up' \ doomed'
      PROVE  s \in {entry'.side, inFlight'} \/ cleanup'.step = "listing" \/ s \in cleanup'.todo
    BY DEF OneUp
  <2>1. UNCHANGED <<cleanup, doomed, updated, leaky>>
    BY <1>2 DEF Proceeds, WarmupResolves, WarmupChecks, Resolves, Reuses, Misses, EvictsHeld,
         EvictsIdle, Evicted, Creates, Registers, CreationSettles, AgentCreated, Discounts, Releases
  <2>2. FreshShared /\ \A d \in Callers : FreshCaller(d)
    BY <1>1, <2>1 DEF Fresh
  <2>3. CASE \/ WarmupResolves(c) \/ WarmupChecks(c) \/ Resolves(c) \/ AgentCreated(c)
             \/ Discounts(c) \/ Releases(c) \/ Reuses(c)
    <3>1. up' = up /\ inFlight' = inFlight /\ entry'.side = entry.side
      BY <1>1, <2>3, Parts
      DEF WarmupResolves, WarmupChecks, Resolves, AgentCreated, Discounts, Releases, Reuses, Uncount,
          SharedTypes, EntryType
    <3>2. QED
      BY <1>1, <2>1, <3>1 DEF OneUp
  <2>4. CASE Misses(c)
    <3>1. up' = up /\ entry' = entry /\ (inFlight' = inFlight \/ inFlight = NoCaller)
      BY <1>1, <2>4, Forms DEF Misses
    <3>2. QED
      BY <1>1, <2>1, <3>1 DEF OneUp
  <2>5. CASE EvictsHeld(c) \/ EvictsIdle(c) \/ Evicted(c)
    BY <2>2, <2>5 DEF EvictsHeld, EvictsIdle, Evicted, At, FreshShared, FreshCaller
  <2>6. CASE Creates(c)
    <3>1. up' = up \cup {c} /\ entry' = entry /\ inFlight' = inFlight /\ inFlight = c
      BY <1>1, <2>6 DEF Creates, At, BornOnce, CreatingSteps
    <3>2. QED
      BY <1>1, <2>1, <3>1 DEF OneUp
  <2>7. CASE Registers(c)
    <3>1. up' = up /\ inFlight' = inFlight /\ entry.side = NoCaller
      BY <2>2, <2>7 DEF Registers, At, FreshCaller
    <3>2. QED
      BY <1>1, <2>1, <3>1 DEF OneUp
  <2>8. CASE CreationSettles(c)
    <3>1. up' = up /\ entry'.side = entry.side /\ caller[c].step = "registered"
      BY <1>1, <2>8, Parts DEF CreationSettles, At, SharedTypes, EntryType
    <3>2. inFlight = c /\ entry.side = c
      BY <1>1, <2>2, <3>1 DEF BornOnce, CreatingSteps, FreshCaller, Counted
    <3>3. QED
      BY <1>1, <2>1, <3>1, <3>2 DEF OneUp
  <2>9. QED
    BY <1>2, <2>3, <2>4, <2>5, <2>6, <2>7, <2>8 DEF Proceeds
<1>3. ASSUME Mishap PROVE OneUp'
  BY <1>3 DEF Mishap, OneUp
<1>4. ASSUME NEW a \in Agents, Leaves(a) PROVE OneUp'
  BY <1>1, <1>4 DEF Leaves, OneUp
<1>5. ASSUME TimerFires PROVE OneUp'
  <2> SUFFICES ASSUME ~updated', ~leaky', NEW s \in up' \ doomed'
      PROVE  s \in {entry'.side, inFlight'} \/ cleanup'.step = "listing" \/ s \in cleanup'.todo
    BY DEF OneUp
  <2>1. timer = entry.side
    BY <1>1, <1>5 DEF TimerFires, Fresh, FreshShared
  <2>2. QED
    BY <1>1, <1>5, <2>1 DEF TimerFires, OneUp
<1>6. ASSUME NEW s \in Callers, TornDown(s) PROVE OneUp'
  BY <1>1, <1>6 DEF TornDown, OneUp
<1>7. ASSUME Updates \/ Restarts PROVE OneUp'
  BY <1>7 DEF Updates, Restarts, OneUp
<1>8. ASSUME Cleanup PROVE OneUp'
  <2>1. CASE CleanupLists
    <3>1. cleanup'.todo = up /\ up' = up
      BY <2>1 DEF CleanupLists
    <3>2. QED
      BY <3>1 DEF OneUp
  <2>2. CASE CleanupRemoves
    <3>1. UNCHANGED <<entry, inFlight, doomed, updated, leaky>> /\ cleanup.step # "listing"
      BY <2>2 DEF CleanupRemoves
    <3>2. up' \subseteq up /\ \A s \in up' : s \in cleanup.todo => s \in cleanup'.todo
      BY <1>1, <2>2 DEF CleanupRemoves, TypeOK
    <3>3. QED
      BY <1>1, <3>1, <3>2 DEF OneUp
  <2>3. QED
    BY <1>8, <2>1, <2>2 DEF Cleanup
<1>9. CASE UNCHANGED vars
  BY <1>1, <1>9 DEF vars, OneUp
<1>10. QED
  BY <1>2, <1>3, <1>4, <1>5, <1>6, <1>7, <1>8, <1>9
  DEF Next, CreationFails, AgentFails, AgentVanishes, TeardownFails, CleanupFails

\* Once the cleanup is over it has nothing left to do.
LEMMA CleanupKept == ASSUME TypeOK, CleanupOver, [Next]_vars PROVE CleanupOver'
<1> USE DEF dockerVars
<1>1. CASE Cleanup \/ CleanupFails
  <2>1. cleanup \in [step : {"done", "listing", "removing"}, todo : SUBSET Callers]
    BY DEF TypeOK
  <2>2. QED
    BY <1>1, <2>1 DEF CleanupOver, Cleanup, CleanupLists, CleanupRemoves, CleanupFails
<1>2. CASE Restarts
  BY <1>2 DEF Restarts, CleanupOver
<1>3. CASE UNCHANGED cleanup
  BY <1>3 DEF CleanupOver
<1>4. Cleanup \/ CleanupFails \/ Restarts \/ UNCHANGED cleanup
  BY DEF Next, Proceeds, WarmupResolves, WarmupChecks, Resolves, Reuses, Misses, EvictsHeld,
     EvictsIdle, Evicted, Creates, Registers, CreationSettles, AgentCreated, Discounts, Releases,
     CreationFails, AgentFails, AgentVanishes, Leaves, TimerFires, TornDown, TeardownFails, Updates, vars
<1>5. QED
  BY <1>1, <1>2, <1>3, <1>4

\* The invariant holds at the start, after every step, and so always.
LEMMA SharingFirst == Init => SharingInv
<1> SUFFICES ASSUME Init PROVE SharingInv
  OBVIOUS
<1>1. TypeOK /\ NoCaller \notin Callers
  BY TypesFirst, CallersAssumption
<1>2. /\ entry.side = NoCaller /\ inFlight = NoCaller /\ timer = NoCaller
      /\ pairs = {} /\ up = {} /\ doomed = {}
      /\ \A c \in Callers : caller[c].step \in {"asked", "new"} /\ caller[c].side = NoCaller
  BY DEF Init, NoEntry, NoCall
<1>3. Births
  BY <1>1, <1>2 DEF Births, BornOnce, Unborn, CreatingSteps
<1>4. \A c \in Callers : Known(c)
  BY <1>2 DEF Known
<1>5. Fresh
  BY <1>2 DEF Fresh, FreshShared, FreshCaller, Counted
<1>6. HoldersCounted /\ OneUp
  BY <1>2 DEF HoldersCounted, OneUp
<1>7. CleanupOver
  BY DEF Init, CleanupOver
<1>8. QED
  BY <1>3, <1>4, <1>5, <1>6, <1>7 DEF SharingInv

LEMMA SharingAlways == Spec => []SharingInv
<1>1. ASSUME SharingInv, [Next]_vars PROVE SharingInv'
  BY <1>1, BirthsKept, SharingKept, OneUpKept, CleanupKept DEF SharingInv, Births
<1>2. QED
  BY <1>1, SharingFirst, PTL DEF Spec

\* The count of a tunnel's entry is never above the number of callers that hold its
\* sidecar, and exactly that as long as the tunnel has not changed.
THEOREM CountIsHolders == Spec => []HoldersCounted
<1>1. SharingInv => HoldersCounted
  BY DEF SharingInv
<1>2. QED
  BY <1>1, SharingAlways, PTL

\* Creations of one tunnel's sidecar do not overlap, and a second one is up only while
\* the first is being removed.
THEOREM SidecarsAreSingle == Spec => []OneSidecar
<1>1. ASSUME SharingInv PROVE OneSidecar
  <2>1. \A c, d \in Callers : caller[c].step \in CreatingSteps /\ caller[d].step \in CreatingSteps => c = d
    BY <1>1 DEF SharingInv, Births, BornOnce
  <2>2. ASSUME ~updated, ~leaky, cleanup.step = "done" PROVE Cardinality(up \ doomed) <= 1
    <3>1. /\ up \ doomed \subseteq {entry.side, inFlight}
          /\ up \subseteq Callers /\ NoCaller \notin Callers
          /\ \A c \in Callers : BornOnce(c) /\ FreshCaller(c)
      BY <1>1, <2>2, CallersAssumption DEF SharingInv, OneUp, CleanupOver, Births, TypeOK, Fresh
    <3>2. inFlight \in Callers => entry.side \in {NoCaller, inFlight}
      BY <3>1 DEF BornOnce, FreshCaller, CreatingSteps
    <3>3. PICK x \in {entry.side, inFlight} : up \ doomed \subseteq {x}
      BY <3>1, <3>2
    <3>4. IsFiniteSet({x}) /\ Cardinality({x}) = 1
      BY FS_Singleton
    <3>5. Cardinality(up \ doomed) <= Cardinality({x})
      BY <3>3, <3>4, FS_Subset
    <3>6. Cardinality(up \ doomed) \in Nat
      BY <3>3, <3>4, FS_Subset, FS_CardinalityType
    <3>7. QED
      BY <3>4, <3>5, <3>6
  <2>3. QED
    BY <2>1, <2>2 DEF OneSidecar
<1>2. QED
  BY <1>1, SharingAlways, PTL

\* The teardown never takes the sidecar of an agent from it while the tunnel is as it was.
THEOREM TakenOnlyByChange == Spec => SidecarTaken
<1>1. ASSUME SharingInv, [Next]_vars
      PROVE  [\A s \in up \ up' : InUse(s) => updated \/ cleanup # cleanup']_vars
  <2> SUFFICES ASSUME NEW s \in up \ up', InUse(s), ~updated, cleanup = cleanup' PROVE FALSE
    OBVIOUS
  <2>1. TypeOK /\ FreshShared /\ \A c \in Callers : FreshCaller(c)
    BY <1>1 DEF SharingInv, Births, Fresh
  <2>2. CleanupRemoves \/ \E c \in Callers : TornDown(c) \/ Evicted(c)
    BY <1>1 DEF Next, Proceeds, WarmupResolves, WarmupChecks, Resolves, Reuses, Misses, EvictsHeld,
         EvictsIdle, Creates, Registers, CreationSettles, AgentCreated, Discounts, Releases,
         CreationFails, AgentFails, AgentVanishes, Leaves, TimerFires, TeardownFails, Updates,
         Restarts, Cleanup, CleanupLists, CleanupFails, vars, dockerVars
  <2>3. CASE \E c \in Callers : TornDown(c)
    BY <2>1, <2>3 DEF TornDown, FreshShared
  <2>4. CASE \E c \in Callers : Evicted(c)
    BY <2>1, <2>4 DEF Evicted, At, FreshCaller
  <2>5. CASE CleanupRemoves
    <3>1. cleanup.todo # {}
      BY <2>5 DEF CleanupRemoves
    <3>2. PICK r \in cleanup.todo : cleanup' = [cleanup EXCEPT !.todo = @ \ {r}]
      BY <2>5, <3>1 DEF CleanupRemoves
    <3>3. cleanup'.todo = cleanup.todo \ {r}
      BY <2>1, <3>2 DEF TypeOK
    <3>4. QED
      BY <3>2, <3>3
  <2>6. QED
    BY <2>2, <2>3, <2>4, <2>5
<1>2. QED
  BY <1>1, SharingAlways, PTL DEF Spec, SidecarTaken

================================================================================
