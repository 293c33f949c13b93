---------------------------- MODULE PlaybooksProofs ----------------------------
(***************************************************************************)
(* Theorems about the scheduler and the chain runner, for every set of     *)
(* playbooks, every number of ticks that overlap and of runs that are      *)
(* alive, every number of chains and of interferences.                     *)
(***************************************************************************)
EXTENDS Playbooks, TLAPS

\* The parts of TypeOK.
RunType == [step : {"idle", "creating", "resolving", "finalizing", "closing"} \cup Looping,
            pb : Playbooks \cup {NoPlaybook}, scheduled : BOOLEAN, chain : 0..MaxChains,
            cancelled : BOOLEAN, end : {"completed", "failed", "cancelled"}]
TickType == [step : {"idle", "looking", "setting", "advancing"}, rows : Rows,
             at : Playbooks \cup {NoPlaybook}, then : Times]

RowTypes == row \in [Playbooks -> Row] /\ recompute \subseteq Playbooks
TickTypes ==
    /\ paused \in BOOLEAN
    /\ tick \in [Ticks -> TickType]
    /\ \A t \in Ticks : tick[t].step \in {"setting", "advancing"} => tick[t].at # NoPlaybook
RunKept ==
    /\ run \in [Runs -> RunType]
    /\ \A r \in Runs : run[r].step # "idle" => run[r].pb # NoPlaybook
    /\ activeRuns = {r \in Runs : run[r].step \in Looping}
RunnerTypes ==
    /\ RunKept
    /\ task \in [Runs -> {"none", "live", "done", "failed", "cancelled"}]
    /\ status \in [Runs -> {"none", "running", "completed", "failed", "cancelled", "lost"}]
MarkTypes == runningPlaybooks \subseteq Playbooks /\ stuck \subseteq Playbooks

LEMMA Parts ==
    TypeOK <=> RowTypes /\ TickTypes /\ RunnerTypes /\ MarkTypes /\ outside \in 0..MaxOutside
  BY DEF TypeOK, RowTypes, TickTypes, RunnerTypes, RunKept, MarkTypes, RunType, TickType

LEMMA PartsNext ==
    ASSUME RowTypes', TickTypes', RunnerTypes', MarkTypes', outside' \in 0..MaxOutside PROVE TypeOK'
  BY DEF TypeOK, RowTypes, TickTypes, RunnerTypes, RunKept, MarkTypes, RunType, TickType

\* What a tick reads, and what it has left of that, are rows.
LEMMA ReadRows ==
    ASSUME TypeOK PROVE [pb \in Listed |-> row[pb]] \in Rows
<1>1. [pb \in Listed |-> row[pb]] \in [Listed -> Row]
  BY DEF TypeOK, Listed
<1>2. Listed \in SUBSET Playbooks
  BY DEF Listed
<1>3. QED
  BY <1>1, <1>2 DEF Rows

LEMMA LeftRows ==
    ASSUME TypeOK, NEW t \in Ticks, NEW pb
    PROVE  /\ Left(t, pb) \in Rows /\ DOMAIN tick[t].rows \subseteq Playbooks
           /\ \A q \in DOMAIN tick[t].rows : tick[t].rows[q] \in Row
<1>1. tick[t].rows \in Rows
  BY DEF TypeOK
<1>2. PICK S \in SUBSET Playbooks : tick[t].rows \in [S -> Row]
  BY <1>1 DEF Rows
<1>3. Left(t, pb) \in [S \ {pb} -> Row]
  BY <1>2 DEF Left
<1>4. S \ {pb} \in SUBSET Playbooks
  OBVIOUS
<1>5. Left(t, pb) \in Rows
  BY <1>3, <1>4 DEF Rows
<1>6. QED
  BY <1>2, <1>5

\* Nothing read is a row as well.
LEMMA NoRows == IdleTick.rows \in Rows /\ IdleTick \in TickType
<1>1. <<>> \in [{} -> Row]
  OBVIOUS
<1>2. <<>> \in Rows
  <2>1. {} \in SUBSET Playbooks
    OBVIOUS
  <2>2. QED
    BY <1>1, <2>1 DEF Rows
<1>3. QED
  BY <1>2 DEF IdleTick, TickType, Times
\* A run that begins.
LEMMA ExecutesTypes ==
    ASSUME TypeOK, NEW pb \in Playbooks, NEW scheduled \in BOOLEAN, Executes(pb, scheduled)
    PROVE  RunnerTypes'
<1>1. PICK r \in Free : /\ run' = [run EXCEPT ![r] = [IdleRun EXCEPT !.step = "creating", !.pb = pb,
                                                                    !.scheduled = scheduled]]
                        /\ task' = [task EXCEPT ![r] = "none"]
                        /\ status' = [status EXCEPT ![r] = "none"]
                        /\ activeRuns' = activeRuns
  BY DEF Executes
<1>2. pb # NoPlaybook
  BY PlaybooksAssumption
<1>3. 0 \in 0..MaxChains
  BY PlaybooksAssumption
<1>4. r \in Runs /\ run[r].step = "idle"
  BY DEF Free
<1>5. [IdleRun EXCEPT !.step = "creating", !.pb = pb, !.scheduled = scheduled] \in RunType
  BY <1>3 DEF IdleRun, RunType
<1>6. run' \in [Runs -> RunType]
  BY <1>1, <1>4, <1>5 DEF TypeOK, RunType
<1>7. run'[r].step = "creating" /\ run'[r].pb = pb /\ \A q \in Runs \ {r} : run'[q] = run[q]
  BY <1>1, <1>4 DEF TypeOK, IdleRun
<1>8. \A q \in Runs : run'[q].step # "idle" => run'[q].pb # NoPlaybook
  BY <1>2, <1>7 DEF TypeOK
<1>9. activeRuns' = {q \in Runs : run'[q].step \in Looping}
  BY <1>1, <1>4, <1>7 DEF TypeOK, Looping
<1>10. QED
  BY <1>1, <1>6, <1>8, <1>9 DEF TypeOK, RunnerTypes, RunKept

\* A run that moves on, inside the loop or outside of it.
LEMMA GoesTypes ==
    ASSUME TypeOK, NEW r \in Runs, NEW step, Goes(r, step), run[r].step # "idle",
           step \in {"creating", "resolving", "finalizing", "closing"} \cup Looping,
           run[r].step \in Looping <=> step \in Looping, activeRuns' = activeRuns
    PROVE  RunKept'
<1>1. run' \in [Runs -> RunType]
  BY DEF TypeOK, RunType, Goes
<1>2. run'[r].step = step /\ run'[r].pb = run[r].pb /\ \A q \in Runs \ {r} : run'[q] = run[q]
  BY DEF TypeOK, Goes
<1>3. QED
  BY <1>1, <1>2 DEF TypeOK, RunKept

\* A run that leaves the loop.
LEMMA LeavesTypes ==
    ASSUME TypeOK, NEW r \in Runs, NEW end \in {"completed", "failed", "cancelled"},
           run[r].step \in Looping, Leaves(r, end)
    PROVE  RunKept'
<1>1. run' \in [Runs -> RunType]
  <2> DEFINE left == [run[r] EXCEPT !.step = "finalizing", !.cancelled = FALSE, !.end = end]
  <2>1. RunKept
    BY Parts DEF RunnerTypes
  <2>2. left \in RunType
    BY <2>1 DEF RunKept, RunType
  <2>3. run' = [run EXCEPT ![r] = left]
    BY <2>1 DEF Leaves, RunKept
  <2>4. QED
    BY <2>1, <2>2, <2>3 DEF RunKept
<1>2. /\ run'[r].step = "finalizing" /\ run'[r].pb = run[r].pb
      /\ \A q \in Runs \ {r} : run'[q] = run[q]
  BY DEF TypeOK, Leaves
<1>3. run[r].step # "idle" /\ activeRuns' = activeRuns \ {r}
  BY DEF Looping, Leaves
<1>4. QED
  BY <1>1, <1>2, <1>3 DEF TypeOK, RunKept, Looping

\* A run at the head of the loop.
LEMMA LoopsTypes ==
    ASSUME TypeOK, NEW r \in Runs, run[r].step \in {"resolving", "recording"}, Loops(r)
    PROVE  RunKept'
<1>1. run[r].chain \in 0..MaxChains /\ MaxChains \in Nat
  BY PlaybooksAssumption DEF TypeOK
<1>2. CASE run[r].cancelled \/ run[r].chain = MaxChains
  <2>1. /\ run' = [run EXCEPT ![r].step = "finalizing", ![r].cancelled = FALSE,
                              ![r].end = IF run[r].chain < MaxChains THEN "cancelled" ELSE "completed"]
        /\ activeRuns' = activeRuns \ {r}
    BY <1>2 DEF Loops
  <2>2. run' \in [Runs -> RunType]
    <3> DEFINE end == IF run[r].chain < MaxChains THEN "cancelled" ELSE "completed"
               left == [run[r] EXCEPT !.step = "finalizing", !.cancelled = FALSE, !.end = end]
    <3>1. RunKept
      BY Parts DEF RunnerTypes
    <3>2. left \in RunType
      BY <3>1 DEF RunKept, RunType
    <3>3. run' = [run EXCEPT ![r] = left]
      BY <2>1, <3>1 DEF RunKept
    <3>4. QED
      BY <3>1, <3>2, <3>3 DEF RunKept
  <2>3. /\ run'[r].step = "finalizing" /\ run'[r].pb = run[r].pb
        /\ \A q \in Runs \ {r} : run'[q] = run[q]
    BY <2>1 DEF TypeOK
  <2>4. QED
    BY <2>1, <2>2, <2>3 DEF TypeOK, RunKept, Looping
<1>3. CASE ~(run[r].cancelled \/ run[r].chain = MaxChains)
  <2>1. /\ run' = [run EXCEPT ![r].step = "submitting", ![r].chain = @ + 1]
        /\ activeRuns' = activeRuns \cup {r}
    BY <1>3 DEF Loops
  <2>2. run[r].chain + 1 \in 0..MaxChains
    BY <1>1, <1>3
  <2>3. run' \in [Runs -> RunType]
    BY <2>1, <2>2 DEF TypeOK, RunType, Looping
  <2>4. /\ run'[r].step = "submitting" /\ run'[r].pb = run[r].pb
        /\ \A q \in Runs \ {r} : run'[q] = run[q]
    BY <2>1 DEF TypeOK
  <2>5. QED
    BY <2>1, <2>3, <2>4 DEF TypeOK, RunKept, Looping
<1>4. QED
  BY <1>2, <1>3

\* A run that is over.
LEMMA ClosesTypes ==
    ASSUME TypeOK, NEW r \in Runs, run[r].step \notin Looping, Closes(r), activeRuns' = activeRuns
    PROVE  RunKept' /\ task' \in [Runs -> {"none", "live", "done", "failed", "cancelled"}]
<1>1. IdleRun \in RunType /\ IdleRun.step = "idle"
  BY PlaybooksAssumption DEF IdleRun, RunType
<1>2. /\ run' \in [Runs -> RunType] /\ run'[r] = IdleRun
      /\ \A q \in Runs \ {r} : run'[q] = run[q]
  BY <1>1 DEF TypeOK, RunType, Closes
<1>3. RunKept'
  <2>1. RunKept
    BY Parts DEF RunnerTypes
  <2>2. \A q \in Runs : run'[q].step # "idle" => run'[q].pb # NoPlaybook
    BY <1>1, <1>2, <2>1 DEF RunKept
  <2>3. activeRuns' = {q \in Runs : run'[q].step \in Looping}
    <3>1. \A q \in Runs : run'[q].step \in Looping <=> run[q].step \in Looping
      BY <1>1, <1>2 DEF Looping
    <3>2. QED
      BY <2>1, <3>1 DEF RunKept
  <2>4. QED
    BY <1>2, <2>2, <2>3 DEF RunKept
<1>4. QED
  BY <1>3 DEF TypeOK, Closes

\* A task that settles.
LEMMA SettlesTypes ==
    ASSUME TypeOK, NEW r \in Runs, TaskDone(r) \/ TaskFails(r)
    PROVE  RunKept'
<1>1. CASE TaskDone(r)
  <2>1. run' \in [Runs -> RunType]
    BY <1>1 DEF TypeOK, RunType, TaskDone, Looping
  <2>2. \A q \in Runs : /\ run'[q].pb = run[q].pb
                        /\ run'[q].step \in Looping <=> run[q].step \in Looping
                        /\ run'[q].step = "idle" <=> run[q].step = "idle"
    BY <1>1 DEF TypeOK, TaskDone, Hearing, Looping
  <2>3. QED
    BY <1>1, <2>1, <2>2 DEF TypeOK, RunKept, TaskDone
<1>2. CASE TaskFails(r)
  <2>1. run' \in [Runs -> RunType]
    <3>1. RunKept
      BY Parts DEF RunnerTypes
    <3>2. \A q \in Runs : [run[q] EXCEPT !.step = "finalizing", !.cancelled = FALSE,
                                         !.end = "failed"] \in RunType
      BY <3>1 DEF RunKept, RunType
    <3>3. QED
      BY <1>2, <3>1, <3>2 DEF RunKept, TaskFails
  <2>2. \A q \in Runs : /\ run'[q].pb = run[q].pb
                        /\ run'[q].step \in Looping <=> run[q].step \in Looping /\ q \notin Hearing(r)
                        /\ run'[q].step = "idle" <=> run[q].step = "idle"
    BY ZenonT(40), <1>2 DEF TypeOK, TaskFails, Hearing, Looping
  <2>3. QED
    BY ZenonT(40), <1>2, <2>1, <2>2 DEF TypeOK, RunKept, TaskFails
<1>3. QED
  BY <1>1, <1>2

\* Every step keeps the state in its types.
LEMMA TypesKept == ASSUME TypeOK, [Next]_vars PROVE TypeOK'
<1> USE DEF schedulerVars, runnerVars
<1>1. RowTypes /\ TickTypes /\ RunnerTypes /\ MarkTypes /\ outside \in 0..MaxOutside /\ MaxOutside \in Nat
  BY Parts, PlaybooksAssumption
<1>2. ASSUME Outside PROVE outside' \in 0..MaxOutside
  BY <1>1, <1>2 DEF Outside
<1>3. ASSUME NEW pb \in Playbooks, NEW next \in Times, SetNextRunAt(pb, next)
      PROVE  row' \in [Playbooks -> Row]
  BY <1>1, <1>3 DEF RowTypes, Row, SetNextRunAt
<1>4. ASSUME NEW t \in Ticks, Resumes(t)
      PROVE  /\ tick' \in [Ticks -> TickType]
             /\ \A u \in Ticks : tick'[u].step \in {"setting", "advancing"} => tick'[u].at # NoPlaybook
  <2> DEFINE on == [tick[t] EXCEPT !.step = "looking", !.at = NoPlaybook, !.then = "none"]
  <2>1. on \in TickType /\ on.step = "looking"
    BY <1>1 DEF TickTypes, TickType, Times
  <2>2. tick' = [tick EXCEPT ![t] = on]
    BY <1>1, <1>4 DEF Resumes, TickTypes
  <2>3. QED
    BY <1>1, <2>1, <2>2 DEF TickTypes
<1>5. ASSUME NEW t \in Ticks, NEW pb \in Playbooks, NEW then \in Times,
             NEW step \in {"looking", "setting", "advancing"}, Moves(t, pb, step, then)
      PROVE  /\ tick' \in [Ticks -> TickType]
             /\ \A u \in Ticks : tick'[u].step \in {"setting", "advancing"} => tick'[u].at # NoPlaybook
  <2> DEFINE at == IF step = "looking" THEN NoPlaybook ELSE pb
             on == [step |-> step, rows |-> Left(t, pb), then |-> then, at |-> at]
  <2>1. on \in TickType
    BY LeftRows DEF TickType
  <2>2. on.step = step /\ on.at = at /\ (step # "looking" => at # NoPlaybook)
    BY PlaybooksAssumption
  <2>3. tick' = [tick EXCEPT ![t] = on]
    BY <1>5 DEF Moves
  <2> HIDE DEF on, at
  <2>4. tick' \in [Ticks -> TickType]
    BY <1>1, <2>1, <2>3 DEF TickTypes
  <2>5. \A u \in Ticks : tick'[u] = IF u = t THEN on ELSE tick[u]
    BY <1>1, <2>3 DEF TickTypes
  <2>6. QED
    BY <1>1, <2>2, <2>4, <2>5 DEF TickTypes
<1>6. ASSUME NEW t \in Ticks, tick' = [tick EXCEPT ![t] = IdleTick]
      PROVE  /\ tick' \in [Ticks -> TickType]
             /\ \A u \in Ticks : tick'[u].step \in {"setting", "advancing"} => tick'[u].at # NoPlaybook
  <2>1. IdleTick \in TickType /\ IdleTick.step = "idle"
    BY NoRows DEF IdleTick
  <2>2. QED
    BY <1>1, <1>6, <2>1 DEF TickTypes
<1>7. ASSUME ServerRestarts, outside' \in 0..MaxOutside PROVE TypeOK'
  <2>1. IdleTick \in TickType /\ IdleTick.step = "idle"
    BY NoRows DEF IdleTick
  <2>2. IdleRun \in RunType /\ IdleRun.step = "idle"
    BY PlaybooksAssumption DEF IdleRun, RunType
  <2>3. RowTypes' /\ MarkTypes'
    BY <1>1, <1>7 DEF ServerRestarts, Listed, RowTypes, MarkTypes
  <2>4. TickTypes'
    BY <1>7, <2>1 DEF ServerRestarts, TickTypes
  <2>5. RunnerTypes'
    BY <1>1, <1>7, <2>2 DEF ServerRestarts, RunnerTypes, RunKept, Looping, Lost
  <2>6. QED
    BY <1>7, <2>3, <2>4, <2>5, PartsNext
<1>8. ASSUME NEW pb \in Playbooks, TimePasses(pb) \/ Changes(pb) \/ Deletes(pb) \/ RecomputeNextRun(pb)
      PROVE  TypeOK'
  <2>1. /\ \/ outside' = outside
           \/ Outside
        /\ UNCHANGED <<schedulerVars, run, activeRuns, task, stuck>>
    BY <1>8 DEF TimePasses, Changes, Deletes, RecomputeNextRun
  <2>2. row' \in [Playbooks -> Row]
    <3>1. CASE TimePasses(pb)
      BY <1>3, <3>1 DEF TimePasses, Times
    <3>2. CASE Changes(pb)
      BY <1>1, <3>2 DEF Changes, RowTypes
    <3>3. CASE Deletes(pb)
      BY <1>1, <3>3 DEF Deletes, RowTypes, Row
    <3>4. CASE RecomputeNextRun(pb)
      <4>1. row[pb] \in Row
        BY <1>1 DEF RowTypes
      <4>2. NextRuns(row[pb]) \subseteq Times
        BY <4>1 DEF NextRuns, NextCronRun, Times, Row, Triggers
      <4>3. QED
        BY <1>3, <3>4, <4>2 DEF RecomputeNextRun
    <3>5. QED
      BY <1>8, <3>1, <3>2, <3>3, <3>4
  <2>3. recompute' \subseteq Playbooks
    BY <1>1, <1>8 DEF TimePasses, Changes, Deletes, RecomputeNextRun, RowTypes
  <2>4. status' \in [Runs -> {"none", "running", "completed", "failed", "cancelled", "lost"}]
    BY <1>1, <1>8 DEF TimePasses, Changes, Deletes, RecomputeNextRun, RunnerTypes
  <2>5. RowTypes' /\ TickTypes' /\ RunnerTypes' /\ MarkTypes'
    BY <1>1, <2>1, <2>2, <2>3, <2>4 DEF RowTypes, TickTypes, RunnerTypes, RunKept, MarkTypes
  <2>6. QED
    BY <1>1, <1>2, <2>1, <2>5, PartsNext
<1>9. ASSUME NEW pb \in Playbooks, StartsByHand(pb) PROVE TypeOK'
  <2>1. RunnerTypes'
    BY <1>9, ExecutesTypes DEF StartsByHand
  <2>2. RowTypes' /\ TickTypes' /\ MarkTypes'
    BY <1>1, <1>9 DEF StartsByHand, RowTypes, TickTypes, MarkTypes
  <2>3. QED
    BY <1>2, <1>9, <2>1, <2>2, PartsNext DEF StartsByHand
<1>10. ASSUME NEW t \in Ticks, TickStep(t) \/ TickFails(t) PROVE TypeOK'
  <2>1. CASE Begins(t)
    <3> DEFINE on == [tick[t] EXCEPT !.step = "looking", !.rows = [pb \in Listed |-> row[pb]]]
    <3>1. on \in TickType /\ on.step = "looking"
      BY <1>1, ReadRows DEF TickTypes, TickType
    <3>2. tick' = [tick EXCEPT ![t] = on]
      BY <1>1, <2>1 DEF Begins, TickTypes
    <3> HIDE DEF on
    <3>3. TickTypes'
      BY <1>1, <2>1, <3>1, <3>2 DEF Begins, TickTypes
    <3>4. RowTypes' /\ RunnerTypes' /\ MarkTypes' /\ outside' = outside
      BY <1>1, <2>1 DEF Begins, RowTypes, RunnerTypes, RunKept, MarkTypes
    <3>5. QED
      BY <1>1, <3>3, <3>4, PartsNext
  <2>2. CASE Looks(t)
    <3>1. PICK pb \in DOMAIN tick[t].rows : Skips(t, pb) \/ SetsMissing(t, pb) \/ Fires(t, pb)
      BY <2>2 DEF Looks
    <3>2. pb \in Playbooks /\ tick[t].rows[pb] \in Row
      BY <3>1, LeftRows
    <3>3. RowTypes' /\ outside' = outside /\ paused' = paused
      BY <1>1, <2>2, <3>1 DEF Looks, TickKeeps, Skips, SetsMissing, Fires, RowTypes
    <3>4. CASE Skips(t, pb) \/ SetsMissing(t, pb)
      <4>1. MarkTypes' /\ RunnerTypes'
        BY <1>1, <3>4 DEF Skips, SetsMissing, MarkTypes, RunnerTypes, RunKept
      <4>2. TickTypes'
        BY <1>1, <1>5, <3>2, <3>3, <3>4 DEF Skips, SetsMissing, TickTypes, Times
      <4>3. QED
        BY <1>1, <3>3, <4>1, <4>2, PartsNext
    <3>5. CASE Fires(t, pb)
      <4>1. MarkTypes'
        BY <1>1, <3>2, <3>5 DEF Fires, MarkTypes
      <4>2. NextCronRun(tick[t].rows[pb]) \in Times /\ "later" \in Times /\ "none" \in Times
        BY DEF NextCronRun, Times
      <4>3. TickTypes'
        BY <1>1, <1>5, <3>2, <3>3, <3>5, <4>2 DEF Fires, TickTypes
      <4>4. RunnerTypes'
        <5>1. CASE Executes(pb, TRUE)
          BY <3>2, <5>1, ExecutesTypes
        <5>2. CASE UNCHANGED runnerVars
          BY <1>1, <5>2 DEF RunnerTypes, RunKept
        <5>3. QED
          BY <3>5, <5>1, <5>2 DEF Fires
      <4>5. QED
        BY <1>1, <3>3, <4>1, <4>3, <4>4, PartsNext
    <3>6. QED
      BY <3>1, <3>4, <3>5
  <2>3. CASE Sets(t) \/ Advances(t)
    <3>1. tick[t].at \in Playbooks /\ tick[t].then \in Times
      BY <1>1, <2>3 DEF Sets, Advances, TickTypes, TickType
    <3>2. RowTypes'
      BY <1>1, <1>3, <2>3, <3>1 DEF Sets, Advances, TickKeeps, RowTypes
    <3>3. TickTypes'
      BY <1>1, <1>4, <2>3 DEF Sets, Advances, TickKeeps, TickTypes
    <3>4. MarkTypes' /\ outside' = outside
      BY <1>1, <2>3 DEF Sets, Advances, MarkTypes
    <3>5. RunnerTypes'
      <4>1. CASE Sets(t)
        BY <1>1, <4>1 DEF Sets, RunnerTypes, RunKept
      <4>2. CASE Advances(t)
        BY <3>1, <4>2, ExecutesTypes DEF Advances
      <4>3. QED
        BY <2>3, <4>1, <4>2
    <3>6. QED
      BY <1>1, <3>2, <3>3, <3>4, <3>5, PartsNext
  <2>4. CASE Ends(t) \/ TickFails(t)
    <3>1. TickTypes'
      BY <1>1, <1>6, <2>4 DEF Ends, TickFails, TickKeeps, TickTypes
    <3>2. MarkTypes'
      BY <1>1, <2>4 DEF Ends, TickFails, MarkTypes, TickTypes, TickType
    <3>3. RowTypes' /\ RunnerTypes'
      BY <1>1, <2>4 DEF Ends, TickFails, TickKeeps, RowTypes, RunnerTypes, RunKept
    <3>4. outside' \in 0..MaxOutside
      BY <1>1, <1>2, <2>4 DEF Ends, TickFails
    <3>5. QED
      BY <3>1, <3>2, <3>3, <3>4, PartsNext
  <2>5. QED
    BY <1>10, <2>1, <2>2, <2>3, <2>4 DEF TickStep
<1>11. ASSUME NEW r \in Runs, RunStep(r) \/ TaskSettles(r) \/ LoopFails(r) \/ Rejects(r) \/ Cancels(r)
       PROVE  TypeOK'
  <2>1. CASE ReturnsNothing(r)
    BY <1>1, <1>7, <2>1 DEF ReturnsNothing
  <2>2. CASE ~ReturnsNothing(r)
    <3>1. RowTypes' /\ TickTypes' /\ stuck' = stuck
      BY <1>1, <1>11, <2>2 DEF RunStep, TaskSettles, RunCreated, OrgResolved, Submitted, Linked, TimesOut,
           Recorded, Finalized, Returns, TaskDone, TaskFails, TaskCancelled, LoopFails, Rejects, Cancels,
           RunKeeps, RowTypes, TickTypes
    <3>2. runningPlaybooks' \subseteq runningPlaybooks
      BY <1>11, <2>2 DEF RunStep, TaskSettles, RunCreated, OrgResolved, Submitted, Linked, TimesOut,
           Recorded, Finalized, Returns, TaskDone, TaskFails, TaskCancelled, LoopFails, Rejects, Cancels,
           Unmarks
    <3>3. outside' = outside \/ Outside
      BY <1>11, <2>2 DEF RunStep, TaskSettles, RunCreated, OrgResolved, Submitted, Linked, TimesOut,
           Recorded, Finalized, Returns, TaskDone, TaskFails, TaskCancelled, LoopFails, Rejects, Cancels
    <3>4. RunKept'
      <4>1. CASE RunCreated(r) \/ Submitted(r) \/ Linked(r) \/ Finalized(r)
        BY <4>1, GoesTypes DEF RunCreated, Submitted, Linked, Finalized, Looping
      <4>2. CASE OrgResolved(r)
        BY <4>2, LoopsTypes DEF OrgResolved
      <4>3. CASE TimesOut(r) \/ LoopFails(r)
        BY <4>3, LeavesTypes DEF TimesOut, LoopFails, Looping
      <4>4. CASE Recorded(r)
        BY <4>4, LeavesTypes, LoopsTypes DEF Recorded, Looping
      <4>5. CASE Returns(r) \/ Rejects(r)
        BY <4>5, ClosesTypes DEF Returns, Rejects, Looping
      <4>6. CASE TaskDone(r) \/ TaskFails(r)
        BY <4>6, SettlesTypes
      <4>7. CASE TaskCancelled(r)
        BY <1>1, <4>7 DEF TaskCancelled, RunnerTypes, RunKept
      <4>8. CASE Cancels(r)
        <5>1. run' \in [Runs -> RunType]
          BY ZenonT(40), <1>1, <4>8 DEF Cancels, RunnerTypes, RunKept, RunType
        <5>2. \A q \in Runs : run'[q].step = run[q].step /\ run'[q].pb = run[q].pb
          BY <1>1, <4>8 DEF Cancels, RunnerTypes, RunKept, RunType
        <5>3. QED
          BY <1>1, <4>8, <5>1, <5>2 DEF Cancels, RunnerTypes, RunKept
      <4>9. QED
        BY <1>11, <2>2, <4>1, <4>2, <4>3, <4>4, <4>5, <4>6, <4>7, <4>8 DEF RunStep, TaskSettles
    <3>5. task' \in [Runs -> {"none", "live", "done", "failed", "cancelled"}]
      BY <1>1, <1>11, <2>2 DEF RunStep, TaskSettles, RunCreated, OrgResolved, Submitted, Linked, TimesOut,
           Recorded, Finalized, Returns, TaskDone, TaskFails, TaskCancelled, LoopFails, Rejects, Cancels,
           Closes, RunnerTypes
    <3>6. status' \in [Runs -> {"none", "running", "completed", "failed", "cancelled", "lost"}]
      BY ZenonT(40), <1>1, <1>11, <2>2 DEF RunStep, TaskSettles, RunCreated, OrgResolved, Submitted, Linked,
           TimesOut,
           Recorded, Finalized, Returns, TaskDone, TaskFails, TaskCancelled, LoopFails, Rejects, Cancels,
           Lost, RunnerTypes, RunKept, RunType
    <3>7. QED
      BY <1>1, <1>2, <3>1, <3>2, <3>3, <3>4, <3>5, <3>6, PartsNext DEF MarkTypes, RunnerTypes
  <2>3. QED
    BY <2>1, <2>2
<1>12. ASSUME Pauses \/ Unpauses PROVE TypeOK'
  <2>1. RowTypes' /\ TickTypes' /\ RunnerTypes' /\ MarkTypes'
    BY <1>1, <1>12 DEF Pauses, Unpauses, RowTypes, TickTypes, RunnerTypes, RunKept, MarkTypes
  <2>2. QED
    BY <1>1, <1>2, <1>12, <2>1, PartsNext DEF Pauses, Unpauses
<1>13. CASE UNCHANGED vars
  BY <1>13 DEF vars, TypeOK
<1>14. QED
  BY <1>2, <1>7, <1>8, <1>9, <1>10, <1>11, <1>12, <1>13 DEF Next, Restarts

\* The first state is of the types.
LEMMA TypesFirst == Init => TypeOK
<1> SUFFICES ASSUME Init PROVE TypeOK
  OBVIOUS
<1>1. IdleTick \in TickType /\ IdleTick.step = "idle"
  BY NoRows DEF IdleTick
<1>2. IdleRun \in RunType /\ IdleRun.step = "idle" /\ 0 \in 0..MaxOutside
  BY PlaybooksAssumption DEF IdleRun, RunType
<1>3. TickTypes
  BY <1>1 DEF Init, TickTypes
<1>4. RunnerTypes
  BY <1>2 DEF Init, RunnerTypes, RunKept, Looping
<1>5. QED
  BY <1>2, <1>3, <1>4, Parts DEF Init, RowTypes, MarkTypes

\* The scheduler's and the runner's state keeps its types.
THEOREM TypeCorrect == Spec => []TypeOK
<1>1. TypeOK /\ [Next]_vars => TypeOK'
  BY TypesKept
<1>2. QED
  BY <1>1, TypesFirst, PTL DEF Spec

-----------------------------------------------------------------------------
\* Who holds a mark: a run the scheduler began, or a tick between mark and run.
RunHolds(r, pb) == run[r].scheduled /\ run[r].pb = pb
TickHolds(t, pb) == tick[t].step = "advancing" /\ tick[t].at = pb

\* Every mark has one holder, or was left behind; what is held is marked.
MarksOf(pb) ==
    /\ \A r, q \in Runs : RunHolds(r, pb) /\ RunHolds(q, pb) => r = q
    /\ \A t, u \in Ticks : TickHolds(t, pb) /\ TickHolds(u, pb) => t = u
    /\ \A r \in Runs, t \in Ticks : ~(RunHolds(r, pb) /\ TickHolds(t, pb))
    /\ \A r \in Runs : RunHolds(r, pb) => pb \notin stuck
    /\ \A t \in Ticks : TickHolds(t, pb) => pb \notin stuck
    /\ pb \in runningPlaybooks <=>
         pb \in stuck \/ (\E r \in Runs : RunHolds(r, pb)) \/ (\E t \in Ticks : TickHolds(t, pb))
IdleHoldsNone == \A r \in Runs : run[r].step = "idle" => ~run[r].scheduled

MarksInv == TypeOK /\ IdleHoldsNone /\ \A pb \in Playbooks : MarksOf(pb)

\* Steps that leave marks and holders alone.
SameMarks ==
    /\ runningPlaybooks' = runningPlaybooks /\ stuck' = stuck
    /\ \A r \in Runs, pb \in Playbooks : RunHolds(r, pb)' <=> RunHolds(r, pb)
    /\ \A t \in Ticks, pb \in Playbooks : TickHolds(t, pb)' <=> TickHolds(t, pb)

LEMMA SameMarksKept ==
    ASSUME NEW pb \in Playbooks, MarksOf(pb), SameMarks PROVE MarksOf(pb)'
  BY DEF MarksOf, SameMarks

\* A run that begins holds what it was begun for; the others hold what they held.
LEMMA ExecutesHolds ==
    ASSUME TypeOK, IdleHoldsNone, NEW pb \in Playbooks, NEW scheduled \in BOOLEAN, Executes(pb, scheduled)
    PROVE  /\ IdleHoldsNone'
           /\ \E r \in Runs : /\ \A o \in Playbooks : ~RunHolds(r, o)
                              /\ \A o \in Playbooks : RunHolds(r, o)' <=> scheduled /\ o = pb
                              /\ \A q \in Runs \ {r} : \A o \in Playbooks : RunHolds(q, o)' <=> RunHolds(q, o)
<1>1. PICK r \in Free : run' = [run EXCEPT ![r] = [IdleRun EXCEPT !.step = "creating", !.pb = pb,
                                                                    !.scheduled = scheduled]]
  BY DEF Executes
<1>2. r \in Runs /\ run[r].step = "idle" /\ ~run[r].scheduled
  BY DEF Free, IdleHoldsNone
<1>3. /\ run'[r].step = "creating" /\ run'[r].pb = pb /\ run'[r].scheduled = scheduled
      /\ \A q \in Runs \ {r} : run'[q] = run[q]
  BY <1>1, <1>2 DEF TypeOK, IdleRun
<1>4. IdleHoldsNone'
  BY <1>3 DEF IdleHoldsNone
<1>5. \A o \in Playbooks : ~RunHolds(r, o)
  BY <1>2 DEF RunHolds
<1>6. \A o \in Playbooks : RunHolds(r, o)' <=> scheduled /\ o = pb
  BY <1>3 DEF RunHolds
<1>7. \A q \in Runs \ {r} : \A o \in Playbooks : RunHolds(q, o)' <=> RunHolds(q, o)
  BY <1>3 DEF RunHolds
<1>8. QED
  BY <1>2, <1>4, <1>5, <1>6, <1>7

\* Runs that keep their playbook and who began them keep what they hold.
LEMMA RunsHoldOn ==
    ASSUME IdleHoldsNone, tick' = tick, stuck' = stuck, runningPlaybooks' = runningPlaybooks,
           \A r \in Runs : /\ run'[r].pb = run[r].pb /\ run'[r].scheduled = run[r].scheduled
                           /\ run'[r].step = "idle" <=> run[r].step = "idle"
    PROVE  IdleHoldsNone' /\ SameMarks
<1>1. IdleHoldsNone'
  BY DEF IdleHoldsNone
<1>2. SameMarks
  BY DEF SameMarks, RunHolds, TickHolds
<1>3. QED
  BY <1>1, <1>2

\* A tick that leaves the run to begin to another step, or only looks, holds nothing then.
LEMMA MovesHolds ==
    ASSUME TypeOK, NEW t \in Ticks, NEW pb \in Playbooks, NEW step, NEW then, Moves(t, pb, step, then)
    PROVE  /\ \A o \in Playbooks : TickHolds(t, o)' <=> step = "advancing" /\ o = pb
           /\ \A u \in Ticks \ {t} : \A o \in Playbooks : TickHolds(u, o)' <=> TickHolds(u, o)
<1>1. /\ tick'[t].step = step /\ (step # "looking" => tick'[t].at = pb)
      /\ \A u \in Ticks \ {t} : tick'[u] = tick[u]
  BY DEF TypeOK, Moves
<1>2. QED
  BY <1>1 DEF TickHolds

\* Every step keeps the marks with their holders.
LEMMA MarksKept == ASSUME MarksInv, [Next]_vars PROVE MarksInv'
<1> USE DEF schedulerVars, runnerVars
<1>1. TypeOK /\ TypeOK' /\ IdleHoldsNone
  BY TypesKept DEF MarksInv
<1> SUFFICES IdleHoldsNone' /\ \A pb \in Playbooks : MarksOf(pb)'
  BY <1>1 DEF MarksInv
<1>2. ASSUME IdleHoldsNone', SameMarks
      PROVE  IdleHoldsNone' /\ \A pb \in Playbooks : MarksOf(pb)'
  BY <1>2, SameMarksKept DEF MarksInv
<1>3. ASSUME ServerRestarts PROVE IdleHoldsNone' /\ \A pb \in Playbooks : MarksOf(pb)'
  <2>1. /\ \A r \in Runs : ~run'[r].scheduled
        /\ \A t \in Ticks : tick'[t].step = "idle"
        /\ stuck' = {} /\ runningPlaybooks' = {}
    BY <1>3 DEF ServerRestarts, IdleRun, IdleTick
  <2>2. QED
    BY <2>1 DEF IdleHoldsNone, MarksOf, RunHolds, TickHolds
<1>4. ASSUME NEW pb \in Playbooks, TimePasses(pb) \/ Changes(pb) \/ Deletes(pb) \/ RecomputeNextRun(pb)
      PROVE  IdleHoldsNone' /\ \A q \in Playbooks : MarksOf(q)'
  <2>1. UNCHANGED <<run, tick, stuck, runningPlaybooks>>
    BY <1>4 DEF TimePasses, Changes, Deletes, RecomputeNextRun
  <2>2. QED
    BY <1>1, <1>2, <2>1, RunsHoldOn
<1>5. ASSUME NEW pb \in Playbooks, StartsByHand(pb)
      PROVE  IdleHoldsNone' /\ \A q \in Playbooks : MarksOf(q)'
  <2>1. Executes(pb, FALSE) /\ UNCHANGED <<tick, stuck, runningPlaybooks>>
    BY <1>5 DEF StartsByHand
  <2>2. /\ IdleHoldsNone'
        /\ \A r \in Runs, o \in Playbooks : RunHolds(r, o)' <=> RunHolds(r, o)
    BY <1>1, <2>1, ExecutesHolds
  <2>3. SameMarks
    BY <2>1, <2>2 DEF SameMarks, TickHolds
  <2>4. QED
    BY <1>2, <2>2, <2>3
<1>6. ASSUME NEW t \in Ticks, Begins(t) \/ Sets(t) \/ Ends(t)
      PROVE  IdleHoldsNone' /\ \A q \in Playbooks : MarksOf(q)'
  <2>1. UNCHANGED <<run, stuck, runningPlaybooks>>
    BY <1>6 DEF Begins, Sets, Ends
  <2>2. /\ tick[t].step # "advancing" /\ tick'[t].step # "advancing"
        /\ \A u \in Ticks \ {t} : tick'[u] = tick[u]
    BY <1>1, <1>6 DEF Begins, Sets, Ends, Resumes, IdleTick, TypeOK
  <2>3. SameMarks
    BY <2>1, <2>2 DEF SameMarks, RunHolds, TickHolds
  <2>4. QED
    BY <1>1, <1>2, <2>1, <2>3 DEF IdleHoldsNone
<1>7. ASSUME NEW t \in Ticks, Looks(t)
      PROVE  IdleHoldsNone' /\ \A q \in Playbooks : MarksOf(q)'
  <2>1. PICK pb \in DOMAIN tick[t].rows : Skips(t, pb) \/ SetsMissing(t, pb) \/ Fires(t, pb)
    BY <1>7 DEF Looks
  <2>2. pb \in Playbooks /\ \A o \in Playbooks : ~TickHolds(t, o)
    BY <1>1, <1>7, <2>1, LeftRows DEF Looks, TickHolds
  <2>3. CASE Skips(t, pb) \/ SetsMissing(t, pb)
    <3>1. UNCHANGED <<run, stuck, runningPlaybooks>>
      BY <2>3 DEF Skips, SetsMissing
    <3>2. \A u \in Ticks, o \in Playbooks : TickHolds(u, o)' <=> TickHolds(u, o)
      BY <1>1, <2>2, <2>3, MovesHolds DEF Skips, SetsMissing
    <3>3. SameMarks
      BY <3>1, <3>2 DEF SameMarks, RunHolds
    <3>4. QED
      BY <1>1, <1>2, <3>1, <3>3 DEF IdleHoldsNone
  <2>4. CASE Fires(t, pb)
    <3>1. /\ pb \notin runningPlaybooks /\ stuck' = stuck
          /\ runningPlaybooks' = runningPlaybooks \cup {pb}
      BY <2>4 DEF Fires, Marked
    <3>2. /\ pb \notin stuck /\ \A r \in Runs : ~RunHolds(r, pb)
          /\ \A u \in Ticks : ~TickHolds(u, pb)
      BY <2>2, <3>1 DEF MarksInv, MarksOf
    <3>3. CASE UNCHANGED runnerVars /\ \E then \in Times : Moves(t, pb, "advancing", then)
      <4>1. IdleHoldsNone' /\ \A r \in Runs, o \in Playbooks : RunHolds(r, o)' <=> RunHolds(r, o)
        BY <1>1, <3>3 DEF IdleHoldsNone, RunHolds
      <4>2. /\ \A o \in Playbooks : TickHolds(t, o)' <=> o = pb
            /\ \A u \in Ticks \ {t} : \A o \in Playbooks : TickHolds(u, o)' <=> TickHolds(u, o)
        BY <1>1, <2>2, <3>3, MovesHolds
      <4>3. ASSUME NEW o \in Playbooks PROVE MarksOf(o)'
        <5>1. MarksOf(o)
          BY DEF MarksInv
        <5>2. CASE o = pb
          BY <3>1, <3>2, <4>1, <4>2, <5>2 DEF MarksOf
        <5>3. CASE o # pb
          BY <2>2, <3>1, <4>1, <4>2, <5>1, <5>3 DEF MarksOf
        <5>4. QED
          BY <5>2, <5>3
      <4>4. QED
        BY <4>1, <4>3
    <3>4. CASE Executes(pb, TRUE) /\ Moves(t, pb, "looking", "none")
      <4>1. PICK r \in Runs : /\ \A o \in Playbooks : ~RunHolds(r, o)
                              /\ \A o \in Playbooks : RunHolds(r, o)' <=> o = pb
                              /\ \A q \in Runs \ {r} : \A o \in Playbooks : RunHolds(q, o)' <=> RunHolds(q, o)
        BY <1>1, <2>2, <3>4, ExecutesHolds
      <4>2. IdleHoldsNone'
        BY <1>1, <2>2, <3>4, ExecutesHolds
      <4>3. \A u \in Ticks, o \in Playbooks : TickHolds(u, o)' <=> TickHolds(u, o)
        BY <1>1, <2>2, <3>4, MovesHolds
      <4>4. ASSUME NEW o \in Playbooks PROVE MarksOf(o)'
        <5>1. MarksOf(o)
          BY DEF MarksInv
        <5>2. CASE o = pb
          BY <3>1, <3>2, <4>1, <4>3, <5>2 DEF MarksOf
        <5>3. CASE o # pb
          BY <3>1, <4>1, <4>3, <5>1, <5>3 DEF MarksOf
        <5>4. QED
          BY <5>2, <5>3
      <4>5. QED
        BY <4>2, <4>4
    <3>5. QED
      BY <2>4, <3>3, <3>4 DEF Fires, NextCronRun, Times
  <2>5. QED
    BY <2>1, <2>3, <2>4
<1>8. ASSUME NEW t \in Ticks, Advances(t)
      PROVE  IdleHoldsNone' /\ \A q \in Playbooks : MarksOf(q)'
  <2> DEFINE pb == tick[t].at
  <2>1. pb \in Playbooks /\ Executes(pb, TRUE) /\ UNCHANGED <<stuck, runningPlaybooks>>
    <3>1. TickTypes
      BY <1>1, Parts
    <3>2. pb \in Playbooks
      BY <1>8, <3>1 DEF Advances, TickTypes, TickType
    <3>3. QED
      BY <1>8, <3>2 DEF Advances
  <2>2. \A o \in Playbooks : TickHolds(t, o) <=> o = pb
    BY <1>8 DEF Advances, TickHolds
  <2>3. /\ \A o \in Playbooks : ~TickHolds(t, o)'
        /\ \A u \in Ticks \ {t} : \A o \in Playbooks : TickHolds(u, o)' <=> TickHolds(u, o)
    <3>1. tick'[t].step = "looking" /\ \A u \in Ticks \ {t} : tick'[u] = tick[u]
      BY <1>1, <1>8 DEF Advances, Resumes, TypeOK
    <3>2. QED
      BY <3>1 DEF TickHolds
  <2> HIDE DEF pb
  <2>4. PICK r \in Runs : /\ \A o \in Playbooks : ~RunHolds(r, o)
                          /\ \A o \in Playbooks : RunHolds(r, o)' <=> o = pb
                          /\ \A q \in Runs \ {r} : \A o \in Playbooks : RunHolds(q, o)' <=> RunHolds(q, o)
    BY <1>1, <2>1, ExecutesHolds
  <2>5. IdleHoldsNone'
    BY <1>1, <2>1, ExecutesHolds
  <2>6. ASSUME NEW o \in Playbooks PROVE MarksOf(o)'
    <3>1. MarksOf(o)
      BY DEF MarksInv
    <3>2. CASE o = pb
      BY <2>1, <2>2, <2>3, <2>4, <3>1, <3>2 DEF MarksOf
    <3>3. CASE o # pb
      BY <2>1, <2>2, <2>3, <2>4, <3>1, <3>3 DEF MarksOf
    <3>4. QED
      BY <3>2, <3>3
  <2>7. QED
    BY <2>5, <2>6
<1>9. ASSUME NEW t \in Ticks, TickFails(t)
      PROVE  IdleHoldsNone' /\ \A q \in Playbooks : MarksOf(q)'
  <2>1. /\ UNCHANGED <<run, runningPlaybooks>>
        /\ tick'[t].step = "idle" /\ \A u \in Ticks \ {t} : tick'[u] = tick[u]
    BY <1>1, <1>9 DEF TickFails, IdleTick, TypeOK
  <2>2. IdleHoldsNone' /\ \A r \in Runs, o \in Playbooks : RunHolds(r, o)' <=> RunHolds(r, o)
    BY <1>1, <2>1 DEF IdleHoldsNone, RunHolds
  <2>3. /\ \A o \in Playbooks : ~TickHolds(t, o)'
        /\ \A u \in Ticks \ {t} : \A o \in Playbooks : TickHolds(u, o)' <=> TickHolds(u, o)
    BY <2>1 DEF TickHolds
  <2>4. \A o \in Playbooks : o \in stuck' <=> o \in stuck \/ TickHolds(t, o)
    BY <1>9 DEF TickFails, TickHolds
  <2>5. ASSUME NEW o \in Playbooks PROVE MarksOf(o)'
    <3>1. MarksOf(o)
      BY DEF MarksInv
    <3>2. QED
      BY <2>1, <2>2, <2>3, <2>4, <3>1 DEF MarksOf
  <2>6. QED
    BY <2>2, <2>5
<1>10. ASSUME NEW r \in Runs, Returns(r) \/ Rejects(r)
       PROVE  IdleHoldsNone' /\ \A q \in Playbooks : MarksOf(q)'
  <2>1. /\ UNCHANGED <<tick, stuck>> /\ run'[r] = IdleRun
        /\ \A q \in Runs \ {r} : run'[q] = run[q]
    BY <1>1, <1>10 DEF Returns, Rejects, RunKeeps, Closes, TypeOK
  <2>2. /\ IdleHoldsNone' /\ \A o \in Playbooks : ~RunHolds(r, o)'
        /\ \A q \in Runs \ {r} : \A o \in Playbooks : RunHolds(q, o)' <=> RunHolds(q, o)
    BY <1>1, <2>1 DEF IdleHoldsNone, RunHolds, IdleRun
  <2>3. \A u \in Ticks, o \in Playbooks : TickHolds(u, o)' <=> TickHolds(u, o)
    BY <2>1 DEF TickHolds
  <2>4. \A o \in Playbooks : o \in runningPlaybooks' <=> o \in runningPlaybooks /\ ~RunHolds(r, o)
    BY <1>10 DEF Returns, Rejects, Unmarks, RunHolds
  <2>5. ASSUME NEW o \in Playbooks PROVE MarksOf(o)'
    <3>1. MarksOf(o)
      BY DEF MarksInv
    <3>2. CASE RunHolds(r, o)
      BY <2>1, <2>2, <2>3, <2>4, <3>1, <3>2 DEF MarksOf
    <3>3. CASE ~RunHolds(r, o)
      BY <2>1, <2>2, <2>3, <2>4, <3>1, <3>3 DEF MarksOf
    <3>4. QED
      BY <3>2, <3>3
  <2>6. QED
    BY <2>2, <2>5
<1>11. ASSUME NEW r \in Runs, RunStep(r) \/ TaskSettles(r) \/ LoopFails(r) \/ Cancels(r),
              ~Returns(r), ~ReturnsNothing(r)
       PROVE  IdleHoldsNone' /\ \A q \in Playbooks : MarksOf(q)'
  <2>1. UNCHANGED <<tick, stuck, runningPlaybooks>>
    BY <1>11 DEF RunStep, TaskSettles, RunCreated, OrgResolved, Submitted, Linked, TimesOut,
         Recorded, Finalized, TaskDone, TaskFails, TaskCancelled, LoopFails, Cancels, RunKeeps
  <2>2. \A q \in Runs : /\ run'[q].pb = run[q].pb /\ run'[q].scheduled = run[q].scheduled
                        /\ run'[q].step = "idle" <=> run[q].step = "idle"
    <3>1. CASE RunCreated(r) \/ Submitted(r) \/ Linked(r) \/ Finalized(r)
      BY <1>1, <3>1 DEF RunCreated, Submitted, Linked, Finalized, Goes, TypeOK
    <3>2. CASE OrgResolved(r) \/ TimesOut(r) \/ Recorded(r) \/ LoopFails(r)
      <4>1. run[r].step # "idle" /\ (Loops(r) \/ \E end : Leaves(r, end))
        BY <3>2 DEF OrgResolved, TimesOut, Recorded, LoopFails
      <4>2. CASE Loops(r)
        BY <1>1, <4>1, <4>2 DEF Loops, TypeOK
      <4>3. CASE \E end : Leaves(r, end)
        <5>1. PICK end : Leaves(r, end)
          BY <4>3
        <5>2. /\ run'[r].step = "finalizing" /\ run'[r].pb = run[r].pb
              /\ run'[r].scheduled = run[r].scheduled
              /\ \A q \in Runs \ {r} : run'[q] = run[q]
          BY <1>1, <5>1 DEF Leaves, TypeOK
        <5>3. QED
          BY <4>1, <5>2
      <4>4. QED
        BY <4>1, <4>2, <4>3
    <3>3. CASE TaskDone(r) \/ TaskFails(r)
      <4>1. \A q \in Hearing(r) : run[q].step = "waiting"
        BY DEF Hearing
      <4>2. CASE TaskDone(r)
        BY <1>1, <4>1, <4>2 DEF TaskDone, TypeOK
      <4>3. CASE TaskFails(r)
        <5>1. ASSUME NEW q \in Runs
              PROVE  /\ run'[q].pb = run[q].pb /\ run'[q].scheduled = run[q].scheduled
                     /\ run'[q].step = "idle" <=> run[q].step = "idle"
          <6>1. run[q] \in RunType
            BY <1>1, Parts DEF RunnerTypes, RunKept
          <6>2. CASE q \in Hearing(r)
            BY <4>1, <4>3, <6>1, <6>2 DEF TaskFails, RunType
          <6>3. CASE q \notin Hearing(r)
            BY <4>3, <6>3 DEF TaskFails
          <6>4. QED
            BY <6>2, <6>3
        <5>2. QED
          BY <5>1
      <4>4. QED
        BY <3>3, <4>2, <4>3
    <3>4. CASE TaskCancelled(r) \/ Cancels(r)
      <4>1. activeRuns \subseteq {q \in Runs : run[q].step # "idle"}
        BY <1>1 DEF TypeOK, Looping
      <4>2. QED
        BY <1>1, <3>4, <4>1 DEF TaskCancelled, Cancels, TypeOK
    <3>5. QED
      BY <1>11, <3>1, <3>2, <3>3, <3>4 DEF RunStep, TaskSettles
  <2>3. QED
    BY <1>1, <1>2, <2>1, <2>2, RunsHoldOn
<1>12. ASSUME Pauses \/ Unpauses \/ UNCHANGED vars
       PROVE  IdleHoldsNone' /\ \A q \in Playbooks : MarksOf(q)'
  <2>1. UNCHANGED <<run, tick, stuck, runningPlaybooks>>
    BY <1>12 DEF Pauses, Unpauses, vars
  <2>2. QED
    BY <1>1, <1>2, <2>1, RunsHoldOn
<1>13. CASE \E r \in Runs : ReturnsNothing(r)
  BY <1>3, <1>13 DEF ReturnsNothing
<1>14. CASE Restarts
  BY <1>3, <1>14 DEF Restarts
<1>15. QED
  BY <1>4, <1>5, <1>6, <1>7, <1>8, <1>9, <1>10, <1>11, <1>12, <1>13, <1>14 DEF Next, TickStep, RunStep

LEMMA MarksFirst == Init => MarksInv
<1> SUFFICES ASSUME Init PROVE MarksInv
  OBVIOUS
<1>1. /\ \A r \in Runs : ~run[r].scheduled
      /\ \A t \in Ticks : tick[t].step = "idle"
      /\ stuck = {} /\ runningPlaybooks = {}
  BY DEF Init, IdleRun, IdleTick
<1>2. QED
  BY <1>1, TypesFirst DEF MarksInv, IdleHoldsNone, MarksOf, RunHolds, TickHolds

LEMMA MarksAlways == Spec => []MarksInv
  BY MarksFirst, MarksKept, PTL DEF Spec

\* However many ticks overlap and whatever rows they have read, the scheduler has at most
\* one run of a playbook.
THEOREM NeverOverlaps == Spec => []NoOverlap
<1>1. ASSUME MarksInv PROVE NoOverlap
  <2>1. ASSUME NEW pb \in Playbooks
        PROVE  /\ \A r \in Scheduled(pb) : r \in Runs /\ RunHolds(r, pb)
               /\ \A t \in Firing(pb) : t \in Ticks /\ TickHolds(t, pb)
    BY DEF Scheduled, Firing, RunHolds, TickHolds
  <2>2. QED
    BY <1>1, <2>1 DEF MarksInv, MarksOf, NoOverlap
<1>2. QED
  BY <1>1, MarksAlways, PTL

\* A playbook is marked exactly while the scheduler runs it, or a failed write left the mark.
THEOREM MarkedExactly == Spec => []MarkedWhileRun
<1>1. ASSUME MarksInv PROVE MarkedWhileRun
  <2>1. ASSUME NEW pb \in Playbooks
        PROVE  /\ (\E r \in Runs : RunHolds(r, pb)) <=> Scheduled(pb) # {}
               /\ (\E t \in Ticks : TickHolds(t, pb)) <=> Firing(pb) # {}
    BY <1>1 DEF MarksInv, IdleHoldsNone, RunHolds, TickHolds, Scheduled, Firing
  <2>2. QED
    BY <1>1, <2>1 DEF MarksInv, MarksOf, MarkedWhileRun
<1>2. QED
  BY <1>1, MarksAlways, PTL

-----------------------------------------------------------------------------
\* A run that has a result, or ends well, has it from its own task; before the first
\* chain none has been counted.
OwnOf(r) ==
    /\ run[r].step = "recording" \/ (run[r].step = "finalizing" /\ run[r].end = "completed")
         => task[r] = "done"
    /\ run[r].step \in {"creating", "resolving"} => run[r].chain = 0
OwnInv == TypeOK /\ \A r \in Runs : OwnOf(r)

\* At the head of the loop a run only ends well after its last chain.
LEMMA LoopsOwn ==
    ASSUME TypeOK, NEW r \in Runs, Loops(r), run[r].chain < MaxChains, task' = task,
           \A q \in Runs : OwnOf(q)
    PROVE  \A q \in Runs : OwnOf(q)'
<1>1. /\ \/ run'[r].step = "finalizing" /\ run'[r].end = "cancelled"
         \/ run'[r].step = "submitting"
      /\ \A q \in Runs \ {r} : run'[q] = run[q]
  <2>1. CASE run[r].cancelled \/ run[r].chain = MaxChains
    BY <2>1 DEF Loops, TypeOK
  <2>2. CASE ~(run[r].cancelled \/ run[r].chain = MaxChains)
    BY <2>2 DEF Loops, TypeOK
  <2>3. QED
    BY <2>1, <2>2
<1>2. QED
  BY <1>1 DEF OwnOf

\* A run that leaves the loop ends well only with a result.
LEMMA LeavesOwn ==
    ASSUME TypeOK, NEW r \in Runs, NEW end, Leaves(r, end), end = "completed" => task[r] = "done",
           task' = task, \A q \in Runs : OwnOf(q)
    PROVE  \A q \in Runs : OwnOf(q)'
<1>1. /\ run'[r].step = "finalizing" /\ run'[r].end = end
      /\ \A q \in Runs \ {r} : run'[q] = run[q]
  BY DEF Leaves, TypeOK
<1>2. QED
  BY <1>1 DEF OwnOf

\* No step gives a run another's result.
LEMMA OwnKept == ASSUME OwnInv, [Next]_vars PROVE OwnInv'
<1> USE DEF schedulerVars, runnerVars
<1>1. TypeOK /\ TypeOK' /\ \A r \in Runs : OwnOf(r)
  BY TypesKept DEF OwnInv
<1> SUFFICES \A r \in Runs : OwnOf(r)'
  BY <1>1 DEF OwnInv
<1>2. ASSUME UNCHANGED <<run, task>> PROVE \A r \in Runs : OwnOf(r)'
  BY <1>1, <1>2 DEF OwnOf
<1>3. ASSUME NEW pb, NEW scheduled, Executes(pb, scheduled) PROVE \A r \in Runs : OwnOf(r)'
  <2>1. PICK r \in Runs : /\ run'[r].step = "creating" /\ run'[r].chain = 0
                          /\ \A q \in Runs \ {r} : run'[q] = run[q] /\ task'[q] = task[q]
    BY <1>1, <1>3 DEF Executes, Free, IdleRun, TypeOK
  <2>2. QED
    BY <1>1, <2>1 DEF OwnOf
<1>4. ASSUME ServerRestarts PROVE \A r \in Runs : OwnOf(r)'
  <2>1. \A r \in Runs : run'[r].step = "idle"
    BY <1>4 DEF ServerRestarts, IdleRun
  <2>2. QED
    BY <2>1 DEF OwnOf
<1>5. ASSUME NEW t \in Ticks, TickStep(t) \/ TickFails(t) PROVE \A r \in Runs : OwnOf(r)'
  <2>1. UNCHANGED <<run, task>> \/ \E pb, scheduled : Executes(pb, scheduled)
    BY <1>5 DEF TickStep, Begins, Looks, Skips, SetsMissing, Fires, Sets, Advances, Ends, TickFails
  <2>2. QED
    BY <1>2, <1>3, <2>1
<1>6. ASSUME NEW r \in Runs, RunCreated(r) \/ Submitted(r) \/ Linked(r) \/ Finalized(r)
      PROVE  \A q \in Runs : OwnOf(q)'
  <2>1. /\ run'[r].chain = run[r].chain
        /\ \A q \in Runs \ {r} : run'[q] = run[q] /\ task'[q] = task[q]
        /\ \/ run[r].step = "creating" /\ run'[r].step = "resolving"
           \/ run'[r].step \in {"linking", "waiting", "closing"}
    BY <1>1, <1>6 DEF RunCreated, Submitted, Linked, Finalized, Goes, TypeOK
  <2>2. QED
    BY <1>1, <2>1 DEF OwnOf
<1>7. ASSUME NEW r \in Runs, OrgResolved(r) \/ TimesOut(r) \/ Recorded(r) \/ LoopFails(r)
      PROVE  \A q \in Runs : OwnOf(q)'
  <2>1. task' = task /\ 0 < MaxChains
    BY <1>7, PlaybooksAssumption DEF OrgResolved, TimesOut, Recorded, LoopFails
  <2>2. \/ Loops(r) /\ run[r].chain < MaxChains
        \/ Leaves(r, "failed")
        \/ Leaves(r, "completed") /\ task[r] = "done"
    BY <1>1, <1>7, <2>1 DEF OrgResolved, TimesOut, Recorded, LoopFails, OwnOf
  <2>3. QED
    BY <1>1, <2>1, <2>2, LoopsOwn, LeavesOwn
<1>8. ASSUME NEW r \in Runs, TaskSettles(r) PROVE \A q \in Runs : OwnOf(q)'
  <2>1. task[r] = "live" /\ \A q \in Runs \ {r} : task'[q] = task[q]
    BY ZenonT(40), <1>1, <1>8 DEF TaskSettles, TaskDone, TaskFails, TaskCancelled, TypeOK
  <2>2. run[r].step # "recording" /\ ~(run[r].step = "finalizing" /\ run[r].end = "completed")
    BY <1>1, <2>1 DEF OwnOf
  <2>3. \A q \in Runs \ {r} : q \notin Hearing(r)
    BY DEF Hearing, IsMine
  <2>4. /\ \A q \in Runs \ {r} : run'[q] = run[q]
        /\ \/ run'[r] = run[r]
           \/ run'[r].step = "recording" /\ task'[r] = "done"
           \/ run'[r].step = "finalizing" /\ run'[r].end = "failed"
    <3>1. CASE TaskDone(r)
      <4>1. task'[r] = "done" /\ run[r] \in RunType
        BY <1>1, <3>1, Parts DEF TaskDone, RunnerTypes, RunKept
      <4>2. run'[r] = run[r] \/ run'[r].step = "recording"
        BY <3>1, <4>1 DEF TaskDone, RunType
      <4>3. QED
        BY <2>3, <3>1, <4>1, <4>2 DEF TaskDone
    <3>2. CASE TaskFails(r)
      <4>1. run[r] \in RunType
        BY <1>1, Parts DEF RunnerTypes, RunKept
      <4>2. run'[r] = run[r] \/ (run'[r].step = "finalizing" /\ run'[r].end = "failed")
        BY <3>2, <4>1 DEF TaskFails, RunType
      <4>3. QED
        BY <2>3, <3>2, <4>2 DEF TaskFails
    <3>3. CASE TaskCancelled(r)
      BY <3>3 DEF TaskCancelled
    <3>4. QED
      BY <1>8, <3>1, <3>2, <3>3 DEF TaskSettles
  <2>5. QED
    BY <1>1, <2>1, <2>2, <2>4 DEF OwnOf
<1>9. ASSUME NEW r \in Runs, Returns(r) \/ Rejects(r) PROVE \A q \in Runs : OwnOf(q)'
  <2>1. /\ run'[r].step = "idle"
        /\ \A q \in Runs \ {r} : run'[q] = run[q] /\ task'[q] = task[q]
    BY <1>1, <1>9 DEF Returns, Rejects, Closes, IdleRun, TypeOK
  <2>2. QED
    BY <1>1, <2>1 DEF OwnOf
<1>10. ASSUME NEW r \in Runs, Cancels(r) PROVE \A q \in Runs : OwnOf(q)'
  <2>1. /\ task' = task
        /\ \A q \in Runs : /\ run'[q].step = run[q].step /\ run'[q].end = run[q].end
                           /\ run'[q].chain = run[q].chain
    BY <1>1, <1>10 DEF Cancels, TypeOK
  <2>2. QED
    BY <1>1, <2>1 DEF OwnOf
<1>11. ASSUME NEW pb \in Playbooks, TimePasses(pb) \/ Changes(pb) \/ Deletes(pb) \/ RecomputeNextRun(pb)
       PROVE  UNCHANGED <<run, task>>
  BY <1>11 DEF TimePasses, Changes, Deletes, RecomputeNextRun
<1>12. ASSUME Pauses \/ Unpauses \/ UNCHANGED vars PROVE UNCHANGED <<run, task>>
  BY <1>12 DEF Pauses, Unpauses, vars
<1>13. QED
  BY <1>2, <1>3, <1>4, <1>5, <1>6, <1>7, <1>8, <1>9, <1>10, <1>11, <1>12
     DEF Next, RunStep, StartsByHand, ReturnsNothing, Restarts

\* Whoever else is told of a task, only the run that submitted it goes on with its result.
THEOREM ResultsAreOwn == Spec => []OwnResult
<1>1. Init => OwnInv
  <2>1. ASSUME Init PROVE \A r \in Runs : run[r].step = "idle"
    BY <2>1 DEF Init, IdleRun
  <2>2. QED
    BY <2>1, TypesFirst DEF OwnInv, OwnOf
<1>2. OwnInv => OwnResult
  BY DEF OwnInv, OwnOf, OwnResult
<1>3. QED
  BY <1>1, <1>2, OwnKept, PTL DEF Spec

================================================================================
