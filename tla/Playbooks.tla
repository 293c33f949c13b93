------------------------------- MODULE Playbooks -------------------------------
(***************************************************************************)
(* Playbooks: the scheduler that looks for due ones every minute, and the  *)
(* chain runner that carries a run through its tasks in the background.    *)
(*                                                                         *)
(* A time is only none, later or due.  What a tick has read is a copy of   *)
(* the rows.  Every await of a tick and of a run is a step of its own; a   *)
(* task is what the runner sees of it: it settles in one of three ways and *)
(* says so once, to whoever is listening.                                  *)
(***************************************************************************)
EXTENDS Naturals

CONSTANTS Playbooks,
          Ticks,           \* ticks that may be suspended at once
          Runs,            \* runs of playbooks that may be alive at once
          NoPlaybook,
          MaxChains,       \* chain_config.max_chains
          MaxOutside       \* bound: what comes from outside, users and failures together

ASSUME PlaybooksAssumption ==
    /\ NoPlaybook \notin Playbooks
    /\ MaxChains \in Nat \ {0} /\ MaxOutside \in Nat

VARIABLES
    row,        \* the playbooks table
    recompute,  \* playbooks whose next_run_at is yet to be recomputed
    runningPlaybooks, paused,
    tick,       \* ticks: the rows read, without those done with
    run,        \* executions of ChainRunner.execute
    activeRuns,
    task,       \* of each run the task of its current chain
    status,     \* of each run its row
    stuck,      \* history: playbooks left marked by a failed write
    outside     \* how often users or failures have interfered

schedulerVars == <<runningPlaybooks, paused, tick>>
runnerVars == <<run, activeRuns, task, status>>
vars == <<row, recompute, schedulerVars, runnerVars, stuck, outside>>

\* Webhook playbooks are scheduled, or not, as manual ones are.
Triggers == {"cron", "interval", "manual"}
Times == {"none", "later", "due"}
\* schedule: whether the cron expression parses.
Row == [exists : BOOLEAN, enabled : BOOLEAN, trigger : Triggers, schedule : BOOLEAN, next : Times]
\* What a tick may have read: some of the rows, as they were.
Rows == UNION {[S -> Row] : S \in SUBSET Playbooks}

IdleTick == [step |-> "idle", rows |-> <<>>, at |-> NoPlaybook, then |-> "none"]
IdleRun == [step |-> "idle", pb |-> NoPlaybook, scheduled |-> FALSE, chain |-> 0,
            cancelled |-> FALSE, end |-> "completed"]
Looping == {"submitting", "linking", "waiting", "recording"}

TypeOK ==
    /\ row \in [Playbooks -> Row]
    /\ recompute \subseteq Playbooks
    /\ runningPlaybooks \subseteq Playbooks /\ paused \in BOOLEAN
    /\ tick \in [Ticks -> [step : {"idle", "looking", "setting", "advancing"}, rows : Rows,
                           at : Playbooks \cup {NoPlaybook}, then : Times]]
    /\ \A t \in Ticks : tick[t].step \in {"setting", "advancing"} => tick[t].at # NoPlaybook
    /\ run \in [Runs -> [step : {"idle", "creating", "resolving", "finalizing", "closing"} \cup Looping,
                         pb : Playbooks \cup {NoPlaybook}, scheduled : BOOLEAN, chain : 0..MaxChains,
                         cancelled : BOOLEAN, end : {"completed", "failed", "cancelled"}]]
    /\ \A r \in Runs : run[r].step # "idle" => run[r].pb # NoPlaybook
    /\ activeRuns = {r \in Runs : run[r].step \in Looping}
    /\ task \in [Runs -> {"none", "live", "done", "failed", "cancelled"}]
    /\ status \in [Runs -> {"none", "running", "completed", "failed", "cancelled", "lost"}]
    /\ stuck \subseteq Playbooks
    /\ outside \in 0..MaxOutside

\* The server starts with playbooks that were made meanwhile, over the API or by an
\* agent, whose schedules nobody looks at.
Init ==
    /\ row \in [Playbooks -> {p \in Row : p.exists /\ p.enabled /\ p.next = "none"}]
    /\ recompute = Playbooks
    /\ runningPlaybooks = {} /\ paused = FALSE
    /\ tick = [t \in Ticks |-> IdleTick]
    /\ run = [r \in Runs |-> IdleRun] /\ activeRuns = {}
    /\ task = [r \in Runs |-> "none"] /\ status = [r \in Runs |-> "none"]
    /\ stuck = {} /\ outside = 0

Outside == outside < MaxOutside /\ outside' = outside + 1

-----------------------------------------------------------------------------
(* The rows, and recomputeNextRun after a change.                            *)

Listed == {pb \in Playbooks : row[pb].exists /\ row[pb].enabled}
SetNextRunAt(pb, next) == row' = [row EXCEPT ![pb].next = next]
NextCronRun(p) == IF p.schedule THEN "later" ELSE "none"
\* An interval counts from the last run, which may be longer ago than it is long.
NextRuns(p) ==
    IF ~p.exists \/ ~p.enabled THEN {"none"}
    ELSE CASE p.trigger = "cron" -> {NextCronRun(p)}
           [] p.trigger = "interval" -> {"later", "due"}
           [] p.trigger = "manual" -> {"none"}

TimePasses(pb) ==
    /\ row[pb].next = "later"
    /\ SetNextRunAt(pb, "due")
    /\ UNCHANGED <<recompute, schedulerVars, runnerVars, stuck, outside>>

\* The API recomputes after a change; the platform tools, which change neither
\* trigger nor existence, do not.
Changes(pb) ==
    /\ row[pb].exists /\ Outside
    /\ \E p \in Row :
         /\ p.exists /\ p.next = row[pb].next /\ p # row[pb]
         /\ row' = [row EXCEPT ![pb] = p]
         /\ \/ recompute' = recompute \cup {pb}
            \/ p.trigger = row[pb].trigger /\ recompute' = recompute
    /\ UNCHANGED <<schedulerVars, runnerVars, stuck>>

\* The rows of its runs go with it.
Deletes(pb) ==
    /\ row[pb].exists /\ Outside
    /\ row' = [row EXCEPT ![pb].exists = FALSE]
    /\ status' = [r \in Runs |-> IF run[r].pb = pb THEN "none" ELSE status[r]]
    /\ UNCHANGED <<recompute, schedulerVars, run, activeRuns, task, stuck>>

RecomputeNextRun(pb) ==
    /\ pb \in recompute
    /\ recompute' = recompute \ {pb}
    /\ \E next \in NextRuns(row[pb]) : SetNextRunAt(pb, next)
    /\ UNCHANGED <<schedulerVars, runnerVars, stuck, outside>>

-----------------------------------------------------------------------------
(* PlaybookScheduler.tick.                                                   *)

TickKeeps == UNCHANGED <<recompute, paused>>
Free == {r \in Runs : run[r].step = "idle"}

\* ChainRunner.execute, up to its first await.
Executes(pb, scheduled) ==
    \E r \in Free :
      /\ run' = [run EXCEPT ![r] = [IdleRun EXCEPT !.step = "creating", !.pb = pb,
                                                   !.scheduled = scheduled]]
      /\ task' = [task EXCEPT ![r] = "none"]
      /\ status' = [status EXCEPT ![r] = "none"]
      /\ UNCHANGED activeRuns

Begins(t) ==
    /\ ~paused /\ tick[t].step = "idle"
    /\ tick' = [tick EXCEPT ![t].step = "looking", ![t].rows = [pb \in Listed |-> row[pb]]]
    /\ UNCHANGED <<row, recompute, runningPlaybooks, paused, runnerVars, stuck, outside>>

Left(t, pb) == [q \in DOMAIN tick[t].rows \ {pb} |-> tick[t].rows[q]]
Moves(t, pb, step, then) ==
    tick' = [tick EXCEPT ![t] = [step |-> step, rows |-> Left(t, pb), then |-> then,
                                 at |-> IF step = "looking" THEN NoPlaybook ELSE pb]]

\* Mutant: the comparison of the due time with now is the wrong way round.
IsYetToCome(p) == p.next = "later"

IsDue(p) == p.next = "due"

\* Mutant: the scheduler does not look whether the playbook is running.
NeverMarked(pb) == FALSE

Marked(pb) == pb \in runningPlaybooks

Skips(t, pb) ==
    /\ LET p == tick[t].rows[pb] IN
         Marked(pb) \/ IF p.next = "none" THEN ~p.schedule ELSE ~IsDue(p)
    /\ Moves(t, pb, "looking", "none")
    /\ UNCHANGED <<row, runningPlaybooks, runnerVars, stuck, outside>>

\* Whatever its trigger, a playbook without a next run is given the next of its schedule.
SetsMissing(t, pb) ==
    /\ ~Marked(pb)
    /\ tick[t].rows[pb].next = "none" /\ tick[t].rows[pb].schedule
    /\ Moves(t, pb, "setting", "later")
    /\ UNCHANGED <<row, runningPlaybooks, runnerVars, stuck, outside>>

Fires(t, pb) ==
    /\ ~Marked(pb)
    /\ tick[t].rows[pb].next # "none" /\ IsDue(tick[t].rows[pb])
    /\ runningPlaybooks' = runningPlaybooks \cup {pb}
    /\ LET p == tick[t].rows[pb] IN
       \/ /\ p.trigger = "cron" /\ Moves(t, pb, "advancing", NextCronRun(p))
          /\ UNCHANGED runnerVars
       \/ /\ p.trigger = "interval" /\ Moves(t, pb, "advancing", "later")
          /\ UNCHANGED runnerVars
       \/ /\ p.trigger = "manual" /\ Moves(t, pb, "looking", "none")
          /\ Executes(pb, TRUE)
    /\ UNCHANGED <<row, stuck, outside>>

Looks(t) ==
    /\ tick[t].step = "looking"
    /\ \E pb \in DOMAIN tick[t].rows : Skips(t, pb) \/ SetsMissing(t, pb) \/ Fires(t, pb)
    /\ TickKeeps

Resumes(t) == tick' = [tick EXCEPT ![t].step = "looking", ![t].at = NoPlaybook, ![t].then = "none"]
Sets(t) ==
    /\ tick[t].step = "setting"
    /\ SetNextRunAt(tick[t].at, tick[t].then) /\ Resumes(t)
    /\ UNCHANGED <<runningPlaybooks, runnerVars, stuck, outside>> /\ TickKeeps

\* The next time is written; then the run begins in the background.
Advances(t) ==
    /\ tick[t].step = "advancing"
    /\ SetNextRunAt(tick[t].at, tick[t].then) /\ Resumes(t)
    /\ Executes(tick[t].at, TRUE)
    /\ UNCHANGED <<runningPlaybooks, stuck, outside>> /\ TickKeeps

\* The tick rejects, and what it has marked stays marked.
TickFails(t) ==
    /\ tick[t].step \in {"setting", "advancing"} /\ Outside
    /\ stuck' = IF tick[t].step = "advancing" THEN stuck \cup {tick[t].at} ELSE stuck
    /\ tick' = [tick EXCEPT ![t] = IdleTick]
    /\ UNCHANGED <<row, runningPlaybooks, runnerVars>> /\ TickKeeps

Ends(t) ==
    /\ tick[t].step = "looking" /\ DOMAIN tick[t].rows = {}
    /\ tick' = [tick EXCEPT ![t] = IdleTick]
    /\ UNCHANGED <<row, runningPlaybooks, runnerVars, stuck, outside>> /\ TickKeeps

Pauses ==
    /\ ~paused /\ Outside
    /\ paused' = TRUE
    /\ UNCHANGED <<row, recompute, runningPlaybooks, tick, runnerVars, stuck>>

Unpauses ==
    /\ paused
    /\ paused' = FALSE
    /\ UNCHANGED <<row, recompute, runningPlaybooks, tick, runnerVars, stuck, outside>>

-----------------------------------------------------------------------------
(* ChainRunner.execute.                                                      *)

RunKeeps == UNCHANGED <<row, recompute, paused, tick, stuck>>
Goes(r, step) == run' = [run EXCEPT ![r].step = step]

\* Mutant: the end of a run does not take the mark away.
KeepsMark(r) == UNCHANGED runningPlaybooks

\* The callbacks of the tick that began the run.
Unmarks(r) ==
    runningPlaybooks' = IF run[r].scheduled THEN runningPlaybooks \ {run[r].pb} ELSE runningPlaybooks

\* A route, a webhook or an agent starts a run, whatever the scheduler does.
StartsByHand(pb) ==
    /\ row[pb].exists /\ Outside
    /\ Executes(pb, FALSE)
    /\ UNCHANGED <<row, recompute, schedulerVars, stuck>>

RunCreated(r) ==
    /\ run[r].step = "creating"
    /\ status' = [status EXCEPT ![r] = "running"]
    /\ Goes(r, "resolving")
    /\ UNCHANGED <<runningPlaybooks, activeRuns, task, outside>> /\ RunKeeps

\* The head of the loop; out of it, the run is no longer active.
Loops(r) ==
    IF run[r].cancelled \/ run[r].chain = MaxChains
    THEN /\ run' = [run EXCEPT ![r].step = "finalizing", ![r].cancelled = FALSE,
                               ![r].end = IF run[r].chain < MaxChains THEN "cancelled" ELSE "completed"]
         /\ activeRuns' = activeRuns \ {r}
    ELSE /\ run' = [run EXCEPT ![r].step = "submitting", ![r].chain = @ + 1]
         /\ activeRuns' = activeRuns \cup {r}

\* Mutant: the finally block is missing.
LeavesActive(r, end) ==
    /\ run' = [run EXCEPT ![r].step = "finalizing", ![r].cancelled = FALSE, ![r].end = end]
    /\ UNCHANGED activeRuns

Leaves(r, end) ==
    /\ run' = [run EXCEPT ![r].step = "finalizing", ![r].cancelled = FALSE, ![r].end = end]
    /\ activeRuns' = activeRuns \ {r}

OrgResolved(r) ==
    /\ run[r].step = "resolving"
    /\ Loops(r)
    /\ UNCHANGED <<runningPlaybooks, task, status, outside>> /\ RunKeeps

Submitted(r) ==
    /\ run[r].step = "submitting"
    /\ task' = [task EXCEPT ![r] = "live"]
    /\ Goes(r, "linking")
    /\ UNCHANGED <<runningPlaybooks, activeRuns, status, outside>> /\ RunKeeps

\* Only now are the events of the task listened to.
Linked(r) ==
    /\ run[r].step = "linking"
    /\ Goes(r, "waiting")
    /\ UNCHANGED <<runningPlaybooks, activeRuns, task, status, outside>> /\ RunKeeps

\* Mutant: the listener does not compare the task's id.
IsAnyones(r, of) == TRUE

\* Every run that waits is told of every task.
IsMine(r, of) == r = of

Hearing(of) == {r \in Runs : run[r].step = "waiting" /\ IsMine(r, of)}

TaskDone(r) ==
    /\ task[r] = "live"
    /\ task' = [task EXCEPT ![r] = "done"]
    /\ run' = [q \in Runs |-> IF q \in Hearing(r) THEN [run[q] EXCEPT !.step = "recording"] ELSE run[q]]
    /\ UNCHANGED <<runningPlaybooks, activeRuns, status, outside>> /\ RunKeeps

TaskFails(r) ==
    /\ task[r] = "live"
    /\ task' = [task EXCEPT ![r] = "failed"]
    /\ run' = [q \in Runs |-> IF q \in Hearing(r)
                              THEN [run[q] EXCEPT !.step = "finalizing", !.cancelled = FALSE, !.end = "failed"]
                              ELSE run[q]]
    /\ activeRuns' = activeRuns \ Hearing(r)
    /\ UNCHANGED <<runningPlaybooks, status, outside>> /\ RunKeeps

\* task:cancelled is listened to by nobody here.
TaskCancelled(r) ==
    /\ task[r] = "live"
    /\ task' = [task EXCEPT ![r] = "cancelled"]
    /\ UNCHANGED <<runningPlaybooks, run, activeRuns, status, outside>> /\ RunKeeps

\* Mutant: the timer is only kept while the task lives.
TimesOutLive(r) ==
    /\ run[r].step = "waiting" /\ task[r] = "live"
    /\ Leaves(r, "failed")
    /\ UNCHANGED <<runningPlaybooks, task, status, outside>> /\ RunKeeps

TimesOut(r) ==
    /\ run[r].step = "waiting"
    /\ Leaves(r, "failed")
    /\ UNCHANGED <<runningPlaybooks, task, status, outside>> /\ RunKeeps

\* Progress is written; then the agent's signal, the budget, the number of chains or a
\* chain that ended by itself end the run, or else, after a delay, the loop goes on.
Recorded(r) ==
    /\ run[r].step = "recording"
    /\ \/ Leaves(r, "completed")
       \/ run[r].chain < MaxChains /\ Loops(r)
    /\ UNCHANGED <<runningPlaybooks, task, status, outside>> /\ RunKeeps

\* A failure inside the loop ends it.
LoopFails(r) ==
    /\ run[r].step \in {"submitting", "linking", "recording"} /\ Outside
    /\ Leaves(r, "failed")
    /\ UNCHANGED <<runningPlaybooks, task, status>> /\ RunKeeps

Exists(r) == status[r] # "none"
Finalized(r) ==
    /\ run[r].step = "finalizing"
    /\ status' = IF Exists(r) THEN [status EXCEPT ![r] = run[r].end] ELSE status
    /\ Goes(r, "closing")
    /\ UNCHANGED <<runningPlaybooks, activeRuns, task, outside>> /\ RunKeeps

\* The time of the run is written, its row read again and returned.  Nobody waits for
\* its task or its row any more.
Closes(r) == run' = [run EXCEPT ![r] = IdleRun] /\ task' = [task EXCEPT ![r] = "none"]

Returns(r) ==
    /\ run[r].step = "closing"
    /\ Exists(r) \/ ~run[r].scheduled
    /\ Closes(r)
    /\ status' = [status EXCEPT ![r] = "none"]
    /\ Unmarks(r)
    /\ UNCHANGED <<activeRuns, outside>> /\ RunKeeps

\* A failure outside the loop rejects, and a row that says running says so for good.
Lost(r) == IF status[r] = "running" THEN "lost" ELSE "none"
Rejects(r) ==
    /\ run[r].step \in {"creating", "resolving", "finalizing", "closing"} /\ Outside
    /\ Closes(r)
    /\ status' = [status EXCEPT ![r] = Lost(r)]
    /\ Unmarks(r)
    /\ UNCHANGED activeRuns /\ RunKeeps

Cancels(r) ==
    /\ r \in activeRuns /\ ~run[r].cancelled /\ Outside
    /\ run' = [run EXCEPT ![r].cancelled = TRUE]
    /\ UNCHANGED <<row, recompute, schedulerVars, activeRuns, task, status, stuck>>

-----------------------------------------------------------------------------
(* The end of the server, and its start.                                     *)

\* Memory is gone, tasks are failed, rows stay; playbooks without a next run are
\* recomputed.
ServerRestarts ==
    /\ recompute' = {pb \in Listed : row[pb].next = "none"}
    /\ runningPlaybooks' = {} /\ paused' = FALSE
    /\ tick' = [t \in Ticks |-> IdleTick]
    /\ run' = [r \in Runs |-> IdleRun] /\ activeRuns' = {}
    /\ task' = [r \in Runs |-> "none"]
    /\ status' = [r \in Runs |-> Lost(r)]
    /\ stuck' = {}
    /\ UNCHANGED row

Restarts == Outside /\ ServerRestarts

\* The run of a playbook that was deleted has no row to return, and the tick's callback
\* throws where nothing catches it.
ReturnsNothing(r) ==
    /\ run[r].step = "closing" /\ run[r].scheduled /\ ~Exists(r)
    /\ ServerRestarts
    /\ UNCHANGED outside

-----------------------------------------------------------------------------
TickStep(t) ==
    \/ Begins(t) \/ Looks(t) \/ Sets(t) \/ Advances(t) \/ Ends(t)
RunStep(r) ==
    \/ RunCreated(r) \/ OrgResolved(r) \/ Submitted(r) \/ Linked(r) \/ TimesOut(r)
    \/ Recorded(r) \/ Finalized(r) \/ Returns(r) \/ ReturnsNothing(r)
TaskSettles(r) == TaskDone(r) \/ TaskFails(r) \/ TaskCancelled(r)

Next ==
    \/ \E pb \in Playbooks : TimePasses(pb) \/ Changes(pb) \/ Deletes(pb) \/ RecomputeNextRun(pb)
                            \/ StartsByHand(pb)
    \/ \E t \in Ticks : TickStep(t) \/ TickFails(t)
    \/ Pauses \/ Unpauses
    \/ \E r \in Runs : RunStep(r) \/ TaskSettles(r) \/ LoopFails(r) \/ Rejects(r) \/ Cancels(r)
    \/ Restarts

Spec == Init /\ [][Next]_vars

\* The interval ticks and what is awaited is answered, a task by its timeout at the
\* latest.  No task need settle.
FairSpec ==
    /\ Spec
    /\ \A t \in Ticks : WF_vars(TickStep(t))
    /\ \A r \in Runs : WF_vars(RunStep(r))

-----------------------------------------------------------------------------
(* Properties.                                                               *)

Scheduled(pb) == {r \in Runs : run[r].step # "idle" /\ run[r].scheduled /\ run[r].pb = pb}
Firing(pb) == {t \in Ticks : tick[t].step = "advancing" /\ tick[t].at = pb}

\* However ticks overlap and whatever copies of the rows they hold, the scheduler has at
\* most one run of a playbook, under way or about to begin.
NoOverlap ==
    \A pb \in Playbooks :
      /\ \A r, q \in Scheduled(pb) : r = q
      /\ \A t, u \in Firing(pb) : t = u
      /\ Scheduled(pb) = {} \/ Firing(pb) = {}

\* A playbook is marked exactly while the scheduler runs it; the mark is left behind
\* only by a failure between the mark and the run.
MarkedWhileRun ==
    \A pb \in Playbooks :
      pb \in runningPlaybooks <=> pb \in stuck \/ Scheduled(pb) # {} \/ Firing(pb) # {}

\* A run goes on only with the result of its own task, however many runs are told of it.
OwnResult ==
    \A r \in Runs : run[r].step = "recording"
                    \/ (run[r].step = "finalizing" /\ run[r].end = "completed") => task[r] = "done"

\* A row says running only until the run is over, unless a restart or a failing write
\* outside the loop took away the last word; then it says so for good.
RunsSettle ==
    \A r \in Runs : status[r] = "running" ~> status[r] # "running"

\* The scheduler does not run playbooks that are started by hand or by a webhook.
ManualNotScheduled ==
    \A r \in Runs : run[r].scheduled => row[run[r].pb].trigger # "manual"

\* A playbook that is due on cron or an interval is fired, as long as the scheduler is not
\* paused and no failed write has left the playbook marked.
DueIsFired ==
    \A pb \in Playbooks :
      pb \in Listed /\ row[pb].next = "due" /\ row[pb].trigger # "manual"
      ~> \/ pb \notin Listed \/ row[pb].next # "due" \/ row[pb].trigger = "manual"
         \/ paused \/ pb \in stuck

================================================================================
