---------------------------- MODULE TaskDispatch ----------------------------
(***************************************************************************)
(* One task's way through the orchestrator: submission, the priority       *)
(* queue, the processing loop with its per-profile concurrency limiter,    *)
(* dispatch, the agent's execution, the watchdog, retries, the two ways to *)
(* cancel, and the status row in the database                              *)
(* (services/task-service.ts, orchestrator/orchestrator.ts,                *)
(* orchestrator/agent-comms.ts, orchestrator/retry.ts,                     *)
(* rate-limit/concurrency-limiter.ts).                                     *)
(*                                                                         *)
(* The server is one Node process: a step is what runs between two real    *)
(* suspensions (a database write, a Docker call, a timer).                 *)
(***************************************************************************)
EXTENDS TaskQueueOps

CONSTANTS Profiles, ProfileOf,   \* the limiter's keys, [Tasks -> Profiles]
          Limit,                 \* concurrent tasks per profile
          MaxAttempts,           \* retry.max_attempts
          Cancellers,            \* cancel requests; each makes one call
          SetupFitsTimeout,      \* is a task's timeout longer than its set-up?
          MaxErrors,           \* bound: failing writes of a status row
          MaxRestarts            \* bound: server restarts

ASSUME ProfileAssumption == ProfileOf \in [Tasks -> Profiles]
ASSUME LimitAssumption == Limit \in Nat \ {0}
ASSUME AttemptsAssumption == MaxAttempts \in Nat \ {0}
ASSUME BoundsAssumption == /\ MaxErrors \in Nat
                           /\ MaxRestarts \in Nat
                           /\ SetupFitsTimeout \in BOOLEAN

VARIABLES
    queue,      \* InMemoryTaskQueue.queue
    loop,       \* processLoop: idle, scheduled (setImmediate), draining, backoff
    slots,      \* ConcurrencyLimiter.activeCounts
    status,     \* the status column of the task's row
    attempt,    \* task.attempt
    pc,         \* where the task's own call chain is suspended
    failed,     \* an exception is unwinding through dispatchBatch's finally
    active,     \* keys of Orchestrator.activeTasks
    watchdog,   \* activeTimers: off, armed, fired
    hung,       \* the agent process will not end by itself
    killed,     \* an abort has reached the agent process
    retryWait,  \* tasks in the setTimeout of a retry
    request,    \* each canceller's call: its step and its task
    errors, restarts,
    extra,      \* history: slots given back by cancels of running tasks
    leaked,     \* history: slots whose dispatch died before its try block
    cancelled,  \* history: dispatches a cancel took out of activeTasks
    stranded,   \* history: tasks whose row is live and which memory forgot
    terminals   \* history: task:done and task:failed events of each task

dispatchVars == <<pc, failed, active, watchdog, hung, killed>>
historyVars  == <<extra, leaked, cancelled, stranded, terminals>>
boundVars    == <<errors, restarts>>
vars == <<queue, loop, slots, status, attempt, dispatchVars, retryWait, request,
          boundVars, historyVars>>

Phases == {"starting",    \* dispatchTask awaits the "running" write
           "preparing",   \* the container is being claimed or created
           "setup",       \* registered in activeTasks, set-up commands run
           "exec",        \* the agent's output is being read
           "reviving",    \* the container had stopped and is revived
           "rerun",       \* the agent's second and last exec
           "saving",      \* completeTask awaits the "done" write
           "cleanup",     \* finally: container removal or pool release
           "failing"}     \* handleFailure awaits its write
Live    == {"queued", "running"}
Settled == {"done", "failed", "cancelled"}
NoRequest == [step |-> "idle", task |-> "none"]

Running == {"exec", "rerun"}
InFlight(p) == {t \in Tasks : ProfileOf[t] = p /\ pc[t] \in Phases}
HasSession(t) == SessionOf[t] # NoSession

TypeOK ==
    /\ queue \in Seq(Tasks)
    /\ loop \in {"idle", "scheduled", "draining", "backoff"}
    /\ slots \in [Profiles -> Nat]
    /\ status \in [Tasks -> {"none", "queued", "running"} \cup Settled]
    /\ attempt \in [Tasks -> 1..MaxAttempts]
    /\ pc \in [Tasks -> {"new", "inserted", "out"} \cup Phases]
    /\ failed \in [Tasks -> BOOLEAN]
    /\ active \subseteq Tasks
    /\ watchdog \in [Tasks -> {"off", "armed", "fired"}]
    /\ hung \in [Tasks -> BOOLEAN]
    /\ killed \in [Tasks -> BOOLEAN]
    /\ retryWait \subseteq Tasks
    /\ request \in [Cancellers ->
                      [step : {"dequeued", "aborting", "writing", "refused", "answered"},
                       task : Tasks] \cup {NoRequest}]
    /\ errors \in 0..MaxErrors /\ restarts \in 0..MaxRestarts
    /\ extra \in [Profiles -> Nat] /\ leaked \in [Profiles -> Nat]
    /\ cancelled \subseteq Tasks /\ stranded \subseteq Tasks
    /\ terminals \in [Tasks -> Nat]

Init ==
    /\ queue = <<>> /\ loop = "idle"
    /\ slots = [p \in Profiles |-> 0]
    /\ status = [t \in Tasks |-> "none"]
    /\ attempt = [t \in Tasks |-> 1]
    /\ pc = [t \in Tasks |-> "new"]
    /\ failed = [t \in Tasks |-> FALSE]
    /\ active = {}
    /\ watchdog = [t \in Tasks |-> "off"]
    /\ hung = [t \in Tasks |-> FALSE] /\ killed = [t \in Tasks |-> FALSE]
    /\ retryWait = {}
    /\ request = [c \in Cancellers |-> NoRequest]
    /\ errors = 0 /\ restarts = 0
    /\ extra = [p \in Profiles |-> 0] /\ leaked = [p \in Profiles |-> 0]
    /\ cancelled = {} /\ stranded = {}
    /\ terminals = [t \in Tasks |-> 0]
-----------------------------------------------------------------------------
(* The limiter and the queue's ready handler.                              *)

\* Mutant: a slot may be taken when the count has reached the limit.
AcquirableAtLimit(p) == slots[p] <= Limit
Acquirable(p) == slots[p] < Limit

\* Mutant: release forgets its floor of zero.
ReleasedSlotsNoFloor(p) == [slots EXCEPT ![p] = @ - 1]
\* release() floors the count at zero.
ReleasedSlots(p) == [slots EXCEPT ![p] = IF @ > 0 THEN @ - 1 ELSE 0]

\* scheduleProcessing does nothing while the loop is scheduled or running.
Notified == IF loop = "idle" THEN "scheduled" ELSE loop

\* The loop's own turns through its queue contain no suspension.
Interruptible == loop # "draining"

(* Submission and the processing loop.                                     *)

\* The loop takes its next task: at first, after a dispatch, after the sleep.
LoopTurn == loop # "idle"

Submit(t) ==
    /\ Interruptible /\ pc[t] = "new"
    /\ pc' = [pc EXCEPT ![t] = "inserted"]
    /\ status' = [status EXCEPT ![t] = "queued"]
    /\ UNCHANGED <<queue, loop, slots, attempt, failed, active, watchdog, hung, killed,
                   retryWait, request, boundVars, historyVars>>

EnqueueNew(t) ==
    /\ Interruptible /\ pc[t] = "inserted"
    /\ pc' = [pc EXCEPT ![t] = "out"]
    /\ queue' = Enqueued(queue, t) /\ loop' = Notified
    /\ UNCHANGED <<slots, status, attempt, failed, active, watchdog, hung, killed,
                   retryWait, request, boundVars, historyVars>>

LoopDispatch ==
    /\ LoopTurn /\ queue # <<>>
    /\ LET t == Head(queue) IN
         /\ Acquirable(ProfileOf[t])
         /\ slots' = [slots EXCEPT ![ProfileOf[t]] = @ + 1]
         /\ pc' = [pc EXCEPT ![t] = "starting"]
    /\ queue' = Tail(queue) /\ loop' = "draining"
    /\ UNCHANGED <<status, attempt, failed, active, watchdog, hung, killed, retryWait,
                   request, boundVars, historyVars>>

\* The head's profile is full: back into the queue, and sleep half a second.
LoopBackOff ==
    /\ LoopTurn /\ queue # <<>>
    /\ ~Acquirable(ProfileOf[Head(queue)])
    /\ queue' = Enqueued(Tail(queue), Head(queue)) /\ loop' = "backoff"
    /\ UNCHANGED <<slots, status, attempt, dispatchVars, retryWait, request, boundVars,
                   historyVars>>

LoopEnds ==
    /\ LoopTurn /\ queue = <<>>
    /\ loop' = "idle"
    /\ UNCHANGED <<queue, slots, status, attempt, dispatchVars, retryWait, request,
                   boundVars, historyVars>>
-----------------------------------------------------------------------------
(* One dispatch.                                                           *)

\* Mutant: the finally does not release the slot.
FinishKeepsSlot(t) ==
    /\ pc' = [pc EXCEPT ![t] = "out"]
    /\ watchdog' = [watchdog EXCEPT ![t] = "off"]
    /\ active' = active \ {t}
    /\ UNCHANGED slots

\* Mutant: the finally does not clear the task's timer.
FinishKeepsTimer(t) ==
    /\ pc' = [pc EXCEPT ![t] = "out"]
    /\ slots' = ReleasedSlots(ProfileOf[t])
    /\ active' = active \ {t}
    /\ UNCHANGED watchdog

\* dispatchTask's finally block.
Finish(t) ==
    /\ pc' = [pc EXCEPT ![t] = "out"]
    /\ watchdog' = [watchdog EXCEPT ![t] = "off"]
    /\ slots' = ReleasedSlots(ProfileOf[t])
    /\ active' = active \ {t}

\* An exception leaves the mode's dispatch function: a session's goes straight
\* to handleFailure, a batch or pooled one through a finally that awaits.
Throw(t) ==
    /\ pc' = [pc EXCEPT ![t] = IF HasSession(t) THEN "failing" ELSE "cleanup"]
    /\ failed' = [failed EXCEPT ![t] = TRUE]

Started(t) ==
    /\ Interruptible /\ pc[t] = "starting"
    /\ pc' = [pc EXCEPT ![t] = "preparing"]
    /\ status' = [status EXCEPT ![t] = "running"]
    /\ watchdog' = [watchdog EXCEPT ![t] = "armed"]
    /\ failed' = [failed EXCEPT ![t] = FALSE]
    /\ hung' = [hung EXCEPT ![t] = FALSE] /\ killed' = [killed EXCEPT ![t] = FALSE]
    /\ cancelled' = cancelled \ {t}
    /\ UNCHANGED <<queue, loop, slots, attempt, active, retryWait, request, boundVars,
                   extra, leaked, stranded, terminals>>

\* The write stands before the try block: its failure skips the finally.
StartFails(t) ==
    /\ Interruptible /\ pc[t] = "starting" /\ errors < MaxErrors
    /\ errors' = errors + 1
    /\ pc' = [pc EXCEPT ![t] = "out"]
    /\ leaked' = [leaked EXCEPT ![ProfileOf[t]] = @ + 1]
    /\ stranded' = stranded \cup {t}
    /\ UNCHANGED <<queue, loop, slots, status, attempt, failed, active, watchdog, hung,
                   killed, retryWait, request, restarts, extra, cancelled, terminals>>

Prepared(t) ==
    /\ Interruptible /\ pc[t] = "preparing"
    /\ pc' = [pc EXCEPT ![t] = "setup"]
    /\ active' = active \cup {t}
    /\ UNCHANGED <<queue, loop, slots, status, attempt, failed, watchdog, hung, killed,
                   retryWait, request, boundVars, historyVars>>

SetupDone(t) ==
    /\ Interruptible /\ pc[t] = "setup"
    /\ pc' = [pc EXCEPT ![t] = "exec"]
    /\ \E h \in BOOLEAN : hung' = [hung EXCEPT ![t] = h]
    /\ UNCHANGED <<queue, loop, slots, status, attempt, failed, active, watchdog, killed,
                   retryWait, request, boundVars, historyVars>>

\* The agent's stream ends: it always may once aborted, else unless it hangs.
ExecEnds(t) == pc[t] \in Running /\ (hung[t] => killed[t])

ExecReturns(t) ==
    /\ Interruptible /\ ExecEnds(t)
    /\ pc' = [pc EXCEPT ![t] = "saving"]
    /\ UNCHANGED <<queue, loop, slots, status, attempt, failed, active, watchdog, hung,
                   killed, retryWait, request, boundVars, historyVars>>

\* The exec cannot start, the session's container was paused or died meanwhile:
\* it is revived and the turn tried once more.
Revives(t) ==
    /\ Interruptible /\ pc[t] = "setup" /\ HasSession(t)
    /\ pc' = [pc EXCEPT ![t] = "reviving"]
    /\ UNCHANGED <<queue, loop, slots, status, attempt, failed, active, watchdog, hung,
                   killed, retryWait, request, boundVars, historyVars>>

\* The task enters activeTasks again, also when a cancel had taken it out, and
\* no earlier abort reaches the new agent process.
Revived(t) ==
    /\ Interruptible /\ pc[t] = "reviving"
    /\ pc' = [pc EXCEPT ![t] = "rerun"]
    /\ active' = active \cup {t}
    /\ killed' = [killed EXCEPT ![t] = FALSE]
    /\ \E h \in BOOLEAN : hung' = [hung EXCEPT ![t] = h]
    /\ UNCHANGED <<queue, loop, slots, status, attempt, failed, watchdog, retryWait,
                   request, boundVars, historyVars>>

\* While preparing there may be nothing yet for a finally to clean up.
BodyThrows(t) ==
    /\ Interruptible
    /\ pc[t] \in {"preparing", "setup", "reviving"} \/ ExecEnds(t)
    /\ \/ Throw(t)
       \/ /\ pc[t] = "preparing"
          /\ pc' = [pc EXCEPT ![t] = "failing"]
          /\ failed' = [failed EXCEPT ![t] = TRUE]
    /\ UNCHANGED <<queue, loop, slots, status, attempt, active, watchdog, hung, killed,
                   retryWait, request, boundVars, historyVars>>

\* completeTask's write and task:done; a session's dispatch is then over.
Completed(t) ==
    /\ Interruptible /\ pc[t] = "saving"
    /\ status' = [status EXCEPT ![t] = "done"]
    /\ terminals' = [terminals EXCEPT ![t] = @ + 1]
    /\ \/ HasSession(t) /\ Finish(t)
       \/ /\ ~HasSession(t)
          /\ pc' = [pc EXCEPT ![t] = "cleanup"]
          /\ UNCHANGED <<watchdog, slots, active>>
    /\ UNCHANGED <<queue, loop, attempt, failed, hung, killed, retryWait, request,
                   boundVars, extra, leaked, cancelled, stranded>>

CompleteFails(t) ==
    /\ Interruptible /\ pc[t] = "saving" /\ errors < MaxErrors
    /\ errors' = errors + 1
    /\ Throw(t)
    /\ UNCHANGED <<queue, loop, slots, status, attempt, active, watchdog, hung, killed,
                   retryWait, request, restarts, historyVars>>

CleanedUp(t) ==
    /\ Interruptible /\ pc[t] = "cleanup"
    /\ \/ /\ failed[t]
          /\ pc' = [pc EXCEPT ![t] = "failing"]
          /\ UNCHANGED <<watchdog, slots, active>>
       \/ ~failed[t] /\ Finish(t)
    /\ UNCHANGED <<queue, loop, status, attempt, failed, hung, killed, retryWait, request,
                   boundVars, historyVars>>

\* The finally itself throws: pool.release could not replace a worn-out
\* container, or the workspace could not be deleted.  handleFailure follows,
\* also for a task already reported done.
CleanupThrows(t) ==
    /\ Interruptible /\ pc[t] = "cleanup" /\ errors < MaxErrors
    /\ errors' = errors + 1
    /\ pc' = [pc EXCEPT ![t] = "failing"]
    /\ failed' = [failed EXCEPT ![t] = TRUE]
    /\ UNCHANGED <<queue, loop, slots, status, attempt, active, watchdog, hung, killed,
                   retryWait, request, restarts, historyVars>>

\* handleFailure schedules the same task again; the timer is set before the
\* finally block runs.
Retries(t) ==
    /\ Interruptible /\ pc[t] = "failing" /\ attempt[t] < MaxAttempts
    /\ status' = [status EXCEPT ![t] = "queued"]
    /\ attempt' = [attempt EXCEPT ![t] = @ + 1]
    /\ retryWait' = retryWait \cup {t}
    /\ Finish(t)
    /\ UNCHANGED <<queue, loop, failed, hung, killed, request, boundVars, historyVars>>

\* The last attempt, an authentication failure, or an error the policy does
\* not retry.
Fails(t) ==
    /\ Interruptible /\ pc[t] = "failing"
    /\ status' = [status EXCEPT ![t] = "failed"]
    /\ terminals' = [terminals EXCEPT ![t] = @ + 1]
    /\ Finish(t)
    /\ UNCHANGED <<queue, loop, attempt, failed, hung, killed, retryWait, request,
                   boundVars, extra, leaked, cancelled, stranded>>

FailureWriteFails(t) ==
    /\ Interruptible /\ pc[t] = "failing" /\ errors < MaxErrors
    /\ errors' = errors + 1
    /\ stranded' = stranded \cup {t}
    /\ Finish(t)
    /\ UNCHANGED <<queue, loop, status, attempt, failed, hung, killed, retryWait, request,
                   restarts, extra, leaked, cancelled, terminals>>

\* Mutant: the retry's timer is an interval and fires again.
RetryInterval(t) ==
    /\ Interruptible /\ t \in retryWait
    /\ queue' = Enqueued(queue, t) /\ loop' = Notified
    /\ UNCHANGED <<slots, status, attempt, dispatchVars, retryWait, request, boundVars,
                   historyVars>>

RetryTimer(t) ==
    /\ Interruptible /\ t \in retryWait
    /\ retryWait' = retryWait \ {t}
    /\ queue' = Enqueued(queue, t) /\ loop' = Notified
    /\ UNCHANGED <<slots, status, attempt, dispatchVars, request, boundVars, historyVars>>
-----------------------------------------------------------------------------
(* The watchdog and the cancel calls.                                      *)

\* Mutant: abort only stops reading the agent's output.
AbortReading(t) == UNCHANGED killed

\* agentComms.abort: a batch or pooled task's container is stopped; a
\* session's container stays and only a running agent process is killed.
Abort(t) ==
    killed' = [killed EXCEPT ![t] = @ \/ ~HasSession(t) \/ pc[t] \in Running]

WatchdogFires(t) ==
    /\ Interruptible /\ watchdog[t] = "armed"
    /\ SetupFitsTimeout => pc[t] \notin {"preparing", "setup", "reviving"}
    /\ watchdog' = [watchdog EXCEPT ![t] = "fired"]
    /\ IF t \in active THEN Abort(t) ELSE UNCHANGED killed
    /\ UNCHANGED <<queue, loop, slots, status, attempt, pc, failed, active, hung, retryWait,
                   request, boundVars, historyVars>>

Calls(c, s, t) == request' = [request EXCEPT ![c] = [step |-> s, task |-> t]]
Idle(c) == Interruptible /\ request[c] = NoRequest

CancelQueued(c, t) ==
    /\ Idle(c) /\ Contains(queue, t)
    /\ queue' = Cancelled(queue, t)
    /\ Calls(c, "dequeued", t)
    /\ UNCHANGED <<loop, slots, status, attempt, dispatchVars, retryWait, boundVars,
                   historyVars>>

CancelActive(c, t) ==
    /\ Idle(c) /\ ~Contains(queue, t) /\ t \in active
    /\ Abort(t)
    /\ Calls(c, "aborting", t)
    /\ UNCHANGED <<queue, loop, slots, status, attempt, pc, failed, active, watchdog, hung,
                   retryWait, boundVars, historyVars>>

\* Mutant: the row is written whether or not the task was found.
CancelWritesAnyway(c, t) ==
    /\ Idle(c) /\ pc[t] # "new" /\ ~Contains(queue, t) /\ t \notin active
    /\ status' = [status EXCEPT ![t] = "cancelled"]
    /\ Calls(c, "answered", t)
    /\ UNCHANGED <<queue, loop, slots, attempt, dispatchVars, retryWait, boundVars,
                   historyVars>>

\* Neither queued nor active: cancelTask answers false.
CancelRefused(c, t) ==
    /\ Idle(c) /\ pc[t] # "new" /\ ~Contains(queue, t) /\ t \notin active
    /\ Calls(c, "refused", t)
    /\ UNCHANGED <<queue, loop, slots, status, attempt, dispatchVars, retryWait, boundVars,
                   historyVars>>

\* cancelBySession: an active task of the session, else its first queued one.
CancelBySession(c, s) ==
    \/ \E t \in active : SessionOf[t] = s /\ CancelActive(c, t)
    \/ /\ \A t \in active : SessionOf[t] # s
       /\ Idle(c) /\ SessionIndex(queue, s) # 0
       /\ queue' = RemoveAt(queue, SessionIndex(queue, s))
       /\ Calls(c, "dequeued", queue[SessionIndex(queue, s)])
       /\ UNCHANGED <<loop, slots, status, attempt, dispatchVars, retryWait, boundVars,
                      historyVars>>

CancelQueuedWritten(c) ==
    /\ Interruptible /\ request[c].step = "dequeued"
    /\ status' = [status EXCEPT ![request[c].task] = "cancelled"]
    /\ Calls(c, "answered", request[c].task)
    /\ UNCHANGED <<queue, loop, slots, attempt, dispatchVars, retryWait, boundVars,
                   historyVars>>

CancelAborted(c) ==
    /\ Interruptible /\ request[c].step = "aborting"
    /\ Calls(c, "writing", request[c].task)
    /\ UNCHANGED <<queue, loop, slots, status, attempt, dispatchVars, retryWait, boundVars,
                   historyVars>>

\* Gives back the task's slot here; the dispatch's finally gives it back again.
CancelActiveWritten(c) ==
    /\ Interruptible /\ request[c].step = "writing"
    /\ LET t == request[c].task IN
         /\ status' = [status EXCEPT ![t] = "cancelled"]
         /\ watchdog' = [watchdog EXCEPT ![t] = "off"]
         /\ active' = active \ {t}
         /\ slots' = ReleasedSlots(ProfileOf[t])
         /\ extra' = [extra EXCEPT ![ProfileOf[t]] = @ + 1]
         /\ cancelled' = cancelled \cup {t}
         /\ Calls(c, "answered", t)
    /\ UNCHANGED <<queue, loop, attempt, pc, failed, hung, killed, retryWait, boundVars,
                   leaked, stranded, terminals>>

CancelWriteFails(c) ==
    /\ Interruptible /\ request[c].step \in {"dequeued", "writing"}
    /\ errors < MaxErrors /\ errors' = errors + 1
    /\ stranded' = IF request[c].step = "dequeued"
                   THEN stranded \cup {request[c].task} ELSE stranded
    /\ Calls(c, "answered", request[c].task)
    /\ UNCHANGED <<queue, loop, slots, status, attempt, dispatchVars, retryWait, restarts,
                   extra, leaked, cancelled, terminals>>
-----------------------------------------------------------------------------
\* Mutant: start() trusts the rows as they are.
StaleKept == UNCHANGED status
\* The onReady hook fails the rows left live, before anything is served.
StaleFailed == status' = [t \in Tasks |-> IF status[t] \in Live THEN "failed" ELSE status[t]]

\* The process stops and comes back with a fresh memory.
Restart ==
    /\ Interruptible /\ restarts < MaxRestarts
    /\ restarts' = restarts + 1
    /\ StaleFailed /\ stranded' = {}
    /\ queue' = <<>> /\ loop' = "idle" /\ active' = {} /\ retryWait' = {}
    /\ slots' = [p \in Profiles |-> 0]
    /\ extra' = [p \in Profiles |-> 0] /\ leaked' = [p \in Profiles |-> 0]
    /\ pc' = [t \in Tasks |-> IF pc[t] = "new" THEN "new" ELSE "out"]
    /\ failed' = [t \in Tasks |-> FALSE]
    /\ watchdog' = [t \in Tasks |-> "off"]
    /\ hung' = [t \in Tasks |-> FALSE] /\ killed' = [t \in Tasks |-> FALSE]
    /\ request' = [c \in Cancellers |->
                     IF request[c] = NoRequest THEN NoRequest
                     ELSE [request[c] EXCEPT !.step = "answered"]]
    /\ UNCHANGED <<attempt, errors, cancelled, terminals>>

Loop == LoopDispatch \/ LoopBackOff \/ LoopEnds

Dispatch(t) == \/ Started(t) \/ Prepared(t) \/ SetupDone(t)
               \/ ExecReturns(t) \/ Revives(t) \/ Revived(t) \/ BodyThrows(t)
               \/ Completed(t) \/ CleanedUp(t) \/ Retries(t) \/ Fails(t)

Failure(t) == StartFails(t) \/ CompleteFails(t) \/ CleanupThrows(t) \/ FailureWriteFails(t)

CancelCall(c) == \/ \E t \in Tasks : CancelQueued(c, t) \/ CancelActive(c, t) \/ CancelRefused(c, t)
                 \/ \E t \in Tasks : HasSession(t) /\ CancelBySession(c, SessionOf[t])
                 
CancelProgress(c) == CancelQueuedWritten(c) \/ CancelAborted(c) \/ CancelActiveWritten(c)

Next == \/ \E t \in Tasks : \/ Submit(t) \/ EnqueueNew(t) \/ Dispatch(t) \/ Failure(t)
                            \/ RetryTimer(t) \/ WatchdogFires(t)
        \/ Loop
        \/ \E c \in Cancellers : CancelCall(c) \/ CancelProgress(c) \/ CancelWriteFails(c)
        \/ Restart

\* Writes, Docker calls and timers complete; the agent need not, unless killed.
Fairness == /\ WF_vars(Loop)
            /\ \A t \in Tasks : /\ WF_vars(EnqueueNew(t)) /\ WF_vars(Dispatch(t))
                                /\ WF_vars(RetryTimer(t)) /\ WF_vars(WatchdogFires(t))
            /\ \A c \in Cancellers : WF_vars(CancelProgress(c))

Spec == Init /\ [][Next]_vars
FairSpec == Spec /\ Fairness
-----------------------------------------------------------------------------
(* Properties.                                                             *)

\* The limiter's count is the number of dispatches in flight, except for the
\* slots that cancels gave back early and those a failed first write kept
\* (acquire in processLoop, release in cancelTask and in dispatchTask).
SlotAccounting ==
    \A p \in Profiles : /\ slots[p] <= Cardinality(InFlight(p)) + leaked[p]
                        /\ Cardinality(InFlight(p)) <= slots[p] + extra[p]
                        /\ slots[p] <= Limit

\* A profile runs more than Limit tasks at once only by as many as there were
\* cancels of its running tasks (each releases a slot that is released again).
BoundedOvercommit ==
    \A p \in Profiles : Cardinality(InFlight(p)) <= Limit + extra[p]

\* "respects profile concurrency limits": of the tasks nobody cancelled, never
\* more than Limit in flight at once.  Does not hold after a cancel.
ConcurrencyLimit ==
    \A p \in Profiles : Cardinality(InFlight(p) \ cancelled) <= Limit

\* A task is in one place at a time: never twice in the queue, never queued or
\* in a retry timer while a dispatch of it is in flight, so no two attempts of
\* a task run at once (enqueue, dequeue, the retry timer, cancel).
OnePlace ==
    /\ IsInjective(queue)
    /\ \A t \in Tasks : /\ Contains(queue, t) => pc[t] = "out" /\ t \notin retryWait
                        /\ t \in retryWait => pc[t] = "out"

\* The queue the loop serves is sorted by priority, re-enqueued tasks included.
QueueSorted == Sorted(queue)

\* A row that says queued or running belongs to a task that memory still moves,
\* also after a restart, unless a write of its status failed since the last one.
NoTaskLost ==
    \A t \in Tasks \ stranded : status[t] \in Live =>
        \/ pc[t] \in Phases \cup {"inserted"}
        \/ Contains(queue, t) \/ t \in retryWait
        \/ \E c \in Cancellers : request[c] = [step |-> "dequeued", task |-> t]

\* A running agent is known to cancel and to the watchdog, unless a cancel took
\* it out of activeTasks; a timer armed for one attempt never outlives it, so
\* it cannot abort a later one.
Supervised ==
    \A t \in Tasks :
        /\ pc[t] \in {"setup", "reviving", "saving"} \cup Running /\ t \notin cancelled
              => t \in active /\ watchdog[t] # "off"
        /\ t \in active => pc[t] \in Phases \ {"starting", "preparing"}
        /\ watchdog[t] # "off" => pc[t] \in Phases \ {"starting"}

\* A settled row changes again in three ways only: a cancel that found the task
\* active writes after its completion, a clean-up throws after completion, or
\* the dispatch a cancel did not stop goes on writing.
SettledRowRewrites ==
    [][\A t \in Tasks : status[t] \in Settled /\ status'[t] # status[t] =>
          \/ /\ status'[t] = "cancelled"
             /\ \E c \in Cancellers : request[c] = [step |-> "writing", task |-> t]
          \/ status[t] = "done" /\ pc[t] = "failing"
          \/ status[t] = "cancelled" /\ pc[t] \in Phases]_vars

\* Every queued task is eventually settled: the loop's back-off, the limiter
\* and the watchdog keep nobody waiting forever (no failing writes, no restart).
EventuallySettled == \A t \in Tasks : status[t] = "queued" ~> status[t] \in Settled

\* "Cancels a queued or running task": a cancelled row stays cancelled.  Does
\* not hold, a dispatch that was not stopped writes its own outcome.
CancelledIsFinal ==
    [][\A t \in Tasks : status[t] = "cancelled" => status'[t] = "cancelled"]_vars

\* The watchdog is "the safety net for a stuck turn": a hung agent is aborted.
\* So it is when the timer does not run out before the agent starts.
HungTurnAborted ==
    \A t \in Tasks : pc[t] \in Running /\ hung[t] ~> pc[t] \notin Running
=============================================================================
