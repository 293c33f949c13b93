# Verification of vonzio's orchestration core

vonzio runs coding agents in Docker containers on behalf of users. Its server,
`src/packages/core-server`, is one Node process with a SQL database: it queues
tasks, dispatches them into containers under limits, keeps the container of a
user's session alive, pauses it, revives it and removes it, and cleans up what is
left behind. Nearly all of its state is in memory, nearly all of its code is
suspended most of the time in an `await` on Docker, the database or a timer, and
nothing is locked. That is where its bugs can hide from unit tests, which run one
call after another against mocks, and that is what these modules are about.

Paths below are relative to `src/packages/core-server/src` unless they begin
with `src/`; `orchestrator.ts` is `orchestrator/orchestrator.ts`, `pool.ts` and
`session-registry.ts` are in `container/`.

## 1. Inventory

| Component | State it keeps | Operations | What is hard about it | What makes it correct |
|---|---|---|---|---|
| Task queue (`queue/in-memory.ts`) | one array | enqueue, dequeue, cancel, cancelBySession | insertion point among mixed priorities, with cancels and re-enqueued tasks | priority order, first in first out within a priority |
| Task dispatch (`orchestrator.ts`, `services/task-service.ts`, `orchestrator/agent-comms.ts`, `orchestrator/retry.ts`, `rate-limit/concurrency-limiter.ts`) | the processing loop, slots per profile, `activeTasks`, `activeTimers`, retry timers, the task's row | submit, process loop, dispatch in three modes (batch, pooled, session), complete, fail, retry, time out, cancel | a task's call chain, a cancel, a watchdog and a retry timer all act on the same maps; a write of the row may fail; the server may stop | a task is in one place; slots are given back once; every row is settled; a hung agent is aborted |
| Container pool (`container/pool.ts`) | map of warm containers, their status, age and number of uses | init, claim, release, health check, drain, shutdown | passes work from a snapshot with an `await` per container; creations and removals fail | a container has one user; none leaves the books; the minimum is kept |
| Orphan sweep (`container/pool.ts`) | the candidates of the last pass | sweepOrphans, findOrphans, pruneOrphans | decides on a list, a map and a query taken at three times | removes nothing owned; removes every stray |
| Session registry (`container/session-registry.ts`) | map of session objects, mirrored in table `workspaces`; `connectionCounts` | register, updateActivity, reassign, clear, resurrect, remove, sweep, loadFromDB | actors keep an object across awaits after it left the map; map and row are written apart | map and row agree; a turn's container is on record and is not taken away |
| VPN sidecars (`orchestrator.ts`) | sidecar per tunnel with its count of holders, agents and their sidecars, creations in flight, teardown timers | ensure, create, count down, warm up, teardown, clean-up at start | callers join a creation in flight; the tunnel changes under its holders; whoever leaves looks the entry up again; failures on the way keep a hold | the count is the number of holders; one sidecar at a time; none is taken from an agent; an unused one goes |
| Goal loop and judge (`orchestrator.ts`, `orchestrator/judge-server.ts`) | rounds, budget | rounds of one task | a cancel between two rounds | stops when cancelled or over budget |
| Chain runner, playbook scheduler (`orchestrator/chain-runner.ts`, `services/playbook-scheduler.ts`) | `runningPlaybooks`, `activeRuns`, rows of playbooks and runs | tick, recompute, execute a chain of tasks, cancel, by hand | ticks overlap and hold copies of the rows; every run hears of every task; a task may settle before the run listens; writes fail between mark and run | at most one scheduled run of a playbook; marked exactly while it runs; a run ends, and on its own results; what is due is fired |
| Event log and replay (`events/event-log.ts`, `ws/handler.ts`, `orchestrator.ts`, `mcp/platform-mcp.ts`, `src/packages/dashboard/src/hooks/useWorkspaceChat.ts`) | number of the last entry, buffered tokens, a file per session; the dashboard's messages; a cursor | append, flush, read, `session.resume`, `workspace_events` | events while a replay awaits; an end of turn signed late; numbers start again after a restart | the log keeps the order; a dashboard that has caught up shows each event once, in order; a cursor skips nothing |
| WebSocket handler and connections (`ws/*`) | subscriptions, connections | subscribe, submit, resume, cancel | messages while a session is woken; a connection lost in a replay | what a client missed is replayed |
| Device authorization (`services/device-service.ts`) | device codes | start, approve, poll | two approvals, two polls | one token for the user who approved |
| Local tool bridge (`mcp/local-fs-mcp.ts`, `ws/connection.ts`) | requests in flight | request, answer, disconnect | timeout against late answer | each request ends once |
| Ask-user fallback, presence | deduplication window | ask | | one message per question |
| Rate limiter (`rate-limit/sliding-window.ts`) | timestamps | check | | never above the rate |
| Docker manager, workspace provisioning, egress, plugins, routes, authentication, provider connections, mail, calendar, memory, notifications, MCP servers, LLM gateway, agent runner, schema, dashboard, configuration | none, rows, or another program's | I/O or translation | | |

How they interact. `TaskService.submit` inserts a row and enqueues; the queue's
ready callback schedules the processing loop, which takes a slot of the
profile's limiter and starts `dispatchTask` without awaiting it. `dispatchTask`
asks the pool (pooled mode), the session registry (session mode) or Docker (batch
mode) for a container and `AgentCommunicator` to run the agent in it; its
`finally` gives back the slot, the timer and the entry of `activeTasks`.
`cancelTask`, the watchdog and the retry timer reach into the same maps. Pool and
registry run their passes on `setInterval`; the orphan sweep reads the pool's
map, the registry's map and the table. The playbook scheduler's tick starts
`ChainRunner.execute`, which submits one task after another and hears of them through
the orchestrator's events, the same events the event log writes and the WebSocket handler
relays. Before it creates a container a dispatch on a tunnel goes through
`ensureVpnSidecar`; `safeRemoveContainer` counts it out. On a restart the `onReady` hook of
`server.ts` fails the rows left live and `loadFromDB` rebuilds the registry's map.

Every component, with the sources it stands for and the reason where it is not
modelled, is listed under `components` of `PROJECT.json`; every hazard, at the
line where it bites and with the properties that would show it, under `hazards`.

## 2. What a step is

JavaScript runs to completion between two suspensions, so a step is the code
between two *real* suspensions of one actor: a database access, a Docker call, a
timer. Gaps of a microtask (an `await` of something already there) are not steps:
no I/O callback runs in them. A method without a real suspension is one action.

- A Docker call or a database access that is awaited is two steps: what happens
  up to the call, and what happens when it is answered. What the answer says
  is decided when it is given.
- Calls fail where the code has an error path, counted by `MaxErrors`.
- Sequences of suspensions that the properties cannot tell apart are one phase
  (the commands that set up a container, for instance); the phase can still
  be interleaved with, and fail.
- In `SessionContainers` time passes by actions of its own. The clocks that
  decide about idling and expiry move only while nobody waits for Docker or the
  database (`AtRest`): those delays are hours and the calls take seconds. A
  container reaches `ORPHAN_MIN_AGE_MS` (15 minutes) at any time except while
  the orphan sweep is reading or a dispatch still sets that container up (`Ages`).

Data is abstracted to what decides: a task is a name with a priority, a
profile and possibly a session; a container is a name with a Docker state; a
session object is its container, status, how long it has been inactive and
whether its expiry has passed. Messages, prompts, events' contents, volumes and
settings are left out.

## 3. Modules

| Module | Models |
|---|---|
| `TaskQueueOps` | the queue's operations on a sequence, as operators |
| `TaskQueue` | `InMemoryTaskQueue` as a state machine, one action per method |
| `PriorityLanes` | abstract specification of the queue: a FIFO lane per priority |
| `TaskDispatch` | a task's way from submission to its last row; uses the queue's operators |
| `ContainerPool` | claim, release, health check, drain, shutdown |
| `SessionContainers` | the container of one session: dispatch, registry, idle sweep, terminate/delete/detach, orphan sweep, restart |
| `VpnSidecars` | the sidecar of one tunnel: its callers, its count, its teardown, restarts |
| `EventReplay` | the event log of one session, the replay and the relay to a dashboard, the pages of a poller |
| `Playbooks` | the scheduler's ticks, the chain runner's runs, and whoever changes, starts or cancels |
| `TaskQueueLemmas`, `TaskDispatchProofs`, `ContainerPoolProofs`, `VpnSidecarsProofs`, `PlaybooksProofs`, `TaskQueueProofs`, `EventReplayProofs`, `SessionContainersProofs` | lemmas, theorems and their proofs |
| `MCTaskQueue`, `MCTaskDispatch`, `MCContainerPool`, `MCSessionContainers`, `MCVpnSidecars`, `MCEventReplay`, `MCPlaybooks` | instances for TLC |

### 3.1 The queue

`queue` is the private array. `Enqueued(q, t)` inserts before the first entry of
a lower priority, as the loop of `enqueue` with its `splice` does; `cancel`
removes the first entry of an id, `cancelBySession` the first of a session.
`TaskQueue` refines `PriorityLanes` with `lanes[p]` the piece of the array that begins
behind everything more urgent than `p` (`Ahead`) and ends before everything less urgent:
the refinement also says that the lanes lie one behind the other. Duplicates of an id are possible, since nothing in the queue prevents them.

### 3.2 Dispatch

| Variable | Code |
|---|---|
| `queue` | `InMemoryTaskQueue.queue` |
| `loop` | `processing` and where `processLoop` is: not scheduled, in `setImmediate`, running, asleep after a back-off |
| `slots` | `ConcurrencyLimiter.activeCounts` |
| `status`, `attempt` | the row's status, the task's attempt |
| `pc`, `failed` | where the task's call chain is suspended; whether an exception is unwinding |
| `active`, `watchdog`, `retryWait` | `activeTasks`, `activeTimers`, the `setTimeout`s of retries |
| `hung`, `killed` | an agent that will not end by itself; an abort that reached it |
| `request` | a cancel call between its awaits |

`extra`, `leaked`, `cancelled`, `stranded` and `terminals` are history variables:
no guard reads them, properties do.

The phases of `pc` follow `dispatchTask`: *starting* (the write of `running`
stands before its `try`), *preparing*, *setup*, *exec*, *reviving* and *rerun*
(a session's container that had stopped is revived once and the task is put into
`activeTasks` again), *saving* (`completeTask`), *cleanup* (the `finally` of
batch and pooled mode), *failing* (`handleFailure`). The loop's pass through its
queue contains no suspension, so no other action interleaves with it
(`Interruptible`). `cancelTask` is three steps for an active task (abort, write,
release of timer, entry and slot) and two for a queued one.

### 3.3 The pool

`pool`, `busy`, `old`, `uses` are the keys of the map and its entries' status,
age and recycle count; `docker` is the truth. `user`, `check`, `drain` and
`closing` hold where claims, passes and shutdown are suspended, the passes with
the snapshot they still have to go through. `createOne` adds the entry when the container has
started, `destroyContainer` deletes the entry before it asks Docker and ignores a
failure. A rejection inside `healthCheck` is caught by nobody, and the process
ends (`CheckFails`). `strays` records what a failed call or the crash left in Docker.

### 3.4 A session's container

`map` is the registry's entry of the session: an *object*, since a dispatch
or a pass goes on with the object it read even when the map has another by then.
`row` is the row of `workspaces`. A dispatch reads the object, probes its container, unpauses or replaces it,
registers or reassigns, runs the agent, revives it once if Docker refuses. A pass
of the idle sweep reaches the object some time after it listed it; `terminate`,
`delete` and `detachSessionContainer` are one call with its removal and its
write. The orphan sweep lists Docker's containers with the map's keep-set, then queries
the rows, then removes what it has found twice in a row. `resurrect` stands
before the dispatch of a task submitted over the WebSocket to a session the map
does not hold.

### 3.5 VPN sidecars

| Variable | Code |
|---|---|
| `version` | `updated_at` of the tunnel's row |
| `entry` | the tunnel's entry in `sidecarsByTunnel`: sidecar, `refCount`, version |
| `inFlight`, `timer` | `sidecarInFlight`, `sidecarTeardownTimers` |
| `pairs` | `sidecarsByAgent` |
| `caller` | where a call of `ensureVpnSidecar` is suspended, with the version it read and the sidecar it was given; then the life of its agent |
| `up`, `doomed`, `cleanup` | sidecars in Docker, removals under way, `cleanupOrphanedVpnSidecars` |

A caller is a dispatch about to create an agent container, or `warmupTunnel`. Tunnels share
nothing with one another, so one tunnel is modelled. A caller reads the version, then in one step
uses the entry, joins the creation in flight or begins one; an outdated entry leaves the map,
and if nobody holds it its sidecar is removed first, after which the caller does not look at the
map again. An agent that dies or is removed by someone else keeps its hold until
`safeRemoveContainer` comes by, or for good (`leaky`). A restart loses maps, timers and
calls; containers stay. A request to Docker that is in flight when the server stops counts as not made.

### 3.6 Event log and replay

| Variable | Code |
|---|---|
| `counter`, `buffer`, `file` | `EventLog.seqCounters`, `tokenBuffers`, the session's file |
| `signing` | ends of turns that are logged and not sent yet: their images are being signed |
| `subscribed`, `resume` | the connection's subscription, its `session.resume` handlers: waking the container, or sending what they read, suspended at every text |
| `asked`, `wire`, `connected` | messages between dashboard and server |
| `chat` | `useWorkspaceChat`: messages, streamed text, the message it goes to, the last text |
| `poller` | the cursor of a caller of `workspace_events`, and the entries it was given |

An event is its number; a text is the set of its tokens. Tokens are relayed one by one and
logged together before the next other event. `cut`, `lost`, `disturbed`, `synced` are history
variables: which tokens no log could show, and whether a live event or a second replay came
between the entries of a replay. Events of users, which are logged and not relayed live, are left
out, as are event kinds without influence on order. `After(c, m)` is the dashboard's state `c` with
the message `m` received; its handlers take the state as an argument, so that the proofs can
speak of what a dashboard will show before it has received anything.

### 3.7 Playbooks

| Variable | Code |
|---|---|
| `row` | the playbook's row: exists, enabled, trigger, whether its cron expression parses, `next_run_at` as none, later or due |
| `recompute` | playbooks whose `recomputeNextRun` is still to write: after a change, after the start |
| `runningPlaybooks`, `paused` | fields of the scheduler |
| `tick` | a tick: where it is suspended and the rows it still has to look at, *as it read them* |
| `run`, `activeRuns` | executions of `ChainRunner.execute`, the map of those that can be cancelled |
| `task`, `status` | the task of the run's current chain, the row of the run |

A run goes from the insert of its row (*creating*) over the resolution of its organization
(*resolving*) into the loop: *submitting*, *linking* the task to the run, *waiting*,
*recording* progress and sleeping; then *finalizing* and *closing*. Events are heard
only while waiting, so a task that settles during *linking* is met by the
time-out alone. Runs that the scheduler began take the mark away when
they return or reject; those of routes, webhooks and agents neither look at it nor set it. A run
whose playbook was deleted has no row to return; the rejection is caught by nobody and the server
stops (`ReturnsNothing`). `stuck` and status *lost* are history: marks kept by a failed write, rows that say
*running* for good.

## 4. Runs

All bounds are constants of the configurations. Distinct states are those of the
passing runs.

| Run | Instance | States | Shows |
|---|---|---|---|
| `queue` | 4 tasks (two of one priority, two sessions), up to 5 entries | 615 | `QueueSorted`, `ImplementsLanes` |
| `dispatch_faults` | a batch task and a session's task on one slot, 2 attempts, 1 cancel, 1 failing write, 1 restart | 390 105 | type, `SlotAccounting`, `OnePlace`, `NoTaskLost`, `Supervised`, `BoundedOvercommit`, `SettledRowRewrites` |
| `dispatch_live` | the same tasks, 2 attempts, hanging agents, no failing write | 3 078 | `EventuallySettled`, `HungTurnAborted` |
| `pool_claims` | 2 dispatches, 1 health check, 3 containers, minimum and maximum 1, 1 failing call, shutdown | 407 812 | type, `ExclusiveUse`, `BusyIsHeld`, `NothingEscapes`, `InUseStays` |
| `pool_depth` | 1 dispatch, 1 health check, 1 drain, minimum 1, maximum 2, no failing call | 274 351 | `DepthMaintained` |
| `session_idle` | 1 dispatch after another, 1 idle sweep, the orphan sweep, session on a volume and not | 810 122 | type, `RecordsAgree`, `OwnedNotReaped` |
| `session_restart` | the same without the idle sweep, 1 restart, 1 failing removal | 82 199 | `TurnRecorded`, `TurnNotReaped` |
| `session_strays` | 1 dispatch, 1 terminate, delete or detach, the orphan sweep, 1 failing removal | 271 756 | `StraysGo`, `OwnedNotReaped` |
| `vpn_sidecars` | 2 agents, 1 warm-up, up to 2 faults: changes of the tunnel, mishaps, a restart | 197 051 | type, `HoldersCounted`, `OneSidecar`, `SidecarTaken`, `UnusedSidecarGoes` |
| `event_replay` | 3 events, 2 resumes on one connection or two, pages of 1 entry, 2 polls, 1 restart | 3 273 032 | type, `LogKeepsOrder`, `CaughtUp`, `ShownFaithfully`, `PolledInOrder` |
| `playbooks` | 1 playbook, 1 tick after another, 2 runs at once of up to 2 chains, 1 interference: a failing write, a change, a deletion, a run by hand, a cancel, a pause or a restart | 239 267 | type, `NoOverlap`, `MarkedWhileRun`, `OwnResult`, `RunsSettle`, `DueIsFired` |
| `manual_fires` | the same without interference | | finds `ManualNotScheduled` violated, see section 7 |

**Why these bounds.** The hazards are races of two or three actors. Two tasks
on one slot give contention, back-off, priority order and the slot a cancel gives
back early; a second attempt gives the retry timer; one cancel, one failing
write and one restart each come at every point. The queue's lanes are mixed in all
ways with five entries over three priorities. In the pool, the third container lets
a replacement exist beside a container being removed and one in use, and a
maximum of one lets two claims race past it. In `session_idle` three objects and
three containers are one more than a dispatch and a sweep can hold besides the
record, and no fresh name is ever missing that would cut a
behaviour off. `Persistence` makes a run cover both kinds of session.
In `vpn_sidecars` a creator, a caller that joins it and a warm-up meet a change of the tunnel
and a restart in any order; a third agent would be one more of those that join. Three events
give a token, what ends it and a token of the next text; the order of two replays,
of a replay and the relay, and of a page and a flush are decided by neighbours. Four
events with one handler, one poll and one restart held as well. In `playbooks` a
tick finds the runs of earlier ticks and a run by hand in all their phases. Overlapping ticks are
for the theorem `NeverOverlaps`, which holds for any number; with two ticks and no
liveness TLC found nothing either, in 2 323 978 states.

**Symmetry and views.** Symmetry sets are used in safety runs only, over
names no constant distinguishes. `SessionView` forgets the fields of objects
nothing refers to: no action reads them before it has replaced the whole object. The
liveness runs use neither. `CHECK_DEADLOCK FALSE` stands where the system may
stop: all tasks settled, the server shut down, the one remover done.

## 5. Fairness

- `TaskDispatch`: the loop, every awaited call of a dispatch, retry timers, the
  watchdog and the calls of a cancel are weakly fair, since Node runs every callback
  that is ready and Docker and the database answer. Nothing makes an agent end:
  `hung` is chosen at its start, and then only `killed` ends it. A submission and
  a cancel need not come. `SetupFitsTimeout` states for `dispatch_live` that a
  task's timeout is longer than its set-up; without that `HungTurnAborted` does
  not hold (section 7).
- `ContainerPool`: the dispatches' and passes' own steps are weakly fair, and so is the start of a
  health check, which `setInterval` repeats. Claims, deaths, aging, a
  drain's start and shutdown are not.
- `SessionContainers`: the orphan sweep is weakly fair, being on a timer. Its
  query succeeds infinitely often if it is made infinitely often (strong
  fairness of `OrphansFound`: a database that fails for ever sweeps nothing), and
  a container whose aging is enabled again and again does age (strong fairness of
  `Ages`, which the sweep's own steps keep switching off). Nothing is assumed of
  dispatches, removers or the idle sweep: `StraysGo` holds whatever they do.
- `VpnSidecars`: a caller that has been given its start, the removals under way, the timer
  and the clean-up go on, each weakly fair, since Docker and the database answer. No agent need be
  started, end or leave, and no mishap, change or restart need come.
- `Playbooks`: a tick is weakly fair (`setInterval` repeats it), and so is a run, each of
  whose awaits is answered; its wait for a task ends by the time-out at the latest. No task
  need settle, no time need pass, and nothing from outside need happen.
- `EventReplay` has safety properties only. `CaughtUp` speaks of the state in which
  everything sent has been received, which states what a fair wire would make eventual.

## 6. Proofs

The proofs hold for every value of the constants that satisfies the named
assumptions of the modules: finitely many tasks, a priority, profile and positive
limit for each, natural-number bounds; for the pool finite sets of containers and
dispatches, sizes that are natural numbers and a positive `MaxRecycles` (nothing
relates `MinSize` and `MaxSize`); finitely many callers of a tunnel; for a session, any sets of
objects, containers, dispatches, sweeps and calls; for the event log any set of resume
handlers, pages of a positive size and natural-number bounds. Every invariant and every action property
of the passing runs is a theorem; three of those about a session have conditions on the
behaviour, which are hypotheses of their theorems.

**Queue** (`TaskQueueLemmas`). What inserting and removing do to the elements of
a sequence, to its length and to the property that no task occurs twice:
`EnqueuedFacts`, `CancelledFacts`, `RemoveAtFacts`, `TailFacts`,
`SessionIndexFacts`. They rest on `InsertionPoint` (the insertion index is a
position of the array or one beyond) and on the minimum of a finite set of naturals.

`TaskQueueProofs` proves the refinement. Its inductive invariant is
`QueueInv == TypeOK /\ QueueSorted`; in a sorted array `AheadFacts` says which positions a
lane has and `LaneFacts` that all its entries are of its priority. `EnqueuedLanes` and
`RemovedLanes` say what the operations do to the lanes: an insertion lengthens one lane by one at its
end and shifts those behind it, a removal shortens one. Theorems: `StaysSorted` and
`QueueIsLanes`, for any tasks, priorities and bounds.

**Dispatch** (`TaskDispatchProofs`). The inductive invariant is

    DispatchInv == TypeOK /\ OnePlace /\ SlotAccounting /\ WatchInv
                   /\ RowInv /\ NoTaskLost /\ QueueSorted

`OnePlace` is needed to know that a task taken from the queue is not already
counted as in flight, and that a retry timer finds its task neither queued nor in flight;
`SlotAccounting` is two inequalities, because a cancel's release and the release in
`finally` floor the count at zero: the count may lag behind the flights by what
cancels gave back (`extra`) and exceed them only by what a failed first write kept
(`leaked`). `FinishBalances` and `Landed` do the counting of finite sets once for
every action that ends a flight. `WatchInv` is `Supervised` task by task, with the fact that the
watchdog is armed before the container is ready. `RowInv` is what a row says given the place
of its task, and what a cancel between two of its awaits still knows: the clean-up of a
completed batch task, for one, finds a row that is no longer running. Without it `NoTaskLost`
is not inductive, because a step that ends a flight must know that the row was settled
before. Each of these parts is shown to survive a step from a few facts about it that do not
name the action (`TaskMoves`, `QueueMoves` and `CallMoves` for the rows, `PlacesMove` for the places).

Theorems: `TypeCorrect`, `OnePlaceCorrect`, `SlotAccountingCorrect`, `SupervisedCorrect`,
`NoTaskLostCorrect`, `LoopQueueSorted`, the action property `RewritesAreKnown` and
`OvercommitBounded`: a profile exceeds its limit by at most the number of cancels of its
running tasks, which is the quantitative counterpart of the violated `ConcurrencyLimit`.

**Pool** (`ContainerPoolProofs`). The inductive invariant is

    PoolInv == TypeOK /\ Named /\ ExclusiveUse /\ BusyHeld
               /\ DrainSparesBusy /\ Books /\ PoolExists

- `BusyHeld` is `BusyIsHeld` container by container. With `ExclusiveUse` it makes a
  claim of an idle entry exclusive, and a release or a clean-up free no one else's entry.
- `PoolExists` (an entry's container exists in Docker; what is being removed is in the map
  no more) is why a new name is no entry's and a removal's answer concerns no entry.
- `DrainSparesBusy` is the reason the drain's stale snapshot does no harm: `claim`
  renews `lastUsed`, and a container in the snapshot does not become old during the
  pass, which compares with the time it began. The health check has no such
  protection, only that it takes what is dead.
- `Books` adds to `NothingEscapes` that nothing is being closed before shutdown.

Theorems: `PoolTypeCorrect`, `ExclusiveUseCorrect`, `BusyIsHeldCorrect`,
`NothingEscapesCorrect`, and the action property `InUseStaysCorrect`. The runs
check the parts of both invariants that are properties; the auxiliary conjuncts of
`PoolInv` hold on the same two instances of the pool.

**Session containers** (`SessionContainersProofs`). `TypeInv` has the types variable by
variable and adds that whoever goes on with an object has one. Above it stands

    ReapInv == AgedExist /\ PendingSpared /\ ListHolds /\ FoundUnknown
               /\ orphans.todo \subseteq orphans.found

which relates the list, the keep-set and the query of an orphan sweep, taken at three times, to
map and row as they are now. What makes the sweep sound is `PendingSpared`: a container
that a dispatch is about to put on record is neither old nor found. A container gets on record only
from such a dispatch, and it grows old only when no dispatch sets it up any more, so nothing
that was old and unknown is known later. `PassUndisturbed` makes this one argument for every action that is not
the sweep's; each has to show only that what it puts on record was pending, and that it makes nothing
pending or old. Theorems: `TypeCorrect` and `OwnedNeverReaped`, for any number of dispatches,
sweeps, calls, failures and restarts. The guard of `Ages` that this rests on is the
assumption that setting up a container takes less than `ORPHAN_MIN_AGE_MS` (section 2).

Two more invariants are about a session that is served by one dispatch after another, as section 7
shows they must be. `OneByOne`, `NobodySweeps` and `NobodyRemoves` say so of a
behaviour, whatever the constants allow:

- `HandInv`: what a dispatch holds is the session of the map, and what it works with is that session's
  container. Beside neither a sweep nor a call this holds at every step, between
  the writes too. With `FoundUnknown` above it gives that no turn's container is taken. Theorems `TurnIsRecorded`,
  `TurnsNeverReaped`.
- `RecordInv == SweepsInv /\ RecordsInv`, with any number of overlapping idle sweeps but no call.
  `RecordsInv` says what map and row are between the two writes of a resurrection, a registration and a
  reassignment, when they differ. `SweepsInv` is what keeps a pass that tears
  down from clearing the row of another object than the map's: a pass goes on with an object that it
  took before its `await`, and another pass may have expired it since and a dispatch registered a new
  one. But no minutes pass while anybody waits: an object that entered the map since is fresh
  (`NewIsFresh`), what is expired was due (`SweepsDue`), and what is torn down is stale and not
  due, so it is the map's (`TearsTheMaps`). Theorem `RecordsAlwaysAgree`.

TLC checked `HandInv` on the instance of `session_restart`, and `RecordInv` with one dispatch and two
passes (3 486 683 states), with one pass and a restart, and with two dispatches
kept apart.

**VPN sidecars** (`VpnSidecarsProofs`). The inductive invariant is

    SharingInv == Births /\ (\A c \in Callers : Known(c)) /\ Fresh
                  /\ HoldersCounted /\ OneUp /\ CleanupOver

- The count cannot be shown alone: that a caller which leaves counts down the entry
  it was counted in needs `Fresh`, by which, as long as the tunnel has not changed, all who are
  counted hold the entry's own sidecar, every version read agrees with it, a timer is for
  it, and nothing in use is about to be removed.
- `Births` (types, and that a sidecar gets its name once, from the one caller in `inFlight`)
  says that what a caller is about to register is on nobody's books.
- `Known` says what `sidecarsByAgent` knows of whom; after a restart the map is empty, and
  the surviving containers hold sidecars no entry has.
- `OneUp` and `CleanupOver` (what is up and stays is the entry's, is being created or is
  left to the clean-up, which ends with nothing to do) give `OneSidecar`.

Theorems: `TypeCorrect`, `CountIsHolders`, `SidecarsAreSingle` and the action property
`TakenOnlyByChange`. Everything that a change of the tunnel upsets is excepted by `updated` in
invariant and properties alike; section 7 says what then happens.

**Playbooks** (`PlaybooksProofs`), for any sets of playbooks, ticks and runs. Two
inductive invariants, each beside `TypeOK`:

- `MarksInv == TypeOK /\ IdleHoldsNone /\ \A pb \in Playbooks : MarksOf(pb)`. `MarksOf` says who
  holds the mark of a playbook: one scheduled run, or one tick between its mark and
  its run, or a failed write (`stuck`), and never two of them. `NoOverlap` alone is not inductive:
  that a tick may fire again follows only from the mark being gone, and the mark is taken
  away by a run that must be the sole holder. What rows a tick has read plays no part, which is why
  stale copies cannot make runs overlap. Theorems `NeverOverlaps`, `MarkedExactly`.
- `OwnInv == TypeOK /\ \A r \in Runs : OwnOf(r)`. A run records, and completes, only with
  its own task done; before the first chain nothing has been counted, so completing by the
  bound of chains presupposes a result. Theorem `ResultsAreOwn`.

`TypeCorrect` contains that `activeRuns` is exactly the set of runs inside the loop: a cancel is
accepted there and nowhere else.

**Event log** (`EventReplayProofs`). The log itself:
`LogInv == LogTypes /\ LogKeepsOrder`, with `LogTypes` what the log, the buffer and the task's progress are.
`EntryAppended` and `NewestFacts` say what one more entry does, `FlushKeeps` that flushing a buffer
changes nothing in the order of things, and `AppendKeeps` that appending an event after the flush
does not either. Theorem `LogInOrder`.

The poller: until the first restart numbers are places (`Numbered`), so a page that begins behind the
cursor begins at the cursor's place. The code filters by the cursor; `EventsAfter` is the set of places
behind it in their order, and `PageFollows` says that a page is the next few of them. Theorem
`PolledInOrderCorrect`.

The dashboard: what it shows when the connection has fallen silent was decided
when the log was read, long before the messages came. The invariant therefore speaks of what
is still to come, and `Leads(c, s, p)` says that receiving the messages `s` leads from `c` to `p`. It asks
for a course of states, a function, where one would otherwise define receiving a
sequence by recursion; `LeadsFirst`, `LeadsOne` and `LeadsThrough` take courses apart and put them together.
What comes is `Coming == wire \o Backlog`, with `Backlog` the rest of the replay that a handler is sending. The
parts of the invariant, each shown to survive every step by itself:

- `TurnInv` says where the running text is: in the buffer, whole or behind a part that a poll
  wrote, or at the end of the file. The end of the turn repeats it.
- `ReplayInv`: from a cleared dashboard, the messages of the file lead to a view that shows each
  event once and in order (`Faithful`), and that remembers the running text if nothing is
  buffered. A file with two texts in a row, which a poll in the middle of a text
  leaves, is excepted here, and its replay is `disturbed` (`TextCut`) in the properties.
- `Alone` and `Hearing`: one handler at a time is sending, and a dashboard that was sent the
  log hears what happens. `EmptyInv` is for a file with nothing in it, whose replay does not clear
  the dashboard.
- `FollowInv`: where what is coming leads to is `Fine`, which is to say that it shows everything but what was
  lost or cut, that a text being streamed is the last message, and that it remembers enough of
  it for the end of the turn to add nothing twice.

For `FollowInv` receiving a message and sending the next one change nothing (`FollowReceives`,
`FollowSendsNext`: the prediction stays as it is), a relay puts one message behind all that is coming
(`TokenFine`, `ToolFine`, `DoneFine`), and a handler that reads the log makes it the replay of the file
(`FollowReads`, by `ReplayInv`). That the replay is read at one moment and relays go out while it is being sent is
decided there. Theorems: `TypeCorrect`, `CaughtUpCorrect` and `ShownFaithfullyCorrect`, for any number of
events, handlers, polls, connections and restarts.

**Only model-checked.** Liveness under fairness (`EventuallySettled`,
`HungTurnAborted`, `DepthMaintained`, `StraysGo`, `UnusedSidecarGoes`, `RunsSettle`,
`DueIsFired`), which this prover does not do.

## 7. Where code and documents disagree

Shown by a run whose counterexample is a behaviour of the code:

- `manual_fires`: a tick gives every playbook without a next run the next time of its cron
  expression, whatever its trigger (`services/playbook-scheduler.ts:110-113`), and fires it
  then, though the comment at line 131 has manual and webhook playbooks not
  auto-scheduled. An expression that parses is needed; `''` does, and is what
  `mcp/platform-mcp.ts:134` tells an agent to pass for a playbook that is manual only.

Seen in the models, without a run of their own. Of tasks and sessions:

- `cancelTask` gives the slot of a running task back (`orchestrator.ts:616`), and the
  aborted dispatch gives it back again in its `finally` (702). With three tasks of a
  profile limited to one, two that nobody cancelled run at once (`ConcurrencyLimit`; the
  theorem `OvercommitBounded` says by how much).
- Neither `completeTask` nor `handleFailure` looks at the row before writing it: a cancelled
  task becomes done, failed, or queued again and is retried (`CancelledIsFinal`).
- `resurrect` takes over the row's `expires_at` (`session-registry.ts:410`); a session
  that expired is expired again by the next pass of the sweep, which removes the
  container of the task that woke it (`ComesBackToLast`).
- Two first tasks of a session both create and register a container; the first one's is on no
  record afterwards, and after 15 minutes the orphan sweep removes it under its turn
  (`TurnNotReaped` holds with one dispatch after another).
- A cancel is refused while its task is between `dequeue` and the entry in
  `activeTasks`, or in a retry timer (`CancelRefused`): the route answers that the task
  is completed or missing.
- A watchdog that fires before the agent starts has nothing to kill and is not armed again:
  with a timeout shorter than the set-up (`SetupFitsTimeout = FALSE`) a hung agent
  stays.
- A task whose first write (`running`) fails keeps its slot for ever
  (`orchestrator.ts:677`; `leaked`).
- Two concurrent claims make the pool one larger than `MaxSize` (`pool.ts:104`: the
  size is compared before an `await` and the entry added after it).
- A failed creation leaves the pool below its minimum until a dead container is
  replaced: the health check refills only after a removal (`pool.ts:216`).
- `terminate` keeps the container in the row. When its removal fails, the expired row
  shields the container from the orphan sweep (`session-registry.ts:490`): `Stray` therefore
  means "on no record".
- A session on a volume is paused on the clock alone, without asking for active tasks
  (`session-registry.ts:670`). With the default delays only a turn that is silent
  for 24 hours meets this.
- With the idle sweep a turn's container may be on no record: an expiry deletes the
  session by its id after its `await`, whatever has begun meanwhile (`session-registry.ts:647`).
  `TurnRecorded` is therefore checked and proved without the sweep, `RecordsAgree` without a
  remover (a detach during a register takes effect between its two writes), and `TurnNotReaped`
  without either.

Of VPN sidecars:

- A caller that finds an outdated entry with holders drops it from the map, and its sidecar
  is on no record any more: nothing but a restart's clean-up removes it
  (`orchestrator.ts:2922`; hence `updated` in the properties).
- An agent that leaves takes a holder from the tunnel's entry of the moment (2757), which
  after a change is not the one it holds: the new sidecar is removed under its agents.
- The clean-up at start removes every sidecar Docker lists (560), those in use
  by the surviving containers of sessions included.
- A hold is kept for ever when the agent's container cannot be created after
  `ensureVpnSidecar` counted it (2929), or is removed by someone other than
  `safeRemoveContainer`, which the comment at `pool.ts:273-274` has remove them in pairs.

Of events:

- `initSeq` is called by nothing, so numbers start again at 1 with the server
  (`events/event-log.ts:27`); a `workspace_events` cursor from before a restart skips what is logged
  after it until the numbers have caught up. `PolledInOrder` is about the time before.
- Live events overtake a replay at every text it signs, and an end of turn that is being
  signed may come after events that followed it, or twice. Two replays on one connection
  mix, and a poll in the middle of a text makes the log repeat it. `CaughtUp` and
  `ShownFaithfully` speak of replays without these (`disturbed`).

Of playbooks:

- A tick that overlaps another may fire from its copy of a row whose time the other has
  already advanced, once the first run is over: one due time, two runs one after
  the other (the comment at `playbook-scheduler.ts:123` has advancing the time prevent it).
- Runs by hand, by webhook and by agents ignore `runningPlaybooks`.
- A cancel that is accepted during the last chain ends as *completed*.
- `task:cancelled` is not listened to: the run of a cancelled task waits for its time-out.
- The listener of `task:failed` receives the session's id as error (`orchestrator.ts:2333`).
- A failed `setNextRunAt` between the mark and the run leaves the playbook marked until the
  next restart (`stuck`): it is never fired again.
- The scheduled run of a playbook deleted meanwhile rejects where nothing catches it, which ends the
  process (`ReturnsNothing`).
- Rows of runs that a restart interrupts say *running* for ever (status *lost*).

Elsewhere:

- `src/docs/SELF_HOST.md:212` gives 0 as the default of `POOL_MIN_SIZE`, which `config.ts:186` sets to 3.

## 8. Not modelled

`TaskDispatch` has an agent's run as one step: messages, tool calls, the goal
loop's rounds and questions to the user are inside it. It has no containers; those are
the pool's and the session's modules. `ContainerPool` starts with the pool `init`
has filled; it has at most the calls in flight its constants say. `SessionContainers`
has one session and neither pins, metadata, eviction of the
oldest paused session, nor the calls that wake a container outside a turn
(`ensure-running.ts`, `session.resume`); the orphan sweep's batch, warm and
sidecar containers, which the code tells apart by map or label, are left out.
`VpnSidecars` has one tunnel and leaves out which tunnel applies to a caller. `EventReplay`
leaves out the events of users and the kinds that do not matter for order, and dashboards other than
the workspace chat. `Playbooks` leaves out decisions, activity logs and the agent's
own submissions; a run by hand is the same for routes, webhooks and agents. Hazards
that are known and have no module: a goal loop's budget and cancel between rounds (`orchestrator.ts:1258`), two
approvals of one device code (`services/device-service.ts:125`), a container woken while the idle sweep
tears it down (`container/ensure-running.ts:30`), an eviction that does not look again after its
await (`session-registry.ts:794`), a batch container that grows old while its task works
(`pool.ts:272`). The remaining components of section 1 are not modelled; the reason for each is in `PROJECT.json`.

## 9. Plan

Order of the work, most important first; the first seven are done.

1. `TaskQueueOps`, `TaskQueue` refining `PriorityLanes`, and the proof that it does.
2. `TaskDispatch` and its proofs.
3. `ContainerPool` and its proofs.
4. `SessionContainers` and its proofs.
5. `VpnSidecars` and its proofs.
6. `EventReplay` and its proofs.
7. `Playbooks` and its proofs.
8. `GoalLoop`: rounds against cancel, budget and watchdog; composed with the dispatch's *exec* phase.
9. `DeviceFlow` and `LocalToolBridge`: two small protocols with concurrent calls.
10. In `SessionContainers`: the wake calls and eviction; batch containers in the orphan
    sweep (a batch task may run longer than the age at which its container becomes a candidate).
11. Proofs: a run's `TurnRecorded` with idle sweeps whose removals do not fail; what is left on record
    when two dispatches of one session overlap.
