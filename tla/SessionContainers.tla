------------------------- MODULE SessionContainers --------------------------
(***************************************************************************)
(* The container of one session: who creates, pauses, revives and removes  *)
(* it, and where it is on record.  Its record is an object of the session  *)
(* registry's map and a row of the workspaces table; the dispatches of the *)
(* session's tasks, the idle sweep, the calls that terminate, delete or    *)
(* detach, the orphan sweep of the pool and restarts all act on it, each   *)
(* suspended at every Docker call and database access.                     *)
(*                                                                         *)
(* An actor that was suspended goes on with the object it read before,     *)
(* which may have left the map: objects therefore have an identity.  A     *)
(* query takes effect when it is answered, and the last write of a call or *)
(* pass, which nothing follows, as soon as it is issued.                   *)
(***************************************************************************)
EXTENDS Naturals

CONSTANTS Containers, Objects,
          Dispatches,      \* tasks of the session that may be dispatched at once
          Sweeps,          \* passes of the idle sweep that may overlap
          Removers,        \* terminate, delete and detach calls; each makes one
          NoContainer, NoObject,
          Persistence,     \* is the session on a persistent volume? the answers considered
          MaxErrors,       \* bound: failing removals
          MaxRestarts      \* bound: server restarts

ASSUME NoneAssumption == NoContainer \notin Containers /\ NoObject \notin Objects
ASSUME PersistenceAssumption == Persistence \subseteq BOOLEAN
ASSUME BoundsAssumption == MaxErrors \in Nat /\ MaxRestarts \in Nat

VARIABLES
    map,         \* SessionRegistry.sessions: the session's object, if any
    obj,         \* its fields, and how long ago the session was active
    row,         \* the session's row in workspaces; status "none": no row
    docker,      \* a container in Docker: none, running, paused, exited
    aged,        \* containers older than ORPHAN_MIN_AGE_MS
    dispatch,    \* a dispatchSession call
    sweep,       \* a pass of SessionRegistry.sweep
    remover,     \* a terminate, delete or detach call
    orphans,     \* the pass of ContainerPool.sweepOrphans
    candidates,  \* ContainerPool.orphanCandidates
    persistent,  \* ... and the answer, which never changes
    errors, restarts

actorVars == <<dispatch, sweep, remover>>
orphanVars == <<orphans, candidates>>
boundVars == <<persistent, errors, restarts>>
vars == <<map, obj, row, docker, aged, actorVars, orphanVars, boundVars>>

MaybeContainer == Containers \cup {NoContainer}
MaybeObject == Objects \cup {NoObject}
Object == [cont : MaybeContainer,
           status : {"active", "idle", "paused", "resumable", "expired"},
           clock : {"fresh", "quiet", "stale"},  \* past the pause delay, past the idle TTL
           due : BOOLEAN]                        \* past its absolute expiry
NoRow == [cont |-> NoContainer, status |-> "none", due |-> FALSE]
NewObject(c, s) == [cont |-> c, status |-> s, clock |-> "fresh", due |-> FALSE]

NoDispatch == [step |-> "out", o |-> NoObject, c |-> NoContainer, again |-> FALSE]
NoSweep == [step |-> "idle", o |-> NoObject, c |-> NoContainer]
NoRemover == [step |-> "new", op |-> "none", c |-> NoContainer]
NoOrphans == [step |-> "idle", seen |-> {}, keep |-> {}, found |-> {}, todo |-> {}]

TypeOK ==
    /\ map \in MaybeObject
    /\ obj \in [Objects -> Object]
    /\ row \in [cont : MaybeContainer,
                status : {"none", "active", "paused", "resumable", "expired"}, due : BOOLEAN]
    /\ docker \in [Containers -> {"none", "running", "paused", "exited"}]
    /\ aged \subseteq Containers
    /\ dispatch \in [Dispatches ->
         [step : {"out", "resurrecting", "resurrected", "touching", "probing", "unpausing",
                  "discarding", "creating", "created", "registering", "reassigning", "exec", "running",
                  "reviving"},
          o : MaybeObject, c : MaybeContainer, again : BOOLEAN]]
    /\ sweep \in [Sweeps ->
         [step : {"idle", "turn", "pausing", "paused", "tearing", "torn", "expiring",
                  "expired"},
          o : MaybeObject, c : MaybeContainer]]
    /\ remover \in [Removers ->
         [step : {"new", "removing", "writing", "answered"},
          op : {"none", "terminate", "delete", "detach"}, c : MaybeContainer]]
    /\ orphans \in [step : {"idle", "reading", "reaping"}, seen : SUBSET Containers,
                    keep : SUBSET MaybeContainer, found : SUBSET Containers,
                    todo : SUBSET Containers]
    /\ candidates \subseteq Containers
    /\ persistent \in Persistence /\ errors \in 0..MaxErrors /\ restarts \in 0..MaxRestarts

\* The session has not been used yet.
Init ==
    /\ map = NoObject
    /\ obj = [o \in Objects |-> NewObject(NoContainer, "resumable")]
    /\ row = NoRow
    /\ docker = [c \in Containers |-> "none"] /\ aged = {}
    /\ dispatch = [d \in Dispatches |-> NoDispatch]
    /\ sweep = [s \in Sweeps |-> NoSweep]
    /\ remover = [r \in Removers |-> NoRemover]
    /\ orphans = NoOrphans /\ candidates = {}
    /\ persistent \in Persistence /\ errors = 0 /\ restarts = 0
-----------------------------------------------------------------------------
(* Objects, rows and Docker.                                               *)

\* A new object, a new container: names nothing refers to.
FreshObjects == {o \in Objects : /\ o # map
                                 /\ \A d \in Dispatches : dispatch[d].o # o
                                 /\ \A s \in Sweeps : sweep[s].o # o}

Named == {row.cont} \cup orphans.seen \cup orphans.keep \cup orphans.found \cup candidates
         \cup {obj[o].cont : o \in Objects \ FreshObjects}
         \cup {dispatch[d].c : d \in Dispatches} \cup {sweep[s].c : s \in Sweeps}
         \cup {remover[r].c : r \in Removers}
FreshContainers == {c \in Containers \ Named : docker[c] = "none"}

\* An UPDATE of the session's row finds no row after a delete.
Updated(s) == IF row.status = "none" THEN row ELSE [row EXCEPT !.status = s]
\* Mutant: the container's column is forgotten.
ReassignedStatus(c, s) == Updated(s)
Reassigned(c, s) == IF row.status = "none" THEN row ELSE [row EXCEPT !.cont = c, !.status = s]

\* updateActivity on the session in the map, its write not awaited.
Touch ==
    IF map = NoObject THEN UNCHANGED <<obj, row>>
    ELSE /\ obj' = [obj EXCEPT ![map].status = "active", ![map].clock = "fresh"]
         /\ row' = Updated("active")

\* removeContainer(id, force) has answered; its callers ignore a failure.
Removed(c) ==
    /\ \/ docker' = [docker EXCEPT ![c] = "none"] /\ aged' = aged \ {c} /\ UNCHANGED errors
       \/ /\ docker[c] # "none" /\ errors < MaxErrors
          /\ errors' = errors + 1 /\ UNCHANGED <<docker, aged>>
    /\ UNCHANGED <<persistent, restarts>>
-----------------------------------------------------------------------------
(* dispatchSession.                                                        *)

Goes(d, s) == dispatch' = [dispatch EXCEPT ![d].step = s]
Ends(d) == dispatch' = [dispatch EXCEPT ![d] = NoDispatch]

\* The task's entry in activeTasks.
Active(d) == dispatch[d].step \in {"exec", "running", "reviving"} \/ dispatch[d].again
HasActiveTask == \E d \in Dispatches : Active(d)

\* A message to a session the map does not hold: the WebSocket handler reads
\* its row first.
ResurrectReads(d) ==
    /\ dispatch[d].step = "out" /\ map = NoObject /\ row.status # "none"
    /\ Goes(d, "resurrecting")
    /\ UNCHANGED <<map, obj, row, docker, aged, sweep, remover, orphanVars, boundVars>>

\* The row is there: a new object enters the map, whatever is there by now,
\* with the expiry the row has.
Resurrects(d) ==
    /\ dispatch[d].step = "resurrecting"
    /\ IF row.status = "none" THEN Ends(d) /\ UNCHANGED <<map, obj>>
       ELSE \E o \in FreshObjects : /\ map' = o
                                    /\ obj' = [obj EXCEPT ![o] =
                                           [NewObject(NoContainer, "resumable") EXCEPT !.due = row.due]]
                                    /\ Goes(d, "resurrected")
    /\ UNCHANGED <<row, docker, aged, sweep, remover, orphanVars, boundVars>>

Resurrected(d) ==
    /\ dispatch[d].step = "resurrected"
    /\ row' = Reassigned(NoContainer, "resumable")
    /\ Ends(d)
    /\ UNCHANGED <<map, obj, docker, aged, sweep, remover, orphanVars, boundVars>>

\* The session is read once; the dispatch keeps the object.
Begins(d) ==
    /\ dispatch[d].step = "out"
    /\ IF map = NoObject
       THEN Goes(d, "creating") /\ UNCHANGED obj
       ELSE /\ obj' = [obj EXCEPT ![map].status = "active", ![map].clock = "fresh"]
            /\ dispatch' = [dispatch EXCEPT ![d] = [NoDispatch EXCEPT !.step = "touching", !.o = map]]
    /\ UNCHANGED <<map, row, docker, aged, sweep, remover, orphanVars, boundVars>>

Touched(d) ==
    LET c == obj[dispatch[d].o].cont IN
    /\ dispatch[d].step = "touching"
    /\ row' = Updated("active")
    /\ dispatch' = [dispatch EXCEPT ![d].c = c,
                      ![d].step = IF c = NoContainer THEN "creating" ELSE "probing"]
    /\ UNCHANGED <<map, obj, docker, aged, sweep, remover, orphanVars, boundVars>>

ProbedRunning(d) ==
    /\ dispatch[d].step = "probing" /\ docker[dispatch[d].c] = "running"
    /\ Touch /\ Goes(d, "exec")
    /\ UNCHANGED <<map, docker, aged, sweep, remover, orphanVars, boundVars>>

ProbedPaused(d) ==
    /\ dispatch[d].step = "probing" /\ docker[dispatch[d].c] = "paused"
    /\ Goes(d, "unpausing")
    /\ UNCHANGED <<map, obj, row, docker, aged, sweep, remover, orphanVars, boundVars>>

\* What is removed is the container the object names when the answer comes.
Discards(d) ==
    LET c == obj[dispatch[d].o].cont IN
    dispatch' = [dispatch EXCEPT ![d].c = c,
                   ![d].step = IF c = NoContainer THEN "creating" ELSE "discarding"]

ProbedDead(d) ==
    /\ dispatch[d].step = "probing" /\ docker[dispatch[d].c] \in {"none", "exited"}
    /\ Discards(d)
    /\ UNCHANGED <<map, obj, row, docker, aged, sweep, remover, orphanVars, boundVars>>

Unpaused(d) ==
    LET c == dispatch[d].c IN
    /\ dispatch[d].step = "unpausing" /\ docker[c] = "paused"
    /\ docker' = [docker EXCEPT ![c] = "running"]
    /\ Touch /\ Goes(d, "exec")
    /\ UNCHANGED <<map, aged, sweep, remover, orphanVars, boundVars>>

\* Docker refuses to unpause what is not paused; the dispatch fails.
UnpauseFails(d) ==
    /\ dispatch[d].step = "unpausing" /\ docker[dispatch[d].c] # "paused"
    /\ Ends(d)
    /\ UNCHANGED <<map, obj, row, docker, aged, sweep, remover, orphanVars, boundVars>>

Discarded(d) ==
    /\ dispatch[d].step = "discarding" /\ Removed(dispatch[d].c)
    /\ Goes(d, "creating")
    /\ UNCHANGED <<map, obj, row, sweep, remover, orphanVars>>

CreateFails(d) ==
    /\ dispatch[d].step = "creating"
    /\ Ends(d)
    /\ UNCHANGED <<map, obj, row, docker, aged, sweep, remover, orphanVars, boundVars>>

\* The container exists before the dispatch has an answer.
Creates(d) ==
    /\ dispatch[d].step = "creating"
    /\ \E c \in FreshContainers :
         /\ docker' = [docker EXCEPT ![c] = "running"]
         /\ dispatch' = [dispatch EXCEPT ![d].step = "created", ![d].c = c]
    /\ UNCHANGED <<map, obj, row, aged, sweep, remover, orphanVars, boundVars>>

\* register puts a new object into the map before it writes the row.
Registers(d) ==
    LET c == dispatch[d].c IN
    /\ dispatch[d].step = "created" /\ dispatch[d].o = NoObject
    /\ \E o \in FreshObjects :
         /\ map' = o /\ obj' = [obj EXCEPT ![o] = NewObject(c, "active")]
         /\ dispatch' = [dispatch EXCEPT ![d].step = "registering", ![d].o = o]
    /\ UNCHANGED <<row, docker, aged, sweep, remover, orphanVars, boundVars>>

\* Revive or insert.
Registered(d) ==
    /\ dispatch[d].step = "registering"
    /\ row' = [cont |-> dispatch[d].c, status |-> "active", due |-> FALSE]
    /\ Goes(d, "exec")
    /\ UNCHANGED <<map, obj, docker, aged, sweep, remover, orphanVars, boundVars>>

\* Mutant: the new container is put on no record.
ReassignsNothing(d) ==
    /\ dispatch[d].step = "created" /\ dispatch[d].o # NoObject
    /\ Goes(d, "exec")
    /\ UNCHANGED <<map, obj, row, docker, aged, sweep, remover, orphanVars, boundVars>>

\* reassignContainer acts on the session in the map, and on nothing when the
\* map has none; the dispatch then sets its own object's container.
Reassigns(d) ==
    LET o == dispatch[d].o  c == dispatch[d].c IN
    /\ dispatch[d].step = "created" /\ o # NoObject
    /\ \/ map = NoObject /\ obj' = [obj EXCEPT ![o].cont = c] /\ Goes(d, "exec")
       \/ /\ map # NoObject /\ obj' = [obj EXCEPT ![map].cont = c, ![map].status = "active"]
          /\ Goes(d, "reassigning")
    /\ UNCHANGED <<map, row, docker, aged, sweep, remover, orphanVars, boundVars>>

ReassignWritten(d) ==
    /\ dispatch[d].step = "reassigning"
    /\ row' = Reassigned(dispatch[d].c, "active")
    /\ obj' = [obj EXCEPT ![dispatch[d].o].cont = dispatch[d].c]
    /\ Goes(d, "exec")
    /\ UNCHANGED <<map, docker, aged, sweep, remover, orphanVars, boundVars>>

ExecStarts(d) ==
    /\ dispatch[d].step = "exec" /\ docker[dispatch[d].c] = "running"
    /\ Goes(d, "running")
    /\ UNCHANGED <<map, obj, row, docker, aged, sweep, remover, orphanVars, boundVars>>

\* "container is not running": revived once, unless it is dead for good.
ExecRefused(d) ==
    LET c == dispatch[d].c IN
    /\ dispatch[d].step = "exec" /\ docker[c] # "running"
    /\ IF ~dispatch[d].again /\ (persistent \/ docker[c] = "paused")
       THEN dispatch' = [dispatch EXCEPT ![d].step = "reviving", ![d].again = TRUE]
       ELSE Ends(d)
    /\ UNCHANGED <<map, obj, row, docker, aged, sweep, remover, orphanVars, boundVars>>

Revives(d) ==
    LET c == dispatch[d].c IN
    /\ dispatch[d].step = "reviving"
    /\ \/ docker[c] = "running" /\ Goes(d, "exec")
       \/ docker[c] = "paused" /\ Goes(d, "unpausing")
       \/ docker[c] \in {"none", "exited"} /\ persistent /\ Discards(d)
       \/ docker[c] \in {"none", "exited"} /\ ~persistent /\ Ends(d)
    /\ UNCHANGED <<map, obj, row, docker, aged, sweep, remover, orphanVars, boundVars>>

\* The turn ends; so it does when its container is gone.  A paused container's
\* turn stands still.
TurnEnds(d) ==
    /\ dispatch[d].step = "running" /\ docker[dispatch[d].c] # "paused"
    /\ IF docker[dispatch[d].c] = "running" THEN Touch ELSE UNCHANGED <<obj, row>>
    /\ Ends(d)
    /\ UNCHANGED <<map, docker, aged, sweep, remover, orphanVars, boundVars>>
-----------------------------------------------------------------------------
(* The idle sweep: a pass reaches this session's object some time after it *)
(* took the map's entries, having awaited other sessions' containers.      *)

SweepAt(s, st) == sweep' = [sweep EXCEPT ![s].step = st]
SweepHas(s, st) == sweep' = [sweep EXCEPT ![s].step = st, ![s].c = obj[sweep[s].o].cont]
SweepDone(s) == sweep' = [sweep EXCEPT ![s] = NoSweep]

SweepStarts(s) ==
    /\ sweep[s].step = "idle" /\ map # NoObject
    /\ sweep' = [sweep EXCEPT ![s] = [NoSweep EXCEPT !.step = "turn", !.o = map]]
    /\ UNCHANGED <<map, obj, row, docker, aged, dispatch, remover, orphanVars, boundVars>>

\* The status the pass sees: stale and active is idle, whoever pauses it next.
Seen(o) == IF obj[o].status = "active" /\ obj[o].clock = "stale" THEN "idle" ELSE obj[o].status

\* A persistent session is paused when idle, another when it is merely quiet
\* and no task is active in it.
PauseDue(o) ==
    /\ obj[o].cont # NoContainer
    /\ IF persistent THEN Seen(o) = "idle"
       ELSE Seen(o) = "active" /\ obj[o].clock = "quiet" /\ ~HasActiveTask

TeardownDue(o) ==
    /\ obj[o].cont # NoContainer /\ ~persistent
    /\ Seen(o) \in {"idle", "paused"} /\ obj[o].clock = "stale" /\ ~HasActiveTask

\* Mutant: the status of the object goes to the row as it is.
SweepSkipsWrites(s) ==
    LET o == sweep[s].o IN
    /\ sweep[s].step = "turn" /\ ~obj[o].due /\ ~PauseDue(o) /\ ~TeardownDue(o)
    /\ obj' = [obj EXCEPT ![o].status = Seen(o)] /\ row' = Updated(Seen(o))
    /\ SweepDone(s)
    /\ UNCHANGED <<map, docker, aged, dispatch, remover, orphanVars, boundVars>>

\* A session with a WebSocket connection is never idle.
SweepSkips(s) ==
    LET o == sweep[s].o IN
    /\ sweep[s].step = "turn" /\ ~obj[o].due
    /\ \/ obj' = [obj EXCEPT ![o].status = IF @ = "idle" THEN "active" ELSE @]
       \/ ~PauseDue(o) /\ ~TeardownDue(o) /\ obj' = [obj EXCEPT ![o].status = Seen(o)]
    /\ SweepDone(s)
    /\ UNCHANGED <<map, row, docker, aged, dispatch, remover, orphanVars, boundVars>>

SweepPauses(s) ==
    LET o == sweep[s].o IN
    /\ sweep[s].step = "turn" /\ ~obj[o].due /\ PauseDue(o)
    /\ obj' = [obj EXCEPT ![o].status = Seen(o)]
    /\ SweepHas(s, "pausing")
    /\ UNCHANGED <<map, row, docker, aged, dispatch, remover, orphanVars, boundVars>>

\* Docker pauses the container, or refuses and the pass leaves it.
DockerPauses(s) ==
    LET c == sweep[s].c IN
    /\ sweep[s].step = "pausing"
    /\ IF docker[c] = "running"
       THEN docker' = [docker EXCEPT ![c] = "paused"] /\ SweepAt(s, "paused")
       ELSE SweepDone(s) /\ UNCHANGED docker
    /\ UNCHANGED <<map, obj, row, aged, dispatch, remover, orphanVars, boundVars>>

PauseAnswered(s) ==
    /\ sweep[s].step = "paused"
    /\ obj' = [obj EXCEPT ![sweep[s].o].status = "paused"]
    /\ row' = Updated("paused")
    /\ SweepDone(s)
    /\ UNCHANGED <<map, docker, aged, dispatch, remover, orphanVars, boundVars>>

SweepTearsDown(s) ==
    LET o == sweep[s].o IN
    /\ sweep[s].step = "turn" /\ ~obj[o].due /\ TeardownDue(o)
    /\ obj' = [obj EXCEPT ![o].status = Seen(o)]
    /\ SweepHas(s, "tearing")
    /\ UNCHANGED <<map, row, docker, aged, dispatch, remover, orphanVars, boundVars>>

SweepExpires(s) ==
    /\ sweep[s].step = "turn" /\ obj[sweep[s].o].due
    /\ IF obj[sweep[s].o].cont = NoContainer THEN SweepAt(s, "expired") ELSE SweepHas(s, "expiring")
    /\ UNCHANGED <<map, obj, row, docker, aged, dispatch, remover, orphanVars, boundVars>>

SweepRemoves(s) ==
    /\ \/ sweep[s].step = "tearing" /\ SweepAt(s, "torn")
       \/ sweep[s].step = "expiring" /\ SweepAt(s, "expired")
    /\ Removed(sweep[s].c)
    /\ UNCHANGED <<map, obj, row, dispatch, remover, orphanVars>>

\* Not looked at again after the await: the object's container may be another.
TeardownAnswered(s) ==
    /\ sweep[s].step = "torn"
    /\ obj' = [obj EXCEPT ![sweep[s].o].status = "resumable", ![sweep[s].o].cont = NoContainer]
    /\ row' = Reassigned(NoContainer, "resumable")
    /\ SweepDone(s)
    /\ UNCHANGED <<map, docker, aged, dispatch, remover, orphanVars, boundVars>>

\* Deleted from the map by its id, whatever object is there.
ExpiryAnswered(s) ==
    /\ sweep[s].step = "expired"
    /\ obj' = [obj EXCEPT ![sweep[s].o].status = "expired"]
    /\ map' = NoObject /\ row' = Reassigned(NoContainer, "expired")
    /\ SweepDone(s)
    /\ UNCHANGED <<docker, aged, dispatch, remover, orphanVars, boundVars>>
-----------------------------------------------------------------------------
(* terminate and delete of WorkspaceService, detachSessionContainer.       *)

RemoverStarts(r) ==
    /\ remover[r].step = "new" /\ map # NoObject
    /\ \E op \in {"terminate", "delete", "detach"} :
         /\ op = "detach" => obj[map].cont # NoContainer
         /\ remover' = [remover EXCEPT ![r] =
              [step |-> IF obj[map].cont = NoContainer THEN "writing" ELSE "removing",
               op |-> op, c |-> obj[map].cont]]
    /\ UNCHANGED <<map, obj, row, docker, aged, dispatch, sweep, orphanVars, boundVars>>

RemoverRemoves(r) ==
    /\ remover[r].step = "removing" /\ Removed(remover[r].c)
    /\ remover' = [remover EXCEPT ![r].step = "writing"]
    /\ UNCHANGED <<map, obj, row, dispatch, sweep, orphanVars>>

\* terminate leaves the container in the row, delete deletes the row, detach
\* clears the container of the session in the map.
RemoverWrites(r) ==
    /\ remover[r].step = "writing"
    /\ \/ /\ remover[r].op = "terminate"
          /\ map' = NoObject /\ row' = Updated("expired") /\ UNCHANGED obj
       \/ /\ remover[r].op = "delete"
          /\ map' = NoObject /\ row' = NoRow
          /\ UNCHANGED obj
       \/ /\ remover[r].op = "detach"
          /\ IF map = NoObject THEN UNCHANGED <<obj, row>>
             ELSE /\ obj' = [obj EXCEPT ![map].cont = NoContainer, ![map].status = "resumable"]
                  /\ row' = Reassigned(NoContainer, "resumable")
          /\ UNCHANGED map
    /\ remover' = [remover EXCEPT ![r] = [step |-> "answered", op |-> "none", c |-> NoContainer]]
    /\ UNCHANGED <<docker, aged, dispatch, sweep, orphanVars, boundVars>>
-----------------------------------------------------------------------------
(* The orphan sweep.                                                       *)

OrphansListed ==
    /\ orphans.step = "idle"
    /\ orphans' = [NoOrphans EXCEPT !.step = "reading",
                     !.seen = {c \in Containers : docker[c] # "none"},
                     !.keep = IF map = NoObject THEN {} ELSE {obj[map].cont}]
    /\ \E c \in Containers : docker[c] # "none"
    /\ UNCHANGED <<map, obj, row, docker, aged, actorVars, candidates, boundVars>>

\* Mutant: the rows are not consulted.
KnownToMap == orphans.keep
\* Tracked in the map when the containers were listed, or in a row now.
Known == orphans.keep \cup {row.cont}

\* Mutant: without the age.
OrphansFoundYoung ==
    /\ orphans.step = "reading"
    /\ LET found == orphans.seen \ Known IN
         orphans' = [NoOrphans EXCEPT !.step = "reaping", !.found = found,
                       !.todo = found \cap candidates]
    /\ UNCHANGED <<map, obj, row, docker, aged, actorVars, candidates, boundVars>>

OrphansFound ==
    /\ orphans.step = "reading"
    /\ LET found == (orphans.seen \cap aged) \ Known IN
         orphans' = [NoOrphans EXCEPT !.step = "reaping", !.found = found,
                       !.todo = found \cap candidates]
    /\ UNCHANGED <<map, obj, row, docker, aged, actorVars, candidates, boundVars>>

\* The rows cannot be read: nothing is removed.
OrphansUnknown ==
    /\ orphans.step = "reading"
    /\ orphans' = NoOrphans
    /\ UNCHANGED <<map, obj, row, docker, aged, actorVars, candidates, boundVars>>

OrphanReaped(c) ==
    /\ orphans.step = "reaping" /\ c \in orphans.todo
    /\ Removed(c)
    /\ orphans' = [orphans EXCEPT !.todo = @ \ {c}]
    /\ UNCHANGED <<map, obj, row, actorVars, candidates>>

\* Mutant: the strikes are forgotten.
OrphansEndForgets ==
    /\ orphans.step = "reaping" /\ orphans.todo = {}
    /\ candidates' = {}
    /\ orphans' = NoOrphans
    /\ UNCHANGED <<map, obj, row, docker, aged, actorVars, boundVars>>

OrphansEnd ==
    /\ orphans.step = "reaping" /\ orphans.todo = {}
    /\ candidates' = orphans.found
    /\ orphans' = NoOrphans
    /\ UNCHANGED <<map, obj, row, docker, aged, actorVars, boundVars>>
-----------------------------------------------------------------------------
(* Time, failing containers, restarts.                                     *)

\* Minutes pass only while nobody waits for Docker or the database.
AtRest == /\ \A d \in Dispatches : dispatch[d].step \in {"out", "exec", "running"}
          /\ \A s \in Sweeps : sweep[s].step = "idle"
          /\ \A r \in Removers : remover[r].step \in {"new", "answered"}
          /\ orphans.step = "idle"

Quiets(o) ==
    /\ AtRest /\ o \notin FreshObjects /\ obj[o].clock # "stale"
    /\ obj' = [obj EXCEPT ![o].clock = IF @ = "fresh" THEN "quiet" ELSE "stale"]
    /\ UNCHANGED <<map, row, docker, aged, actorVars, orphanVars, boundVars>>

\* The absolute expiry of an object, or of the row alone, is reached.
Lapses(o) ==
    /\ AtRest /\ o \notin FreshObjects /\ ~obj[o].due
    /\ obj' = [obj EXCEPT ![o].due = TRUE]
    /\ row' = [row EXCEPT !.due = @ \/ o = map]
    /\ UNCHANGED <<map, docker, aged, actorVars, orphanVars, boundVars>>

RowLapses ==
    /\ AtRest /\ map = NoObject /\ row.status # "none" /\ ~row.due
    /\ row' = [row EXCEPT !.due = TRUE]
    /\ UNCHANGED <<map, obj, docker, aged, actorVars, orphanVars, boundVars>>

\* No call and no pass waits as long as ORPHAN_MIN_AGE_MS for an answer.
Ages(c) ==
    /\ docker[c] # "none" /\ c \notin aged /\ orphans.step = "idle"
    /\ \A d \in Dispatches : dispatch[d].c = c => dispatch[d].step \in {"exec", "running"}
    /\ aged' = aged \cup {c}
    /\ UNCHANGED <<map, obj, row, docker, actorVars, orphanVars, boundVars>>

Dies(c) ==
    /\ docker[c] = "running"
    /\ docker' = [docker EXCEPT ![c] = "exited"]
    /\ UNCHANGED <<map, obj, row, aged, actorVars, orphanVars, boundVars>>

\* loadFromDB: a live row whose container is gone becomes resumable; then the
\* first orphan sweep only notes its candidates.
Restart ==
    /\ restarts < MaxRestarts /\ restarts' = restarts + 1
    /\ IF row.status \in {"none", "expired"}
       THEN map' = NoObject /\ UNCHANGED <<obj, row>>
       ELSE \E o \in Objects, k \in {"fresh", "quiet", "stale"} :
              LET up == row.cont # NoContainer /\ docker[row.cont] \in {"running", "paused"} IN
              /\ map' = o
              /\ row' = IF up THEN row ELSE Reassigned(NoContainer, "resumable")
              /\ obj' = [obj EXCEPT ![o] = [NewObject(row'.cont, row'.status) EXCEPT
                                               !.clock = k, !.due = row.due]]
    /\ candidates' = {c \in aged : docker[c] # "none" /\ c # row'.cont}
    /\ orphans' = NoOrphans
    /\ dispatch' = [d \in Dispatches |-> NoDispatch]
    /\ sweep' = [s \in Sweeps |-> NoSweep]
    /\ remover' = [r \in Removers |-> [NoRemover EXCEPT !.step =
                     IF remover[r].step = "new" THEN "new" ELSE "answered"]]
    /\ UNCHANGED <<docker, aged, persistent, errors>>
-----------------------------------------------------------------------------
DispatchStep(d) ==
    \/ ResurrectReads(d) \/ Resurrects(d) \/ Resurrected(d) \/ Begins(d) \/ Touched(d)
    \/ ProbedRunning(d) \/ ProbedPaused(d) \/ ProbedDead(d) \/ Unpaused(d) \/ UnpauseFails(d)
    \/ Discarded(d) \/ CreateFails(d) \/ Creates(d) \/ Registers(d) \/ Registered(d) \/ Reassigns(d)
    \/ ReassignWritten(d) \/ ExecStarts(d) \/ ExecRefused(d) \/ Revives(d) \/ TurnEnds(d)

SweepStep(s) ==
    \/ SweepStarts(s) \/ SweepSkips(s) \/ SweepPauses(s) \/ DockerPauses(s) \/ PauseAnswered(s)
    \/ SweepTearsDown(s) \/ SweepExpires(s) \/ SweepRemoves(s) \/ TeardownAnswered(s)
    \/ ExpiryAnswered(s)

RemoverStep(r) == RemoverStarts(r) \/ RemoverRemoves(r) \/ RemoverWrites(r)

OrphanStep ==
    OrphansListed \/ OrphansFound \/ (\E c \in Containers : OrphanReaped(c)) \/ OrphansEnd

Next == \/ \E d \in Dispatches : DispatchStep(d)
        \/ \E s \in Sweeps : SweepStep(s)
        \/ \E r \in Removers : RemoverStep(r)
        \/ OrphanStep \/ OrphansUnknown
        \/ \E o \in Objects : Quiets(o) \/ Lapses(o)
        \/ RowLapses
        \/ \E c \in Containers : Ages(c) \/ Dies(c)
        \/ Restart

Spec == Init /\ [][Next]_vars

\* The orphan sweep runs on a timer, containers age, and its query of the rows,
\* made every five minutes, does not fail for ever.
FairSpec == /\ Spec
            /\ WF_vars(OrphanStep) /\ SF_vars(OrphansFound)
            /\ \A c \in Containers : SF_vars(Ages(c))
-----------------------------------------------------------------------------
(* Properties.                                                             *)

Turn(d, c) == dispatch[d].step = "running" /\ dispatch[d].c = c /\ docker[c] = "running"

\* The orphan sweep, which works from a list and a query made some time ago,
\* takes no container that a row or the map names by then or that a dispatch
\* has created and is about to put on record.
OwnedNotReaped ==
    [][\A c \in Containers : OrphanReaped(c) =>
          /\ c # row.cont /\ (map # NoObject => c # obj[map].cont)
          /\ \A d \in Dispatches : dispatch[d].c = c =>
               dispatch[d].step \notin {"created", "registering", "reassigning"}]_vars

\* "This version is safe to run continuously" (pool.ts, ContainerPool.init):
\* the orphan sweep takes no container a turn is running in.
TurnNotReaped ==
    [][\A d \in Dispatches, c \in Containers : Turn(d, c) => ~OrphanReaped(c)]_vars

\* Between them the registry's map and the table know one container: at rest
\* the session's object and its row name the same, whatever calls, passes and
\* failures came between their two writes.
RecordsAgree ==
    AtRest /\ map # NoObject => row.status # "none" /\ row.cont = obj[map].cont

\* A container a turn runs in is on record at rest, in the row or in the map,
\* so that terminate, delete, the idle sweep and a restart can find it.
TurnRecorded ==
    AtRest => \A d \in Dispatches, c \in Containers :
                Turn(d, c) => c = row.cont \/ (map # NoObject /\ obj[map].cont = c)

\* "Bring an expired session back into the live in-memory Map so the
\* orchestrator's normal task-dispatch path ... will provision a fresh container
\* for the next task" (session-registry.ts, resurrect): a session that comes
\* back is not already due for the next pass of the idle sweep, which would
\* expire it and remove that container.  Does not hold, the expiry that passed
\* comes back with it.
ComesBackToLast ==
    [][\A d \in Dispatches : Resurrects(d) /\ map' # NoObject => ~obj'[map'].due]_vars

\* A container that no record names and no dispatch works with.
Stray(c) ==
    /\ docker[c] # "none" /\ c # row.cont /\ (map # NoObject => obj[map].cont # c)
    /\ \A d \in Dispatches : dispatch[d].c # c

\* What failing removals, crashes and lost sessions leave behind is found: a
\* stray container does not stay one for ever.
StraysGo == \A c \in Containers : Stray(c) ~> ~Stray(c)
=============================================================================
