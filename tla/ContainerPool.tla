--------------------------- MODULE ContainerPool ----------------------------
(***************************************************************************)
(* The pool of warm containers of container/pool.ts: claim, release, the   *)
(* health check, the drain of old idle containers and shutdown, each       *)
(* suspended while it waits for Docker and interleaved with the others.    *)
(* A Docker call may fail; an error in a health check, which no handler    *)
(* catches, ends the process.                                              *)
(*                                                                         *)
(* Users are the pooled dispatches.  setInterval starts a pass whether or  *)
(* not the one before has ended: Checks and Drains are the passes that may *)
(* run at once.                                                            *)
(***************************************************************************)
EXTENDS Naturals, FiniteSets

CONSTANTS Containers,      \* names of containers
          Users, Checks, Drains,
          NoContainer,
          MinSize, MaxSize, MaxRecycles,
          MaxErrors        \* bound: Docker calls that fail

ASSUME FiniteAssumption == IsFiniteSet(Containers) /\ IsFiniteSet(Users)
ASSUME NoContainerAssumption == NoContainer \notin Containers
ASSUME SizesAssumption == /\ MinSize \in Nat /\ MaxSize \in Nat
                          /\ MaxRecycles \in Nat \ {0} /\ MaxErrors \in Nat

VARIABLES
    pool,     \* keys of ContainerPool.containers
    busy,     \* of these, the entries with status "busy"
    old,      \* containers whose lastUsed is past the drain threshold
    uses,     \* recycleCount of a container's entry
    docker,   \* the container in Docker: none, running, dead
    user,     \* a pooled dispatch: its step and its container
    check,    \* a health check pass: its step, container and remaining ones
    drain,    \* a drain pass: the same
    server,   \* up, closing (shutdown has run) or crashed
    closing,  \* containers whose removal shutdown awaits
    errors,
    strays    \* history: containers a failed Docker call left behind

passVars == <<check, drain>>
hostVars == <<server, closing>>
vars == <<pool, busy, old, uses, docker, user, passVars, server, closing, errors,
          strays>>

NoPass == [step |-> "idle", c |-> NoContainer, todo |-> {}]
Holding == {"using", "cleaning"}

TypeOK ==
    /\ pool \subseteq Containers /\ busy \subseteq pool /\ old \subseteq pool
    /\ uses \in [Containers -> 0..(MaxRecycles - 1)]
    /\ docker \in [Containers -> {"none", "running", "dead"}]
    /\ user \in [Users -> [step : {"out", "creating", "using", "cleaning",
                                   "removing", "replacing"},
                           c : Containers \cup {NoContainer}]]
    /\ check \in [Checks -> [step : {"idle", "asking", "removing", "replacing"},
                             c : Containers \cup {NoContainer}, todo : SUBSET Containers]]
    /\ drain \in [Drains -> [step : {"idle", "removing"},
                             c : Containers \cup {NoContainer}, todo : SUBSET Containers]]
    /\ server \in {"up", "closing", "crashed"} /\ closing \subseteq Containers
    /\ errors \in 0..MaxErrors
    /\ strays \subseteq Containers

\* init() has filled the pool to its minimum.
Init ==
    /\ pool \in {S \in SUBSET Containers : Cardinality(S) = MinSize}
    /\ busy = {} /\ old = {}
    /\ uses = [c \in Containers |-> 0]
    /\ docker = [c \in Containers |-> IF c \in pool THEN "running" ELSE "none"]
    /\ user = [u \in Users |-> [step |-> "out", c |-> NoContainer]]
    /\ check = [h \in Checks |-> NoPass] /\ drain = [d \in Drains |-> NoPass]
    /\ server = "up" /\ closing = {}
    /\ errors = 0
    /\ strays = {}
-----------------------------------------------------------------------------
(* Creating and destroying a container.                                    *)

\* Docker gives a new container a name that nothing refers to any more.
Fresh == {c \in Containers :
            /\ docker[c] = "none" /\ c \notin pool \cup closing
            /\ \A u \in Users : user[u].c # c
            /\ \A h \in Checks : c # check[h].c /\ c \notin check[h].todo
            /\ \A d \in Drains : c # drain[d].c /\ c \notin drain[d].todo}

\* createOne: the entry appears when the container has started.
Created(c) ==
    /\ c \in Fresh
    /\ pool' = pool \cup {c}
    /\ docker' = [docker EXCEPT ![c] = "running"]
    /\ UNCHANGED <<old, uses>>

\* createOne throws; a container that was created and did not start is left.
CreationFails ==
    /\ errors < MaxErrors /\ errors' = errors + 1
    /\ \/ UNCHANGED <<docker, strays>>
       \/ \E c \in Fresh : /\ docker' = [docker EXCEPT ![c] = "dead"]
                           /\ strays' = strays \cup {c}
    /\ UNCHANGED <<pool, busy, old, uses, server>>

\* destroyContainer deletes the entry before it asks Docker.
Untracks(c) ==
    /\ pool' = pool \ {c} /\ busy' = busy \ {c}
    /\ old' = old \ {c} /\ uses' = [uses EXCEPT ![c] = 0]

\* Docker has answered the removal, whose failure is ignored.
RemovalAnswered(c) ==
    /\ \/ docker' = [docker EXCEPT ![c] = "none"] /\ UNCHANGED <<errors, strays>>
       \/ /\ docker[c] # "none" /\ errors < MaxErrors
          /\ errors' = errors + 1 /\ strays' = strays \cup {c}
          /\ UNCHANGED docker
    /\ UNCHANGED <<pool, busy, old, uses, server>>
-----------------------------------------------------------------------------
(* claim and release.                                                      *)

Goes(u, s, c) == user' = [user EXCEPT ![u] = [step |-> s, c |-> c]]
Claims(u) == server # "crashed" /\ user[u].step = "out"

\* Mutant: the entry found idle is not marked busy.
ClaimUnmarked(u) ==
    /\ Claims(u)
    /\ \E c \in pool \ busy : Goes(u, "using", c)
    /\ UNCHANGED <<pool, busy, old, uses, docker, passVars, hostVars, errors, strays>>

ClaimIdle(u) ==
    /\ Claims(u)
    /\ \E c \in pool \ busy : /\ busy' = busy \cup {c} /\ old' = old \ {c}
                              /\ Goes(u, "using", c)
    /\ UNCHANGED <<pool, uses, docker, passVars, hostVars, errors, strays>>

\* The size is compared before the container is created; a claim that finds the
\* pool exhausted throws and changes nothing.
ClaimNew(u) ==
    /\ Claims(u) /\ pool = busy /\ Cardinality(pool) < MaxSize
    /\ Goes(u, "creating", NoContainer)
    /\ UNCHANGED <<pool, busy, old, uses, docker, passVars, hostVars, errors, strays>>

Claimed(u) ==
    /\ user[u].step = "creating"
    /\ \E c \in Containers : Created(c) /\ busy' = busy \cup {c} /\ Goes(u, "using", c)
    /\ UNCHANGED <<passVars, hostVars, errors, strays>>

ClaimFails(u) ==
    /\ user[u].step = "creating" /\ CreationFails
    /\ Goes(u, "out", NoContainer)
    /\ UNCHANGED <<passVars, closing>>

\* The entry may be gone: a health check found the container dead.
ReleaseForgotten(u) ==
    /\ user[u].step = "using" /\ user[u].c \notin pool
    /\ Goes(u, "out", NoContainer)
    /\ UNCHANGED <<pool, busy, old, uses, docker, passVars, hostVars, errors, strays>>

\* Mutant: a container is used once more than MaxRecycles allows.
ReleaseLate(u) ==
    LET c == user[u].c IN
    /\ user[u].step = "using" /\ c \in pool
    /\ \/ uses[c] >= MaxRecycles /\ Untracks(c) /\ Goes(u, "removing", c)
       \/ /\ uses[c] < MaxRecycles /\ uses' = [uses EXCEPT ![c] = @ + 1]
          /\ Goes(u, "cleaning", c) /\ UNCHANGED <<pool, busy, old>>
    /\ UNCHANGED <<docker, passVars, hostVars, errors, strays>>

Release(u) ==
    LET c == user[u].c IN
    /\ user[u].step = "using" /\ c \in pool
    /\ \/ uses[c] + 1 >= MaxRecycles /\ Untracks(c) /\ Goes(u, "removing", c)
       \/ /\ uses[c] + 1 < MaxRecycles /\ uses' = [uses EXCEPT ![c] = @ + 1]
          /\ Goes(u, "cleaning", c) /\ UNCHANGED <<pool, busy, old>>
    /\ UNCHANGED <<docker, passVars, hostVars, errors, strays>>

Cleaned(u) ==
    /\ user[u].step = "cleaning" /\ docker[user[u].c] = "running"
    /\ busy' = busy \ {user[u].c}
    /\ Goes(u, "out", NoContainer)
    /\ UNCHANGED <<pool, old, uses, docker, passVars, hostVars, errors, strays>>

CleanFails(u) ==
    /\ user[u].step = "cleaning"
    /\ Untracks(user[u].c) /\ Goes(u, "removing", user[u].c)
    /\ UNCHANGED <<docker, passVars, hostVars, errors, strays>>

Removed(u) ==
    /\ user[u].step = "removing" /\ RemovalAnswered(user[u].c)
    /\ Goes(u, "replacing", NoContainer)
    /\ UNCHANGED <<passVars, closing>>

Replaced(u) ==
    /\ user[u].step = "replacing"
    /\ \E c \in Containers : Created(c)
    /\ Goes(u, "out", NoContainer)
    /\ UNCHANGED <<busy, passVars, hostVars, errors, strays>>

ReplaceFails(u) ==
    /\ user[u].step = "replacing" /\ CreationFails
    /\ Goes(u, "out", NoContainer)
    /\ UNCHANGED <<passVars, closing>>
-----------------------------------------------------------------------------
(* The health check: asks Docker about each container that was idle when   *)
(* the pass began.                                                         *)

\* A pass goes on with the rest of its containers, or ends.
CheckGoesOn(h, todo) ==
    check' = [check EXCEPT ![h] =
                IF todo = {} THEN NoPass ELSE [step |-> "asking", c |-> NoContainer, todo |-> todo]]

CheckGoes(h, s, c) == check' = [check EXCEPT ![h].step = s, ![h].c = c, ![h].todo = @ \ {c}]

CheckStarts(h) ==
    /\ server = "up" /\ check[h].step = "idle" /\ pool # busy
    /\ CheckGoesOn(h, pool \ busy)
    /\ UNCHANGED <<pool, busy, old, uses, docker, user, drain, hostVars, errors, strays>>

CheckAlive(h) ==
    /\ check[h].step = "asking"
    /\ \E c \in check[h].todo : docker[c] = "running" /\ CheckGoesOn(h, check[h].todo \ {c})
    /\ UNCHANGED <<pool, busy, old, uses, docker, user, drain, hostVars, errors, strays>>

\* Mutant: the pass destroys what it asked about whatever Docker said.
CheckDestroys(h) ==
    /\ check[h].step = "asking"
    /\ \E c \in check[h].todo : Untracks(c) /\ CheckGoes(h, "removing", c)
    /\ UNCHANGED <<docker, user, drain, hostVars, errors, strays>>

\* Not running: destroyed, also when it was claimed since the pass began.
CheckDead(h) ==
    /\ check[h].step = "asking"
    /\ \E c \in check[h].todo : /\ docker[c] # "running"
                                /\ Untracks(c) /\ CheckGoes(h, "removing", c)
    /\ UNCHANGED <<docker, user, drain, hostVars, errors, strays>>

\* Mutant: the pass never replaces what it destroyed.
CheckForgets(h) ==
    /\ check[h].step = "removing" /\ RemovalAnswered(check[h].c)
    /\ CheckGoesOn(h, check[h].todo)
    /\ UNCHANGED <<user, drain, closing>>

CheckRemoved(h) ==
    /\ check[h].step = "removing" /\ RemovalAnswered(check[h].c)
    /\ IF Cardinality(pool) < MinSize THEN CheckGoes(h, "replacing", NoContainer)
                                      ELSE CheckGoesOn(h, check[h].todo)
    /\ UNCHANGED <<user, drain, closing>>

CheckReplaced(h) ==
    /\ check[h].step = "replacing"
    /\ \E c \in Containers : Created(c)
    /\ CheckGoesOn(h, check[h].todo)
    /\ UNCHANGED <<busy, user, drain, hostVars, errors, strays>>

\* Docker cannot say how a container is, or cannot create one: nothing catches
\* the rejection, the process ends and every container is left behind.
CheckFails(h) ==
    /\ check[h].step \in {"asking", "replacing"}
    /\ errors < MaxErrors /\ errors' = errors + 1
    /\ server' = "crashed"
    /\ pool' = {} /\ busy' = {} /\ closing' = {}
    /\ user' = [u \in Users |-> [step |-> "out", c |-> NoContainer]]
    /\ check' = [g \in Checks |-> NoPass] /\ drain' = [d \in Drains |-> NoPass]
    /\ strays' = {c \in Containers : docker[c] # "none"}
    /\ old' = {} /\ uses' = [c \in Containers |-> 0]
    /\ UNCHANGED docker
-----------------------------------------------------------------------------
(* The drain of containers idle for long, and shutdown.                    *)

DrainStarts(d) ==
    /\ server = "up" /\ drain[d].step = "idle" /\ drain[d].todo = {} /\ (old \cap pool) \ busy # {}
    /\ drain' = [drain EXCEPT ![d].todo = (old \cap pool) \ busy]
    /\ UNCHANGED <<pool, busy, old, uses, docker, user, check, hostVars, errors, strays>>

\* Mutant: a container claimed since the pass began still counts as old.
DrainTakesAny(d) ==
    /\ drain[d].step = "idle" /\ Cardinality(pool) > MinSize
    /\ \E c \in drain[d].todo :
         /\ Untracks(c)
         /\ drain' = [drain EXCEPT ![d] = [step |-> "removing", c |-> c, todo |-> @.todo \ {c}]]
    /\ UNCHANGED <<docker, user, check, hostVars, errors, strays>>

\* lastUsed is read when the container's turn comes, and claim renews it.
DrainTakes(d) ==
    /\ drain[d].step = "idle" /\ Cardinality(pool) > MinSize
    /\ \E c \in drain[d].todo \cap old :
         /\ Untracks(c)
         /\ drain' = [drain EXCEPT ![d] = [step |-> "removing", c |-> c, todo |-> @.todo \ {c}]]
    /\ UNCHANGED <<docker, user, check, hostVars, errors, strays>>

DrainRemoved(d) ==
    /\ drain[d].step = "removing" /\ RemovalAnswered(drain[d].c)
    /\ drain' = [drain EXCEPT ![d].step = "idle", ![d].c = NoContainer]
    /\ UNCHANGED <<user, check, closing>>

DrainEnds(d) ==
    /\ drain[d].step = "idle" /\ drain[d].todo # {}
    /\ Cardinality(pool) <= MinSize \/ drain[d].todo \cap old = {}
    /\ drain' = [drain EXCEPT ![d].todo = {}]
    /\ UNCHANGED <<pool, busy, old, uses, docker, user, check, hostVars, errors, strays>>

\* Time passes; a drain pass compares lastUsed with the time the pass began.
Ages(c) ==
    /\ c \in pool \ old /\ \A d \in Drains : c \notin drain[d].todo
    /\ old' = old \cup {c}
    /\ UNCHANGED <<pool, busy, uses, docker, user, passVars, hostVars, errors, strays>>

\* A container exits, runs out of memory or is stopped by a task's abort.
Dies(c) ==
    /\ docker[c] = "running"
    /\ docker' = [docker EXCEPT ![c] = "dead"]
    /\ UNCHANGED <<pool, busy, old, uses, user, passVars, hostVars, errors, strays>>

\* Mutant: shutdown destroys the idle containers only.
ShutdownIdle ==
    /\ server = "up" /\ server' = "closing"
    /\ pool' = {} /\ busy' = {} /\ closing' = pool \ busy
    /\ old' = {} /\ uses' = [c \in Containers |-> 0]
    /\ UNCHANGED <<docker, user, passVars, errors, strays>>

\* No new pass begins; dispatches and passes in progress go on.
Shutdown ==
    /\ server = "up" /\ server' = "closing"
    /\ pool' = {} /\ busy' = {} /\ closing' = pool
    /\ old' = {} /\ uses' = [c \in Containers |-> 0]
    /\ UNCHANGED <<docker, user, passVars, errors, strays>>

ShutdownRemoved(c) ==
    /\ c \in closing /\ closing' = closing \ {c}
    /\ RemovalAnswered(c)
    /\ UNCHANGED <<user, passVars>>
-----------------------------------------------------------------------------
Claim(u) == ClaimIdle(u) \/ ClaimNew(u)
UserProgress(u) == \/ Claimed(u) \/ ReleaseForgotten(u) \/ Release(u)
                   \/ Cleaned(u) \/ CleanFails(u) \/ Removed(u) \/ Replaced(u)
CheckProgress(h) == CheckAlive(h) \/ CheckDead(h) \/ CheckRemoved(h) \/ CheckReplaced(h)
DrainProgress(d) == DrainTakes(d) \/ DrainRemoved(d) \/ DrainEnds(d)

Next == \/ \E u \in Users : \/ Claim(u) \/ UserProgress(u)
                            \/ ClaimFails(u) \/ ReplaceFails(u)
        \/ \E h \in Checks : CheckStarts(h) \/ CheckProgress(h) \/ CheckFails(h)
        \/ \E d \in Drains : DrainStarts(d) \/ DrainProgress(d)
        \/ \E c \in Containers : Ages(c) \/ Dies(c) \/ ShutdownRemoved(c)
        \/ Shutdown

\* Docker answers, dispatches end, the intervals tick.
Fairness == /\ \A u \in Users : WF_vars(UserProgress(u))
            /\ \A h \in Checks : WF_vars(CheckProgress(h)) /\ WF_vars(CheckStarts(h))
            /\ \A d \in Drains : WF_vars(DrainProgress(d))

Spec == Init /\ [][Next]_vars
FairSpec == Spec /\ Fairness
-----------------------------------------------------------------------------
(* Properties.                                                             *)

\* A container serves one task at a time: no two dispatches hold or clean the
\* same one, whatever passes ran in between (claim, release).
ExclusiveUse ==
    \A u, v \in Users :
        u # v /\ user[u].step \in Holding /\ user[v].step \in Holding => user[u].c # user[v].c

\* An entry is busy exactly while a dispatch holds its container: none is
\* offered twice and none is lost to the pool by a release that went wrong.
BusyIsHeld ==
    busy = {c \in pool : \E u \in Users : user[u].step \in Holding /\ user[u].c = c}

\* A running container is in the pool's map, on its way out of Docker, or was
\* left by a failed call: nothing else escapes the pool's books.
NothingEscapes ==
    \A c \in Containers : docker[c] # "none" =>
        \/ c \in pool \cup closing \cup strays
        \/ \E u \in Users : user[u].step = "removing" /\ user[u].c = c
        \/ \E h \in Checks : check[h].step = "removing" /\ check[h].c = c
        \/ \E d \in Drains : drain[d].step = "removing" /\ drain[d].c = c

\* Until its own dispatch releases it, a container in use leaves the pool only
\* when it is dead or the server stops; the passes, which work from a
\* snapshot taken before the claim, never take it (healthCheck, drainExcess).
InUseStays ==
    [][\A u \in Users :
          /\ user[u].step = "using" /\ user'[u] = user[u]
          /\ user[u].c \in pool /\ user[u].c \notin pool'
          => docker[user[u].c] = "dead" \/ server' # "up"]_vars

\* "Replace to maintain pool depth": a pool that fell below its minimum is
\* refilled (destroy then create in release and in the health check).  So it is
\* while Docker's calls succeed; after a failed creation nothing tops it up.
DepthMaintained ==
    server = "up" /\ Cardinality(pool) < MinSize
      ~> server # "up" \/ Cardinality(pool) >= MinSize
=============================================================================
