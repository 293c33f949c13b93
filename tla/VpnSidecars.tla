------------------------------ MODULE VpnSidecars ------------------------------
(***************************************************************************)
(* The VPN sidecar the agents of one tunnel share: the orchestrator counts *)
(* them, creates the sidecar for the first, replaces it when the tunnel's  *)
(* configuration has changed and removes it some time after the last has   *)
(* left.  A tunnel shares nothing with another one, so one is enough.      *)
(*                                                                         *)
(* A caller is a dispatch that is about to create an agent container, or a *)
(* warm-up; an agent is named after its dispatch, a sidecar after the      *)
(* caller that created it (each creates at most one).  Callers are         *)
(* suspended wherever the code awaits the provider, Docker or another      *)
(* caller's creation; between two awaits a caller is not interrupted.      *)
(***************************************************************************)
EXTENDS Integers, FiniteSets

CONSTANTS Agents, Warmups, NoCaller,
          MaxUpdates,      \* bound: changes of the tunnel's row
          MaxMishaps,      \* bound: failing steps, and agents others remove
          MaxRestarts,     \* bound: restarts of the server
          MaxFaults        \* bound: all of these together

Callers == Agents \cup Warmups

ASSUME CallersAssumption ==
    NoCaller \notin Callers /\ Agents \cap Warmups = {} /\ IsFiniteSet(Callers)
ASSUME BoundsAssumption ==
    MaxUpdates \in Nat /\ MaxMishaps \in Nat /\ MaxRestarts \in Nat /\ MaxFaults \in Nat

VARIABLES
    version,     \* the tunnel row's updated_at
    entry,       \* sidecarsByTunnel: the tunnel's entry; side NoCaller: there is none
    inFlight,    \* sidecarInFlight: the caller whose creation is under way
    timer,       \* sidecarTeardownTimers: the sidecar the pending timer will remove
    pairs,       \* sidecarsByAgent: the agents it knows
    caller,      \* where a caller is, the version it read, the sidecar it was given
    up,          \* sidecars in Docker
    doomed,      \* sidecars a fired timer is removing
    cleanup,     \* cleanupOrphanedVpnSidecars: its phase and what it has left to remove
    updated,     \* history: the tunnel has changed since the server started
    leaky,       \* history: a mishap since the server started may have cost a decrement
    mishaps, restarts

mapVars == <<entry, inFlight, timer>>
dockerVars == <<up, doomed, cleanup>>
historyVars == <<updated, leaky, mishaps, restarts>>
vars == <<version, mapVars, pairs, caller, dockerVars, historyVars>>

Sidecar == Callers \cup {NoCaller}
NoEntry == [side |-> NoCaller, refCount |-> 0, version |-> 0]
\* Steps at which a caller has been given a sidecar and its hold is on the count
\* (or was lost with the agent).
HoldingSteps == {"ensured", "attached", "stray", "leaked", "leaving"}
NoCall(s) == [step |-> s, v |-> 0, side |-> NoCaller]
\* Steps of createSidecar.
CreatingSteps == {"creating", "starting", "registered"}

TypeOK ==
    /\ version \in 0..MaxUpdates
    /\ entry \in [side : Sidecar, refCount : Int, version : 0..MaxUpdates]
    /\ inFlight \in Sidecar
    /\ timer \in Sidecar
    /\ pairs \subseteq Agents
    /\ caller \in [Callers ->
         [step : {"asked", "checking", "new", "resolved", "evicting", "waiting", "done"}
                    \cup CreatingSteps \cup HoldingSteps,
          v : 0..MaxUpdates, side : Sidecar]]
    /\ up \subseteq Callers
    /\ doomed \subseteq Callers
    /\ cleanup \in [step : {"done", "listing", "removing"}, todo : SUBSET Callers]
    /\ updated \in BOOLEAN /\ leaky \in BOOLEAN
    /\ mishaps \in 0..MaxMishaps /\ restarts \in 0..MaxRestarts

Init ==
    /\ version = 0 /\ entry = NoEntry
    /\ inFlight = NoCaller /\ timer = NoCaller
    /\ pairs = {} /\ up = {} /\ doomed = {}
    /\ caller = [c \in Callers |-> NoCall(IF c \in Warmups THEN "asked" ELSE "new")]
    /\ cleanup = [step |-> "done", todo |-> {}]
    /\ updated = FALSE /\ leaky = FALSE /\ mishaps = 0 /\ restarts = 0

At(c, s) == caller[c].step = s
Goes(c, s) == caller' = [caller EXCEPT ![c].step = s]
\* Its call has come: of a warm-up, or of ensureVpnSidecar by a dispatch.
Called(c) == ~At(c, IF c \in Warmups THEN "asked" ELSE "new")
Done(c) == caller' = [caller EXCEPT ![c] = NoCall("done")]
\* ensureVpnSidecar returns: the version it read is of no more use.
Answer(side) == [step |-> "ensured", v |-> 0, side |-> side]
Waiting == {c \in Callers : At(c, "waiting")}

FaultsLeft == version + mishaps + restarts < MaxFaults

\* Something fails that the code survives at the price of a count.
Mishap ==
    /\ mishaps < MaxMishaps /\ FaultsLeft
    /\ mishaps' = mishaps + 1 /\ leaky' = TRUE
    /\ UNCHANGED <<updated, restarts>>

-----------------------------------------------------------------------------
(* warmupTunnel up to its call of ensureVpnSidecar.                          *)

WarmupResolves(w) ==
    /\ At(w, "asked")
    /\ caller' = [caller EXCEPT ![w].step = "checking", ![w].v = version]
    /\ UNCHANGED <<version, mapVars, pairs, dockerVars, historyVars>>

\* A sidecar of the version read is up: nothing to do.
WarmupChecks(w) ==
    /\ At(w, "checking")
    /\ IF entry.side # NoCaller /\ entry.version = caller[w].v
       THEN Done(w)
       ELSE caller' = [caller EXCEPT ![w] = NoCall("new")]
    /\ UNCHANGED <<version, mapVars, pairs, dockerVars, historyVars>>

-----------------------------------------------------------------------------
(* ensureVpnSidecar.                                                         *)

Resolves(c) ==
    /\ At(c, "new")
    /\ caller' = [caller EXCEPT ![c].step = "resolved", ![c].v = version]
    /\ UNCHANGED <<version, mapVars, pairs, dockerVars, historyVars>>

\* The entry has the version read: one more holder, and no teardown.
Reuses(c) ==
    /\ At(c, "resolved")
    /\ entry.side # NoCaller /\ entry.version = caller[c].v
    /\ entry' = [entry EXCEPT !.refCount = @ + 1]
    /\ timer' = NoCaller
    /\ caller' = [caller EXCEPT ![c] = Answer(entry.side)]
    /\ UNCHANGED <<version, inFlight, pairs, dockerVars, historyVars>>

\* Mutant: a creation under way is not waited for.
AlwaysCreates(c) ==
    /\ caller' = [caller EXCEPT ![c].step = "creating", ![c].side = NoCaller]
    /\ inFlight' = c

\* Wait for the creation under way, or begin one.
WaitsOrCreates(c) ==
    IF inFlight # NoCaller
    THEN /\ caller' = [caller EXCEPT ![c] = NoCall("waiting")]
         /\ UNCHANGED inFlight
    ELSE /\ caller' = [caller EXCEPT ![c].step = "creating", ![c].side = NoCaller]
         /\ inFlight' = c

Misses(c) ==
    /\ At(c, "resolved") /\ entry.side = NoCaller
    /\ WaitsOrCreates(c)
    /\ UNCHANGED <<version, entry, timer, pairs, dockerVars, historyVars>>

\* An outdated entry leaves the map; agents that hold its sidecar keep it.
EvictsHeld(c) ==
    /\ At(c, "resolved")
    /\ entry.side # NoCaller /\ entry.version # caller[c].v /\ entry.refCount # 0
    /\ entry' = NoEntry /\ timer' = NoCaller
    /\ WaitsOrCreates(c)
    /\ UNCHANGED <<version, pairs, dockerVars, historyVars>>

\* One nobody holds is removed first, which the caller awaits.
EvictsIdle(c) ==
    /\ At(c, "resolved")
    /\ entry.side # NoCaller /\ entry.version # caller[c].v /\ entry.refCount = 0
    /\ entry' = NoEntry /\ timer' = NoCaller
    /\ caller' = [caller EXCEPT ![c].step = "evicting", ![c].side = entry.side]
    /\ UNCHANGED <<version, inFlight, pairs, dockerVars, historyVars>>

\* It goes on without another look at the map.
Evicted(c) ==
    /\ At(c, "evicting")
    /\ up' = up \ {caller[c].side}
    /\ WaitsOrCreates(c)
    /\ UNCHANGED <<version, entry, timer, pairs, doomed, cleanup, historyVars>>

-----------------------------------------------------------------------------
(* createSidecar, and what its end means for the callers that wait for it.   *)

Creates(c) ==
    /\ At(c, "creating")
    /\ up' = up \cup {c}
    /\ caller' = [caller EXCEPT ![c].step = "starting", ![c].side = c]
    /\ UNCHANGED <<version, mapVars, pairs, doomed, cleanup, historyVars>>

\* Mutant: the creator's own hold is forgotten.
RegistersUnheld(c) ==
    /\ At(c, "starting")
    /\ entry' = [side |-> c, refCount |-> 0, version |-> caller[c].v]
    /\ Goes(c, "registered")
    /\ UNCHANGED <<version, inFlight, timer, pairs, dockerVars, historyVars>>

\* Started, its DNS read: it is registered with the creator as first holder.
Registers(c) ==
    /\ At(c, "starting")
    /\ entry' = [side |-> c, refCount |-> 1, version |-> caller[c].v]
    /\ Goes(c, "registered")
    /\ UNCHANGED <<version, inFlight, timer, pairs, dockerVars, historyVars>>

\* The creation is over: its callers go on with what it returned.
Settled(c, side) ==
    /\ inFlight' = NoCaller
    /\ caller' = [d \in Callers |->
                    IF d \in Waiting \cup {c} THEN Answer(side) ELSE caller[d]]

\* Mutant: the callers that waited are not counted.
SettlesUncounted(c) ==
    /\ At(c, "registered")
    /\ Settled(c, c)
    /\ UNCHANGED <<version, entry, timer, pairs, dockerVars, historyVars>>

\* Each that waited is counted, on whatever entry there is by now.
CreationSettles(c) ==
    /\ At(c, "registered")
    /\ Settled(c, c)
    /\ entry' = IF entry.side = NoCaller THEN entry
                ELSE [entry EXCEPT !.refCount = @ + Cardinality(Waiting)]
    /\ UNCHANGED <<version, timer, pairs, dockerVars, historyVars>>

\* Every caller proceeds without a tunnel; a container already created is left.
CreationFails(c) ==
    /\ At(c, "creating") \/ At(c, "starting")
    /\ Settled(c, NoCaller)
    /\ Mishap
    /\ UNCHANGED <<version, entry, timer, pairs, dockerVars>>

-----------------------------------------------------------------------------
(* The agent, from its creation to safeRemoveContainer.                      *)

\* Mutant: a warm-up is entered among the agents too.
CallerCreated(a) ==
    /\ At(a, "ensured")
    /\ pairs' = IF caller[a].side = NoCaller THEN pairs ELSE pairs \cup {a}
    /\ Goes(a, "attached")
    /\ UNCHANGED <<version, mapVars, dockerVars, historyVars>>

AgentCreated(a) ==
    /\ a \in Agents /\ At(a, "ensured")
    /\ pairs' = IF caller[a].side = NoCaller THEN pairs ELSE pairs \cup {a}
    /\ Goes(a, "attached")
    /\ UNCHANGED <<version, mapVars, dockerVars, historyVars>>

\* No memory left in the user's budget, no egress proxy, or Docker fails.
AgentFails(a) ==
    /\ a \in Agents /\ At(a, "ensured")
    /\ Goes(a, "leaked")
    /\ Mishap
    /\ UNCHANGED <<version, mapVars, pairs, dockerVars>>

\* The container dies, or is removed by the session registry, a terminate call
\* or the orphan sweep, none of which tells the orchestrator.
AgentVanishes(a) ==
    /\ a \in Agents /\ At(a, "attached")
    /\ Goes(a, "stray")
    /\ Mishap
    /\ UNCHANGED <<version, mapVars, pairs, dockerVars>>

\* safeRemoveContainer up to its first await; an agent it does not know is only
\* removed.
Leaves(a) ==
    /\ At(a, "attached") \/ At(a, "stray")
    /\ pairs' = pairs \ {a}
    /\ IF a \in pairs THEN Goes(a, "leaving") ELSE Done(a)
    /\ UNCHANGED <<version, mapVars, dockerVars, historyVars>>

\* Mutant: the teardown waits for a count below zero.
UncountOffByOne ==
    IF entry.side = NoCaller THEN UNCHANGED <<entry, timer>>
    ELSE /\ entry' = [entry EXCEPT !.refCount = @ - 1]
         /\ timer' = IF entry.refCount < 1 THEN entry.side ELSE timer

\* The tunnel's entry, whichever it is by now, loses a holder; at zero the
\* teardown timer is set anew.
Uncount ==
    IF entry.side = NoCaller THEN UNCHANGED <<entry, timer>>
    ELSE /\ entry' = [entry EXCEPT !.refCount = @ - 1]
         /\ timer' = IF entry.refCount <= 1 THEN entry.side ELSE timer

Discounts(a) ==
    /\ At(a, "leaving")
    /\ Uncount
    /\ Done(a)
    /\ UNCHANGED <<version, inFlight, pairs, dockerVars, historyVars>>

\* releaseSidecarHold: a warm-up gives its hold back at once.
Releases(w) ==
    /\ w \in Warmups /\ At(w, "ensured")
    /\ IF caller[w].side = NoCaller THEN UNCHANGED <<entry, timer>> ELSE Uncount
    /\ Done(w)
    /\ UNCHANGED <<version, inFlight, pairs, dockerVars, historyVars>>

-----------------------------------------------------------------------------
(* The teardown timer.                                                       *)

TimerFires ==
    /\ timer # NoCaller
    /\ timer' = NoCaller
    /\ IF entry.side = NoCaller \/ entry.refCount > 0
       THEN UNCHANGED <<entry, doomed>>
       ELSE entry' = NoEntry /\ doomed' = doomed \cup {timer}
    /\ UNCHANGED <<version, inFlight, pairs, caller, up, cleanup, historyVars>>

TornDown(s) ==
    /\ s \in doomed
    /\ up' = up \ {s} /\ doomed' = doomed \ {s}
    /\ UNCHANGED <<version, mapVars, pairs, caller, cleanup, historyVars>>

\* A failing removal is ignored.
TeardownFails(s) ==
    /\ s \in doomed
    /\ doomed' = doomed \ {s}
    /\ Mishap
    /\ UNCHANGED <<version, mapVars, pairs, caller, up, cleanup>>

-----------------------------------------------------------------------------
(* The tunnel's row changes; the server restarts.                            *)

Updates ==
    /\ version < MaxUpdates /\ FaultsLeft
    /\ version' = version + 1 /\ updated' = TRUE
    /\ UNCHANGED <<mapVars, pairs, caller, dockerVars, leaky, mishaps, restarts>>

\* The maps and timers are lost with the calls under way; containers stay.
\* start() begins the cleanup without waiting for it.
Restarts ==
    /\ restarts < MaxRestarts /\ FaultsLeft
    /\ restarts' = restarts + 1
    /\ entry' = NoEntry /\ inFlight' = NoCaller /\ timer' = NoCaller
    /\ pairs' = {} /\ doomed' = {}
    /\ caller' = [c \in Callers |->
         CASE ~Called(c) -> caller[c]
           [] caller[c].step \in {"attached", "leaving"} -> [caller[c] EXCEPT !.step = "attached"]
           [] OTHER -> NoCall("done")]
    /\ cleanup' = [step |-> "listing", todo |-> {}]
    /\ updated' = FALSE /\ leaky' = FALSE
    /\ UNCHANGED <<version, up, mishaps>>

CleanupLists ==
    /\ cleanup.step = "listing"
    /\ cleanup' = [step |-> "removing", todo |-> up]
    /\ UNCHANGED <<version, mapVars, pairs, caller, up, doomed, historyVars>>

CleanupRemoves ==
    /\ cleanup.step = "removing"
    /\ IF cleanup.todo = {}
       THEN cleanup' = [cleanup EXCEPT !.step = "done"] /\ UNCHANGED up
       ELSE \E s \in cleanup.todo :
              /\ cleanup' = [cleanup EXCEPT !.todo = @ \ {s}]
              /\ up' = up \ {s}
    /\ UNCHANGED <<version, mapVars, pairs, caller, doomed, historyVars>>

\* Docker does not answer the listing, which ends the pass, or fails to remove
\* a sidecar, which is ignored.
CleanupFails ==
    /\ \/ cleanup.step = "listing" /\ cleanup' = [cleanup EXCEPT !.step = "done"]
       \/ \E s \in cleanup.todo : cleanup' = [cleanup EXCEPT !.todo = @ \ {s}]
    /\ Mishap
    /\ UNCHANGED <<version, mapVars, pairs, caller, up, doomed>>

-----------------------------------------------------------------------------
\* What the server does for a caller, of itself once its call has come.
Proceeds(c) ==
    \/ WarmupResolves(c) \/ WarmupChecks(c)
    \/ Resolves(c) \/ Reuses(c) \/ Misses(c)
    \/ EvictsHeld(c) \/ EvictsIdle(c) \/ Evicted(c)
    \/ Creates(c) \/ Registers(c) \/ CreationSettles(c)
    \/ AgentCreated(c) \/ Discounts(c) \/ Releases(c)

Cleanup == CleanupLists \/ CleanupRemoves

Next ==
    \/ \E c \in Callers : Proceeds(c) \/ CreationFails(c)
    \/ \E a \in Agents : AgentFails(a) \/ AgentVanishes(a) \/ Leaves(a)
    \/ TimerFires
    \/ \E s \in Callers : TornDown(s) \/ TeardownFails(s)
    \/ Updates \/ Restarts \/ Cleanup \/ CleanupFails

Spec == Init /\ [][Next]_vars

FairSpec ==
    /\ Spec
    /\ \A c \in Callers : WF_vars(Called(c) /\ Proceeds(c)) /\ WF_vars(TornDown(c))
    /\ WF_vars(TimerFires) /\ WF_vars(Cleanup)

-----------------------------------------------------------------------------
(* What the sharing of a sidecar promises.                                   *)

Holders(s) == {c \in Callers : caller[c].side = s /\ caller[c].step \in HoldingSteps \cup {"registered"}}
\* An agent runs in the sidecar's network, or is on its way there.
InUse(s) == \E c \in Callers :
    caller[c].side = s /\ caller[c].step \in {"starting", "registered", "ensured", "attached", "leaving"}

\* The count of the tunnel's entry never exceeds the callers that hold its sidecar
\* and, as long as the tunnel has not changed, is exactly their number, whatever
\* fails: creator, waiters of its creation, later callers and warm-ups are counted
\* once each, and a failed agent's hold is never given back.  After a change of
\* the tunnel it may be too low: who leaves an evicted sidecar takes a holder from
\* the new one (safeRemoveContainer).
HoldersCounted ==
    entry.side # NoCaller =>
      /\ entry.refCount <= Cardinality(Holders(entry.side))
      /\ ~updated => entry.refCount = Cardinality(Holders(entry.side))

\* Creations of one tunnel's sidecar never overlap and, as long as nothing was
\* leaked and the tunnel has not changed, a second sidecar is up only while the
\* teardown removes the other: two would take the VPN slot from each other
\* (sidecarInFlight in ensureVpnSidecar).
OneSidecar ==
    /\ \A c, d \in Callers :
         caller[c].step \in CreatingSteps /\ caller[d].step \in CreatingSteps => c = d
    /\ ~updated /\ ~leaky /\ cleanup.step = "done" => Cardinality(up \ doomed) <= 1

\* A sidecar is taken from an agent in its network only once the tunnel has
\* changed, or by the cleanup a restart begins: never by the teardown timer of a
\* tunnel that is as it was, however callers, leavers and failures interleave.
SidecarTaken == [][\A s \in up \ up' : InUse(s) => updated \/ cleanup # cleanup']_vars

\* A sidecar no agent uses is removed, unless it is used again, a mishap kept a
\* hold on its count, or the tunnel's change evicted it with holders; a restart
\* makes up for both (the teardown timer; cleanupOrphanedVpnSidecars).
UnusedSidecarGoes == \A s \in Callers :
    s \in up /\ ~InUse(s) ~> s \notin up \/ InUse(s) \/ leaky \/ updated

=============================================================================
