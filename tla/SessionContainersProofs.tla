---------------------- MODULE SessionContainersProofs -----------------------
(***************************************************************************)
(* For any number of dispatches, sweeps, calls, failures and restarts: the *)
(* orphan sweep, whose list, query and removals lie apart, takes no        *)
(* container that is on record or about to be.  For a session that is      *)
(* served by one dispatch after another: map and row agree, and the        *)
(* container of a turn is on record and is not taken.                      *)
(***************************************************************************)
EXTENDS SessionContainers, TLAPS

\* Where a dispatch has an object in hand.
Holding == {"touching", "probing", "unpausing", "discarding", "registering",
            "reassigning", "exec", "running", "reviving"}
DispatchSteps == {"out", "resurrecting", "resurrected", "creating", "created"} \cup Holding
DispatchState == [step : DispatchSteps, o : MaybeObject, c : MaybeContainer, again : BOOLEAN]
SweepSteps == {"idle", "turn", "pausing", "paused", "tearing", "torn", "expiring", "expired"}
SweepState == [step : SweepSteps, o : MaybeObject, c : MaybeContainer]
RowStatus == {"none", "active", "paused", "resumable", "expired"}
Row == [cont : MaybeContainer, status : RowStatus, due : BOOLEAN]
RemoverState == [step : {"new", "removing", "writing", "answered"},
                 op : {"none", "terminate", "delete", "detach"}, c : MaybeContainer]
OrphansState == [step : {"idle", "reading", "reaping"}, seen : SUBSET Containers,
                 keep : SUBSET MaybeContainer, found : SUBSET Containers,
                 todo : SUBSET Containers]

\* The types, variable by variable; whoever goes on with an object has one.
MapOK == map \in MaybeObject
ObjOK == obj \in [Objects -> Object]
RowOK == row \in Row
DockerOK == /\ docker \in [Containers -> {"none", "running", "paused", "exited"}]
            /\ aged \subseteq Containers
DispatchOK == /\ dispatch \in [Dispatches -> DispatchState]
              /\ \A d \in Dispatches : dispatch[d].step \in Holding => dispatch[d].o \in Objects
SweepOK == /\ sweep \in [Sweeps -> SweepState]
           /\ \A s \in Sweeps : sweep[s].step # "idle" => sweep[s].o \in Objects
RemoverOK == remover \in [Removers -> RemoverState]
OrphansOK == orphans \in OrphansState /\ candidates \subseteq Containers
BoundsOK == persistent \in Persistence /\ errors \in 0..MaxErrors /\ restarts \in 0..MaxRestarts

TypeInv == /\ MapOK /\ ObjOK /\ RowOK /\ DockerOK /\ DispatchOK /\ SweepOK
           /\ RemoverOK /\ OrphansOK /\ BoundsOK

LEMMA InvHasTypes == TypeInv => TypeOK
  BY DEF TypeInv, TypeOK, MapOK, ObjOK, RowOK, DockerOK, DispatchOK, SweepOK, RemoverOK,
         OrphansOK, BoundsOK, DispatchState, DispatchSteps, Holding, SweepState, SweepSteps,
         Row, RowStatus, RemoverState, OrphansState
-----------------------------------------------------------------------------
(* What the helpers of the actions do to the types.                          *)

\* Writing a status, or a container and a status, leaves a row.
LEMMA RowWritten ==
    ASSUME RowOK, NEW s \in RowStatus
    PROVE  /\ Updated(s) \in Row
           /\ \A c \in MaybeContainer : Reassigned(c, s) \in Row
  BY DEF RowOK, Row, Updated, Reassigned

\* A new object, with the expiry and the activity of what it stands for.
LEMMA ObjectsBegin ==
    ASSUME ObjOK, NEW o \in Objects, NEW c \in MaybeContainer,
           NEW s \in {"active", "idle", "paused", "resumable", "expired"}
    PROVE  /\ [obj EXCEPT ![o] = NewObject(c, s)] \in [Objects -> Object]
           /\ \A due \in BOOLEAN :
                [obj EXCEPT ![o] = [NewObject(c, s) EXCEPT !.due = due]] \in [Objects -> Object]
           /\ \A due \in BOOLEAN, k \in {"fresh", "quiet", "stale"} :
                [obj EXCEPT ![o] = [NewObject(c, s) EXCEPT !.clock = k, !.due = due]]
                  \in [Objects -> Object]
<1>1. NewObject(c, s) \in Object
  BY DEF NewObject, Object
<1>2. ASSUME NEW due \in BOOLEAN, NEW k \in {"fresh", "quiet", "stale"}
      PROVE  /\ [NewObject(c, s) EXCEPT !.due = due] \in Object
             /\ [NewObject(c, s) EXCEPT !.clock = k, !.due = due] \in Object
  BY <1>1 DEF Object
<1>3. QED
  BY <1>1, <1>2 DEF ObjOK

\* The last of these, for one clock and one expiry.
LEMMA ObjectRebuilt ==
    ASSUME ObjOK, NEW o \in Objects, NEW c \in MaybeContainer,
           NEW s \in {"active", "paused", "resumable"},
           NEW due \in BOOLEAN, NEW k \in {"fresh", "quiet", "stale"}
    PROVE  [obj EXCEPT ![o] = [NewObject(c, s) EXCEPT !.clock = k, !.due = due]] \in [Objects -> Object]
<1> DEFINE n == [NewObject(c, s) EXCEPT !.clock = k, !.due = due]
<1>1. n \in Object
  BY DEF NewObject, Object
<1> HIDE DEF n
<1>2. [obj EXCEPT ![o] = n] \in [Objects -> Object]
  BY <1>1 DEF ObjOK
<1>3. QED
  BY <1>2 DEF n

LEMMA ObjectFields ==
    ASSUME ObjOK, NEW o \in Objects
    PROVE  obj[o].cont \in MaybeContainer /\ obj[o].due \in BOOLEAN
           /\ obj[o].status \in {"active", "idle", "paused", "resumable", "expired"}
  BY DEF ObjOK, Object

LEMMA Touches ==
    ASSUME MapOK, ObjOK, RowOK, Touch
    PROVE  ObjOK' /\ RowOK'
<1>1. CASE map = NoObject
  BY <1>1 DEF Touch, ObjOK, RowOK
<1>2. CASE map # NoObject
  <2>1. map \in Objects
    BY <1>2 DEF MapOK, MaybeObject
  <2>2. /\ obj' = [obj EXCEPT ![map].status = "active", ![map].clock = "fresh"]
        /\ row' = Updated("active")
    BY <1>2 DEF Touch
  <2>3. ObjOK'
    <3> DEFINE n == [obj[map] EXCEPT !.status = "active", !.clock = "fresh"]
    <3>1. obj' = [obj EXCEPT ![map] = n]
      BY <2>2
    <3>2. n \in Object
      BY <2>1 DEF ObjOK, Object
    <3> HIDE DEF n
    <3>3. QED
      BY <3>1, <3>2 DEF ObjOK
  <2>4. RowOK'
    BY <2>2, RowWritten DEF RowOK, RowStatus
  <2>5. QED
    BY <2>3, <2>4
<1>3. QED
  BY <1>1, <1>2

LEMMA Removes ==
    ASSUME DockerOK, BoundsOK, NEW c \in MaybeContainer, Removed(c)
    PROVE  DockerOK' /\ BoundsOK'
  BY BoundsAssumption DEF Removed, DockerOK, BoundsOK

LEMMA DispatchGoes ==
    ASSUME DispatchOK, NEW d \in Dispatches, NEW s \in DispatchSteps,
           s \in Holding => dispatch[d].o \in Objects, Goes(d, s)
    PROVE  DispatchOK'
  BY DEF DispatchOK, DispatchState, Goes

LEMMA DispatchEnds ==
    ASSUME DispatchOK, NEW d \in Dispatches, Ends(d)
    PROVE  DispatchOK'
<1>1. NoDispatch \in DispatchState /\ NoDispatch.step \notin Holding
  BY DEF NoDispatch, DispatchState, DispatchSteps, Holding, MaybeObject, MaybeContainer
<1>2. QED
  BY <1>1 DEF DispatchOK, Ends

LEMMA DispatchFields ==
    ASSUME DispatchOK, NEW d \in Dispatches
    PROVE  /\ dispatch[d].c \in MaybeContainer /\ dispatch[d].o \in MaybeObject
           /\ dispatch[d].step \in DispatchSteps /\ dispatch[d].again \in BOOLEAN
           /\ dispatch[d].step \in Holding => dispatch[d].o \in Objects
  BY DEF DispatchOK, DispatchState

LEMMA DispatchDiscards ==
    ASSUME DispatchOK, ObjOK, NEW d \in Dispatches, dispatch[d].o \in Objects, Discards(d)
    PROVE  DispatchOK'
<1> DEFINE c == obj[dispatch[d].o].cont
           s == IF c = NoContainer THEN "creating" ELSE "discarding"
<1>1. c \in MaybeContainer /\ s \in DispatchSteps
  BY ObjectFields DEF DispatchSteps, Holding
<1>2. dispatch' = [dispatch EXCEPT ![d].c = c, ![d].step = s]
  BY DEF Discards
<1> HIDE DEF c, s
<1>3. QED
  BY <1>1, <1>2 DEF DispatchOK, DispatchState

LEMMA SweepMoves ==
    ASSUME SweepOK, NEW s \in Sweeps, sweep[s].step # "idle", NEW st \in SweepSteps
    PROVE  /\ SweepAt(s, st) => SweepOK'
           /\ ObjOK /\ SweepHas(s, st) => SweepOK'
<1>1. sweep[s].o \in Objects
  BY DEF SweepOK
<1>2. ASSUME SweepAt(s, st)
      PROVE  SweepOK'
  BY <1>1, <1>2 DEF SweepOK, SweepState, SweepAt
<1>3. ASSUME ObjOK, SweepHas(s, st)
      PROVE  SweepOK'
  <2>1. obj[sweep[s].o].cont \in MaybeContainer
    BY <1>1, <1>3, ObjectFields
  <2>2. QED
    BY <1>1, <1>3, <2>1 DEF SweepOK, SweepState, SweepHas
<1>4. QED
  BY <1>2, <1>3

LEMMA SweepEnds ==
    ASSUME SweepOK, NEW s \in Sweeps, SweepDone(s)
    PROVE  SweepOK'
<1>1. NoSweep \in SweepState /\ NoSweep.step = "idle"
  BY DEF NoSweep, SweepState, SweepSteps, MaybeObject, MaybeContainer
<1>2. QED
  BY <1>1 DEF SweepOK, SweepDone

LEMMA SweepFields ==
    ASSUME SweepOK, NEW s \in Sweeps
    PROVE  /\ sweep[s].c \in MaybeContainer
           /\ sweep[s].step # "idle" => sweep[s].o \in Objects
  BY DEF SweepOK, SweepState

\* Every step keeps the state in its types and every hand full.
LEMMA TypeStep == ASSUME TypeInv, [Next]_vars PROVE TypeInv'
<1> USE DEF TypeInv
<1>1. ASSUME NEW d \in Dispatches, ResurrectReads(d)
      PROVE  TypeInv'
  <2>1. DispatchOK'
    BY <1>1, DispatchGoes DEF ResurrectReads, DispatchSteps, Holding
  <2>2. QED
    BY <1>1, <2>1
       DEF ResurrectReads, MapOK, ObjOK, RowOK, DockerOK, SweepOK, RemoverOK,
           OrphansOK, BoundsOK, orphanVars, boundVars
<1>2. ASSUME NEW d \in Dispatches, Resurrects(d)
      PROVE  TypeInv'
  <2>1. row.due \in BOOLEAN
    BY DEF RowOK, Row
  <2>2. MapOK'
    BY <1>2 DEF Resurrects, FreshObjects, MapOK, MaybeObject
  <2>3. ObjOK'
    <3>1. CASE UNCHANGED obj
      BY <3>1 DEF ObjOK
    <3>2. CASE ~UNCHANGED obj
      <4>1. PICK o \in Objects : obj' = [obj EXCEPT ![o] =
                [NewObject(NoContainer, "resumable") EXCEPT !.due = row.due]]
        BY <1>2, <3>2 DEF Resurrects, FreshObjects
      <4>2. NoContainer \in MaybeContainer
        BY DEF MaybeContainer
      <4>3. QED
        BY <2>1, <4>1, <4>2, ObjectsBegin DEF ObjOK
    <3>3. QED
      BY <3>1, <3>2
  <2>4. DispatchOK'
    BY <1>2, DispatchGoes, DispatchEnds DEF Resurrects, DispatchSteps, Holding
  <2>5. QED
    BY <1>2, <2>2, <2>3, <2>4
       DEF Resurrects, RowOK, DockerOK, SweepOK, RemoverOK, OrphansOK, BoundsOK,
           orphanVars, boundVars
<1>3. ASSUME NEW d \in Dispatches, Resurrected(d)
      PROVE  TypeInv'
  <2>1. RowOK'
    BY <1>3, RowWritten DEF Resurrected, RowOK, RowStatus, MaybeContainer
  <2>2. DispatchOK'
    BY <1>3, DispatchEnds DEF Resurrected
  <2>3. QED
    BY <1>3, <2>1, <2>2
       DEF Resurrected, MapOK, ObjOK, DockerOK, SweepOK, RemoverOK, OrphansOK,
           BoundsOK, orphanVars, boundVars
<1>4. ASSUME NEW d \in Dispatches, Begins(d)
      PROVE  TypeInv'
  <2>1. map # NoObject => map \in Objects
    BY DEF MapOK, MaybeObject
  <2>2. map # NoObject => [NoDispatch EXCEPT !.step = "touching", !.o = map] \in DispatchState
    BY <2>1 DEF NoDispatch, DispatchState, DispatchSteps, Holding, MaybeObject, MaybeContainer
  <2>3. ObjOK'
    <3>1. \/ UNCHANGED obj
          \/ /\ map # NoObject
             /\ obj' = [obj EXCEPT ![map].status = "active", ![map].clock = "fresh"]
      BY <1>4 DEF Begins
    <3>2. QED
      BY <2>1, <3>1 DEF ObjOK, Object
  <2>4. DispatchOK'
    <3>1. CASE map = NoObject
      BY <1>4, <3>1, DispatchGoes DEF Begins, DispatchSteps, Holding
    <3>2. CASE map # NoObject
      <4>1. dispatch' = [dispatch EXCEPT ![d] = [NoDispatch EXCEPT !.step = "touching", !.o = map]]
        BY <1>4, <3>2 DEF Begins
      <4>2. QED
        BY <2>1, <2>2, <3>2, <4>1 DEF DispatchOK, NoDispatch
    <3>3. QED
      BY <3>1, <3>2
  <2>5. QED
    BY <1>4, <2>3, <2>4
       DEF Begins, MapOK, RowOK, DockerOK, SweepOK, RemoverOK, OrphansOK, BoundsOK,
           orphanVars, boundVars
<1>5. ASSUME NEW d \in Dispatches, Touched(d)
      PROVE  TypeInv'
  <2>1. dispatch[d].o \in Objects
    BY <1>5, DispatchFields DEF Touched, Holding
  <2>2. obj[dispatch[d].o].cont \in MaybeContainer
    BY <2>1, ObjectFields
  <2>3. RowOK'
    BY <1>5, RowWritten DEF Touched, RowOK, RowStatus
  <2>4. DispatchOK'
    <3> DEFINE c == obj[dispatch[d].o].cont
               s == IF c = NoContainer THEN "creating" ELSE "probing"
    <3>1. dispatch' = [dispatch EXCEPT ![d].c = c, ![d].step = s]
      BY <1>5 DEF Touched
    <3>2. c \in MaybeContainer /\ s \in DispatchSteps
      BY <2>2 DEF DispatchSteps, Holding
    <3> HIDE DEF c, s
    <3>3. QED
      BY <2>1, <3>1, <3>2 DEF DispatchOK, DispatchState
  <2>5. QED
    BY <1>5, <2>3, <2>4
       DEF Touched, MapOK, ObjOK, DockerOK, SweepOK, RemoverOK, OrphansOK, BoundsOK,
           orphanVars, boundVars
<1>6. ASSUME NEW d \in Dispatches, ProbedRunning(d)
      PROVE  TypeInv'
  <2>1. dispatch[d].o \in Objects
    BY <1>6, DispatchFields DEF ProbedRunning, Holding
  <2>2. ObjOK'
    BY <1>6, Touches DEF ProbedRunning
  <2>3. RowOK'
    BY <1>6, Touches DEF ProbedRunning
  <2>4. DispatchOK'
    BY <1>6, <2>1, DispatchGoes DEF ProbedRunning, DispatchSteps, Holding
  <2>5. QED
    BY <1>6, <2>2, <2>3, <2>4
       DEF ProbedRunning, MapOK, DockerOK, SweepOK, RemoverOK, OrphansOK, BoundsOK,
           orphanVars, boundVars
<1>7. ASSUME NEW d \in Dispatches, ProbedPaused(d)
      PROVE  TypeInv'
  <2>1. dispatch[d].o \in Objects
    BY <1>7, DispatchFields DEF ProbedPaused, Holding
  <2>2. DispatchOK'
    BY <1>7, <2>1, DispatchGoes DEF ProbedPaused, DispatchSteps, Holding
  <2>3. QED
    BY <1>7, <2>2
       DEF ProbedPaused, MapOK, ObjOK, RowOK, DockerOK, SweepOK, RemoverOK,
           OrphansOK, BoundsOK, orphanVars, boundVars
<1>8. ASSUME NEW d \in Dispatches, ProbedDead(d)
      PROVE  TypeInv'
  <2>1. dispatch[d].o \in Objects
    BY <1>8, DispatchFields DEF ProbedDead, Holding
  <2>2. DispatchOK'
    BY <1>8, <2>1, DispatchDiscards DEF ProbedDead
  <2>3. QED
    BY <1>8, <2>2
       DEF ProbedDead, MapOK, ObjOK, RowOK, DockerOK, SweepOK, RemoverOK, OrphansOK,
           BoundsOK, orphanVars, boundVars
<1>9. ASSUME NEW d \in Dispatches, Unpaused(d)
      PROVE  TypeInv'
  <2>1. dispatch[d].o \in Objects
    BY <1>9, DispatchFields DEF Unpaused, Holding
  <2>2. ObjOK'
    BY <1>9, Touches DEF Unpaused
  <2>3. RowOK'
    BY <1>9, Touches DEF Unpaused
  <2>4. DockerOK'
    BY <1>9 DEF Unpaused, Goes, Ends, Touch, Updated, Reassigned, NoDispatch, NoSweep,
                NoRemover, NoOrphans, DockerOK
  <2>5. DispatchOK'
    BY <1>9, <2>1, DispatchGoes DEF Unpaused, DispatchSteps, Holding
  <2>6. QED
    BY <1>9, <2>2, <2>3, <2>4, <2>5
       DEF Unpaused, MapOK, SweepOK, RemoverOK, OrphansOK, BoundsOK, orphanVars,
           boundVars
<1>10. ASSUME NEW d \in Dispatches, UnpauseFails(d)
      PROVE  TypeInv'
  <2>1. DispatchOK'
    BY <1>10, DispatchEnds DEF UnpauseFails
  <2>2. QED
    BY <1>10, <2>1
       DEF UnpauseFails, MapOK, ObjOK, RowOK, DockerOK, SweepOK, RemoverOK,
           OrphansOK, BoundsOK, orphanVars, boundVars
<1>11. ASSUME NEW d \in Dispatches, Discarded(d)
      PROVE  TypeInv'
  <2>1. DockerOK'
    BY <1>11, DispatchFields, Removes DEF Discarded
  <2>2. DispatchOK'
    BY <1>11, DispatchGoes DEF Discarded, DispatchSteps, Holding
  <2>3. BoundsOK'
    BY <1>11, DispatchFields, Removes DEF Discarded
  <2>4. QED
    BY <1>11, <2>1, <2>2, <2>3
       DEF Discarded, MapOK, ObjOK, RowOK, SweepOK, RemoverOK, OrphansOK, orphanVars
<1>12. ASSUME NEW d \in Dispatches, CreateFails(d)
      PROVE  TypeInv'
  <2>1. DispatchOK'
    BY <1>12, DispatchEnds DEF CreateFails
  <2>2. QED
    BY <1>12, <2>1
       DEF CreateFails, MapOK, ObjOK, RowOK, DockerOK, SweepOK, RemoverOK,
           OrphansOK, BoundsOK, orphanVars, boundVars
<1>13. ASSUME NEW d \in Dispatches, Creates(d)
      PROVE  TypeInv'
  <2>1. PICK c \in Containers : /\ docker' = [docker EXCEPT ![c] = "running"]
                               /\ dispatch' = [dispatch EXCEPT ![d].step = "created", ![d].c = c]
    BY <1>13 DEF Creates, FreshContainers
  <2>2. DockerOK'
    BY <1>13, <2>1 DEF Creates, DockerOK
  <2>3. DispatchOK'
    <3> DEFINE n == [dispatch[d] EXCEPT !.step = "created", !.c = c]
    <3>1. dispatch' = [dispatch EXCEPT ![d] = n]
      BY <2>1
    <3>2. n \in DispatchState /\ n.step \notin Holding
      BY DEF DispatchOK, DispatchState, DispatchSteps, Holding, MaybeContainer
    <3> HIDE DEF n
    <3>3. QED
      BY <3>1, <3>2 DEF DispatchOK
  <2>4. QED
    BY <1>13, <2>2, <2>3
       DEF Creates, MapOK, ObjOK, RowOK, SweepOK, RemoverOK, OrphansOK, BoundsOK,
           orphanVars, boundVars
<1>14. ASSUME NEW d \in Dispatches, Registers(d)
      PROVE  TypeInv'
  <2>1. PICK o \in Objects : /\ map' = o /\ obj' = [obj EXCEPT ![o] = NewObject(dispatch[d].c, "active")]
                             /\ dispatch' = [dispatch EXCEPT ![d].step = "registering", ![d].o = o]
    BY <1>14 DEF Registers, FreshObjects
  <2>2. MapOK'
    BY <2>1 DEF MapOK, MaybeObject
  <2>3. ObjOK'
    BY <2>1, DispatchFields, ObjectsBegin DEF ObjOK
  <2>4. DispatchOK'
    <3>1. dispatch' = [dispatch EXCEPT ![d].step = "registering", ![d].o = o]
      BY <2>1
    <3>2. o \in MaybeObject /\ "registering" \in DispatchSteps
      BY DEF MaybeObject, DispatchSteps, Holding
    <3>3. QED
      BY <3>1, <3>2 DEF DispatchOK, DispatchState
  <2>5. QED
    BY <1>14, <2>2, <2>3, <2>4
       DEF Registers, RowOK, DockerOK, SweepOK, RemoverOK, OrphansOK, BoundsOK,
           orphanVars, boundVars
<1>15. ASSUME NEW d \in Dispatches, Registered(d)
      PROVE  TypeInv'
  <2>1. dispatch[d].o \in Objects
    BY <1>15, DispatchFields DEF Registered, Holding
  <2>2. RowOK'
    BY <1>15, DispatchFields DEF Registered, RowOK, Row, RowStatus
  <2>3. DispatchOK'
    BY <1>15, <2>1, DispatchGoes DEF Registered, DispatchSteps, Holding
  <2>4. QED
    BY <1>15, <2>2, <2>3
       DEF Registered, MapOK, ObjOK, DockerOK, SweepOK, RemoverOK, OrphansOK,
           BoundsOK, orphanVars, boundVars
<1>16. ASSUME NEW d \in Dispatches, Reassigns(d)
      PROVE  TypeInv'
  <2>1. map # NoObject => map \in Objects
    BY DEF MapOK, MaybeObject
  <2>2. dispatch[d].o \in Objects /\ dispatch[d].c \in MaybeContainer
    BY <1>16, DispatchFields DEF Reassigns, MaybeObject
  <2>3. ObjOK'
    <3>1. \/ obj' = [obj EXCEPT ![dispatch[d].o].cont = dispatch[d].c]
          \/ /\ map # NoObject
             /\ obj' = [obj EXCEPT ![map].cont = dispatch[d].c, ![map].status = "active"]
      BY <1>16 DEF Reassigns
    <3>2. QED
      BY <2>1, <2>2, <3>1 DEF ObjOK, Object
  <2>4. DispatchOK'
    BY <1>16, <2>2, DispatchGoes DEF Reassigns, DispatchSteps, Holding
  <2>5. QED
    BY <1>16, <2>3, <2>4
       DEF Reassigns, MapOK, RowOK, DockerOK, SweepOK, RemoverOK, OrphansOK,
           BoundsOK, orphanVars, boundVars
<1>17. ASSUME NEW d \in Dispatches, ReassignWritten(d)
      PROVE  TypeInv'
  <2>1. dispatch[d].o \in Objects
    BY <1>17, DispatchFields DEF ReassignWritten, Holding
  <2>2. ObjOK'
    <3>1. /\ dispatch[d].c \in MaybeContainer
          /\ obj' = [obj EXCEPT ![dispatch[d].o].cont = dispatch[d].c]
      BY <1>17, DispatchFields DEF ReassignWritten
    <3>2. QED
      BY <2>1, <3>1 DEF ObjOK, Object
  <2>3. RowOK'
    BY <1>17, RowWritten, DispatchFields DEF ReassignWritten, RowOK, RowStatus
  <2>4. DispatchOK'
    BY <1>17, <2>1, DispatchGoes DEF ReassignWritten, DispatchSteps, Holding
  <2>5. QED
    BY <1>17, <2>2, <2>3, <2>4
       DEF ReassignWritten, MapOK, DockerOK, SweepOK, RemoverOK, OrphansOK,
           BoundsOK, orphanVars, boundVars
<1>18. ASSUME NEW d \in Dispatches, ExecStarts(d)
      PROVE  TypeInv'
  <2>1. dispatch[d].o \in Objects
    BY <1>18, DispatchFields DEF ExecStarts, Holding
  <2>2. DispatchOK'
    BY <1>18, <2>1, DispatchGoes DEF ExecStarts, DispatchSteps, Holding
  <2>3. QED
    BY <1>18, <2>2
       DEF ExecStarts, MapOK, ObjOK, RowOK, DockerOK, SweepOK, RemoverOK, OrphansOK,
           BoundsOK, orphanVars, boundVars
<1>19. ASSUME NEW d \in Dispatches, ExecRefused(d)
      PROVE  TypeInv'
  <2>1. dispatch[d].o \in Objects
    BY <1>19, DispatchFields DEF ExecRefused, Holding
  <2>2. DispatchOK'
    <3>1. CASE Ends(d)
      BY <3>1, DispatchEnds
    <3>2. CASE dispatch' = [dispatch EXCEPT ![d].step = "reviving", ![d].again = TRUE]
      BY <2>1, <3>2 DEF DispatchOK, DispatchState, DispatchSteps, Holding
    <3>3. QED
      BY <1>19, <3>1, <3>2 DEF ExecRefused
  <2>3. QED
    BY <1>19, <2>2
       DEF ExecRefused, MapOK, ObjOK, RowOK, DockerOK, SweepOK, RemoverOK,
           OrphansOK, BoundsOK, orphanVars, boundVars
<1>20. ASSUME NEW d \in Dispatches, Revives(d)
      PROVE  TypeInv'
  <2>1. dispatch[d].o \in Objects
    BY <1>20, DispatchFields DEF Revives, Holding
  <2>2. DispatchOK'
    BY <1>20, <2>1, DispatchGoes, DispatchEnds, DispatchDiscards DEF Revives, DispatchSteps, Holding
  <2>3. QED
    BY <1>20, <2>2
       DEF Revives, MapOK, ObjOK, RowOK, DockerOK, SweepOK, RemoverOK, OrphansOK,
           BoundsOK, orphanVars, boundVars
<1>21. ASSUME NEW d \in Dispatches, TurnEnds(d)
      PROVE  TypeInv'
  <2>1. ObjOK'
    BY <1>21, Touches DEF TurnEnds, ObjOK
  <2>2. RowOK'
    BY <1>21, Touches DEF TurnEnds, RowOK
  <2>3. DispatchOK'
    BY <1>21, DispatchEnds DEF TurnEnds
  <2>4. QED
    BY <1>21, <2>1, <2>2, <2>3
       DEF TurnEnds, MapOK, DockerOK, SweepOK, RemoverOK, OrphansOK, BoundsOK,
           orphanVars, boundVars
<1>22. ASSUME NEW s \in Sweeps, SweepStarts(s)
      PROVE  TypeInv'
  <2>1. map # NoObject => map \in Objects
    BY DEF MapOK, MaybeObject
  <2>2. SweepOK'
    <3>1. [NoSweep EXCEPT !.step = "turn", !.o = map] \in SweepState
      BY <1>22, <2>1 DEF SweepStarts, NoSweep, SweepState, SweepSteps, MaybeObject, MaybeContainer
    <3>2. QED
      BY <1>22, <2>1, <3>1 DEF SweepStarts, SweepOK, NoSweep
  <2>3. QED
    BY <1>22, <2>2
       DEF SweepStarts, MapOK, ObjOK, RowOK, DockerOK, DispatchOK, RemoverOK,
           OrphansOK, BoundsOK, orphanVars, boundVars
<1>23. ASSUME NEW s \in Sweeps, SweepSkips(s)
      PROVE  TypeInv'
  <2>1. sweep[s].step # "idle" /\ sweep[s].o \in Objects
    BY <1>23, SweepFields DEF SweepSkips
  <2>2. obj[sweep[s].o].status \in {"active", "idle", "paused", "resumable", "expired"}
    BY <2>1, ObjectFields
  <2>3. ObjOK'
    <3>1. CASE obj' = [obj EXCEPT ![sweep[s].o].status = IF @ = "idle" THEN "active" ELSE @]
      BY <2>1, <2>2, <3>1 DEF ObjOK, Object
    <3>2. CASE obj' = [obj EXCEPT ![sweep[s].o].status = Seen(sweep[s].o)]
      BY <2>1, <2>2, <3>2 DEF ObjOK, Object, Seen
    <3>3. QED
      BY <1>23, <3>1, <3>2 DEF SweepSkips
  <2>4. SweepOK'
    BY <1>23, SweepEnds DEF SweepSkips
  <2>5. QED
    BY <1>23, <2>3, <2>4
       DEF SweepSkips, MapOK, RowOK, DockerOK, DispatchOK, RemoverOK, OrphansOK,
           BoundsOK, orphanVars, boundVars
<1>24. ASSUME NEW s \in Sweeps, SweepPauses(s)
      PROVE  TypeInv'
  <2>1. sweep[s].step # "idle" /\ sweep[s].o \in Objects
    BY <1>24, SweepFields DEF SweepPauses
  <2>2. obj[sweep[s].o].status \in {"active", "idle", "paused", "resumable", "expired"}
    BY <2>1, ObjectFields
  <2>3. Seen(sweep[s].o) \in {"active", "idle", "paused", "resumable", "expired"}
    BY <2>2 DEF Seen
  <2>4. ObjOK'
    <3>1. obj' = [obj EXCEPT ![sweep[s].o].status = Seen(sweep[s].o)]
      BY <1>24 DEF SweepPauses
    <3>2. QED
      BY <2>1, <2>3, <3>1 DEF ObjOK, Object
  <2>5. SweepOK'
    BY <1>24, <2>1, SweepMoves DEF SweepPauses, SweepSteps
  <2>6. QED
    BY <1>24, <2>4, <2>5
       DEF SweepPauses, MapOK, RowOK, DockerOK, DispatchOK, RemoverOK, OrphansOK,
           BoundsOK, orphanVars, boundVars
<1>25. ASSUME NEW s \in Sweeps, DockerPauses(s)
      PROVE  TypeInv'
  <2>1. sweep[s].step # "idle" /\ sweep[s].o \in Objects
    BY <1>25, SweepFields DEF DockerPauses
  <2>2. DockerOK'
    BY <1>25 DEF DockerPauses, SweepAt, SweepHas, SweepDone, NoSweep, DockerOK
  <2>3. SweepOK'
    BY <1>25, <2>1, SweepMoves, SweepEnds DEF DockerPauses, SweepSteps
  <2>4. QED
    BY <1>25, <2>2, <2>3
       DEF DockerPauses, MapOK, ObjOK, RowOK, DispatchOK, RemoverOK, OrphansOK,
           BoundsOK, orphanVars, boundVars
<1>26. ASSUME NEW s \in Sweeps, PauseAnswered(s)
      PROVE  TypeInv'
  <2>1. sweep[s].step # "idle" /\ sweep[s].o \in Objects
    BY <1>26, SweepFields DEF PauseAnswered
  <2>2. ObjOK'
    <3>1. obj' = [obj EXCEPT ![sweep[s].o].status = "paused"]
      BY <1>26 DEF PauseAnswered
    <3>2. QED
      BY <2>1, <3>1 DEF ObjOK, Object
  <2>3. RowOK'
    BY <1>26, RowWritten DEF PauseAnswered, RowOK, RowStatus
  <2>4. SweepOK'
    BY <1>26, SweepEnds DEF PauseAnswered
  <2>5. QED
    BY <1>26, <2>2, <2>3, <2>4
       DEF PauseAnswered, MapOK, DockerOK, DispatchOK, RemoverOK, OrphansOK,
           BoundsOK, orphanVars, boundVars
<1>27. ASSUME NEW s \in Sweeps, SweepTearsDown(s)
      PROVE  TypeInv'
  <2>1. sweep[s].step # "idle" /\ sweep[s].o \in Objects
    BY <1>27, SweepFields DEF SweepTearsDown
  <2>2. obj[sweep[s].o].status \in {"active", "idle", "paused", "resumable", "expired"}
    BY <2>1, ObjectFields
  <2>3. Seen(sweep[s].o) \in {"active", "idle", "paused", "resumable", "expired"}
    BY <2>2 DEF Seen
  <2>4. ObjOK'
    <3>1. obj' = [obj EXCEPT ![sweep[s].o].status = Seen(sweep[s].o)]
      BY <1>27 DEF SweepTearsDown
    <3>2. QED
      BY <2>1, <2>3, <3>1 DEF ObjOK, Object
  <2>5. SweepOK'
    BY <1>27, <2>1, SweepMoves DEF SweepTearsDown, SweepSteps
  <2>6. QED
    BY <1>27, <2>4, <2>5
       DEF SweepTearsDown, MapOK, RowOK, DockerOK, DispatchOK, RemoverOK, OrphansOK,
           BoundsOK, orphanVars, boundVars
<1>28. ASSUME NEW s \in Sweeps, SweepExpires(s)
      PROVE  TypeInv'
  <2>1. sweep[s].step # "idle" /\ sweep[s].o \in Objects
    BY <1>28, SweepFields DEF SweepExpires
  <2>2. SweepOK'
    BY <1>28, <2>1, SweepMoves DEF SweepExpires, SweepSteps
  <2>3. QED
    BY <1>28, <2>2
       DEF SweepExpires, MapOK, ObjOK, RowOK, DockerOK, DispatchOK, RemoverOK,
           OrphansOK, BoundsOK, orphanVars, boundVars
<1>29. ASSUME NEW s \in Sweeps, SweepRemoves(s)
      PROVE  TypeInv'
  <2>1. sweep[s].step # "idle" /\ sweep[s].o \in Objects
    BY <1>29, SweepFields DEF SweepRemoves
  <2>2. DockerOK'
    BY <1>29, SweepFields, Removes DEF SweepRemoves
  <2>3. SweepOK'
    BY <1>29, <2>1, SweepMoves DEF SweepRemoves, SweepSteps
  <2>4. BoundsOK'
    BY <1>29, SweepFields, Removes DEF SweepRemoves
  <2>5. QED
    BY <1>29, <2>2, <2>3, <2>4
       DEF SweepRemoves, MapOK, ObjOK, RowOK, DispatchOK, RemoverOK, OrphansOK,
           orphanVars
<1>30. ASSUME NEW s \in Sweeps, TeardownAnswered(s)
      PROVE  TypeInv'
  <2>1. sweep[s].step # "idle" /\ sweep[s].o \in Objects
    BY <1>30, SweepFields DEF TeardownAnswered
  <2>2. ObjOK'
    <3>1. obj' = [obj EXCEPT ![sweep[s].o].status = "resumable", ![sweep[s].o].cont = NoContainer]
      BY <1>30 DEF TeardownAnswered
    <3>2. QED
      BY <2>1, <3>1 DEF ObjOK, Object, MaybeContainer
  <2>3. RowOK'
    BY <1>30, RowWritten DEF TeardownAnswered, RowOK, RowStatus, MaybeContainer
  <2>4. SweepOK'
    BY <1>30, SweepEnds DEF TeardownAnswered
  <2>5. QED
    BY <1>30, <2>2, <2>3, <2>4
       DEF TeardownAnswered, MapOK, DockerOK, DispatchOK, RemoverOK, OrphansOK,
           BoundsOK, orphanVars, boundVars
<1>31. ASSUME NEW s \in Sweeps, ExpiryAnswered(s)
      PROVE  TypeInv'
  <2>1. sweep[s].step # "idle" /\ sweep[s].o \in Objects
    BY <1>31, SweepFields DEF ExpiryAnswered
  <2>2. MapOK'
    BY <1>31 DEF ExpiryAnswered, MapOK, MaybeObject
  <2>3. ObjOK'
    <3>1. obj' = [obj EXCEPT ![sweep[s].o].status = "expired"]
      BY <1>31 DEF ExpiryAnswered
    <3>2. QED
      BY <2>1, <3>1 DEF ObjOK, Object, MaybeContainer
  <2>4. RowOK'
    BY <1>31, RowWritten DEF ExpiryAnswered, RowOK, RowStatus, MaybeContainer
  <2>5. SweepOK'
    BY <1>31, SweepEnds DEF ExpiryAnswered
  <2>6. QED
    BY <1>31, <2>2, <2>3, <2>4, <2>5
       DEF ExpiryAnswered, DockerOK, DispatchOK, RemoverOK, OrphansOK, BoundsOK,
           orphanVars, boundVars
<1>32. ASSUME NEW r \in Removers, RemoverStarts(r)
      PROVE  TypeInv'
  <2>1. map # NoObject => map \in Objects
    BY DEF MapOK, MaybeObject
  <2>2. obj[map].cont \in MaybeContainer
    BY <1>32, <2>1, ObjectFields DEF RemoverStarts
  <2>3. RemoverOK'
    <3>1. PICK op \in {"terminate", "delete", "detach"} :
            remover' = [remover EXCEPT ![r] =
              [step |-> IF obj[map].cont = NoContainer THEN "writing" ELSE "removing",
               op |-> op, c |-> obj[map].cont]]
      BY <1>32 DEF RemoverStarts
    <3>2. QED
      BY <2>2, <3>1 DEF RemoverOK, RemoverState
  <2>4. QED
    BY <1>32, <2>3
       DEF RemoverStarts, MapOK, ObjOK, RowOK, DockerOK, DispatchOK, SweepOK,
           OrphansOK, BoundsOK, orphanVars, boundVars
<1>33. ASSUME NEW r \in Removers, RemoverRemoves(r)
      PROVE  TypeInv'
  <2>1. remover[r].c \in MaybeContainer
    BY DEF RemoverOK, RemoverState
  <2>2. remover' = [remover EXCEPT ![r].step = "writing"]
    BY <1>33 DEF RemoverRemoves
  <2>3. DockerOK'
    BY <1>33, <2>1, Removes DEF RemoverRemoves
  <2>4. RemoverOK'
    BY <2>2 DEF RemoverOK, RemoverState
  <2>5. BoundsOK'
    BY <1>33, <2>1, Removes DEF RemoverRemoves
  <2>6. QED
    BY <1>33, <2>3, <2>4, <2>5
       DEF RemoverRemoves, MapOK, ObjOK, RowOK, DispatchOK, SweepOK, OrphansOK,
           orphanVars
<1>34. ASSUME NEW r \in Removers, RemoverWrites(r)
      PROVE  TypeInv'
  <2>1. map # NoObject => map \in Objects
    BY DEF MapOK, MaybeObject
  <2>2. remover' = [remover EXCEPT ![r] = [step |-> "answered", op |-> "none", c |-> NoContainer]]
    BY <1>34 DEF RemoverWrites
  <2>3. /\ Updated("expired") \in Row /\ NoRow \in Row
        /\ Reassigned(NoContainer, "resumable") \in Row
    BY RowWritten DEF NoRow, Row, RowStatus, MaybeContainer
  <2>4. MapOK'
    BY <1>34 DEF RemoverWrites, MapOK, MaybeObject
  <2>5. ObjOK'
    <3>1. \/ UNCHANGED obj
          \/ map # NoObject /\ obj' = [obj EXCEPT ![map].cont = NoContainer, ![map].status = "resumable"]
      BY <1>34 DEF RemoverWrites
    <3>2. QED
      BY <2>1, <3>1 DEF ObjOK, Object, MaybeContainer
  <2>6. RowOK'
    BY <1>34, <2>3 DEF RemoverWrites, RowOK
  <2>7. RemoverOK'
    BY <2>2 DEF RemoverOK, RemoverState, MaybeContainer
  <2>8. QED
    BY <1>34, <2>4, <2>5, <2>6, <2>7
       DEF RemoverWrites, DockerOK, DispatchOK, SweepOK, OrphansOK, BoundsOK,
           orphanVars, boundVars
<1>35. ASSUME OrphansListed
      PROVE  TypeInv'
  <2>1. map # NoObject => map \in Objects
    BY DEF MapOK, MaybeObject
  <2>2. map # NoObject => obj[map].cont \in MaybeContainer
    BY <2>1, ObjectFields
  <2>3. OrphansOK'
    <3> DEFINE S == {c \in Containers : docker[c] # "none"}
               K == IF map = NoObject THEN {} ELSE {obj[map].cont}
    <3>1. S \in SUBSET Containers /\ K \in SUBSET MaybeContainer
      BY <2>2
    <3>2. orphans' = [NoOrphans EXCEPT !.step = "reading", !.seen = S, !.keep = K]
          /\ UNCHANGED candidates
      BY <1>35 DEF OrphansListed
    <3> HIDE DEF S, K
    <3>3. QED
      BY <3>1, <3>2 DEF NoOrphans, OrphansOK, OrphansState
  <2>4. QED
    BY <1>35, <2>3
       DEF OrphansListed, MapOK, ObjOK, RowOK, DockerOK, DispatchOK, SweepOK,
           RemoverOK, BoundsOK, actorVars, boundVars
<1>36. ASSUME OrphansFound
      PROVE  TypeInv'
  <2>1. OrphansOK'
    <3> DEFINE F == (orphans.seen \cap aged) \ Known
               D == F \cap candidates
    <3>1. F \in SUBSET Containers /\ D \in SUBSET Containers
      BY DEF DockerOK
    <3>2. /\ orphans' = [NoOrphans EXCEPT !.step = "reaping", !.found = F, !.todo = D]
          /\ UNCHANGED candidates
      BY <1>36 DEF OrphansFound
    <3> HIDE DEF F, D
    <3>3. QED
      BY <3>1, <3>2 DEF NoOrphans, OrphansOK, OrphansState
  <2>2. QED
    BY <1>36, <2>1
       DEF OrphansFound, MapOK, ObjOK, RowOK, DockerOK, DispatchOK, SweepOK,
           RemoverOK, BoundsOK, actorVars, boundVars
<1>37. ASSUME OrphansUnknown
      PROVE  TypeInv'
  <2>1. OrphansOK'
    <3>1. NoOrphans \in OrphansState
      BY DEF NoOrphans, OrphansState
    <3>2. QED
      BY <1>37, <3>1 DEF OrphansUnknown, OrphansOK, OrphansState
  <2>2. QED
    BY <1>37, <2>1
       DEF OrphansUnknown, MapOK, ObjOK, RowOK, DockerOK, DispatchOK, SweepOK,
           RemoverOK, BoundsOK, actorVars, boundVars
<1>38. ASSUME OrphansEnd
      PROVE  TypeInv'
  <2>1. OrphansOK'
    <3>1. NoOrphans \in OrphansState
      BY DEF NoOrphans, OrphansState
    <3>2. QED
      BY <1>38, <3>1 DEF OrphansEnd, OrphansOK, OrphansState
  <2>2. QED
    BY <1>38, <2>1
       DEF OrphansEnd, MapOK, ObjOK, RowOK, DockerOK, DispatchOK, SweepOK,
           RemoverOK, BoundsOK, actorVars, boundVars
<1>39. ASSUME RowLapses
      PROVE  TypeInv'
  <2>1. RowOK'
    BY <1>39 DEF RowLapses, RowOK, Row
  <2>2. QED
    BY <1>39, <2>1
       DEF RowLapses, MapOK, ObjOK, DockerOK, DispatchOK, SweepOK, RemoverOK,
           OrphansOK, BoundsOK, actorVars, orphanVars, boundVars
<1>40. ASSUME NEW c \in Containers, OrphanReaped(c)
      PROVE  TypeInv'
  <2>1. orphans' = [orphans EXCEPT !.todo = @ \ {c}] /\ UNCHANGED candidates
    BY <1>40 DEF OrphanReaped
  <2>2. DockerOK'
    BY <1>40, Removes DEF OrphanReaped, MaybeContainer
  <2>3. OrphansOK'
    BY <2>1 DEF OrphansOK, OrphansState
  <2>4. BoundsOK'
    BY <1>40, Removes DEF OrphanReaped, MaybeContainer
  <2>5. QED
    BY <1>40, <2>2, <2>3, <2>4
       DEF OrphanReaped, MapOK, ObjOK, RowOK, DispatchOK, SweepOK, RemoverOK,
           actorVars
<1>41. ASSUME NEW c \in Containers, Ages(c)
      PROVE  TypeInv'
  <2>1. DockerOK'
    BY <1>41 DEF Ages, DockerOK
  <2>2. QED
    BY <1>41, <2>1
       DEF Ages, MapOK, ObjOK, RowOK, DispatchOK, SweepOK, RemoverOK, OrphansOK,
           BoundsOK, actorVars, orphanVars, boundVars
<1>42. ASSUME NEW c \in Containers, Dies(c)
      PROVE  TypeInv'
  <2>1. DockerOK'
    BY <1>42 DEF Dies, DockerOK
  <2>2. QED
    BY <1>42, <2>1
       DEF Dies, MapOK, ObjOK, RowOK, DispatchOK, SweepOK, RemoverOK, OrphansOK,
           BoundsOK, actorVars, orphanVars, boundVars
<1>43. ASSUME NEW o \in Objects, Quiets(o)
      PROVE  TypeInv'
  <2>1. obj' = [obj EXCEPT ![o].clock = IF @ = "fresh" THEN "quiet" ELSE "stale"]
    BY <1>43 DEF Quiets
  <2>2. ObjOK'
    BY <2>1 DEF ObjOK, Object
  <2>3. QED
    BY <1>43, <2>2
       DEF Quiets, MapOK, RowOK, DockerOK, DispatchOK, SweepOK, RemoverOK,
           OrphansOK, BoundsOK, actorVars, orphanVars, boundVars
<1>44. ASSUME NEW o \in Objects, Lapses(o)
      PROVE  TypeInv'
  <2>1. /\ obj' = [obj EXCEPT ![o].due = TRUE]
        /\ row' = [row EXCEPT !.due = @ \/ o = map]
    BY <1>44 DEF Lapses
  <2>2. ObjOK'
    BY <2>1 DEF ObjOK, Object
  <2>3. RowOK'
    BY <2>1 DEF RowOK, Row
  <2>4. QED
    BY <1>44, <2>2, <2>3
       DEF Lapses, MapOK, DockerOK, DispatchOK, SweepOK, RemoverOK, OrphansOK,
           BoundsOK, actorVars, orphanVars, boundVars
<1>45. ASSUME Restart
      PROVE  TypeInv'
  <2>1. row' \in Row
    BY <1>45, RowWritten DEF Restart, RowOK, RowStatus, MaybeContainer
  <2>2. row'.cont \in MaybeContainer /\ row'.status \in RowStatus /\ row.due \in BOOLEAN
    BY <2>1 DEF RowOK, Row
  <2>3. row.status # "none" /\ row.status # "expired" => row'.status \in {"active", "paused", "resumable"}
    BY <1>45 DEF Restart, RowOK, Row, RowStatus, Reassigned
  <2>4. MapOK'
    BY <1>45 DEF Restart, MapOK, MaybeObject
  <2>5. ObjOK'
    <3>1. CASE UNCHANGED obj
      BY <3>1 DEF ObjOK
    <3>2. CASE ~UNCHANGED obj
      <4>1. PICK o \in Objects, k \in {"fresh", "quiet", "stale"} :
              obj' = [obj EXCEPT ![o] = [NewObject(row'.cont, row'.status) EXCEPT
                                           !.clock = k, !.due = row.due]]
        BY <1>45, <3>2 DEF Restart
      <4>2. row'.status \in {"active", "paused", "resumable"}
        BY <1>45, <2>3, <3>2 DEF Restart
      <4>3. PICK v \in MaybeContainer, st \in {"active", "paused", "resumable"}, due \in BOOLEAN :
              obj' = [obj EXCEPT ![o] = [NewObject(v, st) EXCEPT !.clock = k, !.due = due]]
        BY <2>2, <4>1, <4>2
      <4>4. [obj EXCEPT ![o] = [NewObject(v, st) EXCEPT !.clock = k, !.due = due]] \in [Objects -> Object]
        BY ObjectRebuilt
      <4>5. QED
        BY <4>3, <4>4 DEF ObjOK
    <3>3. QED
      BY <3>1, <3>2
  <2>6. RowOK'
    BY <2>1 DEF RowOK
  <2>7. DispatchOK'
    <3>1. NoDispatch \in DispatchState /\ NoDispatch.step \notin Holding
      BY DEF NoDispatch, DispatchState, DispatchSteps, Holding, MaybeObject, MaybeContainer
    <3>2. QED
      BY <1>45, <3>1 DEF Restart, DispatchOK
  <2>8. SweepOK'
    <3>1. NoSweep \in SweepState /\ NoSweep.step = "idle"
      BY DEF NoSweep, SweepState, SweepSteps, MaybeObject, MaybeContainer
    <3>2. QED
      BY <1>45, <3>1 DEF Restart, SweepOK
  <2>9. RemoverOK'
    <3>1. /\ [NoRemover EXCEPT !.step = "new"] \in RemoverState
          /\ [NoRemover EXCEPT !.step = "answered"] \in RemoverState
      BY DEF NoRemover, RemoverState, MaybeContainer
    <3>2. remover' = [r \in Removers |-> [NoRemover EXCEPT !.step =
                        IF remover[r].step = "new" THEN "new" ELSE "answered"]]
      BY <1>45 DEF Restart
    <3>3. QED
      BY <3>1, <3>2 DEF RemoverOK
  <2>10. OrphansOK'
    <3>1. NoOrphans \in OrphansState
      BY DEF NoOrphans, OrphansState
    <3>2. orphans' = NoOrphans /\ candidates' \subseteq Containers
      BY <1>45 DEF Restart, DockerOK
    <3>3. QED
      BY <3>1, <3>2 DEF OrphansOK
  <2>11. BoundsOK'
    <3>1. restarts < MaxRestarts /\ restarts' = restarts + 1 /\ UNCHANGED <<persistent, errors>>
      BY <1>45 DEF Restart
    <3>2. QED
      BY <3>1, BoundsAssumption DEF BoundsOK
  <2>12. QED
    BY <1>45, <2>4, <2>5, <2>6, <2>7, <2>8, <2>9, <2>10, <2>11
       DEF Restart, DockerOK
<1>46. CASE UNCHANGED vars
  BY <1>46 DEF vars, actorVars, orphanVars, boundVars, MapOK, ObjOK, RowOK, DockerOK,
            DispatchOK, SweepOK, RemoverOK, OrphansOK, BoundsOK
<1>47. QED
  BY <1>1, <1>2, <1>3, <1>4, <1>5, <1>6, <1>7, <1>8, <1>9, <1>10, <1>11, <1>12,
     <1>13, <1>14, <1>15, <1>16, <1>17, <1>18, <1>19, <1>20, <1>21, <1>22, <1>23,
     <1>24, <1>25, <1>26, <1>27, <1>28, <1>29, <1>30, <1>31, <1>32, <1>33, <1>34,
     <1>35, <1>36, <1>37, <1>38, <1>39, <1>40, <1>41, <1>42, <1>43, <1>44, <1>45,
     <1>46
     DEF Next, DispatchStep, SweepStep, RemoverStep, OrphanStep

\* The session's types always hold, for whatever instance.
LEMMA TypeAlways == Spec => []TypeInv
<1>1. Init => TypeInv
  <2> SUFFICES ASSUME Init PROVE TypeInv
    OBVIOUS
  <2>1. ObjOK
    BY DEF Init, ObjOK, NewObject, Object, MaybeContainer
  <2>2. RowOK /\ DockerOK /\ MapOK
    BY DEF Init, RowOK, NoRow, Row, RowStatus, MaybeContainer, DockerOK, MapOK, MaybeObject
  <2>3. DispatchOK
    BY DEF Init, DispatchOK, NoDispatch, DispatchState, DispatchSteps, Holding, MaybeObject,
           MaybeContainer
  <2>4. SweepOK /\ RemoverOK
    BY DEF Init, SweepOK, NoSweep, SweepState, SweepSteps, RemoverOK, NoRemover, RemoverState,
           MaybeObject, MaybeContainer
  <2>5. OrphansOK /\ BoundsOK
    BY BoundsAssumption DEF Init, OrphansOK, NoOrphans, OrphansState, BoundsOK
  <2>6. QED
    BY <2>1, <2>2, <2>3, <2>4, <2>5 DEF TypeInv
<1>2. TypeInv /\ [Next]_vars => TypeInv'
  BY TypeStep
<1>3. QED
  BY <1>1, <1>2, PTL DEF Spec

\* The session's records, Docker's containers and the actors' states stay in their types,
\* whatever is interleaved.
THEOREM TypeCorrect == Spec => []TypeOK
  BY TypeAlways, InvHasTypes, PTL
-----------------------------------------------------------------------------
(* The orphan sweep.                                                         *)

\* A dispatch has a container that is on no record yet.
Unrecorded == {"created", "registering", "reassigning"}
Pending(c) == \E d \in Dispatches : dispatch[d].step \in Unrecorded /\ dispatch[d].c = c
InMap(c) == map # NoObject /\ obj[map].cont = c

\* Only a container that is in Docker is old.
AgedExist == \A c \in aged : docker[c] # "none"
\* One that is about to be put on record is neither old nor found to be an orphan.
PendingSpared == \A c \in aged \cup orphans.found : ~Pending(c)
\* What was old and not in the map when the pass took its list does not get there.
ListHolds == orphans.step = "reading" =>
               \A c \in (orphans.seen \cap aged) \ orphans.keep : ~InMap(c)
\* What was found stays on no record while it is being removed.
FoundUnknown == \A c \in orphans.found : c # row.cont /\ ~InMap(c)

ReapInv == /\ AgedExist /\ PendingSpared /\ ListHolds /\ FoundUnknown
           /\ orphans.todo \subseteq orphans.found

\* In a step, a container comes on record only from a dispatch that has it pending,
\* nothing becomes pending, and nothing old.
RowGains == \A c \in Containers : c = row'.cont => c = row.cont \/ Pending(c)
MapGains == \A c \in Containers : InMap(c)' => InMap(c) \/ Pending(c)
HandsKeep == \A d \in Dispatches : dispatch'[d].step \in Unrecorded =>
               dispatch[d].step \in Unrecorded /\ dispatch'[d].c = dispatch[d].c
AgedStay == aged' \subseteq aged /\ \A c \in aged' : docker'[c] # "none"

\* Then the pass is not disturbed.
LEMMA PassUndisturbed ==
    ASSUME TypeInv, ReapInv, RowGains, MapGains, HandsKeep, AgedStay, UNCHANGED orphans
    PROVE  ReapInv'
<1>1. orphans.found \subseteq Containers /\ aged \subseteq Containers
  BY DEF TypeInv, OrphansOK, OrphansState, DockerOK
<1>2. \A c : Pending(c)' => Pending(c)
  BY DEF HandsKeep, Pending
<1>3. AgedExist' /\ PendingSpared'
  BY <1>2 DEF ReapInv, AgedStay, AgedExist, PendingSpared
<1>4. ListHolds'
  BY <1>1 DEF ReapInv, AgedStay, MapGains, ListHolds, PendingSpared
<1>5. FoundUnknown'
  BY <1>1 DEF ReapInv, RowGains, MapGains, FoundUnknown, PendingSpared
<1>6. QED
  BY <1>3, <1>4, <1>5 DEF ReapInv

LEMMA RowContainer ==
    \A s : /\ Updated(s).cont = row.cont
           /\ \A c : RowOK => Reassigned(c, s).cont \in {row.cont, c}
  BY DEF Updated, Reassigned, RowOK, Row

\* The session's object keeps its container or loses it.
LEMMA ObjectsLose ==
    ASSUME MapOK, map' \in {map, NoObject},
           \A o \in Objects : obj'[o].cont \in {obj[o].cont, NoContainer}
    PROVE  MapGains
  BY NoneAssumption DEF MapGains, InMap, MapOK, MaybeObject

LEMMA TouchGains ==
    ASSUME MapOK, ObjOK, Touch, UNCHANGED map
    PROVE  RowGains /\ MapGains
<1>1. row'.cont = row.cont
  BY RowContainer DEF Touch
<1>2. \A o \in Objects : obj'[o].cont = obj[o].cont
  BY DEF Touch, ObjOK, Object
<1>3. QED
  BY <1>1, <1>2, ObjectsLose DEF RowGains

LEMMA GoesKeeps ==
    ASSUME DispatchOK, NEW d \in Dispatches, NEW s, Goes(d, s),
           s \in Unrecorded => dispatch[d].step \in Unrecorded
    PROVE  HandsKeep
  BY DEF DispatchOK, DispatchState, Goes, HandsKeep

LEMMA EndsKeeps ==
    ASSUME DispatchOK, NEW d \in Dispatches, Ends(d)
    PROVE  HandsKeep
  BY DEF DispatchOK, Ends, NoDispatch, HandsKeep, Unrecorded

LEMMA DiscardsKeeps ==
    ASSUME DispatchOK, NEW d \in Dispatches, Discards(d)
    PROVE  HandsKeep
  BY DEF DispatchOK, DispatchState, Discards, HandsKeep, Unrecorded

LEMMA RemovedStay ==
    ASSUME DockerOK, AgedExist, NEW c, Removed(c)
    PROVE  AgedStay
  BY DEF DockerOK, AgedExist, Removed, AgedStay

\* Every step leaves the pass with containers that nobody owns.
LEMMA ReapStep == ASSUME TypeInv, ReapInv, [Next]_vars PROVE ReapInv'
<1> USE DEF TypeInv
<1>1. ASSUME NEW d \in Dispatches, ResurrectReads(d)
      PROVE  ReapInv'
  <2>1. HandsKeep
    BY <1>1, GoesKeeps DEF ResurrectReads, Unrecorded
  <2>2. QED
    BY <1>1, <2>1, PassUndisturbed
       DEF ResurrectReads, orphanVars, boundVars, RowGains, MapGains, InMap,
           AgedStay, ReapInv, AgedExist
<1>2. ASSUME NEW d \in Dispatches, Resurrects(d)
      PROVE  ReapInv'
  <2>1. MapGains
    BY <1>2, NoneAssumption DEF Resurrects, FreshObjects, NewObject, MapGains, InMap, ObjOK
  <2>2. HandsKeep
    BY <1>2, GoesKeeps, EndsKeeps DEF Resurrects, Unrecorded
  <2>3. QED
    BY <1>2, <2>1, <2>2, PassUndisturbed
       DEF Resurrects, orphanVars, boundVars, RowGains, AgedStay, ReapInv, AgedExist
<1>3. ASSUME NEW d \in Dispatches, Resurrected(d)
      PROVE  ReapInv'
  <2>1. RowGains
    BY <1>3, RowContainer, NoneAssumption DEF Resurrected, RowGains
  <2>2. HandsKeep
    BY <1>3, EndsKeeps DEF Resurrected
  <2>3. QED
    BY <1>3, <2>1, <2>2, PassUndisturbed
       DEF Resurrected, orphanVars, boundVars, MapGains, InMap, AgedStay, ReapInv,
           AgedExist
<1>4. ASSUME NEW d \in Dispatches, Begins(d)
      PROVE  ReapInv'
  <2>1. MapGains
    <3>1. \A x \in Objects : obj'[x].cont \in {obj[x].cont, NoContainer}
      BY <1>4 DEF Begins, ObjOK, Object
    <3>2. QED
      BY <1>4, <3>1, ObjectsLose DEF Begins
  <2>2. HandsKeep
    BY <1>4, GoesKeeps DEF Begins, HandsKeep, Unrecorded, DispatchOK, DispatchState, NoDispatch
  <2>3. QED
    BY <1>4, <2>1, <2>2, PassUndisturbed
       DEF Begins, orphanVars, boundVars, RowGains, AgedStay, ReapInv, AgedExist
<1>5. ASSUME NEW d \in Dispatches, Touched(d)
      PROVE  ReapInv'
  <2>1. RowGains
    BY <1>5, RowContainer DEF Touched, RowGains
  <2>2. HandsKeep
    BY <1>5 DEF Touched, HandsKeep, Unrecorded, DispatchOK, DispatchState
  <2>3. QED
    BY <1>5, <2>1, <2>2, PassUndisturbed
       DEF Touched, orphanVars, boundVars, MapGains, InMap, AgedStay, ReapInv,
           AgedExist
<1>6. ASSUME NEW d \in Dispatches, ProbedRunning(d)
      PROVE  ReapInv'
  <2>1. RowGains
    BY <1>6, TouchGains DEF ProbedRunning
  <2>2. MapGains
    BY <1>6, TouchGains DEF ProbedRunning
  <2>3. HandsKeep
    BY <1>6, GoesKeeps DEF ProbedRunning, Unrecorded
  <2>4. QED
    BY <1>6, <2>1, <2>2, <2>3, PassUndisturbed
       DEF ProbedRunning, orphanVars, boundVars, AgedStay, ReapInv, AgedExist
<1>7. ASSUME NEW d \in Dispatches, ProbedPaused(d)
      PROVE  ReapInv'
  <2>1. HandsKeep
    BY <1>7, GoesKeeps DEF ProbedPaused, Unrecorded
  <2>2. QED
    BY <1>7, <2>1, PassUndisturbed
       DEF ProbedPaused, orphanVars, boundVars, RowGains, MapGains, InMap, AgedStay,
           ReapInv, AgedExist
<1>8. ASSUME NEW d \in Dispatches, ProbedDead(d)
      PROVE  ReapInv'
  <2>1. HandsKeep
    BY <1>8, DiscardsKeeps DEF ProbedDead
  <2>2. QED
    BY <1>8, <2>1, PassUndisturbed
       DEF ProbedDead, orphanVars, boundVars, RowGains, MapGains, InMap, AgedStay,
           ReapInv, AgedExist
<1>9. ASSUME NEW d \in Dispatches, Unpaused(d)
      PROVE  ReapInv'
  <2>1. RowGains
    BY <1>9, TouchGains DEF Unpaused
  <2>2. MapGains
    BY <1>9, TouchGains DEF Unpaused
  <2>3. HandsKeep
    BY <1>9, GoesKeeps DEF Unpaused, Unrecorded
  <2>4. AgedStay
    BY <1>9 DEF Unpaused, AgedStay, ReapInv, AgedExist, DockerOK
  <2>5. QED
    BY <1>9, <2>1, <2>2, <2>3, <2>4, PassUndisturbed
       DEF Unpaused, orphanVars, boundVars
<1>10. ASSUME NEW d \in Dispatches, UnpauseFails(d)
      PROVE  ReapInv'
  <2>1. HandsKeep
    BY <1>10, EndsKeeps DEF UnpauseFails
  <2>2. QED
    BY <1>10, <2>1, PassUndisturbed
       DEF UnpauseFails, orphanVars, boundVars, RowGains, MapGains, InMap, AgedStay,
           ReapInv, AgedExist
<1>11. ASSUME NEW d \in Dispatches, Discarded(d)
      PROVE  ReapInv'
  <2>1. HandsKeep
    BY <1>11, GoesKeeps DEF Discarded, Unrecorded
  <2>2. AgedStay
    BY <1>11, RemovedStay DEF Discarded, ReapInv
  <2>3. QED
    BY <1>11, <2>1, <2>2, PassUndisturbed
       DEF Discarded, orphanVars, RowGains, MapGains, InMap
<1>12. ASSUME NEW d \in Dispatches, CreateFails(d)
      PROVE  ReapInv'
  <2>1. HandsKeep
    BY <1>12, EndsKeeps DEF CreateFails
  <2>2. QED
    BY <1>12, <2>1, PassUndisturbed
       DEF CreateFails, orphanVars, boundVars, RowGains, MapGains, InMap, AgedStay,
           ReapInv, AgedExist
<1>13. ASSUME NEW d \in Dispatches, Creates(d)
      PROVE  ReapInv'
  <2>1. PICK c \in FreshContainers :
           /\ docker' = [docker EXCEPT ![c] = "running"]
           /\ dispatch' = [dispatch EXCEPT ![d].step = "created", ![d].c = c]
    BY <1>13 DEF Creates
  <2>2. c \in Containers /\ docker[c] = "none" /\ c \notin orphans.found
    BY DEF FreshContainers, Named
  <2>3. c \notin aged
    BY <2>2 DEF ReapInv, AgedExist
  <2>4. UNCHANGED <<map, obj, row, aged, orphans>>
    BY <1>13 DEF Creates, orphanVars
  <2>5. \A x : Pending(x)' => x = c \/ Pending(x)
    BY <2>1 DEF Pending, DispatchOK, DispatchState
  <2>6. AgedExist'
    BY <2>1, <2>4 DEF ReapInv, AgedExist, DockerOK
  <2>7. PendingSpared'
    BY <2>2, <2>3, <2>4, <2>5 DEF ReapInv, PendingSpared
  <2>8. QED
    BY <2>4, <2>6, <2>7 DEF ReapInv, ListHolds, FoundUnknown, InMap
<1>14. ASSUME NEW d \in Dispatches, Registers(d)
      PROVE  ReapInv'
  <2>1. Pending(dispatch[d].c)
    BY <1>14 DEF Registers, Pending, Unrecorded
  <2>2. MapGains
    BY <1>14, <2>1 DEF Registers, FreshObjects, NewObject, MapGains, InMap, ObjOK
  <2>3. HandsKeep
    BY <1>14 DEF Registers, HandsKeep, Unrecorded, DispatchOK, DispatchState
  <2>4. QED
    BY <1>14, <2>2, <2>3, PassUndisturbed
       DEF Registers, orphanVars, boundVars, RowGains, AgedStay, ReapInv, AgedExist
<1>15. ASSUME NEW d \in Dispatches, Registered(d)
      PROVE  ReapInv'
  <2>1. RowGains
    BY <1>15 DEF Registered, RowGains, Pending, Unrecorded
  <2>2. HandsKeep
    BY <1>15, GoesKeeps DEF Registered, Unrecorded
  <2>3. QED
    BY <1>15, <2>1, <2>2, PassUndisturbed
       DEF Registered, orphanVars, boundVars, MapGains, InMap, AgedStay, ReapInv,
           AgedExist
<1>16. ASSUME NEW d \in Dispatches, Reassigns(d)
      PROVE  ReapInv'
  <2>1. Pending(dispatch[d].c)
    BY <1>16 DEF Reassigns, Pending, Unrecorded
  <2>2. MapGains
    BY <1>16, <2>1 DEF Reassigns, MapGains, InMap, MapOK, MaybeObject, ObjOK, Object
  <2>3. HandsKeep
    BY <1>16, GoesKeeps DEF Reassigns, Unrecorded
  <2>4. QED
    BY <1>16, <2>2, <2>3, PassUndisturbed
       DEF Reassigns, orphanVars, boundVars, RowGains, AgedStay, ReapInv, AgedExist
<1>17. ASSUME NEW d \in Dispatches, ReassignWritten(d)
      PROVE  ReapInv'
  <2>1. Pending(dispatch[d].c)
    BY <1>17 DEF ReassignWritten, Pending, Unrecorded
  <2>2. RowGains
    BY <1>17, <2>1, RowContainer DEF ReassignWritten, RowGains
  <2>3. MapGains
    BY <1>17, <2>1 DEF ReassignWritten, MapGains, InMap, MapOK, MaybeObject, ObjOK, Object
  <2>4. HandsKeep
    BY <1>17, GoesKeeps DEF ReassignWritten, Unrecorded
  <2>5. QED
    BY <1>17, <2>2, <2>3, <2>4, PassUndisturbed
       DEF ReassignWritten, orphanVars, boundVars, AgedStay, ReapInv, AgedExist
<1>18. ASSUME NEW d \in Dispatches, ExecStarts(d)
      PROVE  ReapInv'
  <2>1. HandsKeep
    BY <1>18, GoesKeeps DEF ExecStarts, Unrecorded
  <2>2. QED
    BY <1>18, <2>1, PassUndisturbed
       DEF ExecStarts, orphanVars, boundVars, RowGains, MapGains, InMap, AgedStay,
           ReapInv, AgedExist
<1>19. ASSUME NEW d \in Dispatches, ExecRefused(d)
      PROVE  ReapInv'
  <2>1. HandsKeep
    BY <1>19, EndsKeeps DEF ExecRefused, HandsKeep, Unrecorded, DispatchOK, DispatchState
  <2>2. QED
    BY <1>19, <2>1, PassUndisturbed
       DEF ExecRefused, orphanVars, boundVars, RowGains, MapGains, InMap, AgedStay,
           ReapInv, AgedExist
<1>20. ASSUME NEW d \in Dispatches, Revives(d)
      PROVE  ReapInv'
  <2>1. HandsKeep
    BY <1>20, GoesKeeps, EndsKeeps, DiscardsKeeps DEF Revives, Unrecorded
  <2>2. QED
    BY <1>20, <2>1, PassUndisturbed
       DEF Revives, orphanVars, boundVars, RowGains, MapGains, InMap, AgedStay,
           ReapInv, AgedExist
<1>21. ASSUME NEW d \in Dispatches, TurnEnds(d)
      PROVE  ReapInv'
  <2>1. RowGains
    BY <1>21, TouchGains DEF TurnEnds, RowGains
  <2>2. MapGains
    BY <1>21, TouchGains DEF TurnEnds, MapGains, InMap
  <2>3. HandsKeep
    BY <1>21, EndsKeeps DEF TurnEnds
  <2>4. QED
    BY <1>21, <2>1, <2>2, <2>3, PassUndisturbed
       DEF TurnEnds, orphanVars, boundVars, AgedStay, ReapInv, AgedExist
<1>22. ASSUME NEW s \in Sweeps, SweepStarts(s)
      PROVE  ReapInv'
  BY <1>22, PassUndisturbed
     DEF SweepStarts, orphanVars, boundVars, RowGains, MapGains, InMap, HandsKeep,
         AgedStay, ReapInv, AgedExist
<1>23. ASSUME NEW s \in Sweeps, SweepSkips(s)
      PROVE  ReapInv'
  <2>1. MapGains
    <3>1. \A x \in Objects : obj'[x].cont \in {obj[x].cont, NoContainer}
      BY <1>23 DEF SweepSkips, ObjOK, Object
    <3>2. QED
      BY <1>23, <3>1, ObjectsLose DEF SweepSkips
  <2>2. QED
    BY <1>23, <2>1, PassUndisturbed
       DEF SweepSkips, orphanVars, boundVars, RowGains, HandsKeep, AgedStay,
           ReapInv, AgedExist
<1>24. ASSUME NEW s \in Sweeps, SweepPauses(s)
      PROVE  ReapInv'
  <2>1. MapGains
    <3>1. \A x \in Objects : obj'[x].cont \in {obj[x].cont, NoContainer}
      BY <1>24 DEF SweepPauses, ObjOK, Object
    <3>2. QED
      BY <1>24, <3>1, ObjectsLose DEF SweepPauses
  <2>2. QED
    BY <1>24, <2>1, PassUndisturbed
       DEF SweepPauses, orphanVars, boundVars, RowGains, HandsKeep, AgedStay,
           ReapInv, AgedExist
<1>25. ASSUME NEW s \in Sweeps, DockerPauses(s)
      PROVE  ReapInv'
  <2>1. AgedStay
    BY <1>25 DEF DockerPauses, AgedStay, ReapInv, AgedExist, DockerOK
  <2>2. QED
    BY <1>25, <2>1, PassUndisturbed
       DEF DockerPauses, orphanVars, boundVars, RowGains, MapGains, InMap, HandsKeep
<1>26. ASSUME NEW s \in Sweeps, PauseAnswered(s)
      PROVE  ReapInv'
  <2>1. RowGains
    BY <1>26, RowContainer, NoneAssumption DEF PauseAnswered, RowGains
  <2>2. MapGains
    <3>1. \A x \in Objects : obj'[x].cont \in {obj[x].cont, NoContainer}
      BY <1>26 DEF PauseAnswered, ObjOK, Object
    <3>2. QED
      BY <1>26, <3>1, ObjectsLose DEF PauseAnswered
  <2>3. QED
    BY <1>26, <2>1, <2>2, PassUndisturbed
       DEF PauseAnswered, orphanVars, boundVars, HandsKeep, AgedStay, ReapInv,
           AgedExist
<1>27. ASSUME NEW s \in Sweeps, SweepTearsDown(s)
      PROVE  ReapInv'
  <2>1. MapGains
    <3>1. \A x \in Objects : obj'[x].cont \in {obj[x].cont, NoContainer}
      BY <1>27 DEF SweepTearsDown, ObjOK, Object
    <3>2. QED
      BY <1>27, <3>1, ObjectsLose DEF SweepTearsDown
  <2>2. QED
    BY <1>27, <2>1, PassUndisturbed
       DEF SweepTearsDown, orphanVars, boundVars, RowGains, HandsKeep, AgedStay,
           ReapInv, AgedExist
<1>28. ASSUME NEW s \in Sweeps, SweepExpires(s)
      PROVE  ReapInv'
  BY <1>28, PassUndisturbed
     DEF SweepExpires, orphanVars, boundVars, RowGains, MapGains, InMap, HandsKeep,
         AgedStay, ReapInv, AgedExist
<1>29. ASSUME NEW s \in Sweeps, SweepRemoves(s)
      PROVE  ReapInv'
  <2>1. AgedStay
    BY <1>29, RemovedStay DEF SweepRemoves, ReapInv
  <2>2. QED
    BY <1>29, <2>1, PassUndisturbed
       DEF SweepRemoves, orphanVars, RowGains, MapGains, InMap, HandsKeep
<1>30. ASSUME NEW s \in Sweeps, TeardownAnswered(s)
      PROVE  ReapInv'
  <2>1. RowGains
    BY <1>30, RowContainer, NoneAssumption DEF TeardownAnswered, RowGains
  <2>2. MapGains
    <3>1. \A x \in Objects : obj'[x].cont \in {obj[x].cont, NoContainer}
      BY <1>30 DEF TeardownAnswered, ObjOK, Object
    <3>2. QED
      BY <1>30, <3>1, ObjectsLose DEF TeardownAnswered
  <2>3. QED
    BY <1>30, <2>1, <2>2, PassUndisturbed
       DEF TeardownAnswered, orphanVars, boundVars, HandsKeep, AgedStay, ReapInv,
           AgedExist
<1>31. ASSUME NEW s \in Sweeps, ExpiryAnswered(s)
      PROVE  ReapInv'
  <2>1. RowGains
    BY <1>31, RowContainer, NoneAssumption DEF ExpiryAnswered, RowGains
  <2>2. MapGains
    <3>1. \A x \in Objects : obj'[x].cont \in {obj[x].cont, NoContainer}
      BY <1>31 DEF ExpiryAnswered, ObjOK, Object
    <3>2. QED
      BY <1>31, <3>1, ObjectsLose DEF ExpiryAnswered
  <2>3. QED
    BY <1>31, <2>1, <2>2, PassUndisturbed
       DEF ExpiryAnswered, orphanVars, boundVars, HandsKeep, AgedStay, ReapInv,
           AgedExist
<1>32. ASSUME NEW r \in Removers, RemoverStarts(r)
      PROVE  ReapInv'
  BY <1>32, PassUndisturbed
     DEF RemoverStarts, orphanVars, boundVars, RowGains, MapGains, InMap, HandsKeep,
         AgedStay, ReapInv, AgedExist
<1>33. ASSUME NEW r \in Removers, RemoverRemoves(r)
      PROVE  ReapInv'
  <2>1. AgedStay
    BY <1>33, RemovedStay DEF RemoverRemoves, ReapInv
  <2>2. QED
    BY <1>33, <2>1, PassUndisturbed
       DEF RemoverRemoves, orphanVars, RowGains, MapGains, InMap, HandsKeep
<1>34. ASSUME NEW r \in Removers, RemoverWrites(r)
      PROVE  ReapInv'
  <2>1. RowGains
    <3>1. row'.cont \in {row.cont, NoContainer}
      BY <1>34, RowContainer DEF RemoverWrites, NoRow
    <3>2. QED
      BY <3>1, NoneAssumption DEF RowGains
  <2>2. MapGains
    <3>1. \A x \in Objects : obj'[x].cont \in {obj[x].cont, NoContainer}
      BY <1>34 DEF RemoverWrites, ObjOK, Object
    <3>2. QED
      BY <1>34, <3>1, ObjectsLose DEF RemoverWrites
  <2>3. QED
    BY <1>34, <2>1, <2>2, PassUndisturbed
       DEF RemoverWrites, orphanVars, boundVars, HandsKeep, AgedStay, ReapInv,
           AgedExist
<1>35. ASSUME OrphansListed
      PROVE  ReapInv'
  <2>1. /\ orphans'.step = "reading" /\ orphans'.found = {} /\ orphans'.todo = {}
        /\ orphans'.keep = IF map = NoObject THEN {} ELSE {obj[map].cont}
        /\ UNCHANGED <<map, obj, row, docker, aged, dispatch>>
    BY <1>35 DEF OrphansListed, NoOrphans, actorVars
  <2>2. QED
    BY <2>1 DEF ReapInv, AgedExist, PendingSpared, Pending, ListHolds, FoundUnknown, InMap
<1>36. ASSUME OrphansFound
      PROVE  ReapInv'
  <2>1. /\ orphans.step = "reading" /\ orphans'.step = "reaping"
        /\ orphans'.found = (orphans.seen \cap aged) \ Known
        /\ orphans'.todo = orphans'.found \cap candidates
        /\ UNCHANGED <<map, obj, row, docker, aged, dispatch>>
    BY <1>36 DEF OrphansFound, NoOrphans, actorVars
  <2>2. QED
    BY <2>1 DEF ReapInv, AgedExist, PendingSpared, Pending, ListHolds, FoundUnknown, InMap, Known
<1>37. ASSUME OrphansUnknown
      PROVE  ReapInv'
  <2>1. /\ orphans'.step = "idle" /\ orphans'.found = {} /\ orphans'.todo = {}
        /\ UNCHANGED <<map, obj, row, docker, aged, dispatch>>
    BY <1>37 DEF OrphansUnknown, NoOrphans, actorVars
  <2>2. QED
    BY <2>1 DEF ReapInv, AgedExist, PendingSpared, Pending, ListHolds, FoundUnknown
<1>38. ASSUME OrphansEnd
      PROVE  ReapInv'
  <2>1. /\ orphans'.step = "idle" /\ orphans'.found = {} /\ orphans'.todo = {}
        /\ UNCHANGED <<map, obj, row, docker, aged, dispatch>>
    BY <1>38 DEF OrphansEnd, NoOrphans, actorVars
  <2>2. QED
    BY <2>1 DEF ReapInv, AgedExist, PendingSpared, Pending, ListHolds, FoundUnknown
<1>39. ASSUME RowLapses
      PROVE  ReapInv'
  <2>1. RowGains
    BY <1>39 DEF RowLapses, RowGains, RowOK, Row
  <2>2. QED
    BY <1>39, <2>1, PassUndisturbed
       DEF RowLapses, actorVars, orphanVars, boundVars, MapGains, InMap, HandsKeep,
           AgedStay, ReapInv, AgedExist
<1>40. ASSUME NEW c \in Containers, OrphanReaped(c)
      PROVE  ReapInv'
  <2>1. /\ orphans'.step = orphans.step /\ orphans'.found = orphans.found
        /\ orphans'.todo = orphans.todo \ {c} /\ orphans.step = "reaping"
        /\ UNCHANGED <<map, obj, row, dispatch>>
    BY <1>40 DEF OrphanReaped, actorVars, OrphansOK, OrphansState
  <2>2. AgedStay
    BY <1>40, RemovedStay DEF OrphanReaped, ReapInv
  <2>3. QED
    BY <2>1, <2>2 DEF ReapInv, AgedStay, AgedExist, PendingSpared, Pending, ListHolds,
                      FoundUnknown, InMap
<1>41. ASSUME NEW c \in Containers, Ages(c)
      PROVE  ReapInv'
  <2>1. /\ docker[c] # "none" /\ orphans.step = "idle" /\ aged' = aged \cup {c}
        /\ UNCHANGED <<map, obj, row, docker, dispatch, orphans>>
    BY <1>41 DEF Ages, actorVars, orphanVars
  <2>2. ~Pending(c)
    BY <1>41 DEF Ages, Pending, Unrecorded
  <2>3. QED
    BY <2>1, <2>2 DEF ReapInv, AgedExist, PendingSpared, Pending, ListHolds, FoundUnknown, InMap
<1>42. ASSUME NEW c \in Containers, Dies(c)
      PROVE  ReapInv'
  <2>1. AgedStay
    BY <1>42 DEF Dies, AgedStay, ReapInv, AgedExist, DockerOK
  <2>2. QED
    BY <1>42, <2>1, PassUndisturbed
       DEF Dies, actorVars, orphanVars, boundVars, RowGains, MapGains, InMap,
           HandsKeep
<1>43. ASSUME NEW o \in Objects, Quiets(o)
      PROVE  ReapInv'
  <2>1. MapGains
    <3>1. \A x \in Objects : obj'[x].cont \in {obj[x].cont, NoContainer}
      BY <1>43 DEF Quiets, ObjOK, Object
    <3>2. QED
      BY <1>43, <3>1, ObjectsLose DEF Quiets
  <2>2. QED
    BY <1>43, <2>1, PassUndisturbed
       DEF Quiets, actorVars, orphanVars, boundVars, RowGains, HandsKeep, AgedStay,
           ReapInv, AgedExist
<1>44. ASSUME NEW o \in Objects, Lapses(o)
      PROVE  ReapInv'
  <2>1. RowGains
    BY <1>44 DEF Lapses, RowGains, RowOK, Row
  <2>2. MapGains
    <3>1. \A x \in Objects : obj'[x].cont \in {obj[x].cont, NoContainer}
      BY <1>44 DEF Lapses, ObjOK, Object
    <3>2. QED
      BY <1>44, <3>1, ObjectsLose DEF Lapses
  <2>3. QED
    BY <1>44, <2>1, <2>2, PassUndisturbed
       DEF Lapses, actorVars, orphanVars, boundVars, HandsKeep, AgedStay, ReapInv,
           AgedExist
<1>45. ASSUME Restart
      PROVE  ReapInv'
  <2>1. /\ orphans'.step = "idle" /\ orphans'.found = {} /\ orphans'.todo = {}
        /\ \A d \in Dispatches : dispatch'[d].step = "out"
        /\ UNCHANGED <<docker, aged>>
    BY <1>45 DEF Restart, NoOrphans, NoDispatch
  <2>2. QED
    BY <2>1 DEF ReapInv, AgedExist, PendingSpared, Pending, Unrecorded, ListHolds, FoundUnknown
<1>46. CASE UNCHANGED vars
  BY <1>46, PassUndisturbed
     DEF vars, actorVars, orphanVars, RowGains, MapGains, InMap, HandsKeep, AgedStay, ReapInv,
         AgedExist
<1>47. QED
  BY <1>1, <1>2, <1>3, <1>4, <1>5, <1>6, <1>7, <1>8, <1>9, <1>10, <1>11, <1>12,
     <1>13, <1>14, <1>15, <1>16, <1>17, <1>18, <1>19, <1>20, <1>21, <1>22, <1>23,
     <1>24, <1>25, <1>26, <1>27, <1>28, <1>29, <1>30, <1>31, <1>32, <1>33, <1>34,
     <1>35, <1>36, <1>37, <1>38, <1>39, <1>40, <1>41, <1>42, <1>43, <1>44, <1>45,
     <1>46
     DEF Next, DispatchStep, SweepStep, RemoverStep, OrphanStep

LEMMA ReapAlways == Spec => []ReapInv
<1>1. Init => ReapInv
  BY DEF Init, ReapInv, AgedExist, PendingSpared, ListHolds, FoundUnknown, NoOrphans
<1>2. TypeInv /\ ReapInv /\ [Next]_vars => ReapInv'
  BY ReapStep
<1>3. QED
  BY <1>1, <1>2, TypeAlways, PTL DEF Spec

\* What the orphan sweep says of one container in one step.
Spared(c) ==
    OrphanReaped(c) => /\ c # row.cont /\ (map # NoObject => c # obj[map].cont)
                       /\ \A d \in Dispatches : dispatch[d].c = c =>
                            dispatch[d].step \notin {"created", "registering", "reassigning"}

\* However old its list and its query are, the orphan sweep takes no container that a
\* row or the map names by then, or that a dispatch has just created, with any number of
\* dispatches, sweeps, calls, failing removals and restarts.
THEOREM OwnedNeverReaped == Spec => OwnedNotReaped
<1> DEFINE A == \A c \in Containers : Spared(c)
<1>1. ReapInv => A
  BY DEF ReapInv, FoundUnknown, InMap, PendingSpared, Pending, Unrecorded, OrphanReaped, Spared
<1>2. ReapInv /\ [Next]_vars => [A]_vars
  BY <1>1
<1>3. Spec => [][A]_vars
  BY <1>2, ReapAlways, PTL DEF Spec
<1>4. QED
  BY <1>3 DEF OwnedNotReaped, Spared
-----------------------------------------------------------------------------
(* A session that is served by one dispatch after another.                   *)

OneByOne == \A d, e \in Dispatches : dispatch[d].step # "out" /\ dispatch[e].step # "out" => d = e
NobodySweeps == \A s \in Sweeps : sweep[s].step = "idle"
NobodyRemoves == \A r \in Removers : remover[r].step = "new"

\* Most steps leave the records as they are, but for a status and for activity.
ObjectsStay == \A o \in Objects : /\ obj'[o].cont = obj[o].cont /\ obj'[o].due = obj[o].due
                                  /\ obj'[o].clock \in {obj[o].clock, "fresh"}
RowStays == row'.cont = row.cont /\ (row'.status = "none" => row.status = "none")
RecordsStay == map' = map /\ ObjectsStay /\ RowStays
OthersStay(d) == \A e \in Dispatches \ {d} : dispatch'[e] = dispatch[e]

\* A status written into a row that is there.
LEMMA UpdateStays ==
    ASSUME RowOK, NEW s \in RowStatus \ {"none"}, row' = Updated(s)
    PROVE  RowStays
  BY DEF RowOK, Row, Updated, RowStays

\* A status set on an object.
LEMMA StatusStays ==
    ASSUME ObjOK, NEW o \in Objects, NEW s, obj' = [obj EXCEPT ![o].status = s]
    PROVE  ObjectsStay
  BY DEF ObjOK, Object, ObjectsStay

\* updateActivity.
LEMMA TouchStays ==
    ASSUME TypeInv, Touch
    PROVE  ObjectsStay /\ RowStays
<1>1. CASE map = NoObject
  BY <1>1 DEF Touch, ObjectsStay, RowStays
<1>2. CASE map # NoObject
  <2>1. map \in Objects /\ ObjOK /\ RowOK
    BY <1>2 DEF TypeInv, MapOK, MaybeObject
  <2>2. /\ obj' = [obj EXCEPT ![map].status = "active", ![map].clock = "fresh"]
        /\ row' = Updated("active")
    BY <1>2 DEF Touch
  <2>3. ObjectsStay
    BY <2>1, <2>2 DEF ObjOK, Object, ObjectsStay
  <2>4. RowStays
    BY <2>1, <2>2, UpdateStays DEF RowStatus
  <2>5. QED
    BY <2>3, <2>4
<1>3. QED
  BY <1>1, <1>2

\* The steps of a dispatch that put no container on record and take none off.
Handles(d) ==
    \/ ResurrectReads(d) \/ Begins(d) \/ Touched(d)
    \/ ProbedRunning(d) \/ ProbedPaused(d) \/ ProbedDead(d) \/ Unpaused(d) \/ UnpauseFails(d)
    \/ Discarded(d) \/ CreateFails(d) \/ Creates(d) \/ ExecStarts(d) \/ ExecRefused(d)
    \/ Revives(d) \/ TurnEnds(d)

\* They leave the records, and they leave the sweep.
LEMMA HandlingStays ==
    ASSUME TypeInv, NEW d \in Dispatches, Handles(d)
    PROVE  RecordsStay /\ sweep' = sweep
<1> USE DEF TypeInv, RecordsStay, actorVars
<1>1. CASE UNCHANGED <<map, obj, row, sweep>>
  BY <1>1 DEF ObjectsStay, RowStays
<1>2. CASE Touch /\ UNCHANGED <<map, sweep>>
  BY <1>2, TouchStays
<1>3. CASE Begins(d)
  <2>1. RowStays /\ map' = map /\ sweep' = sweep
    BY <1>3 DEF Begins, RowStays
  <2>2. ObjectsStay
    BY <1>3 DEF Begins, ObjectsStay, ObjOK, Object
  <2>3. QED
    BY <2>1, <2>2
<1>4. CASE Touched(d)
  <2>1. ObjectsStay /\ map' = map /\ sweep' = sweep
    BY <1>4 DEF Touched, ObjectsStay
  <2>2. RowStays
    BY <1>4, UpdateStays DEF Touched, RowStatus
  <2>3. QED
    BY <2>1, <2>2
<1>5. ResurrectReads(d) => UNCHANGED <<map, obj, row, sweep>>
  BY DEF ResurrectReads
<1>6. ProbedRunning(d) \/ Unpaused(d) => Touch /\ UNCHANGED <<map, sweep>>
  BY DEF ProbedRunning, Unpaused
<1>7. ProbedPaused(d) \/ ProbedDead(d) \/ UnpauseFails(d) => UNCHANGED <<map, obj, row, sweep>>
  BY DEF ProbedPaused, ProbedDead, UnpauseFails
<1>8. Discarded(d) \/ CreateFails(d) \/ Creates(d) => UNCHANGED <<map, obj, row, sweep>>
  BY DEF Discarded, CreateFails, Creates
<1>9. ExecStarts(d) \/ ExecRefused(d) \/ Revives(d) => UNCHANGED <<map, obj, row, sweep>>
  BY DEF ExecStarts, ExecRefused, Revives
<1>10. TurnEnds(d) => UNCHANGED <<map, obj, row, sweep>> \/ (Touch /\ UNCHANGED <<map, sweep>>)
  BY DEF TurnEnds
<1>11. QED
  BY <1>1, <1>2, <1>3, <1>4, <1>5, <1>6, <1>7, <1>8, <1>9, <1>10 DEF Handles

\* What the ways to move a dispatch do to it, and that they leave the others.
LEMMA DispatchBecomes ==
    ASSUME DispatchOK, NEW d \in Dispatches
    PROVE  /\ \A s : Goes(d, s) => /\ OthersStay(d) /\ dispatch'[d].step = s
                                   /\ dispatch'[d].o = dispatch[d].o /\ dispatch'[d].c = dispatch[d].c
           /\ Ends(d) => OthersStay(d) /\ dispatch'[d] = NoDispatch
           /\ Discards(d) => LET c == obj[dispatch[d].o].cont IN
                /\ OthersStay(d) /\ dispatch'[d].o = dispatch[d].o /\ dispatch'[d].c = c
                /\ dispatch'[d].step = IF c = NoContainer THEN "creating" ELSE "discarding"
  BY DEF DispatchOK, DispatchState, Goes, Ends, Discards, OthersStay
-----------------------------------------------------------------------------
(* The container of a turn is in the map.                                    *)

\* What a dispatch holds is the session of the map, and what it works with its container.
HandOf(d) ==
    /\ dispatch[d].step \in {"out", "resurrecting", "resurrected"} => dispatch[d].o = NoObject
    /\ dispatch[d].step \in {"creating", "created"} => dispatch[d].o \in {NoObject, map}
    /\ dispatch[d].step \in Holding => map = dispatch[d].o
    /\ dispatch[d].step \in Holding \ {"touching", "discarding"} => InMap(dispatch[d].c)
HandInv == \A d \in Dispatches : HandOf(d)

\* Of one dispatch after another only the one that moves is to be looked at.
LEMMA HandMoves ==
    ASSUME HandInv, OneByOne, OneByOne', NEW d \in Dispatches, OthersStay(d),
           dispatch[d].step # "out" \/ dispatch'[d].step # "out", HandOf(d)'
    PROVE  HandInv'
<1>1. ASSUME NEW e \in Dispatches \ {d}
      PROVE  HandOf(e)'
  <2>1. dispatch'[e] = dispatch[e] /\ dispatch[e].step = "out"
    BY DEF OthersStay, OneByOne
  <2>2. dispatch[e].o = NoObject
    BY <2>1 DEF HandInv, HandOf
  <2>3. QED
    BY <2>1, <2>2 DEF HandOf, Holding
<1>2. QED
  BY <1>1 DEF HandInv

\* Nothing is let go of while no container and no dispatch changes.
LEMMA HandsStay ==
    ASSUME TypeInv, HandInv, UNCHANGED <<map, dispatch>>,
           \A o \in Objects : obj'[o].cont = obj[o].cont
    PROVE  HandInv'
  BY DEF TypeInv, MapOK, MaybeObject, HandInv, HandOf, InMap

\* A dispatch that works alone keeps its hold in the steps that record nothing.
LEMMA HandHandles ==
    ASSUME TypeInv, HandInv, OneByOne, OneByOne', NEW d \in Dispatches, Handles(d)
    PROVE  HandInv'
<1>1. map' = map /\ (\A c : InMap(c)' <=> InMap(c))
  BY HandlingStays DEF RecordsStay, ObjectsStay, InMap, TypeInv, MapOK, MaybeObject
<1>2. HandOf(d) /\ (dispatch[d].step \in Holding => dispatch[d].o \in Objects)
      /\ DispatchOK /\ ObjOK /\ MapOK
  BY DEF HandInv, TypeInv, DispatchOK
<1> DEFINE HasNone == dispatch'[d].step \in {"out", "resurrecting"} /\ dispatch'[d].o = NoObject
           Keeps(from, to) == /\ dispatch[d].step \in from /\ dispatch'[d].step \in to
                              /\ dispatch'[d].o = dispatch[d].o /\ dispatch'[d].c = dispatch[d].c
           Works == Holding \ {"touching", "discarding"}
<1>3. CASE OthersStay(d) /\ HasNone /\ (dispatch[d].step # "out" \/ dispatch'[d].step # "out")
  BY <1>3, HandMoves DEF HandOf, Holding
<1>4. CASE OthersStay(d) /\ Keeps(Works, Works)
  BY <1>1, <1>2, <1>4, HandMoves DEF HandOf, Holding
<1>5. CASE OthersStay(d) /\ dispatch'[d].step \in {"creating", "created"}
           /\ dispatch'[d].o \in {NoObject, map}
  BY <1>1, <1>5, HandMoves DEF HandOf, Holding
<1>6. CASE OthersStay(d) /\ dispatch'[d].step \in {"touching", "discarding"}
           /\ dispatch'[d].o = map
  BY <1>1, <1>6, HandMoves DEF HandOf, Holding
<1>7. ASSUME dispatch[d].step # "out", Ends(d)
      PROVE  OthersStay(d) /\ HasNone
  BY <1>2, <1>7, DispatchBecomes DEF NoDispatch
<1>8. ASSUME dispatch[d].step \in Works, Discards(d)
      PROVE  HandInv'
  BY <1>2, <1>5, <1>6, <1>8, DispatchBecomes DEF HandOf
<1>9. ASSUME NEW s \in Works, dispatch[d].step \in Works, Goes(d, s)
      PROVE  HandInv'
  BY <1>2, <1>4, <1>9, DispatchBecomes
<1>10. ResurrectReads(d) => HandInv'
  BY <1>2, <1>3, DispatchBecomes DEF ResurrectReads, HandOf
<1>11. Begins(d) => HandInv'
  <2>1. ASSUME Begins(d), map = NoObject
        PROVE  HandInv'
    BY <1>2, <1>5, <2>1, DispatchBecomes DEF Begins, HandOf
  <2>2. ASSUME Begins(d), map # NoObject
        PROVE  HandInv'
    <3>1. dispatch' = [dispatch EXCEPT ![d] = [NoDispatch EXCEPT !.step = "touching", !.o = map]]
      BY <2>2 DEF Begins
    <3>2. OthersStay(d) /\ dispatch'[d].step = "touching" /\ dispatch'[d].o = map
      BY <1>2, <3>1 DEF OthersStay, DispatchOK, NoDispatch
    <3>3. QED
      BY <1>6, <3>2
  <2>3. QED
    BY <2>1, <2>2
<1>12. Touched(d) => HandInv'
  <2> SUFFICES ASSUME Touched(d)
               PROVE  HandInv'
    OBVIOUS
  <2> DEFINE c == obj[dispatch[d].o].cont
  <2>1. /\ OthersStay(d) /\ dispatch'[d].o = dispatch[d].o /\ dispatch'[d].c = c
        /\ dispatch'[d].step = IF c = NoContainer THEN "creating" ELSE "probing"
    BY <1>2 DEF Touched, DispatchOK, DispatchState, OthersStay
  <2>2. map = dispatch[d].o /\ InMap(c) /\ dispatch[d].step = "touching"
    BY <1>2, NoneAssumption DEF Touched, HandOf, Holding, InMap
  <2> HIDE DEF c
  <2>3. HandOf(d)'
    BY <1>1, <2>1, <2>2 DEF HandOf, Holding
  <2>4. QED
    BY <2>1, <2>2, <2>3, HandMoves
<1>13. ProbedRunning(d) => HandInv'
  BY <1>9 DEF ProbedRunning, Holding
<1>14. ProbedPaused(d) => HandInv'
  BY <1>9 DEF ProbedPaused, Holding
<1>15. ProbedDead(d) => HandInv'
  BY <1>8 DEF ProbedDead, Holding
<1>16. Unpaused(d) => HandInv'
  BY <1>9 DEF Unpaused, Holding
<1>17. UnpauseFails(d) => HandInv'
  BY <1>3, <1>7 DEF UnpauseFails
<1>18. Discarded(d) => HandInv'
  BY <1>2, <1>5, DispatchBecomes DEF Discarded, HandOf, Holding
<1>19. CreateFails(d) => HandInv'
  BY <1>3, <1>7 DEF CreateFails
<1>20. Creates(d) => HandInv'
  <2>1. Creates(d) => OthersStay(d) /\ dispatch[d].step = "creating" /\ dispatch'[d].step = "created"
                      /\ dispatch'[d].o = dispatch[d].o
    BY <1>2 DEF Creates, DispatchOK, DispatchState, OthersStay
  <2>2. QED
    BY <1>2, <1>5, <2>1 DEF HandOf
<1>21. ExecStarts(d) => HandInv'
  BY <1>9 DEF ExecStarts, Holding
<1>22. ExecRefused(d) => HandInv'
  <2>1. ASSUME ExecRefused(d), ~Ends(d)
        PROVE  OthersStay(d) /\ Keeps(Works, Works)
    <3>1. dispatch' = [dispatch EXCEPT ![d].step = "reviving", ![d].again = TRUE]
          /\ dispatch[d].step = "exec"
      BY <2>1 DEF ExecRefused
    <3>2. QED
      BY <1>2, <3>1 DEF DispatchOK, DispatchState, OthersStay, Holding
  <2>2. ExecRefused(d) => dispatch[d].step # "out"
    BY DEF ExecRefused
  <2>3. QED
    BY <1>3, <1>4, <1>7, <2>1, <2>2
<1>23. Revives(d) => HandInv'
  <2>1. Revives(d) => dispatch[d].step \in Works
                      /\ (Goes(d, "exec") \/ Goes(d, "unpausing") \/ Discards(d) \/ Ends(d))
    BY DEF Revives, Holding
  <2>2. {"exec", "unpausing"} \subseteq Works /\ "out" \notin Works
    BY DEF Holding
  <2>3. QED
    BY <1>3, <1>7, <1>8, <1>9, <2>1, <2>2
<1>24. TurnEnds(d) => HandInv'
  BY <1>3, <1>7 DEF TurnEnds
<1>25. QED
  BY <1>10, <1>11, <1>12, <1>13, <1>14, <1>15, <1>16, <1>17, <1>18, <1>19, <1>20, <1>21,
     <1>22, <1>23, <1>24 DEF Handles

\* The objects' containers are untouched when time passes.
LEMMA ClockStays ==
    ASSUME ObjOK, NEW o \in Objects, Quiets(o) \/ Lapses(o)
    PROVE  \A x \in Objects : obj'[x].cont = obj[x].cont
<1>1. CASE Quiets(o)
  BY <1>1 DEF Quiets, ObjOK, Object
<1>2. CASE Lapses(o)
  BY <1>2 DEF Lapses, ObjOK, Object
<1>3. QED
  BY <1>1, <1>2

\* The step that puts a new container into the map, and the one after it.
LEMMA Registering ==
    ASSUME TypeInv, NEW d \in Dispatches, Registers(d)
    PROVE  \E o \in FreshObjects :
             /\ map' = o /\ obj' = [obj EXCEPT ![o] = NewObject(dispatch[d].c, "active")]
             /\ InMap(dispatch[d].c)'
             /\ OthersStay(d) /\ dispatch'[d].o = o /\ dispatch'[d].c = dispatch[d].c
             /\ dispatch'[d].step = "registering"
             /\ UNCHANGED <<row, sweep>>
<1>1. PICK o \in FreshObjects :
        /\ map' = o /\ obj' = [obj EXCEPT ![o] = NewObject(dispatch[d].c, "active")]
        /\ dispatch' = [dispatch EXCEPT ![d].step = "registering", ![d].o = o]
        /\ UNCHANGED <<row, sweep>>
  BY DEF Registers
<1>2. o \in Objects
  BY DEF FreshObjects
<1>3. InMap(dispatch[d].c)'
  <2>1. obj'[o].cont = dispatch[d].c
    BY <1>1, <1>2 DEF TypeInv, ObjOK, NewObject
  <2>2. dispatch'[d].c = dispatch[d].c
    BY <1>1 DEF TypeInv, DispatchOK, DispatchState
  <2>3. QED
    BY <1>1, <1>2, <2>1, <2>2, NoneAssumption DEF InMap
<1>4. /\ OthersStay(d) /\ dispatch'[d].o = o /\ dispatch'[d].c = dispatch[d].c
      /\ dispatch'[d].step = "registering"
  BY <1>1 DEF TypeInv, DispatchOK, DispatchState, OthersStay
<1>5. QED
  BY <1>1, <1>3, <1>4

\* No step of a dispatch that works alone lets go of what it holds.
LEMMA HandDispatch ==
    ASSUME TypeInv, HandInv, OneByOne, OneByOne', NEW d \in Dispatches, DispatchStep(d)
    PROVE  HandInv'
<1>1. /\ HandOf(d) /\ DispatchOK /\ ObjOK /\ MapOK
      /\ dispatch[d].step \in Holding => dispatch[d].o \in Objects
  BY DEF HandInv, TypeInv, DispatchOK
<1>2. Handles(d) => HandInv'
  BY HandHandles
<1>3. Resurrects(d) => HandInv'
  <2> SUFFICES ASSUME Resurrects(d)
               PROVE  HandInv'
    OBVIOUS
  <2>1. /\ OthersStay(d) /\ dispatch'[d].step \in {"out", "resurrected"}
        /\ dispatch'[d].o = NoObject
    BY <1>1, DispatchBecomes DEF Resurrects, NoDispatch, HandOf
  <2>2. dispatch[d].step = "resurrecting" /\ HandOf(d)'
    BY <2>1 DEF HandOf, Resurrects, Holding
  <2>3. QED
    BY <2>1, <2>2, HandMoves
<1>4. Resurrected(d) => HandInv'
  <2> SUFFICES ASSUME Resurrected(d)
               PROVE  HandInv'
    OBVIOUS
  <2>1. OthersStay(d) /\ dispatch'[d].step = "out" /\ dispatch'[d].o = NoObject
    BY <1>1, DispatchBecomes DEF Resurrected, NoDispatch
  <2>2. dispatch[d].step = "resurrected" /\ HandOf(d)'
    BY <2>1 DEF HandOf, Resurrected, Holding
  <2>3. QED
    BY <2>1, <2>2, HandMoves
<1>5. Registers(d) => HandInv'
  <2> SUFFICES ASSUME Registers(d)
               PROVE  HandInv'
    OBVIOUS
  <2>1. /\ map' = dispatch'[d].o /\ InMap(dispatch[d].c)'
        /\ OthersStay(d) /\ dispatch'[d].step = "registering"
    BY Registering
  <2>2. dispatch[d].step = "created" /\ HandOf(d)'
    BY <2>1 DEF HandOf, Registers, Holding
  <2>3. QED
    BY <2>1, <2>2, HandMoves
<1>6. Registered(d) => HandInv'
  <2> SUFFICES ASSUME Registered(d)
               PROVE  HandInv'
    OBVIOUS
  <2>1. /\ OthersStay(d) /\ dispatch'[d].step = "exec" /\ dispatch'[d].c = dispatch[d].c
        /\ dispatch'[d].o = dispatch[d].o
    BY <1>1, DispatchBecomes DEF Registered
  <2>2. UNCHANGED <<map, obj>> /\ dispatch[d].step = "registering"
    BY DEF Registered
  <2>3. HandOf(d)'
    BY <1>1, <2>1, <2>2 DEF HandOf, Holding, InMap
  <2>4. QED
    BY <2>1, <2>2, <2>3, HandMoves
<1>7. Reassigns(d) => HandInv'
  <2> SUFFICES ASSUME Reassigns(d)
               PROVE  HandInv'
    OBVIOUS
  <2>1. dispatch[d].step = "created" /\ dispatch[d].o # NoObject /\ map' = map
    BY DEF Reassigns
  <2>2. map = dispatch[d].o /\ map \in Objects
    BY <1>1, <2>1 DEF HandOf, MapOK, MaybeObject
  <2>3. obj' = [obj EXCEPT ![map].cont = dispatch[d].c, ![map].status = "active"]
        /\ Goes(d, "reassigning")
    BY <2>1, <2>2 DEF Reassigns
  <2>4. obj'[map].cont = dispatch[d].c
    BY <1>1, <2>2, <2>3 DEF ObjOK, Object
  <2>5. /\ OthersStay(d) /\ dispatch'[d].step = "reassigning" /\ dispatch'[d].c = dispatch[d].c
        /\ dispatch'[d].o = dispatch[d].o
    BY <1>1, <2>3, DispatchBecomes
  <2>6. HandOf(d)'
    BY <2>1, <2>2, <2>4, <2>5 DEF HandOf, Holding, InMap
  <2>7. QED
    BY <2>1, <2>5, <2>6, HandMoves
<1>8. ReassignWritten(d) => HandInv'
  <2> SUFFICES ASSUME ReassignWritten(d)
               PROVE  HandInv'
    OBVIOUS
  <2>1. /\ OthersStay(d) /\ dispatch'[d].step = "exec" /\ dispatch'[d].c = dispatch[d].c
        /\ dispatch'[d].o = dispatch[d].o
    BY <1>1, DispatchBecomes DEF ReassignWritten
  <2>2. /\ obj' = [obj EXCEPT ![dispatch[d].o].cont = dispatch[d].c]
        /\ map' = map /\ dispatch[d].step = "reassigning"
    BY DEF ReassignWritten
  <2>3. map = dispatch[d].o /\ map \in Objects
    BY <1>1, <2>2 DEF HandOf, Holding
  <2>4. obj'[map].cont = dispatch[d].c
    BY <1>1, <2>2, <2>3 DEF ObjOK, Object
  <2>5. HandOf(d)'
    BY <2>1, <2>2, <2>3, <2>4, NoneAssumption DEF HandOf, Holding, InMap
  <2>6. QED
    BY <2>1, <2>2, <2>5, HandMoves
<1>9. QED
  BY <1>2, <1>3, <1>4, <1>5, <1>6, <1>7, <1>8 DEF DispatchStep, Handles

\* Where no call has begun and none will, none takes a step.
LEMMA NobodyStarts ==
    ASSUME TypeInv, NobodyRemoves, NobodyRemoves', NEW r \in Removers, RemoverStep(r)
    PROVE  FALSE
<1>1. remover[r].step = "new" /\ remover'[r].step = "new" /\ RemoverOK
  BY DEF NobodyRemoves, TypeInv
<1>2. CASE RemoverStarts(r)
  <2>1. remover'[r].step \in {"writing", "removing"}
    BY <1>1, <1>2 DEF RemoverStarts, RemoverOK
  <2>2. QED
    BY <1>1, <2>1
<1>3. QED
  BY <1>1, <1>2 DEF RemoverStep, RemoverRemoves, RemoverWrites

\* With neither a sweep nor a call beside it, nobody else does either.
LEMMA HandStep ==
    ASSUME TypeInv, HandInv, OneByOne, OneByOne', NobodySweeps, NobodySweeps',
           NobodyRemoves, NobodyRemoves', [Next]_vars
    PROVE  HandInv'
<1>1. ASSUME NEW d \in Dispatches, DispatchStep(d)
      PROVE  HandInv'
  BY <1>1, HandDispatch
<1>2. ASSUME NEW s \in Sweeps, SweepStep(s)
      PROVE  FALSE
  <2>1. sweep[s].step = "idle" /\ sweep'[s].step = "idle" /\ SweepOK
    BY DEF NobodySweeps, TypeInv
  <2>2. CASE SweepStarts(s)
    <3>1. sweep' = [sweep EXCEPT ![s] = [NoSweep EXCEPT !.step = "turn", !.o = map]]
      BY <2>2 DEF SweepStarts
    <3>2. sweep'[s].step = "turn"
      BY <2>1, <3>1 DEF SweepOK, NoSweep
    <3>3. QED
      BY <2>1, <3>2
  <2>3. QED
    BY <1>2, <2>1, <2>2 DEF SweepStep, SweepSkips, SweepPauses, DockerPauses, PauseAnswered,
       SweepTearsDown, SweepExpires, SweepRemoves, TeardownAnswered, ExpiryAnswered
<1>3. ASSUME NEW r \in Removers, RemoverStep(r)
      PROVE  FALSE
  BY <1>3, NobodyStarts
<1>4. ASSUME UNCHANGED <<map, dispatch, obj>>
      PROVE  HandInv'
  BY <1>4, HandsStay
<1>5. OrphanStep \/ OrphansUnknown => UNCHANGED <<map, dispatch, obj>>
  BY DEF OrphanStep, OrphansListed, OrphansFound, OrphanReaped, OrphansEnd, OrphansUnknown, actorVars
<1>6. ASSUME NEW o \in Objects, Quiets(o) \/ Lapses(o)
      PROVE  HandInv'
  <2>1. UNCHANGED <<map, dispatch>>
    BY <1>6 DEF Quiets, Lapses, actorVars
  <2>2. \A x \in Objects : obj'[x].cont = obj[x].cont
    BY <1>6, ClockStays DEF TypeInv
  <2>3. QED
    BY <2>1, <2>2, HandsStay
<1>7. RowLapses => UNCHANGED <<map, dispatch, obj>>
  BY DEF RowLapses, actorVars
<1>8. ASSUME NEW c \in Containers, Ages(c) \/ Dies(c)
      PROVE  UNCHANGED <<map, dispatch, obj>>
  BY <1>8 DEF Ages, Dies, actorVars
<1>9. ASSUME Restart
      PROVE  HandInv'
  <2>1. \A d \in Dispatches : dispatch'[d] = NoDispatch
    BY <1>9 DEF Restart
  <2>2. QED
    BY <2>1 DEF HandInv, HandOf, NoDispatch, Holding
<1>10. UNCHANGED vars => UNCHANGED <<map, dispatch, obj>>
  BY DEF vars, actorVars
<1>11. QED
  BY <1>1, <1>2, <1>3, <1>4, <1>5, <1>6, <1>7, <1>8, <1>9, <1>10 DEF Next

\* Nobody holds anything at first.
LEMMA HandFirst == Init => HandInv
  BY DEF Init, HandInv, HandOf, NoDispatch, Holding

\* One dispatch after another, beside no sweep and no call.
Undisturbed == OneByOne /\ NobodySweeps /\ NobodyRemoves

\* So it is in every such behaviour.
LEMMA HandAlways == Spec /\ []Undisturbed => []HandInv
<1>1. TypeInv /\ HandInv /\ Undisturbed /\ Undisturbed' /\ [Next]_vars => HandInv'
  BY HandStep DEF Undisturbed
<1>2. QED
  BY <1>1, HandFirst, TypeAlways, PTL DEF Spec

\* Where one dispatch serves the session after another and neither the idle sweep nor a
\* call acts on it, the container a turn runs in is on record at rest, whatever fails, dies
\* or is restarted in between.
THEOREM TurnIsRecorded == Spec /\ []Undisturbed => []TurnRecorded
<1>1. HandInv => TurnRecorded
  BY DEF HandInv, HandOf, TurnRecorded, Turn, InMap, Holding
<1>2. QED
  BY <1>1, HandAlways, PTL

\* There the orphan sweep takes no container a turn runs in, however long the turn has been running.
THEOREM TurnsNeverReaped == Spec /\ []Undisturbed => TurnNotReaped
<1> DEFINE A == \A d \in Dispatches, c \in Containers : Turn(d, c) => ~OrphanReaped(c)
<1>1. HandInv /\ ReapInv => A
  BY DEF HandInv, HandOf, Turn, Holding, ReapInv, FoundUnknown, OrphanReaped
<1>2. HandInv /\ ReapInv /\ [Next]_vars => [A]_vars
  BY <1>1
<1>3. Spec /\ []Undisturbed => [][A]_vars
  BY <1>2, HandAlways, ReapAlways, PTL DEF Spec
<1>4. QED
  BY <1>3 DEF TurnNotReaped
-----------------------------------------------------------------------------
(* Map and row name the same container.                                      *)

\* A pass that takes the session's container away, or will on its turn.
Tears(s) ==
    \/ sweep[s].step \in {"tearing", "torn"}
    \/ sweep[s].step = "turn" /\ obj[sweep[s].o].clock = "stale" /\ ~obj[sweep[s].o].due

\* A pass that expires a session found it due.
SweepsDue ==
    \A s \in Sweeps : sweep[s].step \in {"expiring", "expired"} => obj[sweep[s].o].due
\* If the map's object is not the one a pass has, it has entered the map since: no time passes
\* while a pass waits.
NewIsFresh ==
    \A s \in Sweeps : sweep[s].step # "idle" /\ map # NoObject /\ sweep[s].o # map =>
      obj[map].clock = "fresh"
\* So a pass that takes a container away has the map's object, and all others have it too.
TearsTheMaps ==
    \A s \in Sweeps : Tears(s) =>
      /\ map = sweep[s].o /\ ~obj[map].due
      /\ \A t \in Sweeps : sweep[t].step # "idle" => sweep[t].o = map
SweepsInv == SweepsDue /\ NewIsFresh /\ TearsTheMaps

\* Between its two writes a dispatch knows what the second will be.
Writing == {"resurrected", "registering", "reassigning"}
RecordOf(d) ==
    /\ dispatch[d].step \in Holding \cup {"creating", "created"} => map \in {dispatch[d].o, NoObject}
    /\ dispatch[d].step = "resurrecting" => map = NoObject /\ row.status # "none"
    /\ dispatch[d].step = "resurrected" /\ map # NoObject => obj[map].cont = NoContainer
    /\ dispatch[d].step = "registering" /\ map # NoObject =>
         /\ obj[map].cont = dispatch[d].c /\ obj[map].clock = "fresh"
         /\ \A s \in Sweeps : ~Tears(s)
RowThere ==
    map # NoObject /\ (\A d \in Dispatches : dispatch[d].step # "registering") => row.status # "none"
Agree ==
    map # NoObject /\ (\A d \in Dispatches : dispatch[d].step \notin Writing) =>
      row.cont = obj[map].cont
RecordsInv == (\A d \in Dispatches : RecordOf(d)) /\ RowThere /\ Agree

\* No pass begins, and none becomes one that expires or tears down.
ClocksStay == \A o \in Objects : obj'[o].due = obj[o].due /\ obj'[o].clock \in {obj[o].clock, "fresh"}
PassesStay ==
    \A s \in Sweeps : sweep'[s].step # "idle" =>
      /\ sweep[s].step # "idle" /\ sweep'[s].o = sweep[s].o
      /\ sweep'[s].step = "turn" => sweep[s].step = "turn"
      /\ sweep'[s].step \in {"expiring", "expired"} => obj[sweep[s].o].due
      /\ sweep'[s].step \in {"tearing", "torn"} => Tears(s)
NoneBegins == \A s \in Sweeps : Tears(s)' => Tears(s)

\* Then the passes stay in order.
LEMMA PassesKept ==
    ASSUME TypeInv, SweepsInv, ClocksStay, PassesStay, map' = map
    PROVE  SweepsInv' /\ NoneBegins
<1>1. /\ \A s \in Sweeps : sweep[s].step # "idle" => sweep[s].o \in Objects
      /\ map # NoObject => map \in Objects
  BY DEF TypeInv, SweepOK, MapOK, MaybeObject
<1>2. NoneBegins
  BY <1>1 DEF NoneBegins, Tears, ClocksStay, PassesStay
<1>3. SweepsDue'
  BY <1>1 DEF SweepsDue, ClocksStay, PassesStay
<1>4. NewIsFresh'
  BY <1>1 DEF SweepsInv, NewIsFresh, ClocksStay, PassesStay
<1>5. TearsTheMaps'
  <2>1. ASSUME NEW s \in Sweeps, Tears(s)'
        PROVE  /\ map' = sweep'[s].o /\ ~obj'[map'].due
               /\ \A t \in Sweeps : sweep'[t].step # "idle" => sweep'[t].o = map'
    <3>1. Tears(s) /\ sweep'[s].step # "idle"
      BY <1>2, <2>1 DEF NoneBegins, Tears
    <3>2. /\ map = sweep[s].o /\ ~obj[map].due
          /\ \A t \in Sweeps : sweep[t].step # "idle" => sweep[t].o = map
      BY <3>1 DEF SweepsInv, TearsTheMaps
    <3>3. sweep'[s].o = sweep[s].o /\ map \in Objects
      BY <1>1, <3>1, <3>2 DEF PassesStay
    <3>4. QED
      BY <3>2, <3>3 DEF ClocksStay, PassesStay
  <2>2. QED
    BY <2>1 DEF TearsTheMaps
<1>6. QED
  BY <1>2, <1>3, <1>4, <1>5 DEF SweepsInv

\* An object enters the map where there was none: no pass has it, none tears down.
LEMMA ObjectAppears ==
    ASSUME TypeInv, SweepsInv, map = NoObject, NEW o \in FreshObjects, NEW n, n.clock = "fresh",
           map' = o, obj' = [obj EXCEPT ![o] = n], sweep' = sweep
    PROVE  SweepsInv' /\ obj'[map'] = n /\ \A s \in Sweeps : ~Tears(s)'
<1>1. /\ \A s \in Sweeps : sweep[s].o # o /\ (sweep[s].step # "idle" => sweep[s].o \in Objects)
      /\ o \in Objects /\ obj \in [Objects -> Object]
  BY DEF TypeInv, SweepOK, ObjOK, FreshObjects
<1>2. obj'[map'] = n /\ \A s \in Sweeps : sweep[s].step # "idle" => obj'[sweep[s].o] = obj[sweep[s].o]
  BY <1>1
<1>3. ASSUME NEW s \in Sweeps
      PROVE  ~Tears(s)'
  <2>1. ~Tears(s)
    BY <1>1, NoneAssumption DEF SweepsInv, TearsTheMaps, Tears
  <2>2. QED
    BY <1>2, <2>1 DEF Tears
<1>4. SweepsDue'
  BY <1>2 DEF SweepsInv, SweepsDue
<1>5. NewIsFresh'
  BY <1>2 DEF NewIsFresh
<1>6. QED
  BY <1>2, <1>3, <1>4, <1>5 DEF SweepsInv, TearsTheMaps

\* Map and row stay in agreement when neither loses a container and nobody moves.
LEMMA RecordsKept ==
    ASSUME TypeInv, RecordsInv, RecordsStay, NoneBegins, dispatch' = dispatch
    PROVE  RecordsInv'
<1>1. map # NoObject => obj'[map].cont = obj[map].cont /\ obj'[map].clock \in {obj[map].clock, "fresh"}
  BY DEF TypeInv, MapOK, MaybeObject, RecordsStay, ObjectsStay
<1>2. ASSUME NEW d \in Dispatches
      PROVE  RecordOf(d)'
  BY <1>1 DEF RecordsInv, RecordOf, RecordsStay, RowStays, NoneBegins
<1>3. RowThere'
  BY DEF RecordsInv, RowThere, RecordsStay, RowStays
<1>4. Agree'
  BY <1>1 DEF RecordsInv, Agree, RecordsStay, RowStays
<1>5. QED
  BY <1>2, <1>3, <1>4 DEF RecordsInv

\* Again the mover is the one to be looked at.
LEMMA OnlyMover ==
    ASSUME OneByOne, OneByOne', NEW d \in Dispatches, OthersStay(d),
           dispatch[d].step # "out" \/ dispatch'[d].step # "out", RecordOf(d)'
    PROVE  /\ \A e \in Dispatches : RecordOf(e)'
           /\ \A e \in Dispatches \ {d} : dispatch[e].step = "out" /\ dispatch'[e].step = "out"
<1>1. \A e \in Dispatches \ {d} : dispatch[e].step = "out" /\ dispatch'[e].step = "out"
  BY DEF OthersStay, OneByOne
<1>2. \A e \in Dispatches \ {d} : RecordOf(e)'
  BY <1>1 DEF RecordOf, Holding
<1>3. QED
  BY <1>1, <1>2

\* The same when a dispatch moves that is not between two writes.
LEMMA RecordsMove ==
    ASSUME TypeInv, RecordsInv, RecordsStay, OneByOne, OneByOne', NEW d \in Dispatches, OthersStay(d),
           dispatch[d].step # "out" \/ dispatch'[d].step # "out",
           dispatch[d].step \notin Writing, dispatch'[d].step \notin Writing, RecordOf(d)'
    PROVE  RecordsInv'
<1>1. map # NoObject => obj'[map].cont = obj[map].cont
  BY DEF TypeInv, MapOK, MaybeObject, RecordsStay, ObjectsStay
<1>2. \A e \in Dispatches : dispatch[e].step \notin Writing
  BY OnlyMover DEF Writing
<1>3. map # NoObject => row.status # "none" /\ row.cont = obj[map].cont
  BY <1>2 DEF RecordsInv, RowThere, Agree, Writing
<1>4. RowThere' /\ Agree'
  BY <1>1, <1>3 DEF RowThere, Agree, RecordsStay, RowStays
<1>5. QED
  BY <1>4, OnlyMover DEF RecordsInv

\* Where a dispatch goes that puts nothing on record.
Moving == (Holding \cup {"creating", "created"}) \ Writing
LEMMA HandlingMoves ==
    ASSUME TypeInv, NEW d \in Dispatches, Handles(d)
    PROVE  /\ OthersStay(d) /\ (dispatch[d].step # "out" \/ dispatch'[d].step # "out")
           /\ dispatch[d].step \in Moving \cup {"out"}
           /\ \/ dispatch'[d].step = "out"
              \/ dispatch'[d].step = "resurrecting" /\ map = NoObject /\ row.status # "none"
              \/ dispatch'[d].step \in Moving /\ dispatch'[d].o = dispatch[d].o /\ dispatch[d].step \in Moving
              \/ dispatch'[d].step \in Moving /\ (dispatch'[d].o = map \/ map = NoObject)
<1> DEFINE Result == 
           /\ OthersStay(d) /\ (dispatch[d].step # "out" \/ dispatch'[d].step # "out")
           /\ dispatch[d].step \in Moving \cup {"out"}
           /\ \/ dispatch'[d].step = "out"
              \/ dispatch'[d].step = "resurrecting" /\ map = NoObject /\ row.status # "none"
              \/ dispatch'[d].step \in Moving /\ dispatch'[d].o = dispatch[d].o /\ dispatch[d].step \in Moving
              \/ dispatch'[d].step \in Moving /\ (dispatch'[d].o = map \/ map = NoObject)
<1>1. DispatchOK /\ Moving = (Holding \cup {"creating", "created"}) \ {"registering", "reassigning"}
  BY DEF TypeInv, Moving, Writing, Holding
<1>2. ASSUME dispatch[d].step \in Moving, Ends(d)
      PROVE  Result
  BY <1>1, <1>2, DispatchBecomes DEF NoDispatch, Holding
<1>3. ASSUME dispatch[d].step \in Moving, NEW s \in Moving, Goes(d, s)
      PROVE  Result
  BY <1>1, <1>3, DispatchBecomes DEF Holding
<1>4. ASSUME dispatch[d].step \in Moving, Discards(d)
      PROVE  Result
  BY <1>1, <1>4, DispatchBecomes DEF Holding
<1>5. ResurrectReads(d) => Result
  BY <1>1, DispatchBecomes DEF ResurrectReads
<1>6. Begins(d) => Result
  <2>1. ASSUME Begins(d), map = NoObject
        PROVE  Result
    BY <1>1, <2>1, DispatchBecomes DEF Begins
  <2>2. ASSUME Begins(d), map # NoObject
        PROVE  Result
    <3>1. dispatch' = [dispatch EXCEPT ![d] = [NoDispatch EXCEPT !.step = "touching", !.o = map]]
          /\ dispatch[d].step = "out"
      BY <2>2 DEF Begins
    <3>2. OthersStay(d) /\ dispatch'[d].step = "touching" /\ dispatch'[d].o = map
      BY <1>1, <3>1 DEF OthersStay, DispatchOK, NoDispatch
    <3>3. QED
      BY <1>1, <3>1, <3>2 DEF Holding
  <2>3. QED
    BY <2>1, <2>2
<1>7. Touched(d) => Result
  <2> SUFFICES ASSUME Touched(d)
               PROVE  Result
    OBVIOUS
  <2> DEFINE c == obj[dispatch[d].o].cont
  <2>1. /\ OthersStay(d) /\ dispatch'[d].o = dispatch[d].o /\ dispatch[d].step = "touching"
        /\ dispatch'[d].step = IF c = NoContainer THEN "creating" ELSE "probing"
    BY <1>1 DEF Touched, DispatchOK, DispatchState, OthersStay
  <2> HIDE DEF c
  <2>2. QED
    BY <1>1, <2>1 DEF Holding
<1>8. ProbedRunning(d) => Result
  BY <1>1, <1>3 DEF ProbedRunning, Holding
<1>9. ProbedPaused(d) => Result
  BY <1>1, <1>3 DEF ProbedPaused, Holding
<1>10. ProbedDead(d) => Result
  BY <1>1, <1>4 DEF ProbedDead, Holding
<1>11. Unpaused(d) => Result
  BY <1>1, <1>3 DEF Unpaused, Holding
<1>12. UnpauseFails(d) => Result
  BY <1>1, <1>2 DEF UnpauseFails, Holding
<1>13. Discarded(d) => Result
  BY <1>1, <1>3 DEF Discarded, Holding
<1>14. CreateFails(d) => Result
  BY <1>1, <1>2 DEF CreateFails
<1>15. Creates(d) => Result
  <2>1. Creates(d) => OthersStay(d) /\ dispatch[d].step = "creating" /\ dispatch'[d].step = "created"
                      /\ dispatch'[d].o = dispatch[d].o
    BY <1>1 DEF Creates, DispatchOK, DispatchState, OthersStay
  <2>2. QED
    BY <1>1, <2>1
<1>16. ExecStarts(d) => Result
  BY <1>1, <1>3 DEF ExecStarts, Holding
<1>17. ExecRefused(d) => Result
  <2>1. ASSUME ExecRefused(d), ~Ends(d)
        PROVE  Result
    <3>1. dispatch' = [dispatch EXCEPT ![d].step = "reviving", ![d].again = TRUE]
          /\ dispatch[d].step = "exec"
      BY <2>1 DEF ExecRefused
    <3>2. OthersStay(d) /\ dispatch'[d].step = "reviving" /\ dispatch'[d].o = dispatch[d].o
      BY <1>1, <3>1 DEF DispatchOK, DispatchState, OthersStay
    <3>3. QED
      BY <1>1, <3>1, <3>2 DEF Holding
  <2>2. ExecRefused(d) => dispatch[d].step \in Moving
    BY <1>1 DEF ExecRefused, Holding
  <2>3. QED
    BY <1>2, <2>1, <2>2
<1>18. Revives(d) => Result
  <2>1. Revives(d) => dispatch[d].step \in Moving
                      /\ (Goes(d, "exec") \/ Goes(d, "unpausing") \/ Discards(d) \/ Ends(d))
    BY <1>1 DEF Revives, Holding
  <2>2. {"exec", "unpausing"} \subseteq Moving
    BY <1>1 DEF Holding
  <2>3. QED
    BY <1>2, <1>3, <1>4, <2>1, <2>2
<1>19. TurnEnds(d) => Result
  BY <1>1, <1>2 DEF TurnEnds, Holding
<1>20. QED
  BY <1>5, <1>6, <1>7, <1>8, <1>9, <1>10, <1>11, <1>12, <1>13, <1>14, <1>15, <1>16,
     <1>17, <1>18, <1>19 DEF Handles

RecordInv == SweepsInv /\ RecordsInv

\* A dispatch that works alone leaves map and row in agreement when it is not writing.
LEMMA RecordDispatch ==
    ASSUME TypeInv, RecordInv, OneByOne, OneByOne', NEW d \in Dispatches, DispatchStep(d)
    PROVE  RecordInv'
<1>1. /\ RecordOf(d) /\ DispatchOK /\ ObjOK /\ MapOK /\ RowOK
      /\ dispatch[d].step \in Holding => dispatch[d].o \in Objects
  BY DEF RecordInv, RecordsInv, TypeInv, DispatchOK
<1>2. ASSUME UNCHANGED <<map, sweep>>, ClocksStay
      PROVE  SweepsInv' /\ NoneBegins
  <2>1. PassesStay
    BY <1>2 DEF PassesStay, RecordInv, SweepsInv, SweepsDue, Tears
  <2>2. QED
    BY <1>2, <2>1, PassesKept DEF RecordInv
<1>3. Handles(d) => RecordInv'
  <2> SUFFICES ASSUME Handles(d)
               PROVE  RecordInv'
    OBVIOUS
  <2>1. RecordsStay /\ sweep' = sweep /\ map' = map
    BY HandlingStays DEF RecordsStay
  <2>2. SweepsInv'
    BY <1>2, <2>1 DEF RecordsStay, ObjectsStay, ClocksStay
  <2>3. /\ OthersStay(d) /\ (dispatch[d].step # "out" \/ dispatch'[d].step # "out")
        /\ dispatch[d].step \notin Writing /\ dispatch'[d].step \notin Writing
    BY HandlingMoves DEF Moving, Writing
  <2>4. dispatch'[d].step \in Moving => map \in {dispatch'[d].o, NoObject}
    BY <1>1, HandlingMoves DEF Moving, Writing, RecordOf, Holding
  <2>5. dispatch'[d].step = "resurrecting" => map = NoObject /\ row.status # "none"
    BY HandlingMoves DEF Moving, Writing, Holding
  <2>6. RecordOf(d)'
    BY <2>1, <2>3, <2>4, <2>5 DEF RecordOf, Moving, Writing, RecordsStay, RowStays
  <2>7. RecordsInv'
    BY <2>1, <2>3, <2>6, RecordsMove DEF RecordInv
  <2>8. QED
    BY <2>2, <2>7 DEF RecordInv
<1>4. Resurrects(d) => RecordInv'
  <2> SUFFICES ASSUME Resurrects(d)
               PROVE  RecordInv'
    OBVIOUS
  <2>1. map = NoObject /\ row.status # "none" /\ row' = row /\ sweep' = sweep
        /\ dispatch[d].step = "resurrecting"
    BY <1>1 DEF Resurrects, RecordOf, actorVars
  <2>2. PICK o \in FreshObjects :
          /\ map' = o
          /\ obj' = [obj EXCEPT ![o] = [NewObject(NoContainer, "resumable") EXCEPT !.due = row.due]]
          /\ Goes(d, "resurrected")
    BY <2>1 DEF Resurrects
  <2>3. /\ SweepsInv' /\ \A s \in Sweeps : ~Tears(s)'
        /\ obj'[map'] = [NewObject(NoContainer, "resumable") EXCEPT !.due = row.due]
    BY <2>1, <2>2, ObjectAppears DEF NewObject, RecordInv
  <2>4. OthersStay(d) /\ dispatch'[d].step = "resurrected"
    BY <1>1, <2>2, DispatchBecomes
  <2>5. obj'[map'].cont = NoContainer
    BY <2>3 DEF NewObject
  <2>6. RecordOf(d)'
    BY <2>4, <2>5 DEF RecordOf, Holding
  <2>7. \A e \in Dispatches : RecordOf(e)'
    BY <2>1, <2>4, <2>6, OnlyMover
  <2>8. RowThere' /\ Agree'
    BY <2>1, <2>4 DEF RowThere, Agree, Writing
  <2>9. QED
    BY <2>3, <2>7, <2>8 DEF RecordInv, RecordsInv
<1>5. Resurrected(d) => RecordInv'
  <2> SUFFICES ASSUME Resurrected(d)
               PROVE  RecordInv'
    OBVIOUS
  <2>1. /\ UNCHANGED <<map, obj, sweep>> /\ dispatch[d].step = "resurrected"
        /\ row' = Reassigned(NoContainer, "resumable") /\ Ends(d)
    BY DEF Resurrected, actorVars
  <2>2. SweepsInv'
    BY <1>2, <2>1 DEF ClocksStay
  <2>3. OthersStay(d) /\ dispatch'[d].step = "out"
    BY <1>1, <2>1, DispatchBecomes DEF NoDispatch
  <2>4. RecordOf(d)'
    BY <2>3 DEF RecordOf, Holding
  <2>5. /\ \A e \in Dispatches : RecordOf(e)'
        /\ \A e \in Dispatches : dispatch[e].step # "registering"
    BY <2>1, <2>3, <2>4, OnlyMover
  <2>6. map # NoObject => row.status # "none" /\ obj[map].cont = NoContainer
    BY <1>1, <2>1, <2>5 DEF RecordInv, RecordsInv, RowThere, RecordOf
  <2>7. map # NoObject => row'.status # "none" /\ row'.cont = NoContainer
    BY <1>1, <2>1, <2>6 DEF Reassigned, RowOK, Row
  <2>8. RowThere' /\ Agree'
    BY <2>1, <2>6, <2>7 DEF RowThere, Agree
  <2>9. QED
    BY <2>2, <2>5, <2>8 DEF RecordInv, RecordsInv
<1>6. Registers(d) => RecordInv'
  <2> SUFFICES ASSUME Registers(d)
               PROVE  RecordInv'
    OBVIOUS
  <2>1. dispatch[d].step = "created" /\ dispatch[d].o = NoObject
    BY DEF Registers
  <2>2. map = NoObject
    BY <1>1, <2>1 DEF RecordOf
  <2>3. PICK o \in FreshObjects :
          /\ map' = o /\ obj' = [obj EXCEPT ![o] = NewObject(dispatch[d].c, "active")]
          /\ OthersStay(d) /\ dispatch'[d].o = o /\ dispatch'[d].c = dispatch[d].c
          /\ dispatch'[d].step = "registering"
          /\ UNCHANGED <<row, sweep>>
    BY Registering
  <2>4. /\ SweepsInv' /\ \A s \in Sweeps : ~Tears(s)'
        /\ obj'[map'] = NewObject(dispatch[d].c, "active")
    BY <2>2, <2>3, ObjectAppears DEF NewObject, RecordInv
  <2>5. obj'[map'].cont = dispatch'[d].c /\ obj'[map'].clock = "fresh"
    BY <2>3, <2>4 DEF NewObject
  <2>6. RecordOf(d)'
    BY <2>3, <2>4, <2>5 DEF RecordOf
  <2>7. \A e \in Dispatches : RecordOf(e)'
    BY <2>1, <2>3, <2>6, OnlyMover
  <2>8. RowThere' /\ Agree'
    BY <2>3 DEF RowThere, Agree, Writing
  <2>9. QED
    BY <2>4, <2>7, <2>8 DEF RecordInv, RecordsInv
<1>7. Registered(d) => RecordInv'
  <2> SUFFICES ASSUME Registered(d)
               PROVE  RecordInv'
    OBVIOUS
  <2>1. /\ UNCHANGED <<map, obj, sweep>> /\ dispatch[d].step = "registering" /\ Goes(d, "exec")
        /\ row' = [cont |-> dispatch[d].c, status |-> "active", due |-> FALSE]
    BY DEF Registered, actorVars
  <2>2. SweepsInv'
    BY <1>2, <2>1 DEF ClocksStay
  <2>3. OthersStay(d) /\ dispatch'[d].step = "exec" /\ dispatch'[d].o = dispatch[d].o
    BY <1>1, <2>1, DispatchBecomes
  <2>4. RecordOf(d)'
    BY <1>1, <2>1, <2>3 DEF RecordOf, Holding
  <2>5. \A e \in Dispatches : RecordOf(e)'
    BY <2>1, <2>3, <2>4, OnlyMover
  <2>6. map # NoObject => obj[map].cont = dispatch[d].c
    BY <1>1, <2>1 DEF RecordOf
  <2>7. RowThere' /\ Agree'
    BY <2>1, <2>6 DEF RowThere, Agree
  <2>8. QED
    BY <2>2, <2>5, <2>7 DEF RecordInv, RecordsInv
<1>8. Reassigns(d) => RecordInv'
  <2> SUFFICES ASSUME Reassigns(d)
               PROVE  RecordInv'
    OBVIOUS
  <2> DEFINE o == dispatch[d].o
  <2>1. /\ dispatch[d].step = "created" /\ o # NoObject /\ UNCHANGED <<map, row, sweep>>
        /\ o \in Objects /\ map \in {o, NoObject}
    BY <1>1 DEF Reassigns, actorVars, RecordOf, DispatchOK, DispatchState, MaybeObject
  <2>2. /\ OthersStay(d) /\ dispatch'[d].o = o
        /\ dispatch'[d].step = IF map = NoObject THEN "exec" ELSE "reassigning"
    BY <1>1, <2>1, DispatchBecomes DEF Reassigns
  <2>3. ClocksStay
    BY <1>1, <2>1 DEF Reassigns, ClocksStay, ObjOK, Object
  <2>4. SweepsInv'
    BY <1>2, <2>1, <2>3
  <2>5. RecordOf(d)'
    BY <2>1, <2>2 DEF RecordOf, Holding
  <2>6. /\ \A e \in Dispatches : RecordOf(e)'
        /\ \A e \in Dispatches : dispatch[e].step # "registering"
    BY <2>1, <2>2, <2>5, OnlyMover
  <2>7. RowThere' /\ Agree'
    BY <2>1, <2>2, <2>6 DEF RecordInv, RecordsInv, RowThere, Agree, Writing
  <2>8. QED
    BY <2>4, <2>6, <2>7 DEF RecordInv, RecordsInv
<1>9. ReassignWritten(d) => RecordInv'
  <2> SUFFICES ASSUME ReassignWritten(d)
               PROVE  RecordInv'
    OBVIOUS
  <2> DEFINE o == dispatch[d].o
             c == dispatch[d].c
  <2>1. /\ dispatch[d].step = "reassigning" /\ UNCHANGED <<map, sweep>>
        /\ row' = Reassigned(c, "active") /\ obj' = [obj EXCEPT ![o].cont = c]
        /\ Goes(d, "exec")
    BY DEF ReassignWritten, actorVars
  <2>2. o \in Objects /\ map \in {o, NoObject}
    BY <1>1, <2>1 DEF RecordOf, Holding
  <2>3. OthersStay(d) /\ dispatch'[d].step = "exec" /\ dispatch'[d].o = o
    BY <1>1, <2>1, DispatchBecomes
  <2> HIDE DEF o, c
  <2>4. ClocksStay /\ obj'[o].cont = c
    BY <1>1, <2>1, <2>2 DEF ClocksStay, ObjOK, Object
  <2>5. SweepsInv'
    BY <1>2, <2>1, <2>4
  <2>6. RecordOf(d)'
    BY <2>1, <2>2, <2>3 DEF RecordOf, Holding
  <2>7. /\ \A e \in Dispatches : RecordOf(e)'
        /\ \A e \in Dispatches : dispatch[e].step # "registering"
    BY <2>1, <2>3, <2>6, OnlyMover
  <2>8. map # NoObject => row.status # "none"
    BY <2>7 DEF RecordInv, RecordsInv, RowThere
  <2>9. map # NoObject => row'.status # "none" /\ row'.cont = c
    BY <1>1, <2>1, <2>8 DEF Reassigned, RowOK, Row
  <2>10. RowThere' /\ Agree'
    BY <2>1, <2>2, <2>4, <2>9 DEF RowThere, Agree
  <2>11. QED
    BY <2>5, <2>7, <2>10 DEF RecordInv, RecordsInv
<1>10. QED
  BY <1>3, <1>4, <1>5, <1>6, <1>7, <1>8, <1>9 DEF DispatchStep, Handles

\* The steps of a pass that change no container on record.
Passes(s) ==
    \/ SweepSkips(s) \/ SweepPauses(s) \/ DockerPauses(s) \/ PauseAnswered(s)
    \/ SweepTearsDown(s) \/ SweepExpires(s) \/ SweepRemoves(s)

\* What the ways to move a pass do to it, and that they leave the others.
LEMMA PassMoves ==
    ASSUME SweepOK, NEW s \in Sweeps
    PROVE  /\ \A t \in Sweeps : t # s /\ (\/ SweepDone(s)
                                          \/ \E st \in SweepSteps : SweepAt(s, st) \/ SweepHas(s, st)) =>
                sweep'[t] = sweep[t]
           /\ SweepDone(s) => sweep'[s].step = "idle"
           /\ \A st \in SweepSteps : SweepAt(s, st) \/ SweepHas(s, st) =>
                sweep'[s].step = st /\ sweep'[s].o = sweep[s].o
<1>1. SweepDone(s) => sweep'[s].step = "idle" /\ \A t \in Sweeps \ {s} : sweep'[t] = sweep[t]
  BY DEF SweepOK, SweepDone, NoSweep
<1>2. ASSUME NEW st, SweepAt(s, st)
      PROVE  /\ sweep'[s].step = st /\ sweep'[s].o = sweep[s].o
             /\ \A t \in Sweeps \ {s} : sweep'[t] = sweep[t]
  BY <1>2 DEF SweepOK, SweepState, SweepAt
<1>3. ASSUME NEW st, SweepHas(s, st)
      PROVE  /\ sweep'[s].step = st /\ sweep'[s].o = sweep[s].o
             /\ \A t \in Sweeps \ {s} : sweep'[t] = sweep[t]
  BY <1>3 DEF SweepOK, SweepState, SweepHas
<1>4. QED
  BY <1>1, <1>2, <1>3

\* They keep map and row in agreement.
LEMMA RecordPasses ==
    ASSUME TypeInv, RecordInv, NEW s \in Sweeps, Passes(s)
    PROVE  RecordInv'
<1> USE DEF TypeInv
<1>1. sweep[s].step # "idle" /\ sweep[s].o \in Objects
  BY DEF Passes, SweepSkips, SweepPauses, DockerPauses, PauseAnswered, SweepTearsDown,
         SweepExpires, SweepRemoves, SweepOK
<1>2. UNCHANGED <<map, dispatch>>
  BY DEF Passes, SweepSkips, SweepPauses, DockerPauses, PauseAnswered, SweepTearsDown,
         SweepExpires, SweepRemoves, actorVars
<1> DEFINE Moved(st) == /\ \A t \in Sweeps \ {s} : sweep'[t] = sweep[t]
                        /\ sweep'[s].step = st /\ (st # "idle" => sweep'[s].o = sweep[s].o)
<1>3. /\ SweepDone(s) => Moved("idle")
      /\ \A st \in SweepSteps : SweepAt(s, st) \/ SweepHas(s, st) => Moved(st)
  BY PassMoves
<1>4. ASSUME NEW st \in SweepSteps, Moved(st), ObjectsStay, RowStays, st # "turn",
             st \in {"expiring", "expired"} => obj[sweep[s].o].due,
             st \in {"tearing", "torn"} => Tears(s)
      PROVE  RecordInv'
  <2>1. PassesStay
    BY <1>1, <1>4 DEF PassesStay, RecordInv, SweepsInv, SweepsDue, Tears
  <2>2. ClocksStay
    BY <1>4 DEF ObjectsStay, ClocksStay
  <2>3. SweepsInv' /\ NoneBegins
    BY <1>2, <2>1, <2>2, PassesKept DEF RecordInv
  <2>4. RecordsInv'
    BY <1>2, <1>4, <2>3, RecordsKept DEF RecordInv, RecordsStay
  <2>5. QED
    BY <2>3, <2>4 DEF RecordInv
<1>5. {"idle", "pausing", "paused", "tearing", "torn", "expiring", "expired"} \subseteq SweepSteps
  BY DEF SweepSteps
<1>6. row' = row => RowStays
  BY DEF RowStays
<1>7. obj' = obj => ObjectsStay
  BY DEF ObjectsStay
<1>8. ASSUME NEW st, obj' = [obj EXCEPT ![sweep[s].o].status = st]
      PROVE  ObjectsStay
  BY <1>1, <1>8, StatusStays
<1>9. SweepSkips(s) => RecordInv'
  <2> SUFFICES ASSUME SweepSkips(s)
               PROVE  RecordInv'
    OBVIOUS
  <2>1. SweepDone(s) /\ row' = row
    BY DEF SweepSkips
  <2>2. ObjectsStay
    BY <1>1 DEF SweepSkips, ObjOK, Object, ObjectsStay
  <2>3. QED
    BY <1>3, <1>4, <1>5, <1>6, <2>1, <2>2
<1>10. SweepPauses(s) => RecordInv'
  <2> SUFFICES ASSUME SweepPauses(s)
               PROVE  RecordInv'
    OBVIOUS
  <2>1. SweepHas(s, "pausing") /\ row' = row /\ obj' = [obj EXCEPT ![sweep[s].o].status = Seen(sweep[s].o)]
    BY DEF SweepPauses
  <2>2. QED
    BY <1>3, <1>4, <1>5, <1>6, <1>8, <2>1
<1>11. DockerPauses(s) => RecordInv'
  <2> SUFFICES ASSUME DockerPauses(s)
               PROVE  RecordInv'
    OBVIOUS
  <2>1. (SweepAt(s, "paused") \/ SweepDone(s)) /\ row' = row /\ obj' = obj
    BY DEF DockerPauses
  <2>2. QED
    BY <1>3, <1>4, <1>5, <1>6, <1>7, <2>1
<1>12. PauseAnswered(s) => RecordInv'
  <2> SUFFICES ASSUME PauseAnswered(s)
               PROVE  RecordInv'
    OBVIOUS
  <2>1. SweepDone(s) /\ row' = Updated("paused") /\ obj' = [obj EXCEPT ![sweep[s].o].status = "paused"]
    BY DEF PauseAnswered
  <2>2. RowStays
    BY <2>1, UpdateStays DEF RowStatus
  <2>3. QED
    BY <1>3, <1>4, <1>5, <1>8, <2>1, <2>2
<1>13. SweepTearsDown(s) => RecordInv'
  <2> SUFFICES ASSUME SweepTearsDown(s)
               PROVE  RecordInv'
    OBVIOUS
  <2>1. SweepHas(s, "tearing") /\ row' = row /\ obj' = [obj EXCEPT ![sweep[s].o].status = Seen(sweep[s].o)]
    BY DEF SweepTearsDown
  <2>2. Tears(s)
    BY DEF SweepTearsDown, TeardownDue, Tears
  <2>3. QED
    BY <1>3, <1>4, <1>5, <1>6, <1>8, <2>1, <2>2
<1>14. SweepExpires(s) => RecordInv'
  <2> SUFFICES ASSUME SweepExpires(s)
               PROVE  RecordInv'
    OBVIOUS
  <2>1. /\ SweepAt(s, "expired") \/ SweepHas(s, "expiring")
        /\ row' = row /\ obj' = obj /\ obj[sweep[s].o].due
    BY DEF SweepExpires
  <2>2. QED
    BY <1>3, <1>4, <1>5, <1>6, <1>7, <2>1
<1>15. SweepRemoves(s) => RecordInv'
  <2> SUFFICES ASSUME SweepRemoves(s)
               PROVE  RecordInv'
    OBVIOUS
  <2>1. row' = row /\ obj' = obj
    BY DEF SweepRemoves
  <2>2. CASE sweep[s].step = "tearing" /\ SweepAt(s, "torn")
    BY <1>3, <1>4, <1>5, <1>6, <1>7, <2>1, <2>2 DEF Tears
  <2>3. CASE sweep[s].step = "expiring" /\ SweepAt(s, "expired")
    BY <1>3, <1>4, <1>5, <1>6, <1>7, <2>1, <2>3 DEF RecordInv, SweepsInv, SweepsDue
  <2>4. QED
    BY <2>2, <2>3 DEF SweepRemoves
<1>16. QED
  BY <1>9, <1>10, <1>11, <1>12, <1>13, <1>14, <1>15 DEF Passes

\* A pass begins with the map's object; it will tear it down only if it is not fresh.
LEMMA RecordStarts ==
    ASSUME TypeInv, RecordInv, NEW s \in Sweeps, SweepStarts(s)
    PROVE  RecordInv'
<1> USE DEF TypeInv
<1>1. /\ UNCHANGED <<map, obj, row, dispatch>> /\ map # NoObject
      /\ \A t \in Sweeps \ {s} : sweep'[t] = sweep[t]
      /\ sweep'[s].step = "turn" /\ sweep'[s].o = map
  BY DEF SweepStarts, SweepOK, NoSweep
<1>2. SweepsDue' /\ NewIsFresh'
  BY <1>1 DEF RecordInv, SweepsInv, SweepsDue, NewIsFresh
<1>3. Tears(s)' => obj[map].clock = "stale" /\ ~obj[map].due
  BY <1>1 DEF Tears
<1>4. \A t \in Sweeps \ {s} : Tears(t)' <=> Tears(t)
  BY <1>1 DEF Tears
<1>5. ASSUME Tears(s)', NEW t \in Sweeps, sweep'[t].step # "idle"
      PROVE  sweep'[t].o = map
  BY <1>1, <1>3, <1>5 DEF RecordInv, SweepsInv, NewIsFresh
<1>6. TearsTheMaps'
  <2>1. ASSUME NEW t \in Sweeps, Tears(t)'
        PROVE  /\ map' = sweep'[t].o /\ ~obj'[map'].due
               /\ \A u \in Sweeps : sweep'[u].step # "idle" => sweep'[u].o = map'
    <3>1. CASE t = s
      BY <1>1, <1>3, <1>5, <2>1, <3>1
    <3>2. CASE t # s
      BY <1>1, <1>4, <2>1, <3>2 DEF RecordInv, SweepsInv, TearsTheMaps
    <3>3. QED
      BY <3>1, <3>2
  <2>2. QED
    BY <2>1 DEF TearsTheMaps
<1>7. \A d \in Dispatches : RecordOf(d)'
  BY <1>1, <1>3, <1>4 DEF RecordInv, RecordsInv, RecordOf
<1>8. RowThere' /\ Agree'
  BY <1>1 DEF RecordInv, RecordsInv, RowThere, Agree
<1>9. QED
  BY <1>2, <1>6, <1>7, <1>8 DEF RecordInv, RecordsInv, SweepsInv

\* A pass that tears down clears both records of the session in the map at once.
LEMMA RecordTorn ==
    ASSUME TypeInv, RecordInv, NEW s \in Sweeps, TeardownAnswered(s)
    PROVE  RecordInv'
<1> USE DEF TypeInv
<1> DEFINE o == sweep[s].o
<1>1. /\ UNCHANGED <<map, dispatch>> /\ sweep[s].step = "torn" /\ SweepDone(s)
      /\ obj' = [obj EXCEPT ![o].status = "resumable", ![o].cont = NoContainer]
      /\ row' = Reassigned(NoContainer, "resumable")
  BY DEF TeardownAnswered
<1>2. o \in Objects /\ o = map /\ Tears(s)
  BY <1>1 DEF SweepOK, Tears, RecordInv, SweepsInv, TearsTheMaps
<1> HIDE DEF o
<1>3. obj'[o].cont = NoContainer /\ ClocksStay
  BY <1>1, <1>2 DEF ObjOK, Object, ClocksStay
<1>4. (\A t \in Sweeps \ {s} : sweep'[t] = sweep[t]) /\ sweep'[s].step = "idle"
  BY <1>1, PassMoves
<1>5. PassesStay
  BY <1>4 DEF PassesStay, RecordInv, SweepsInv, SweepsDue, Tears
<1>6. SweepsInv' /\ NoneBegins
  BY <1>1, <1>3, <1>5, PassesKept DEF RecordInv
<1>7. \A d \in Dispatches : dispatch[d].step # "registering"
  BY <1>2, NoneAssumption DEF RecordInv, RecordsInv, RecordOf
<1>8. row.status # "none"
  BY <1>2, <1>7, NoneAssumption DEF RecordInv, RecordsInv, RowThere
<1>9. row'.status # "none" /\ row'.cont = NoContainer
  BY <1>1, <1>8 DEF Reassigned, RowOK, Row
<1>10. \A d \in Dispatches : RecordOf(d)'
  BY <1>1, <1>2, <1>3, <1>7, <1>9 DEF RecordInv, RecordsInv, RecordOf
<1>11. RowThere' /\ Agree'
  BY <1>1, <1>2, <1>3, <1>9 DEF RowThere, Agree
<1>12. QED
  BY <1>6, <1>10, <1>11 DEF RecordInv, RecordsInv

\* A pass that expires empties the map; what another is about to tear down was not due.
LEMMA RecordExpired ==
    ASSUME TypeInv, RecordInv, NEW s \in Sweeps, ExpiryAnswered(s)
    PROVE  RecordInv'
<1> USE DEF TypeInv
<1>1. /\ map' = NoObject /\ dispatch' = dispatch /\ sweep[s].step = "expired" /\ SweepDone(s)
      /\ obj' = [obj EXCEPT ![sweep[s].o].status = "expired"]
      /\ row' = Reassigned(NoContainer, "expired")
  BY DEF ExpiryAnswered
<1>2. sweep[s].o \in Objects /\ obj[sweep[s].o].due
  BY <1>1 DEF SweepOK, RecordInv, SweepsInv, SweepsDue
<1>3. ObjectsStay
  BY <1>1, <1>2, StatusStays
<1>4. /\ \A t \in Sweeps \ {s} : sweep'[t] = sweep[t] /\ (sweep[t].step # "idle" => sweep[t].o \in Objects)
      /\ sweep'[s].step = "idle"
  BY <1>1, PassMoves DEF SweepOK
<1>5. \A t \in Sweeps : ~Tears(t)
  BY <1>1, <1>2 DEF RecordInv, SweepsInv, TearsTheMaps
<1>6. \A t \in Sweeps : ~Tears(t)'
  BY <1>3, <1>4, <1>5 DEF Tears, ObjectsStay
<1>7. SweepsDue'
  BY <1>3, <1>4 DEF SweepsDue, RecordInv, SweepsInv, ObjectsStay
<1>8. NewIsFresh' /\ TearsTheMaps'
  BY <1>1, <1>6 DEF NewIsFresh, TearsTheMaps
<1>9. row.status # "none" => row'.status # "none"
  BY <1>1 DEF Reassigned, RowOK, Row
<1>10. \A d \in Dispatches : RecordOf(d)'
  BY <1>1, <1>9 DEF RecordInv, RecordsInv, RecordOf
<1>11. RowThere' /\ Agree'
  BY <1>1 DEF RowThere, Agree
<1>12. QED
  BY <1>7, <1>8, <1>10, <1>11 DEF RecordInv, RecordsInv, SweepsInv

\* Time passes only while no pass and no dispatch waits, and changes no container.
LEMMA RecordWaits ==
    ASSUME TypeInv, RecordInv, AtRest, UNCHANGED <<map, dispatch, sweep>>,
           \A o \in Objects : obj'[o].cont = obj[o].cont, RowStays
    PROVE  RecordInv'
<1>1. /\ \A s \in Sweeps : sweep'[s].step = "idle"
      /\ \A d \in Dispatches : dispatch[d].step \in {"out", "exec", "running"}
  BY DEF AtRest
<1>2. SweepsInv'
  BY <1>1 DEF SweepsInv, SweepsDue, NewIsFresh, TearsTheMaps, Tears
<1>3. map # NoObject => obj'[map].cont = obj[map].cont
  BY DEF TypeInv, MapOK, MaybeObject
<1>4. \A d \in Dispatches : RecordOf(d)'
  BY <1>1 DEF RecordInv, RecordsInv, RecordOf
<1>5. RowThere' /\ Agree'
  BY <1>3 DEF RecordInv, RecordsInv, RowThere, Agree, RowStays
<1>6. QED
  BY <1>2, <1>4, <1>5 DEF RecordInv, RecordsInv

\* What is loaded from the table agrees with it.
LEMMA RecordRestarts ==
    ASSUME TypeInv, Restart
    PROVE  RecordInv'
<1>1. (\A d \in Dispatches : dispatch'[d] = NoDispatch) /\ (\A s \in Sweeps : sweep'[s] = NoSweep)
  BY DEF Restart
<1>2. SweepsInv'
  BY <1>1 DEF SweepsInv, SweepsDue, NewIsFresh, TearsTheMaps, Tears, NoSweep
<1>3. map' # NoObject => row'.status # "none" /\ row'.cont = obj'[map'].cont
  <2>1. CASE row.status \in {"none", "expired"}
    BY <2>1 DEF Restart
  <2>2. CASE row.status \notin {"none", "expired"}
    <3>1. PICK o \in Objects, k \in {"fresh", "quiet", "stale"} :
            /\ map' = o /\ (row' = row \/ row' = Reassigned(NoContainer, "resumable"))
            /\ obj' = [obj EXCEPT ![o] = [NewObject(row'.cont, row'.status) EXCEPT
                                             !.clock = k, !.due = row.due]]
      BY <2>2 DEF Restart
    <3>2. obj'[o].cont = row'.cont
      BY <3>1 DEF NewObject, TypeInv, ObjOK
    <3>3. row'.status # "none"
      BY <2>2, <3>1 DEF Reassigned, TypeInv, RowOK, Row
    <3>4. QED
      BY <3>1, <3>2, <3>3
  <2>3. QED
    BY <2>1, <2>2
<1>4. RowThere' /\ Agree'
  BY <1>3 DEF RowThere, Agree
<1>5. \A d \in Dispatches : RecordOf(d)'
  BY <1>1 DEF RecordOf, NoDispatch, Holding
<1>6. QED
  BY <1>2, <1>4, <1>5 DEF RecordInv, RecordsInv

\* Every step, beside any number of passes but no call.
LEMMA RecordStep ==
    ASSUME TypeInv, RecordInv, OneByOne, OneByOne', NobodyRemoves, NobodyRemoves', [Next]_vars
    PROVE  RecordInv'
<1>1. ASSUME NEW d \in Dispatches, DispatchStep(d)
      PROVE  RecordInv'
  BY <1>1, RecordDispatch
<1>2. ASSUME NEW s \in Sweeps, SweepStep(s)
      PROVE  RecordInv'
  BY <1>2, RecordStarts, RecordPasses, RecordTorn, RecordExpired DEF SweepStep, Passes
<1>3. ASSUME NEW r \in Removers, RemoverStep(r)
      PROVE  FALSE
  BY <1>3, NobodyStarts
<1>4. ASSUME UNCHANGED <<map, obj, row, dispatch, sweep>>
      PROVE  RecordInv'
  BY <1>4 DEF RecordInv, SweepsInv, SweepsDue, NewIsFresh, TearsTheMaps, Tears, RecordsInv,
              RecordOf, RowThere, Agree
<1>5. OrphanStep \/ OrphansUnknown => UNCHANGED <<map, obj, row, dispatch, sweep>>
  BY DEF OrphanStep, OrphansListed, OrphansFound, OrphanReaped, OrphansEnd, OrphansUnknown, actorVars
<1>6. ASSUME NEW o \in Objects, Quiets(o) \/ Lapses(o)
      PROVE  RecordInv'
  <2>1. AtRest /\ UNCHANGED <<map, dispatch, sweep>>
    BY <1>6 DEF Quiets, Lapses, actorVars
  <2>2. \A x \in Objects : obj'[x].cont = obj[x].cont
    BY <1>6, ClockStays DEF TypeInv
  <2>3. RowStays
    BY <1>6 DEF Quiets, Lapses, RowStays, TypeInv, RowOK, Row
  <2>4. QED
    BY <2>1, <2>2, <2>3, RecordWaits
<1>7. ASSUME RowLapses
      PROVE  RecordInv'
  <2>1. AtRest /\ UNCHANGED <<map, dispatch, sweep, obj>> /\ row' = [row EXCEPT !.due = TRUE]
    BY <1>7 DEF RowLapses, actorVars
  <2>2. RowStays
    BY <2>1 DEF RowStays, TypeInv, RowOK, Row
  <2>3. QED
    BY <2>1, <2>2, RecordWaits
<1>8. ASSUME NEW c \in Containers, Ages(c) \/ Dies(c)
      PROVE  UNCHANGED <<map, obj, row, dispatch, sweep>>
  BY <1>8 DEF Ages, Dies, actorVars
<1>9. Restart => RecordInv'
  BY RecordRestarts
<1>10. UNCHANGED vars => UNCHANGED <<map, obj, row, dispatch, sweep>>
  BY DEF vars, actorVars
<1>11. QED
  BY <1>1, <1>2, <1>3, <1>4, <1>5, <1>6, <1>7, <1>8, <1>9, <1>10 DEF Next

\* There is no record at first.
LEMMA RecordFirst == Init => RecordInv
  BY DEF Init, RecordInv, SweepsInv, SweepsDue, NewIsFresh, TearsTheMaps, Tears, NoSweep,
         RecordsInv, RecordOf, NoDispatch, Holding, RowThere, Agree

\* Where one dispatch serves the session after another and no call terminates, deletes or
\* detaches it, the session's object and its row name the same container at rest: any number
\* of idle sweeps may overlap, with each other and with the dispatch, and containers die and
\* the server restarts between any two writes.
THEOREM RecordsAlwaysAgree == Spec /\ []OneByOne /\ []NobodyRemoves => []RecordsAgree
<1>1. TypeInv /\ RecordInv /\ OneByOne /\ OneByOne' /\ NobodyRemoves /\ NobodyRemoves' /\ [Next]_vars
        => RecordInv'
  BY RecordStep
<1>2. RecordInv => RecordsAgree
  BY DEF RecordInv, RecordsInv, RowThere, Agree, RecordsAgree, AtRest, Writing
<1>3. QED
  BY <1>1, <1>2, RecordFirst, TypeAlways, PTL DEF Spec
=============================================================================
