---------------------------- MODULE TaskQueueOps ----------------------------
(***************************************************************************)
(* The values and the pure operations of the in-memory task queue of       *)
(* queue/in-memory.ts: a sequence of tasks kept in priority order, first   *)
(* in first out within a priority.                                         *)
(***************************************************************************)
EXTENDS Naturals, Sequences, FiniteSets, SequencesExt

CONSTANTS Tasks,        \* task identities
          PriorityOf,   \* [Tasks -> 0..2]: 0 is high, 1 normal, 2 low
          SessionOf,    \* [Tasks -> session], NoSession for a batch or pooled task
          NoSession

Priorities == 0..2

ASSUME TasksAssumption == IsFiniteSet(Tasks)
ASSUME PriorityAssumption == PriorityOf \in [Tasks -> Priorities]

\* Mutant: >= for >, so a newcomer overtakes its own priority.
YieldingToEqual(q, t) == {i \in 1..Len(q) : PriorityOf[q[i]] >= PriorityOf[t]}

\* The queue positions whose task yields to one of t's priority.
Yielding(q, t) == {i \in 1..Len(q) : PriorityOf[q[i]] > PriorityOf[t]}

\* Mutant: every task goes last.
LastIndex(q, t) == Len(q) + 1

\* Where splice() puts t: before the first task of a lower priority, else last.
InsertIndex(q, t) ==
    IF Yielding(q, t) = {} THEN Len(q) + 1 ELSE Min(Yielding(q, t))

Enqueued(q, t) == InsertAt(q, InsertIndex(q, t), t)

\* cancel(taskId) removes the first entry with that id.
Cancelled(q, t) == RemoveFirst(q, t)

\* The position cancelBySession(sessionId) removes, 0 when there is none.
SessionIndex(q, s) == SelectInSeq(q, LAMBDA t : SessionOf[t] = s)

Sorted(q) == \A i, j \in 1..Len(q) : i < j => PriorityOf[q[i]] <= PriorityOf[q[j]]
=============================================================================
