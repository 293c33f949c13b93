------------------------------ MODULE TaskQueue -----------------------------
(***************************************************************************)
(* InMemoryTaskQueue (queue/in-memory.ts) as a state machine: every method *)
(* runs to completion in one turn of the event loop, so each is one action. *)
(***************************************************************************)
EXTENDS TaskQueueOps

CONSTANTS NoTask,
          MaxLen      \* bound: no enqueue beyond this length

ASSUME NoTaskAssumption == NoTask \notin Tasks

VARIABLES queue,      \* the private array
          returned    \* what the last call answered, NoTask for null or false

vars == <<queue, returned>>

TypeOK == /\ queue \in Seq(Tasks)
          /\ returned \in Tasks \cup {NoTask}

Init == queue = <<>> /\ returned = NoTask

Enqueue(t) == /\ Len(queue) < MaxLen
              /\ queue' = Enqueued(queue, t)
              /\ returned' = NoTask

Dequeue == /\ queue' = IF queue = <<>> THEN <<>> ELSE Tail(queue)
           /\ returned' = IF queue = <<>> THEN NoTask ELSE Head(queue)

Cancel(t) == /\ queue' = Cancelled(queue, t)
             /\ returned' = IF Contains(queue, t) THEN t ELSE NoTask

CancelBySession(s) ==
    LET i == SessionIndex(queue, s)
    IN  /\ queue' = IF i = 0 THEN queue ELSE RemoveAt(queue, i)
        /\ returned' = IF i = 0 THEN NoTask ELSE queue[i]

Next == \/ \E t \in Tasks : Enqueue(t) \/ Cancel(t)
        \/ Dequeue
        \/ \E t \in Tasks : CancelBySession(SessionOf[t])

Spec == Init /\ [][Next]_vars
-----------------------------------------------------------------------------
\* The lanes hidden in the one array, which must lie one behind the other: that of
\* priority p begins behind everything more urgent.
Ahead(q, p) == Cardinality({i \in 1..Len(q) : PriorityOf[q[i]] < p})
Lane(q, p) == SubSeq(q, Ahead(q, p) + 1, Ahead(q, p + 1))

Lanes == INSTANCE PriorityLanes WITH lanes <- [p \in Priorities |-> Lane(queue, p)]

\* Every dequeue meets the most urgent waiting task first.
QueueSorted == Sorted(queue)

\* The array with its insertion loop implements three FIFO lanes served by
\* priority, for every method of the queue, the two cancels included.
ImplementsLanes == Lanes!Spec
=============================================================================
