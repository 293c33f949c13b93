--------------------------- MODULE PriorityLanes ----------------------------
(***************************************************************************)
(* What the task queue promises its users: one first-in-first-out lane per *)
(* priority, served in the order high, normal, low.  There is no shared    *)
(* sequence and no insertion position here.                                *)
(***************************************************************************)
EXTENDS Naturals, Sequences, SequencesExt

CONSTANTS Tasks, PriorityOf, SessionOf, NoTask

VARIABLES lanes,     \* lanes[p]: the waiting tasks of priority p, oldest first
          returned   \* what the last call answered, NoTask for "nothing"

vars == <<lanes, returned>>

Init == /\ lanes = [p \in 0..2 |-> <<>>]
        /\ returned = NoTask

\* A lane that every more urgent lane lets through.
Served(p) == /\ lanes[p] # <<>>
             /\ \A m \in 0..(p - 1) : lanes[m] = <<>>

Enqueue(t) == /\ lanes' = [lanes EXCEPT ![PriorityOf[t]] = Append(@, t)]
              /\ returned' = NoTask

Dequeue == \/ \E p \in 0..2 : /\ Served(p)
                              /\ returned' = Head(lanes[p])
                              /\ lanes' = [lanes EXCEPT ![p] = Tail(@)]
           \/ /\ \A p \in 0..2 : lanes[p] = <<>>
              /\ returned' = NoTask
              /\ UNCHANGED lanes

\* Withdraws one waiting entry of t.
Cancel(t) ==
    \/ /\ Contains(lanes[PriorityOf[t]], t)
       /\ lanes' = [lanes EXCEPT ![PriorityOf[t]] = RemoveFirst(@, t)]
       /\ returned' = t
    \/ /\ ~Contains(lanes[PriorityOf[t]], t)
       /\ returned' = NoTask
       /\ UNCHANGED lanes

\* Withdraws the session's most urgent task, the oldest of them.
CancelBySession(s) ==
    LET first(p) == SelectInSeq(lanes[p], LAMBDA t : SessionOf[t] = s)
    IN  \/ \E p \in 0..2 :
              /\ first(p) # 0
              /\ \A m \in 0..(p - 1) : first(m) = 0
              /\ returned' = lanes[p][first(p)]
              /\ lanes' = [lanes EXCEPT ![p] = RemoveAt(@, first(p))]
        \/ /\ \A p \in 0..2 : first(p) = 0
           /\ returned' = NoTask
           /\ UNCHANGED lanes

Next == \/ \E t \in Tasks : Enqueue(t) \/ Cancel(t)
        \/ Dequeue
        \/ \E t \in Tasks : CancelBySession(SessionOf[t])

Spec == Init /\ [][Next]_vars
=============================================================================
