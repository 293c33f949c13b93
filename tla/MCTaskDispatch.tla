--------------------------- MODULE MCTaskDispatch ---------------------------
(* Small instances of TaskDispatch for TLC.                                  *)
EXTENDS TaskDispatch

CONSTANTS t1, t2, t3, p1, p2, s1, c1, c2

\* A batch task and a session's task share the profile p1.
MCProfileOf  == [t \in Tasks |-> IF t = t3 THEN p2 ELSE p1]
MCOneProfile == [t \in Tasks |-> p1]
MCPriorityOf == [t \in Tasks |-> IF t = t1 THEN 1 ELSE 0]
MCSessionOf  == [t \in Tasks |-> IF t = t2 THEN s1 ELSE NoSession]
=============================================================================
