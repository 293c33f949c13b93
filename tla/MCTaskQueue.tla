----------------------------- MODULE MCTaskQueue ----------------------------
(* A small queue for TLC: two normal tasks so that FIFO shows, one of each   *)
(* other priority, two sessions.                                             *)
EXTENDS TaskQueue

CONSTANTS h1, n1, n2, l1, s1, s2

MCPriorityOf == (h1 :> 0) @@ (n1 :> 1) @@ (n2 :> 1) @@ (l1 :> 2)
MCSessionOf  == (h1 :> s2) @@ (n1 :> s1) @@ (n2 :> s2) @@ (l1 :> s1)
=============================================================================
