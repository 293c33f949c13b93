----------------------- MODULE MCSessionContainers --------------------------
(* Small instances of SessionContainers for TLC.                            *)
EXTENDS SessionContainers, TLC

SessionSymmetry == Permutations(Containers) \cup Permutations(Objects)
\* Objects nothing refers to are forgotten.
SessionView == <<map, [o \in Objects \ FreshObjects |-> obj[o]], row, docker, aged,
                 actorVars, orphanVars, boundVars>>
=============================================================================
