-------------------------- MODULE MCContainerPool ---------------------------
(* Small instances of ContainerPool for TLC.                                *)
EXTENDS ContainerPool, TLC

PoolSymmetry == Permutations(Containers) \cup Permutations(Users)
=============================================================================
