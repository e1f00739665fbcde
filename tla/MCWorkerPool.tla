----------------------------- MODULE MCWorkerPool -----------------------------
(***************************************************************************)
(* Instances of WorkerPool for TLC.                                        *)
(***************************************************************************)
EXTENDS WorkerPool, TLC

PoolSymmetry == Permutations(Projects) \cup Permutations(Children)
=============================================================================
