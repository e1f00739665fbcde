---------------------------- MODULE MCQueueMutex ----------------------------
(***************************************************************************)
(* Instances of QueueMutex for TLC.                                        *)
(***************************************************************************)
EXTENDS QueueMutexInv, TLC

ProcSymmetry == Permutations(Procs)
=============================================================================
