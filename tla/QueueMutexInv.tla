---------------------------- MODULE QueueMutexInv ----------------------------
(***************************************************************************)
(* Why the queue mutex excludes as long as no lock is stolen: whoever is   *)
(* inside owns the lock file, and has loaded the current queue.            *)
(***************************************************************************)
EXTENDS QueueMutex

(* Whoever is inside owns the lock file.                                   *)
InsiderOwnsFile ==
  ~stolen => \A p \in Procs : pc[p] \in Inside => file # None /\ file.owner = p

(* The queue is the one the mutator loaded until it saves its own.         *)
LoadedIsCurrent ==
  ~stolen => \A p \in Procs : pc[p] = "save" => local[p] = queue

InductiveInvariant ==
  TypeOK /\ InsiderOwnsFile /\ LoadedIsCurrent /\ UpdatesSurviveUnlessStolen

=============================================================================
