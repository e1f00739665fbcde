----------------------------- MODULE QueueMutex -----------------------------
(***************************************************************************)
(* The mutex queue.lock that makes a queue transaction atomic              *)
(* (withQueueExclusiveSync in scripts/daemon/lib/queue-store.js), one file *)
(* access per step.  A process polls the lock file, removes it when it is  *)
(* stale, creates it exclusively, writes its pid into it, reloads          *)
(* queue.json, saves it, and removes the lock file.  The daemon, its CLI   *)
(* commands and a second daemon are such processes; any of them may be     *)
(* killed.                                                                 *)
(*                                                                         *)
(* The queue is the set of the transactions whose effect it holds.  Time   *)
(* is left out: the deadline may pass at any turn of the loop.             *)
(***************************************************************************)
EXTENDS Integers, FiniteSets

CONSTANTS
  Procs,  \* processes (pids)
  None,   \* no file, no readable pid
  MaxTx   \* bound on the transactions a process tries

(* What the lock file holds: who created it, and whether its pid is in it. *)
LockFiles == [owner : Procs, body : BOOLEAN]

ASSUME MutexAssumption == None \notin Procs \cup LockFiles /\ MaxTx \in Nat

VARIABLES
  pc,         \* [Procs -> Place]
  file,       \* LockFiles \cup {None}, queue.lock
  payload,    \* [Procs -> Procs \cup {None}], the pid read at this turn of the loop
  tx,         \* [Procs -> Nat], the transactions tried
  queue,      \* queue.json
  local,      \* [Procs -> SUBSET Transactions], the queue loaded by the mutator
  committed,  \* the transactions whose save returned
  stolen      \* a lock was removed by a process that had not read its pid

mutexVars == <<pc, file, payload, tx, queue, local, committed, stolen>>

Polling == {"read", "check", "remove", "create"}
Inside == {"write", "load", "save", "release"}
Place == {"out", "dead"} \cup Polling \cup Inside

Transactions == Procs \X Nat

Alive(p) == pc[p] # "dead"

Init ==
  /\ pc = [p \in Procs |-> "out"]
  /\ file = None
  /\ payload = [p \in Procs |-> None]
  /\ tx = [p \in Procs |-> 0]
  /\ queue = {}
  /\ local = [p \in Procs |-> {}]
  /\ committed = {}
  /\ stolen = FALSE

Goto(p, place) == pc' = [pc EXCEPT ![p] = place]

-----------------------------------------------------------------------------
\* Mutated forms of IsStale: an old lock is stale although its process lives;
\* a lock is stale only when its pid cannot be read.
IsStale_ByAge(q) == TRUE
IsStale_Unreadable(q) == q = None

(* queueLockIsStale: no pid could be read (no file, an empty file), or the *)
(* process is dead.  The age of the lock decides nothing more.             *)
IsStale(q) == q = None \/ ~Alive(q)

Begin(p) ==
  /\ pc[p] = "out" /\ tx[p] < MaxTx
  /\ tx' = [tx EXCEPT ![p] = @ + 1]
  /\ Goto(p, "read")
  /\ UNCHANGED <<file, payload, queue, local, committed, stolen>>

(* queue_lock_timeout                                                      *)
GiveUp(p) ==
  /\ pc[p] = "read"
  /\ Goto(p, "out")
  /\ UNCHANGED <<file, payload, tx, queue, local, committed, stolen>>

\* Mutated form: what an empty file holds is taken for a pid.
ReadLock_Blindly(p) ==
  /\ pc[p] = "read"
  /\ payload' = [payload EXCEPT ![p] = IF file # None THEN file.body ELSE None]
  /\ Goto(p, "check")
  /\ UNCHANGED <<file, tx, queue, local, committed, stolen>>

ReadLock(p) ==
  /\ pc[p] = "read"
  /\ payload' = [payload EXCEPT ![p] =
                   IF file # None /\ file.body THEN file.owner ELSE None]
  /\ Goto(p, "check")
  /\ UNCHANGED <<file, tx, queue, local, committed, stolen>>

(* The file is looked at again, its pid is not.                            *)
CheckLock(p) ==
  /\ pc[p] = "check"
  /\ Goto(p, IF file # None /\ ~IsStale(payload[p]) THEN "read" ELSE "remove")
  /\ UNCHANGED <<file, payload, tx, queue, local, committed, stolen>>

RemoveStale(p) ==
  /\ pc[p] = "remove"
  /\ IF file # None /\ IsStale(payload[p])
       THEN /\ file' = None
            /\ stolen' = IF payload[p] # file.owner /\ Alive(file.owner) THEN TRUE ELSE stolen
       ELSE UNCHANGED <<file, stolen>>
  /\ Goto(p, "create")
  /\ UNCHANGED <<payload, tx, queue, local, committed>>

CreateLock(p) ==
  /\ pc[p] = "create"
  /\ IF file = None
       THEN file' = [owner |-> p, body |-> FALSE] /\ Goto(p, "write")
       ELSE Goto(p, "read") /\ UNCHANGED file
  /\ UNCHANGED <<payload, tx, queue, local, committed, stolen>>

(* The descriptor is that of the file p created, linked or not.            *)
WriteBody(p) ==
  /\ pc[p] = "write"
  /\ file' = IF file # None /\ file.owner = p THEN [file EXCEPT !.body = TRUE] ELSE file
  /\ Goto(p, "load")
  /\ UNCHANGED <<payload, tx, queue, local, committed, stolen>>

\* Mutated form: the mutator works on the queue its caller loaded earlier.
LoadQueue_CallerSnapshot(p) ==
  /\ pc[p] = "load"
  /\ Goto(p, "save")
  /\ UNCHANGED <<file, payload, tx, queue, local, committed, stolen>>

LoadQueue(p) ==
  /\ pc[p] = "load"
  /\ local' = [local EXCEPT ![p] = queue]
  /\ Goto(p, "save")
  /\ UNCHANGED <<file, payload, tx, queue, committed, stolen>>

(* The new file is renamed into place.                                     *)
SaveQueue(p) ==
  /\ pc[p] = "save"
  /\ queue' = local[p] \cup {<<p, tx[p]>>}
  /\ committed' = committed \cup {<<p, tx[p]>>}
  /\ Goto(p, "release")
  /\ UNCHANGED <<file, payload, tx, local, stolen>>

(* releaseQueueLock removes the file, whoever created it.                  *)
ReleaseLock(p) ==
  /\ pc[p] = "release"
  /\ file' = None
  /\ Goto(p, "out")
  /\ UNCHANGED <<payload, tx, queue, local, committed, stolen>>

Crash(p) ==
  /\ Alive(p)
  /\ Goto(p, "dead")
  /\ UNCHANGED <<file, payload, tx, queue, local, committed, stolen>>

Transact(p) ==
  \/ ReadLock(p) \/ CheckLock(p) \/ RemoveStale(p) \/ CreateLock(p)
  \/ WriteBody(p) \/ LoadQueue(p) \/ SaveQueue(p) \/ ReleaseLock(p)

Next == \E p \in Procs : Begin(p) \/ GiveUp(p) \/ Transact(p) \/ Crash(p)

Spec == Init /\ [][Next]_mutexVars

(* A process that is not killed goes on; the deadline is not relied upon.  *)
FairSpec == Spec /\ \A p \in Procs : WF_mutexVars(Transact(p))

-----------------------------------------------------------------------------
TypeOK ==
  /\ pc \in [Procs -> Place]
  /\ file \in LockFiles \cup {None}
  /\ payload \in [Procs -> Procs \cup {None}]
  /\ tx \in [Procs -> Nat]
  /\ queue \in SUBSET Transactions
  /\ local \in [Procs -> SUBSET Transactions]
  /\ committed \in SUBSET Transactions
  /\ stolen \in BOOLEAN

(* "Execucao exclusiva curta contra queue.json" (queue-store.js:300): at   *)
(* most one process is between the creation and the removal of the lock.   *)
Exclusive == \A p, q \in Procs : pc[p] \in Inside /\ pc[q] \in Inside => p = q

(* What the lock does guarantee: the exclusion fails only after a process  *)
(* removed the lock of a live one that was created, or got its pid, after  *)
(* the remover had read the file.  Crashes anywhere, the recovery of dead  *)
(* locks and the unconditional removal on release do not break it.         *)
ExclusiveUnlessStolen == ~stolen => Exclusive

(* As long as no lock is stolen, no committed transaction is overwritten   *)
(* by the save of a process that had loaded the queue before it.           *)
UpdatesSurviveUnlessStolen == ~stolen => committed \subseteq queue

(* A lock file left by a killed process does not stop the others for ever: *)
(* while processes poll, one of them gets in, or all of them give up.      *)
AnyIn(S) == \E p \in Procs : pc[p] \in S
DeadLockIsRecovered == AnyIn(Polling) ~> AnyIn(Inside) \/ ~AnyIn(Polling)

=============================================================================
