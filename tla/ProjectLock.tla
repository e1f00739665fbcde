---------------------------- MODULE ProjectLock ----------------------------
(***************************************************************************)
(* The lock file of one project (scripts/daemon/lib/project-lock.js), one  *)
(* file access per step.  Daemons take it for a job, `setup-boss run' for  *)
(* itself (runWithProjectLock); start-up and `doctor --fix-safe' sweep     *)
(* stale locks.  Nothing but the file coordinates these processes.  The    *)
(* file is renamed into place, so a reader sees a whole lock or none.      *)
(*                                                                         *)
(* Module Daemon takes one lock call as one step; this module takes the    *)
(* calls apart.                                                            *)
(***************************************************************************)
EXTENDS FiniteSets

CONSTANTS
  Procs,  \* processes (pids), each working on one job at a time
  None    \* no lock file

ASSUME LockAssumption == None \notin Procs

VARIABLES
  pc,     \* [Procs -> Place]
  file,   \* Procs \cup {None}, the pid in the lock file
  seen,   \* [Procs -> Procs \cup {None}], what the running call has read
  raced   \* a live holder's lock was replaced or removed on an older reading

lockVars == <<pc, file, seen, raced>>

Holding == {"inside", "refresh", "unlink"}
Place == {"out", "dead", "decide", "write", "sweep"} \cup Holding

Alive(p) == pc[p] # "dead"

Init ==
  /\ pc = [p \in Procs |-> "out"]
  /\ file = None
  /\ seen = [p \in Procs |-> None]
  /\ raced = FALSE

Goto(p, place) == pc' = [pc EXCEPT ![p] = place]

\* Mutated form: the lock is looked for, not read.
Read_Exists(p) == seen' = [seen EXCEPT ![p] = file # None]

Read(p) == seen' = [seen EXCEPT ![p] = file]

(* p puts `content' in place of a lock that it may not have read.          *)
Replace(p, content) ==
  /\ file' = content
  /\ raced' = IF file # None /\ file # p /\ Alive(file) /\ file # seen[p] THEN TRUE ELSE raced

-----------------------------------------------------------------------------
\* Mutated forms of IsStale: every lock is; only a missing one is.
IsStale_Always(q) == TRUE
IsStale_Missing(q) == q = None

(* lockIsStale, and the absence of a lock.                                 *)
IsStale(q) == q # None => ~Alive(q)

(* tryAcquireProjectLock: read, decide, write.                             *)
AcquireRead(p) ==
  /\ pc[p] = "out"
  /\ Read(p)
  /\ Goto(p, "decide")
  /\ UNCHANGED <<file, raced>>

AcquireDecide(p) ==
  /\ pc[p] = "decide"
  /\ Goto(p, IF IsStale(seen[p]) THEN "write" ELSE "out")
  /\ UNCHANGED <<file, seen, raced>>

AcquireWrite(p) ==
  /\ pc[p] = "write"
  /\ Replace(p, p)
  /\ Goto(p, "inside")
  /\ UNCHANGED seen

(* heartbeatProjectLock is the same call; a refusal goes unnoticed.        *)
HeartbeatRead(p) ==
  /\ pc[p] = "inside"
  /\ file = p \/ IsStale(file)
  /\ Read(p)
  /\ Goto(p, "refresh")
  /\ UNCHANGED <<file, raced>>

HeartbeatWrite(p) ==
  /\ pc[p] = "refresh"
  /\ Replace(p, p)
  /\ Goto(p, "inside")
  /\ UNCHANGED seen

\* Mutated form: the lock is left to its heartbeat.
ReleaseRead_Keep(p) ==
  /\ pc[p] = "inside"
  /\ Read(p)
  /\ Goto(p, "out")
  /\ UNCHANGED <<file, raced>>

(* releaseProjectLock: the lock of somebody else is left alone.            *)
ReleaseRead(p) ==
  /\ pc[p] = "inside"
  /\ Read(p)
  /\ Goto(p, IF file = p THEN "unlink" ELSE "out")
  /\ UNCHANGED <<file, raced>>

ReleaseUnlink(p) ==
  /\ pc[p] = "unlink"
  /\ Replace(p, None)
  /\ Goto(p, "out")
  /\ UNCHANGED seen

(* recoverStaleLocksOnDisk: read, and unlink what is stale.                *)
SweepRead(p) ==
  /\ pc[p] = "out"
  /\ file # None
  /\ Read(p)
  /\ Goto(p, "sweep")
  /\ UNCHANGED <<file, raced>>

SweepUnlink(p) ==
  /\ pc[p] = "sweep"
  /\ IF IsStale(seen[p]) THEN Replace(p, None) ELSE UNCHANGED <<file, raced>>
  /\ Goto(p, "out")
  /\ UNCHANGED seen

Crash(p) ==
  /\ Alive(p)
  /\ Goto(p, "dead")
  /\ UNCHANGED <<file, seen, raced>>

Acquire(p) == AcquireRead(p) \/ AcquireDecide(p) \/ AcquireWrite(p)
Heartbeat(p) == HeartbeatRead(p) \/ HeartbeatWrite(p)
Release(p) == ReleaseRead(p) \/ ReleaseUnlink(p)
Sweep(p) == SweepRead(p) \/ SweepUnlink(p)

Next == \E p \in Procs : Acquire(p) \/ Heartbeat(p) \/ Release(p) \/ Sweep(p) \/ Crash(p)

Spec == Init /\ [][Next]_lockVars

(* A call that has begun returns; the daemon tries again at every tick; a  *)
(* sweep or a run that holds the lock owes nothing.                        *)
FairSpec ==
  /\ Spec
  /\ \A p \in Procs :
       /\ WF_lockVars(AcquireDecide(p) \/ AcquireWrite(p) \/ HeartbeatWrite(p))
       /\ WF_lockVars(ReleaseUnlink(p) \/ SweepUnlink(p))
       /\ SF_lockVars(AcquireRead(p))

-----------------------------------------------------------------------------
TypeOK ==
  /\ pc \in [Procs -> Place]
  /\ file \in Procs \cup {None}
  /\ seen \in [Procs -> Procs \cup {None}]
  /\ raced \in BOOLEAN

(* "Tenta criar/obter exclusividade no projeto" (project-lock.js:55): at   *)
(* most one process works on the project.                                  *)
Exclusive == \A p, q \in Procs : pc[p] \in Holding /\ pc[q] \in Holding => p = q

(* What the lock does guarantee: exclusion is lost only after a process    *)
(* replaced or removed the lock of a live holder that it had not read, the *)
(* holder having come between its reading and its writing.                 *)
ExclusiveUnlessRaced == ~raced => Exclusive

(* No process that has let go of the project leaves its lock behind, not   *)
(* even after such a race: only a crash leaves a lock without a holder.    *)
NoLockLeaks == file # None /\ Alive(file) => pc[file] \in Holding

(* The lock of a killed holder does not keep the project for ever: as long *)
(* as some process is there, one of them gets to work on the project.      *)
DeadLockIsTakenOver ==
  file # None /\ ~Alive(file) ~>
    \/ \A p \in Procs : ~Alive(p)
    \/ \E p \in Procs : pc[p] \in Holding

=============================================================================
