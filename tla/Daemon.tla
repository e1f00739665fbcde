------------------------------- MODULE Daemon -------------------------------
(***************************************************************************)
(* The job daemon (scripts/daemon/setup-bossd.js) at work: its start-up    *)
(* recovery, the claim loop, the worker slots with their child processes   *)
(* (scripts/run.js), the end of an execution, cancellation through the     *)
(* Runtime API, shutdown, and what other processes (the CLI, an operator,  *)
(* another daemon) do to the shared files meanwhile.                       *)
(*                                                                         *)
(* A daemon runs on one JavaScript thread: a callback runs to completion   *)
(* before the next one, so `step' is "idle" between callbacks and names    *)
(* the place reached inside one otherwise.  Another process may act        *)
(* between any two steps: a step is one transaction on the queue, one call *)
(* on a project lock or one access to the pid file.  Modules QueueMutex    *)
(* and ProjectLock take the first two apart.                               *)
(***************************************************************************)
EXTENDS QueueStore, FiniteSets

CONSTANTS
  Projects,       \* project roots
  ProjectOf,      \* [Jobs -> Projects], the projectRoot of a job
  Daemons,        \* daemon processes (pids); bounds the number of starts
  MaxWorkers,     \* SETUP_BOSS_MAX_WORKERS
  MaxPerProject,  \* SETUP_BOSS_MAX_WORKERS_PER_PROJECT
  Faults          \* the kinds of fault the environment may produce

(* "crash": a daemon is killed.  "timeout": a queue transaction throws     *)
(* queue_lock_timeout.  "signal": the child cannot be signalled.           *)
(* "overlap": a daemon starts while another one is alive.                  *)
FaultKinds == {"crash", "timeout", "signal", "overlap"}

(* An execution of a job, told apart by its attempt number; what the file  *)
(* of a project lock holds.                                                *)
Runs == [job : Jobs, att : Nat]
Holders == [pid : Daemons, job : Jobs]

ASSUME DaemonAssumption ==
  /\ ProjectOf \in [Jobs -> Projects]
  /\ MaxWorkers \in Nat \ {0}
  /\ MaxPerProject \in Nat \ {0}
  /\ None \notin Daemons \cup Holders
  /\ Faults \subseteq FaultKinds

VARIABLES
  mode,     \* [Daemons -> Mode], the life of each daemon process
  step,     \* [Daemons -> Step], where its running callback stands
  snap,     \* [Daemons -> SUBSET Jobs], candidates of the current claim
  focus,    \* [Daemons -> Runs \cup {None}], what that callback works on
  pool,     \* [Daemons -> SUBSET Runs], the runs that occupy a worker slot
  lock,     \* [Projects -> Holders \cup {None}], <hash>.lock files
  alive,    \* SUBSET Runs, the child processes that exist
  pidFile,  \* Daemons \cup {None}, the file .setup-boss/daemon/pid
  stopCmd   \* Daemons \cup {None}, the target of a running `daemon stop'

daemonVars == <<mode, step, snap, focus, pool, lock, alive, pidFile, stopCmd>>
vars == <<queueVars, daemonVars>>

Booting == {"locks", "jobs", "pid"}
Mode == {"off", "dead", "up", "closing"} \cup Booting
Step == {"idle", "claiming", "locked", "claimed", "requeue", "release", "exception"}

Live(d) == mode[d] \notin {"off", "dead"}
Serving(d) == mode[d] \in {"up", "closing"}
Free(d) == Serving(d) /\ step[d] = "idle"

Init ==
  /\ QueueInit
  /\ mode = [d \in Daemons |-> "off"]
  /\ step = [d \in Daemons |-> "idle"]
  /\ snap = [d \in Daemons |-> {}]
  /\ focus = [d \in Daemons |-> None]
  /\ pool = [d \in Daemons |-> {}]
  /\ lock = [p \in Projects |-> None]
  /\ alive = {}
  /\ pidFile = None
  /\ stopCmd = None

-----------------------------------------------------------------------------
(* Project locks (project-lock.js): a lock is stale when the pid in it is  *)
(* dead, and is refreshed by the same pid working on the same job.         *)

LockHeld(p) == lock[p] # None /\ Live(lock[p].pid)

\* Mutated form: the holder's pid alone is compared.
CanAcquire_SamePid(p, d, j) == LockHeld(p) => lock[p].pid = d

CanAcquire(p, d, j) == ~LockHeld(p) \/ lock[p] = [pid |-> d, job |-> j]

(* releaseProjectLock: only a lock of this pid and this job is removed.    *)
Released(p, d, j) ==
  IF lock[p] = [pid |-> d, job |-> j] THEN [lock EXCEPT ![p] = None] ELSE lock

WithoutStaleLocks == [p \in Projects |-> IF LockHeld(p) THEN lock[p] ELSE None]

-----------------------------------------------------------------------------
(* Start-up: the duplicate check, the two recoveries, then the pid file.   *)

DaemonRegistered == pidFile # None /\ Live(pidFile)

BootCheck(d) ==
  /\ mode[d] = "off"
  /\ ~DaemonRegistered
  /\ "overlap" \in Faults \/ \A e \in Daemons : ~Live(e)
  /\ mode' = [mode EXCEPT ![d] = "locks"]
  /\ UNCHANGED <<queueVars, step, snap, focus, pool, lock, alive, pidFile, stopCmd>>

BootAbort(d) ==
  /\ mode[d] = "off"
  /\ DaemonRegistered
  /\ mode' = [mode EXCEPT ![d] = "dead"]
  /\ UNCHANGED <<queueVars, step, snap, focus, pool, lock, alive, pidFile, stopCmd>>

RecoverStaleLocks(d) ==
  /\ mode[d] = "locks"
  /\ lock' = WithoutStaleLocks
  /\ mode' = [mode EXCEPT ![d] = "jobs"]
  /\ UNCHANGED <<queueVars, step, snap, focus, pool, alive, pidFile, stopCmd>>

RecoverOrphanRunningJobs(d) ==
  /\ mode[d] = "jobs"
  /\ RecoverOrphans
  /\ mode' = [mode EXCEPT ![d] = "pid"]
  /\ UNCHANGED <<step, snap, focus, pool, lock, alive, pidFile, stopCmd>>

WritePid(d) ==
  /\ mode[d] = "pid"
  /\ pidFile' = d
  /\ mode' = [mode EXCEPT ![d] = "up"]
  /\ UNCHANGED <<queueVars, step, snap, focus, pool, lock, alive, stopCmd>>

-----------------------------------------------------------------------------
(* The claim loop of tick.  The candidates are read outside the mutex;     *)
(* then each project's candidate is tried until one is claimed.            *)

\* Mutated form: the snapshot keeps every unfinished job.
Claimable_AnyActive == {j \in Jobs : status[j] \in Active \cup {"pending"} /\ available[j]}

Claimable == {j \in Jobs : status[j] = "pending" /\ available[j]}

SameProject(j, k) == ProjectOf[j] = ProjectOf[k]
ProjectBusy(d, j) == Cardinality({r \in pool[d] : SameProject(r.job, j)})

ClaimSnapshot(d) ==
  /\ Free(d) /\ mode[d] = "up"
  /\ Cardinality(pool[d]) < MaxWorkers
  /\ Claimable # {}
  /\ snap' = [snap EXCEPT ![d] = Claimable]
  /\ step' = [step EXCEPT ![d] = "claiming"]
  /\ UNCHANGED <<queueVars, mode, focus, pool, lock, alive, pidFile, stopCmd>>

(* The claim's finally: of the locks it took, those whose job is not       *)
(* running are given back.  It took the lock of the job it claimed and of  *)
(* every candidate that had left the file, which no slot works on.         *)
TakenByClaim(d, j) ==
  \/ step[d] = "claimed" /\ focus[d].job = j
  \/ \A run \in pool[d] : run.job # j

LocksAfterClaim(d) ==
  [p \in Projects |->
     IF /\ lock[p] # None /\ lock[p].pid = d
        /\ TakenByClaim(d, lock[p].job) /\ status[lock[p].job] # "running"
       THEN None ELSE lock[p]]

(* Go on with the other projects: one candidate per project is tried, and  *)
(* the claim ends without a job after the last one.                        *)
NextCandidate(d, j) ==
  LET rest == {k \in snap[d] : ~SameProject(j, k)}
  IN  /\ snap' = [snap EXCEPT ![d] = rest]
      /\ IF rest = {}
           THEN step' = [step EXCEPT ![d] = "idle"] /\ lock' = LocksAfterClaim(d)
           ELSE step' = [step EXCEPT ![d] = "claiming"] /\ lock' = lock

SkipCandidate(d, j) ==
  /\ step[d] = "claiming" /\ j \in snap[d]
  /\ ProjectBusy(d, j) >= MaxPerProject \/ ~CanAcquire(ProjectOf[j], d, j)
  /\ NextCandidate(d, j)
  /\ UNCHANGED <<queueVars, mode, focus, pool, alive, pidFile, stopCmd>>

LockCandidate(d, j) ==
  /\ step[d] = "claiming" /\ j \in snap[d]
  /\ ProjectBusy(d, j) < MaxPerProject
  /\ CanAcquire(ProjectOf[j], d, j)
  /\ lock' = [lock EXCEPT ![ProjectOf[j]] = [pid |-> d, job |-> j]]
  /\ focus' = [focus EXCEPT ![d] = [job |-> j, att |-> attempts[j] + 1]]
  /\ step' = [step EXCEPT ![d] = "locked"]
  /\ UNCHANGED <<queueVars, mode, snap, pool, alive, pidFile, stopCmd>>

(* The transaction of the claim does not look at the status again.         *)
ClaimCommit(d) ==
  LET j == focus[d].job
      run == [job |-> j, att |-> attempts[j] + 1]
  IN  /\ step[d] = "locked"
      /\ InFile(j)
      /\ MarkRunning(j)
      /\ pool' = [pool EXCEPT ![d] = @ \cup {run}]
      /\ focus' = [focus EXCEPT ![d] = run]
      /\ snap' = [snap EXCEPT ![d] = {}]
      /\ step' = [step EXCEPT ![d] = "claimed"]
      /\ UNCHANGED <<mode, lock, alive, pidFile, stopCmd>>

(* The job left the file: its lock is given back when the claim ends.      *)
ClaimVanished(d) ==
  LET j == focus[d].job
  IN  /\ step[d] = "locked"
      /\ ~InFile(j)
      /\ NextCandidate(d, j)
      /\ focus' = [focus EXCEPT ![d] = None]
      /\ UNCHANGED <<queueVars, mode, pool, alive, pidFile, stopCmd>>

-----------------------------------------------------------------------------
(* The execution of a claimed job.  Claim, spawn and the record of the     *)
(* child's pid run in one callback; the end of the child is another one.   *)

Goto(d, s, run) ==
  /\ step' = [step EXCEPT ![d] = s]
  /\ focus' = [focus EXCEPT ![d] = run]

(* A cancellation was requested, as runJobChild and the end of the         *)
(* lifecycle read it from the file.                                        *)
CancelTone(j) == InFile(j) /\ (cancelRequested[j] \/ status[j] = "cancelling")

(* A child that cannot be started is one that ends at once, in failure.    *)
Spawn(d) ==
  LET run == focus[d]
  IN  /\ step[d] = "claimed"
      /\ ~CancelTone(run.job)
      /\ lock' = LocksAfterClaim(d)
      /\ alive' = alive \cup {run}
      /\ Goto(d, "idle", None)
      /\ UNCHANGED <<queueVars, mode, snap, pool, pidFile, stopCmd>>

(* A cancellation seen before the spawn ends the execution there.          *)
SpawnAborted(d) ==
  LET run == focus[d]
  IN  /\ step[d] = "claimed"
      /\ CancelTone(run.job)
      /\ lock' = LocksAfterClaim(d)
      /\ UpdateJob(run.job, "cancelled", FALSE)
      /\ Goto(d, "release", run)
      /\ UNCHANGED <<mode, snap, pool, alive, pidFile, stopCmd>>

(* The process of a run ends: on its own, on SIGTERM, or on a broken pipe  *)
(* when its daemon is gone.                                                *)
ChildExit(run) ==
  /\ run \in alive
  /\ alive' = alive \ {run}
  /\ UNCHANGED <<queueVars, mode, step, snap, focus, pool, lock, pidFile, stopCmd>>

\* Mutated form: the execution is settled while its child still runs.
Ended_Early(d, run) == Free(d) /\ run \in pool[d]

(* The daemon handles the close event of a run of its pool.                *)
Ended(d, run) == Free(d) /\ run \in pool[d] /\ run \notin alive

FinishCancelled(d, run) ==
  /\ Ended(d, run)
  /\ CancelTone(run.job)
  /\ UpdateJob(run.job, "cancelled", FALSE)
  /\ Goto(d, "release", run)
  /\ UNCHANGED <<mode, snap, pool, lock, alive, pidFile, stopCmd>>

\* Mutated form: a completed recurring job is released like any other.
FinishCompleted_NoRequeue(d, run) ==
  /\ Ended(d, run)
  /\ ~CancelTone(run.job)
  /\ UpdateJob(run.job, "completed", cancelRequested[run.job])
  /\ Goto(d, "release", run)
  /\ UNCHANGED <<mode, snap, pool, lock, alive, pidFile, stopCmd>>

FinishCompleted(d, run) ==
  /\ Ended(d, run)
  /\ ~CancelTone(run.job)
  /\ UpdateJob(run.job, "completed", cancelRequested[run.job])
  /\ Goto(d, IF run.job \in Recurring /\ InFile(run.job) THEN "requeue" ELSE "release", run)
  /\ UNCHANGED <<mode, snap, pool, lock, alive, pidFile, stopCmd>>

FinishFailed(d, run) ==
  /\ Ended(d, run)
  /\ ~CancelTone(run.job)
  /\ UpdateJob(run.job, "failed", cancelRequested[run.job])
  /\ Goto(d, "release", run)
  /\ UNCHANGED <<mode, snap, pool, lock, alive, pidFile, stopCmd>>

(* The identifiers a successor can still take: Jobs bounds them.           *)
FreshSuccessors(j) == {k \in Recurring : status[k] = "absent" /\ SameProject(j, k)}

(* A completed recurring job is enqueued again, one interval later.        *)
RequeueRecurring(d) ==
  /\ step[d] = "requeue"
  /\ InFile(focus[d].job)
  /\ \E k \in FreshSuccessors(focus[d].job) : EnqueueJob(k, FALSE, focus[d].job)
  /\ Goto(d, "release", focus[d])
  /\ UNCHANGED <<mode, snap, pool, lock, alive, pidFile, stopCmd>>

(* No successor: the record is gone, the transaction timed out (the        *)
(* exception is swallowed), or the model has no identifier left.           *)
RequeueSkipped(d) ==
  /\ step[d] = "requeue"
  /\ \/ ~InFile(focus[d].job)
     \/ "timeout" \in Faults
     \/ FreshSuccessors(focus[d].job) = {}
  /\ Goto(d, "release", focus[d])
  /\ UNCHANGED <<queueVars, mode, snap, pool, lock, alive, pidFile, stopCmd>>

\* Mutated form: the slot is not given back.
ReleaseWorker_KeepSlot(d) ==
  /\ step[d] = "release"
  /\ lock' = Released(ProjectOf[focus[d].job], d, focus[d].job)
  /\ Goto(d, "idle", None)
  /\ UNCHANGED <<queueVars, mode, snap, pool, alive, pidFile, stopCmd>>

(* The finally of executeJobLifecycle: lock, then slot.                    *)
ReleaseWorker(d) ==
  /\ step[d] = "release"
  /\ lock' = Released(ProjectOf[focus[d].job], d, focus[d].job)
  /\ pool' = [pool EXCEPT ![d] = @ \ {focus[d]}]
  /\ Goto(d, "idle", None)
  /\ UNCHANGED <<queueVars, mode, snap, alive, pidFile, stopCmd>>

(* heartbeatProjectLock: the holder's lock is refreshed, or taken again.   *)
LockHeartbeat(d, run) ==
  /\ Free(d) /\ run \in pool[d]
  /\ CanAcquire(ProjectOf[run.job], d, run.job)
  /\ lock' = [lock EXCEPT ![ProjectOf[run.job]] = [pid |-> d, job |-> run.job]]
  /\ UNCHANGED <<queueVars, mode, step, snap, focus, pool, alive, pidFile, stopCmd>>

-----------------------------------------------------------------------------
(* queue_lock_timeout: a transaction of the daemon throws.                 *)

(* The end of a lifecycle whose transaction threw: its finally has run,    *)
(* and the catch of runWorkerJob is next.                                  *)
LifecycleThrows(d, run) ==
  /\ "timeout" \in Faults
  /\ lock' = Released(ProjectOf[run.job], d, run.job)
  /\ pool' = [pool EXCEPT ![d] = @ \ {run}]
  /\ Goto(d, "exception", run)
  /\ UNCHANGED <<queueVars, mode, snap, pidFile, stopCmd>>

(* The record of the child's pid throws after the spawn: nobody waits for  *)
(* the child any more, and it goes on.                                     *)
SpawnTimeout(d) ==
  /\ step[d] = "claimed"
  /\ ~CancelTone(focus[d].job)
  /\ alive' = alive \cup {focus[d]}
  /\ LifecycleThrows(d, focus[d])

FinishTimeout(d, run) ==
  /\ Ended(d, run)
  /\ LifecycleThrows(d, run)
  /\ UNCHANGED alive

\* Mutated form: the exception is logged and the record left as it is.
HandleException_LogOnly(d) ==
  /\ step[d] = "exception"
  /\ Goto(d, "idle", None)
  /\ UNCHANGED <<queueVars, mode, snap, pool, lock, alive, pidFile, stopCmd>>

(* Only a job still running is declared failed.                            *)
HandleException(d) ==
  LET j == focus[d].job
  IN  /\ step[d] = "exception"
      /\ IF status[j] = "running"
           THEN UpdateJob(j, "failed", cancelRequested[j])
           ELSE UNCHANGED queueVars
      /\ Goto(d, "idle", None)
      /\ UNCHANGED <<mode, snap, pool, lock, alive, pidFile, stopCmd>>

(* The process is gone: its memory is, its files and children are not.     *)
Die(d) ==
  /\ mode' = [mode EXCEPT ![d] = "dead"]
  /\ snap' = [snap EXCEPT ![d] = {}]
  /\ pool' = [pool EXCEPT ![d] = {}]
  /\ Goto(d, "idle", None)

(* An exception that nothing catches ends the daemon: in the claim (whose  *)
(* finally gives the locks back), in the catch of runWorkerJob, or in the   *)
(* start-up recovery.                                                      *)
UncaughtTimeout(d) ==
  /\ "timeout" \in Faults
  /\ step[d] \in {"locked", "exception"} \/ mode[d] = "jobs"
  /\ lock' = IF step[d] = "locked" THEN LocksAfterClaim(d) ELSE lock
  /\ Die(d)
  /\ UNCHANGED <<queueVars, alive, pidFile, stopCmd>>

Crash(d) ==
  /\ "crash" \in Faults
  /\ Live(d)
  /\ Die(d)
  /\ UNCHANGED <<queueVars, lock, alive, pidFile, stopCmd>>

-----------------------------------------------------------------------------
(* The Runtime API of a serving daemon: POST /jobs/:id/cancel.             *)

CancelPending(d, j) ==
  /\ Free(d)
  /\ status[j] = "pending"
  /\ UpdateJob(j, "cancelled", FALSE)
  /\ UNCHANGED daemonVars

(* The job must occupy a slot of this daemon, and its child gets SIGTERM.  *)
CancelRunning(d, j) ==
  /\ Free(d)
  /\ status[j] = "running"
  /\ \E run \in pool[d] : run.job = j
  /\ UpdateJob(j, "cancelling", TRUE)
  /\ UNCHANGED daemonVars

(* The same when the child cannot be signalled.                            *)
CancelUnsignalled(d, j) ==
  /\ "signal" \in Faults
  /\ Free(d)
  /\ status[j] = "running"
  /\ \E run \in pool[d] : run.job = j
  /\ UpdateJob(j, "failed_cancel", TRUE)
  /\ UNCHANGED daemonVars

-----------------------------------------------------------------------------
(* Shutdown: on a signal the daemon claims nothing more and exits once no  *)
(* slot is busy.  `daemon stop' waits for that, kills, and then deletes    *)
(* the pid file, whoever wrote it.                                         *)

RequestShutdown(d) ==
  /\ Free(d) /\ mode[d] = "up"
  /\ mode' = [mode EXCEPT ![d] = "closing"]
  /\ UNCHANGED <<queueVars, step, snap, focus, pool, lock, alive, pidFile, stopCmd>>

FinishShutdown(d) ==
  /\ Free(d) /\ mode[d] = "closing"
  /\ pool[d] = {}
  /\ pidFile' = None
  /\ Die(d)
  /\ UNCHANGED <<queueVars, lock, alive, stopCmd>>

StopBegin(d) ==
  /\ stopCmd = None
  /\ pidFile = d /\ Live(d)
  /\ stopCmd' = d
  /\ UNCHANGED <<queueVars, mode, step, snap, focus, pool, lock, alive, pidFile>>

StopEnd(d) ==
  /\ stopCmd = d
  /\ ~Live(d)
  /\ stopCmd' = None
  /\ pidFile' = None
  /\ UNCHANGED <<queueVars, mode, step, snap, focus, pool, lock, alive>>

(* SIGKILL after eight seconds is a crash of the daemon.                   *)
StopKill(d) ==
  /\ "crash" \in Faults
  /\ stopCmd = d
  /\ Live(d)
  /\ Die(d)
  /\ UNCHANGED <<queueVars, lock, alive, pidFile, stopCmd>>

-----------------------------------------------------------------------------
(* Other processes, and time.                                              *)

(* POST /jobs and `setup-boss enqueue'.                                    *)
Enqueue(j, ready) == EnqueueJob(j, ready, None) /\ UNCHANGED daemonVars

(* POST /jobs/:id/retry and `setup-boss retry'.                            *)
Retry(j, ready) == RequestJobRetry(j, ready) /\ UNCHANGED daemonVars

(* POST /maintenance/prune, `maintenance prune' and the automatic pruning. *)
Prune(S) == S # {} /\ PruneTerminal(S) /\ UNCHANGED daemonVars

BecomeAvailable(j) ==
  /\ status[j] = "pending" /\ ~available[j]
  /\ available' = [available EXCEPT ![j] = TRUE]
  /\ UNCHANGED <<status, attempts, cancelRequested, derivedFrom, daemonVars>>

(* `doctor --fix-safe': stale locks and an orphan pid file are removed.    *)
DoctorFixSafe ==
  /\ lock' = WithoutStaleLocks
  /\ pidFile' = IF DaemonRegistered THEN pidFile ELSE None
  /\ UNCHANGED <<queueVars, mode, step, snap, focus, pool, alive, stopCmd>>

-----------------------------------------------------------------------------
Boot(d) ==
  \/ BootCheck(d) \/ BootAbort(d)
  \/ RecoverStaleLocks(d) \/ RecoverOrphanRunningJobs(d) \/ WritePid(d)

Claim(d) ==
  \/ ClaimSnapshot(d)
  \/ \E j \in Jobs : SkipCandidate(d, j) \/ LockCandidate(d, j)
  \/ ClaimCommit(d) \/ ClaimVanished(d)

Finish(d, run) == FinishCancelled(d, run) \/ FinishCompleted(d, run) \/ FinishFailed(d, run)

(* The steps a callback takes on its own once it has started.              *)
Continue(d) ==
  \/ \E j \in Jobs : SkipCandidate(d, j) \/ LockCandidate(d, j)
  \/ ClaimCommit(d) \/ ClaimVanished(d)
  \/ Spawn(d) \/ SpawnAborted(d)
  \/ RequeueRecurring(d) \/ RequeueSkipped(d)
  \/ ReleaseWorker(d) \/ HandleException(d)

Execute(d) ==
  \/ Spawn(d) \/ SpawnAborted(d)
  \/ \E run \in pool[d] : Finish(d, run) \/ LockHeartbeat(d, run)
  \/ RequeueRecurring(d) \/ RequeueSkipped(d) \/ ReleaseWorker(d)

Fail(d) ==
  \/ SpawnTimeout(d)
  \/ \E run \in pool[d] : FinishTimeout(d, run)
  \/ HandleException(d) \/ UncaughtTimeout(d) \/ Crash(d)

Cancel(d, j) == CancelPending(d, j) \/ CancelRunning(d, j) \/ CancelUnsignalled(d, j)

Stop(d) ==
  RequestShutdown(d) \/ FinishShutdown(d) \/ StopBegin(d) \/ StopEnd(d) \/ StopKill(d)

Outside ==
  \/ \E j \in Jobs, ready \in BOOLEAN : Enqueue(j, ready) \/ Retry(j, ready)
  \/ \E j \in Jobs : BecomeAvailable(j)
  \/ \E S \in SUBSET Jobs : Prune(S)
  \/ \E run \in alive : ChildExit(run)
  \/ DoctorFixSafe

Next ==
  \/ \E d \in Daemons :
       \/ Boot(d) \/ Claim(d) \/ Execute(d) \/ Fail(d) \/ Stop(d)
       \/ \E j \in Jobs : Cancel(d, j)
  \/ Outside

Spec == Init /\ [][Next]_vars

(* Fairness.  A callback that has started goes on until it returns; the    *)
(* start-up code is straight-line; the event loop serves its queue in      *)
(* order, so the close event of a child and the next tick are handled even *)
(* though other callbacks run in between (strong fairness); time passes;   *)
(* and a child process ends.  Nothing obliges anybody to start a daemon,   *)
(* to enqueue, retry, cancel, prune or stop.                               *)
Fairness ==
  /\ \A d \in Daemons :
       /\ WF_vars(Continue(d))
       /\ WF_vars(RecoverStaleLocks(d) \/ RecoverOrphanRunningJobs(d) \/ WritePid(d))
       /\ SF_vars(ClaimSnapshot(d))
       /\ SF_vars(\E run \in pool[d] : Finish(d, run))
       /\ SF_vars(FinishShutdown(d))
  /\ \A j \in Jobs : WF_vars(BecomeAvailable(j))
  /\ WF_vars(\E run \in alive : ChildExit(run))

FairSpec == Spec /\ Fairness

-----------------------------------------------------------------------------
(* Correctness.                                                            *)

(* The type of the state; attempts never fall below zero.                  *)
DaemonTypeOK ==
  /\ mode \in [Daemons -> Mode]
  /\ step \in [Daemons -> Step]
  /\ snap \in [Daemons -> SUBSET Jobs]
  /\ focus \in [Daemons -> Runs \cup {None}]
  /\ pool \in [Daemons -> SUBSET Runs]
  /\ lock \in [Projects -> Holders \cup {None}]
  /\ alive \in SUBSET Runs
  /\ pidFile \in Daemons \cup {None}
  /\ stopCmd \in Daemons \cup {None}

TypeOK == QueueTypeOK /\ DaemonTypeOK

(* While a daemon works through the candidates of a snapshot it read       *)
(* outside the mutex, each of them is still pending, due and free of a     *)
(* cancel request: the claim transaction, which checks none of it again,   *)
(* never starts a job that somebody cancelled, ran or removed meanwhile.   *)
CandidatesStayClaimable ==
  \A d \in Daemons :
    /\ step[d] \in {"claiming", "locked"} =>
         \A j \in snap[d] : j \in Claimable /\ ~cancelRequested[j]
    /\ step[d] = "locked" => focus[d].job \in snap[d]

(* A busy slot holds the lock of its project, from the claim to the        *)
(* release, whatever locks recovery, doctor and other daemons remove.      *)
SlotHoldsLock ==
  \A d \in Daemons : \A run \in pool[d] :
    lock[ProjectOf[run.job]] = [pid |-> d, job |-> run.job]

(* Two busy slots never work on one project, even with several slots       *)
(* allowed per project (worker-pool.js) and over daemon restarts.          *)
OneSlotPerProject ==
  \A d, e \in Daemons : \A r \in pool[d], q \in pool[e] :
    SameProject(r.job, q.job) => d = e /\ r = q

(* The record of a job in a slot says so: same attempt, and a status that  *)
(* the end of the execution is entitled to overwrite.  Nobody retries,     *)
(* claims again or settles a job under its worker.                         *)
Settling(d) == step[d] \in {"requeue", "release"}
SlotMatchesRecord ==
  \A d \in Daemons : \A run \in pool[d] :
    \/ Settling(d) /\ focus[d] = run
    \/ /\ status[run.job] \in Active \cup {"failed_cancel", "pruned"}
       /\ attempts[run.job] = run.att

(* A running job is never forgotten: when a serving daemon is between      *)
(* callbacks, the job occupies one of its slots with its current attempt.  *)
RunningJobHasWorker ==
  \A d \in Daemons, j \in Jobs :
    Free(d) /\ status[j] = "running" => [job |-> j, att |-> attempts[j]] \in pool[d]

(* The same for a job whose cancellation is pending: somebody is there to  *)
(* finish it.                                                              *)
CancellingJobHasWorker ==
  \A d \in Daemons, j \in Jobs :
    Free(d) /\ status[j] = "cancelling" => [job |-> j, att |-> attempts[j]] \in pool[d]

(* Attempt numbers tell executions apart even when two daemons serve one   *)
(* queue: no two slots hold the same attempt of a job, and a child about   *)
(* to be spawned is not the one of an execution that still runs.           *)
AttemptsTellExecutionsApart ==
  /\ \A d, e \in Daemons : d # e => pool[d] \cap pool[e] = {}
  /\ \A d \in Daemons : step[d] = "claimed" => focus[d] \notin alive

(* A pruned record never comes back, although every worker that still      *)
(* works on the job writes to it without looking.                          *)
PrunedStaysPruned ==
  [][\A j \in Jobs : status[j] = "pruned" => status'[j] = "pruned"]_vars

(* A project never runs two pipelines at once: at most one child process   *)
(* per project is alive ("evita execucoes concorrentes", project-lock.js). *)
OneChildPerProject ==
  \A r, q \in alive : SameProject(r.job, q.job) => r = q

(* Every child process has a daemon that waits for it.                     *)
ChildrenSupervised == \A run \in alive : \E d \in Daemons : run \in pool[d]

(* A completed recurring job has its successor once its worker has         *)
(* settled, as long as there was an identifier for it.                     *)
RecurrenceContinues ==
  \A j \in Recurring :
    status[j] = "completed" =>
      \/ \E k \in Jobs : derivedFrom[k] = j
      \/ \E d \in Daemons : step[d] = "requeue" /\ focus[d].job = j
      \/ FreshSuccessors(j) = {}

(* The daemon and everybody around it respect the promise made about one   *)
(* job (module JobLifecycle).                                              *)
Lifecycle ==
  INSTANCE JobLifecycle
    WITH Jobs <- Jobs, MaxAttempts <- MaxAttempts, status <- status, attempts <- attempts
ImplementsLifecycle == Lifecycle!Spec

(* An execution ends: a job does not stay running or cancelling while a    *)
(* daemon serves.                                                          *)
SomeLive == \E d \in Daemons : Live(d)
ExecutionEnds ==
  \A j \in Jobs : status[j] \in Active ~> status[j] \notin Active \/ ~SomeLive

(* A pending job is started, unless it is cancelled or the daemon stops.   *)
PendingIsStarted ==
  \A j \in Jobs :
    status[j] = "pending" ~>
      status[j] # "pending" \/ ~\E d \in Daemons : mode[d] \in Booting \cup {"up"}

(* A shutdown waits for the running jobs and then ends the daemon.         *)
ShutdownEnds == \A d \in Daemons : mode[d] = "closing" ~> mode[d] = "dead"
=============================================================================
